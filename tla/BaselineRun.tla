----------------------------- MODULE BaselineRun -----------------------------
(* A paired baseline experiment (internal/baseline): Freeze copies its       *)
(* inputs and the whole trial list, RunShard executes the trials of one      *)
(* shard under a lease of the experiment, Assess inspects every trial again  *)
(* and decides.  Several processes run shards; any write may fail, a context *)
(* may end and a process may die between any two steps.  A session is one    *)
(* execution of a trial and what it leaves on disk (PluginSession and        *)
(* AgentTrial describe it).                                                  *)
EXTENDS Integers, Sequences, FiniteSets, FiniteSetsExt

CONSTANTS
    Runners,       \* processes that run shards
    Entry,         \* the pack entries, in plan order: [domain, required]
    Repeats,       \* repeats of an entry
    TrialsPerShard,
    Grades,        \* evaluations explored: [success, policy, effects]
    Floors,        \* the absolute success floor of a domain, in percent
    Delta,         \* the noninferiority margin, in percent
    Strata,        \* 2 in the code: domains an interval is estimated for
    MinRepeats,    \* 3, 20 and 8 in the code: smaller samples are not
    MinFamilies,   \* estimated
    MinPerDomain,
    None

ASSUME BaselineAssumption ==
    /\ Repeats \in Nat \ {0}
    /\ TrialsPerShard \in Nat \ {0}
    /\ Entry \in Seq([domain : DOMAIN Floors, required : BOOLEAN])
    /\ Len(Entry) > 0
    /\ Grades \subseteq [success : BOOLEAN, policy : Nat, effects : Nat]
    /\ None \notin Runners \cup {"pass"}

VARIABLES
    live,      \* mode: api-bridge-live, or offline-contract
    frozen,    \* the frozen directory: "none", "inputs", "torn" or "whole"
    lock,      \* shard.lock exists
    claimed,   \* shards whose directory exists
    planned,   \* trials whose plan file is written
    session,   \* what a trial left on disk
    seal,      \* the shard reports on disk
    run,       \* the running RunShard calls
    executed,  \* how often a trial was executed
    assess,    \* one Assess call
    verdict    \* its report

vars == <<live, frozen, lock, claimed, planned, session, seal, run, executed,
          assess, verdict>>

-----------------------------------------------------------------------------
(* The plan.                                                                 *)

\* Prepare: every entry is repeated, and the two configurations of a pair
\* swap their order from pair to pair.
Total == 2 * Len(Entry) * Repeats
Trials == 1..Total
PairOf(t) == (t - 1) \div 2
EntryOf(t) == PairOf(t) \div Repeats + 1
Candidate(t) == (PairOf(t) + t - 1) % 2 = 1
ShardOf(t) == (t - 1) \div TrialsPerShard + 1
Shards == {ShardOf(t) : t \in Trials}
TrialsOf(s) == {t \in Trials : ShardOf(t) = s}
First(s) == (s - 1) * TrialsPerShard + 1
Last(s) == IF s * TrialsPerShard < Total THEN s * TrialsPerShard ELSE Total
DomainOf(t) == Entry[EntryOf(t)].domain

-----------------------------------------------------------------------------
(* Sessions and what an inspection sees of them.                             *)

NoGrade == [success |-> FALSE, policy |-> 0, effects |-> 0]
Seen(state, verified, cleanup, grade) ==
    [state |-> state, verified |-> verified, cleanup |-> cleanup, grade |-> grade]

\* A session ends without a terminal, interrupted, or sealed and verifiable.
NoTerminal == [kind |-> "none", grade |-> NoGrade]
Interrupted == [kind |-> "interrupted", grade |-> NoGrade]
Sealed == {[kind |-> "sealed", grade |-> g] : g \in Grades}
Leftovers == {NoTerminal, Interrupted} \cup Sealed

Missing == Seen("missing", FALSE, "", NoGrade)

\* inspectTrial and inspectLiveTrial.  Offline, the plugin's Inspect answers
\* "unknown" for an execution that left no terminal.
Inspected(t) ==
    IF t \notin planned THEN Missing
    ELSE IF session[t].kind = "sealed"
         THEN Seen("completed", TRUE, "complete", session[t].grade)
    ELSE IF session[t].kind = "interrupted"
         THEN Seen("interrupted", FALSE, "complete", NoGrade)
    ELSE IF live THEN Missing ELSE Seen("unknown", FALSE, "unknown", NoGrade)

\* The same under a context that has ended: nothing verifies.
Abandoned(t) ==
    IF t \notin planned \/ ~live THEN Missing
    ELSE [Inspected(t) EXCEPT !.verified = FALSE, !.grade = NoGrade]

-----------------------------------------------------------------------------
(* Decide, for one observation per trial; Missing stands for none.           *)

Scorable(o) == o.state = "completed" /\ o.verified /\ o.cleanup = "complete"
Succeeds(o) == Scorable(o) /\ o.grade.success

\* Fault: policy failures are compared in total and not pair by pair.
HardFailWrong(obs) ==
    LET Failures(c) == MapThenSumSet(LAMBDA t : obs[t].grade.policy,
                                     {t \in Trials : Candidate(t) = c})
    IN \/ Failures(TRUE) > Failures(FALSE)
       \/ \E t \in Trials :
            /\ Candidate(t)
            /\ \/ obs[t].grade.effects > 0
               \/ Entry[EntryOf(t)].required /\ ~Succeeds(obs[t])

\* The candidate caused an illegal effect, missed a required task, or failed
\* more policy checks than the baseline in the same entry and repeat.
HardFail(obs) ==
    \E t \in Trials :
      /\ Candidate(t)
      /\ \/ obs[t].grade.effects > 0
         \/ Entry[EntryOf(t)].required /\ ~Succeeds(obs[t])
         \/ \E b \in Trials : /\ PairOf(b) = PairOf(t)
                              /\ ~Candidate(b)
                              /\ obs[t].grade.policy > obs[b].grade.policy

BelowFloor(obs) ==
    \E d \in {Entry[i].domain : i \in DOMAIN Entry} :
      LET Of == {t \in Trials : Candidate(t) /\ DomainOf(t) = d}
          Good == {t \in Of : Succeeds(obs[t])}
      IN 100 * Cardinality(Good) < Floors[d] * Cardinality(Of)

\* The difference of a family, times Repeats; each entry is its own family.
Difference(obs, i) ==
    LET Won(c) == {t \in Trials : /\ EntryOf(t) = i
                                  /\ Candidate(t) = c
                                  /\ Succeeds(obs[t])}
    IN Cardinality(Won(TRUE)) - Cardinality(Won(FALSE))

\* Bootstrap and the noninferiority gates.  A resample of a domain has its
\* mean between the smallest and the largest difference of the domain; which
\* of those values the fixed generator gives the two percentiles is left open.
Interval(obs) ==
    LET domains == {Entry[i].domain : i \in DOMAIN Entry}
        In(d) == {i \in DOMAIN Entry : Entry[i].domain = d}
        Of(d) == {Difference(obs, i) : i \in In(d)}
        low == MapThenSumSet(LAMBDA d : Min(Of(d)), domains)
        high == MapThenSumSet(LAMBDA d : Max(Of(d)), domains)
        margin == -(Delta * Strata * Repeats)
    IN IF \/ Cardinality(domains) # Strata
          \/ Repeats < MinRepeats
          \/ Len(Entry) < MinFamilies
          \/ \E d \in domains : Cardinality(In(d)) < MinPerDomain
       THEN {"inconclusive"}
       ELSE IF low = high THEN {"inconclusive"}
       ELSE {x \in {"pass", "fail", "inconclusive"} :
               /\ x = "pass" => 100 * high >= margin
               /\ x = "fail" => 100 * low < margin
               /\ x = "inconclusive" => 100 * low < margin /\ 100 * high >= margin}

\* Decide: evidence first, then policy and required tasks, then the floors,
\* then the interval.
Decide(obs) ==
    IF \E t \in Trials : ~Scorable(obs[t]) THEN {"invalid"}
    ELSE IF HardFail(obs) \/ BelowFloor(obs) THEN {"fail"}
    ELSE Interval(obs)

-----------------------------------------------------------------------------
(* Initial state.                                                            *)

NoRecord == [t \in {} |-> Missing]
NoRun == [pc |-> "idle", shard |-> 0, at |-> 0, failed |-> FALSE, rows |-> NoRecord]
NoSeal == [state |-> "absent", rows |-> NoRecord]
Torn == [state |-> "torn", rows |-> NoRecord]
NoAssess(pc) == [pc |-> pc, at |-> 0, cut |-> FALSE, recorded |-> NoRecord,
                 seen |-> NoRecord]
NoVerdict == [decision |-> None, shards |-> [s \in Shards |-> "missing"]]

Init ==
    /\ live \in BOOLEAN
    /\ frozen = "none"
    /\ lock = FALSE
    /\ claimed = {}
    /\ planned = {}
    /\ session = [t \in Trials |-> NoTerminal]
    /\ seal = [s \in Shards |-> NoSeal]
    /\ run = [p \in Runners |-> NoRun]
    /\ executed = [t \in Trials |-> 0]
    /\ assess = NoAssess("idle")
    /\ verdict = NoVerdict

experiment == <<frozen, lock, claimed, planned, session, seal, run, executed>>
reader == <<assess, verdict>>

-----------------------------------------------------------------------------
(* Freeze.                                                                   *)

\* The inputs are copied into a directory of their own.
FreezeInputs ==
    /\ frozen = "none"
    /\ frozen' = "inputs"
    /\ UNCHANGED <<live, lock, claimed, planned, session, seal, run, executed, reader>>

\* frozen.json, last: whole, or torn by a failing write or a crash.
FreezePlan ==
    /\ frozen = "inputs"
    /\ frozen' \in {"whole", "torn"}
    /\ UNCHANGED <<live, lock, claimed, planned, session, seal, run, executed, reader>>

-----------------------------------------------------------------------------
(* RunShard.                                                                 *)

At(p, pc) == run[p].pc = pc
Ends(p) == run' = [run EXCEPT ![p] = NoRun]
Goes(p, pc) == run' = [run EXCEPT ![p].pc = pc]
Holds(p) == run[p].pc # "idle"

Starts(p, s) == run' = [run EXCEPT ![p] = [NoRun EXCEPT !.pc = "claim", !.shard = s]]

\* Fault: the lease is taken without O_EXCL.
StartWrong(p, s) ==
    /\ At(p, "idle")
    /\ frozen = "whole"
    /\ lock' = TRUE
    /\ Starts(p, s)
    /\ UNCHANGED <<live, frozen, claimed, planned, session, seal, executed, reader>>

\* Load, the selection and, live, the approval of every selected trial, which
\* read what never changes; then the lease of the whole experiment.  A busy or
\* refused call changes nothing; when closing the new file fails, the call
\* returns before it has arranged to remove it.
Start(p, s) ==
    /\ At(p, "idle")
    /\ frozen = "whole"
    /\ ~lock
    /\ lock' = TRUE
    /\ Starts(p, s) \/ UNCHANGED run
    /\ UNCHANGED <<live, frozen, claimed, planned, session, seal, executed, reader>>

\* Fault: a directory that exists is taken over.
ClaimWrong(p) ==
    /\ At(p, "claim")
    /\ claimed' = claimed \cup {run[p].shard}
    /\ run' = [run EXCEPT ![p].pc = "plans",
              ![p].rows = [t \in TrialsOf(run[p].shard) |-> Missing]]
    /\ UNCHANGED <<live, frozen, lock, planned, session, seal, executed, reader>>

\* The directory of the shard is made exclusively; claim.json may fail.
Claim(p) ==
    /\ At(p, "claim")
    /\ \/ /\ run[p].shard \in claimed
          /\ Goes(p, "unlock")
          /\ UNCHANGED claimed
       \/ /\ run[p].shard \notin claimed
          /\ claimed' = claimed \cup {run[p].shard}
          /\ \/ Goes(p, "unlock")
             \/ run' = [run EXCEPT ![p].pc = "plans",
                       ![p].rows = [t \in TrialsOf(run[p].shard) |-> Missing]]
    /\ UNCHANGED <<live, frozen, lock, planned, session, seal, executed, reader>>

\* The plan files of the trials, in order; a failing one ends the call.
WritePlans(p) ==
    /\ At(p, "plans")
    /\ LET s == run[p].shard
       IN \E last \in (First(s) - 1)..Last(s) :
            /\ planned' = planned \cup {t \in TrialsOf(s) : t <= last}
            /\ IF last = Last(s)
               THEN run' = [run EXCEPT ![p].pc = "trial", ![p].at = First(s)]
               ELSE Goes(p, "unlock")
    /\ UNCHANGED <<live, frozen, lock, claimed, session, seal, executed, reader>>

\* The next trial of the loop, or the report: after the last one, or when the
\* context has ended, by ShardSeconds or by the caller.
NextTrial(p) ==
    /\ At(p, "trial")
    /\ \/ /\ run[p].at \in TrialsOf(run[p].shard)
          /\ Goes(p, "executing")
          /\ executed' = [executed EXCEPT ![run[p].at] = @ + 1]
       \/ /\ run' = [run EXCEPT ![p].pc = "report",
                       ![p].failed = run[p].at \in TrialsOf(run[p].shard)]
          /\ UNCHANGED executed
    /\ UNCHANGED <<live, frozen, lock, claimed, planned, session, seal, reader>>

\* The session ends and leaves what it leaves.  Without an error it is sealed;
\* an error may come after the seal too.
Execute(p) ==
    /\ At(p, "executing")
    /\ \E left \in Leftovers :
         /\ session' = [session EXCEPT ![run[p].at] = left]
         /\ \/ left \in Sealed /\ Goes(p, "inspect")
            \/ run' = [run EXCEPT ![p].pc = "report", ![p].failed = TRUE]
    /\ UNCHANGED <<live, frozen, lock, claimed, planned, seal, executed, reader>>

\* Fault: the observation is not stored in its row.
InspectTrialWrong(p) ==
    /\ At(p, "inspect")
    /\ run' = [run EXCEPT ![p].pc = "trial", ![p].at = @ + 1]
    /\ UNCHANGED <<live, frozen, lock, claimed, planned, session, seal, executed, reader>>

\* The trial is inspected from disk and its row recorded, unless the context
\* has ended.
InspectTrial(p) ==
    /\ At(p, "inspect")
    /\ \/ run' = [run EXCEPT ![p].pc = "report", ![p].failed = TRUE]
       \/ run' = [run EXCEPT ![p].pc = "trial", ![p].at = @ + 1,
                    ![p].rows[run[p].at] = Inspected(run[p].at)]
    /\ UNCHANGED <<live, frozen, lock, claimed, planned, session, seal, executed, reader>>

\* shard-report.json is made exclusively: until it is written it is torn.
Report(p) ==
    /\ At(p, "report")
    /\ \/ /\ seal[run[p].shard].state = "absent"
          /\ seal' = [seal EXCEPT ![run[p].shard] = Torn]
          /\ Goes(p, "writing")
       \/ /\ Goes(p, "unlock")
          /\ UNCHANGED seal
    /\ UNCHANGED <<live, frozen, lock, claimed, planned, session, executed, reader>>

\* It is written in place; a failing write may leave some of it, or all.
WriteReport(p) ==
    /\ At(p, "writing")
    /\ \E left \in {Torn,
                    [state |-> IF run[p].failed THEN "interrupted" ELSE "complete",
                     rows |-> run[p].rows]} :
         seal' = [seal EXCEPT ![run[p].shard] = left]
    /\ Goes(p, "unlock")
    /\ UNCHANGED <<live, frozen, lock, claimed, planned, session, executed, reader>>

\* The deferred removal of the lease; its error is ignored.
Unlock(p) ==
    /\ At(p, "unlock")
    /\ lock' \in {FALSE, TRUE}
    /\ Ends(p)
    /\ UNCHANGED <<live, frozen, claimed, planned, session, seal, executed, reader>>

\* The process dies: the lease and whatever is on disk stay, a report in the
\* making torn, and the session of a running trial ends by itself.
Die(p) ==
    /\ ~At(p, "idle")
    /\ Ends(p)
    /\ \/ UNCHANGED session
       \/ /\ At(p, "executing")
          /\ \E left \in Leftovers : session' = [session EXCEPT ![run[p].at] = left]
    /\ UNCHANGED <<live, frozen, lock, claimed, planned, seal, executed, reader>>

-----------------------------------------------------------------------------
(* Assess.                                                                   *)

Begin ==
    /\ assess.pc = "idle"
    /\ frozen = "whole"
    /\ assess' = [assess EXCEPT !.pc = "seals", !.at = 1]
    /\ UNCHANGED <<live, experiment, verdict>>

\* The report of one shard, and the rows it recorded.
ReadSeal ==
    /\ assess.pc = "seals"
    /\ LET s == assess.at
       IN /\ assess' = [assess EXCEPT
                !.pc = IF s + 1 \in Shards THEN "seals" ELSE "trials",
                !.at = IF s + 1 \in Shards THEN s + 1 ELSE 1,
                !.recorded = [t \in DOMAIN @ \cup DOMAIN seal[s].rows |->
                    IF t \in DOMAIN seal[s].rows THEN seal[s].rows[t] ELSE @[t]]]
          /\ verdict' = [verdict EXCEPT !.shards[s] =
                CASE seal[s].state = "absent" -> "missing"
                  [] seal[s].state = "torn" -> "invalid"
                  [] OTHER -> seal[s].state]
    /\ UNCHANGED <<live, experiment>>

\* One trial is inspected again and compared with its recorded row; the
\* context is looked at before the inspection only, and its error is dropped.
InspectAgain ==
    /\ assess.pc = "trials"
    /\ assess.at \in Trials
    /\ ~assess.cut
    /\ \E cut \in BOOLEAN :
         LET t == assess.at
             o == IF cut THEN Abandoned(t) ELSE Inspected(t)
         IN /\ assess' = [assess EXCEPT !.at = t + 1, !.cut = cut,
                            !.seen = [u \in DOMAIN @ \cup {t} |->
                                        IF u = t THEN o ELSE @[u]]]
            /\ verdict' = IF t \in DOMAIN assess.recorded /\ assess.recorded[t] # o
                          THEN [verdict EXCEPT !.shards[ShardOf(t)] = "invalid"]
                          ELSE verdict
    /\ UNCHANGED <<live, experiment>>

\* A context that ended before the next inspection: an error, and no report.
GiveUp ==
    /\ assess.pc = "trials"
    /\ assess.at \in Trials
    /\ assess' = NoAssess("done")
    /\ verdict' = NoVerdict
    /\ UNCHANGED <<live, experiment>>

\* Decide, overruled when a shard is missing, torn, interrupted or disproved.
Judge ==
    /\ assess.pc = "trials"
    /\ assess.at \notin Trials
    /\ assess' = [NoAssess("done") EXCEPT !.cut = assess.cut]
    /\ \E d \in Decide(assess.seen) :
         verdict' = [verdict EXCEPT !.decision =
             IF \A s \in Shards : verdict.shards[s] = "complete" THEN d ELSE "invalid"]
    /\ UNCHANGED <<live, experiment>>

-----------------------------------------------------------------------------

RunnerNext(p) ==
    \/ \E s \in Shards : Start(p, s)
    \/ Claim(p) \/ WritePlans(p) \/ NextTrial(p)
    \/ Execute(p) \/ InspectTrial(p)
    \/ Report(p) \/ WriteReport(p) \/ Unlock(p) \/ Die(p)

AssessNext ==
    Begin \/ ReadSeal \/ InspectAgain \/ GiveUp \/ Judge

Next ==
    \/ FreezeInputs \/ FreezePlan
    \/ \E p \in Runners : RunnerNext(p)
    \/ AssessNext

Spec == Init /\ [][Next]_vars

-----------------------------------------------------------------------------
(* Properties.                                                               *)

\* No trial is executed twice and no two of the experiment run at a time,
\* whoever repeats a shard, in whatever order and after whichever failure
\* (shard.go: "one execution lease", "never continues or retries another").
ExecutedOnce ==
    /\ \A t \in Trials : executed[t] <= 1
    /\ \A p, q \in Runners : Holds(p) /\ Holds(q) => p = q

\* "pass" is the word of the whole experiment: every planned trial was
\* executed, its session is sealed, every shard has a complete report, no
\* trial of the candidate had an illegal effect, none that is required
\* failed, and none failed more policy checks than its pair (shard.go Assess,
\* decision.go Decide).
PassIsWhole ==
    verdict.decision = "pass" =>
      /\ \A s \in Shards : seal[s].state = "complete"
      /\ \A t \in Trials :
           /\ executed[t] = 1
           /\ session[t] \in Sealed
           /\ Candidate(t) =>
                /\ session[t].grade.effects = 0
                /\ Entry[EntryOf(t)].required => session[t].grade.success
                /\ \A b \in Trials : PairOf(b) = PairOf(t) /\ ~Candidate(b) =>
                     session[t].grade.policy <= session[b].grade.policy

\* An assessment whose context lives never turns against a complete report:
\* when it declares a shard invalid, that shard has no complete report at that
\* moment, but one that is interrupted, torn, or still being written.  What a
\* run recorded is what every inspection finds (shard.go Assess).
CompleteStands ==
    [][\A s \in Shards :
         verdict.shards[s] # "invalid" /\ verdict'.shards[s] = "invalid" /\ ~assess'.cut =>
           seal[s].state # "complete"]_vars

\* A lease without a holder, left by a dead process or a failed removal, is
\* final: no process ever runs a shard of the experiment again (shard.go:
\* "never treated as permission to resume the old plan").
AbandonedIsFinal ==
    [][lock /\ (\A p \in Runners : ~Holds(p)) =>
         lock' /\ \A p \in Runners : ~Holds(p)']_vars
=============================================================================
