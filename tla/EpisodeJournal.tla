--------------------------- MODULE EpisodeJournal ---------------------------
(***************************************************************************)
(* The durable Episode Journal and the local runner, RunPersistent.        *)
(*                                                                         *)
(* Every Journal method is one SQLite transaction on one connection, so    *)
(* each is one atomic action.  A runner keeps in memory the lifecycle of   *)
(* the run it executes and the last sequence it persisted; between two of  *)
(* its transactions other callers may run and its process may die.  A      *)
(* transaction that writes reads the wall clock: now, its last argument.   *)
(***************************************************************************)
EXTENDS EpisodeLifecycle, Integers, FiniteSets

CONSTANTS
  Episodes,     \* Episode IDs
  Requests,     \* EpisodeRequest digests
  Evidence,     \* Evidence digests a run may produce
  Passed,       \* the digests whose report passed
  Runners,      \* concurrent RunPersistent calls
  MaxRecords,   \* limits.MaxEpisodeRecords
  None          \* absence of a value (an empty column)

ASSUME JournalAssumption ==
  /\ None \notin Episodes \cup Requests \cup Evidence
  /\ Passed \subseteq Evidence
  /\ MaxRecords \in Nat

VARIABLES
  episode,      \* table episodes
  events,       \* table episode_events, keyed by (episode, sequence)
  run,          \* the RunPersistent call each runner executes
  answered,     \* the digests ever answered to a caller as an Episode's Evidence
  written       \* the time the last transaction wrote into an Episode's rows, or
                \* Disordered once one wrote an earlier time than one before it

journalVars == <<episode, events, run, answered, written>>

Row == [status : Statuses \cup {"ABSENT"}, sequence : Sequences0,
        request : Requests \cup {None}, evidence : Evidence \cup {None},
        created : Nat,      \* created_at
        timely : BOOLEAN]   \* updated_at is not before created_at
NoRow == [status |-> "ABSENT", sequence |-> 0, request |-> None, evidence |-> None,
          created |-> 0, timely |-> TRUE]
NewRow(q, now) == [NoRow EXCEPT !.status = "CREATED", !.request = q, !.created = now]

Run == [on : Episodes \cup {None}, current : Statuses, sequence : Sequences0]
Idle == [on |-> None, current |-> "CREATED", sequence |-> 0]

Verdict(d) == IF d \in Passed THEN "SUCCEEDED" ELSE "ASSERTION_FAILED"

Exists(e) == episode[e].status # "ABSENT"

\* Fault: an update in the instant of the creation counts as before it.
TimelyLater(row, now) == row.created < now

\* Is a row updated at this time updated no earlier than it was created?
Timely(row, now) == row.created <= now

Disordered == 0 - 1

\* The rows of the Episodes in S are written with this time.
WrittenAt(S, now) ==
  [e \in Episodes |-> IF e \notin S THEN written[e]
                      ELSE IF written[e] \in 0..now THEN now ELSE Disordered]

JournalInit ==
  /\ episode = [e \in Episodes |-> NoRow]
  /\ events = [e \in Episodes |-> [i \in Sequences0 |-> NoEvent]]
  /\ run = [r \in Runners |-> Idle]
  /\ answered = [e \in Episodes |-> {}]
  /\ written = [e \in Episodes |-> 0]

-----------------------------------------------------------------------------
\* Fault: the reservation replaces whatever the ID was bound to.
CreateRowReplacing(e, q, now) ==
  /\ episode' = [episode EXCEPT ![e] = NewRow(q, now)]
  /\ events' = [events EXCEPT ![e] = [i \in Sequences0 |->
       IF i = 0 THEN Created ELSE NoEvent]]
  /\ written' = WrittenAt({e}, now)

\* createOrLoad, the branch that reserves a new Episode ID.
CreateRow(e, q, now) ==
  /\ ~Exists(e)
  /\ Cardinality({f \in Episodes : Exists(f)}) < MaxRecords
  /\ episode' = [episode EXCEPT ![e] = NewRow(q, now)]
  /\ events' = [events EXCEPT ![e][0] = Created]
  /\ written' = WrittenAt({e}, now)

\* createOrLoad, the branch that finds the ID bound to the same request, in a
\* record its readers admit.
LoadRow(e, q) ==
  /\ Exists(e)
  /\ episode[e].timely
  /\ episode[e].request = q
  /\ UNCHANGED <<episode, events, written>>

\* RunPersistent reserves the Episode and becomes its only executor.
Reserve(r, e, q, now) ==
  /\ run[r] = Idle
  /\ CreateRow(e, q, now)
  /\ run' = [run EXCEPT ![r] = [on |-> e, current |-> "CREATED", sequence |-> 0]]
  /\ UNCHANGED answered

\* RunPersistent finds terminal Evidence of the same request and answers it.
Reuse(r, e, q) ==
  /\ run[r] = Idle
  /\ LoadRow(e, q)
  /\ episode[e].status \in {"SUCCEEDED", "ASSERTION_FAILED"}
  /\ episode[e].evidence # None
  /\ answered' = [answered EXCEPT ![e] = @ \cup {episode[e].evidence}]
  /\ UNCHANGED run

\* RunPersistent refuses: scanRecord refuses the record, the ID is bound to
\* another request (conflict), the record is incomplete, or it ended without
\* Evidence.  Nothing is written.
Refuse(r, e, q) ==
  /\ run[r] = Idle
  /\ Exists(e)
  /\ \/ ~episode[e].timely
     \/ episode[e].request # q
     \/ ~IsTerminal(episode[e].status)
     \/ episode[e].status \in {"RUNTIME_ERROR", "CANCELLED"}
  /\ UNCHANGED journalVars

\* The compare-and-swap of appendTransition, complete and fail.
Holds(e, status, sequence) ==
  episode[e].status = status /\ episode[e].sequence = sequence

\* Fault: the sequence counts the transition twice.
NextSequenceTwice(r) == run[r].sequence + 2

\* The sequence of the next transition of a run.
NextSequence(r) == run[r].sequence + 1

\* observer and appendTransition: persist the next non-terminal transition.
Advance(r, now) ==
  LET e == run[r].on
      from == run[r].current
      to == Successor[from]
      next == NextSequence(r)
  IN /\ e # None
     /\ from \in DOMAIN Successor
     /\ Holds(e, from, run[r].sequence)
     /\ episode' = [episode EXCEPT ![e].status = to, ![e].sequence = next,
                                   ![e].timely = Timely(episode[e], now)]
     /\ events' = [events EXCEPT ![e][next] = Event(from, to)]
     /\ written' = WrittenAt({e}, now)
     /\ run' = [run EXCEPT ![r].current = to, ![r].sequence = next]
     /\ UNCHANGED answered

\* complete: terminal status, event and Evidence in one transaction.
Complete(r, d, now) ==
  LET e == run[r].on
      next == NextSequence(r)
  IN /\ e # None
     /\ run[r].current = "EVALUATING"
     /\ Holds(e, "EVALUATING", run[r].sequence)
     /\ episode' = [episode EXCEPT ![e].status = Verdict(d), ![e].sequence = next,
                                   ![e].evidence = d,
                                   ![e].timely = Timely(episode[e], now)]
     /\ written' = WrittenAt({e}, now)
     /\ events' = [events EXCEPT ![e][next] = Event("EVALUATING", Verdict(d))]
     /\ run' = [run EXCEPT ![r].current = Verdict(d), ![r].sequence = next]
     /\ UNCHANGED answered

\* RunPersistent returns the envelope it has just persisted.
Answer(r) ==
  LET e == run[r].on
  IN /\ e # None
     /\ IsTerminal(run[r].current)
     /\ answered' = [answered EXCEPT ![e] = @ \cup {episode[e].evidence}]
     /\ run' = [run EXCEPT ![r] = Idle]
     /\ UNCHANGED <<episode, events, written>>

\* The run fails (decoding, Scenario, oversized Evidence, a lost transition)
\* and fail records it where the lifecycle admits a RUNTIME_ERROR edge; a
\* CREATED or READY record stays as it is, incomplete.
RunError(r, now) ==
  LET e == run[r].on
      next == NextSequence(r)
  IN /\ e # None
     /\ ~IsTerminal(run[r].current)
     /\ run' = [run EXCEPT ![r] = Idle]
     /\ IF episode[e].sequence = run[r].sequence
           /\ Allowed(episode[e].status, "RUNTIME_ERROR")
        THEN /\ episode' = [episode EXCEPT ![e].status = "RUNTIME_ERROR",
                                           ![e].sequence = next,
                                           ![e].timely = Timely(episode[e], now)]
             /\ written' = WrittenAt({e}, now)
             /\ events' = [events EXCEPT ![e][next] =
                             Event(episode[e].status, "RUNTIME_ERROR")]
        ELSE UNCHANGED <<episode, events, written>>
     /\ UNCHANGED answered

\* The process dies; or complete fails, after which RunPersistent records
\* nothing; or fail itself fails because its context is already cancelled.
Abandon(r) ==
  /\ run[r].on # None
  /\ run' = [run EXCEPT ![r] = Idle]
  /\ UNCHANGED <<episode, events, answered, written>>

\* What runners do, at the times the wall clock may show them.
RunnerNext(Times) ==
  \E r \in Runners, now \in Times :
    \/ \E e \in Episodes, q \in Requests :
         Reserve(r, e, q, now) \/ Reuse(r, e, q) \/ Refuse(r, e, q)
    \/ Advance(r, now)
    \/ \E d \in Evidence : Complete(r, d, now)
    \/ Answer(r)
    \/ RunError(r, now)
    \/ Abandon(r)

\* By itself the Journal assumes nothing of the wall clock.
JournalSpec == JournalInit /\ [][RunnerNext(Nat)]_journalVars

-----------------------------------------------------------------------------
(***************************************************************************)
(* What the readers demand of a stored record.                             *)
(***************************************************************************)

\* scanRecord, its timestamps: updated_at is not before created_at.
TimesAdmitted(e) == episode[e].timely

\* scanRecord, the rest: Evidence exactly on the two verdict statuses, with its
\* outcome.
EvidenceAdmitted(e) ==
  IF episode[e].evidence # None
  THEN episode[e].status = Verdict(episode[e].evidence)
  ELSE episode[e].status \notin {"SUCCEEDED", "ASSERTION_FAILED"}

\* loadEvents: a contiguous legal chain of sequence + 1 events that ends in
\* the record's status and equals the lifecycle inside the Evidence.
LifecycleAdmitted(e) ==
  LET last == episode[e].sequence
  IN /\ \A i \in Sequences0 : events[e][i] # NoEvent <=> i <= last
     /\ events[e][0] = Created
     /\ events[e][last].to = episode[e].status
     /\ \A i \in 1..last : /\ events[e][i].from = events[e][i - 1].to
                           /\ Allowed(events[e][i].from, events[e][i].to)
     /\ episode[e].evidence # None =>
          events[e] = VerdictLifecycle(episode[e].status)

-----------------------------------------------------------------------------
(***************************************************************************)
(* Properties.                                                             *)
(***************************************************************************)
JournalTypeOK ==
  /\ episode \in [Episodes -> Row]
  /\ events \in [Episodes -> [Sequences0 -> Events]]
  /\ run \in [Runners -> Run]
  /\ answered \in [Episodes -> SUBSET Evidence]
  /\ written \in [Episodes -> Nat \cup {Disordered}]

\* No transaction wrote an earlier time into the Episode's rows than one before.
TimeRanForward(e) == written[e] # Disordered

\* Whatever the interleaving, the error path or the crash point, no record is
\* stored whose Evidence or lifecycle scanRecord and loadEvents refuse; and they
\* refuse its timestamps, so that episode inspect shows nothing of it, only where
\* time ran backwards between two transactions of that Episode.
EveryRecordAdmitted ==
  \A e \in Episodes : Exists(e) =>
    /\ EvidenceAdmitted(e)
    /\ LifecycleAdmitted(e)
    /\ TimeRanForward(e) => TimesAdmitted(e)

\* A runner's in-memory lifecycle is the durable one for as long as it runs:
\* its compare-and-swap is never lost, so no other runner or coordinator call
\* ever executes or moves the Episode it reserved.
RunnerMirrorsJournal ==
  \A r \in Runners : run[r].on # None =>
     Holds(run[r].on, run[r].current, run[r].sequence)

\* All callers that were ever handed Evidence for an Episode were handed the
\* same digest, the one the record holds (RunPersistent's reuse path, and
\* CompleteClaim's, against the path that first persists it).
AnswersAgree ==
  \A e \in Episodes : answered[e] \subseteq {episode[e].evidence} \ {None}

\* A terminal Episode record is never written again, neither its row nor its
\* events, and an Episode never changes the request it was reserved for.
KeepsTerminal ==
  \A e \in Episodes :
    /\ Exists(e) => episode'[e].request = episode[e].request
    /\ IsTerminal(episode[e].status) =>
         episode'[e] = episode[e] /\ events'[e] = events[e]

\* No transaction of the Journal rewrites a terminal Episode or rebinds an
\* Episode ID (appendTransition, complete and fail against finished records).
TerminalIsFinal == [][KeepsTerminal]_journalVars
=============================================================================
