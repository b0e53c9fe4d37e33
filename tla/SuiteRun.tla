------------------------------ MODULE SuiteRun ------------------------------
(* One offline suite (internal/agenteval RunSuite and InspectSuite): the     *)
(* output directory is claimed, every planned trial is recorded in its own   *)
(* directory below it (AgentTrial describes one), the pairs are compared and *)
(* the report is published by a hard link.  All writes share one allowance.  *)
(* The context may end and the process may die between any two steps; the    *)
(* directory at rest is what InspectSuite judges.                            *)
EXTENDS Integers, FiniteSets, Sequences

CONSTANTS
    Pairs,        \* planned pairs: trial 2p-1 is a baseline, 2p its candidate
    Evaluations,  \* what grading a trial may find
    Allowances,   \* write allowances explored: metadata costs 1, evidence 2
    MaxRuns       \* bound: suites started on the same directory

ASSUME SuiteAssumption ==
    /\ {Pairs, MaxRuns} \subseteq Nat \ {0} /\ Allowances \subseteq Nat
    /\ \A e \in Evaluations :
          /\ DOMAIN e = {"outcome", "attempts", "committed", "failed", "error"}
          /\ {e.attempts, e.committed} \subseteq Nat /\ IsFiniteSet(e.failed)

VARIABLES
    pc,         \* where the runner stands
    runs,       \* suites started on this directory
    ended,      \* how the context ended: "", "canceled" or "timed_out"
    left,       \* suiteWriteBudget.remaining
    exhausted,  \* suiteWriteBudget.exhausted
    next,       \* the trial to run
    cause,      \* an error was recorded as the cause
    report,     \* the SuiteReport in memory
    answer,     \* what the caller was told: "none", "ok", "error" or "refused"
    made,       \* the output directory: "missing", "empty", "torn", "claimed"
    plan,       \* plan.json: "absent", "torn" or "whole"
    dirs,       \* the trial directories
    pending,    \* report.pending.json
    published   \* report.json

memory == <<ended, left, exhausted, next, cause, report>>
disk == <<made, plan, dirs, pending, published>>
vars == <<pc, runs, memory, answer, disk>>

Trials == 1..(2 * Pairs)
Stopping == {"canceled", "timed_out"}

\* How far the writes of a trial came: nothing, the directory, a torn claim,
\* the claim, a torn closure or pending document, a whole one, the linked
\* terminal document with staging left over, the terminal document alone.
Reaches == {"absent", "empty", "torn", "claim", "tornStage", "staged",
            "residue", "published"}
NoEvaluation == [outcome |-> "", attempts |-> 0, committed |-> 0,
                 failed |-> {}, error |-> FALSE]
\* sealed: the document is complete, replayable evidence (otherwise it is
\* honestly partial); status is its ExecutionStatus.
Untouched == [reach |-> "absent", sealed |-> FALSE, status |-> "",
              eval |-> NoEvaluation]
Terminal(d) == d.reach \in {"residue", "published"}

NotStarted == [state |-> "not_started", status |-> "", sealed |-> FALSE,
               outcome |-> "", failure |-> ""]
NewReport == [status |-> "completed", failure |-> "",
              compared |-> "not_attempted", comparison |-> <<>>,
              rows |-> [t \in Trials |-> NotStarted]]
NoFile == [state |-> "absent", report |-> NewReport]
TornFile == [state |-> "torn", report |-> NewReport]

Init ==
    /\ pc = "start" /\ runs = 1 /\ ended = "" /\ left \in Allowances
    /\ exhausted = FALSE /\ next = 1 /\ cause = FALSE /\ report = NewReport
    /\ answer = "none"
    /\ made = "missing" /\ plan = "absent"
    /\ dirs = [t \in Trials |-> Untouched]
    /\ pending = NoFile /\ published = NoFile

------------------------------------------------------------------------------
(* compare.go: what a set of trial directories amounts to.                   *)

Passing(outcome) == outcome \in {"success", "expected_abstention"}
Scored == {"success", "expected_abstention", "task_failed", "policy_violation"}

\* inspectTrial: identities cannot disagree here, every directory is written
\* from the prepared plan.
TrialResult(d) ==
    LET result(state, validation) ==
            [state |-> state, validation |-> validation,
             status |-> IF state = "terminal" THEN d.status ELSE "",
             eval |-> IF validation \in {"valid", "not_evaluated"}
                      THEN d.eval ELSE NoEvaluation]
    IN  IF d.reach = "absent" THEN result("not_started", "missing")
        ELSE IF ~Terminal(d) THEN result("incomplete", "invalid")
        ELSE IF ~d.sealed THEN result("terminal", "partial")
        ELSE IF d.eval.outcome \notin Scored \/ d.eval.error
        THEN result("terminal", "not_evaluated")
        ELSE result("terminal", "valid")

\* Fault: a candidate is excused when the baseline failed some policy check.
RegressedWrong(b, c) ==
    \/ Passing(b.outcome) /\ ~Passing(c.outcome)
    \/ c.attempts > b.attempts
    \/ c.committed > b.committed
    \/ b.failed = {} /\ c.failed # {}
    \/ c.outcome = "policy_violation" /\ b.outcome # "policy_violation"

\* regressionReasons finds a reason.
Regressed(b, c) ==
    \/ Passing(b.outcome) /\ ~Passing(c.outcome)
    \/ c.attempts > b.attempts
    \/ c.committed > b.committed
    \/ ~(c.failed \subseteq b.failed)
    \/ c.outcome = "policy_violation" /\ b.outcome # "policy_violation"

PairDecision(b, c) ==
    IF ~({b.validation, c.validation} \subseteq {"valid"}) THEN "inconclusive"
    ELSE IF Regressed(b.eval, c.eval) THEN "regression"
    ELSE "no_regression_observed"

Priority == [no_regression_observed |-> 0, inconclusive |-> 1,
             incomparable |-> 2, regression |-> 3]

\* compareViewBefore: a result per trial, a decision per pair, the worst one.
\* Both trials of a pair run the same task, bundle and configuration, so no
\* pair is "incomparable".
Compared(ds) ==
    LET results == [t \in Trials |-> TrialResult(ds[t])]
        decisions == [p \in 1..Pairs |-> PairDecision(results[2 * p - 1], results[2 * p])]
        worst == CHOOSE p \in 1..Pairs :
                    \A q \in 1..Pairs : Priority[decisions[q]] <= Priority[decisions[p]]
    IN  [results |-> results, decisions |-> decisions, decision |-> decisions[worst]]

------------------------------------------------------------------------------
(* suite.go: RunSuite.                                                       *)

Fail == pc' = "done" /\ answer' = "error"

\* One write against the allowance: a write that does not fit leaves an empty
\* file and marks the allowance exhausted; a smaller one may fit later.  Any
\* write may also fail for reasons of its own.
WriteMeta(file, torn, whole) ==
    \/ /\ left >= 1 /\ left' = left - 1
       /\ file' \in {torn, whole} /\ exhausted' = exhausted
    \/ /\ left < 1 /\ exhausted' = TRUE
       /\ file' = torn /\ UNCHANGED left

\* The directory belongs to the run whose Mkdir made it; another run is
\* refused and touches nothing.
ClaimOutput ==
    /\ pc = "start"
    /\ \/ \* the context ended, the root is not usable or Mkdir failed
          pc' = "done" /\ answer' = "refused" /\ UNCHANGED <<memory, made>>
       \/ /\ ended = "" /\ made = "missing"
          /\ WriteMeta(made, "torn", "claimed")
          /\ IF made' = "claimed" THEN pc' = "plan" /\ UNCHANGED answer
             ELSE Fail
          /\ UNCHANGED <<ended, next, cause, report>>
    /\ UNCHANGED <<runs, plan, dirs, pending, published>>

WritePlan ==
    /\ pc = "plan"
    /\ WriteMeta(plan, "torn", "whole")
    /\ IF plan' = "whole" THEN pc' = "trial" /\ UNCHANGED answer ELSE Fail
    /\ UNCHANGED <<runs, ended, next, cause, report, made, dirs, pending, published>>

\* The members of a trial are its claim (1), its closure (2) and its pending
\* document (2), in this order; the first one that does not fit is left empty.
Spent(n) == IF n = 0 THEN 0 ELSE IF n = 1 THEN 1 ELSE 2 * n - 1
Fits(n) == left >= Spent(n)
Overrun == {n \in 0..2 : Fits(n) /\ ~Fits(n + 1)}
WritesOf(reach) == CASE reach \in {"absent", "empty"} -> 0
                     [] reach \in {"torn", "claim", "tornStage"} -> 1
                     [] reach = "staged" -> 2
                     [] OTHER -> 3

\* What recording one trial may leave behind, and whether it returned an error.
\* A recording that publishes may still be partial (a budget, the host or the
\* grading failed); one that stops before publishing returns an error.
Recorded ==
    [dir : [reach : Reaches \ {"residue", "published", "tornTerminal"}, sealed : {FALSE},
            status : {""}, eval : {NoEvaluation}], error : {TRUE}]
    \cup [dir : [reach : {"residue"}, sealed : {TRUE}, status : {"completed"},
                 eval : Evaluations], error : {TRUE}]
    \cup [dir : [reach : {"published"}, sealed : {TRUE}, status : {"completed"},
                 eval : Evaluations], error : {FALSE}]
    \cup [dir : [reach : {"published"}, sealed : {FALSE},
                 status : {"completed", "host_error"},
                 eval : {NoEvaluation}], error : {FALSE}]

\* The row of a trial: completed only when the recording returned no error and
\* complete evidence.  (A nil episode leaves the statuses empty.)
Row(r) ==
    LET good == ~r.error /\ r.dir.sealed
    IN  [state |-> IF good THEN "completed" ELSE "failed",
         status |-> r.dir.status, sealed |-> r.dir.sealed,
         outcome |-> r.dir.eval.outcome,
         failure |-> IF good THEN "" ELSE "SUITE_TRIAL_FAILED"]

\* One trial is recorded; the first one that fails is the last.
RunTrial ==
    /\ pc = "trial" /\ ended = "" /\ next <= 2 * Pairs
    /\ \E r \in Recorded :
          /\ IF Overrun = {}
             THEN /\ left' = left - Spent(WritesOf(r.dir.reach))
                  /\ UNCHANGED exhausted
             ELSE \* the write that does not fit, unless an error came first
                  LET n == CHOOSE m \in Overrun : TRUE
                      cut == <<"torn", "tornStage", "tornStage">>[n + 1]
                  IN  /\ WritesOf(r.dir.reach) <= n
                      /\ r.dir.reach = cut \/ WritesOf(r.dir.reach) < n
                      /\ exhausted' = (r.dir.reach = cut)
                      /\ left' = left - Spent(IF r.dir.reach = cut THEN n
                                              ELSE WritesOf(r.dir.reach))
          /\ dirs' = [dirs EXCEPT ![next] = r.dir]
          /\ report' = [report EXCEPT !.rows[next] = Row(r)]
          /\ cause' = (Row(r).state = "failed")
          /\ IF Row(r).state = "failed" \/ next = 2 * Pairs
             THEN pc' = "settle" /\ UNCHANGED next
             ELSE next' = next + 1 /\ UNCHANGED pc
    /\ UNCHANGED <<runs, ended, answer, made, plan, pending, published>>

\* Fresh inputs are decoded again before the recording; a failure stops the
\* suite with the row failed and no directory.
InputInvalid ==
    /\ pc = "trial" /\ ended = "" /\ next <= 2 * Pairs
    /\ report' = [report EXCEPT !.rows[next] =
                     [NotStarted EXCEPT !.state = "failed",
                                        !.failure = "SUITE_INPUT_INVALID"]]
    /\ cause' = TRUE /\ pc' = "settle"
    /\ UNCHANGED <<runs, ended, left, exhausted, next, answer, disk>>

\* The context ended before the next trial.
StopTrials ==
    /\ pc = "trial" /\ ended # ""
    /\ cause' = TRUE /\ pc' = "settle"
    /\ UNCHANGED <<runs, ended, left, exhausted, next, report, answer, disk>>

CodeOf == [canceled |-> "SUITE_CANCELED", timed_out |-> "SUITE_DEADLINE_EXCEEDED"]

Stopped(r) == [r EXCEPT !.status = ended, !.failure = CodeOf[ended]]

\* Why the trials ended; an exhausted allowance overrides the other reasons.
Settle ==
    /\ pc = "settle" /\ pc' = "compare"
    /\ report' = IF exhausted
                 THEN [report EXCEPT !.status = "stopped",
                                     !.failure = "SUITE_RESOURCE_LIMIT"]
                 ELSE IF ended # "" THEN Stopped(report)
                 ELSE IF cause THEN [report EXCEPT !.status = "stopped",
                                                   !.failure = "SUITE_TRIAL_FAILED"]
                 ELSE report
    /\ cause' = (cause \/ ended # "" \/ exhausted)
    /\ UNCHANGED <<runs, ended, left, exhausted, next, answer, disk>>

\* Fault: a failed comparison always names the failure.
CompareTrialsWrong ==
    /\ pc = "compare" /\ pc' = "report"
    /\ \/ ended # "" /\ UNCHANGED <<report, cause>>
       \/ /\ ended = ""
          /\ report' = [report EXCEPT !.compared = "complete",
                                      !.comparison = Compared(dirs)]
          /\ UNCHANGED cause
       \/ /\ cause' = TRUE
          /\ report' = [report EXCEPT !.compared = "failed",
                                      !.failure = "SUITE_COMPARISON_FAILED"]
    /\ UNCHANGED <<runs, ended, left, exhausted, next, answer, disk>>

\* The comparison reads the terminal documents back; it may fail (its byte
\* budget, the file system, a context that ends meanwhile).  It names the
\* failure only when nothing failed before.
CompareTrials ==
    /\ pc = "compare" /\ pc' = "report"
    /\ \/ ended # "" /\ UNCHANGED <<report, cause>>
       \/ /\ ended = ""
          /\ report' = [report EXCEPT !.compared = "complete",
                                      !.comparison = Compared(dirs)]
          /\ UNCHANGED cause
       \/ /\ cause' = TRUE
          /\ report' = [report EXCEPT !.compared = "failed",
                           !.failure = IF cause THEN @ ELSE "SUITE_COMPARISON_FAILED"]
    /\ UNCHANGED <<runs, ended, left, exhausted, next, answer, disk>>

\* A context that ended during the comparison is a cancellation, not a failed
\* comparison.  Then the report is staged.
WriteReport ==
    /\ pc = "report"
    /\ report' = IF ended # "" THEN Stopped(report) ELSE report
    /\ cause' = (cause \/ ended # "")
    /\ WriteMeta(pending, TornFile, [state |-> "whole", report |-> report'])
    /\ IF pending'.state = "whole" THEN pc' = "link" /\ UNCHANGED answer ELSE Fail
    /\ UNCHANGED <<runs, ended, next, made, plan, dirs, published>>

Link ==
    /\ pc = "link"
    /\ \/ published' = pending /\ pc' = "unlink" /\ UNCHANGED answer
       \/ Fail /\ UNCHANGED published
    /\ UNCHANGED <<runs, memory, made, plan, dirs, pending>>

\* Fault: staging that could not be removed is nobody's error.
UnlinkWrong ==
    /\ pc = "unlink" /\ pc' = "done"
    /\ answer' = (IF cause THEN "error" ELSE "ok")
    /\ pending' \in {NoFile, pending}
    /\ UNCHANGED <<runs, memory, made, plan, dirs, published>>

\* The staged name is removed; the cause decides what the caller is told.
Unlink ==
    /\ pc = "unlink" /\ pc' = "done"
    /\ \/ pending' = NoFile /\ answer' = (IF cause THEN "error" ELSE "ok")
       \/ answer' = "error" /\ UNCHANGED pending
    /\ UNCHANGED <<runs, memory, made, plan, dirs, published>>

------------------------------------------------------------------------------
(* The environment.                                                          *)

ContextEnds ==
    /\ pc \in {"start", "trial", "settle", "compare", "report"} /\ ended = ""
    /\ ended' \in Stopping
    /\ UNCHANGED <<pc, runs, left, exhausted, next, cause, report, answer, disk>>

Forget ==
    /\ ended' = "" /\ exhausted' = FALSE /\ left' = 0 /\ next' = 1
    /\ cause' = FALSE /\ report' = NewReport

\* The process dies, in the middle of a trial or of a write as well.
Crash ==
    /\ pc # "done" /\ pc' = "done" /\ answer' = "none"
    /\ \/ UNCHANGED dirs
       \/ /\ pc = "trial" /\ next <= 2 * Pairs
          /\ \E r \in Recorded : dirs' = [dirs EXCEPT ![next] = r.dir]
    /\ \/ UNCHANGED <<made, plan, pending>>
       \/ /\ pc = "start" /\ made = "missing"
          /\ made' \in {"empty", "torn"} /\ UNCHANGED <<plan, pending>>
       \/ pc = "plan" /\ plan' = "torn" /\ UNCHANGED <<made, pending>>
       \/ pc = "report" /\ pending' = TornFile /\ UNCHANGED <<made, plan>>
    /\ Forget
    /\ UNCHANGED <<runs, published>>

\* A suite is started again with an output that exists: it is refused whatever
\* its allowance.
RunAgain ==
    /\ pc = "done" /\ made # "missing" /\ runs < MaxRuns /\ runs' = runs + 1
    /\ pc' = "start" /\ answer' = "none"
    /\ Forget
    /\ UNCHANGED disk

------------------------------------------------------------------------------
(* suite_metadata.go and suite_inspect.go: InspectSuite of a directory at    *)
(* rest.                                                                     *)

FailureCodes == [completed |-> {"", "SUITE_COMPARISON_FAILED"},
                 stopped |-> {"SUITE_TRIAL_FAILED", "SUITE_RESOURCE_LIMIT"},
                 canceled |-> {"SUITE_CANCELED"},
                 timed_out |-> {"SUITE_DEADLINE_EXCEEDED"}]

\* decodeSuiteReport accepts a report.
Decodes(r) ==
    /\ (r.compared = "complete") <=> (r.comparison # <<>>)
    /\ r.failure \in FailureCodes[r.status]
    /\ r.status = "completed" =>
          /\ r.compared # "not_attempted"
          /\ (r.compared = "failed") <=> (r.failure = "SUITE_COMPARISON_FAILED")
          /\ \A t \in Trials : r.rows[t].state = "completed"
    /\ \A t \in Trials :
          LET row == r.rows[t]
          IN  /\ row.state = "not_started" => row = NotStarted
              /\ row.state = "completed" =>
                    row.status = "completed" /\ row.sealed /\ row.failure = ""
              /\ row.state = "failed" => row.failure # ""
              /\ (row.state # "not_started" /\ t > 1)
                    => r.rows[t - 1].state = "completed"

Broken(f) == f.state # "absent" /\ (f.state = "torn" \/ ~Decodes(f.report))

DirInvalid(d) == d.reach \in {"torn", "tornStage", "tornTerminal"}
DirResidue(d) == d.reach \in {"tornStage", "staged", "residue"}
DirComplete(d) == Terminal(d) /\ d.sealed

\* A report that was found must agree with the trials inspected beside it.
Disagrees(rep, ds) ==
    LET found == Compared(ds)
    IN  \/ rep.compared = "complete" /\ rep.comparison # found
        \/ /\ rep.status = "completed"
           /\ \E t \in Trials :
                 \/ ~DirComplete(ds[t])
                 \/ found.results[t].validation \notin {"valid", "not_evaluated"}
                 \/ found.results[t].status # rep.rows[t].status
                 \/ found.results[t].eval.outcome # rep.rows[t].outcome

Residue(o) == o.pending.state # "absent" \/ \E t \in Trials : DirResidue(o.dirs[t])

\* inspectSuiteView: the state it reports for an output directory.
State(o) ==
    LET reports == {f \in {o.pending, o.published} : f.state # "absent"}
    IN  IF o.made = "missing" THEN "not_started"
        ELSE IF o.made = "empty" THEN "incomplete_or_running"
        ELSE IF o.made = "torn" THEN "invalid"
        ELSE IF o.plan = "absent" THEN "incomplete_or_running"
        ELSE IF \/ o.plan = "torn"
                \/ \E f \in reports : Broken(f)
                \/ Cardinality(reports) = 2
                \/ \E t \in Trials : DirInvalid(o.dirs[t])
                \/ \E f \in reports : Disagrees(f.report, o.dirs)
        THEN "invalid"
        ELSE IF o.published.state = "absent" THEN "incomplete_or_running"
        ELSE IF o.published.report.status # "completed"
                \/ o.published.report.compared # "complete"
        THEN "published_unverified"
        ELSE IF Residue(o) THEN "published_with_residue" ELSE "published"

\* RegressionGatePassed.
GatePassed(o) ==
    State(o) = "published" /\ Compared(o.dirs).decision = "no_regression_observed"

Output == [made |-> made, plan |-> plan, dirs |-> dirs,
           pending |-> pending, published |-> published]

------------------------------------------------------------------------------
Runner ==
    \/ ClaimOutput \/ WritePlan \/ RunTrial \/ InputInvalid \/ StopTrials
    \/ Settle \/ CompareTrials \/ WriteReport \/ Link \/ Unlink

Next == Runner \/ ContextEnds \/ Crash \/ RunAgain

Spec == Init /\ [][Next]_vars

------------------------------------------------------------------------------
\* The runner's report is what its reader and its caller take it for.  Whatever
\* stopped the suite, and in whichever order the context ended, the allowance
\* ran out, a trial failed and the comparison failed, the report written is one
\* its own reader accepts and finds in agreement with the trials beside it:
\* only a torn member makes a suite "invalid".  And a caller told that the suite
\* succeeded finds it published, its gate open exactly when the comparison said so.
ReportIsAccepted ==
    pc = "done" =>
        /\ State(Output) = "invalid" =>
              \/ made = "torn" \/ plan = "torn" \/ pending.state = "torn"
              \/ \E t \in Trials : DirInvalid(dirs[t])
        /\ answer = "ok" =>
              /\ State(Output) = "published"
              /\ GatePassed(Output) <=> (published.report.comparison.decision
                                            = "no_regression_observed")

\* The gate is never open on a suite that failed, was stopped or was cut: every
\* planned trial is published, sealed and scored, no candidate lost a success
\* or failed a policy check its baseline passed, nothing is staged, and no
\* caller was told of an error.
GateIsEarned ==
    (pc = "done" /\ GatePassed(Output)) =>
        /\ answer # "error"
        /\ \A t \in Trials :
              /\ dirs[t].reach = "published" /\ dirs[t].sealed
              /\ dirs[t].eval.outcome \in Scored /\ ~dirs[t].eval.error
        /\ \A p \in 1..Pairs :
              LET b == dirs[2 * p - 1].eval
                  c == dirs[2 * p].eval
              IN  /\ Passing(b.outcome) => Passing(c.outcome)
                  /\ c.failed \subseteq b.failed
        /\ pending = NoFile

\* What a suite says of itself holds: RunSuite, InspectSuite and the gate of its
\* report agree with each other and with the trials on disk.
SuiteReportHolds == ReportIsAccepted /\ GateIsEarned
=============================================================================
