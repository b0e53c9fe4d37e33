------------------------- MODULE SuiteArchiveProofs -------------------------
(***************************************************************************)
(* What holds of a suite of any number of pairs, of its report, and of the *)
(* copies an export and an import make of it, whatever fails, is cancelled *)
(* or dies.                                                                *)
(***************************************************************************)
EXTENDS SuiteArchive, FiniteSetTheorems, TLAPS

-----------------------------------------------------------------------------
(***************************************************************************)
(* The inductive invariant of a suite.                                     *)
(***************************************************************************)
Evals == Evaluations \cup {NoEvaluation}
DirSet == [reach : Reaches \cup {"tornTerminal"}, sealed : BOOLEAN,
           status : {"", "completed", "host_error"}, eval : Evals]

\* A report has its fields and a row per trial.
Shaped(r) ==
  /\ r = [status |-> r.status, failure |-> r.failure, compared |-> r.compared,
          comparison |-> r.comparison, rows |-> r.rows]
  /\ r.status \in {"completed", "stopped", "canceled", "timed_out"}
  /\ r.compared \in {"not_attempted", "complete", "failed"}
  /\ DOMAIN r.rows = Trials

\* A directory with complete evidence and nothing staged.
Complete(d) == d.reach = "published" /\ d.sealed /\ d.status = "completed"

\* A file with a report its reader accepts and finds in agreement with ds; of a
\* completed suite every trial is complete.
Whole(f, ds) ==
  /\ f = [state |-> "whole", report |-> f.report]
  /\ Shaped(f.report) /\ Decodes(f.report) /\ ~Disagrees(f.report, ds)
  /\ f.report.status = "completed" => \A t \in Trials : Complete(ds[t])

Recording == {"trial", "settle", "compare", "report"}

DiskTypeOK ==
  /\ made \in {"missing", "empty", "torn", "claimed"}
  /\ plan \in {"absent", "torn", "whole"}
  /\ dirs \in [Trials -> DirSet]
  /\ pending \in {NoFile, TornFile} \/ Whole(pending, dirs)

MemoryTypeOK ==
  /\ pc \in {"start", "plan", "link", "unlink", "done"} \cup Recording
  /\ ended \in Stopping \cup {""}
  /\ exhausted \in BOOLEAN /\ cause \in BOOLEAN
  /\ next \in Trials
  /\ answer \in {"none", "ok", "error", "refused"}
  /\ Shaped(report)

\* What is on disk by the place of the runner: nothing before the claim, only
\* whole reports under the final name, nothing staged before the report.
DiskOK ==
  /\ \/ published = NoFile
     \/ Whole(published, dirs) /\ pending \in {NoFile, published}
  /\ made = "missing" => pc \in {"start", "done"} /\ plan = "absent"
  /\ plan # "whole" => pc \in {"start", "plan", "done"} /\ pending = NoFile /\ published = NoFile
  /\ pc # "start" /\ pc # "done" => made = "claimed"
  /\ pc = "plan" => plan = "absent"
  /\ pc # "start" /\ pc # "plan" /\ pc # "done" => plan = "whole"
  /\ pc \in Recording => pending = NoFile /\ published = NoFile
  /\ pc = "link" => pending = [state |-> "whole", report |-> report] /\ published = NoFile
  /\ pc = "unlink" => pending = [state |-> "whole", report |-> report] /\ published = pending

CompletedRow(d) == [state |-> "completed", status |-> "completed", sealed |-> TRUE,
                    outcome |-> d.eval.outcome, failure |-> ""]

\* The recorded trials come before the present one, the untouched after it.
Done(t) == Complete(dirs[t]) /\ report.rows[t] = CompletedRow(dirs[t])
RowsInOrder ==
  pc \in Recording =>
    /\ \A t \in Trials : t < next => Done(t)
    /\ \A t \in Trials : t > next => report.rows[t] = NotStarted
    /\ \/ report.rows[next] = NotStarted
       \/ report.rows[next].state = "failed" /\ report.rows[next].failure # ""
       \/ Done(next)
    /\ pc = "trial" => report.rows[next] = NotStarted

\* The report in memory says, from the first trial on, why the suite ended, and the cause that there was
\* a reason.
ReasonOK ==
  /\ pc \in {"start", "plan"} => report = NewReport /\ next = 1 /\ ~cause
  /\ pc \in {"trial", "settle"} =>
       report.status = "completed" /\ report.failure = ""
  /\ pc \in {"trial", "settle", "compare"} =>
       report.compared = "not_attempted" /\ report.comparison = <<>>
  /\ pc = "trial" => ~cause
  /\ pc \in {"settle", "compare"} /\ ~cause => \A t \in Trials : Done(t)
  /\ pc \in Recording => report.failure \in FailureCodes[report.status]
  /\ pc = "compare" => /\ cause <=> report.status # "completed"
                       /\ report.status = "completed" => report.failure = ""
  /\ pc = "report" =>
       /\ report.compared = "complete" <=> report.comparison # <<>>
       /\ report.compared = "complete" => report.comparison = Compared(dirs)
       /\ cause <=> report.status # "completed" \/ report.compared = "failed"
       /\ report.status = "completed" =>
            /\ \A t \in Trials : Done(t)
            /\ report.failure = "SUITE_COMPARISON_FAILED" <=> report.compared = "failed"
            /\ report.compared = "not_attempted" => ended # ""
  /\ pc \in {"link", "unlink"} =>
       (cause <=> ~(report.status = "completed" /\ report.compared = "complete"))

\* The suite is published, complete and compared, with nothing staged.
Succeeded ==
  /\ made = "claimed" /\ plan = "whole" /\ pending = NoFile /\ published # NoFile
  /\ published.report.status = "completed" /\ published.report.compared = "complete"

AnswerOK ==
  /\ pc # "done" => answer = "none"
  /\ answer = "ok" => Succeeded
  /\ answer = "error" => ~Succeeded

SuiteInv ==
  /\ DiskTypeOK
  /\ MemoryTypeOK
  /\ DiskOK
  /\ RowsInOrder
  /\ ReasonOK
  /\ AnswerOK

-----------------------------------------------------------------------------
(***************************************************************************)
(* The inductive invariant of its copies.                                  *)
(***************************************************************************)
\* An output directory has its members.
Members(o) == o = [made |-> o.made, plan |-> o.plan, dirs |-> o.dirs,
                   pending |-> o.pending, published |-> o.published]

Archived == [state |-> "whole", files |-> Output]

\* The suite while its report has the staged name only.
Staged == [made |-> made, plan |-> plan, dirs |-> dirs,
           pending |-> published, published |-> NoFile]

\* From the freeze on an export holds the suite that is still on disk, eligible;
\* the final name is free or holds that suite.
ExporterOK ==
  /\ exporter = [at |-> exporter.at, listed |-> exporter.listed,
                 files |-> exporter.files, told |-> exporter.told]
  /\ exporter.at \in {"idle", "freeze", "write", "link", "unlink", "done"}
  /\ archive = [pending |-> archive.pending, dest |-> archive.dest]
  /\ exporter.at \in {"write", "link", "unlink"} => exporter.files = Output /\ Eligible(Output)
  /\ exporter.at = "link" => archive.pending = Archived
  /\ \/ archive.dest = NoArchive
     \/ archive.dest = Archived /\ Eligible(Output)
  /\ exporter.at \in {"idle", "freeze", "write", "link"} => archive.dest = NoArchive

\* The members an import has written by its place; under the final name of the
\* report there is nothing before all the rest is there.
Importing == {"claim", "plan", "trials", "link", "unlink"}
CopyOK ==
  /\ Members(copy) /\ copy.dirs = [t \in Trials |-> copy.dirs[t]]
  /\ importer.at = "idle" => copy = Missing
  /\ importer.at = "claim" => copy = [Missing EXCEPT !.made = "empty"]
  /\ importer.at = "plan" => copy = [Missing EXCEPT !.made = "claimed"]
  /\ importer.at = "trials" =>
       /\ copy.made = "claimed" /\ copy.plan = "whole"
       /\ copy.pending = NoFile /\ copy.published = NoFile
       /\ \A t \in Trials : copy.dirs[t] \in {Untouched, dirs[t]}
  /\ importer.at = "link" => copy = Staged
  /\ importer.at = "unlink" => copy = [Output EXCEPT !.pending = published]
  /\ importer.at = "done" =>
       \/ copy.published = NoFile
       \/ archive.dest = Archived /\ copy \in {Output, [Output EXCEPT !.pending = published]}

ImporterOK ==
  /\ importer = [at |-> importer.at, files |-> importer.files, told |-> importer.told]
  /\ importer.at \in {"idle", "done"} \cup Importing
  /\ importer.at \in Importing => archive.dest = Archived /\ importer.files = Output
  /\ importer.at # "done" => importer.told = "none"
  /\ importer.told = "published" => archive.dest = Archived /\ copy = Output
  /\ importer.told \in {"refused", "failed"} => copy.published = NoFile

ArchiveInv ==
  /\ SuiteInv
  /\ ExporterOK
  /\ CopyOK
  /\ ImporterOK

-----------------------------------------------------------------------------
(***************************************************************************)
(* Reports, rows and comparisons.                                          *)
(***************************************************************************)
\* A comparison is not the missing one.
LEMMA ComparedIsSomething == \A ds : Compared(ds) # <<>>
<1> TAKE ds
<1>1. "decision" \in DOMAIN Compared(ds)
  BY DEF Compared
<1>2. DOMAIN <<>> = {}
  OBVIOUS
<1> QED
  BY <1>1, <1>2

\* The failure codes of each status, and the code of a context that ended.
LEMMA Codes ==
  /\ FailureCodes["completed"] = {"", "SUITE_COMPARISON_FAILED"}
  /\ FailureCodes["stopped"] = {"SUITE_TRIAL_FAILED", "SUITE_RESOURCE_LIMIT"}
  /\ \A e \in Stopping : CodeOf[e] \in FailureCodes[e]
<1>1. /\ FailureCodes["completed"] = {"", "SUITE_COMPARISON_FAILED"}
      /\ FailureCodes["stopped"] = {"SUITE_TRIAL_FAILED", "SUITE_RESOURCE_LIMIT"}
      /\ FailureCodes["canceled"] = {"SUITE_CANCELED"}
      /\ FailureCodes["timed_out"] = {"SUITE_DEADLINE_EXCEEDED"}
  BY DEF FailureCodes
<1>2. CodeOf["canceled"] = "SUITE_CANCELED" /\ CodeOf["timed_out"] = "SUITE_DEADLINE_EXCEEDED"
  BY DEF CodeOf
<1>3. \A e \in Stopping : e = "canceled" \/ e = "timed_out"
  BY DEF Stopping
<1> QED
  BY <1>1, <1>2, <1>3

\* Trials are numbered, and there is at least one pair.
LEMMA TrialNumbers ==
  /\ Pairs \in Nat /\ Pairs >= 1 /\ Trials = 1..(2 * Pairs)
  /\ \A t \in Trials : t \in Nat /\ t >= 1 /\ t <= 2 * Pairs
  /\ 1 \in Trials /\ 2 * Pairs \in Trials
<1>1. Pairs \in Nat \ {0}
  BY SuiteAssumption, Zenon
<1>2. Trials = 1..(2 * Pairs)
  BY DEF Trials
<1> QED
  BY <1>1, <1>2

\* Trials before and after one are other trials.
LEMMA OtherTrials ==
  ASSUME NEW n \in Trials, NEW t \in Trials, t < n \/ t > n
  PROVE  t # n
BY TrialNumbers

\* What a recording leaves is a trial directory, and its row is completed only
\* for complete evidence.
LEMMA RecordedRows ==
  ASSUME NEW r \in Recorded
  PROVE  /\ r.dir \in DirSet
         /\ Row(r).state \in {"completed", "failed"}
         /\ Row(r).state = "completed" => Complete(r.dir) /\ Row(r) = CompletedRow(r.dir)
         /\ Row(r).state = "failed" => Row(r).failure # ""
<1>1. r.dir \in DirSet /\ r.error \in BOOLEAN
  BY DEF Recorded, DirSet, Evals, Reaches
<1>2. ~r.error => r.dir.reach = "published"
  BY DEF Recorded
<1>3. r.dir.sealed => r.dir.status = "completed"
  BY DEF Recorded
<1>4. r.dir.sealed \in BOOLEAN
  BY <1>1 DEF DirSet
<1>5. CASE ~r.error /\ r.dir.sealed
  BY <1>1, <1>2, <1>3, <1>5 DEF Row, CompletedRow, Complete
<1>6. CASE ~(~r.error /\ r.dir.sealed)
  BY <1>1, <1>6 DEF Row
<1> QED
  BY <1>5, <1>6

\* What a comparison finds of a complete trial.
LEMMA ResultOfComplete ==
  ASSUME NEW d, Complete(d)
  PROVE  /\ TrialResult(d).validation \in {"valid", "not_evaluated"}
         /\ TrialResult(d).status = "completed"
         /\ TrialResult(d).eval = d.eval
BY DEF Complete, TrialResult, Terminal

\* The results of a comparison are those of its trials.
LEMMA ResultsCompared ==
  ASSUME NEW ds, NEW t \in Trials
  PROVE  Compared(ds).results[t] = TrialResult(ds[t])
<1>1. Compared(ds).results = [u \in Trials |-> TrialResult(ds[u])]
  BY DEF Compared
<1> QED
  BY <1>1

\* Rows of which the first are completed, the last of these at most failed,
\* and the others not started, are rows a reader accepts.
LEMMA RowsDecode ==
  ASSUME RowsInOrder, pc \in Recording, MemoryTypeOK, NEW t \in Trials
  PROVE  LET row == report.rows[t]
         IN  /\ row.state = "not_started" => row = NotStarted
             /\ row.state = "completed" =>
                   row.status = "completed" /\ row.sealed /\ row.failure = ""
             /\ row.state = "failed" => row.failure # ""
             /\ (row.state # "not_started" /\ t > 1)
                   => report.rows[t - 1].state = "completed"
<1>1. next \in Trials /\ t \in Nat /\ next \in Nat
  BY TrialNumbers DEF MemoryTypeOK
<1>2. \A u \in Trials : u < next => report.rows[u] = CompletedRow(dirs[u])
  BY DEF RowsInOrder, Done
<1>3. \A u \in Trials : u > next => report.rows[u] = NotStarted
  BY DEF RowsInOrder
<1>4. \/ report.rows[next] = NotStarted
      \/ report.rows[next].state = "failed" /\ report.rows[next].failure # ""
      \/ report.rows[next] = CompletedRow(dirs[next])
  BY DEF RowsInOrder, Done
<1>5. NotStarted.state = "not_started"
  BY DEF NotStarted
<1>6. \A d : /\ CompletedRow(d).state = "completed" /\ CompletedRow(d).status = "completed"
             /\ CompletedRow(d).sealed /\ CompletedRow(d).failure = ""
  BY DEF CompletedRow
<1>7. report.rows[t].state # "not_started" /\ t > 1 => t - 1 \in Trials /\ t - 1 < next
  BY <1>1, <1>3, <1>5, TrialNumbers
<1>8. t < next \/ t > next \/ t = next
  BY <1>1
<1>9. report.rows[t].state # "not_started" /\ t > 1 => report.rows[t - 1].state = "completed"
  BY <1>2, <1>6, <1>7
<1>10. \/ report.rows[t] = NotStarted
       \/ report.rows[t].state = "failed" /\ report.rows[t].failure # ""
       \/ report.rows[t] = CompletedRow(dirs[t])
  BY <1>2, <1>3, <1>4, <1>8
<1> QED
  BY <1>5, <1>6, <1>9, <1>10

\* A report whose reason and comparison are right agrees with the trials beside
\* it, and its reader accepts it.
LEMMA ReportIsRight ==
  ASSUME NEW r, Shaped(r), r.rows = report.rows, RowsInOrder, pc \in Recording, MemoryTypeOK,
         r.compared = "complete" <=> r.comparison # <<>>,
         r.compared = "complete" => r.comparison = Compared(dirs),
         r.failure \in FailureCodes[r.status],
         r.status = "completed" =>
           /\ \A t \in Trials : Done(t)
           /\ r.compared # "not_attempted"
           /\ r.failure = "SUITE_COMPARISON_FAILED" <=> r.compared = "failed"
  PROVE  Decodes(r) /\ ~Disagrees(r, dirs)
<1>1. ASSUME r.status = "completed", NEW t \in Trials
      PROVE  /\ Complete(dirs[t]) /\ r.rows[t].state = "completed"
             /\ Compared(dirs).results[t].validation \in {"valid", "not_evaluated"}
             /\ Compared(dirs).results[t].status = r.rows[t].status
             /\ Compared(dirs).results[t].eval.outcome = r.rows[t].outcome
  <2>1. Complete(dirs[t]) /\ r.rows[t] = CompletedRow(dirs[t])
    BY <1>1 DEF Done
  <2>2. Compared(dirs).results[t] = TrialResult(dirs[t])
    BY ResultsCompared
  <2>3. /\ r.rows[t].status = "completed" /\ r.rows[t].outcome = dirs[t].eval.outcome
        /\ r.rows[t].state = "completed"
    <3> DEFINE row == r.rows[t]
    <3>1. row = CompletedRow(dirs[t])
      BY <2>1
    <3> HIDE DEF row
    <3>2. /\ row.status = "completed" /\ row.outcome = dirs[t].eval.outcome
          /\ row.state = "completed"
      BY <3>1 DEF CompletedRow
    <3> QED
      BY <3>2 DEF row
  <2> QED
    BY <2>1, <2>2, <2>3, ResultOfComplete
<1>2. Decodes(r)
  BY <1>1, RowsDecode, ZenonT(60) DEF Decodes
<1>3. ~Disagrees(r, dirs)
  <2>1. \A t \in Trials : Complete(dirs[t]) => DirComplete(dirs[t])
    BY DEF Complete, DirComplete, Terminal
  <2> QED
    BY <1>1, <2>1 DEF Disagrees
<1> QED
  BY <1>2, <1>3

-----------------------------------------------------------------------------
(***************************************************************************)
(* The steps of a suite.                                                   *)
(***************************************************************************)
\* A fresh report has its fields, and its rows are not started.
LEMMA NewReportShape ==
  /\ Shaped(NewReport)
  /\ NewReport.status = "completed" /\ NewReport.failure = ""
  /\ NewReport.compared = "not_attempted" /\ NewReport.comparison = <<>>
  /\ \A t \in Trials : NewReport.rows[t] = NotStarted
BY DEF Shaped, NewReport

\* The two files that carry no report.
LEMMA FilesDiffer ==
  /\ NoFile.state = "absent" /\ TornFile.state = "torn" /\ NoFile # TornFile
  /\ \A f, ds : Whole(f, ds) => f.state = "whole" /\ f # NoFile /\ f # TornFile
BY DEF NoFile, TornFile, Whole

\* The types of the disk and of the memory are kept by a step that leaves the
\* trials and the report alone.
LEMMA TypesKept ==
  ASSUME DiskTypeOK, MemoryTypeOK, UNCHANGED <<dirs, next, report>>,
         made' \in {"missing", "empty", "torn", "claimed"},
         plan' \in {"absent", "torn", "whole"},
         pending' \in {NoFile, TornFile, pending},
         pc' \in {"start", "plan", "link", "unlink", "done"} \cup Recording,
         ended' \in Stopping \cup {""}, exhausted' \in BOOLEAN, cause' \in BOOLEAN,
         answer' \in {"none", "ok", "error", "refused"}
  PROVE  DiskTypeOK' /\ MemoryTypeOK'
<1>1. Whole(pending, dirs) /\ pending' = pending => Whole(pending, dirs)'
  OBVIOUS
<1>2. Shaped(report)'
  BY DEF MemoryTypeOK, Shaped
<1> QED
  BY <1>1, <1>2 DEF DiskTypeOK, MemoryTypeOK

\* A whole report stays whole beside the same trials.
LEMMA WholeKept ==
  ASSUME dirs' = dirs
  PROVE  /\ published' = published /\ Whole(published, dirs) => Whole(published, dirs)'
         /\ pending' = pending /\ Whole(pending, dirs) => Whole(pending, dirs)'
OBVIOUS

\* Before the first suite there is nothing.
LEMMA InitEstablishesSuiteInv == Init => SuiteInv
<1> SUFFICES ASSUME Init PROVE SuiteInv
  OBVIOUS
<1> USE DEF Init
<1>1. Untouched \in DirSet
  BY DEF Untouched, DirSet, Evals, Reaches
<1>2. DiskTypeOK
  BY <1>1 DEF DiskTypeOK
<1>3. MemoryTypeOK
  <2>1. next \in Trials /\ Shaped(report)
    BY NewReportShape, TrialNumbers
  <2> QED
    BY <2>1 DEF MemoryTypeOK
<1>4. DiskOK /\ RowsInOrder /\ ReasonOK /\ AnswerOK
  BY DEF DiskOK, RowsInOrder, ReasonOK, AnswerOK, Recording
<1> QED
  BY <1>2, <1>3, <1>4 DEF SuiteInv

\* The directory is claimed, or the run refused.
LEMMA ClaimOutputKeeps ==
  ASSUME SuiteInv, ClaimOutput
  PROVE  SuiteInv'
<1> USE DEF SuiteInv
<1>1. CASE pc' = "done" /\ answer' = "refused" /\ UNCHANGED <<memory, made, plan, dirs, pending, published>>
  <2>1. DiskTypeOK' /\ MemoryTypeOK'
    BY <1>1, TypesKept DEF DiskTypeOK, MemoryTypeOK, memory
  <2>2. DiskOK'
    BY <1>1, WholeKept DEF DiskOK, Recording
  <2>3. RowsInOrder' /\ ReasonOK' /\ AnswerOK'
    BY <1>1 DEF RowsInOrder, ReasonOK, AnswerOK, Recording
  <2> QED
    BY <2>1, <2>2, <2>3
<1>2. CASE /\ made = "missing" /\ WriteMeta(made, "torn", "claimed")
           /\ IF made' = "claimed" THEN pc' = "plan" /\ UNCHANGED answer ELSE Fail
           /\ UNCHANGED <<ended, next, cause, report, plan, dirs, pending, published>>
  <2>1. made' \in {"torn", "claimed"} /\ (exhausted' = exhausted \/ exhausted' = TRUE)
    BY <1>2 DEF WriteMeta
  <2>2. plan = "absent" /\ pending = NoFile /\ published = NoFile
    BY <1>2 DEF DiskOK
  <2>3. \/ made' = "claimed" /\ pc' = "plan" /\ answer' = answer
        \/ made' = "torn" /\ pc' = "done" /\ answer' = "error"
    BY <1>2, <2>1 DEF Fail
  <2>4. answer = "none"
    BY DEF ClaimOutput, AnswerOK
  <2>5. DiskTypeOK' /\ MemoryTypeOK'
    BY <1>2, <2>1, <2>3, TypesKept DEF DiskTypeOK, MemoryTypeOK
  <2>6. DiskOK' /\ RowsInOrder'
    BY <1>2, <2>1, <2>2, <2>3 DEF DiskOK, RowsInOrder, Recording
  <2>7. ReasonOK'
    BY <1>2, <2>3 DEF ClaimOutput, ReasonOK, Recording
  <2>8. AnswerOK'
    BY <1>2, <2>2, <2>3, <2>4 DEF AnswerOK, Succeeded
  <2> QED
    BY <2>5, <2>6, <2>7, <2>8
<1> QED
  BY <1>1, <1>2 DEF ClaimOutput

\* The plan is written, or the suite ends.
LEMMA WritePlanKeeps ==
  ASSUME SuiteInv, WritePlan
  PROVE  SuiteInv'
<1> USE DEF SuiteInv
<1>1. /\ pc = "plan" /\ UNCHANGED <<ended, next, cause, report, made, dirs, pending, published>>
      /\ plan' \in {"torn", "whole"} /\ (exhausted' = exhausted \/ exhausted' = TRUE)
      /\ \/ plan' = "whole" /\ pc' = "trial" /\ answer' = answer
         \/ plan' = "torn" /\ pc' = "done" /\ answer' = "error"
  BY DEF WritePlan, WriteMeta, Fail
<1>2. /\ answer = "none" /\ made = "claimed" /\ plan = "absent"
      /\ pending = NoFile /\ published = NoFile
      /\ report = NewReport /\ next = 1 /\ ~cause
  BY <1>1 DEF AnswerOK, DiskOK, ReasonOK
<1>3. DiskTypeOK' /\ MemoryTypeOK'
  BY <1>1, TypesKept DEF DiskTypeOK, MemoryTypeOK, Recording
<1>4. DiskOK'
  BY <1>1, <1>2 DEF DiskOK, Recording
<1>5. RowsInOrder'
  <2>1. \A t \in Trials : ~(t < 1)
    BY TrialNumbers
  <2>2. 1 \in Trials
    BY TrialNumbers
  <2> QED
    BY <1>1, <1>2, <2>1, <2>2, NewReportShape DEF RowsInOrder
<1>6. ReasonOK'
  BY <1>1, <1>2, NewReportShape, Codes DEF ReasonOK, Recording
<1>7. AnswerOK'
  BY <1>1, <1>2 DEF AnswerOK, Succeeded
<1> QED
  BY <1>3, <1>4, <1>5, <1>6, <1>7

\* A trial is recorded: it is done, or the last one.
LEMMA RunTrialKeeps ==
  ASSUME SuiteInv, RunTrial
  PROVE  SuiteInv'
<1> USE DEF SuiteInv
<1>1. PICK r \in Recorded :
        /\ dirs' = [dirs EXCEPT ![next] = r.dir]
        /\ report' = [report EXCEPT !.rows[next] = Row(r)]
        /\ cause' = (Row(r).state = "failed")
        /\ exhausted' \in BOOLEAN
        /\ \/ /\ Row(r).state = "failed" \/ next = 2 * Pairs
              /\ pc' = "settle" /\ next' = next
           \/ /\ ~(Row(r).state = "failed" \/ next = 2 * Pairs)
              /\ next' = next + 1 /\ pc' = pc
  <2>1. exhausted \in BOOLEAN
    BY DEF MemoryTypeOK
  <2> QED
    BY <2>1 DEF RunTrial
<1>2. pc = "trial" /\ UNCHANGED <<ended, answer, made, plan, pending, published>>
  BY DEF RunTrial
<1>3. /\ pending = NoFile /\ published = NoFile /\ plan = "whole" /\ made = "claimed"
      /\ answer = "none"
  BY <1>2 DEF DiskOK, AnswerOK, Recording
<1>4. /\ r.dir \in DirSet /\ Row(r).state \in {"completed", "failed"}
      /\ Row(r).state = "completed" => Complete(r.dir) /\ Row(r) = CompletedRow(r.dir)
      /\ Row(r).state = "failed" => Row(r).failure # ""
  BY RecordedRows
<1>5. next \in Trials /\ Shaped(report)
  BY DEF MemoryTypeOK
<1>6. /\ report'.status = report.status /\ report'.failure = report.failure
      /\ report'.compared = report.compared /\ report'.comparison = report.comparison
      /\ report'.rows = [report.rows EXCEPT ![next] = Row(r)]
      /\ Shaped(report')
  BY <1>1, <1>5 DEF Shaped
<1>7. /\ report'.rows[next] = Row(r) /\ dirs'[next] = r.dir
      /\ \A t \in Trials : t # next => report'.rows[t] = report.rows[t] /\ dirs'[t] = dirs[t]
  BY <1>1, <1>5, <1>6 DEF DiskTypeOK, Shaped
<1>8. \A t \in Trials : t # next /\ Done(t) => Done(t)'
  BY <1>7 DEF Done
<1>9. \A t \in Trials : t = next /\ Row(r).state = "completed" => Done(t)'
  BY <1>4, <1>7 DEF Done
<1>10. \A t \in Trials : t < next => Done(t)'
  <2>1. \A t \in Trials : t < next => Done(t) /\ t # next
    BY <1>2, <1>5, OtherTrials DEF RowsInOrder, Recording
  <2> QED
    BY <1>8, <2>1
<1>11. \A t \in Trials : t > next => report'.rows[t] = NotStarted
  <2>1. \A t \in Trials : t > next => report.rows[t] = NotStarted /\ t # next
    BY <1>2, <1>5, OtherTrials DEF RowsInOrder, Recording
  <2> QED
    BY <1>7, <2>1
<1>12. /\ report.status = "completed" /\ report.failure = "" /\ ~cause
       /\ report.compared = "not_attempted" /\ report.comparison = <<>>
  BY <1>2 DEF ReasonOK
<1>13. DiskTypeOK'
  BY <1>1, <1>2, <1>3, <1>4, <1>5 DEF DiskTypeOK
<1>14. CASE pc' = "settle" /\ next' = next
  <2>1. MemoryTypeOK'
    BY <1>1, <1>2, <1>6, <1>14 DEF MemoryTypeOK, Recording
  <2>2. DiskOK' /\ AnswerOK'
    BY <1>2, <1>3, <1>14 DEF DiskOK, AnswerOK, Recording
  <2>3. RowsInOrder'
    <3>1. \/ report'.rows[next'].state = "failed" /\ report'.rows[next'].failure # ""
          \/ Done(next)'
      BY <1>4, <1>5, <1>7, <1>9, <1>14
    <3> QED
      BY <1>10, <1>11, <1>14, <3>1 DEF RowsInOrder
  <2>4. ReasonOK'
    <3>1. ASSUME ~cause', NEW t \in Trials PROVE Done(t)'
      <4>1. Row(r).state # "failed"
        BY <1>1, <3>1
      <4>2. Row(r).state = "completed" /\ next = 2 * Pairs
        BY <1>1, <1>2, <1>4, <1>14, <4>1
      <4>3. t < next \/ t = next
        BY <4>2, TrialNumbers
      <4> QED
        BY <1>9, <1>10, <4>2, <4>3
    <3> QED
      BY <1>6, <1>12, <1>14, <3>1, Codes DEF ReasonOK, Recording
  <2> QED
    BY <1>13, <2>1, <2>2, <2>3, <2>4
<1>15. CASE ~(Row(r).state = "failed" \/ next = 2 * Pairs) /\ next' = next + 1 /\ pc' = pc
  <2>1. next + 1 \in Trials
    BY <1>5, <1>15, TrialNumbers
  <2>2. MemoryTypeOK'
    BY <1>1, <1>2, <1>6, <1>15, <2>1 DEF MemoryTypeOK, Recording
  <2>3. DiskOK' /\ AnswerOK'
    BY <1>2, <1>3, <1>15 DEF DiskOK, AnswerOK, Recording
  <2>4. RowsInOrder'
    <3>1. \A t \in Trials : t < next + 1 => Done(t)'
      <4>1. \A t \in Trials : t < next + 1 => t < next \/ t = next
        BY <1>5, TrialNumbers
      <4> QED
        BY <1>4, <1>9, <1>10, <1>15, <4>1
    <3>2. \A t \in Trials : t > next + 1 => t > next
      BY <1>5, TrialNumbers
    <3>3. report'.rows[next + 1] = NotStarted
      BY <1>5, <1>11, <2>1, TrialNumbers
    <3> QED
      BY <1>11, <1>15, <3>1, <3>2, <3>3 DEF RowsInOrder
  <2>5. ReasonOK'
    BY <1>1, <1>2, <1>4, <1>6, <1>12, <1>15, Codes DEF ReasonOK, Recording
  <2> QED
    BY <1>13, <2>2, <2>3, <2>4, <2>5
<1> QED
  BY <1>1, <1>14, <1>15

\* A trial whose input is invalid fails without a directory.
LEMMA InputInvalidKeeps ==
  ASSUME SuiteInv, InputInvalid
  PROVE  SuiteInv'
<1> USE DEF SuiteInv
<1> DEFINE row == [NotStarted EXCEPT !.state = "failed", !.failure = "SUITE_INPUT_INVALID"]
<1>1. /\ pc = "trial" /\ pc' = "settle" /\ cause' = TRUE
      /\ report' = [report EXCEPT !.rows[next] = row]
      /\ UNCHANGED <<ended, exhausted, next, answer, made, plan, dirs, pending, published>>
  BY DEF InputInvalid, disk
<1>2. row.state = "failed" /\ row.failure # ""
  BY DEF NotStarted
<1> HIDE DEF row
<1>3. next \in Trials /\ Shaped(report)
  BY DEF MemoryTypeOK
<1>4. /\ report'.status = report.status /\ report'.failure = report.failure
      /\ report'.compared = report.compared /\ report'.comparison = report.comparison
      /\ report'.rows = [report.rows EXCEPT ![next] = row]
      /\ Shaped(report')
  BY <1>1, <1>3 DEF Shaped
<1>5. /\ report'.rows[next] = row
      /\ \A t \in Trials : t # next => report'.rows[t] = report.rows[t]
  BY <1>3, <1>4 DEF Shaped
<1>6. DiskTypeOK'
  BY <1>1, WholeKept DEF DiskTypeOK
<1>7. MemoryTypeOK'
  BY <1>1, <1>4 DEF MemoryTypeOK, Recording
<1>8. DiskOK' /\ AnswerOK'
  BY <1>1 DEF DiskOK, AnswerOK, Recording
<1>9. RowsInOrder'
  <2>1. \A t \in Trials : t < next => Done(t) /\ t # next
    BY <1>1, <1>3, OtherTrials DEF RowsInOrder, Recording
  <2>2. \A t \in Trials : t > next => report.rows[t] = NotStarted /\ t # next
    BY <1>1, <1>3, OtherTrials DEF RowsInOrder, Recording
  <2>3. \A t \in Trials : t < next => Done(t)'
    BY <1>1, <1>5, <2>1 DEF Done
  <2> QED
    BY <1>1, <1>2, <1>3, <1>5, <2>2, <2>3 DEF RowsInOrder
<1>10. ReasonOK'
  BY <1>1, <1>4, Codes DEF ReasonOK, Recording
<1> QED
  BY <1>6, <1>7, <1>8, <1>9, <1>10

\* What is known of the rows stays known while trials and rows stay.
LEMMA RowsKept ==
  ASSUME RowsInOrder, pc \in Recording, report'.rows = report.rows, dirs' = dirs, next' = next,
         pc' = "trial" => pc = "trial"
  PROVE  RowsInOrder' /\ ((\A t \in Trials : Done(t)) => \A t \in Trials : Done(t)')
BY DEF RowsInOrder, Done

\* The trials stop, the reason is settled.
LEMMA StopTrialsKeeps ==
  ASSUME SuiteInv, StopTrials \/ Settle
  PROVE  SuiteInv'
<1> USE DEF SuiteInv
<1>1. CASE StopTrials
  <2>1. /\ pc = "trial" /\ pc' = "settle" /\ cause' = TRUE
        /\ UNCHANGED <<ended, exhausted, next, report, answer, made, plan, dirs, pending, published>>
    BY <1>1 DEF StopTrials, disk
  <2>2. DiskTypeOK' /\ MemoryTypeOK'
    BY <2>1, TypesKept DEF DiskTypeOK, MemoryTypeOK, Recording
  <2>3. DiskOK' /\ AnswerOK'
    BY <2>1 DEF DiskOK, AnswerOK, Recording
  <2>4. RowsInOrder'
    BY <2>1, RowsKept DEF Recording
  <2>5. ReasonOK'
    BY <2>1, Codes DEF ReasonOK, Recording
  <2> QED
    BY <2>2, <2>3, <2>4, <2>5
<1>2. CASE Settle
  <2>1. /\ pc = "settle" /\ pc' = "compare" /\ cause' = (cause \/ ended # "" \/ exhausted)
        /\ UNCHANGED <<ended, exhausted, next, answer, made, plan, dirs, pending, published>>
    BY <1>2 DEF Settle, disk
  <2>2. Shaped(report) /\ cause \in BOOLEAN /\ exhausted \in BOOLEAN /\ ended \in Stopping \cup {""}
    BY DEF MemoryTypeOK
  <2>3. /\ report.status = "completed" /\ report.failure = ""
        /\ report.compared = "not_attempted" /\ report.comparison = <<>>
    BY <2>1 DEF ReasonOK
  <2>4. /\ Shaped(report') /\ report'.rows = report.rows
        /\ report'.compared = "not_attempted" /\ report'.comparison = <<>>
        /\ cause' <=> report'.status # "completed"
        /\ report'.failure \in FailureCodes[report'.status]
        /\ report'.status = "completed" => report'.failure = "" /\ ~cause
    <3>1. CASE exhausted
      <4>1. report' = [report EXCEPT !.status = "stopped", !.failure = "SUITE_RESOURCE_LIMIT"]
        BY <1>2, <3>1 DEF Settle
      <4> QED
        BY <2>1, <2>2, <2>3, <3>1, <4>1, Codes DEF Shaped
    <3>2. CASE ~exhausted /\ ended # ""
      <4>1. report' = [report EXCEPT !.status = ended, !.failure = CodeOf[ended]]
        BY <1>2, <3>2 DEF Settle, Stopped
      <4>2. ended \in {"canceled", "timed_out"} /\ CodeOf[ended] \in FailureCodes[ended]
        BY <2>2, <3>2, Codes DEF Stopping
      <4> QED
        BY <2>1, <2>2, <2>3, <3>2, <4>1, <4>2 DEF Shaped
    <3>3. CASE ~exhausted /\ ended = "" /\ cause
      <4>1. report' = [report EXCEPT !.status = "stopped", !.failure = "SUITE_TRIAL_FAILED"]
        BY <1>2, <3>3 DEF Settle
      <4> QED
        BY <2>1, <2>2, <2>3, <3>3, <4>1, Codes DEF Shaped
    <3>4. CASE ~exhausted /\ ended = "" /\ ~cause
      <4>1. report' = report
        BY <1>2, <3>4 DEF Settle
      <4> QED
        BY <2>1, <2>2, <2>3, <3>4, <4>1, Codes
    <3> QED
      BY <2>2, <3>1, <3>2, <3>3, <3>4
  <2>5. DiskTypeOK'
    BY <2>1, WholeKept DEF DiskTypeOK
  <2>6. MemoryTypeOK'
    BY <2>1, <2>2, <2>4 DEF MemoryTypeOK, Recording
  <2>7. DiskOK' /\ AnswerOK'
    BY <2>1 DEF DiskOK, AnswerOK, Recording
  <2>8. RowsInOrder' /\ ((\A t \in Trials : Done(t)) => \A t \in Trials : Done(t)')
    BY <2>1, <2>4, RowsKept DEF Recording
  <2>9. ReasonOK'
    BY <2>1, <2>4, <2>8 DEF ReasonOK, Recording
  <2> QED
    BY <2>5, <2>6, <2>7, <2>8, <2>9
<1> QED
  BY <1>1, <1>2

\* The pairs are compared, or not.
LEMMA CompareTrialsKeeps ==
  ASSUME SuiteInv, CompareTrials
  PROVE  SuiteInv'
<1> USE DEF SuiteInv
<1>1. /\ pc = "compare" /\ pc' = "report"
      /\ UNCHANGED <<ended, exhausted, next, answer, made, plan, dirs, pending, published>>
  BY DEF CompareTrials, disk
<1>2. Shaped(report) /\ cause \in BOOLEAN
  BY DEF MemoryTypeOK
<1>3. /\ report.compared = "not_attempted" /\ report.comparison = <<>>
      /\ cause <=> report.status # "completed"
      /\ report.status = "completed" => report.failure = "" /\ \A t \in Trials : Done(t)
      /\ report.failure \in FailureCodes[report.status]
  BY <1>1 DEF ReasonOK, Recording
<1>4. /\ Shaped(report') /\ report'.rows = report.rows /\ cause' \in BOOLEAN
      /\ report'.status = report.status
      /\ report'.failure \in FailureCodes[report'.status]
      /\ report'.compared = "complete" <=> report'.comparison # <<>>
      /\ report'.compared = "complete" => report'.comparison = Compared(dirs)
      /\ cause' <=> report'.status # "completed" \/ report'.compared = "failed"
      /\ report'.status = "completed" =>
           /\ report'.failure = "SUITE_COMPARISON_FAILED" <=> report'.compared = "failed"
           /\ report'.compared = "not_attempted" => ended # ""
  <2>1. CASE ended # "" /\ UNCHANGED <<report, cause>>
    BY <1>2, <1>3, <2>1
  <2>2. CASE /\ report' = [report EXCEPT !.compared = "complete", !.comparison = Compared(dirs)]
             /\ cause' = cause
    <3>1. /\ report'.compared = "complete" /\ report'.comparison = Compared(dirs)
          /\ report'.status = report.status /\ report'.failure = report.failure
          /\ report'.rows = report.rows /\ Shaped(report')
      BY <1>2, <2>2 DEF Shaped
    <3>2. report'.comparison # <<>>
      BY <3>1, ComparedIsSomething
    <3> QED
      BY <1>2, <1>3, <2>2, <3>1, <3>2
  <2>3. CASE /\ cause' = TRUE
             /\ report' = [report EXCEPT !.compared = "failed",
                             !.failure = IF cause THEN @ ELSE "SUITE_COMPARISON_FAILED"]
    <3>1. /\ report'.compared = "failed" /\ report'.comparison = <<>>
          /\ report'.status = report.status
          /\ report'.failure = (IF cause THEN report.failure ELSE "SUITE_COMPARISON_FAILED")
          /\ report'.rows = report.rows /\ Shaped(report')
      BY <1>2, <1>3, <2>3 DEF Shaped
    <3>2. report'.status = "completed" => report'.failure = "SUITE_COMPARISON_FAILED"
      BY <1>3, <3>1
    <3>3. report'.failure \in FailureCodes[report'.status]
      BY <1>3, <3>1, Codes
    <3> QED
      BY <2>3, <3>1, <3>2, <3>3
  <2> QED
    BY <2>1, <2>2, <2>3 DEF CompareTrials
<1>5. DiskTypeOK'
  BY <1>1, WholeKept DEF DiskTypeOK
<1>6. MemoryTypeOK'
  BY <1>1, <1>4 DEF MemoryTypeOK, Recording
<1>7. DiskOK' /\ AnswerOK'
  BY <1>1 DEF DiskOK, AnswerOK, Recording
<1>8. RowsInOrder' /\ ((\A t \in Trials : Done(t)) => \A t \in Trials : Done(t)')
  BY <1>1, <1>4, RowsKept DEF Recording
<1>9. ReasonOK'
  <2>1. report'.status = "completed" => \A t \in Trials : Done(t)'
    BY <1>3, <1>4, <1>8
  <2> QED
    BY <1>1, <1>4, <2>1 DEF ReasonOK, Recording
<1> QED
  BY <1>5, <1>6, <1>7, <1>8, <1>9

\* The report that is staged is one its reader accepts.
LEMMA WriteReportKeeps ==
  ASSUME SuiteInv, WriteReport
  PROVE  SuiteInv'
<1> USE DEF SuiteInv
<1> DEFINE staged == [state |-> "whole", report |-> report']
<1>1. /\ pc = "report" /\ cause' = (cause \/ ended # "")
      /\ pending' \in {TornFile, staged} /\ (exhausted' = exhausted \/ exhausted' = TRUE)
      /\ IF pending'.state = "whole" THEN pc' = "link" /\ UNCHANGED answer
         ELSE pc' = "done" /\ answer' = "error"
      /\ UNCHANGED <<ended, next, made, plan, dirs, published>>
  BY DEF WriteReport, WriteMeta, Fail
<1>2. /\ Shaped(report) /\ ended \in Stopping \cup {""} /\ cause \in BOOLEAN
      /\ exhausted \in BOOLEAN
  BY DEF MemoryTypeOK
<1>3. /\ pending = NoFile /\ published = NoFile /\ made = "claimed" /\ plan = "whole"
      /\ answer = "none"
  BY <1>1 DEF DiskOK, AnswerOK, Recording
<1>4. /\ report.failure \in FailureCodes[report.status]
      /\ report.compared = "complete" <=> report.comparison # <<>>
      /\ report.compared = "complete" => report.comparison = Compared(dirs)
      /\ cause <=> report.status # "completed" \/ report.compared = "failed"
      /\ report.status = "completed" =>
           /\ \A t \in Trials : Done(t)
           /\ report.failure = "SUITE_COMPARISON_FAILED" <=> report.compared = "failed"
           /\ report.compared = "not_attempted" => ended # ""
  BY <1>1 DEF ReasonOK, Recording
<1>5. /\ Shaped(report') /\ report'.rows = report.rows
      /\ report'.compared = report.compared /\ report'.comparison = report.comparison
      /\ report'.failure \in FailureCodes[report'.status]
      /\ ended = "" => report' = report
      /\ ended # "" => report'.status # "completed"
  <2>1. CASE ended # ""
    <3>1. report' = [report EXCEPT !.status = ended, !.failure = CodeOf[ended]]
      BY <2>1 DEF WriteReport, Stopped
    <3>2. ended \in {"canceled", "timed_out"} /\ CodeOf[ended] \in FailureCodes[ended]
      BY <1>2, <2>1, Codes DEF Stopping
    <3> QED
      BY <1>2, <2>1, <3>1, <3>2 DEF Shaped
  <2>2. CASE ended = ""
    <3>1. report' = report
      BY <2>2 DEF WriteReport
    <3> QED
      BY <1>2, <1>4, <2>2, <3>1
  <2> QED
    BY <2>1, <2>2
<1>6. report.compared \in {"not_attempted", "complete", "failed"}
  BY <1>2 DEF Shaped
<1>7. /\ cause' <=> ~(report'.status = "completed" /\ report'.compared = "complete")
      /\ cause' \in BOOLEAN
  BY <1>1, <1>2, <1>4, <1>5, <1>6
<1>8. Decodes(report') /\ ~Disagrees(report', dirs)
  <2>1. report'.status = "completed" =>
          /\ \A t \in Trials : Done(t)
          /\ report'.compared # "not_attempted"
          /\ report'.failure = "SUITE_COMPARISON_FAILED" <=> report'.compared = "failed"
    BY <1>4, <1>5
  <2>2. pc \in Recording
    BY <1>1 DEF Recording
  <2> QED
    BY <1>4, <1>5, <2>1, <2>2, ReportIsRight
<1>9. Whole(staged, dirs) /\ staged.state = "whole"
  <2>1. report'.status = "completed" => \A t \in Trials : Complete(dirs[t])
    BY <1>4, <1>5 DEF Done
  <2> QED
    BY <1>5, <1>8, <2>1 DEF Whole
<1>10. \/ pending' = staged /\ pc' = "link" /\ answer' = "none"
       \/ pending' = TornFile /\ pc' = "done" /\ answer' = "error"
  BY <1>1, <1>3, <1>9, FilesDiffer
<1>11. DiskTypeOK'
  BY <1>1, <1>9, <1>10 DEF DiskTypeOK
<1>12. MemoryTypeOK'
  BY <1>1, <1>2, <1>5, <1>7, <1>10 DEF MemoryTypeOK
<1>13. DiskOK'
  BY <1>1, <1>3, <1>10 DEF DiskOK, Recording
<1>14. AnswerOK'
  BY <1>1, <1>3, <1>10, FilesDiffer DEF AnswerOK, Succeeded
<1>15. RowsInOrder' /\ ReasonOK'
  BY <1>7, <1>10 DEF RowsInOrder, ReasonOK, Recording
<1> QED
  BY <1>11, <1>12, <1>13, <1>14, <1>15

\* The report is linked, and its staged name removed.
LEMMA LinkKeeps ==
  ASSUME SuiteInv, Link \/ Unlink
  PROVE  SuiteInv'
<1> USE DEF SuiteInv
<1>1. CASE Link
  <2>1. /\ pc = "link" /\ UNCHANGED <<ended, exhausted, next, cause, report, made, plan, dirs, pending>>
        /\ \/ published' = pending /\ pc' = "unlink" /\ answer' = answer
           \/ published' = published /\ pc' = "done" /\ answer' = "error"
    BY <1>1 DEF Link, Fail, memory
  <2>2. /\ pending = [state |-> "whole", report |-> report] /\ published = NoFile
        /\ made = "claimed" /\ plan = "whole" /\ answer = "none" /\ Whole(pending, dirs)
    BY <2>1, FilesDiffer DEF DiskOK, DiskTypeOK, AnswerOK, Recording
  <2>3. DiskTypeOK' /\ MemoryTypeOK'
    BY <2>1, TypesKept DEF DiskTypeOK, MemoryTypeOK
  <2>4. DiskOK'
    BY <2>1, <2>2, WholeKept DEF DiskOK, Recording
  <2>5. RowsInOrder' /\ ReasonOK' /\ AnswerOK'
    BY <2>1, <2>2 DEF RowsInOrder, ReasonOK, AnswerOK, Succeeded, Recording
  <2> QED
    BY <2>3, <2>4, <2>5
<1>2. CASE Unlink
  <2>1. /\ pc = "unlink" /\ pc' = "done"
        /\ UNCHANGED <<ended, exhausted, next, cause, report, made, plan, dirs, published>>
        /\ \/ pending' = NoFile /\ answer' = (IF cause THEN "error" ELSE "ok")
           \/ answer' = "error" /\ pending' = pending
    BY <1>2 DEF Unlink, memory
  <2>2. /\ pending = [state |-> "whole", report |-> report] /\ published = pending
        /\ made = "claimed" /\ plan = "whole" /\ Whole(published, dirs) /\ published # NoFile
    BY <2>1, FilesDiffer DEF DiskOK, DiskTypeOK, Recording
  <2>3. /\ cause <=> ~(report.status = "completed" /\ report.compared = "complete")
        /\ cause \in BOOLEAN
    BY <2>1 DEF ReasonOK, MemoryTypeOK
  <2>4. DiskTypeOK' /\ MemoryTypeOK'
    BY <2>1, <2>3, TypesKept DEF DiskTypeOK, MemoryTypeOK
  <2>5. DiskOK'
    BY <2>1, <2>2, WholeKept DEF DiskOK, Recording
  <2>6. RowsInOrder' /\ ReasonOK'
    BY <2>1 DEF RowsInOrder, ReasonOK, Recording
  <2>7. AnswerOK'
    <3>1. Succeeded' <=> pending' = NoFile /\ ~cause
      BY <2>1, <2>2, <2>3 DEF Succeeded
    <3>2. CASE pending' = NoFile /\ answer' = (IF cause THEN "error" ELSE "ok")
      BY <2>1, <2>3, <3>1, <3>2 DEF AnswerOK
    <3>3. CASE answer' = "error" /\ pending' = pending
      BY <2>1, <2>2, <3>1, <3>3 DEF AnswerOK
    <3> QED
      BY <2>1, <3>2, <3>3
  <2> QED
    BY <2>4, <2>5, <2>6, <2>7
<1> QED
  BY <1>1, <1>2

\* The context ends.
LEMMA ContextEndsKeeps ==
  ASSUME SuiteInv, ContextEnds
  PROVE  SuiteInv'
<1> USE DEF SuiteInv
<1>1. /\ pc \in {"start", "trial", "settle", "compare", "report"}
      /\ ended' \in Stopping /\ ended' # ""
      /\ UNCHANGED <<pc, exhausted, next, cause, report, answer, made, plan, dirs, pending, published>>
  BY DEF ContextEnds, disk, Stopping
<1>2. DiskTypeOK' /\ MemoryTypeOK'
  BY <1>1, TypesKept DEF DiskTypeOK, MemoryTypeOK
<1>3. DiskOK'
  BY <1>1, WholeKept DEF DiskOK, Recording
<1>4. RowsInOrder' /\ ((\A t \in Trials : Done(t)) => \A t \in Trials : Done(t)')
  BY <1>1 DEF RowsInOrder, Done
<1>5. ReasonOK'
  BY <1>1, <1>4 DEF ReasonOK, Recording
<1>6. AnswerOK'
  BY <1>1 DEF AnswerOK, Succeeded
<1> QED
  BY <1>2, <1>3, <1>4, <1>5, <1>6

\* The process dies, or a suite is started again.
LEMMA CrashKeeps ==
  ASSUME SuiteInv, Crash \/ RunAgain
  PROVE  SuiteInv'
<1> USE DEF SuiteInv
<1>1. CASE Crash
  <2>1. /\ pc # "done" /\ pc' = "done" /\ answer' = "none" /\ published' = published
        /\ Forget
        /\ \/ dirs' = dirs
           \/ /\ pc = "trial"
              /\ \E r \in Recorded : dirs' = [dirs EXCEPT ![next] = r.dir]
        /\ \/ UNCHANGED <<made, plan, pending>>
           \/ /\ pc = "start" /\ made = "missing"
              /\ made' \in {"empty", "torn"} /\ UNCHANGED <<plan, pending>>
           \/ pc = "plan" /\ plan' = "torn" /\ UNCHANGED <<made, pending>>
           \/ pc = "report" /\ pending' = TornFile /\ UNCHANGED <<made, plan>>
    BY <1>1 DEF Crash
  <2>2. MemoryTypeOK'
    BY <2>1, NewReportShape, TrialNumbers DEF Forget, MemoryTypeOK
  <2>3. /\ dirs' \in [Trials -> DirSet]
        /\ dirs' = dirs \/ (pending' = NoFile /\ published = NoFile)
    <3>1. CASE dirs' = dirs
      BY <3>1 DEF DiskTypeOK
    <3>2. CASE pc = "trial" /\ \E r \in Recorded : dirs' = [dirs EXCEPT ![next] = r.dir]
      <4>1. pending = NoFile /\ published = NoFile /\ pending' = pending
        BY <2>1, <3>2 DEF DiskOK, Recording
      <4> QED
        BY <3>2, <4>1, RecordedRows DEF DiskTypeOK, MemoryTypeOK
    <3> QED
      BY <2>1, <3>1, <3>2
  <2>4. /\ pending' \in {pending, TornFile}
        /\ pending' # pending => published = NoFile /\ plan = "whole" /\ plan' = plan
    BY <2>1 DEF DiskOK, Recording
  <2>5. /\ made' \in {"missing", "empty", "torn", "claimed"}
        /\ plan' \in {"absent", "torn", "whole"}
        /\ made' = "missing" => plan' = "absent"
        /\ plan' # "whole" => pending' = NoFile /\ published = NoFile
    BY <2>1, <2>4 DEF DiskTypeOK, DiskOK, Recording
  <2>6. DiskTypeOK'
    BY <2>3, <2>4, <2>5, WholeKept DEF DiskTypeOK
  <2>7. DiskOK'
    BY <2>1, <2>3, <2>4, <2>5, WholeKept DEF DiskOK, Recording
  <2>8. RowsInOrder' /\ ReasonOK' /\ AnswerOK'
    BY <2>1 DEF RowsInOrder, ReasonOK, AnswerOK, Recording
  <2> QED
    BY <2>2, <2>6, <2>7, <2>8
<1>2. CASE RunAgain
  <2>1. /\ pc = "done" /\ made # "missing" /\ pc' = "start" /\ answer' = "none" /\ Forget
        /\ UNCHANGED <<made, plan, dirs, pending, published>>
    BY <1>2 DEF RunAgain, disk
  <2>2. MemoryTypeOK'
    BY <2>1, NewReportShape, TrialNumbers DEF Forget, MemoryTypeOK
  <2>3. DiskTypeOK'
    BY <2>1, WholeKept DEF DiskTypeOK
  <2>4. DiskOK'
    BY <2>1, WholeKept DEF DiskOK, Recording
  <2>5. RowsInOrder' /\ ReasonOK' /\ AnswerOK'
    BY <2>1 DEF RowsInOrder, ReasonOK, AnswerOK, Recording, Forget
  <2> QED
    BY <2>2, <2>3, <2>4, <2>5
<1> QED
  BY <1>1, <1>2

\* Every step of a suite keeps the invariant.
LEMMA NextKeeps ==
  ASSUME SuiteInv, [Next]_vars
  PROVE  SuiteInv'
<1>1. CASE UNCHANGED vars
  <2>1. /\ UNCHANGED <<pc, ended, exhausted, next, cause, report, answer>>
        /\ UNCHANGED <<made, plan, dirs, pending, published>>
    BY <1>1 DEF vars, memory, disk
  <2>2. DiskTypeOK' /\ MemoryTypeOK'
    BY <2>1, TypesKept, ZenonT(60) DEF SuiteInv, DiskTypeOK, MemoryTypeOK
  <2>3. DiskOK'
    BY <2>1, WholeKept DEF SuiteInv, DiskOK
  <2>4. RowsInOrder' /\ ((\A t \in Trials : Done(t)) => \A t \in Trials : Done(t)')
    BY <2>1 DEF SuiteInv, RowsInOrder, Done
  <2>5. ReasonOK'
    BY <2>1, <2>4 DEF SuiteInv, ReasonOK
  <2>6. AnswerOK'
    BY <2>1 DEF SuiteInv, AnswerOK, Succeeded
  <2> QED
    BY <2>2, <2>3, <2>4, <2>5, <2>6 DEF SuiteInv
<1>2. CASE Next
  BY <1>2, ClaimOutputKeeps, WritePlanKeeps, RunTrialKeeps, InputInvalidKeeps,
     StopTrialsKeeps, CompareTrialsKeeps, WriteReportKeeps, LinkKeeps,
     ContextEndsKeeps, CrashKeeps DEF Next, Runner
<1> QED
  BY <1>1, <1>2

\* The invariant holds of every suite.
THEOREM SuiteInvariant == Spec => []SuiteInv
<1>1. Init => SuiteInv
  BY InitEstablishesSuiteInv
<1>2. SuiteInv /\ [Next]_vars => SuiteInv'
  BY NextKeeps
<1> QED
  BY <1>1, <1>2, PTL DEF Spec

-----------------------------------------------------------------------------
(***************************************************************************)
(* What the invariant says of the directory at rest.                       *)
(***************************************************************************)
\* A directory whose published report is absent is not a suite that ended.
LEMMA StateUnpublished ==
  ASSUME NEW o, o.published.state = "absent"
  PROVE  State(o) \in {"not_started", "incomplete_or_running", "invalid"}
BY DEF State

\* What a state of "published" and its variants say of the directory.
LEMMA StatePublished ==
  ASSUME NEW o,
         State(o) \in {"published", "published_with_residue", "published_unverified"}
  PROVE  /\ o.made \notin {"missing", "empty", "torn"} /\ o.plan \notin {"absent", "torn"}
         /\ o.published.state # "absent"
         /\ ~ \E t \in Trials : DirInvalid(o.dirs[t])
         /\ ~Broken(o.published) /\ ~Disagrees(o.published.report, o.dirs)
         /\ State(o) # "published_unverified" =>
              o.published.report.status = "completed" /\ o.published.report.compared = "complete"
         /\ State(o) = "published" => ~Residue(o)
BY DEF State

\* A set of files that are all the same has not two elements.
LEMMA OneFile ==
  ASSUME NEW S, NEW f, S \subseteq {f}
  PROVE  Cardinality(S) # 2
<1>1. S = {} \/ S = {f}
  OBVIOUS
<1> QED
  BY <1>1, FS_EmptySet, FS_Singleton

\* The directory of a suite has whole reports only, and no two that differ.
LEMMA ReportsOnDisk ==
  ASSUME SuiteInv, pending.state # "torn"
  PROVE  /\ \A f \in {pending, published} : f.state # "absent" =>
              ~Broken(f) /\ ~Disagrees(f.report, dirs)
         /\ Cardinality({f \in {pending, published} : f.state # "absent"}) # 2
<1>1. /\ pending = NoFile \/ Whole(pending, dirs)
      /\ published = NoFile \/ Whole(published, dirs)
      /\ published = NoFile \/ pending \in {NoFile, published}
  BY FilesDiffer DEF SuiteInv, DiskTypeOK, DiskOK
<1>2. \A f : Whole(f, dirs) => ~Broken(f) /\ ~Disagrees(f.report, dirs)
  BY FilesDiffer DEF Whole, Broken
<1>3. \A f \in {pending, published} : f.state # "absent" => Whole(f, dirs)
  BY <1>1, FilesDiffer
<1>4. {f \in {pending, published} : f.state # "absent"} \subseteq
        {IF published = NoFile THEN pending ELSE published}
  BY <1>1, FilesDiffer
<1> QED
  BY <1>2, <1>3, <1>4, OneFile

\* Only a torn member makes a suite invalid.
LEMMA InvalidIsTorn ==
  ASSUME SuiteInv, State(Output) = "invalid"
  PROVE  \/ made = "torn" \/ plan = "torn" \/ pending.state = "torn"
         \/ \E t \in Trials : DirInvalid(dirs[t])
<1> SUFFICES ASSUME made # "torn", plan # "torn", pending.state # "torn",
                    ~ \E t \in Trials : DirInvalid(dirs[t])
             PROVE  FALSE
  OBVIOUS
<1> DEFINE reports == {f \in {pending, published} : f.state # "absent"}
<1>1. /\ Output.made = made /\ Output.plan = plan /\ Output.dirs = dirs
      /\ Output.pending = pending /\ Output.published = published
  BY DEF Output
<1>2. /\ \A f \in reports : ~Broken(f) /\ ~Disagrees(f.report, dirs)
      /\ Cardinality(reports) # 2
  BY ReportsOnDisk
<1> QED
  BY <1>1, <1>2 DEF State

\* A complete, compared suite with nothing staged is one its reader calls
\* published, and the comparison in its report is that of its trials.
LEMMA SucceededIsPublished ==
  ASSUME SuiteInv, Succeeded
  PROVE  /\ State(Output) = "published"
         /\ published.report.comparison = Compared(dirs)
<1> DEFINE reports == {f \in {pending, published} : f.state # "absent"}
<1>1. /\ Output.made = "claimed" /\ Output.plan = "whole" /\ Output.dirs = dirs
      /\ Output.pending = pending /\ Output.published = published
      /\ pending = NoFile /\ published # NoFile
      /\ published.report.status = "completed" /\ published.report.compared = "complete"
  BY DEF Output, Succeeded
<1>2. Whole(published, dirs) /\ pending.state = "absent" /\ published.state = "whole"
  BY <1>1, FilesDiffer DEF SuiteInv, DiskOK
<1>3. /\ \A f \in reports : ~Broken(f) /\ ~Disagrees(f.report, dirs)
      /\ Cardinality(reports) # 2
  BY <1>2, ReportsOnDisk
<1>4. ~Disagrees(published.report, dirs)
  BY <1>2 DEF Whole
<1>5. \A t \in Trials : ~DirInvalid(dirs[t]) /\ ~DirResidue(dirs[t])
  BY <1>1, <1>2 DEF Whole, Complete, DirInvalid, DirResidue
<1>6. ~Residue(Output)
  BY <1>1, <1>2, <1>5 DEF Residue
<1>7. State(Output) = "published"
  BY <1>1, <1>2, <1>3, <1>5, <1>6 DEF State
<1>8. published.report.comparison = Compared(dirs)
  BY <1>1, <1>4 DEF Disagrees
<1> QED
  BY <1>7, <1>8

\* Among the decisions of the pairs there is a worst one.
LEMMA WorstExists ==
  ASSUME NEW f, \A p \in 1..Pairs :
                  f[p] \in {"no_regression_observed", "inconclusive", "regression"}
  PROVE  \E p \in 1..Pairs : \A q \in 1..Pairs : Priority[f[q]] <= Priority[f[p]]
<1>1. /\ Priority["no_regression_observed"] = 0 /\ Priority["inconclusive"] = 1
      /\ Priority["regression"] = 3
  BY DEF Priority
<1>2. 1 \in 1..Pairs
  BY TrialNumbers
<1>3. \A q \in 1..Pairs : Priority[f[q]] \in {0, 1, 3}
  BY <1>1
<1> QED
  BY <1>1, <1>2, <1>3

\* When the comparison observed no regression, it observed none in any pair.
LEMMA NoRegression ==
  ASSUME NEW ds, Compared(ds).decision = "no_regression_observed", NEW p \in 1..Pairs
  PROVE  PairDecision(TrialResult(ds[2 * p - 1]), TrialResult(ds[2 * p]))
           = "no_regression_observed"
<1> DEFINE results == [t \in Trials |-> TrialResult(ds[t])]
           f == [q \in 1..Pairs |-> PairDecision(results[2 * q - 1], results[2 * q])]
           worst == CHOOSE w \in 1..Pairs :
                      \A q \in 1..Pairs : Priority[f[q]] <= Priority[f[w]]
<1>1. Compared(ds).decision = f[worst]
  BY DEF Compared
<1>2. \A q \in 1..Pairs :
        f[q] \in {"no_regression_observed", "inconclusive", "regression"}
  BY DEF PairDecision
<1>3. f[p] = PairDecision(results[2 * p - 1], results[2 * p])
  OBVIOUS
<1>4. 2 * p - 1 \in Trials /\ 2 * p \in Trials
  BY TrialNumbers
<1>5. results[2 * p - 1] = TrialResult(ds[2 * p - 1]) /\ results[2 * p] = TrialResult(ds[2 * p])
  BY <1>4
<1> HIDE DEF f, results
<1>6. worst \in 1..Pairs /\ \A q \in 1..Pairs : Priority[f[q]] <= Priority[f[worst]]
  BY <1>2, WorstExists
<1> HIDE DEF worst
<1>7. Priority[f[p]] <= 0
  BY <1>1, <1>6 DEF Priority
<1>8. /\ Priority["no_regression_observed"] = 0 /\ Priority["inconclusive"] = 1
      /\ Priority["regression"] = 3
  BY DEF Priority
<1>9. f[p] = "no_regression_observed"
  BY <1>2, <1>7, <1>8
<1> QED
  BY <1>3, <1>5, <1>9

\* The pair of a trial.
LEMMA PairOfTrial ==
  ASSUME NEW t \in Trials
  PROVE  \E p \in 1..Pairs : t = 2 * p - 1 \/ t = 2 * p
<1>1. t \in Nat /\ t >= 1 /\ t <= 2 * Pairs /\ Pairs \in Nat
  BY TrialNumbers
<1> DEFINE p == (t + 1) \div 2
<1>2. p \in 1..Pairs /\ (t = 2 * p - 1 \/ t = 2 * p)
  BY <1>1
<1> QED
  BY <1>2

\* A valid result is one of complete, scored evidence.
LEMMA ValidResult ==
  ASSUME NEW d, TrialResult(d).validation = "valid"
  PROVE  /\ TrialResult(d).eval = d.eval /\ d.sealed
         /\ d.eval.outcome \in Scored /\ ~d.eval.error
BY DEF TrialResult

\* The open gate is earned by the trials on disk.
LEMMA OpenGate ==
  ASSUME GatePassed(Output)
  PROVE  /\ \A t \in Trials :
               /\ TrialResult(dirs[t]).validation = "valid"
               /\ Terminal(dirs[t]) /\ ~DirResidue(dirs[t])
         /\ \A p \in 1..Pairs : ~Regressed(dirs[2 * p - 1].eval, dirs[2 * p].eval)
<1>1. /\ Output.dirs = dirs /\ Output.published = published
      /\ State(Output) = "published" /\ Compared(dirs).decision = "no_regression_observed"
  BY DEF GatePassed, Output
<1>2. ~Residue(Output)
  BY <1>1, StatePublished
<1>3. ASSUME NEW p \in 1..Pairs
      PROVE  /\ TrialResult(dirs[2 * p - 1]).validation = "valid"
             /\ TrialResult(dirs[2 * p]).validation = "valid"
             /\ ~Regressed(TrialResult(dirs[2 * p - 1]).eval, TrialResult(dirs[2 * p]).eval)
  BY <1>1, NoRegression DEF PairDecision
<1>4. \A t \in Trials : TrialResult(dirs[t]).validation = "valid"
  BY <1>3, PairOfTrial
<1>5. \A p \in 1..Pairs : ~Regressed(dirs[2 * p - 1].eval, dirs[2 * p].eval)
  <2> TAKE p \in 1..Pairs
  <2>1. /\ TrialResult(dirs[2 * p - 1]).eval = dirs[2 * p - 1].eval
        /\ TrialResult(dirs[2 * p]).eval = dirs[2 * p].eval
    BY <1>3, ValidResult
  <2> QED
    BY <1>3, <2>1
<1>6. \A t \in Trials : Terminal(dirs[t])
  BY <1>4 DEF TrialResult
<1>7. \A t \in Trials : ~DirResidue(dirs[t])
  BY <1>1, <1>2 DEF Residue
<1> QED
  BY <1>4, <1>5, <1>6, <1>7

\* What a suite says of itself follows from the invariant.
LEMMA ReportHolds ==
  ASSUME SuiteInv
  PROVE  SuiteReportHolds
<1>1. answer = "ok" => /\ State(Output) = "published"
                       /\ GatePassed(Output) <=>
                            (published.report.comparison.decision = "no_regression_observed")
  <2> SUFFICES ASSUME answer = "ok"
               PROVE  /\ State(Output) = "published"
                      /\ GatePassed(Output) <=>
                           (published.report.comparison.decision = "no_regression_observed")
    OBVIOUS
  <2>1. State(Output) = "published" /\ published.report.comparison = Compared(dirs)
    BY SucceededIsPublished DEF SuiteInv, AnswerOK
  <2>2. Output.dirs = dirs
    BY DEF Output
  <2> QED
    BY <2>1, <2>2 DEF GatePassed
<1>2. ReportIsAccepted
  BY <1>1, InvalidIsTorn DEF ReportIsAccepted
<1>3. ASSUME GatePassed(Output)
      PROVE  /\ answer # "error"
             /\ \A t \in Trials :
                  /\ dirs[t].reach = "published" /\ dirs[t].sealed
                  /\ dirs[t].eval.outcome \in Scored /\ ~dirs[t].eval.error
             /\ \A p \in 1..Pairs :
                   LET b == dirs[2 * p - 1].eval
                       c == dirs[2 * p].eval
                   IN  /\ Passing(b.outcome) => Passing(c.outcome)
                       /\ c.failed \subseteq b.failed
             /\ pending = NoFile
  <2>1. /\ Output.made = made /\ Output.plan = plan /\ Output.dirs = dirs
        /\ Output.pending = pending /\ Output.published = published
    BY DEF Output
  <2>2. State(Output) = "published"
    BY <1>3 DEF GatePassed
  <2>3. /\ made \notin {"missing", "empty", "torn"} /\ plan \notin {"absent", "torn"}
        /\ published.state # "absent"
        /\ published.report.status = "completed" /\ published.report.compared = "complete"
        /\ pending.state = "absent"
    BY <2>1, <2>2, StatePublished DEF Residue
  <2>4. pending = NoFile /\ published # NoFile
    BY <2>3, FilesDiffer DEF SuiteInv, DiskTypeOK
  <2>5. Succeeded
    BY <2>3, <2>4 DEF Succeeded, SuiteInv, DiskTypeOK
  <2>6. answer # "error"
    BY <2>5 DEF SuiteInv, AnswerOK
  <2>7. \A t \in Trials : /\ dirs[t].reach = "published" /\ dirs[t].sealed
                          /\ dirs[t].eval.outcome \in Scored /\ ~dirs[t].eval.error
    BY <1>3, OpenGate, ValidResult DEF Terminal, DirResidue
  <2>8. \A p \in 1..Pairs : ~Regressed(dirs[2 * p - 1].eval, dirs[2 * p].eval)
    BY <1>3, OpenGate
  <2> QED
    BY <2>4, <2>6, <2>7, <2>8 DEF Regressed
<1>4. GateIsEarned
  BY <1>3 DEF GateIsEarned
<1> QED
  BY <1>2, <1>4 DEF SuiteReportHolds

\* Whatever ends a suite, and in whichever order, RunSuite's report is one that
\* InspectSuite accepts and finds in agreement with the trials, and its gate is
\* open only on whole, scored trials without a regression.
THEOREM ReportsHold == Spec => []SuiteReportHolds
BY SuiteInvariant, ReportHolds, PTL

-----------------------------------------------------------------------------
(***************************************************************************)
(* Exports and imports.                                                    *)
(***************************************************************************)
\* The members of the suite's own directory.
LEMMA OutputMembers ==
  /\ Output.made = made /\ Output.plan = plan /\ Output.dirs = dirs
  /\ Output.pending = pending /\ Output.published = published
  /\ Members(Output)
BY DEF Output, Members

\* A suite an export accepts is at rest.
LEMMA EligibleIsAtRest ==
  ASSUME SuiteInv, Eligible(Output)
  PROVE  /\ made = "claimed" /\ plan = "whole" /\ pending = NoFile /\ published # NoFile
         /\ published.state # "absent"
         /\ pc \in {"start", "done"}
         /\ State(Output) = "published"
         /\ \A t \in Trials : dirs[t].reach = "published"
<1>1. /\ State(Output) = "published" /\ ~Residue(Output)
      /\ \A t \in Trials : DirComplete(dirs[t])
  BY OutputMembers DEF Eligible
<1>2. /\ made \notin {"missing", "empty", "torn"} /\ plan \notin {"absent", "torn"}
      /\ published.state # "absent"
  BY <1>1, StatePublished, OutputMembers
<1>3. pending.state = "absent" /\ \A t \in Trials : ~DirResidue(dirs[t])
  BY <1>1, OutputMembers DEF Residue
<1>4. made = "claimed" /\ plan = "whole" /\ pending = NoFile /\ published # NoFile
  BY <1>2, <1>3, FilesDiffer DEF SuiteInv, DiskTypeOK
<1>5. pc \in {"start", "done"}
  BY <1>4, FilesDiffer DEF SuiteInv, DiskOK, MemoryTypeOK
<1>6. \A t \in Trials : dirs[t].reach = "published"
  BY <1>1, <1>3 DEF DirComplete, Terminal, DirResidue
<1> QED
  BY <1>1, <1>2, <1>4, <1>5, <1>6

\* A suite an export accepts never changes again.
LEMMA EligibleStands ==
  ASSUME SuiteInv, [Next]_vars, Eligible(Output)
  PROVE  /\ UNCHANGED <<made, plan, dirs, pending, published>>
         /\ Output' = Output /\ Eligible(Output)'
<1>1. made = "claimed" /\ pc \in {"start", "done"}
  BY EligibleIsAtRest
<1>2. UNCHANGED <<made, plan, dirs, pending, published>>
  <2>1. CASE UNCHANGED vars
    BY <2>1 DEF vars, disk
  <2>2. CASE ClaimOutput
    BY <1>1, <2>2 DEF ClaimOutput
  <2>3. CASE WritePlan \/ RunTrial \/ InputInvalid \/ StopTrials \/ Settle \/ CompareTrials
    BY <1>1, <2>3 DEF WritePlan, RunTrial, InputInvalid, StopTrials, Settle, CompareTrials
  <2>4. CASE WriteReport \/ Link \/ Unlink
    BY <1>1, <2>4 DEF WriteReport, Link, Unlink
  <2>5. CASE ContextEnds \/ RunAgain
    BY <2>5 DEF ContextEnds, RunAgain, disk
  <2>6. CASE Crash
    BY <1>1, <2>6 DEF Crash
  <2> QED
    BY <2>1, <2>2, <2>3, <2>4, <2>5, <2>6 DEF Next, Runner
<1>3. Output' = Output
  BY <1>2 DEF Output
<1>4. Eligible(Output) <=> Eligible(Output')
  BY <1>3
<1>5. Eligible(Output)'
  BY <1>4
<1> QED
  BY <1>2, <1>3, <1>5

\* A whole archive is not the missing one.
LEMMA ArchivesDiffer == NoArchive # Archived /\ NoArchive.state = "absent" /\ Archived.state = "whole"
BY DEF NoArchive, Archived

\* An archive under its final name was made of an eligible suite, by an export
\* that got that far.
LEMMA ArchivedStands ==
  ASSUME ArchiveInv, [Next]_vars, archive' = archive, exporter' = exporter
  PROVE  /\ ExporterOK'
         /\ archive.dest = Archived => Eligible(Output) /\ UNCHANGED <<dirs, published, Output, Archived, Staged>>
<1>1. Eligible(Output) => Eligible(Output)' /\ UNCHANGED <<dirs, published, Output, Archived, Staged>>
  BY EligibleStands DEF ArchiveInv, Archived, Staged
<1>2. archive.dest = Archived => Eligible(Output)
  BY ArchivesDiffer DEF ArchiveInv, ExporterOK
<1>3. ExporterOK'
  BY <1>1, <1>2 DEF ArchiveInv, ExporterOK
<1> QED
  BY <1>1, <1>2, <1>3

\* The suite goes on: what was archived and copied of it still holds.
LEMMA SuiteStepKeeps ==
  ASSUME ArchiveInv, [Next]_vars, UNCHANGED archiveVars
  PROVE  ArchiveInv'
<1>1. SuiteInv'
  BY NextKeeps DEF ArchiveInv
<1>2. UNCHANGED <<exporter, archive, importer, copy>>
  BY DEF archiveVars
<1>3. ExporterOK'
  BY <1>2, ArchivedStands
<1>4. CASE archive.dest = Archived
  <2>1. UNCHANGED <<dirs, published, Output, Archived, Staged>>
    BY <1>2, <1>4, ArchivedStands
  <2>2. CopyOK' /\ ImporterOK'
    BY <1>2, <2>1 DEF ArchiveInv, CopyOK, ImporterOK, Members
  <2> QED
    BY <1>1, <1>3, <2>2 DEF ArchiveInv
<1>5. CASE archive.dest # Archived
  <2>1. importer.at \in {"idle", "done"} /\ importer.told # "published"
    BY <1>5 DEF ArchiveInv, ImporterOK
  <2>2. CopyOK'
    BY <1>2, <1>5, <2>1 DEF ArchiveInv, CopyOK, Members, Missing
  <2>3. ImporterOK'
    BY <1>2, <2>1 DEF ArchiveInv, ImporterOK, Importing
  <2> QED
    BY <1>1, <1>3, <2>2, <2>3 DEF ArchiveInv
<1> QED
  BY <1>4, <1>5

\* A step of the export leaves the suite and the import as they are.
LEMMA ExporterKeeps ==
  ASSUME ArchiveInv, Exporter
  PROVE  ArchiveInv'
<1>1. UNCHANGED <<vars, importer, copy>>
  BY DEF Exporter, ListSuite, FreezeSuite, WriteArchive, LinkArchive, UnlinkArchive
<1>2. /\ UNCHANGED <<dirs, published, Output, Archived, Staged>>
      /\ Eligible(Output) <=> Eligible(Output')
      /\ SuiteInv'
  BY <1>1, NextKeeps DEF ArchiveInv, vars, disk, Output, Archived, Staged
<1>3. Eligible(Output) <=> Eligible(Output)'
  BY <1>2
<1>4. /\ exporter = [at |-> exporter.at, listed |-> exporter.listed,
                    files |-> exporter.files, told |-> exporter.told]
      /\ archive = [pending |-> archive.pending, dest |-> archive.dest]
      /\ ExporterOK
  BY DEF ArchiveInv, ExporterOK
<1>5. ExporterOK' /\ (archive.dest = Archived => archive'.dest = Archived)
  <2>1. CASE ListSuite
    BY <1>2, <1>3, <1>4, <2>1 DEF ListSuite, ExporterOK
  <2>2. CASE FreezeSuite
    <3>1. CASE ExportEnds("refused")
      BY <1>2, <1>3, <1>4, <2>2, <3>1 DEF FreezeSuite, ExporterOK, ExportEnds
    <3>2. CASE /\ Eligible(Output)
               /\ exporter' = [exporter EXCEPT !.at = "write", !.files = Output]
      BY <1>2, <1>3, <1>4, <2>2, <3>2 DEF FreezeSuite, ExporterOK
    <3> QED
      BY <2>2, <3>1, <3>2 DEF FreezeSuite
  <2>3. CASE WriteArchive
    BY <1>2, <1>3, <1>4, <2>3 DEF WriteArchive, ExporterOK, ExportEnds, Archived
  <2>4. CASE LinkArchive
    BY <1>2, <1>3, <1>4, <2>4 DEF LinkArchive, ExporterOK, ExportEnds
  <2>5. CASE UnlinkArchive
    BY <1>2, <1>3, <1>4, <2>5 DEF UnlinkArchive, ExporterOK, ExportEnds
  <2> QED
    BY <2>1, <2>2, <2>3, <2>4, <2>5 DEF Exporter
<1>6. CopyOK' /\ ImporterOK'
  BY <1>1, <1>2, <1>5 DEF ArchiveInv, CopyOK, ImporterOK, Members
<1> QED
  BY <1>2, <1>5, <1>6 DEF ArchiveInv

\* What a step of the import has to show.
LEMMA ImportStep ==
  ASSUME ArchiveInv, UNCHANGED <<vars, exporter, archive>>, CopyOK', ImporterOK'
  PROVE  ArchiveInv'
<1>1. [Next]_vars /\ exporter' = exporter /\ archive' = archive
  OBVIOUS
<1>2. SuiteInv' /\ ExporterOK'
  BY <1>1, NextKeeps, ArchivedStands DEF ArchiveInv
<1> QED
  BY <1>2 DEF ArchiveInv

\* An import that ends without a report under its final name.
LEMMA ImportFails ==
  ASSUME ArchiveInv, UNCHANGED <<vars, exporter, archive>>, importer.at # "done",
         \E told \in {"none", "refused", "failed"} : ImportEnds(told),
         Members(copy'), copy'.dirs = [t \in Trials |-> copy'.dirs[t]],
         copy'.published = NoFile
  PROVE  ArchiveInv'
<1>1. PICK told \in {"none", "refused", "failed"} :
        importer' = [importer EXCEPT !.at = "done", !.told = told]
  BY DEF ImportEnds
<1>2. importer = [at |-> importer.at, files |-> importer.files, told |-> importer.told]
  BY DEF ArchiveInv, ImporterOK
<1>3. /\ importer' = [at |-> importer'.at, files |-> importer'.files, told |-> importer'.told]
      /\ importer'.at = "done" /\ importer'.told = told
  BY <1>1, <1>2
<1>4. CopyOK' /\ ImporterOK'
  BY <1>3 DEF CopyOK, ImporterOK, Importing, Members
<1> QED
  BY <1>4, ImportStep

\* An import that goes on.
LEMMA ImportGoesOn ==
  ASSUME ArchiveInv, NEW at \in Importing, importer.at \in Importing, ImportGoes(at)
  PROVE  /\ importer'.at = at /\ importer'.files = importer.files /\ importer'.told = "none"
         /\ importer' = [at |-> importer'.at, files |-> importer'.files, told |-> importer'.told]
         /\ importer.files = Output /\ archive.dest = Archived /\ Eligible(Output)
<1>1. /\ importer = [at |-> importer.at, files |-> importer.files, told |-> importer.told]
      /\ importer.told = "none" /\ importer.files = Output /\ archive.dest = Archived
  BY DEF ArchiveInv, ImporterOK, Importing
<1>2. importer' = [importer EXCEPT !.at = at]
  BY DEF ImportGoes
<1>3. Eligible(Output)
  BY <1>1, ArchivesDiffer DEF ArchiveInv, ExporterOK
<1> QED
  BY <1>1, <1>2, <1>3

\* The archive is read, the copy's directory made.
LEMMA ReadArchiveKeeps ==
  ASSUME ArchiveInv, ReadArchive
  PROVE  ArchiveInv'
<1>1. /\ importer.at = "idle" /\ UNCHANGED <<vars, exporter, archive>>
      /\ archive.dest.state # "absent" /\ copy = Missing
  BY DEF ReadArchive, ArchiveInv, CopyOK
<1>2. archive.dest = Archived
  BY <1>1, ArchivesDiffer DEF ArchiveInv, ExporterOK
<1>3. Members(Missing) /\ Missing.published = NoFile /\ Missing.dirs = [t \in Trials |-> Missing.dirs[t]]
  BY DEF Members, Missing
<1>4. CASE ImportEnds("refused") /\ UNCHANGED copy
  BY <1>1, <1>3, <1>4, ImportFails
<1>5. CASE /\ importer' = [importer EXCEPT !.at = "claim", !.files = archive.dest.files]
           /\ copy' = [copy EXCEPT !.made = "empty"]
  <2>1. /\ importer = [at |-> importer.at, files |-> importer.files, told |-> importer.told]
        /\ importer.told = "none"
    BY <1>1 DEF ArchiveInv, ImporterOK
  <2>2. /\ importer'.at = "claim" /\ importer'.files = Output /\ importer'.told = "none"
        /\ importer' = [at |-> importer'.at, files |-> importer'.files, told |-> importer'.told]
    <3>1. archive.dest.files = Output
      BY <1>2 DEF Archived
    <3> QED
      BY <1>5, <2>1, <3>1
  <2>3. copy' = [Missing EXCEPT !.made = "empty"] /\ Members(copy')
        /\ copy'.dirs = [t \in Trials |-> copy'.dirs[t]]
    BY <1>1, <1>5 DEF Members, Missing
  <2>4. UNCHANGED <<dirs, published, Output, Archived, Staged>>
    BY <1>1 DEF vars, disk, Output, Archived, Staged
  <2>5. CopyOK'
    BY <2>2, <2>3 DEF CopyOK, Members
  <2>6. ImporterOK'
    BY <1>1, <1>2, <2>2, <2>4 DEF ImporterOK, Importing
  <2> QED
    BY <1>1, <2>5, <2>6, ImportStep
<1> QED
  BY <1>4, <1>5 DEF ReadArchive

\* A copy of which at most the claim and the plan were written.
Begun(m, p) == [made |-> m, plan |-> p, dirs |-> [t \in Trials |-> Untouched],
                pending |-> NoFile, published |-> NoFile]

\* It has its members, and no report.
LEMMA BegunCopies ==
  ASSUME NEW m, NEW p
  PROVE  /\ Members(Begun(m, p)) /\ Begun(m, p).published = NoFile
         /\ Begun(m, p).dirs = [t \in Trials |-> Begun(m, p).dirs[t]]
<1>1. Members(Begun(m, p)) /\ Begun(m, p).published = NoFile
  BY DEF Members, Begun
<1>2. Begun(m, p).dirs = [t \in Trials |-> Begun(m, p).dirs[t]]
  BY DEF Begun
<1> QED
  BY <1>1, <1>2

\* The claim and the plan are copied.
LEMMA CopyPlanKeeps ==
  ASSUME ArchiveInv, CopyClaim \/ CopyPlan
  PROVE  ArchiveInv'
<1>1. Members(Missing) /\ Missing.published = NoFile /\ Missing.dirs = [t \in Trials |-> Missing.dirs[t]]
      /\ \A t \in Trials : Missing.dirs[t] = Untouched
  BY DEF Members, Missing
<1>2. UNCHANGED <<vars, exporter, archive>> /\ importer.at \in Importing /\ importer.at # "done"
  BY DEF CopyClaim, CopyPlan, Copies, Importing
<1>3. UNCHANGED <<dirs, published, Output, Archived, Staged>>
  BY <1>2 DEF vars, disk, Output, Archived, Staged
<1>4. CASE CopyClaim
  <2>1. copy = [Missing EXCEPT !.made = "empty"]
    BY <1>4 DEF ArchiveInv, CopyOK, CopyClaim
  <2>2. CASE ImportEnds("failed") /\ copy' \in {copy, [copy EXCEPT !.made = "torn"]}
    <3>1. copy = Begun("empty", "absent")
      BY <2>1 DEF Missing, Begun
    <3>2. copy' = Begun("empty", "absent") \/ copy' = Begun("torn", "absent")
      BY <2>2, <3>1 DEF Begun
    <3>3. /\ Members(copy') /\ copy'.dirs = [t \in Trials |-> copy'.dirs[t]]
          /\ copy'.published = NoFile
      BY <3>2, BegunCopies
    <3> QED
      BY <1>2, <2>2, <3>3, ImportFails
  <2>3. CASE copy' = [copy EXCEPT !.made = "claimed"] /\ ImportGoes("plan")
    <3>1. /\ copy' = [Missing EXCEPT !.made = "claimed"] /\ Members(copy')
          /\ copy'.dirs = [t \in Trials |-> copy'.dirs[t]]
      BY <2>1, <2>3 DEF Members, Missing
    <3>2. "plan" \in Importing
      BY DEF Importing
    <3>3. CopyOK' /\ ImporterOK'
      BY <1>2, <1>3, <2>3, <3>1, <3>2, ImportGoesOn DEF CopyOK, ImporterOK, Members
    <3> QED
      BY <1>2, <3>3, ImportStep
  <2> QED
    BY <1>4, <2>2, <2>3 DEF CopyClaim, Copies
<1>5. CASE CopyPlan
  <2>1. copy = [Missing EXCEPT !.made = "claimed"]
    BY <1>5 DEF ArchiveInv, CopyOK, CopyPlan
  <2>2. CASE ImportEnds("failed") /\ copy' \in {copy, [copy EXCEPT !.plan = "torn"]}
    <3>1. copy = Begun("claimed", "absent")
      BY <2>1 DEF Missing, Begun
    <3>2. copy' = Begun("claimed", "absent") \/ copy' = Begun("claimed", "torn")
      BY <2>2, <3>1 DEF Begun
    <3>3. /\ Members(copy') /\ copy'.dirs = [t \in Trials |-> copy'.dirs[t]]
          /\ copy'.published = NoFile
      BY <3>2, BegunCopies
    <3> QED
      BY <1>2, <2>2, <3>3, ImportFails
  <2>3. CASE copy' = [copy EXCEPT !.plan = "whole"] /\ ImportGoes("trials")
    <3>1. /\ copy'.made = "claimed" /\ copy'.plan = "whole" /\ copy'.pending = NoFile
          /\ copy'.published = NoFile /\ Members(copy')
          /\ copy'.dirs = [t \in Trials |-> copy'.dirs[t]]
          /\ \A t \in Trials : copy'.dirs[t] = Untouched
      BY <2>1, <2>3 DEF Members, Missing
    <3>2. "trials" \in Importing
      BY DEF Importing
    <3>3. CopyOK' /\ ImporterOK'
      BY <1>2, <1>3, <2>3, <3>1, <3>2, ImportGoesOn DEF CopyOK, ImporterOK, Members
    <3> QED
      BY <1>2, <3>3, ImportStep
  <2> QED
    BY <1>5, <2>2, <2>3 DEF CopyPlan, Copies
<1> QED
  BY <1>4, <1>5

\* A trial is copied.
LEMMA CopyTrialKeeps ==
  ASSUME ArchiveInv, CopyTrial
  PROVE  ArchiveInv'
<1>1. /\ UNCHANGED <<vars, exporter, archive>> /\ importer.at = "trials"
      /\ \E t : \/ /\ ImportEnds("failed")
                   /\ copy' \in {copy} \cup {[copy EXCEPT !.dirs[t] = [Untouched EXCEPT !.reach = w]] :
                                    w \in {"empty", "torn", "claim", "tornTerminal"}}
                \/ /\ copy' = [copy EXCEPT !.dirs[t] = importer.files.dirs[t]]
                   /\ UNCHANGED importer
  BY DEF CopyTrial
<1>2. PICK t : \/ /\ ImportEnds("failed")
                  /\ \/ copy' = copy
                     \/ \E d : copy' = [copy EXCEPT !.dirs[t] = d]
               \/ /\ copy' = [copy EXCEPT !.dirs[t] = dirs[t]]
                  /\ UNCHANGED importer
  <2>1. importer.files.dirs = dirs
    BY <1>1, OutputMembers DEF ArchiveInv, ImporterOK, Importing
  <2> QED
    BY <1>1, <2>1
<1>3. /\ Members(copy) /\ copy.dirs = [u \in Trials |-> copy.dirs[u]]
      /\ copy.made = "claimed" /\ copy.plan = "whole"
      /\ copy.pending = NoFile /\ copy.published = NoFile
      /\ \A u \in Trials : copy.dirs[u] \in {Untouched, dirs[u]}
  BY <1>1 DEF ArchiveInv, CopyOK
<1>4. ASSUME NEW d, copy' = [copy EXCEPT !.dirs[t] = d]
      PROVE  /\ Members(copy') /\ copy'.dirs = [copy.dirs EXCEPT ![t] = d]
             /\ copy'.dirs = [u \in Trials |-> copy'.dirs[u]]
             /\ copy'.made = copy.made /\ copy'.plan = copy.plan
             /\ copy'.pending = copy.pending /\ copy'.published = copy.published
             /\ \A u \in Trials : copy'.dirs[u] = IF u = t THEN d ELSE copy.dirs[u]
  <2>1. /\ Members(copy') /\ copy'.dirs = [copy.dirs EXCEPT ![t] = d]
        /\ copy'.made = copy.made /\ copy'.plan = copy.plan
        /\ copy'.pending = copy.pending /\ copy'.published = copy.published
    BY <1>3, <1>4 DEF Members
  <2>2. [copy.dirs EXCEPT ![t] = d] = [u \in Trials |-> IF u = t THEN d ELSE copy.dirs[u]]
    BY <1>3
  <2> QED
    BY <2>1, <2>2
<1>5. CASE ImportEnds("failed")
  <2>1. /\ Members(copy') /\ copy'.dirs = [u \in Trials |-> copy'.dirs[u]]
        /\ copy'.published = NoFile
    BY <1>2, <1>3, <1>4
  <2> QED
    BY <1>1, <1>5, <2>1, ImportFails
<1>6. CASE copy' = [copy EXCEPT !.dirs[t] = dirs[t]] /\ UNCHANGED importer
  <2>1. UNCHANGED <<dirs, published, Output, Archived, Staged>>
    BY <1>1 DEF vars, disk, Output, Archived, Staged
  <2>2. \A u \in Trials : copy'.dirs[u] \in {Untouched, dirs[u]}
    BY <1>3, <1>4, <1>6
  <2>3. CopyOK'
    BY <1>1, <1>3, <1>4, <1>6, <2>1, <2>2 DEF CopyOK, Members
  <2>4. ImporterOK'
    BY <1>1, <1>6, <2>1 DEF ArchiveInv, ImporterOK, Importing
  <2> QED
    BY <1>1, <2>3, <2>4, ImportStep
<1> QED
  BY <1>2, <1>5, <1>6

\* The report is copied last, linked, and its staged name removed.
LEMMA CopyReportKeeps ==
  ASSUME ArchiveInv, CopyReport \/ LinkCopy \/ UnlinkCopy
  PROVE  ArchiveInv'
<1>1. UNCHANGED <<vars, exporter, archive>> /\ importer.at \in Importing /\ importer.at # "done"
  BY DEF CopyReport, LinkCopy, UnlinkCopy, Copies, Importing
<1>2. UNCHANGED <<dirs, published, Output, Archived, Staged>>
  BY <1>1 DEF vars, disk, Output, Archived, Staged
<1>3. /\ Members(copy) /\ copy.dirs = [t \in Trials |-> copy.dirs[t]]
      /\ importer.files = Output /\ archive.dest = Archived /\ Eligible(Output)
      /\ importer = [at |-> importer.at, files |-> importer.files, told |-> importer.told]
      /\ importer.told = "none"
  BY <1>1, ArchivesDiffer DEF ArchiveInv, CopyOK, ImporterOK, ExporterOK, Importing
<1>4. /\ made = "claimed" /\ plan = "whole" /\ pending = NoFile
      /\ \A t \in Trials : dirs[t].reach = "published"
      /\ dirs = [t \in Trials |-> dirs[t]]
  BY <1>3, EligibleIsAtRest DEF ArchiveInv, SuiteInv, DiskTypeOK
<1>5. CASE CopyReport
  <2>1. /\ importer.at = "trials" /\ Copied = Trials
        /\ copy.made = "claimed" /\ copy.plan = "whole"
        /\ copy.pending = NoFile /\ copy.published = NoFile
        /\ \A t \in Trials : copy.dirs[t] \in {Untouched, dirs[t]}
    BY <1>5 DEF CopyReport, ArchiveInv, CopyOK
  <2>2. CASE ImportEnds("failed") /\ copy' \in {copy, [copy EXCEPT !.pending = TornFile]}
    <3>1. /\ Members(copy') /\ copy'.dirs = [t \in Trials |-> copy'.dirs[t]]
          /\ copy'.published = NoFile
      BY <1>3, <2>1, <2>2 DEF Members
    <3> QED
      BY <1>1, <2>2, <3>1, ImportFails
  <2>3. CASE /\ copy' = [copy EXCEPT !.pending = importer.files.published]
             /\ ImportGoes("link")
    <3>1. Untouched.reach = "absent"
      BY DEF Untouched
    <3>2. \A t \in Trials : copy.dirs[t] = dirs[t]
      BY <2>1, <3>1 DEF Copied
    <3>3. copy.dirs = dirs
      BY <1>3, <1>4, <3>2
    <3>4. copy' = Staged
      <4>1. copy = [made |-> "claimed", plan |-> "whole", dirs |-> dirs,
                    pending |-> NoFile, published |-> NoFile]
        BY <1>3, <2>1, <3>3 DEF Members
      <4>2. importer.files.published = published
        BY <1>3, OutputMembers
      <4>3. copy' = [made |-> "claimed", plan |-> "whole", dirs |-> dirs,
                     pending |-> published, published |-> NoFile]
        BY <2>3, <4>1, <4>2
      <4> QED
        BY <1>4, <4>3 DEF Staged
    <3>5. Members(copy') /\ copy'.dirs = [t \in Trials |-> copy'.dirs[t]]
      BY <1>4, <3>4 DEF Members, Staged
    <3>6. "link" \in Importing
      BY DEF Importing
    <3>7. CopyOK' /\ ImporterOK'
      BY <1>1, <1>2, <2>3, <3>4, <3>5, <3>6, ImportGoesOn DEF CopyOK, ImporterOK, Members
    <3> QED
      BY <1>1, <3>7, ImportStep
  <2> QED
    BY <1>5, <2>2, <2>3 DEF CopyReport, Copies
<1>6. CASE LinkCopy
  <2>1. copy = Staged
    BY <1>6 DEF LinkCopy, ArchiveInv, CopyOK
  <2>2. CASE ImportEnds("failed") /\ UNCHANGED copy
    <3>1. copy.published = NoFile
      BY <2>1 DEF Staged
    <3> QED
      BY <1>1, <1>3, <2>2, <3>1, ImportFails
  <2>3. CASE copy' = [copy EXCEPT !.published = copy.pending] /\ ImportGoes("unlink")
    <3>1. copy' = [Output EXCEPT !.pending = published]
      <4>1. copy = [made |-> made, plan |-> plan, dirs |-> dirs,
                    pending |-> published, published |-> NoFile]
        BY <2>1 DEF Staged
      <4>2. copy' = [made |-> made, plan |-> plan, dirs |-> dirs,
                     pending |-> published, published |-> published]
        BY <2>3, <4>1
      <4> QED
        BY <4>2 DEF Output
    <3>2. Members(copy') /\ copy'.dirs = [t \in Trials |-> copy'.dirs[t]]
      BY <1>4, <3>1 DEF Members, Output
    <3>3. "unlink" \in Importing
      BY DEF Importing
    <3>4. CopyOK' /\ ImporterOK'
      BY <1>1, <1>2, <2>3, <3>1, <3>2, <3>3, ImportGoesOn DEF CopyOK, ImporterOK, Members
    <3> QED
      BY <1>1, <3>4, ImportStep
  <2> QED
    BY <1>6, <2>2, <2>3 DEF LinkCopy
<1>7. CASE UnlinkCopy
  <2>1. copy = [Output EXCEPT !.pending = published]
    BY <1>7 DEF UnlinkCopy, ArchiveInv, CopyOK
  <2>2. CASE ImportEnds("published_with_residue") /\ UNCHANGED copy
    <3>1. importer' = [at |-> "done", files |-> importer.files, told |-> "published_with_residue"]
      BY <1>3, <2>2 DEF ImportEnds
    <3>2. CopyOK'
      BY <1>1, <1>2, <1>3, <2>1, <2>2, <3>1 DEF CopyOK, Members
    <3>3. ImporterOK'
      BY <1>1, <1>2, <1>3, <3>1 DEF ImporterOK, Importing
    <3> QED
      BY <1>1, <3>2, <3>3, ImportStep
  <2>3. CASE copy' = [copy EXCEPT !.pending = NoFile] /\ ImportEnds("published")
    <3>1. importer' = [at |-> "done", files |-> importer.files, told |-> "published"]
      BY <1>3, <2>3 DEF ImportEnds
    <3>2. copy' = Output
      BY <1>4, <2>1, <2>3 DEF Output
    <3>3. Members(copy') /\ copy'.dirs = [t \in Trials |-> copy'.dirs[t]]
      BY <1>4, <3>2 DEF Members, Output
    <3>4. CopyOK'
      BY <1>1, <1>2, <1>3, <3>1, <3>2, <3>3 DEF CopyOK, Members
    <3>5. ImporterOK'
      BY <1>1, <1>2, <1>3, <3>1, <3>2 DEF ImporterOK, Importing
    <3> QED
      BY <1>1, <3>4, <3>5, ImportStep
  <2> QED
    BY <1>7, <2>2, <2>3 DEF UnlinkCopy
<1> QED
  BY <1>5, <1>6, <1>7

\* An export or an import dies.
LEMMA ArchiveCrashKeeps ==
  ASSUME ArchiveInv, ArchiveCrash
  PROVE  ArchiveInv'
<1>1. UNCHANGED <<vars, archive, copy>>
  BY DEF ArchiveCrash
<1>2. UNCHANGED <<dirs, published, Output, Archived, Staged>>
  BY <1>1 DEF vars, disk, Output, Archived, Staged
<1>3. CASE exporter.at \notin {"idle", "done"} /\ ExportEnds("none") /\ UNCHANGED importer
  <2>1. /\ exporter = [at |-> exporter.at, listed |-> exporter.listed,
                      files |-> exporter.files, told |-> exporter.told]
        /\ exporter' = [exporter EXCEPT !.at = "done", !.told = "none"]
    BY <1>3 DEF ArchiveInv, ExporterOK, ExportEnds
  <2>2. /\ exporter' = [at |-> exporter'.at, listed |-> exporter'.listed,
                       files |-> exporter'.files, told |-> exporter'.told]
        /\ exporter'.at = "done"
    BY <2>1
  <2>3. SuiteInv'
    BY <1>1, NextKeeps DEF ArchiveInv
  <2>4. Eligible(Output) <=> Eligible(Output')
    BY <1>2
  <2>5. Eligible(Output) <=> Eligible(Output)'
    BY <2>4
  <2>6. ExporterOK'
    BY <1>1, <1>2, <2>2, <2>5 DEF ArchiveInv, ExporterOK
  <2>7. CopyOK' /\ ImporterOK'
    BY <1>1, <1>2, <1>3 DEF ArchiveInv, CopyOK, ImporterOK, Members
  <2> QED
    BY <2>3, <2>6, <2>7 DEF ArchiveInv
<1>4. CASE importer.at \notin {"idle", "done"} /\ ImportEnds("none") /\ UNCHANGED exporter
  <2>1. /\ importer = [at |-> importer.at, files |-> importer.files, told |-> importer.told]
        /\ importer' = [importer EXCEPT !.at = "done", !.told = "none"]
        /\ importer.at \in Importing /\ CopyOK /\ archive.dest = Archived
    BY <1>4 DEF ArchiveInv, ImporterOK, ImportEnds
  <2>2. /\ importer' = [at |-> importer'.at, files |-> importer'.files, told |-> importer'.told]
        /\ importer'.at = "done" /\ importer'.told = "none"
    BY <2>1
  <2>3. \/ copy.published = NoFile
        \/ importer.at = "unlink" /\ copy = [Output EXCEPT !.pending = published]
    <3>1. Missing.published = NoFile /\ Members(Missing)
      BY DEF Missing, Members
    <3>2. CASE importer.at = "claim"
      BY <2>1, <3>1, <3>2 DEF CopyOK, Missing
    <3>3. CASE importer.at = "plan"
      BY <2>1, <3>1, <3>3 DEF CopyOK, Missing
    <3>4. CASE importer.at \in {"trials", "link", "unlink"}
      BY <2>1, <3>4 DEF CopyOK, Staged
    <3> QED
      BY <2>1, <3>2, <3>3, <3>4 DEF Importing
  <2>4. CopyOK'
    BY <1>1, <1>2, <2>1, <2>2, <2>3 DEF CopyOK, Members
  <2>5. ImporterOK'
    BY <1>1, <1>2, <2>2 DEF ImporterOK, Importing
  <2> QED
    BY <1>1, <1>4, <2>4, <2>5, ImportStep
<1> QED
  BY <1>3, <1>4 DEF ArchiveCrash

\* Before anything there is no archive and no copy.
LEMMA InitEstablishesArchiveInv == ArchiveInit => ArchiveInv
<1> SUFFICES ASSUME ArchiveInit PROVE ArchiveInv
  OBVIOUS
<1>1. SuiteInv
  BY InitEstablishesSuiteInv DEF ArchiveInit
<1>2. ExporterOK
  BY DEF ArchiveInit, ExporterOK
<1>3. CopyOK
  <2>1. Members(Missing) /\ Missing.dirs = [t \in Trials |-> Missing.dirs[t]]
    BY DEF Members, Missing
  <2> QED
    BY <2>1 DEF ArchiveInit, CopyOK
<1>4. ImporterOK
  BY DEF ArchiveInit, ImporterOK, Importing
<1> QED
  BY <1>1, <1>2, <1>3, <1>4 DEF ArchiveInv

\* The invariant holds of every suite with its export and its import.
THEOREM ArchiveInvariant == ArchiveSpec => []ArchiveInv
<1>1. ArchiveInit => ArchiveInv
  BY InitEstablishesArchiveInv
<1>2. ArchiveInv /\ [ArchiveNext]_allVars => ArchiveInv'
  <2> SUFFICES ASSUME ArchiveInv, [ArchiveNext]_allVars PROVE ArchiveInv'
    OBVIOUS
  <2>1. CASE UNCHANGED allVars
    BY <2>1, SuiteStepKeeps DEF allVars
  <2>2. CASE Next /\ UNCHANGED archiveVars
    BY <2>2, SuiteStepKeeps
  <2>3. CASE Exporter
    BY <2>3, ExporterKeeps
  <2>4. CASE Importer
    BY <2>4, ReadArchiveKeeps, CopyPlanKeeps, CopyTrialKeeps, CopyReportKeeps DEF Importer
  <2>5. CASE ArchiveCrash
    BY <2>5, ArchiveCrashKeeps
  <2> QED
    BY <2>1, <2>2, <2>3, <2>4, <2>5 DEF ArchiveNext
<1> QED
  BY <1>1, <1>2, PTL DEF ArchiveSpec

\* The archive under its final name is the suite that is still in its directory,
\* and a copy passes as a suite that ended only when it is that suite as a whole:
\* however ExportSuite and ImportSuite raced with RunSuite, failed or died.
THEOREM ArchivesWhole == ArchiveSpec => []ArchivesAreWhole
<1>1. ASSUME ArchiveInv PROVE ArchivesAreWhole
  <2>1. archive.dest # NoArchive =>
          /\ archive.dest.state = "whole" /\ archive.dest.files = Output /\ Eligible(Output)
    BY <1>1 DEF ArchiveInv, ExporterOK, Archived
  <2>2. archive.dest = Archived =>
          /\ Eligible(Output) /\ pending = NoFile /\ published # NoFile
          /\ State(Output) = "published" /\ archive.dest.files = Output
    BY <1>1, <2>1, ArchivesDiffer, EligibleIsAtRest DEF ArchiveInv
  <2>3. State(copy) \in {"published", "published_with_residue", "published_unverified"} =>
          [copy EXCEPT !.pending = NoFile] = archive.dest.files
    <3> SUFFICES ASSUME State(copy) \in {"published", "published_with_residue",
                                         "published_unverified"}
                 PROVE  [copy EXCEPT !.pending = NoFile] = archive.dest.files
      OBVIOUS
    <3>1. copy.published # NoFile
      BY StatePublished, FilesDiffer
    <3>2. archive.dest = Archived /\ copy \in {Output, [Output EXCEPT !.pending = published]}
      <4>1. importer.at \notin {"idle", "claim", "plan"}
        BY <1>1, <3>1 DEF ArchiveInv, CopyOK, Missing
      <4>2. importer.at \notin {"trials", "link"}
        BY <1>1, <3>1 DEF ArchiveInv, CopyOK, Staged
      <4>3. CASE importer.at = "unlink"
        BY <1>1, <4>3 DEF ArchiveInv, CopyOK, ImporterOK, Importing
      <4>4. CASE importer.at = "done"
        BY <1>1, <3>1, <4>4 DEF ArchiveInv, CopyOK
      <4> QED
        BY <1>1, <4>1, <4>2, <4>3, <4>4 DEF ArchiveInv, ImporterOK, Importing
    <3> QED
      BY <2>2, <3>2 DEF Output
  <2>4. importer.told = "published" => State(copy) = "published"
    BY <1>1, <2>2 DEF ArchiveInv, ImporterOK
  <2>5. importer.told \in {"refused", "failed"} =>
          State(copy) \in {"not_started", "incomplete_or_running", "invalid"}
    BY <1>1, StateUnpublished, FilesDiffer DEF ArchiveInv, ImporterOK
  <2> QED
    BY <2>1, <2>3, <2>4, <2>5 DEF ArchivesAreWhole
<1> QED
  BY <1>1, ArchiveInvariant, PTL

\* Exports and imports take nothing from the suite: its report holds beside them.
THEOREM ReportsHoldBesideCopies == ArchiveSpec => []SuiteReportHolds
<1>1. ArchiveInv => SuiteReportHolds
  BY ReportHolds DEF ArchiveInv
<1> QED
  BY <1>1, ArchiveInvariant, PTL
=============================================================================
