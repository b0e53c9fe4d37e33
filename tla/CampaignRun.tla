----------------------------- MODULE CampaignRun -----------------------------
(* A campaign of acceptance projects (internal/agenteval RunProject,         *)
(* RunCampaign and their inspectors).  A project runs its oracle cases,      *)
(* records their quality, runs the suite only when the cases qualify, has it *)
(* assessed and publishes a report; a campaign runs its projects one after   *)
(* the other, each under a deadline of its own.  The suite is one step here  *)
(* (SuiteRun describes it).  Contexts may end, any write may fail and the    *)
(* process may die between any two steps.  An inspector runs beside it all.  *)
EXTENDS Integers, FiniteSets, Sequences

CONSTANTS
    Projects,   \* number of projects
    Checks,     \* oracle check IDs of the task of a project
    Manifests   \* case manifests explored: sequences of roles, "positive",
                \* "unscorable" or the check a negative case must fail

ASSUME CampaignAssumption ==
    /\ Projects \in Nat \ {0}
    /\ Manifests \subseteq Seq(Checks \cup {"positive", "unscorable"})

VARIABLES
    pc,       \* where the runner stands
    ended,    \* the caller's context ended
    late,     \* the deadline of the running project passed
    cur,      \* the project that runs
    cases,    \* the case rows of its runCases
    r,        \* its ProjectReport
    camp,     \* the CampaignReport
    answer,   \* what the caller was told: "none", "ok" or "error"
    manifest, \* the case manifest of every project
    top,      \* the campaign directory
    disk,     \* the project directories
    insp      \* one inspector of one project

vars == <<pc, ended, late, cur, cases, r, camp, answer, manifest, top, disk, insp>>

Index == 1..Projects
Stages == {"review", "quality", "suite", "assessment", "publication"}
Planned(m) == [planned |-> Len(m), started |-> 0, completed |-> 0, failed |-> 0]
Trials == 2
NoTrials == [planned |-> Trials, started |-> 0, completed |-> 0, failed |-> 0]
AllTrials == [NoTrials EXCEPT !.started = Trials, !.completed = Trials]

\* newProjectReport.
NewReport(m) ==
    [lifecycle |-> "partial", decision |-> "incomplete",
     stages |-> [s \in Stages |-> IF s = "review" THEN "passed" ELSE "not_started"],
     code |-> "", caseCounts |-> Planned(m), trialCounts |-> NoTrials,
     quality |-> "", assessed |-> "not_checked"]

NewRow(m) == [lifecycle |-> "not_started", decision |-> "not_started", code |-> "",
              caseCounts |-> Planned(m), trialCounts |-> NoTrials]

\* A regular file: "absent", "torn", or whole with what it says.
NoFile == [state |-> "absent", doc |-> <<>>]
Torn == [state |-> "torn", doc |-> <<>>]
Whole(d) == [state |-> "whole", doc |-> d]
There(f) == f.state # "absent"

\* The suite directory: nothing, cut short, or a published suite with what its
\* assessment and its world binding come to.
NoSuite == "absent"
Suites == {"absent", "cut", "passed", "failed"}

NoDisk == [made |-> FALSE, claim |-> NoFile, quality |-> NoFile, suite |-> NoSuite,
           pending |-> NoFile, report |-> NoFile]
NoTop == [made |-> FALSE, claim |-> NoFile, projects |-> FALSE,
          pending |-> NoFile, report |-> NoFile]
NotInspecting == [at |-> "idle", on |-> 1, seen |-> NoDisk, quiet |-> FALSE,
                  verification |-> "", decision |-> ""]

\* totals(): the decision of a campaign, and what was never started.
Totals(rows) ==
    [decision |-> IF \E i \in Index : rows[i].lifecycle # "published" THEN "incomplete"
                  ELSE IF \E i \in Index : rows[i].decision # "passed" THEN "failed"
                  ELSE "passed",
     completed |-> Cardinality({i \in Index : rows[i].lifecycle = "published"}),
     notStarted |-> Cardinality({i \in Index : rows[i].lifecycle = "not_started"})]

Init ==
    /\ manifest \in [Index -> Manifests]
    /\ pc = "start" /\ ended = FALSE /\ late = FALSE /\ cur = 1 /\ cases = <<>>
    /\ r = NewReport(manifest[1])
    /\ LET rows == [i \in Index |-> NewRow(manifest[i])]
       IN  camp = [lifecycle |-> "partial", rows |-> rows, totals |-> Totals(rows)]
    /\ answer = "none" /\ top = NoTop /\ disk = [i \in Index |-> NoDisk]
    /\ insp = NotInspecting

------------------------------------------------------------------------------
(* case_run.go and case_coverage.go.                                         *)

Rows(k) == {i \in DOMAIN cases : cases[i] = k}

\* caseCounts over the rows that ran; the others were not started.
CaseCounts(rows, m) ==
    LET n(k) == Cardinality({i \in DOMAIN rows : rows[i] = k})
    IN  [planned |-> Len(m), started |-> Len(rows),
         completed |-> n("matched") + n("mismatched"), failed |-> n("failed")]

\* Fault: a negative case counts for its check even when it did not match.
QualificationWrong(rows, m) ==
    IF /\ \A i \in DOMAIN m : rows[i] = "matched" \/ m[i] \in Checks
       /\ \E i \in DOMAIN m : m[i] = "positive" /\ rows[i] = "matched"
       /\ \A c \in Checks : \E i \in DOMAIN m : m[i] = c
    THEN "qualified" ELSE "not_qualified"

\* qualifyCases: every case matched, some positive case did, and every oracle
\* check was failed by a matched negative case meant for it.
Qualification(rows, m) ==
    IF /\ \A i \in DOMAIN m : rows[i] = "matched"
       /\ \E i \in DOMAIN m : m[i] = "positive" /\ rows[i] = "matched"
       /\ \A c \in Checks : \E i \in DOMAIN m : m[i] = c /\ rows[i] = "matched"
    THEN "qualified" ELSE "not_qualified"

------------------------------------------------------------------------------
(* project_run.go: runPreparedProject.                                       *)

ProjectEnded == ended \/ late
Here == disk[cur]
Set(field, value) == disk' = [disk EXCEPT ![cur][field] = value]

StageOf(at) == CASE at \in {"open", "claim"} -> "review"
                 [] at \in {"cases", "quality"} -> "quality"
                 [] at = "suite" -> "suite"
                 [] at = "assess" -> "assessment"
                 [] OTHER -> "publication"

\* fail(code): the stage is marked, nothing is published, the row is handed to
\* the campaign and the campaign ends.  A code that raced with the end of the
\* context is reported as the cancellation.
FailWith(rep, code) ==
    LET c == IF ProjectEnded THEN "CANCELED" ELSE code
        failed == [rep EXCEPT !.stages[StageOf(pc)] = "failed", !.code = c]
        row == [lifecycle |-> failed.lifecycle, decision |-> failed.decision,
                code |-> c, caseCounts |-> failed.caseCounts,
                trialCounts |-> failed.trialCounts]
        rows == [camp.rows EXCEPT ![cur] = row]
    IN  /\ r' = failed
        /\ camp' = [camp EXCEPT !.rows = rows, !.totals = Totals(rows)]
        /\ pc' = "done" /\ answer' = "error"

Go(at) == pc' = at /\ UNCHANGED <<camp, answer>>
Rest == UNCHANGED <<ended, late, cur, manifest, top, insp>>

\* writeProjectJSON: refused (the context, a limit) or cut short.
WriteFails(field) ==
    \/ FailWith(r, "RESOURCE_LIMIT") /\ UNCHANGED disk
    \/ ~ProjectEnded /\ FailWith(r, "WRITE_FAILED") /\ Set(field, Torn)

\* The directory belongs to the run whose Mkdir made it.
OpenProject ==
    /\ pc = "open"
    /\ \/ FailWith(r, "WRITE_FAILED") /\ UNCHANGED disk
       \/ ~ProjectEnded /\ ~Here.made /\ Set("made", TRUE) /\ Go("claim") /\ UNCHANGED r
    /\ UNCHANGED cases /\ Rest

ClaimProject ==
    /\ pc = "claim"
    /\ \/ WriteFails("claim")
       \/ /\ ~ProjectEnded
          /\ Set("claim", Whole(manifest[cur])) /\ Go("cases") /\ UNCHANGED r
    /\ UNCHANGED cases /\ Rest

\* runCases: one case after the other; a case that cannot be executed and an
\* ended context stop the run (the row that ran last is "failed" then).
RunCase ==
    /\ pc = "cases" /\ Len(cases) < Len(manifest[cur])
    /\ ~ProjectEnded /\ Rows("failed") = {}
    /\ \E k \in {"matched", "mismatched", "failed"} : cases' = Append(cases, k)
    /\ UNCHANGED <<pc, r, camp, answer, disk>> /\ Rest

\* The context ended while a case ran: its row is failed whatever it returned.
CaseCanceled ==
    /\ pc = "cases" /\ cases # <<>> /\ ProjectEnded /\ Rows("failed") = {}
    /\ cases' = [cases EXCEPT ![Len(cases)] = "failed"]
    /\ UNCHANGED <<pc, r, camp, answer, disk>> /\ Rest

EndCases ==
    /\ pc = "cases"
    /\ LET counted == [r EXCEPT !.caseCounts = CaseCounts(cases, manifest[cur])]
       IN  IF \/ Rows("failed") # {}
              \/ Len(cases) < Len(manifest[cur])
           THEN /\ Rows("failed") # {} \/ ProjectEnded
                /\ \E code \in {"ASSESSMENT_FAILED", "CLEANUP_FAILED"} :
                      FailWith(counted, code)
           ELSE r' = counted /\ Go("quality")
    /\ UNCHANGED <<cases, disk>> /\ Rest

\* Fault: the suite runs although the cases do not qualify.
RecordQualityWrong ==
    /\ pc = "quality"
    /\ \/ WriteFails("quality")
       \/ /\ ~ProjectEnded
          /\ LET q == Qualification(cases, manifest[cur])
             IN  /\ Set("quality", Whole([rows |-> cases, decision |-> q]))
                 /\ r' = [r EXCEPT !.quality = q, !.stages["quality"] = "passed"]
                 /\ Go("suite")
    /\ UNCHANGED cases /\ Rest

\* quality.json; only a qualified project goes on to its suite.
RecordQuality ==
    /\ pc = "quality"
    /\ \/ WriteFails("quality")
       \/ /\ ~ProjectEnded
          /\ LET q == Qualification(cases, manifest[cur])
             IN  /\ Set("quality", Whole([rows |-> cases, decision |-> q]))
                 /\ r' = IF q = "qualified"
                         THEN [r EXCEPT !.quality = q, !.stages["quality"] = "passed"]
                         ELSE [r EXCEPT !.quality = q, !.stages["quality"] = "failed",
                                        !.decision = "failed", !.code = "NOT_QUALIFIED"]
                 /\ Go(IF q = "qualified" THEN "suite" ELSE "publish")
    /\ UNCHANGED cases /\ Rest

\* A suite that returns an error leaves a directory that was cut short; one
\* that does not has every trial complete.
RunSuite ==
    /\ pc = "suite"
    /\ \/ /\ \E n \in 0..Trials, f \in 0..1 :
                /\ n + f <= Trials
                /\ \E code \in {"ASSESSMENT_FAILED", "RESOURCE_LIMIT", "CLEANUP_FAILED"} :
                      FailWith([r EXCEPT !.trialCounts = [NoTrials EXCEPT
                          !.started = n + f, !.completed = n, !.failed = f]], code)
          /\ \E s \in {"absent", "cut"} : Set("suite", s)
       \/ /\ ~ProjectEnded
          /\ \E s \in {"passed", "failed"} : Set("suite", s)
          /\ r' = [r EXCEPT !.trialCounts = AllTrials, !.stages["suite"] = "passed"]
          /\ Go("assess")
    /\ UNCHANGED cases /\ Rest

\* What assessProject (the reviewed assessment and the world binding) finds in
\* a suite directory adds to a report.
Assessed(rep, suite) ==
    [rep EXCEPT !.assessed = suite, !.decision = suite,
                !.stages["assessment"] = suite,
                !.code = IF suite = "passed" THEN @ ELSE "ASSESSMENT_FAILED"]

AssessSuite ==
    /\ pc = "assess"
    /\ \/ /\ \E code \in {"ASSESSMENT_FAILED", "RESOURCE_LIMIT", "INPUT_UNAVAILABLE"} :
                FailWith(r, code)
       \/ ~ProjectEnded /\ r' = Assessed(r, Here.suite) /\ Go("publish")
    /\ UNCHANGED <<cases, disk>> /\ Rest

\* The report that is written says "published"; the one in memory is "partial"
\* again when it could not be.
Published(rep) == [rep EXCEPT !.lifecycle = "published", !.stages["publication"] = "passed"]

WritePending ==
    /\ pc = "publish"
    /\ \/ WriteFails("pending")
       \/ /\ ~ProjectEnded /\ r' = Published(r)
          /\ Set("pending", Whole(Published(r))) /\ Go("link")
    /\ UNCHANGED cases /\ Rest

LinkReport ==
    /\ pc = "link"
    /\ \/ FailWith([r EXCEPT !.lifecycle = "partial"], "PUBLISH_FAILED") /\ UNCHANGED disk
       \/ /\ ~ProjectEnded /\ Set("report", Here.pending)
          /\ Go("unlink") /\ UNCHANGED r
    /\ UNCHANGED cases /\ Rest

\* Fault: staging that stays behind is not an error.
RemovePendingWrong ==
    /\ pc = "unlink" /\ Go("row")
    /\ UNCHANGED <<r, cases>> /\ Rest
    /\ \/ UNCHANGED disk
       \/ Set("pending", NoFile)

RemovePending ==
    /\ pc = "unlink"
    /\ \/ /\ FailWith([r EXCEPT !.lifecycle = "published_with_residue"], "CLEANUP_FAILED")
          /\ UNCHANGED disk
       \/ Set("pending", NoFile) /\ Go("row") /\ UNCHANGED r
    /\ UNCHANGED cases /\ Rest

ProjectStep ==
    \/ OpenProject \/ ClaimProject \/ RunCase \/ CaseCanceled \/ EndCases
    \/ RecordQuality \/ RunSuite \/ AssessSuite \/ WritePending \/ LinkReport
    \/ RemovePending

------------------------------------------------------------------------------
(* campaign.go: runPreparedCampaign.                                         *)

CampaignRest == UNCHANGED <<ended, cases, manifest, disk, insp>>
CampaignFails ==
    /\ pc' = "done" /\ answer' = "error"
    /\ camp' = [camp EXCEPT !.totals = Totals(camp.rows), !.lifecycle = "partial"]
    /\ UNCHANGED <<late, cur, r>>

\* Mkdir, the claim and the projects directory.
ClaimCampaign ==
    /\ pc = "start"
    /\ \/ /\ CampaignFails
          /\ top' \in {top, [NoTop EXCEPT !.made = TRUE],
                       [NoTop EXCEPT !.made = TRUE, !.claim = Torn],
                       [NoTop EXCEPT !.made = TRUE, !.claim = Whole(manifest)]}
       \/ /\ ~ended /\ ~top.made
          /\ top' = [NoTop EXCEPT !.made = TRUE, !.claim = Whole(manifest),
                                  !.projects = TRUE]
          /\ pc' = "open" /\ UNCHANGED <<late, cur, r, camp, answer>>
    /\ CampaignRest

\* A project returned without an error: its row is kept and the next one
\* starts with a deadline of its own.
NextProject ==
    /\ pc = "row"
    /\ camp' = [camp EXCEPT !.rows[cur] =
                   [lifecycle |-> r.lifecycle, decision |-> r.decision, code |-> r.code,
                    caseCounts |-> r.caseCounts, trialCounts |-> r.trialCounts]]
    /\ late' = FALSE /\ UNCHANGED answer
    /\ IF cur < Projects
       THEN /\ cur' = cur + 1 /\ pc' = "next"
            /\ r' = NewReport(manifest[cur + 1]) /\ cases' = <<>>
       ELSE pc' = "total" /\ UNCHANGED <<cur, r, cases>>
    /\ UNCHANGED <<ended, manifest, top, disk, insp>>

StartProject ==
    /\ pc = "next"
    /\ \/ ended /\ CampaignFails
       \/ ~ended /\ pc' = "open" /\ UNCHANGED <<late, cur, r, camp, answer>>
    /\ UNCHANGED top /\ CampaignRest

\* The totals are computed and the report is staged.
StageCampaign ==
    /\ pc = "total"
    /\ \/ /\ CampaignFails
          /\ \/ UNCHANGED top
             \/ ~ended /\ top' = [top EXCEPT !.pending = Torn]
       \/ /\ ~ended
          /\ camp' = [camp EXCEPT !.totals = Totals(camp.rows), !.lifecycle = "published"]
          /\ top' = [top EXCEPT !.pending = Whole(camp')]
          /\ pc' = "publishCampaign" /\ UNCHANGED <<late, cur, r, answer>>
    /\ CampaignRest

LinkCampaign ==
    /\ pc = "publishCampaign"
    /\ \/ CampaignFails /\ UNCHANGED top
       \/ /\ ~ended /\ top' = [top EXCEPT !.report = top.pending]
          /\ pc' = "finish" /\ UNCHANGED <<late, cur, r, camp, answer>>
    /\ CampaignRest

FinishCampaign ==
    /\ pc = "finish" /\ pc' = "done"
    /\ \/ top' = [top EXCEPT !.pending = NoFile] /\ answer' = "ok" /\ UNCHANGED camp
       \/ /\ answer' = "error" /\ UNCHANGED top
          /\ camp' = [camp EXCEPT !.lifecycle = "published_with_residue"]
    /\ UNCHANGED <<late, cur, r>> /\ CampaignRest

------------------------------------------------------------------------------
(* The environment.                                                          *)

Working == pc \notin {"done", "unlink", "finish", "row"}

\* The caller cancels or the campaign deadline passes; the deadline of a project
\* matters while that project runs.
ContextEnds ==
    /\ Working
    /\ \/ ~ended /\ ended' = TRUE /\ UNCHANGED late
       \/ ~ended /\ ~late /\ pc \notin {"start", "next", "total", "publishCampaign"}
          /\ late' = TRUE /\ UNCHANGED ended
    /\ UNCHANGED <<pc, cur, cases, r, camp, answer, manifest, top, disk, insp>>

\* The process dies; a write may be cut short.
Crash ==
    /\ pc # "done" /\ pc' = "done" /\ answer' = "none"
    /\ ended' = FALSE /\ late' = FALSE /\ cases' = <<>>
    /\ \/ UNCHANGED disk
       \/ pc = "claim" /\ Set("claim", Torn)
       \/ pc = "quality" /\ Set("quality", Torn)
       \/ pc = "suite" /\ Set("suite", "cut")
       \/ pc = "publish" /\ Set("pending", Torn)
    /\ UNCHANGED <<cur, r, camp, manifest, top, insp>>

------------------------------------------------------------------------------
(* project_inspect.go and campaign_inspect.go.                               *)

\* recordedQualityValid: the rows are complete and the decision follows from them.
QualityValid(q, m) ==
    /\ q.state = "whole" /\ DOMAIN q.doc.rows = DOMAIN m
    /\ \A i \in DOMAIN m : q.doc.rows[i] \in {"matched", "mismatched"}
    /\ q.doc.decision = Qualification(q.doc.rows, m)

\* The report the other files of the project call for.
Want(d, m) ==
    LET q == d.quality.doc
        base == [NewReport(m) EXCEPT !.caseCounts = CaseCounts(q.rows, m),
                                     !.quality = q.decision]
        assessed == Assessed([base EXCEPT !.stages["quality"] = "passed",
                                          !.stages["suite"] = "passed",
                                          !.trialCounts = AllTrials], d.suite)
    IN  Published(IF q.decision = "qualified" THEN assessed
                  ELSE [base EXCEPT !.stages["quality"] = "failed",
                                    !.decision = "failed", !.code = "NOT_QUALIFIED"])

\* inspectPreparedProject: "listed" is the directory as it was listed, "d" what
\* the reads find; a listed file that is gone cannot be read.
Verification(listed, d, m) ==
    IF ~listed.made \/ ~There(listed.claim) THEN "incomplete"
    ELSE IF d.claim.state = "torn" THEN "mismatched"
    ELSE IF There(listed.quality) /\ ~QualityValid(d.quality, m) THEN "mismatched"
    ELSE IF ~There(listed.report)
    THEN IF There(listed.pending) /\ d.pending.state # "whole" THEN "mismatched"
         ELSE "incomplete"
    ELSE IF ~There(listed.quality) THEN "mismatched"
    ELSE IF d.quality.doc.decision # "qualified" /\ listed.suite # NoSuite THEN "mismatched"
    ELSE IF d.quality.doc.decision = "qualified" /\ listed.suite = NoSuite THEN "incomplete"
    ELSE IF d.report.doc # Want(d, m) THEN "mismatched"
    ELSE IF There(listed.pending)
    THEN IF d.pending = d.report THEN "incomplete" ELSE "mismatched"
    ELSE "consistent"

ListProject ==
    /\ insp.at = "idle"
    /\ \E i \in Index :
          insp' = [insp EXCEPT !.at = "read", !.on = i, !.seen = disk[i],
                               !.quiet = (pc = "done")]
    /\ UNCHANGED <<pc, ended, late, cur, cases, r, camp, answer, manifest, top, disk>>

ReadProject ==
    /\ insp.at = "read"
    /\ LET v == Verification(insp.seen, disk[insp.on], manifest[insp.on])
       IN  insp' = [NotInspecting EXCEPT !.at = "done", !.on = insp.on,
                       !.quiet = insp.quiet, !.verification = v,
                       !.decision = IF v = "consistent" THEN disk[insp.on].report.doc.decision
                                    ELSE ""]
    /\ UNCHANGED <<pc, ended, late, cur, cases, r, camp, answer, manifest, top, disk>>

AtRest(i) == Verification(disk[i], disk[i], manifest[i])

\* The rows the consistent projects call for.
WantedRows ==
    [i \in Index |->
        IF AtRest(i) # "consistent" THEN NewRow(manifest[i])
        ELSE LET d == disk[i].report.doc
             IN  [lifecycle |-> d.lifecycle, decision |-> d.decision, code |-> d.code,
                  caseCounts |-> d.caseCounts, trialCounts |-> d.trialCounts]]

\* inspectPreparedCampaign of a campaign at rest.
CampaignVerification ==
    IF ~top.made \/ ~There(top.claim) THEN "incomplete"
    ELSE IF top.claim.state = "torn" THEN "mismatched"
    ELSE IF ~top.projects THEN "incomplete"
    ELSE IF \E i \in Index : AtRest(i) = "mismatched" THEN "mismatched"
    ELSE IF ~There(top.report)
    THEN IF top.pending.state = "torn" THEN "mismatched" ELSE "incomplete"
    ELSE IF \E i \in Index : AtRest(i) # "consistent" THEN "mismatched"
    ELSE IF top.report.doc # [lifecycle |-> "published", rows |-> WantedRows,
                              totals |-> Totals(WantedRows)] THEN "mismatched"
    ELSE IF There(top.pending)
    THEN IF top.pending = top.report THEN "incomplete" ELSE "mismatched"
    ELSE "consistent"

------------------------------------------------------------------------------
Runner ==
    \/ ClaimCampaign \/ ProjectStep \/ NextProject \/ StartProject
    \/ StageCampaign \/ LinkCampaign \/ FinishCampaign

Next == Runner \/ ContextEnds \/ Crash \/ ListProject \/ ReadProject

Spec == Init /\ [][Next]_vars

------------------------------------------------------------------------------
\* A project that an inspector calls consistent, even while it is being run or
\* after a crash, was published as a whole; a passed one had every case match,
\* every oracle check failed by its negative case, and a suite that passed.
ConsistentIsEarned ==
    insp.verification = "consistent" =>
        LET d == disk[insp.on]
            m == manifest[insp.on]
        IN  /\ d.report.state = "whole" /\ ~There(d.pending)
            /\ insp.decision = "passed" =>
                  /\ d.suite = "passed"
                  /\ \A i \in DOMAIN m : d.quality.doc.rows[i] = "matched"
                  /\ \A c \in Checks : \E i \in DOMAIN m : m[i] = c

\* What the runner leaves and tells is what its inspector finds.  Whatever failed
\* and whenever the contexts ended, at rest only a file that was cut short makes
\* a project or the campaign "mismatched"; a caller told that the campaign
\* succeeded finds it consistent, with the decision it was told; an error is
\* never consistent, and "passed" needs every project consistent and passed.
RunnerAgreesWithInspector ==
    pc = "done" =>
        /\ \A i \in Index : AtRest(i) = "mismatched" =>
              Torn \in {disk[i].claim, disk[i].quality, disk[i].pending}
        /\ CampaignVerification = "mismatched" =>
              \/ Torn \in {top.claim, top.pending}
              \/ \E i \in Index : AtRest(i) = "mismatched"
        /\ answer = "ok" =>
              /\ CampaignVerification = "consistent" /\ top.report.doc = camp
              /\ (camp.totals.decision = "passed")
                    <=> \A i \in Index : /\ AtRest(i) = "consistent"
                                         /\ disk[i].report.doc.decision = "passed"
        /\ answer = "error" => CampaignVerification # "consistent"

\* What a project or a campaign says of itself holds, for whoever runs it, is told
\* of it, or inspects it.
CampaignReportHolds == ConsistentIsEarned /\ RunnerAgreesWithInspector
==============================================================================
