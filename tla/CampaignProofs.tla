--------------------------- MODULE CampaignProofs ---------------------------
(***************************************************************************)
(* What holds of a campaign of any number of projects, of any manifests,   *)
(* and of an inspector beside it, whatever fails, is cancelled or dies.    *)
(***************************************************************************)
EXTENDS CampaignRun, TLAPS

-----------------------------------------------------------------------------
(***************************************************************************)
(* The directory of a project of manifest m.                               *)
(***************************************************************************)
Executed == {"matched", "mismatched"}

Dir(made, claim, quality, suite, pending, report) ==
  [made |-> made, claim |-> claim, quality |-> quality, suite |-> suite,
   pending |-> pending, report |-> report]

\* The members of a directory that was made and claimed.
Claimed(m, quality, suite, pending, report) ==
  Dir(TRUE, Whole(m), quality, suite, pending, report)

\* It after a write to its member f.
With(d, f, v) == [d EXCEPT ![f] = v]

\* quality.json of cases that ran to the end.
QualityOf(rows, m) == Whole([rows |-> rows, decision |-> Qualification(rows, m)])
QualityOK(q, m) ==
  q = QualityOf(q.doc.rows, m) /\ q.doc.rows \in [DOMAIN m -> Executed]

\* A directory with all that a report is made of: a suite only where it qualified.
Ready(d, m) ==
  /\ d = Claimed(m, d.quality, d.suite, d.pending, d.report)
  /\ QualityOK(d.quality, m)
  /\ IF d.quality.doc.decision = "qualified" THEN d.suite \in {"passed", "failed"}
     ELSE d.suite = NoSuite

\* The report it calls for.
Wanted(d, m) == Whole(Want(d, m))

\* What any moment may leave of a directory.
Sound(d, m) ==
  /\ d = Dir(d.made, d.claim, d.quality, d.suite, d.pending, d.report)
  /\ d.claim \in {NoFile, Torn, Whole(m)}
  /\ d.quality \in {NoFile, Torn} \/ QualityOK(d.quality, m)
  /\ d.pending \in {NoFile, Torn} \/ (Ready(d, m) /\ d.pending = Wanted(d, m))
  /\ \/ d.report = NoFile
     \/ Ready(d, m) /\ d.report = Wanted(d, m) /\ d.pending \in {NoFile, d.report}

\* A directory whose project returned without an error.
Finished(d, m) == Ready(d, m) /\ d.pending = NoFile /\ d.report = Wanted(d, m)

\* Its report can be read and no staging is left.
Settled(d) == There(d.report) /\ ~There(d.pending)

\* A report in memory as far as it has come.
Counted(rows, m) == [NewReport(m) EXCEPT !.caseCounts = CaseCounts(rows, m)]
Qualified(rows, m) ==
  [Counted(rows, m) EXCEPT !.quality = "qualified", !.stages["quality"] = "passed"]
Ran(rows, m) == [Qualified(rows, m) EXCEPT !.trialCounts = AllTrials, !.stages["suite"] = "passed"]

\* The directory d of the running project, its case rows and its report, by the
\* place of the runner.
AtPlace(at, rows, rep, d, m) ==
  /\ at \in {"start", "next", "open"} => d = NoDisk
  /\ at \in {"start", "next", "open", "claim"} => rep = NewReport(m) /\ rows = <<>>
  /\ at = "claim" => d = Dir(TRUE, NoFile, NoFile, NoSuite, NoFile, NoFile)
  /\ at \in {"cases", "quality"} => d = Claimed(m, NoFile, NoSuite, NoFile, NoFile)
  /\ at = "cases" => rep = NewReport(m) /\ Len(rows) <= Len(m)
  /\ at = "quality" => rep = Counted(rows, m)
  /\ at \in {"quality", "suite", "assess"} => rows \in [DOMAIN m -> Executed]
  /\ at \in {"suite", "assess"} => Qualification(rows, m) = "qualified"
  /\ at = "suite" =>
       d = Claimed(m, QualityOf(rows, m), NoSuite, NoFile, NoFile) /\ rep = Qualified(rows, m)
  /\ at = "assess" =>
       /\ d = Claimed(m, QualityOf(rows, m), d.suite, NoFile, NoFile)
       /\ d.suite \in {"passed", "failed"}
       /\ rep = Ran(rows, m)
  /\ at \in {"publish", "link", "unlink", "row"} => Ready(d, m)
  /\ at = "publish" => Published(rep) = Want(d, m)
  /\ at \in {"link", "unlink", "row"} => rep = Want(d, m)
  /\ at \in {"publish", "row"} => d.pending = NoFile
  /\ at \in {"publish", "link"} => d.report = NoFile
  /\ at \in {"link", "unlink"} => d.pending = Whole(rep)
  /\ at \in {"unlink", "row"} => d.report = Whole(rep)

-----------------------------------------------------------------------------
(***************************************************************************)
(* The inductive invariant.                                                *)
(***************************************************************************)
OfProject == {"open", "claim", "cases", "quality", "suite", "assess", "publish", "link",
              "unlink"}
OfCampaign == {"total", "publishCampaign", "finish"}

\* The rows of a campaign report: one of each project.
IsRows(rows) == rows = [i \in Index |-> rows[i]]

TypeOK ==
  /\ pc \in {"start", "row", "next", "done"} \cup OfProject \cup OfCampaign
  /\ cur \in Index
  /\ cases \in Seq({"matched", "mismatched", "failed"})
  /\ camp = [lifecycle |-> camp.lifecycle, rows |-> camp.rows, totals |-> camp.totals]
  /\ IsRows(camp.rows)
  /\ answer \in {"none", "ok", "error"}
  /\ manifest \in [Index -> Manifests]
  /\ DOMAIN disk = Index

\* The row of a campaign that a published report calls for.
RowOf(rep) == [lifecycle |-> rep.lifecycle, decision |-> rep.decision, code |-> rep.code,
               caseCounts |-> rep.caseCounts, trialCounts |-> rep.trialCounts]

\* The projects before the running one are finished and have their rows, those
\* after it have nothing.
ProjectsOK ==
  /\ \A i \in Index : Sound(disk[i], manifest[i])
  /\ pc # "done" => \A i \in Index : i > cur => disk[i] = NoDisk
  /\ pc # "done" => \A i \in Index : (i < cur \/ pc \in OfCampaign) =>
       Finished(disk[i], manifest[i]) /\ camp.rows[i] = RowOf(disk[i].report.doc)
  /\ pc = "start" => cur = 1
  /\ AtPlace(pc, cases, r, disk[cur], manifest[cur])

AllFinished == \A i \in Index : Finished(disk[i], manifest[i])
RowsOfReports == [i \in Index |-> RowOf(disk[i].report.doc)]
Final == [lifecycle |-> "published", rows |-> RowsOfReports,
          totals |-> Totals(RowsOfReports)]

\* The members of a campaign directory, and one in which projects may run.
Top(made, claim, projects, pending, report) ==
  [made |-> made, claim |-> claim, projects |-> projects, pending |-> pending,
   report |-> report]
Opened == Top(TRUE, Whole(manifest), TRUE, NoFile, NoFile)

\* A campaign report, staged or published, is the one that its finished projects
\* call for.
TopOK ==
  /\ top = Top(top.made, top.claim, top.projects, top.pending, top.report)
  /\ top.claim \in {NoFile, Torn, Whole(manifest)}
  /\ top.pending \in {NoFile, Torn} \/ (AllFinished /\ top.pending = Whole(Final))
  /\ \/ top.report = NoFile
     \/ /\ AllFinished /\ top.report = Whole(Final) /\ top.pending \in {NoFile, top.report}
        /\ top.made /\ top.projects /\ top.claim = Whole(manifest)
  /\ pc = "start" => top = NoTop
  /\ pc \in OfProject \cup {"row", "next", "total"} => top = Opened
  /\ pc \in {"publishCampaign", "finish"} =>
       /\ camp = Final /\ top.pending = Whole(camp)
       /\ top.made /\ top.projects /\ top.claim = Whole(manifest)
  /\ pc = "publishCampaign" => top.report = NoFile
  /\ pc = "finish" => top.report = top.pending

AnswerOK ==
  /\ pc # "done" => answer = "none"
  /\ answer = "ok" => top.report = Whole(camp) /\ top.pending = NoFile
  /\ answer = "error" => top.report = NoFile \/ top.pending # NoFile

\* What the inspector saw published is what it reads, and stays.
InspectorOK ==
  /\ insp = [at |-> insp.at, on |-> insp.on, seen |-> insp.seen, quiet |-> insp.quiet,
             verification |-> insp.verification, decision |-> insp.decision]
  /\ insp.on \in Index
  /\ insp.at # "done" => insp.verification # "consistent"
  /\ insp.at = "read" /\ Settled(insp.seen) => disk[insp.on] = insp.seen
  /\ insp.verification = "consistent" =>
       /\ Settled(disk[insp.on])
       /\ insp.decision = disk[insp.on].report.doc.decision

CampaignInv ==
  /\ TypeOK
  /\ ProjectsOK
  /\ TopOK
  /\ AnswerOK
  /\ InspectorOK

-----------------------------------------------------------------------------
(***************************************************************************)
(* Files, directories and what is made of them.                            *)
(***************************************************************************)
\* A file that is absent, torn or whole is only that.
LEMMA FileStates ==
  /\ ~There(NoFile) /\ There(Torn) /\ Torn.state = "torn" /\ NoFile.state = "absent"
  /\ \A x : /\ There(Whole(x)) /\ Whole(x).state = "whole" /\ Whole(x).doc = x
            /\ Whole(x) # NoFile /\ Whole(x) # Torn
<1>1. \A x : Whole(x).state = "whole" /\ Whole(x).doc = x
  BY DEF Whole
<1>2. NoFile.state = "absent" /\ Torn.state = "torn"
  BY DEF NoFile, Torn
<1> QED
  BY <1>1, <1>2 DEF There

\* A directory has the members it is made of.
LEMMA DirMembers ==
  ASSUME NEW made, NEW claim, NEW quality, NEW suite, NEW pending, NEW report
  PROVE  LET d == Dir(made, claim, quality, suite, pending, report)
         IN  /\ d.made = made /\ d.claim = claim /\ d.quality = quality
             /\ d.suite = suite /\ d.pending = pending /\ d.report = report
             /\ d = Dir(d.made, d.claim, d.quality, d.suite, d.pending, d.report)
BY DEF Dir

\* A claimed directory has the members it is made of.
LEMMA ClaimedMembers ==
  ASSUME NEW m, NEW quality, NEW suite, NEW pending, NEW report
  PROVE  LET d == Claimed(m, quality, suite, pending, report)
         IN  /\ d.made /\ d.claim = Whole(m) /\ d.quality = quality
             /\ d.suite = suite /\ d.pending = pending /\ d.report = report
             /\ d = Dir(d.made, d.claim, d.quality, d.suite, d.pending, d.report)
             /\ d = Claimed(m, d.quality, d.suite, d.pending, d.report)
<1> DEFINE d == Claimed(m, quality, suite, pending, report)
<1>1. d = Dir(TRUE, Whole(m), quality, suite, pending, report)
  BY DEF Claimed
<1>2. /\ d.made = TRUE /\ d.claim = Whole(m) /\ d.quality = quality
      /\ d.suite = suite /\ d.pending = pending /\ d.report = report
  BY <1>1 DEF Dir
<1> HIDE DEF d
<1>3. d = Dir(d.made, d.claim, d.quality, d.suite, d.pending, d.report)
  BY <1>1, <1>2
<1>4. d = Claimed(m, d.quality, d.suite, d.pending, d.report)
  BY <1>2 DEF d
<1> QED
  BY <1>2, <1>3, <1>4 DEF d

\* A write changes the member it names.
LEMMA DirUpdated ==
  ASSUME NEW made, NEW claim, NEW quality, NEW suite, NEW pending, NEW report, NEW v
  PROVE  LET d == Dir(made, claim, quality, suite, pending, report)
         IN  /\ With(d, "made", v) = Dir(v, claim, quality, suite, pending, report)
             /\ With(d, "claim", v) = Dir(made, v, quality, suite, pending, report)
             /\ With(d, "quality", v) = Dir(made, claim, v, suite, pending, report)
             /\ With(d, "suite", v) = Dir(made, claim, quality, v, pending, report)
             /\ With(d, "pending", v) = Dir(made, claim, quality, suite, v, report)
             /\ With(d, "report", v) = Dir(made, claim, quality, suite, pending, v)
<1> DEFINE d == Dir(made, claim, quality, suite, pending, report)
<1>1. [d EXCEPT !["made"] = v] = Dir(v, claim, quality, suite, pending, report)
  BY DEF Dir
<1>2. [d EXCEPT !["claim"] = v] = Dir(made, v, quality, suite, pending, report)
  BY DEF Dir
<1>3. [d EXCEPT !["quality"] = v] = Dir(made, claim, v, suite, pending, report)
  BY DEF Dir
<1>4. [d EXCEPT !["suite"] = v] = Dir(made, claim, quality, v, pending, report)
  BY DEF Dir
<1>5. [d EXCEPT !["pending"] = v] = Dir(made, claim, quality, suite, v, report)
  BY DEF Dir
<1>6. [d EXCEPT !["report"] = v] = Dir(made, claim, quality, suite, pending, v)
  BY DEF Dir
<1> QED
  BY <1>1, <1>2, <1>3, <1>4, <1>5, <1>6 DEF With

\* A write to a claimed directory changes the member it names.
LEMMA ClaimedUpdated ==
  ASSUME NEW m, NEW quality, NEW suite, NEW pending, NEW report, NEW v
  PROVE  LET d == Claimed(m, quality, suite, pending, report)
         IN  /\ With(d, "quality", v) = Claimed(m, v, suite, pending, report)
             /\ With(d, "suite", v) = Claimed(m, quality, v, pending, report)
             /\ With(d, "pending", v) = Claimed(m, quality, suite, v, report)
             /\ With(d, "report", v) = Claimed(m, quality, suite, pending, v)
<1>1. ASSUME NEW b
      PROVE  LET d == Dir(b, Whole(m), quality, suite, pending, report)
             IN  /\ With(d, "quality", v) = Dir(b, Whole(m), v, suite, pending, report)
                 /\ With(d, "suite", v) = Dir(b, Whole(m), quality, v, pending, report)
                 /\ With(d, "pending", v) = Dir(b, Whole(m), quality, suite, v, report)
                 /\ With(d, "report", v) = Dir(b, Whole(m), quality, suite, pending, v)
  BY DirUpdated
<1> QED
  BY <1>1, Zenon DEF Claimed

\* What is untouched, and what only was made.
LEMMA NoDiskIs ==
  /\ NoDisk = Dir(FALSE, NoFile, NoFile, NoSuite, NoFile, NoFile)
  /\ With(NoDisk, "made", TRUE) = Dir(TRUE, NoFile, NoFile, NoSuite, NoFile, NoFile)
<1>1. NoDisk = Dir(FALSE, NoFile, NoFile, NoSuite, NoFile, NoFile)
  BY DEF NoDisk, Dir
<1>2. ASSUME NEW a, NEW b
      PROVE  With(Dir(a, NoFile, NoFile, NoSuite, NoFile, NoFile), "made", b)
               = Dir(b, NoFile, NoFile, NoSuite, NoFile, NoFile)
  BY DirUpdated
<1> QED
  BY <1>1, <1>2, Zenon

\* A qualification is one of two words.
LEMMA QualificationWords ==
  ASSUME NEW rows, NEW m
  PROVE  Qualification(rows, m) \in {"qualified", "not_qualified"}
BY DEF Qualification

\* What quality.json holds is what its reader demands.
LEMMA QualityIsValid ==
  ASSUME NEW m, NEW q, QualityOK(q, m)
  PROVE  /\ QualityValid(q, m) /\ There(q) /\ q # NoFile /\ q # Torn
         /\ q.doc.decision = Qualification(q.doc.rows, m)
<1>1. q = Whole([rows |-> q.doc.rows, decision |-> Qualification(q.doc.rows, m)])
  BY DEF QualityOK, QualityOf
<1>2. q.state = "whole" /\ q # NoFile /\ q # Torn /\ There(q)
  BY <1>1, FileStates
<1>3. q.doc = [rows |-> q.doc.rows, decision |-> Qualification(q.doc.rows, m)]
  BY <1>1, FileStates
<1>4. q.doc.decision = Qualification(q.doc.rows, m)
  BY <1>3
<1>5. q.doc.rows \in [DOMAIN m -> Executed]
  BY DEF QualityOK
<1> QED
  BY <1>2, <1>4, <1>5 DEF QualityValid, Executed

\* The quality.json a runner writes.
LEMMA QualityWritten ==
  ASSUME NEW m, NEW rows \in [DOMAIN m -> Executed]
  PROVE  LET q == QualityOf(rows, m)
         IN  /\ QualityOK(q, m) /\ q.doc.rows = rows
             /\ q.doc.decision = Qualification(rows, m)
<1> DEFINE q == QualityOf(rows, m)
<1>1. q.doc = [rows |-> rows, decision |-> Qualification(rows, m)]
  BY FileStates DEF QualityOf
<1>2. q.doc.rows = rows /\ q.doc.decision = Qualification(rows, m)
  BY <1>1
<1> HIDE DEF q
<1>3. q = QualityOf(q.doc.rows, m)
  BY <1>2 DEF q
<1> QED
  BY <1>2, <1>3 DEF QualityOK, q

\* The report a directory calls for depends on its quality and its suite; it is
\* published, and passed exactly where the cases qualified and the suite passed.
LEMMA WantSays ==
  ASSUME NEW d, NEW m
  PROVE  /\ Want(d, m).lifecycle = "published"
         /\ d.quality.doc.decision = "qualified" => Want(d, m).decision = d.suite
         /\ d.quality.doc.decision # "qualified" => Want(d, m).decision = "failed"
         /\ \A e : e.quality = d.quality /\ e.suite = d.suite => Want(e, m) = Want(d, m)
<1>1. Want(d, m).lifecycle = "published"
  BY DEF Want, Published, Assessed, NewReport
<1>2. d.quality.doc.decision = "qualified" => Want(d, m).decision = d.suite
  BY DEF Want, Published, Assessed, NewReport
<1>3. d.quality.doc.decision # "qualified" => Want(d, m).decision = "failed"
  BY DEF Want, Published, Assessed, NewReport
<1>4. \A e : e.quality = d.quality /\ e.suite = d.suite => Want(e, m) = Want(d, m)
  BY DEF Want
<1> QED
  BY <1>1, <1>2, <1>3, <1>4

\* The report of cases that do not qualify, as the runner makes it.
LEMMA WantUnqualified ==
  ASSUME NEW d, NEW m, d.quality.doc.decision # "qualified"
  PROVE  Want(d, m) =
           Published([Counted(d.quality.doc.rows, m) EXCEPT
                        !.quality = d.quality.doc.decision, !.stages["quality"] = "failed",
                        !.decision = "failed", !.code = "NOT_QUALIFIED"])
<1> DEFINE rows == d.quality.doc.rows
           q == d.quality.doc.decision
<1>1. [[NewReport(m) EXCEPT !.caseCounts = CaseCounts(rows, m)] EXCEPT
          !.quality = q, !.stages["quality"] = "failed",
          !.decision = "failed", !.code = "NOT_QUALIFIED"]
      = [[NewReport(m) EXCEPT !.caseCounts = CaseCounts(rows, m), !.quality = q] EXCEPT
          !.stages["quality"] = "failed", !.decision = "failed", !.code = "NOT_QUALIFIED"]
  BY DEF NewReport
<1> QED
  BY <1>1 DEF Want, Counted

\* The report of a suite that was assessed, as the runner makes it.
LEMMA WantAssessed ==
  ASSUME NEW d, NEW m, d.quality.doc.decision = "qualified"
  PROVE  Want(d, m) = Published(Assessed(Ran(d.quality.doc.rows, m), d.suite))
<1> DEFINE rows == d.quality.doc.rows
<1>1. [[[NewReport(m) EXCEPT !.caseCounts = CaseCounts(rows, m)] EXCEPT
           !.quality = "qualified", !.stages["quality"] = "passed"] EXCEPT
           !.trialCounts = AllTrials, !.stages["suite"] = "passed"]
      = [[NewReport(m) EXCEPT !.caseCounts = CaseCounts(rows, m), !.quality = "qualified"]
           EXCEPT !.stages["quality"] = "passed", !.stages["suite"] = "passed",
                  !.trialCounts = AllTrials]
  BY ZenonT(60) DEF NewReport
<1>2. Ran(rows, m)
      = [[NewReport(m) EXCEPT !.caseCounts = CaseCounts(rows, m), !.quality = "qualified"]
           EXCEPT !.stages["quality"] = "passed", !.stages["suite"] = "passed",
                  !.trialCounts = AllTrials]
  BY <1>1 DEF Ran, Qualified, Counted
<1> QED
  BY <1>2 DEF Want

\* A finished directory is what its inspector calls consistent.
LEMMA FinishedIsConsistent ==
  ASSUME NEW d, NEW m, Finished(d, m)
  PROVE  /\ Verification(d, d, m) = "consistent"
         /\ d.report # NoFile /\ d.report.doc = Want(d, m)
<1>1. /\ d.made /\ d.claim = Whole(m)
      /\ QualityOK(d.quality, m) /\ d.pending = NoFile /\ d.report = Whole(Want(d, m))
  BY ClaimedMembers DEF Finished, Ready, Wanted
<1>2. /\ There(d.claim) /\ d.claim.state # "torn" /\ There(d.quality)
      /\ QualityValid(d.quality, m) /\ There(d.report) /\ ~There(d.pending)
      /\ d.report.doc = Want(d, m) /\ d.report # NoFile
  BY <1>1, FileStates, QualityIsValid
<1>3. d.quality.doc.decision # "qualified" => d.suite = NoSuite
  BY DEF Finished, Ready
<1>4. d.quality.doc.decision = "qualified" => d.suite # NoSuite
  BY DEF Finished, Ready, NoSuite
<1> QED
  BY <1>1, <1>2, <1>3, <1>4 DEF Verification

\* Only a file that was cut short makes a sound directory "mismatched".
LEMMA OnlyTornMismatches ==
  ASSUME NEW d, NEW m, Sound(d, m), Verification(d, d, m) = "mismatched"
  PROVE  Torn \in {d.claim, d.quality, d.pending}
<1> SUFFICES ASSUME d.claim # Torn, d.quality # Torn, d.pending # Torn
             PROVE  FALSE
  OBVIOUS
<1>1. There(d.claim) => d.claim.state # "torn"
  BY FileStates DEF Sound
<1>2. There(d.quality) => QualityValid(d.quality, m)
  BY FileStates, QualityIsValid DEF Sound
<1>3. There(d.pending) => d.pending.state = "whole"
  BY FileStates DEF Sound, Wanted
<1>4. CASE There(d.report)
  <2>1. /\ Ready(d, m) /\ d.report = Whole(Want(d, m)) /\ d.pending \in {NoFile, d.report}
    BY <1>4, FileStates DEF Sound, Wanted
  <2>2. There(d.quality) /\ d.report.doc = Want(d, m)
    BY <2>1, FileStates, QualityIsValid DEF Ready
  <2>3. d.quality.doc.decision # "qualified" => d.suite = NoSuite
    BY <2>1 DEF Ready
  <2>4. There(d.pending) => d.pending = d.report
    BY <2>1, FileStates
  <2> QED
    BY <1>1, <1>2, <1>4, <2>2, <2>3, <2>4 DEF Verification
<1> QED
  BY <1>1, <1>2, <1>3, <1>4 DEF Verification

\* A sound directory with a settled report is finished.
LEMMA SettledIsFinished ==
  ASSUME NEW d, NEW m, Sound(d, m), Settled(d)
  PROVE  Finished(d, m)
<1>1. d.report # NoFile
  BY FileStates DEF Settled
<1>2. Ready(d, m) /\ d.report = Wanted(d, m) /\ d.pending \in {NoFile, d.report}
  BY <1>1 DEF Sound
<1>3. d.pending = NoFile
  BY <1>2 DEF Settled
<1> QED
  BY <1>2, <1>3 DEF Finished

\* A directory with no file in it is sound.
LEMMA FreshIsSound ==
  ASSUME NEW made, NEW m
  PROVE  Sound(Dir(made, NoFile, NoFile, NoSuite, NoFile, NoFile), m)
<1> DEFINE d == Dir(made, NoFile, NoFile, NoSuite, NoFile, NoFile)
<1>1. /\ d.made = made /\ d.claim = NoFile /\ d.quality = NoFile
      /\ d.suite = NoSuite /\ d.pending = NoFile /\ d.report = NoFile
  BY DEF Dir
<1> HIDE DEF d
<1>2. d = Dir(d.made, d.claim, d.quality, d.suite, d.pending, d.report)
  BY <1>1 DEF d
<1>3. Sound(d, m)
  BY <1>1, <1>2 DEF Sound
<1> QED
  BY <1>3 DEF d

\* Places of a running project leave a sound directory.
LEMMA PlaceIsSound ==
  ASSUME NEW at \in {"start", "next", "row"} \cup OfProject, NEW rows, NEW rep, NEW d, NEW m,
         AtPlace(at, rows, rep, d, m)
  PROVE  Sound(d, m)
<1>1. CASE at \in {"start", "next", "open"}
  <2>1. d = Dir(FALSE, NoFile, NoFile, NoSuite, NoFile, NoFile)
    BY <1>1, NoDiskIs DEF AtPlace
  <2> QED
    BY <2>1, FreshIsSound, Zenon
<1>2. CASE at = "claim"
  <2>1. d = Dir(TRUE, NoFile, NoFile, NoSuite, NoFile, NoFile)
    BY <1>2 DEF AtPlace
  <2> QED
    BY <2>1, FreshIsSound, Zenon
<1>3. CASE at \in {"cases", "quality"}
  <2>1. d = Claimed(m, NoFile, NoSuite, NoFile, NoFile)
    BY <1>3 DEF AtPlace
  <2> QED
    BY <2>1, ClaimedMembers DEF Sound
<1>4. CASE at \in {"suite", "assess"}
  <2>1. d = Claimed(m, QualityOf(rows, m), d.suite, NoFile, NoFile)
        /\ rows \in [DOMAIN m -> Executed]
    BY <1>4, ClaimedMembers DEF AtPlace
  <2>2. QualityOK(d.quality, m) /\ d.pending = NoFile /\ d.report = NoFile
    BY <2>1, ClaimedMembers, QualityWritten
  <2> QED
    BY <2>1, <2>2, ClaimedMembers DEF Sound
<1>5. CASE at \in {"publish", "link", "unlink", "row"}
  <2>1. Ready(d, m) /\ d = Claimed(m, d.quality, d.suite, d.pending, d.report)
    BY <1>5 DEF AtPlace, Ready
  <2>2. QualityOK(d.quality, m)
    BY <2>1 DEF Ready
  <2>3. /\ d.pending = NoFile \/ d.pending = Wanted(d, m)
        /\ \/ d.report = NoFile
           \/ d.report = Wanted(d, m) /\ d.pending \in {NoFile, d.report}
    BY <1>5 DEF AtPlace, Wanted
  <2>4. /\ d = Dir(d.made, d.claim, d.quality, d.suite, d.pending, d.report)
        /\ d.claim = Whole(m)
    BY <2>1, ClaimedMembers
  <2> QED
    BY <2>1, <2>2, <2>3, <2>4 DEF Sound
<1> QED
  BY <1>1, <1>2, <1>3, <1>4, <1>5 DEF OfProject

\* Until it is linked, a running project has no report.
LEMMA NoReportYet ==
  ASSUME NEW at \in {"start", "next"} \cup (OfProject \ {"unlink"}),
         NEW rows, NEW rep, NEW d, NEW m, AtPlace(at, rows, rep, d, m)
  PROVE  ~Settled(d) /\ d.report = NoFile
<1>1. d.report = NoFile
  <2>1. NoDisk.report = NoFile
    BY DEF NoDisk
  <2>2. \A a, b, c, e, f : Dir(a, b, c, e, f, NoFile).report = NoFile
    BY DEF Dir
  <2>3. \A a, b, c, e : Claimed(a, b, c, e, NoFile).report = NoFile
    BY DEF Dir, Claimed
  <2>4. CASE at \in {"start", "next", "open"}
    <3>1. d = NoDisk
      BY <2>4 DEF AtPlace
    <3> QED
      BY <2>1, <3>1
  <2>5. CASE at = "claim"
    <3>1. d = Dir(TRUE, NoFile, NoFile, NoSuite, NoFile, NoFile)
      BY <2>5 DEF AtPlace
    <3> QED
      BY <2>2, <3>1, Zenon
  <2>6. CASE at \in {"cases", "quality", "suite", "assess"}
    BY <2>3, <2>6 DEF AtPlace
  <2>7. CASE at \in {"publish", "link"}
    BY <2>7 DEF AtPlace
  <2> QED
    BY <2>4, <2>5, <2>6, <2>7 DEF OfProject
<1> QED
  BY <1>1, FileStates DEF Settled

-----------------------------------------------------------------------------
(***************************************************************************)
(* Steps: what has to be shown of each.                                    *)
(***************************************************************************)
\* A write to the running project's directory.
LEMMA SetHere ==
  ASSUME TypeOK, NEW f, NEW v, Set(f, v)
  PROVE  /\ disk'[cur] = With(disk[cur], f, v)
         /\ \A i \in Index : i # cur => disk'[i] = disk[i]
         /\ DOMAIN disk' = Index
BY DEF Set, TypeOK, With

\* No step takes back what an inspector may have seen settled.
SettledStays == \A i \in Index : Settled(disk[i]) => disk'[i] = disk[i]

\* Only the running project's directory is written, and is left sound.
WritesHere ==
  /\ DOMAIN disk' = Index /\ \A i \in Index : i # cur => disk'[i] = disk[i]
  /\ Sound(disk'[cur], manifest[cur])
  /\ Settled(disk[cur]) => disk'[cur] = disk[cur]

\* Nothing was written.
LEMMA NothingWritten ==
  ASSUME CampaignInv, UNCHANGED disk
  PROVE  WritesHere
BY DEF CampaignInv, TypeOK, ProjectsOK, WritesHere

\* The inspector keeps what it has seen while others work.
LEMMA OthersKeepInspector ==
  ASSUME CampaignInv, UNCHANGED insp, SettledStays
  PROVE  InspectorOK'
<1>1. InspectorOK /\ insp.on \in Index
  BY DEF CampaignInv, InspectorOK
<1>2. Settled(disk[insp.on]) => disk'[insp.on] = disk[insp.on]
  BY <1>1 DEF SettledStays
<1>3. insp.at = "read" /\ Settled(insp.seen) => disk'[insp.on] = insp.seen
  BY <1>1, <1>2 DEF InspectorOK
<1>4. insp.verification = "consistent" =>
        /\ Settled(disk'[insp.on]) /\ insp.decision = disk'[insp.on].report.doc.decision
  BY <1>1, <1>2 DEF InspectorOK
<1> QED
  BY <1>1, <1>3, <1>4 DEF InspectorOK

\* A project that goes on, still running or to its end.
LEMMA ProjectGoesOn ==
  ASSUME CampaignInv, pc \in OfProject, pc' \in OfProject \cup {"row"},
         UNCHANGED <<cur, manifest, top, camp, answer, insp>>,
         cases' \in Seq({"matched", "mismatched", "failed"}),
         DOMAIN disk' = Index, \A i \in Index : i # cur => disk'[i] = disk[i],
         Settled(disk[cur]) => disk'[cur] = disk[cur],
         AtPlace(pc', cases', r', disk'[cur], manifest[cur])
  PROVE  CampaignInv'
<1>1. TypeOK'
  BY DEF CampaignInv, TypeOK
<1>2. ProjectsOK'
  <2>1. cur \in Index /\ Index \subseteq Int
    BY DEF CampaignInv, TypeOK, Index
  <2>2. Sound(disk'[cur], manifest[cur])
    BY PlaceIsSound
  <2>3. \A i \in Index : Sound(disk'[i], manifest[i])
    BY <2>1, <2>2 DEF CampaignInv, ProjectsOK
  <2>4. pc # "done" /\ pc' # "done" /\ pc' # "start" /\ pc' \notin OfCampaign
    BY DEF OfProject, OfCampaign
  <2>5. ASSUME NEW i \in Index
        PROVE  /\ i > cur => disk'[i] = NoDisk
               /\ i < cur => /\ Finished(disk'[i], manifest[i])
                             /\ camp.rows[i] = RowOf(disk'[i].report.doc)
    <3>1. i > cur \/ i < cur => disk'[i] = disk[i]
      BY <2>1
    <3>2. /\ i > cur => disk[i] = NoDisk
          /\ i < cur => /\ Finished(disk[i], manifest[i])
                        /\ camp.rows[i] = RowOf(disk[i].report.doc)
      BY <2>4 DEF CampaignInv, ProjectsOK
    <3> QED
      BY <3>1, <3>2
  <2> QED
    BY <2>3, <2>4, <2>5 DEF ProjectsOK
<1>3. TopOK'
  <2>1. top = Opened /\ TopOK
    BY DEF CampaignInv, TopOK
  <2>2. top.pending = NoFile /\ top.report = NoFile /\ Opened' = Opened
    BY <2>1 DEF Opened, Top
  <2>3. pc' # "start" /\ pc' \notin {"publishCampaign", "finish"}
    BY DEF OfProject
  <2> QED
    BY <2>1, <2>2, <2>3 DEF TopOK
<1>4. AnswerOK'
  BY DEF CampaignInv, AnswerOK, OfProject
<1>5. InspectorOK'
  <2>1. SettledStays
    BY DEF SettledStays
  <2> QED
    BY <2>1, OthersKeepInspector
<1> QED
  BY <1>1, <1>2, <1>3, <1>4, <1>5 DEF CampaignInv

\* A runner that stops: only its directory may have changed, the campaign's own
\* directory has not been published since.
LEMMA RunnerStops ==
  ASSUME CampaignInv, pc' = "done", UNCHANGED <<cur, manifest, top, insp>>,
         cases' \in Seq({"matched", "mismatched", "failed"}),
         camp' = [lifecycle |-> camp'.lifecycle, rows |-> camp'.rows, totals |-> camp'.totals],
         IsRows(camp'.rows),
         answer' = "none" \/ (answer' = "error" /\ (top.report = NoFile \/ top.pending # NoFile)),
         WritesHere,
         UNCHANGED disk \/ (top.report = NoFile /\ top.pending = NoFile)
  PROVE  CampaignInv'
<1>1. TypeOK'
  BY DEF CampaignInv, TypeOK, WritesHere
<1>2. ProjectsOK'
  <2>1. \A i \in Index : Sound(disk'[i], manifest[i])
    BY DEF CampaignInv, ProjectsOK, WritesHere, TypeOK
  <2>2. AtPlace(pc', cases', r', disk'[cur], manifest[cur])
    BY DEF AtPlace
  <2> QED
    BY <2>1, <2>2 DEF ProjectsOK, OfCampaign
<1>3. TopOK'
  <2>1. TopOK
    BY DEF CampaignInv
  <2>2. pc' \notin {"start", "row", "next", "total", "publishCampaign", "finish"} \cup OfProject
    BY DEF OfProject
  <2>3. CASE UNCHANGED disk
    <3>1. AllFinished' = AllFinished /\ Final' = Final
      BY <2>3 DEF AllFinished, Final, RowsOfReports
    <3> QED
      BY <2>1, <2>2, <3>1 DEF TopOK
  <2>4. CASE top.report = NoFile /\ top.pending = NoFile
    BY <2>1, <2>2, <2>4 DEF TopOK
  <2> QED
    BY <2>3, <2>4
<1>4. AnswerOK'
  BY DEF AnswerOK
<1>5. InspectorOK'
  <2>1. SettledStays
    BY DEF SettledStays, WritesHere
  <2> QED
    BY <2>1, OthersKeepInspector
<1> QED
  BY <1>1, <1>2, <1>3, <1>4, <1>5 DEF CampaignInv

-----------------------------------------------------------------------------
(***************************************************************************)
(* The steps of a project.                                                 *)
(***************************************************************************)
\* What is known of the running project.
LEMMA Running ==
  ASSUME CampaignInv, pc \in OfProject
  PROVE  /\ TypeOK /\ cur \in Index
         /\ AtPlace(pc, cases, r, disk[cur], manifest[cur])
         /\ Sound(disk[cur], manifest[cur])
         /\ ~Settled(disk[cur])
         /\ top = Opened /\ top.pending = NoFile /\ top.report = NoFile
         /\ cases \in Seq({"matched", "mismatched", "failed"})
<1>1. /\ TypeOK /\ cur \in Index
      /\ AtPlace(pc, cases, r, disk[cur], manifest[cur])
      /\ Sound(disk[cur], manifest[cur])
      /\ cases \in Seq({"matched", "mismatched", "failed"})
  BY DEF CampaignInv, TypeOK, ProjectsOK
<1>2. top = Opened /\ top.pending = NoFile /\ top.report = NoFile
  BY DEF CampaignInv, TopOK, Opened, Top
<1>3. CASE pc = "unlink"
  <2>1. disk[cur].pending = Whole(r)
    BY <1>1, <1>3 DEF AtPlace
  <2>2. ~Settled(disk[cur])
    BY <2>1, FileStates DEF Settled
  <2> QED
    BY <1>1, <1>2, <2>2
<1>4. CASE pc # "unlink"
  <2>1. ~Settled(disk[cur])
    BY <1>1, <1>4, NoReportYet
  <2> QED
    BY <1>1, <1>2, <2>1
<1> QED
  BY <1>3, <1>4

\* fail: the runner stops with what its directory is by then.
LEMMA ProjectFails ==
  ASSUME CampaignInv, pc \in OfProject, NEW rep, NEW code, FailWith(rep, code),
         UNCHANGED <<cur, manifest, top, insp>>,
         cases' \in Seq({"matched", "mismatched", "failed"}), WritesHere
  PROVE  CampaignInv'
<1>1. PICK row : LET rows == [camp.rows EXCEPT ![cur] = row]
                 IN  camp' = [camp EXCEPT !.rows = rows, !.totals = Totals(rows)]
  BY DEF FailWith
<1> DEFINE rows == [camp.rows EXCEPT ![cur] = row]
<1>2. /\ camp = [lifecycle |-> camp.lifecycle, rows |-> camp.rows, totals |-> camp.totals]
      /\ IsRows(rows)
  <2>1. IsRows(camp.rows)
    BY DEF CampaignInv, TypeOK
  <2>2. IsRows(rows)
    BY <2>1 DEF IsRows
  <2> QED
    BY <2>2 DEF CampaignInv, TypeOK
<1> HIDE DEF rows
<1>3. camp' = [lifecycle |-> camp.lifecycle, rows |-> rows, totals |-> Totals(rows)]
  BY <1>1, <1>2 DEF rows
<1>4. /\ camp' = [lifecycle |-> camp'.lifecycle, rows |-> camp'.rows, totals |-> camp'.totals]
      /\ IsRows(camp'.rows)
  BY <1>2, <1>3
<1>5. pc' = "done" /\ answer' = "error"
  BY DEF FailWith
<1> QED
  BY <1>4, <1>5, Running, RunnerStops

\* A write that is cut short leaves a sound directory: of a file or of the suite,
\* while its project writes that.
CutShort(at, f, v) ==
  \/ at = "claim" /\ f = "claim" /\ v = Torn
  \/ at = "quality" /\ f = "quality" /\ v = Torn
  \/ at = "suite" /\ f = "suite"
  \/ at = "publish" /\ f = "pending" /\ v = Torn

\* Whatever a write that was cut short leaves, the directory is sound.
LEMMA CutShortIsSound ==
  ASSUME NEW at, NEW rows, NEW rep, NEW d, NEW m, AtPlace(at, rows, rep, d, m),
         NEW f, NEW v, CutShort(at, f, v)
  PROVE  Sound(With(d, f, v), m)
<1>1. CASE at = "claim" /\ f = "claim" /\ v = Torn
  <2>1. d = Dir(TRUE, NoFile, NoFile, NoSuite, NoFile, NoFile)
    BY <1>1 DEF AtPlace
  <2>2. ASSUME NEW b, d = Dir(b, NoFile, NoFile, NoSuite, NoFile, NoFile)
        PROVE  Sound(With(d, f, v), m)
    <3> DEFINE e == Dir(b, Torn, NoFile, NoSuite, NoFile, NoFile)
    <3>1. With(d, f, v) = e
      BY <1>1, <2>2, DirUpdated
    <3>2. /\ e.made = b /\ e.claim = Torn /\ e.quality = NoFile
          /\ e.suite = NoSuite /\ e.pending = NoFile /\ e.report = NoFile
      BY DEF Dir
    <3> HIDE DEF e
    <3>3. e = Dir(e.made, e.claim, e.quality, e.suite, e.pending, e.report)
      BY <3>2 DEF e
    <3> QED
      BY <3>1, <3>2, <3>3 DEF Sound
  <2> QED
    BY <2>1, <2>2, Zenon
<1>2. CASE at = "quality" /\ f = "quality" /\ v = Torn
  <2> DEFINE e == Claimed(m, Torn, NoSuite, NoFile, NoFile)
  <2>1. d = Claimed(m, NoFile, NoSuite, NoFile, NoFile)
    BY <1>2 DEF AtPlace
  <2>2. With(d, f, v) = e
    BY <1>2, <2>1, ClaimedUpdated
  <2>3. /\ e.claim = Whole(m) /\ e.quality = Torn /\ e.pending = NoFile /\ e.report = NoFile
        /\ e = Dir(e.made, e.claim, e.quality, e.suite, e.pending, e.report)
    BY ClaimedMembers
  <2> HIDE DEF e
  <2> QED
    BY <2>2, <2>3 DEF Sound
<1>3. CASE at = "suite" /\ f = "suite"
  <2> DEFINE e == Claimed(m, QualityOf(rows, m), v, NoFile, NoFile)
  <2>1. /\ d = Claimed(m, QualityOf(rows, m), NoSuite, NoFile, NoFile)
        /\ rows \in [DOMAIN m -> Executed]
    BY <1>3 DEF AtPlace
  <2>2. With(d, f, v) = e
    BY <1>3, <2>1, ClaimedUpdated
  <2>3. /\ e.claim = Whole(m) /\ e.quality = QualityOf(rows, m) /\ e.pending = NoFile
        /\ e.report = NoFile
        /\ e = Dir(e.made, e.claim, e.quality, e.suite, e.pending, e.report)
    BY ClaimedMembers
  <2> HIDE DEF e
  <2>4. QualityOK(e.quality, m)
    BY <2>1, <2>3, QualityWritten
  <2> QED
    BY <2>2, <2>3, <2>4 DEF Sound
<1>4. CASE at = "publish" /\ f = "pending" /\ v = Torn
  <2> DEFINE e == Claimed(m, d.quality, d.suite, Torn, NoFile)
  <2>1. /\ d = Claimed(m, d.quality, d.suite, NoFile, NoFile)
        /\ QualityOK(d.quality, m)
    BY <1>4 DEF AtPlace, Ready
  <2>2. With(d, f, v) = e
    BY <1>4, <2>1, ClaimedUpdated
  <2>3. /\ e.claim = Whole(m) /\ e.quality = d.quality /\ e.pending = Torn
        /\ e.report = NoFile
        /\ e = Dir(e.made, e.claim, e.quality, e.suite, e.pending, e.report)
    BY ClaimedMembers
  <2> HIDE DEF e
  <2> QED
    BY <2>1, <2>2, <2>3 DEF Sound
<1> QED
  BY <1>1, <1>2, <1>3, <1>4 DEF CutShort

\* A runner cut short in the running project's directory.
LEMMA CutShortHere ==
  ASSUME CampaignInv, pc \in OfProject, NEW f, NEW v, CutShort(pc, f, v), Set(f, v)
  PROVE  WritesHere
<1>1. Sound(With(disk[cur], f, v), manifest[cur])
  BY Running, CutShortIsSound
<1> QED
  BY <1>1, Running, SetHere DEF WritesHere

\* A file that is refused or cut short ends the run.
LEMMA FailedWrite ==
  ASSUME CampaignInv, pc \in OfProject, NEW f, CutShort(pc, f, Torn), WriteFails(f),
         UNCHANGED cases, Rest
  PROVE  CampaignInv'
<1>1. UNCHANGED <<cur, manifest, top, insp>> /\ cases' \in Seq({"matched", "mismatched", "failed"})
  BY Running DEF Rest
<1>2. CASE FailWith(r, "RESOURCE_LIMIT") /\ UNCHANGED disk
  BY <1>1, <1>2, NothingWritten, ProjectFails
<1>3. CASE FailWith(r, "WRITE_FAILED") /\ Set(f, Torn)
  BY <1>1, <1>3, CutShortHere, ProjectFails
<1> QED
  BY <1>2, <1>3 DEF WriteFails

\* A failure that writes nothing.
LEMMA FailedStep ==
  ASSUME CampaignInv, pc \in OfProject, NEW rep, NEW code, FailWith(rep, code),
         UNCHANGED <<cases, disk>>, Rest
  PROVE  CampaignInv'
BY Running, NothingWritten, ProjectFails DEF Rest

\* A write that succeeds, and what remains to be shown of it.
LEMMA WrittenHere ==
  ASSUME CampaignInv, pc \in OfProject, pc' \in OfProject \cup {"row"}, NEW f, NEW v, Set(f, v),
         UNCHANGED <<cases, camp, answer>>, Rest,
         AtPlace(pc', cases, r', With(disk[cur], f, v), manifest[cur])
  PROVE  CampaignInv'
<1>1. /\ disk'[cur] = With(disk[cur], f, v) /\ DOMAIN disk' = Index
      /\ \A i \in Index : i # cur => disk'[i] = disk[i]
  BY Running, SetHere
<1>2. AtPlace(pc', cases', r', disk'[cur], manifest[cur])
  BY <1>1
<1>3. UNCHANGED <<cur, manifest, top, camp, answer, insp>>
  BY DEF Rest
<1> QED
  BY <1>1, <1>2, <1>3, Running, ProjectGoesOn

\* A step that writes nothing, and what remains to be shown of it.
LEMMA OnlyMemory ==
  ASSUME CampaignInv, pc \in OfProject, pc' \in OfProject \cup {"row"},
         UNCHANGED <<disk, camp, answer>>, Rest,
         cases' \in Seq({"matched", "mismatched", "failed"}),
         AtPlace(pc', cases', r', disk[cur], manifest[cur])
  PROVE  CampaignInv'
<1>1. /\ DOMAIN disk' = Index /\ UNCHANGED <<cur, manifest, top, camp, answer, insp>>
  BY Running DEF TypeOK, Rest
<1> QED
  BY <1>1, Running, ProjectGoesOn

\* The directory is made.
LEMMA OpenProjectKeeps ==
  ASSUME CampaignInv, OpenProject
  PROVE  CampaignInv'
<1>1. pc = "open" /\ pc \in OfProject /\ UNCHANGED cases /\ Rest
  BY DEF OpenProject, OfProject
<1>2. CASE FailWith(r, "WRITE_FAILED") /\ UNCHANGED disk
  BY <1>1, <1>2, FailedStep
<1>3. CASE Set("made", TRUE) /\ Go("claim") /\ UNCHANGED r
  <2>1. disk[cur] = NoDisk /\ r = NewReport(manifest[cur]) /\ cases = <<>>
    BY <1>1, Running DEF AtPlace
  <2>2. With(disk[cur], "made", TRUE) = Dir(TRUE, NoFile, NoFile, NoSuite, NoFile, NoFile)
    BY <2>1, NoDiskIs
  <2>3. pc' = "claim" /\ "claim" \in OfProject
    BY <1>3 DEF Go, OfProject
  <2>4. AtPlace("claim", cases', r', With(disk[cur], "made", TRUE), manifest[cur])
    BY <1>1, <1>3, <2>1, <2>2 DEF AtPlace
  <2> QED
    BY <1>1, <1>3, <2>3, <2>4, WrittenHere DEF Go
<1> QED
  BY <1>2, <1>3 DEF OpenProject

\* It is claimed.
LEMMA ClaimProjectKeeps ==
  ASSUME CampaignInv, ClaimProject
  PROVE  CampaignInv'
<1> DEFINE m == manifest[cur]
<1>1. pc = "claim" /\ pc \in OfProject /\ UNCHANGED cases /\ Rest
  BY DEF ClaimProject, OfProject
<1>2. CASE WriteFails("claim")
  <2>1. CutShort(pc, "claim", Torn)
    BY <1>1 DEF CutShort
  <2> QED
    BY <1>1, <1>2, <2>1, FailedWrite
<1>3. CASE Set("claim", Whole(m)) /\ Go("cases") /\ UNCHANGED r
  <2>1. /\ disk[cur] = Dir(TRUE, NoFile, NoFile, NoSuite, NoFile, NoFile)
        /\ r = NewReport(m) /\ cases = <<>>
    BY <1>1, Running DEF AtPlace
  <2>2. With(disk[cur], "claim", Whole(m)) = Claimed(m, NoFile, NoSuite, NoFile, NoFile)
    <3>1. ASSUME NEW b
          PROVE  With(Dir(b, NoFile, NoFile, NoSuite, NoFile, NoFile), "claim", Whole(m))
                   = Dir(b, Whole(m), NoFile, NoSuite, NoFile, NoFile)
      BY DirUpdated
    <3> QED
      BY <2>1, <3>1, Zenon DEF Claimed
  <2>3. pc' = "cases" /\ "cases" \in OfProject
    BY <1>3 DEF Go, OfProject
  <2>4. Len(cases) <= Len(m)
    <3>1. m \in Manifests
      BY <1>1, Running DEF TypeOK
    <3>2. m \in Seq(Checks \cup {"positive", "unscorable"})
      BY <3>1, CampaignAssumption
    <3> QED
      BY <2>1, <3>2
  <2>5. AtPlace("cases", cases', r', With(disk[cur], "claim", Whole(m)), m)
    BY <1>1, <1>3, <2>1, <2>2, <2>4 DEF AtPlace
  <2> QED
    BY <1>1, <1>3, <2>3, <2>5, WrittenHere DEF Go
<1> QED
  BY <1>2, <1>3 DEF ClaimProject

\* A case is run, or found to be cancelled.
LEMMA CasesKeep ==
  ASSUME CampaignInv, RunCase \/ CaseCanceled
  PROVE  CampaignInv'
<1> DEFINE m == manifest[cur]
           K == {"matched", "mismatched", "failed"}
<1>1. /\ pc = "cases" /\ pc' = "cases" /\ pc \in OfProject
      /\ UNCHANGED <<r, camp, answer, disk>> /\ Rest
  BY DEF RunCase, CaseCanceled, OfProject
<1>2. /\ disk[cur] = Claimed(m, NoFile, NoSuite, NoFile, NoFile)
      /\ r = NewReport(m) /\ Len(cases) <= Len(m) /\ cases \in Seq(K)
  BY <1>1, Running DEF AtPlace
<1>3. m \in Seq(Checks \cup {"positive", "unscorable"})
  <2>1. m \in Manifests
    BY <1>1, Running DEF TypeOK
  <2> QED
    BY <2>1, CampaignAssumption
<1> HIDE DEF m
<1>4. cases' \in Seq(K) /\ Len(cases') <= Len(m)
  <2>1. CASE RunCase
    <3>1. PICK k \in K : cases' = Append(cases, k)
      BY <2>1 DEF RunCase
    <3>2. Len(cases) < Len(m)
      BY <2>1 DEF RunCase, m
    <3> QED
      BY <1>2, <1>3, <3>1, <3>2
  <2>2. CASE CaseCanceled
    <3>1. cases' = [cases EXCEPT ![Len(cases)] = "failed"] /\ "failed" \in K
      BY <2>2 DEF CaseCanceled
    <3>2. cases' \in Seq(K) /\ Len(cases') = Len(cases)
      <4>1. Len(cases) \in Nat /\ cases \in [1..Len(cases) -> K]
        BY <1>2
      <4>2. cases' \in [1..Len(cases) -> K]
        BY <3>1, <4>1
      <4> QED
        BY <4>1, <4>2
    <3> QED
      BY <1>2, <3>2
  <2> QED
    BY <2>1, <2>2
<1>5. AtPlace("cases", cases', r', disk[cur], m)
  BY <1>1, <1>2, <1>4 DEF AtPlace
<1> QED
  BY <1>1, <1>4, <1>5, OnlyMemory DEF m

\* The cases end: all of them ran and none failed, or the project fails.
LEMMA EndCasesKeeps ==
  ASSUME CampaignInv, EndCases
  PROVE  CampaignInv'
<1> DEFINE m == manifest[cur]
           K == {"matched", "mismatched", "failed"}
           failed == Rows("failed") # {} \/ Len(cases) < Len(m)
<1>1. pc = "cases" /\ pc \in OfProject /\ UNCHANGED <<cases, disk>> /\ Rest
  BY DEF EndCases, OfProject
<1>2. /\ disk[cur] = Claimed(m, NoFile, NoSuite, NoFile, NoFile)
      /\ r = NewReport(m) /\ Len(cases) <= Len(m) /\ cases \in Seq(K)
  BY <1>1, Running DEF AtPlace
<1>3. m \in Seq(Checks \cup {"positive", "unscorable"})
  <2>1. m \in Manifests
    BY <1>1, Running DEF TypeOK
  <2> QED
    BY <2>1, CampaignAssumption
<1>4. CASE failed
  <2>1. PICK rep, code : FailWith(rep, code)
    BY <1>4 DEF EndCases
  <2> QED
    BY <1>1, <2>1, FailedStep
<1>5. CASE ~failed
  <2>1. r' = Counted(cases, m) /\ Go("quality")
    BY <1>2, <1>5 DEF EndCases, Counted
  <2>2. cases \in [DOMAIN m -> Executed]
    <3>1. Len(cases) = Len(m)
      BY <1>2, <1>3, <1>5
    <3>2. \A i \in DOMAIN cases : cases[i] \in K /\ cases[i] # "failed"
      BY <1>2, <1>5 DEF Rows
    <3> HIDE DEF m
    <3> QED
      BY <1>2, <1>3, <3>1, <3>2 DEF Executed
  <2>3. pc' = "quality" /\ "quality" \in OfProject
    BY <2>1 DEF Go, OfProject
  <2>4. AtPlace("quality", cases', r', disk[cur], m)
    BY <1>1, <1>2, <2>1, <2>2 DEF AtPlace
  <2> QED
    BY <1>1, <1>2, <2>1, <2>3, <2>4, OnlyMemory DEF Go
<1> QED
  BY <1>4, <1>5

\* A directory that is ready stays so, and calls for the same report, when only
\* the files of the report are written.
LEMMA ReadyStays ==
  ASSUME NEW d, NEW m, Ready(d, m), NEW p, NEW f
  PROVE  LET e == Claimed(m, d.quality, d.suite, p, f)
         IN  /\ Ready(e, m) /\ Want(e, m) = Want(d, m)
             /\ e.pending = p /\ e.report = f
<1> DEFINE e == Claimed(m, d.quality, d.suite, p, f)
<1>1. /\ e.quality = d.quality /\ e.suite = d.suite /\ e.pending = p /\ e.report = f
      /\ e = Claimed(m, e.quality, e.suite, e.pending, e.report)
  BY ClaimedMembers
<1> HIDE DEF e
<1>2. Ready(e, m)
  BY <1>1 DEF Ready
<1>3. Want(e, m) = Want(d, m)
  BY <1>1, WantSays
<1> QED
  BY <1>1, <1>2, <1>3 DEF e

\* quality.json is written; the project goes on to its suite only if it qualifies.
LEMMA RecordQualityKeeps ==
  ASSUME CampaignInv, RecordQuality
  PROVE  CampaignInv'
<1> DEFINE m == manifest[cur]
           q == Qualification(cases, m)
           e == Claimed(m, QualityOf(cases, m), NoSuite, NoFile, NoFile)
<1>1. pc = "quality" /\ pc \in OfProject /\ UNCHANGED cases /\ Rest
  BY DEF RecordQuality, OfProject
<1>2. CASE WriteFails("quality")
  <2>1. CutShort(pc, "quality", Torn)
    BY <1>1 DEF CutShort
  <2> QED
    BY <1>1, <1>2, <2>1, FailedWrite
<1>3. CASE /\ Set("quality", Whole([rows |-> cases, decision |-> q]))
           /\ r' = IF q = "qualified"
                   THEN [r EXCEPT !.quality = q, !.stages["quality"] = "passed"]
                   ELSE [r EXCEPT !.quality = q, !.stages["quality"] = "failed",
                                  !.decision = "failed", !.code = "NOT_QUALIFIED"]
           /\ Go(IF q = "qualified" THEN "suite" ELSE "publish")
  <2>1. /\ disk[cur] = Claimed(m, NoFile, NoSuite, NoFile, NoFile)
        /\ r = Counted(cases, m) /\ cases \in [DOMAIN m -> Executed]
    BY <1>1, Running DEF AtPlace
  <2>2. Set("quality", QualityOf(cases, m)) /\ With(disk[cur], "quality", QualityOf(cases, m)) = e
    BY <1>3, <2>1, ClaimedUpdated DEF QualityOf
  <2>3. /\ e.quality = QualityOf(cases, m) /\ e.suite = NoSuite
        /\ e.pending = NoFile /\ e.report = NoFile
        /\ e = Claimed(m, e.quality, e.suite, e.pending, e.report)
    BY ClaimedMembers
  <2>4. /\ QualityOK(QualityOf(cases, m), m) /\ QualityOf(cases, m).doc.rows = cases
        /\ QualityOf(cases, m).doc.decision = q
    BY <2>1, QualityWritten
  <2>5. CASE q = "qualified"
    <3>1. r' = Qualified(cases, m) /\ pc' = "suite" /\ "suite" \in OfProject
      BY <1>3, <2>1, <2>5 DEF Qualified, Go, OfProject
    <3>2. AtPlace("suite", cases', r', e, m)
      BY <1>1, <2>1, <2>5, <3>1 DEF AtPlace
    <3> QED
      BY <1>1, <1>3, <2>2, <3>1, <3>2, WrittenHere DEF Go
  <2>6. CASE q # "qualified"
    <3>1. /\ r' = [Counted(cases, m) EXCEPT !.quality = q, !.stages["quality"] = "failed",
                                    !.decision = "failed", !.code = "NOT_QUALIFIED"]
          /\ pc' = "publish" /\ "publish" \in OfProject
      BY <1>3, <2>1, <2>6 DEF Go, OfProject
    <3> HIDE DEF e
    <3>2. Ready(e, m)
      BY <2>3, <2>4, <2>6 DEF Ready
    <3>3. Want(e, m) = Published(r')
      BY <2>3, <2>4, <2>6, <3>1, WantUnqualified
    <3>4. AtPlace("publish", cases', r', e, m)
      BY <2>3, <3>2, <3>3 DEF AtPlace
    <3> QED
      BY <1>1, <1>3, <2>2, <3>1, <3>4, WrittenHere DEF Go
  <2> QED
    BY <2>5, <2>6
<1> QED
  BY <1>2, <1>3 DEF RecordQuality

\* The suite runs, and its trials are counted.
LEMMA RunSuiteKeeps ==
  ASSUME CampaignInv, RunSuite
  PROVE  CampaignInv'
<1> DEFINE m == manifest[cur]
<1>1. pc = "suite" /\ pc \in OfProject /\ UNCHANGED cases /\ Rest
  BY DEF RunSuite, OfProject
<1>2. ASSUME NEW rep, NEW code, FailWith(rep, code), NEW s, Set("suite", s)
      PROVE  CampaignInv'
  <2>1. CutShort(pc, "suite", s)
    BY <1>1 DEF CutShort
  <2>2. WritesHere
    BY <1>1, <1>2, <2>1, CutShortHere
  <2>3. UNCHANGED <<cur, manifest, top, insp>>
        /\ cases' \in Seq({"matched", "mismatched", "failed"})
    BY <1>1, Running DEF Rest
  <2> QED
    BY <1>1, <1>2, <2>2, <2>3, ProjectFails
<1>3. ASSUME NEW s \in {"passed", "failed"}, Set("suite", s),
             r' = [r EXCEPT !.trialCounts = AllTrials, !.stages["suite"] = "passed"],
             Go("assess")
      PROVE  CampaignInv'
  <2> DEFINE e == Claimed(m, QualityOf(cases, m), s, NoFile, NoFile)
  <2>1. /\ disk[cur] = Claimed(m, QualityOf(cases, m), NoSuite, NoFile, NoFile)
        /\ r = Qualified(cases, m) /\ cases \in [DOMAIN m -> Executed]
        /\ Qualification(cases, m) = "qualified"
    BY <1>1, Running DEF AtPlace
  <2>2. With(disk[cur], "suite", s) = e
    BY <2>1, ClaimedUpdated
  <2>3. r' = Ran(cases, m)
    BY <1>3, <2>1 DEF Ran
  <2>4. e.suite = s
    BY ClaimedMembers
  <2>5. pc' = "assess" /\ "assess" \in OfProject
    BY <1>3 DEF Go, OfProject
  <2> HIDE DEF e
  <2>6. e = Claimed(m, QualityOf(cases, m), e.suite, NoFile, NoFile)
    BY <2>4 DEF e
  <2>7. AtPlace("assess", cases', r', e, m)
    BY <1>1, <1>3, <2>1, <2>3, <2>4, <2>6 DEF AtPlace
  <2> QED
    BY <1>1, <1>3, <2>2, <2>5, <2>7, WrittenHere DEF Go
<1> QED
  BY <1>2, <1>3 DEF RunSuite

\* The suite is assessed.
LEMMA AssessSuiteKeeps ==
  ASSUME CampaignInv, AssessSuite
  PROVE  CampaignInv'
<1> DEFINE m == manifest[cur]
           d == disk[cur]
<1>1. pc = "assess" /\ pc \in OfProject /\ UNCHANGED <<cases, disk>> /\ Rest
  BY DEF AssessSuite, OfProject
<1>2. ASSUME NEW code, FailWith(r, code)
      PROVE  CampaignInv'
  BY <1>1, <1>2, FailedStep
<1>3. CASE r' = Assessed(r, Here.suite) /\ Go("publish")
  <2>1. /\ d = Claimed(m, QualityOf(cases, m), d.suite, NoFile, NoFile)
        /\ d.suite \in {"passed", "failed"} /\ r = Ran(cases, m)
        /\ cases \in [DOMAIN m -> Executed] /\ Qualification(cases, m) = "qualified"
    BY <1>1, Running DEF AtPlace
  <2>2. /\ d.quality = QualityOf(cases, m) /\ d.pending = NoFile /\ d.report = NoFile
        /\ d = Claimed(m, d.quality, d.suite, d.pending, d.report)
    BY <2>1, ClaimedMembers
  <2>3. /\ QualityOK(d.quality, m) /\ d.quality.doc.rows = cases
        /\ d.quality.doc.decision = "qualified"
    BY <2>1, <2>2, QualityWritten
  <2>4. r' = Assessed(Ran(cases, m), d.suite) /\ pc' = "publish" /\ "publish" \in OfProject
    BY <1>3, <2>1 DEF Here, Go, OfProject
  <2> HIDE DEF m, d
  <2>5. Ready(d, m)
    BY <2>1, <2>2, <2>3 DEF Ready
  <2>6. Published(r') = Want(d, m)
    BY <2>3, <2>4, WantAssessed
  <2>7. AtPlace("publish", cases', r', d, m)
    BY <2>2, <2>5, <2>6 DEF AtPlace
  <2>8. /\ UNCHANGED <<disk, camp, answer>>
        /\ cases' \in Seq({"matched", "mismatched", "failed"})
    BY <1>1, <1>3, Running DEF Go
  <2> QED
    BY <1>1, <2>4, <2>7, <2>8, OnlyMemory DEF d, m
<1> QED
  BY <1>2, <1>3 DEF AssessSuite

\* The report is staged.
LEMMA WritePendingKeeps ==
  ASSUME CampaignInv, WritePending
  PROVE  CampaignInv'
<1> DEFINE m == manifest[cur]
           d == disk[cur]
<1>1. pc = "publish" /\ pc \in OfProject /\ UNCHANGED cases /\ Rest
  BY DEF WritePending, OfProject
<1>2. CASE WriteFails("pending")
  <2>1. CutShort(pc, "pending", Torn)
    BY <1>1 DEF CutShort
  <2> QED
    BY <1>1, <1>2, <2>1, FailedWrite
<1>3. CASE r' = Published(r) /\ Set("pending", Whole(Published(r))) /\ Go("link")
  <2> DEFINE e == Claimed(m, d.quality, d.suite, Whole(r'), NoFile)
  <2>1. /\ Ready(d, m) /\ Published(r) = Want(d, m) /\ d.pending = NoFile /\ d.report = NoFile
    BY <1>1, Running DEF AtPlace
  <2>2. d = Claimed(m, d.quality, d.suite, NoFile, NoFile)
    BY <2>1 DEF Ready
  <2>3. With(d, "pending", Whole(r')) = e
    BY <2>2, ClaimedUpdated
  <2>4. Ready(e, m) /\ Want(e, m) = Want(d, m) /\ e.pending = Whole(r') /\ e.report = NoFile
    BY <2>1, ReadyStays
  <2>5. pc' = "link" /\ "link" \in OfProject /\ Set("pending", Whole(r'))
    BY <1>3 DEF Go, OfProject
  <2> HIDE DEF e
  <2>6. AtPlace("link", cases', r', e, m)
    BY <1>3, <2>1, <2>4 DEF AtPlace
  <2> QED
    BY <1>1, <1>3, <2>3, <2>5, <2>6, WrittenHere DEF Go
<1> QED
  BY <1>2, <1>3 DEF WritePending

\* The report is linked.
LEMMA LinkReportKeeps ==
  ASSUME CampaignInv, LinkReport
  PROVE  CampaignInv'
<1> DEFINE m == manifest[cur]
           d == disk[cur]
<1>1. pc = "link" /\ pc \in OfProject /\ UNCHANGED cases /\ Rest
  BY DEF LinkReport, OfProject
<1>2. CASE FailWith([r EXCEPT !.lifecycle = "partial"], "PUBLISH_FAILED") /\ UNCHANGED disk
  BY <1>1, <1>2, FailedStep
<1>3. CASE Set("report", Here.pending) /\ Go("unlink") /\ UNCHANGED r
  <2> DEFINE e == Claimed(m, d.quality, d.suite, Whole(r), Whole(r))
  <2>1. Ready(d, m) /\ r = Want(d, m) /\ d.pending = Whole(r) /\ d.report = NoFile
    BY <1>1, Running DEF AtPlace
  <2>2. d = Claimed(m, d.quality, d.suite, Whole(r), NoFile)
    BY <2>1 DEF Ready
  <2>3. With(d, "report", Whole(r)) = e
    BY <2>2, ClaimedUpdated
  <2>4. Ready(e, m) /\ Want(e, m) = Want(d, m) /\ e.pending = Whole(r) /\ e.report = Whole(r)
    BY <2>1, ReadyStays
  <2>5. pc' = "unlink" /\ "unlink" \in OfProject /\ Set("report", Whole(r))
    BY <1>3, <2>1 DEF Go, OfProject, Here
  <2> HIDE DEF e
  <2>6. AtPlace("unlink", cases', r', e, m)
    BY <1>3, <2>1, <2>4 DEF AtPlace
  <2> QED
    BY <1>1, <1>3, <2>3, <2>5, <2>6, WrittenHere DEF Go
<1> QED
  BY <1>2, <1>3 DEF LinkReport

\* The staging is removed.
LEMMA RemovePendingKeeps ==
  ASSUME CampaignInv, RemovePending
  PROVE  CampaignInv'
<1> DEFINE m == manifest[cur]
           d == disk[cur]
<1>1. pc = "unlink" /\ pc \in OfProject /\ UNCHANGED cases /\ Rest
  BY DEF RemovePending, OfProject
<1>2. CASE FailWith([r EXCEPT !.lifecycle = "published_with_residue"], "CLEANUP_FAILED")
           /\ UNCHANGED disk
  BY <1>1, <1>2, FailedStep
<1>3. CASE Set("pending", NoFile) /\ Go("row") /\ UNCHANGED r
  <2> DEFINE e == Claimed(m, d.quality, d.suite, NoFile, Whole(r))
  <2>1. Ready(d, m) /\ r = Want(d, m) /\ d.pending = Whole(r) /\ d.report = Whole(r)
    BY <1>1, Running DEF AtPlace
  <2>2. d = Claimed(m, d.quality, d.suite, Whole(r), Whole(r))
    BY <2>1 DEF Ready
  <2>3. With(d, "pending", NoFile) = e
    BY <2>2, ClaimedUpdated
  <2>4. Ready(e, m) /\ Want(e, m) = Want(d, m) /\ e.pending = NoFile /\ e.report = Whole(r)
    BY <2>1, ReadyStays
  <2>5. pc' = "row"
    BY <1>3 DEF Go
  <2> HIDE DEF e
  <2>6. AtPlace("row", cases', r', e, m)
    BY <1>3, <2>1, <2>4 DEF AtPlace
  <2> QED
    BY <1>1, <1>3, <2>3, <2>5, <2>6, WrittenHere DEF Go
<1> QED
  BY <1>2, <1>3 DEF RemovePending

\* The process dies.
LEMMA CrashKeeps ==
  ASSUME CampaignInv, Crash
  PROVE  CampaignInv'
<1>1. /\ pc' = "done" /\ answer' = "none" /\ cases' = <<>>
      /\ UNCHANGED <<cur, camp, manifest, top, insp>>
  BY DEF Crash
<1>2. /\ cases' \in Seq({"matched", "mismatched", "failed"})
      /\ camp' = [lifecycle |-> camp'.lifecycle, rows |-> camp'.rows, totals |-> camp'.totals]
      /\ IsRows(camp'.rows)
  BY <1>1 DEF CampaignInv, TypeOK
<1>3. CASE UNCHANGED disk
  BY <1>1, <1>2, <1>3, NothingWritten, RunnerStops
<1>4. ASSUME NEW f, NEW v, CutShort(pc, f, v), Set(f, v)
      PROVE  CampaignInv'
  <2>1. pc \in OfProject
    BY <1>4 DEF CutShort, OfProject
  <2>2. WritesHere
    BY <1>4, <2>1, CutShortHere
  <2>3. top.report = NoFile /\ top.pending = NoFile
    BY <2>1, Running
  <2> QED
    BY <1>1, <1>2, <2>2, <2>3, RunnerStops
<1>5. \/ UNCHANGED disk
      \/ CutShort(pc, "claim", Torn) /\ Set("claim", Torn)
      \/ CutShort(pc, "quality", Torn) /\ Set("quality", Torn)
      \/ CutShort(pc, "suite", "cut") /\ Set("suite", "cut")
      \/ CutShort(pc, "pending", Torn) /\ Set("pending", Torn)
  BY DEF Crash, CutShort
<1> QED
  BY <1>3, <1>4, <1>5

-----------------------------------------------------------------------------
(***************************************************************************)
(* The steps of a campaign.                                                *)
(***************************************************************************)
\* A campaign directory has the members it is made of, and a write changes the
\* one it names.
LEMMA TopMembers ==
  ASSUME NEW made, NEW claim, NEW projects, NEW pending, NEW report
  PROVE  LET d == Top(made, claim, projects, pending, report)
         IN  /\ d.made = made /\ d.claim = claim /\ d.projects = projects
             /\ d.pending = pending /\ d.report = report
             /\ d = Top(d.made, d.claim, d.projects, d.pending, d.report)
BY DEF Top

\* A write to a campaign directory changes the member it names.
LEMMA TopUpdated ==
  ASSUME NEW made, NEW claim, NEW projects, NEW pending, NEW report, NEW v
  PROVE  LET d == Top(made, claim, projects, pending, report)
         IN  /\ With(d, "made", v) = Top(v, claim, projects, pending, report)
             /\ With(d, "claim", v) = Top(made, v, projects, pending, report)
             /\ With(d, "projects", v) = Top(made, claim, v, pending, report)
             /\ With(d, "pending", v) = Top(made, claim, projects, v, report)
             /\ With(d, "report", v) = Top(made, claim, projects, pending, v)
<1> DEFINE d == Top(made, claim, projects, pending, report)
<1>1. [d EXCEPT !["made"] = v] = Top(v, claim, projects, pending, report)
  BY DEF Top
<1>2. [d EXCEPT !["claim"] = v] = Top(made, v, projects, pending, report)
  BY DEF Top
<1>3. [d EXCEPT !["projects"] = v] = Top(made, claim, v, pending, report)
  BY DEF Top
<1>4. [d EXCEPT !["pending"] = v] = Top(made, claim, projects, v, report)
  BY DEF Top
<1>5. [d EXCEPT !["report"] = v] = Top(made, claim, projects, pending, v)
  BY DEF Top
<1> QED
  BY <1>1, <1>2, <1>3, <1>4, <1>5 DEF With

\* Steps that write to no project.
LEMMA ProjectsUntouched ==
  ASSUME CampaignInv, UNCHANGED <<manifest, disk, insp>>
  PROVE  /\ InspectorOK'
         /\ \A i \in Index : Sound(disk'[i], manifest'[i])
         /\ AllFinished' = AllFinished /\ Final' = Final /\ Opened' = Opened
<1>1. InspectorOK'
  BY OthersKeepInspector DEF SettledStays
<1>2. \A i \in Index : Sound(disk'[i], manifest'[i])
  BY DEF CampaignInv, ProjectsOK
<1>3. AllFinished' = AllFinished /\ Final' = Final /\ Opened' = Opened
  BY DEF AllFinished, Final, RowsOfReports, Opened
<1> QED
  BY <1>1, <1>2, <1>3

\* A campaign that fails, whatever it leaves unpublished.
LEMMA CampaignFailsKeeps ==
  ASSUME CampaignInv, CampaignFails, CampaignRest,
         top' = Top(top'.made, top'.claim, top'.projects, top'.pending, top'.report),
         top'.claim \in {NoFile, Torn, Whole(manifest)},
         top'.pending \in {NoFile, Torn} \/ (AllFinished /\ top'.pending = Whole(Final)),
         top'.report = NoFile
  PROVE  CampaignInv'
<1>1. /\ pc' = "done" /\ answer' = "error" /\ UNCHANGED <<cases, cur, manifest, disk, insp>>
      /\ camp' = [camp EXCEPT !.totals = Totals(camp.rows), !.lifecycle = "partial"]
  BY DEF CampaignFails, CampaignRest
<1>2. TypeOK'
  <2>1. /\ camp = [lifecycle |-> camp.lifecycle, rows |-> camp.rows, totals |-> camp.totals]
        /\ IsRows(camp.rows)
    BY DEF CampaignInv, TypeOK
  <2>2. camp' = [lifecycle |-> "partial", rows |-> camp.rows, totals |-> Totals(camp.rows)]
    BY <1>1, <2>1
  <2>3. /\ camp' = [lifecycle |-> camp'.lifecycle, rows |-> camp'.rows, totals |-> camp'.totals]
        /\ IsRows(camp'.rows)
    BY <2>1, <2>2
  <2> QED
    BY <1>1, <2>3 DEF CampaignInv, TypeOK
<1>3. InspectorOK' /\ AllFinished' = AllFinished /\ Final' = Final
      /\ \A i \in Index : Sound(disk'[i], manifest'[i])
  BY <1>1, ProjectsUntouched
<1>4. ProjectsOK'
  <2>1. AtPlace(pc', cases', r', disk'[cur'], manifest'[cur'])
    BY <1>1 DEF AtPlace
  <2> QED
    BY <1>1, <1>3, <2>1 DEF ProjectsOK, OfCampaign
<1>5. TopOK'
  <2>1. pc' \notin {"start", "row", "next", "total", "publishCampaign", "finish"} \cup OfProject
    BY <1>1 DEF OfProject
  <2> QED
    BY <1>1, <1>3, <2>1 DEF TopOK
<1>6. AnswerOK'
  BY <1>1 DEF AnswerOK
<1> QED
  BY <1>2, <1>3, <1>4, <1>5, <1>6 DEF CampaignInv

\* What a campaign that claims its directory may leave of it.
LEMMA ClaimedTops ==
  ASSUME NEW x
  PROVE  /\ NoTop = Top(FALSE, NoFile, FALSE, NoFile, NoFile)
         /\ [NoTop EXCEPT !.made = TRUE] = Top(TRUE, NoFile, FALSE, NoFile, NoFile)
         /\ [NoTop EXCEPT !.made = TRUE, !.claim = x] = Top(TRUE, x, FALSE, NoFile, NoFile)
         /\ [NoTop EXCEPT !.made = TRUE, !.claim = x, !.projects = TRUE]
              = Top(TRUE, x, TRUE, NoFile, NoFile)
<1>1. NoTop = Top(FALSE, NoFile, FALSE, NoFile, NoFile)
  BY DEF NoTop, Top
<1>2. ASSUME NEW a, NEW b, NEW e
      PROVE  With(Top(a, NoFile, b, NoFile, NoFile), "made", e) = Top(e, NoFile, b, NoFile, NoFile)
  BY TopUpdated
<1>3. With(NoTop, "made", TRUE) = Top(TRUE, NoFile, FALSE, NoFile, NoFile)
  BY <1>1, <1>2, Zenon
<1>4. ASSUME NEW a, NEW b
      PROVE  With(Top(a, NoFile, b, NoFile, NoFile), "claim", x) = Top(a, x, b, NoFile, NoFile)
  BY TopUpdated
<1>5. With(With(NoTop, "made", TRUE), "claim", x) = Top(TRUE, x, FALSE, NoFile, NoFile)
  BY <1>3, <1>4, Zenon
<1>6. ASSUME NEW a, NEW b, NEW e
      PROVE  With(Top(a, x, b, NoFile, NoFile), "projects", e) = Top(a, x, e, NoFile, NoFile)
  BY TopUpdated
<1>7. With(With(With(NoTop, "made", TRUE), "claim", x), "projects", TRUE)
        = Top(TRUE, x, TRUE, NoFile, NoFile)
  BY <1>5, <1>6, Zenon
<1>8. /\ [NoTop EXCEPT !.made = TRUE] = With(NoTop, "made", TRUE)
      /\ [NoTop EXCEPT !.made = TRUE, !.claim = x] = With(With(NoTop, "made", TRUE), "claim", x)
      /\ [NoTop EXCEPT !.made = TRUE, !.claim = x, !.projects = TRUE]
           = With(With(With(NoTop, "made", TRUE), "claim", x), "projects", TRUE)
  BY DEF With
<1> QED
  BY <1>1, <1>3, <1>5, <1>7, <1>8, Zenon


\* What a campaign directory opened for projects holds.
LEMMA OpenedMembers ==
  /\ Opened.made /\ Opened.projects /\ Opened.claim = Whole(manifest)
  /\ Opened.pending = NoFile /\ Opened.report = NoFile
  /\ Opened = Top(Opened.made, Opened.claim, Opened.projects, Opened.pending, Opened.report)
<1>1. ASSUME NEW a, NEW b
      PROVE  LET d == Top(a, Whole(manifest), b, NoFile, NoFile)
             IN  /\ d.made = a /\ d.projects = b /\ d.claim = Whole(manifest)
                 /\ d.pending = NoFile /\ d.report = NoFile
                 /\ d = Top(d.made, d.claim, d.projects, d.pending, d.report)
  BY DEF Top
<1> DEFINE o == Top(TRUE, Whole(manifest), TRUE, NoFile, NoFile)
<1>2. /\ o.made = TRUE /\ o.projects = TRUE /\ o.claim = Whole(manifest)
      /\ o.pending = NoFile /\ o.report = NoFile
      /\ o = Top(o.made, o.claim, o.projects, o.pending, o.report)
  BY <1>1, Zenon
<1> QED
  BY <1>2, Zenon DEF Opened

\* A campaign that may start a project.
LEMMA CampaignGoesOn ==
  ASSUME CampaignInv, pc \in {"start", "next"}, pc' = "open",
         UNCHANGED <<cur, r, camp, answer>>, CampaignRest, top' = Opened
  PROVE  CampaignInv'
<1>1. UNCHANGED <<cases, manifest, disk, insp>>
  BY DEF CampaignRest
<1>2. TypeOK'
  BY <1>1 DEF CampaignInv, TypeOK, OfProject
<1>3. InspectorOK' /\ (\A i \in Index : Sound(disk'[i], manifest'[i]))
      /\ AllFinished' = AllFinished /\ Final' = Final /\ Opened' = Opened
  BY <1>1, ProjectsUntouched
<1>4. ProjectsOK'
  <2>1. AtPlace(pc, cases, r, disk[cur], manifest[cur])
    BY DEF CampaignInv, ProjectsOK
  <2>2. disk[cur] = NoDisk /\ r = NewReport(manifest[cur]) /\ cases = <<>>
    BY <2>1 DEF AtPlace
  <2>3. AtPlace(pc', cases', r', disk'[cur'], manifest'[cur'])
    BY <1>1, <2>2 DEF AtPlace
  <2>4. pc # "done" /\ pc \notin OfCampaign /\ pc' # "done" /\ pc' \notin OfCampaign
    BY DEF OfCampaign
  <2>5. ASSUME NEW i \in Index
        PROVE  /\ i > cur => disk[i] = NoDisk
               /\ i < cur => Finished(disk[i], manifest[i])
                             /\ camp.rows[i] = RowOf(disk[i].report.doc)
    BY <2>4 DEF CampaignInv, ProjectsOK
  <2> QED
    BY <1>1, <1>3, <2>3, <2>4, <2>5 DEF ProjectsOK
<1>5. TopOK'
  <2>1. /\ top' = Top(top'.made, top'.claim, top'.projects, top'.pending, top'.report)
        /\ top'.claim = Whole(manifest) /\ top'.pending = NoFile /\ top'.report = NoFile
    BY OpenedMembers
  <2> QED
    BY <1>1, <1>3, <2>1 DEF TopOK
<1>6. AnswerOK'
  BY DEF AnswerOK, CampaignInv
<1> QED
  BY <1>2, <1>3, <1>4, <1>5, <1>6 DEF CampaignInv

\* Mkdir, the claim and the projects directory.
LEMMA ClaimCampaignKeeps ==
  ASSUME CampaignInv, ClaimCampaign
  PROVE  CampaignInv'
<1>1. pc = "start" /\ top = NoTop /\ CampaignRest
  BY DEF CampaignInv, TopOK, ClaimCampaign
<1>2. ASSUME NEW a, NEW c \in {NoFile, Torn, Whole(manifest)}, NEW p,
             top' = Top(a, c, p, NoFile, NoFile), CampaignFails
      PROVE  CampaignInv'
  <2>1. /\ top' = Top(top'.made, top'.claim, top'.projects, top'.pending, top'.report)
        /\ top'.claim = c /\ top'.pending = NoFile /\ top'.report = NoFile
    BY <1>2, TopMembers
  <2> QED
    BY <1>1, <1>2, <2>1, CampaignFailsKeeps
<1>3. CASE /\ CampaignFails
           /\ top' \in {top, [NoTop EXCEPT !.made = TRUE],
                        [NoTop EXCEPT !.made = TRUE, !.claim = Torn],
                        [NoTop EXCEPT !.made = TRUE, !.claim = Whole(manifest)]}
  <2>1. \/ top' = Top(FALSE, NoFile, FALSE, NoFile, NoFile)
        \/ top' = Top(TRUE, NoFile, FALSE, NoFile, NoFile)
        \/ top' = Top(TRUE, Torn, FALSE, NoFile, NoFile)
        \/ top' = Top(TRUE, Whole(manifest), FALSE, NoFile, NoFile)
    BY <1>1, <1>3, ClaimedTops, Zenon
  <2>2. CASE top' = Top(FALSE, NoFile, FALSE, NoFile, NoFile)
    BY <1>2, <1>3, <2>2, Zenon
  <2>3. CASE top' = Top(TRUE, NoFile, FALSE, NoFile, NoFile)
    BY <1>2, <1>3, <2>3, Zenon
  <2>4. CASE top' = Top(TRUE, Torn, FALSE, NoFile, NoFile)
    BY <1>2, <1>3, <2>4, Zenon
  <2>5. CASE top' = Top(TRUE, Whole(manifest), FALSE, NoFile, NoFile)
    BY <1>2, <1>3, <2>5, Zenon
  <2> QED
    BY <2>1, <2>2, <2>3, <2>4, <2>5
<1>4. CASE /\ top' = [NoTop EXCEPT !.made = TRUE, !.claim = Whole(manifest), !.projects = TRUE]
           /\ pc' = "open" /\ UNCHANGED <<late, cur, r, camp, answer>>
  <2>1. top' = Opened
    BY <1>4, ClaimedTops, Zenon DEF Opened
  <2> QED
    BY <1>1, <1>4, <2>1, CampaignGoesOn
<1> QED
  BY <1>3, <1>4 DEF ClaimCampaign

\* A campaign that fails with its directory as it is.
LEMMA CampaignFailsAsIs ==
  ASSUME CampaignInv, CampaignFails, CampaignRest, UNCHANGED top, top.report = NoFile
  PROVE  CampaignInv'
<1>1. /\ top = Top(top.made, top.claim, top.projects, top.pending, top.report)
      /\ top.claim \in {NoFile, Torn, Whole(manifest)}
      /\ top.pending \in {NoFile, Torn} \/ (AllFinished /\ top.pending = Whole(Final))
  BY DEF CampaignInv, TopOK
<1>2. /\ top' = Top(top'.made, top'.claim, top'.projects, top'.pending, top'.report)
      /\ top'.claim \in {NoFile, Torn, Whole(manifest)}
      /\ top'.pending \in {NoFile, Torn} \/ (AllFinished /\ top'.pending = Whole(Final))
      /\ top'.report = NoFile
  BY <1>1
<1> QED
  BY <1>2, CampaignFailsKeeps

\* The next project begins, or the campaign was ended before it.
LEMMA StartProjectKeeps ==
  ASSUME CampaignInv, StartProject
  PROVE  CampaignInv'
<1>1. pc = "next" /\ top = Opened /\ UNCHANGED top /\ CampaignRest
  BY DEF CampaignInv, TopOK, StartProject
<1>2. CASE CampaignFails
  BY <1>1, <1>2, OpenedMembers, CampaignFailsAsIs
<1>3. CASE pc' = "open" /\ UNCHANGED <<late, cur, r, camp, answer>>
  BY <1>1, <1>3, CampaignGoesOn
<1> QED
  BY <1>2, <1>3 DEF StartProject


\* A campaign report with row for project k.
WithRow(c, k, row) == [c EXCEPT !.rows[k] = row]

\* Only the row of that project changes.
LEMMA RowKept ==
  ASSUME NEW c, NEW rows, NEW totals, NEW lifecycle, NEW row, NEW k, IsRows(rows),
         c = [lifecycle |-> lifecycle, rows |-> rows, totals |-> totals]
  PROVE  LET e == WithRow(c, k, row)
         IN  /\ e = [lifecycle |-> e.lifecycle, rows |-> e.rows, totals |-> e.totals]
             /\ IsRows(e.rows)
             /\ \A i \in Index : e.rows[i] = IF i = k THEN row ELSE rows[i]
<1> DEFINE new == [rows EXCEPT ![k] = row]
<1>1. [c EXCEPT !.rows[k] = row] = [lifecycle |-> lifecycle, rows |-> new, totals |-> totals]
  OBVIOUS
<1>2. IsRows(new) /\ \A i \in Index : new[i] = IF i = k THEN row ELSE rows[i]
  BY DEF IsRows
<1> HIDE DEF new
<1> DEFINE e == [lifecycle |-> lifecycle, rows |-> new, totals |-> totals]
<1>3. e.rows = new /\ e = [lifecycle |-> e.lifecycle, rows |-> e.rows, totals |-> e.totals]
  OBVIOUS
<1> HIDE DEF e
<1>4. /\ e = [lifecycle |-> e.lifecycle, rows |-> e.rows, totals |-> e.totals]
      /\ IsRows(e.rows)
      /\ \A i \in Index : e.rows[i] = IF i = k THEN row ELSE rows[i]
  BY <1>2, <1>3
<1> QED
  BY <1>1, <1>4 DEF e, WithRow

\* A project that returned without an error is finished and its report is in memory.
LEMMA ReturnedIsFinished ==
  ASSUME CampaignInv, pc = "row"
  PROVE  Finished(disk[cur], manifest[cur]) /\ disk[cur].report.doc = r
<1>1. /\ Ready(disk[cur], manifest[cur]) /\ r = Want(disk[cur], manifest[cur])
      /\ disk[cur].pending = NoFile /\ disk[cur].report = Whole(r)
  BY DEF CampaignInv, ProjectsOK, AtPlace
<1> QED
  BY <1>1, FileStates DEF Finished, Wanted

\* A project returned and its row is kept.
LEMMA NextProjectKeeps ==
  ASSUME CampaignInv, NextProject
  PROVE  CampaignInv'
<1>1. /\ pc = "row" /\ UNCHANGED <<answer, manifest, top, disk, insp>>
      /\ camp' = [camp EXCEPT !.rows[cur] = RowOf(r)]
      /\ \/ /\ cur < Projects /\ cur' = cur + 1 /\ pc' = "next"
            /\ r' = NewReport(manifest[cur + 1]) /\ cases' = <<>>
         \/ ~(cur < Projects) /\ pc' = "total" /\ UNCHANGED <<cur, r, cases>>
  BY DEF NextProject, RowOf
<1>2. cur \in Index /\ cur \in Int /\ Index \subseteq Int /\ Projects \in Int
      /\ \A i : i \in Index <=> i \in Int /\ 1 <= i /\ i <= Projects
  BY CampaignAssumption DEF CampaignInv, TypeOK, Index
<1>3. /\ camp' = [lifecycle |-> camp'.lifecycle, rows |-> camp'.rows, totals |-> camp'.totals]
      /\ IsRows(camp'.rows)
      /\ \A i \in Index : camp'.rows[i] = IF i = cur THEN RowOf(r) ELSE camp.rows[i]
  <2>1. /\ camp = [lifecycle |-> camp.lifecycle, rows |-> camp.rows, totals |-> camp.totals]
        /\ IsRows(camp.rows)
    BY DEF CampaignInv, TypeOK
  <2> DEFINE e == WithRow(camp, cur, RowOf(r))
  <2>2. /\ e = [lifecycle |-> e.lifecycle, rows |-> e.rows, totals |-> e.totals]
        /\ IsRows(e.rows)
        /\ \A i \in Index : e.rows[i] = IF i = cur THEN RowOf(r) ELSE camp.rows[i]
    BY <2>1, RowKept
  <2>3. camp' = e
    BY <1>1 DEF WithRow
  <2> HIDE DEF e
  <2> QED
    BY <2>2, <2>3
<1>4. cur' \in Index /\ TypeOK'
  <2>1. cur' \in Index
    BY <1>1, <1>2
  <2>2. cases' \in Seq({"matched", "mismatched", "failed"})
    <3>1. cases \in Seq({"matched", "mismatched", "failed"})
      BY DEF CampaignInv, TypeOK
    <3>2. CASE cases' = <<>>
      BY <3>2
    <3>3. CASE cases' = cases
      BY <3>1, <3>3
    <3> QED
      BY <1>1, <3>2, <3>3
  <2>3. pc' \in {"next", "total"}
    BY <1>1
  <2> QED
    BY <1>1, <1>3, <2>1, <2>2, <2>3 DEF CampaignInv, TypeOK, OfCampaign
<1>5. InspectorOK' /\ (\A i \in Index : Sound(disk'[i], manifest'[i]))
      /\ AllFinished' = AllFinished /\ Final' = Final /\ Opened' = Opened
  BY <1>1, ProjectsUntouched
<1>6. ProjectsOK'
  <2>1. \A i \in Index : i > cur => disk[i] = NoDisk
    BY <1>1 DEF CampaignInv, ProjectsOK
  <2>2. \A i \in Index : i <= cur =>
          Finished(disk[i], manifest[i]) /\ camp'.rows[i] = RowOf(disk[i].report.doc)
    <3>1. TAKE i \in Index
    <3>2. CASE i = cur
      BY <1>1, <1>3, <3>2, ReturnedIsFinished
    <3>3. CASE i < cur
      <4>1. Finished(disk[i], manifest[i]) /\ camp.rows[i] = RowOf(disk[i].report.doc)
        BY <1>1, <3>3 DEF CampaignInv, ProjectsOK
      <4> QED
        BY <1>2, <1>3, <3>3, <4>1
    <3> QED
      BY <1>2, <3>2, <3>3
  <2>3. AtPlace(pc', cases', r', disk'[cur'], manifest'[cur'])
    <3>1. CASE pc' = "total"
      BY <3>1 DEF AtPlace
    <3>2. CASE pc' = "next"
      <4>1. cur' = cur + 1 /\ r' = NewReport(manifest[cur']) /\ cases' = <<>>
        BY <1>1, <3>2
      <4>2. disk'[cur'] = NoDisk
        BY <1>1, <1>2, <1>4, <2>1, <4>1
      <4> QED
        BY <1>1, <3>2, <4>1, <4>2 DEF AtPlace
    <3> QED
      BY <1>1, <3>1, <3>2
  <2>4. \A i \in Index : i > cur' => disk'[i] = NoDisk
    BY <1>1, <1>2, <2>1
  <2>5. \A i \in Index : (i < cur' \/ pc' \in OfCampaign) =>
          Finished(disk'[i], manifest'[i]) /\ camp'.rows[i] = RowOf(disk'[i].report.doc)
    <3>1. \A i \in Index : (i < cur' \/ pc' \in OfCampaign) => i <= cur
      BY <1>1, <1>2 DEF OfCampaign
    <3> QED
      BY <1>1, <2>2, <3>1
  <2> QED
    BY <1>1, <1>5, <2>3, <2>4, <2>5 DEF ProjectsOK
<1>7. TopOK'
  <2>1. top' = Opened' /\ TopOK /\ UNCHANGED <<top, manifest>>
    BY <1>1, <1>5 DEF CampaignInv, TopOK
  <2>2. top.pending = NoFile /\ top.report = NoFile
    BY <1>5, <2>1, OpenedMembers
  <2>3. pc' \in {"next", "total"}
    BY <1>1
  <2> QED
    BY <2>1, <2>2, <2>3 DEF TopOK
<1>8. AnswerOK'
  BY <1>1 DEF CampaignInv, AnswerOK
<1> QED
  BY <1>4, <1>5, <1>6, <1>7, <1>8 DEF CampaignInv


\* At the end of its projects a campaign has the rows that their reports call for.
LEMMA RowsAreComplete ==
  ASSUME CampaignInv, pc \in OfCampaign
  PROVE  AllFinished /\ camp.rows = RowsOfReports
<1>1. \A i \in Index :
        Finished(disk[i], manifest[i]) /\ camp.rows[i] = RowOf(disk[i].report.doc)
  BY DEF CampaignInv, ProjectsOK, OfCampaign
<1>2. camp.rows = [i \in Index |-> camp.rows[i]]
  BY DEF CampaignInv, TypeOK, IsRows
<1>3. camp.rows = RowsOfReports
  BY <1>1, <1>2 DEF RowsOfReports
<1> QED
  BY <1>1, <1>3 DEF AllFinished

\* A campaign that goes on after its last project.
LEMMA CampaignEndGoesOn ==
  ASSUME CampaignInv, pc \in OfCampaign, pc' \in OfCampaign, UNCHANGED <<cur, answer>>,
         CampaignRest, camp'.rows = camp.rows, TopOK',
         camp' = [lifecycle |-> camp'.lifecycle, rows |-> camp'.rows, totals |-> camp'.totals]
  PROVE  CampaignInv'
<1>1. UNCHANGED <<cases, manifest, disk, insp>>
  BY DEF CampaignRest
<1>2. TypeOK'
  BY <1>1 DEF CampaignInv, TypeOK
<1>3. InspectorOK' /\ (\A i \in Index : Sound(disk'[i], manifest'[i]))
  BY <1>1, ProjectsUntouched
<1>4. ProjectsOK'
  <2>1. AtPlace(pc', cases', r', disk'[cur'], manifest'[cur'])
    BY DEF OfCampaign, AtPlace
  <2>2. pc # "done" /\ pc' # "done" /\ pc' # "start"
    BY DEF OfCampaign
  <2>3. ASSUME NEW i \in Index
        PROVE  /\ i > cur => disk[i] = NoDisk
               /\ Finished(disk[i], manifest[i]) /\ camp.rows[i] = RowOf(disk[i].report.doc)
    BY <2>2 DEF CampaignInv, ProjectsOK
  <2> QED
    BY <1>1, <1>3, <2>1, <2>2, <2>3 DEF ProjectsOK
<1>5. AnswerOK'
  <2>1. pc # "done" /\ pc' # "done"
    BY DEF OfCampaign
  <2> QED
    BY <2>1 DEF CampaignInv, AnswerOK
<1> QED
  BY <1>2, <1>3, <1>4, <1>5 DEF CampaignInv

\* A write to a member of the campaign directory.
LEMMA TopWritten ==
  ASSUME CampaignInv, NEW v
  PROVE  LET p == With(top, "pending", v)
             q == With(top, "report", v)
         IN  /\ p = Top(p.made, p.claim, p.projects, p.pending, p.report)
             /\ p.made = top.made /\ p.claim = top.claim /\ p.projects = top.projects
             /\ p.pending = v /\ p.report = top.report
             /\ q = Top(q.made, q.claim, q.projects, q.pending, q.report)
             /\ q.made = top.made /\ q.claim = top.claim /\ q.projects = top.projects
             /\ q.pending = top.pending /\ q.report = v
<1>1. top = Top(top.made, top.claim, top.projects, top.pending, top.report)
  BY DEF CampaignInv, TopOK
<1>2. /\ With(top, "pending", v) = Top(top.made, top.claim, top.projects, v, top.report)
      /\ With(top, "report", v) = Top(top.made, top.claim, top.projects, top.pending, v)
  BY <1>1, TopUpdated
<1> QED
  BY <1>2, TopMembers

\* The campaign report is staged.
LEMMA StageCampaignKeeps ==
  ASSUME CampaignInv, StageCampaign
  PROVE  CampaignInv'
<1>1. pc = "total" /\ CampaignRest /\ UNCHANGED <<manifest, disk>>
  BY DEF StageCampaign, CampaignRest
<1>2. /\ top = Opened /\ top.report = NoFile /\ top.made /\ top.projects
      /\ top.claim = Whole(manifest)
  <2>1. top = Opened
    BY <1>1 DEF CampaignInv, TopOK
  <2> QED
    BY <2>1, OpenedMembers
<1>3. CASE CampaignFails /\ UNCHANGED top
  BY <1>1, <1>2, <1>3, CampaignFailsAsIs
<1>4. CASE CampaignFails /\ top' = [top EXCEPT !.pending = Torn]
  <2>1. top' = With(top, "pending", Torn)
    BY <1>4 DEF With
  <2>2. /\ top' = Top(top'.made, top'.claim, top'.projects, top'.pending, top'.report)
        /\ top'.claim = Whole(manifest) /\ top'.pending = Torn /\ top'.report = NoFile
    BY <1>2, <2>1, TopWritten
  <2> QED
    BY <1>1, <1>4, <2>2, CampaignFailsKeeps
<1>5. CASE /\ camp' = [camp EXCEPT !.totals = Totals(camp.rows), !.lifecycle = "published"]
           /\ top' = [top EXCEPT !.pending = Whole(camp')]
           /\ pc' = "publishCampaign" /\ UNCHANGED <<late, cur, r, answer>>
  <2>1. AllFinished /\ camp.rows = RowsOfReports
    BY <1>1, RowsAreComplete DEF OfCampaign
  <2>2. camp = [lifecycle |-> camp.lifecycle, rows |-> camp.rows, totals |-> camp.totals]
    BY DEF CampaignInv, TypeOK
  <2>3. camp' = [lifecycle |-> "published", rows |-> camp.rows, totals |-> Totals(camp.rows)]
    BY <1>5, <2>2
  <2>4. camp' = Final /\ camp'.rows = camp.rows
        /\ camp' = [lifecycle |-> camp'.lifecycle, rows |-> camp'.rows, totals |-> camp'.totals]
    BY <2>1, <2>3 DEF Final
  <2>5. top' = With(top, "pending", Whole(Final))
    BY <1>5, <2>4 DEF With
  <2>6. /\ top' = Top(top'.made, top'.claim, top'.projects, top'.pending, top'.report)
        /\ top'.made /\ top'.projects /\ top'.claim = Whole(manifest)
        /\ top'.pending = Whole(Final) /\ top'.report = NoFile
    BY <1>2, <2>5, TopWritten
  <2>7. AllFinished' /\ Final' = Final /\ Opened' = Opened
    BY <1>1, <2>1 DEF AllFinished, Final, RowsOfReports, Opened
  <2>8. pc' = "publishCampaign" /\ UNCHANGED manifest
    BY <1>1, <1>5
  <2>9. TopOK'
    BY <2>4, <2>6, <2>7, <2>8 DEF TopOK, OfProject
  <2> QED
    BY <1>1, <1>5, <2>4, <2>9, CampaignEndGoesOn DEF OfCampaign
<1> QED
  BY <1>3, <1>4, <1>5 DEF StageCampaign

\* The campaign report is linked.
LEMMA LinkCampaignKeeps ==
  ASSUME CampaignInv, LinkCampaign
  PROVE  CampaignInv'
<1>1. pc = "publishCampaign" /\ CampaignRest /\ UNCHANGED <<manifest, disk>>
  BY DEF LinkCampaign, CampaignRest
<1>2. /\ camp = Final /\ top.pending = Whole(camp) /\ top.made /\ top.projects
      /\ top.claim = Whole(manifest) /\ top.report = NoFile
  BY <1>1 DEF CampaignInv, TopOK
<1>3. CASE CampaignFails /\ UNCHANGED top
  BY <1>1, <1>2, <1>3, CampaignFailsAsIs
<1>4. CASE /\ top' = [top EXCEPT !.report = top.pending]
           /\ pc' = "finish" /\ UNCHANGED <<late, cur, r, camp, answer>>
  <2>1. top' = With(top, "report", Whole(Final))
    BY <1>2, <1>4 DEF With
  <2>2. /\ top' = Top(top'.made, top'.claim, top'.projects, top'.pending, top'.report)
        /\ top'.made /\ top'.projects /\ top'.claim = Whole(manifest)
        /\ top'.pending = Whole(Final) /\ top'.report = Whole(Final)
    BY <1>2, <2>1, TopWritten
  <2>3. AllFinished
    BY <1>1, RowsAreComplete DEF OfCampaign
  <2>4. AllFinished' /\ Final' = Final /\ Opened' = Opened
    BY <1>1, <2>3 DEF AllFinished, Final, RowsOfReports, Opened
  <2>5. pc' = "finish" /\ UNCHANGED <<manifest, camp>>
    BY <1>1, <1>4
  <2>6. TopOK'
    BY <1>2, <2>2, <2>4, <2>5 DEF TopOK, OfProject
  <2>7. camp' = [lifecycle |-> camp'.lifecycle, rows |-> camp'.rows, totals |-> camp'.totals]
    BY <2>5 DEF CampaignInv, TypeOK
  <2> QED
    BY <1>1, <1>4, <2>5, <2>6, <2>7, CampaignEndGoesOn DEF OfCampaign
<1> QED
  BY <1>3, <1>4 DEF LinkCampaign

\* The staging is removed, or stays behind.
LEMMA FinishCampaignKeeps ==
  ASSUME CampaignInv, FinishCampaign
  PROVE  CampaignInv'
<1>1. /\ pc = "finish" /\ pc' = "done" /\ UNCHANGED <<cur, cases, manifest, disk, insp>>
  BY DEF FinishCampaign, CampaignRest
<1>2. /\ camp = Final /\ top.pending = Whole(camp) /\ top.made /\ top.projects
      /\ top.claim = Whole(manifest) /\ top.report = Whole(Final)
  BY <1>1 DEF CampaignInv, TopOK
<1>3. AllFinished
  BY <1>1, RowsAreComplete DEF OfCampaign
<1>4. InspectorOK' /\ (\A i \in Index : Sound(disk'[i], manifest'[i]))
      /\ AllFinished' /\ Final' = Final
  BY <1>1, <1>3, ProjectsUntouched
<1>5. ProjectsOK'
  <2>1. AtPlace(pc', cases', r', disk'[cur'], manifest'[cur'])
    BY <1>1 DEF AtPlace
  <2> QED
    BY <1>1, <1>4, <2>1 DEF ProjectsOK, OfCampaign
<1>6. /\ camp = [lifecycle |-> camp.lifecycle, rows |-> camp.rows, totals |-> camp.totals]
      /\ IsRows(camp.rows)
  BY DEF CampaignInv, TypeOK
<1>7. CASE /\ top' = [top EXCEPT !.pending = NoFile] /\ answer' = "ok" /\ UNCHANGED camp
  <2>1. top' = With(top, "pending", NoFile)
    BY <1>7 DEF With
  <2>2. /\ top' = Top(top'.made, top'.claim, top'.projects, top'.pending, top'.report)
        /\ top'.made /\ top'.projects /\ top'.claim = Whole(manifest)
        /\ top'.pending = NoFile /\ top'.report = Whole(Final)
    BY <1>2, <2>1, TopWritten
  <2>3. TopOK' /\ AnswerOK'
    BY <1>1, <1>2, <1>4, <1>7, <2>2 DEF TopOK, AnswerOK, OfProject
  <2>4. TypeOK'
    BY <1>1, <1>7 DEF CampaignInv, TypeOK
  <2> QED
    BY <1>4, <1>5, <2>3, <2>4 DEF CampaignInv
<1>8. CASE /\ answer' = "error" /\ UNCHANGED top
           /\ camp' = [camp EXCEPT !.lifecycle = "published_with_residue"]
  <2>1. camp' = [lifecycle |-> "published_with_residue", rows |-> camp.rows,
                 totals |-> camp.totals]
    BY <1>6, <1>8
  <2>2. /\ camp' = [lifecycle |-> camp'.lifecycle, rows |-> camp'.rows, totals |-> camp'.totals]
        /\ camp'.rows = camp.rows
    BY <2>1
  <2>3. TypeOK'
    BY <1>1, <1>6, <1>8, <2>2 DEF CampaignInv, TypeOK
  <2>4. top = Top(top.made, top.claim, top.projects, top.pending, top.report)
    BY DEF CampaignInv, TopOK
  <2>5. TopOK'
    BY <1>1, <1>2, <1>4, <1>8, <2>4 DEF TopOK, OfProject
  <2>6. AnswerOK'
    BY <1>1, <1>2, <1>8, FileStates DEF AnswerOK
  <2> QED
    BY <1>4, <1>5, <2>3, <2>5, <2>6 DEF CampaignInv
<1> QED
  BY <1>7, <1>8 DEF FinishCampaign

-----------------------------------------------------------------------------
(***************************************************************************)
(* The environment and the inspector.                                      *)
(***************************************************************************)
\* Steps of neither the runner nor the files.
LEMMA OthersStep ==
  ASSUME CampaignInv, UNCHANGED <<pc, cur, cases, r, camp, answer, manifest, top, disk>>,
         InspectorOK'
  PROVE  CampaignInv'
<1>1. TypeOK'
  BY DEF CampaignInv, TypeOK
<1>2. ProjectsOK'
  BY DEF CampaignInv, ProjectsOK
<1>3. TopOK'
  BY DEF CampaignInv, TopOK, AllFinished, Final, RowsOfReports, Opened
<1>4. AnswerOK'
  BY DEF CampaignInv, AnswerOK
<1> QED
  BY <1>1, <1>2, <1>3, <1>4 DEF CampaignInv

\* A context ends, or nothing happens.
LEMMA ContextEndsKeeps ==
  ASSUME CampaignInv, ContextEnds \/ UNCHANGED vars
  PROVE  CampaignInv'
<1>1. UNCHANGED <<pc, cur, cases, r, camp, answer, manifest, top, disk, insp>>
  BY DEF ContextEnds, vars
<1> QED
  BY <1>1, ProjectsUntouched, OthersStep

\* The inspector lists a directory.
LEMMA ListProjectKeeps ==
  ASSUME CampaignInv, ListProject
  PROVE  CampaignInv'
<1>1. /\ UNCHANGED <<pc, cur, cases, r, camp, answer, manifest, top, disk>>
      /\ insp.at = "idle"
  BY DEF ListProject
<1>2. PICK i \in Index :
        insp' = [insp EXCEPT !.at = "read", !.on = i, !.seen = disk[i], !.quiet = (pc = "done")]
  BY DEF ListProject
<1>3. /\ insp = [at |-> insp.at, on |-> insp.on, seen |-> insp.seen, quiet |-> insp.quiet,
                 verification |-> insp.verification, decision |-> insp.decision]
      /\ insp.verification # "consistent"
  BY <1>1 DEF CampaignInv, InspectorOK
<1>4. ASSUME NEW q,
             insp' = [insp EXCEPT !.at = "read", !.on = i, !.seen = disk[i], !.quiet = q]
      PROVE  InspectorOK'
  <2>1. insp' = [at |-> "read", on |-> i, seen |-> disk[i], quiet |-> q,
                 verification |-> insp.verification, decision |-> insp.decision]
    BY <1>3, <1>4
  <2>2. /\ insp' = [at |-> insp'.at, on |-> insp'.on, seen |-> insp'.seen, quiet |-> insp'.quiet,
                    verification |-> insp'.verification, decision |-> insp'.decision]
        /\ insp'.on = i /\ insp'.seen = disk[i] /\ insp'.verification = insp.verification
    BY <2>1
  <2> QED
    BY <1>1, <1>3, <2>2 DEF InspectorOK
<1>5. InspectorOK'
  BY <1>2, <1>4, Zenon
<1> QED
  BY <1>1, <1>5, OthersStep

\* Only of a directory whose report it saw, and no staging, does an inspector say
\* that it is consistent.
LEMMA ConsistentWasSettled ==
  ASSUME NEW listed, NEW d, NEW m, Verification(listed, d, m) = "consistent"
  PROVE  Settled(listed)
BY DEF Verification, Settled

\* The inspector reads what it listed.
LEMMA ReadProjectKeeps ==
  ASSUME CampaignInv, ReadProject
  PROVE  CampaignInv'
<1> DEFINE on == insp.on
           v == Verification(insp.seen, disk[on], manifest[on])
           said == IF v = "consistent" THEN disk[on].report.doc.decision ELSE ""
<1>1. /\ UNCHANGED <<pc, cur, cases, r, camp, answer, manifest, top, disk>>
      /\ insp.at = "read"
      /\ insp' = [NotInspecting EXCEPT !.at = "done", !.on = on, !.quiet = insp.quiet,
                                       !.verification = v, !.decision = said]
  BY DEF ReadProject
<1>2. on \in Index /\ (Settled(insp.seen) => disk[on] = insp.seen)
  BY <1>1 DEF CampaignInv, InspectorOK
<1>3. v = "consistent" => Settled(disk[on])
  BY <1>2, ConsistentWasSettled
<1> HIDE DEF on, v
<1>4. insp' = [at |-> "done", on |-> on, seen |-> NoDisk, quiet |-> insp.quiet,
               verification |-> v, decision |-> said]
  BY <1>1 DEF NotInspecting
<1>5. /\ insp' = [at |-> insp'.at, on |-> insp'.on, seen |-> insp'.seen, quiet |-> insp'.quiet,
                  verification |-> insp'.verification, decision |-> insp'.decision]
      /\ insp'.at = "done" /\ insp'.on = on /\ insp'.verification = v /\ insp'.decision = said
  BY <1>4
<1>6. InspectorOK'
  BY <1>1, <1>2, <1>3, <1>5 DEF InspectorOK
<1> QED
  BY <1>1, <1>6, OthersStep

-----------------------------------------------------------------------------
(***************************************************************************)
(* The theorems.                                                           *)
(***************************************************************************)
LEMMA ProjectStepKeeps ==
  ASSUME CampaignInv, ProjectStep
  PROVE  CampaignInv'
BY OpenProjectKeeps, ClaimProjectKeeps, CasesKeep, EndCasesKeeps, RecordQualityKeeps,
   RunSuiteKeeps, AssessSuiteKeeps, WritePendingKeeps, LinkReportKeeps, RemovePendingKeeps
   DEF ProjectStep

\* Nothing is there at first.
LEMMA InitEstablishes == Init => CampaignInv
<1> SUFFICES ASSUME Init PROVE CampaignInv
  OBVIOUS
<1> DEFINE rows == [i \in Index |-> NewRow(manifest[i])]
<1>1. /\ manifest \in [Index -> Manifests] /\ pc = "start" /\ cur = 1 /\ cases = <<>>
      /\ r = NewReport(manifest[1]) /\ answer = "none" /\ top = NoTop
      /\ disk = [i \in Index |-> NoDisk] /\ insp = NotInspecting
      /\ camp = [lifecycle |-> "partial", rows |-> rows, totals |-> Totals(rows)]
  BY DEF Init
<1>2. 1 \in Index /\ Index \subseteq Int
  BY CampaignAssumption DEF Index
<1>3. IsRows(rows)
  BY DEF IsRows
<1> HIDE DEF rows
<1>4. TypeOK
  <2>1. /\ camp = [lifecycle |-> camp.lifecycle, rows |-> camp.rows, totals |-> camp.totals]
        /\ camp.rows = rows
    BY <1>1
  <2>2. cases \in Seq({"matched", "mismatched", "failed"})
    BY <1>1
  <2> QED
    BY <1>1, <1>2, <1>3, <2>1, <2>2 DEF TypeOK
<1>5. ProjectsOK
  <2>1. \A i \in Index : disk[i] = NoDisk
    BY <1>1
  <2>2. ASSUME NEW i \in Index PROVE Sound(disk[i], manifest[i])
    <3>1. disk[i] = Dir(FALSE, NoFile, NoFile, NoSuite, NoFile, NoFile)
      BY <2>1, NoDiskIs
    <3> QED
      BY <3>1, FreshIsSound, Zenon
  <2>3. AtPlace(pc, cases, r, disk[cur], manifest[cur])
    BY <1>1, <1>2, <2>1 DEF AtPlace
  <2>4. \A i \in Index : ~(i < cur)
    BY <1>1, <1>2 DEF Index
  <2> QED
    BY <1>1, <2>1, <2>2, <2>3, <2>4 DEF ProjectsOK, OfCampaign
<1>6. TopOK
  <2>1. /\ top.claim = NoFile /\ top.pending = NoFile /\ top.report = NoFile
        /\ top = Top(top.made, top.claim, top.projects, top.pending, top.report)
    BY <1>1 DEF NoTop, Top
  <2> QED
    BY <1>1, <2>1 DEF TopOK, OfProject
<1>7. AnswerOK
  BY <1>1 DEF AnswerOK
<1>8. InspectorOK
  <2>1. /\ insp = [at |-> insp.at, on |-> insp.on, seen |-> insp.seen, quiet |-> insp.quiet,
                   verification |-> insp.verification, decision |-> insp.decision]
        /\ insp.at = "idle" /\ insp.on = 1 /\ insp.verification = ""
    BY <1>1 DEF NotInspecting
  <2> QED
    BY <1>2, <2>1 DEF InspectorOK
<1> QED
  BY <1>4, <1>5, <1>6, <1>7, <1>8 DEF CampaignInv

\* The inductive invariant of a campaign: what a crash or a failed write may leave of
\* any project, what the running one has by the place of its runner, that those before
\* it are finished with their rows, and what an inspector beside it knows
\* (RunProject, RunCampaign, InspectProject).
THEOREM CampaignInvariant == Spec => []CampaignInv
<1>1. Init => CampaignInv
  BY InitEstablishes
<1>2. CampaignInv /\ [Next]_vars => CampaignInv'
  <2> SUFFICES ASSUME CampaignInv, [Next]_vars PROVE CampaignInv'
    OBVIOUS
  <2>1. CASE Runner
    BY <2>1, ClaimCampaignKeeps, ProjectStepKeeps, NextProjectKeeps, StartProjectKeeps,
       StageCampaignKeeps, LinkCampaignKeeps, FinishCampaignKeeps DEF Runner
  <2>2. CASE ContextEnds \/ UNCHANGED vars
    BY <2>2, ContextEndsKeeps
  <2>3. CASE Crash
    BY <2>3, CrashKeeps
  <2>4. CASE ListProject
    BY <2>4, ListProjectKeeps
  <2>5. CASE ReadProject
    BY <2>5, ReadProjectKeeps
  <2> QED
    BY <2>1, <2>2, <2>3, <2>4, <2>5 DEF Next
<1> QED
  BY <1>1, <1>2, PTL DEF Spec


\* What an inspector said of a project was so, and is.
LEMMA InvImpliesEarned == CampaignInv => ConsistentIsEarned
<1> SUFFICES ASSUME CampaignInv, insp.verification = "consistent"
             PROVE  LET d == disk[insp.on]
                        m == manifest[insp.on]
                    IN  /\ d.report.state = "whole" /\ ~There(d.pending)
                        /\ insp.decision = "passed" =>
                              /\ d.suite = "passed"
                              /\ \A i \in DOMAIN m : d.quality.doc.rows[i] = "matched"
                              /\ \A c \in Checks : \E i \in DOMAIN m : m[i] = c
  BY DEF ConsistentIsEarned
<1> DEFINE d == disk[insp.on]
           m == manifest[insp.on]
           q == d.quality
<1>1. /\ insp.on \in Index /\ Settled(d) /\ insp.decision = d.report.doc.decision
  BY DEF CampaignInv, InspectorOK
<1>2. Sound(d, m)
  BY <1>1 DEF CampaignInv, ProjectsOK
<1> HIDE DEF d, m
<1>3. Finished(d, m)
  BY <1>1, <1>2, SettledIsFinished
<1>4. d.report = Whole(Want(d, m)) /\ d.pending = NoFile /\ QualityOK(q, m)
  BY <1>3 DEF Finished, Ready, Wanted
<1>5. d.report.state = "whole" /\ ~There(d.pending) /\ insp.decision = Want(d, m).decision
  BY <1>1, <1>4, FileStates
<1>6. q.doc.decision = Qualification(q.doc.rows, m)
  BY <1>4, QualityIsValid
<1>7. ASSUME insp.decision = "passed"
      PROVE  /\ d.suite = "passed"
             /\ \A i \in DOMAIN m : q.doc.rows[i] = "matched"
             /\ \A c \in Checks : \E i \in DOMAIN m : m[i] = c
  <2>1. q.doc.decision = "qualified" /\ d.suite = "passed"
    BY <1>5, <1>7, WantSays
  <2>2. Qualification(q.doc.rows, m) = "qualified"
    BY <1>6, <2>1
  <2>3. /\ \A i \in DOMAIN m : q.doc.rows[i] = "matched"
        /\ \A c \in Checks : \E i \in DOMAIN m : m[i] = c
    BY <2>2 DEF Qualification
  <2> QED
    BY <2>1, <2>3
<1> QED
  BY <1>5, <1>7 DEF d, m

\* Finished projects are consistent and have the rows of their reports.
LEMMA FinishedRows ==
  ASSUME AllFinished
  PROVE  /\ \A i \in Index : AtRest(i) = "consistent"
         /\ \A i \in Index : RowsOfReports[i].lifecycle = "published"
         /\ \A i \in Index : RowsOfReports[i].decision = disk[i].report.doc.decision
         /\ WantedRows = RowsOfReports
<1>1. \A i \in Index : AtRest(i) = "consistent"
  BY FinishedIsConsistent DEF AllFinished, AtRest
<1>2. ASSUME NEW i \in Index PROVE disk[i].report.doc.lifecycle = "published"
  <2>1. disk[i].report.doc = Want(disk[i], manifest[i])
    BY FinishedIsConsistent DEF AllFinished
  <2> QED
    BY <2>1, WantSays
<1>3. \A rep : RowOf(rep).lifecycle = rep.lifecycle /\ RowOf(rep).decision = rep.decision
  BY DEF RowOf
<1>4. \A i \in Index : RowsOfReports[i] = RowOf(disk[i].report.doc)
  BY DEF RowsOfReports
<1>5. WantedRows = RowsOfReports
  <2>1. \A i \in Index : WantedRows[i] = RowOf(disk[i].report.doc)
    BY <1>1 DEF WantedRows, RowOf
  <2>2. WantedRows = [i \in Index |-> WantedRows[i]]
    BY DEF WantedRows
  <2> QED
    BY <2>1, <2>2 DEF RowsOfReports
<1> QED
  BY <1>1, <1>2, <1>3, <1>4, <1>5

\* What is published of a campaign is the report that its projects call for.
LEMMA PublishedCampaign ==
  ASSUME CampaignInv, top.report # NoFile
  PROVE  /\ AllFinished /\ top.report = Whole(Final) /\ There(top.report)
         /\ top.report.doc = [lifecycle |-> "published", rows |-> WantedRows,
                              totals |-> Totals(WantedRows)]
         /\ top.made /\ top.projects /\ top.claim = Whole(manifest)
         /\ top.pending \in {NoFile, top.report}
<1>1. /\ AllFinished /\ top.report = Whole(Final) /\ top.pending \in {NoFile, top.report}
      /\ top.made /\ top.projects /\ top.claim = Whole(manifest)
  BY DEF CampaignInv, TopOK
<1>2. There(top.report) /\ top.report.doc = Final
  BY <1>1, FileStates
<1>3. Final = [lifecycle |-> "published", rows |-> WantedRows, totals |-> Totals(WantedRows)]
  BY <1>1, FinishedRows DEF Final
<1> QED
  BY <1>1, <1>2, <1>3

\* A runner that stopped and an inspector agree.
LEMMA InvImpliesAgreement == CampaignInv => RunnerAgreesWithInspector
<1> SUFFICES ASSUME CampaignInv PROVE RunnerAgreesWithInspector
  OBVIOUS
<1>1. ASSUME NEW i \in Index, AtRest(i) = "mismatched"
      PROVE  Torn \in {disk[i].claim, disk[i].quality, disk[i].pending}
  BY <1>1, OnlyTornMismatches DEF AtRest, CampaignInv, ProjectsOK
<1>2. ASSUME CampaignVerification = "mismatched", Torn \notin {top.claim, top.pending},
             \A i \in Index : AtRest(i) # "mismatched"
      PROVE  FALSE
  <2>1. There(top.claim) => top.claim.state # "torn"
    BY <1>2, FileStates DEF CampaignInv, TopOK
  <2>2. top.pending.state # "torn"
    BY <1>2, FileStates DEF CampaignInv, TopOK
  <2>3. There(top.report)
    BY <1>2, <2>1, <2>2 DEF CampaignVerification
  <2>4. top.report # NoFile
    BY <2>3, FileStates
  <2>5. \A i \in Index : AtRest(i) = "consistent"
    BY <2>4, PublishedCampaign, FinishedRows
  <2>6. /\ top.report.doc = [lifecycle |-> "published", rows |-> WantedRows,
                             totals |-> Totals(WantedRows)]
        /\ There(top.pending) => top.pending = top.report
    BY <2>4, PublishedCampaign, FileStates
  <2> QED
    BY <1>2, <2>1, <2>3, <2>5, <2>6 DEF CampaignVerification
<1>3. ASSUME answer = "ok"
      PROVE  /\ CampaignVerification = "consistent" /\ top.report.doc = camp
             /\ (camp.totals.decision = "passed")
                   <=> \A i \in Index : /\ AtRest(i) = "consistent"
                                        /\ disk[i].report.doc.decision = "passed"
  <2>1. top.report = Whole(camp) /\ top.pending = NoFile
    BY <1>3 DEF CampaignInv, AnswerOK
  <2>2. top.report # NoFile /\ top.report.doc = camp /\ ~There(top.pending)
    BY <2>1, FileStates
  <2>3. /\ AllFinished /\ There(top.report) /\ top.made /\ top.projects
        /\ top.report.doc = [lifecycle |-> "published", rows |-> WantedRows,
                             totals |-> Totals(WantedRows)]
        /\ There(top.claim) /\ top.claim.state # "torn"
    BY <2>2, PublishedCampaign, FileStates
  <2>4. \A i \in Index : AtRest(i) = "consistent"
    BY <2>3, FinishedRows
  <2>5. CampaignVerification = "consistent"
    BY <2>2, <2>3, <2>4 DEF CampaignVerification
  <2>6. camp.totals.decision = Totals(RowsOfReports).decision
    BY <2>2, <2>3, FinishedRows
  <2>7. (Totals(RowsOfReports).decision = "passed")
          <=> \A i \in Index : RowsOfReports[i].decision = "passed"
    BY <2>3, FinishedRows DEF Totals
  <2>8. (camp.totals.decision = "passed")
          <=> \A i \in Index : disk[i].report.doc.decision = "passed"
    BY <2>3, <2>6, <2>7, FinishedRows
  <2> QED
    BY <2>2, <2>4, <2>5, <2>8
<1>4. ASSUME answer = "error", CampaignVerification = "consistent"
      PROVE  FALSE
  <2>1. There(top.report) /\ ~There(top.pending)
    BY <1>4 DEF CampaignVerification
  <2>2. top.report # NoFile
    BY <2>1, FileStates
  <2>3. top.pending \in {NoFile, Torn} \/ top.pending = Whole(Final)
    BY DEF CampaignInv, TopOK
  <2>4. top.pending = NoFile
    BY <2>1, <2>3, FileStates
  <2> QED
    BY <1>4, <2>2, <2>4 DEF CampaignInv, AnswerOK
<1> QED
  BY <1>1, <1>2, <1>3, <1>4 DEF RunnerAgreesWithInspector

\* What a project or a campaign says of itself holds, for the one that runs it, the
\* one that is told of it and the one that inspects it, whatever failed or died
\* (runPreparedProject, runPreparedCampaign, inspectPreparedProject).
THEOREM CampaignReportsHold == Spec => []CampaignReportHolds
<1>1. CampaignInv => CampaignReportHolds
  BY InvImpliesEarned, InvImpliesAgreement DEF CampaignReportHolds
<1> QED
  BY <1>1, CampaignInvariant, PTL
=============================================================================
