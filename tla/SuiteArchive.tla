---------------------------- MODULE SuiteArchive ----------------------------
(* Copies of a suite (internal/agenteval ExportSuite and ImportSuite) beside *)
(* the suite itself: an export freezes the directory, writes an archive and  *)
(* publishes it by a hard link; an import writes the archive out again, the  *)
(* report last, into a directory of its own.  Either may be cancelled, fail  *)
(* or die between any two steps, and the suite may still be running.         *)
EXTENDS SuiteRun

VARIABLES
    exporter,  \* [at, listed, files, told]: one ExportSuite
    archive,   \* [pending, dest]: the two names of the archive file
    importer,  \* [at, files, told]: one ImportSuite
    copy       \* the directory the import writes

archiveVars == <<exporter, archive, importer, copy>>
allVars == <<vars, archiveVars>>

Missing == [made |-> "missing", plan |-> "absent",
            dirs |-> [t \in Trials |-> Untouched],
            pending |-> NoFile, published |-> NoFile]
\* An archive file: "absent", "torn", or whole with the frozen suite.
NoArchive == [state |-> "absent", files |-> Missing]
TornArchive == [state |-> "torn", files |-> Missing]

ArchiveInit ==
    /\ Init
    /\ exporter = [at |-> "idle", listed |-> FALSE, files |-> Missing, told |-> "none"]
    /\ archive = [pending |-> NoArchive, dest |-> NoArchive]
    /\ importer = [at |-> "idle", files |-> Missing, told |-> "none"]
    /\ copy = Missing

------------------------------------------------------------------------------
(* suite_archive.go: ExportSuite.                                            *)

\* freezeSuite: the members are exactly the claim, the plan, the report and the
\* planned trials, every trial its claim and its terminal document.
CleanListing(o) ==
    /\ o.made = "claimed" /\ o.plan # "absent"
    /\ o.published.state # "absent" /\ o.pending.state = "absent"
    /\ \A t \in Trials : o.dirs[t].reach = "published"

\* archiveEligible: the frozen members inspect as a clean published suite.
Eligible(o) ==
    /\ State(o) = "published" /\ ~Residue(o)
    /\ \A t \in Trials : DirComplete(o.dirs[t])

ExportEnds(told) == exporter' = [exporter EXCEPT !.at = "done", !.told = told]

\* Before its report is staged a suite has nothing to export, as after a crash
\* at that point: only later listings are explored.
ListSuite ==
    /\ exporter.at = "idle" /\ pc \in {"link", "unlink", "done"}
    /\ exporter' = [exporter EXCEPT !.at = "freeze", !.listed = CleanListing(Output)]
    /\ UNCHANGED <<vars, archive, importer, copy>>

\* Fault: the listing alone decides, nothing is inspected again.
FreezeSuiteWrong ==
    /\ exporter.at = "freeze"
    /\ \/ ExportEnds("refused")
       \/ /\ exporter.listed
          /\ archive.pending = NoArchive /\ archive.dest = NoArchive
          /\ exporter' = [exporter EXCEPT !.at = "write", !.files = Output]
    /\ UNCHANGED <<vars, archive, importer, copy>>

\* The members are read and judged as they were read; then the destination and
\* its pending name must be free.
FreezeSuite ==
    /\ exporter.at = "freeze"
    /\ \/ ExportEnds("refused")
       \/ /\ exporter.listed /\ Eligible(Output)
          /\ archive.pending = NoArchive /\ archive.dest = NoArchive
          /\ exporter' = [exporter EXCEPT !.at = "write", !.files = Output]
    /\ UNCHANGED <<vars, archive, importer, copy>>

\* Written, synced, closed; a failure leaves what was written.
WriteArchive ==
    /\ exporter.at = "write"
    /\ \/ archive' = [archive EXCEPT !.pending = TornArchive] /\ ExportEnds("failed")
       \/ /\ archive' = [archive EXCEPT !.pending =
                            [state |-> "whole", files |-> exporter.files]]
          /\ exporter' = [exporter EXCEPT !.at = "link"]
    /\ UNCHANGED <<vars, importer, copy>>

LinkArchive ==
    /\ exporter.at = "link"
    /\ \/ ExportEnds("failed") /\ UNCHANGED archive
       \/ /\ archive' = [archive EXCEPT !.dest = archive.pending]
          /\ exporter' = [exporter EXCEPT !.at = "unlink"]
    /\ UNCHANGED <<vars, importer, copy>>

UnlinkArchive ==
    /\ exporter.at = "unlink"
    /\ \/ ExportEnds("published_with_residue") /\ UNCHANGED archive
       \/ archive' = [archive EXCEPT !.pending = NoArchive] /\ ExportEnds("published")
    /\ UNCHANGED <<vars, importer, copy>>

Exporter == ListSuite \/ FreezeSuite \/ WriteArchive \/ LinkArchive \/ UnlinkArchive

------------------------------------------------------------------------------
(* suite_archive.go: ImportSuite.                                            *)

ImportGoes(at) == importer' = [importer EXCEPT !.at = at]
ImportEnds(told) == importer' = [importer EXCEPT !.at = "done", !.told = told]

\* decodeArchive accepts a whole archive whose members are eligible again; the
\* output directory belongs to the import whose Mkdir made it.
ReadArchive ==
    /\ importer.at = "idle" /\ archive.dest.state # "absent"
    /\ \/ ImportEnds("refused") /\ UNCHANGED copy
       \/ /\ archive.dest.state = "whole" /\ Eligible(archive.dest.files)
          /\ importer' = [importer EXCEPT !.at = "claim", !.files = archive.dest.files]
          /\ copy' = [copy EXCEPT !.made = "empty"]
    /\ UNCHANGED <<vars, exporter, archive>>

\* A member is written whole, cut short, or not at all.
Copies(torn, whole, at) ==
    /\ \/ ImportEnds("failed") /\ copy' \in {copy, torn}
       \/ copy' = whole /\ ImportGoes(at)
    /\ UNCHANGED <<vars, exporter, archive>>

CopyClaim ==
    /\ importer.at = "claim"
    /\ Copies([copy EXCEPT !.made = "torn"], [copy EXCEPT !.made = "claimed"], "plan")

\* Fault: the report is written under its final name, before the trials.
CopyPlanWrong ==
    /\ importer.at = "plan"
    /\ Copies([copy EXCEPT !.plan = "torn"],
              [copy EXCEPT !.plan = "whole", !.published = importer.files.published],
              "trials")

CopyPlan ==
    /\ importer.at = "plan"
    /\ Copies([copy EXCEPT !.plan = "torn"], [copy EXCEPT !.plan = "whole"], "trials")

\* The trials in the order of the archive, each its claim and its terminal
\* document.
CopyOrder == [n \in Trials |-> IF n <= Pairs THEN 2 * n - 1 ELSE 2 * (n - Pairs)]
Copied == {t \in Trials : copy.dirs[t].reach = "published"}
CopyTrial ==
    /\ importer.at = "trials" /\ Copied # Trials
    /\ LET n == CHOOSE m \in Trials : /\ CopyOrder[m] \notin Copied
                                      /\ \A k \in 1..(m - 1) : CopyOrder[k] \in Copied
           t == CopyOrder[n]
           reaching(reach) == [copy EXCEPT !.dirs[t] = [Untouched EXCEPT !.reach = reach]]
       IN  \/ /\ ImportEnds("failed")
              /\ copy' \in {copy} \cup {reaching(w) :
                               w \in {"empty", "torn", "claim", "tornTerminal"}}
           \/ /\ copy' = [copy EXCEPT !.dirs[t] = importer.files.dirs[t]]
              /\ UNCHANGED importer
    /\ UNCHANGED <<vars, exporter, archive>>

CopyReport ==
    /\ importer.at = "trials" /\ Copied = Trials
    /\ Copies([copy EXCEPT !.pending = TornFile],
              [copy EXCEPT !.pending = importer.files.published], "link")

LinkCopy ==
    /\ importer.at = "link"
    /\ \/ ImportEnds("failed") /\ UNCHANGED copy
       \/ copy' = [copy EXCEPT !.published = copy.pending] /\ ImportGoes("unlink")
    /\ UNCHANGED <<vars, exporter, archive>>

UnlinkCopy ==
    /\ importer.at = "unlink"
    /\ \/ ImportEnds("published_with_residue") /\ UNCHANGED copy
       \/ copy' = [copy EXCEPT !.pending = NoFile] /\ ImportEnds("published")
    /\ UNCHANGED <<vars, exporter, archive>>

Importer ==
    \/ ReadArchive \/ CopyClaim \/ CopyPlan \/ CopyTrial \/ CopyReport
    \/ LinkCopy \/ UnlinkCopy

\* A process dies: what it wrote stays, and nobody was told anything.
ArchiveCrash ==
    /\ \/ /\ exporter.at \notin {"idle", "done"} /\ ExportEnds("none")
          /\ UNCHANGED importer
       \/ /\ importer.at \notin {"idle", "done"} /\ ImportEnds("none")
          /\ UNCHANGED exporter
    /\ UNCHANGED <<vars, archive, copy>>

ArchiveNext ==
    \/ Next /\ UNCHANGED archiveVars
    \/ Exporter \/ Importer \/ ArchiveCrash

ArchiveSpec == ArchiveInit /\ [][ArchiveNext]_allVars

------------------------------------------------------------------------------
\* Archives carry whole suites, or nothing.  One under its final name is a clean
\* suite, and what it holds is what the source directory still is: however the
\* export raced with the run, was cancelled or died.  A copy passes as published
\* only when it is the archived suite as a whole; the import that published it
\* says so, and one that was cut anywhere leaves a directory no inspection takes
\* for a suite that ended.
ArchivesAreWhole ==
    /\ archive.dest # NoArchive =>
          /\ archive.dest.state = "whole"
          /\ archive.dest.files = Output /\ Eligible(Output)
    /\ State(copy) \in {"published", "published_with_residue", "published_unverified"} =>
          [copy EXCEPT !.pending = NoFile] = archive.dest.files
    /\ importer.told = "published" => State(copy) = "published"
    /\ importer.told \in {"refused", "failed"} =>
          State(copy) \in {"not_started", "incomplete_or_running", "invalid"}
=============================================================================
