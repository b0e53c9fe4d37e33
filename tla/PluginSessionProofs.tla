------------------------- MODULE PluginSessionProofs -------------------------
(***************************************************************************)
(* What holds of a plugin session for any number of tool calls, slots,     *)
(* attempts and requests, with machine-checked proofs.                     *)
(***************************************************************************)
EXTENDS PluginSession, TLAPS

-----------------------------------------------------------------------------
(***************************************************************************)
(* The inductive invariant.                                                *)
(***************************************************************************)
Contents == {Absent, Partial, Written} \cup Terminals \cup Reports
Controls ==
  [pc : {"startup", "read", "reply", "seal", "ended"}, ready : BOOLEAN, count : Nat,
   prev : Requests \cup {NoRequest}, cur : Requests \cup {NoRequest},
   reply : [status : {None, "running", "sealed"}, report : Reports \cup {None}],
   done : BOOLEAN, failed : BOOLEAN]
Serves ==
  [pc : {"idle", "select", "await", "seal", "join", "returned", "dead"}, failed : BOOLEAN]
Seals ==
  [by : {None, "control", "serve"}, step : {None, "finish", "create", "link", "remove"},
   file : Files \cup {None}, outcome : {None, "completed", "cancelled"},
   report : Reports \cup {None}]
Worlds ==
  [accepting : BOOLEAN, expired : BOOLEAN, finished : BOOLEAN, unsafe : BOOLEAN,
   terminal : Terminals]

SessionTypeOK ==
  /\ serve \in Serves
  /\ control \in Controls
  /\ sealing \in Seals
  /\ report \in Reports \cup {None}
  /\ world \in Worlds
  /\ call \in [Calls -> {"new", "queued", "stepping", "run"}]
  /\ wire \in BOOLEAN /\ cancelled \in BOOLEAN
  /\ disk \in [Names -> Contents]
  /\ host \in [asked : BOOLEAN, told : SUBSET Reports]
  /\ reader \in [step : {"idle", "listed", "read", "judged"}, terminal : Contents,
                 verdict : {None, "invalid", "passed", "failed"}]

\* The host has been told of the session's report, and there is one.
Told == report # None /\ host.told = {report}

\* A finished world admits no call and has none under way; what it executed it
\* has recorded; and it completed only because its host asked.
WorldOK ==
  /\ world.finished => ~world.accepting /\ Unlocked
  /\ \A c \in Calls : call[c] = "run" => c \in world.terminal.events
  /\ world.terminal.execution = "completed" => host.asked

\* The control loop answers with the one report or with none, and ends well only
\* after it has sent it.
ControlOK ==
  /\ host.asked \/ control.pc \in {"read", "reply", "seal"} => control.ready
  /\ control.pc = "seal" => /\ ~control.done
                            /\ control.cur.outcome = "completed" => host.asked
  /\ control.done => report # None /\ control.pc # "startup"
  /\ control.reply.report \in {None, report}
  /\ host.told \subseteq {report} \ {None}
  /\ control.pc = "read" /\ control.done => Told
  /\ control.pc = "reply" /\ control.done => Told \/ control.reply.report = report
  /\ control.pc = "ended" /\ ~control.failed => Told

\* Serve seals only what has failed, and succeeds only with a report told.
ServeOK ==
  /\ serve.pc = "seal" => serve.failed
  /\ serve.pc \in {"join", "returned"} /\ ~serve.failed => Told

\* What the seal in progress writes next, or has written last.
Sealed == IF sealing.file = "terminal" THEN world.terminal ELSE sealing.report

\* A seal in progress belongs to a caller that waits for it, before any report;
\* past Finish it writes what Finish froze, the terminal first.
SealOK ==
  /\ sealing.by = None <=> sealing.step = None
  /\ sealing.by = "control" => control.pc = "seal"
  /\ sealing.by = "serve" => serve.pc = "seal"
  /\ sealing.step # None => report = None /\ ~world.accepting
  /\ sealing.outcome = "completed" => host.asked
  /\ sealing.step \in {"create", "link", "remove"} =>
       /\ world.finished
       /\ sealing.file \in Files
       /\ sealing.report \in Reports /\ sealing.report.of = world.terminal
       /\ sealing.file = "report" => /\ disk["terminal"] = world.terminal
                                     /\ disk["terminal.pending"] = Absent
  /\ sealing.step = "link" => disk[PendingOf(sealing.file)] = Sealed
  /\ sealing.step = "remove" => disk[sealing.file] = Sealed

\* On disk there is the frozen terminal or none; a report the session does not
\* know of has its residue beside it; the one it knows of is published.
DiskOK ==
  /\ disk["claim"] # Absent => disk["output"] # Absent
  /\ disk["terminal"] # Absent => world.finished /\ disk["terminal"] = world.terminal
  /\ disk["report"] # Absent /\ report = None => disk["report.pending"] # Absent
  /\ report # None => /\ disk["report"] = report /\ disk["terminal"] = report.of
                      /\ ~Residue(disk)

\* An Inspect has read the frozen terminal or none, and has accepted only what
\* Serve verified.
ReaderOK ==
  /\ reader.terminal # Absent => world.finished /\ reader.terminal = world.terminal
  /\ reader.verdict \in Accepted =>
       /\ reader.terminal = world.terminal /\ world.finished
       /\ disk["report"] = ReportFor(world.terminal, TRUE)

SessionInv ==
  /\ SessionTypeOK
  /\ WorldOK
  /\ ControlOK
  /\ ServeOK
  /\ SealOK
  /\ DiskOK
  /\ ReaderOK

-----------------------------------------------------------------------------
(***************************************************************************)
(* Literals, and the records the steps write.                              *)
(***************************************************************************)

\* None is no mark and no report.
LEMMA NoneDiffers ==
  /\ None \notin {"control", "serve", "finish", "create", "link", "remove", "terminal",
                  "report", "passed", "failed", "invalid", "completed", "cancelled"}
  /\ None \notin Reports
<1>1. None \notin Marks /\ None \notin Reports
  BY SessionAssumption
<1> QED
  BY <1>1 DEF Marks, Files

\* What a directory entry holds is told apart by its kind.
LEMMA ContentsDiffer ==
  /\ \A t \in Terminals : t # Absent /\ t.kind = "terminal" /\ t.kind # "report"
  /\ \A r \in Reports : r # Absent /\ r.kind = "report" /\ r.of \in Terminals
  /\ Absent.kind = "absent" /\ Partial.kind = "partial" /\ Written.kind = "written"
  /\ Partial # Absent /\ Written # Absent
BY DEF Terminals, Reports, Absent, Partial, Written

\* A verified or unverified report of a terminal is a report of it.
LEMMA ReportShape ==
  ASSUME NEW t \in Terminals, NEW verified \in BOOLEAN
  PROVE  ReportFor(t, verified) \in Reports /\ ReportFor(t, verified).of = t
BY DEF ReportFor, Reports, Terminals

\* Verification of a terminal has a Boolean outcome.
LEMMA VerifiableIsBoolean == \A t \in Terminals : Verifiable(t) \in BOOLEAN
BY DEF Verifiable

\* The control loop that has ended.
LEMMA LoopEndedShape ==
  ASSUME control \in Controls, NEW failed \in BOOLEAN
  PROVE  /\ LoopEnded(failed) \in Controls
         /\ LoopEnded(failed).pc = "ended" /\ LoopEnded(failed).failed = failed
         /\ LoopEnded(failed).ready = control.ready /\ LoopEnded(failed).done = control.done
         /\ LoopEnded(failed).reply.report = None
BY DEF LoopEnded, Controls, NoReply

\* The lock is free.
LEMMA NoSealShape ==
  /\ NoSeal \in Seals
  /\ NoSeal.by = None /\ NoSeal.step = None /\ NoSeal.outcome = None
BY DEF NoSeal, Seals

\* A free lock is right whatever the session has done.
LEMMA FreeSealOK ==
  ASSUME sealing' = NoSeal
  PROVE  SealOK'
BY NoSealShape, NoneDiffers DEF SealOK

\* The initial session satisfies the invariant.
LEMMA InitEstablishesSessionInv == SessionInit => SessionInv
<1> SUFFICES ASSUME SessionInit PROVE SessionInv
  OBVIOUS
<1> USE DEF SessionInit
<1>1. SessionTypeOK
  <2>1. serve \in Serves
    BY DEF Serves
  <2>2. control \in Controls
    BY DEF Controls, NoReply
  <2>3. world \in Worlds
    BY DEF Worlds, Terminals
  <2>4. disk \in [Names -> Contents]
    BY DEF Contents
  <2>5. reader \in [step : {"idle", "listed", "read", "judged"}, terminal : Contents,
                    verdict : {None, "invalid", "passed", "failed"}]
    BY DEF NoRead, Contents
  <2>6. call \in [Calls -> {"new", "queued", "stepping", "run"}]
    OBVIOUS
  <2>7. host \in [asked : BOOLEAN, told : SUBSET Reports]
    OBVIOUS
  <2> QED
    BY <2>1, <2>2, <2>3, <2>4, <2>5, <2>6, <2>7, NoSealShape DEF SessionTypeOK
<1>2. WorldOK
  BY DEF WorldOK
<1>3. ControlOK
  BY DEF ControlOK, NoReply
<1>4. ServeOK
  BY DEF ServeOK
<1>5. SealOK
  BY NoSealShape, NoneDiffers DEF SealOK
<1>6. DiskOK
  BY DEF DiskOK, Names
<1>7. ReaderOK
  BY NoneDiffers DEF ReaderOK, NoRead, Accepted
<1> QED
  BY <1>1, <1>2, <1>3, <1>4, <1>5, <1>6, <1>7 DEF SessionInv

-----------------------------------------------------------------------------
(***************************************************************************)
(* Serve.                                                                  *)
(***************************************************************************)

\* A step that leaves the evidence and the control loop as they are keeps the
\* invariant when what it makes of Serve is right.
LEMMA ServeStep ==
  ASSUME SessionInv, UNCHANGED <<control, sealing, report, call, host, reader, disk>>,
         world' \in Worlds, world'.accepting = world.accepting,
         world'.finished = world.finished, world'.terminal = world.terminal,
         wire' \in BOOLEAN, cancelled' \in BOOLEAN, serve' \in Serves, ServeOK',
         serve.pc = "seal" => serve' = serve
  PROVE  SessionInv'
<1>1. SessionTypeOK'
  BY DEF SessionInv, SessionTypeOK
<1>2. WorldOK' /\ ControlOK'
  BY DEF SessionInv, WorldOK, ControlOK, Unlocked, Told
<1>3. SealOK'
  BY DEF SessionInv, SealOK, Sealed
<1>4. DiskOK' /\ ReaderOK'
  BY DEF SessionInv, DiskOK, ReaderOK
<1> QED
  BY <1>1, <1>2, <1>3, <1>4 DEF SessionInv

\* Serve and its streams, timers and signals.
LEMMA ServeActions ==
  ASSUME SessionInv, Select \/ Join \/ Cancel \/ Expire \/ CloseWire
  PROVE  SessionInv'
<1>1. /\ serve \in Serves /\ world \in Worlds /\ wire \in BOOLEAN /\ cancelled \in BOOLEAN
      /\ control \in Controls /\ ServeOK /\ ControlOK
  BY DEF SessionInv, SessionTypeOK
<1>2. /\ serve.failed \in BOOLEAN /\ control.failed \in BOOLEAN
      /\ serve.pc = "seal" => serve.failed
      /\ serve.pc \in {"join", "returned"} /\ ~serve.failed => Told
      /\ control.pc = "ended" /\ ~control.failed => Told
  BY <1>1 DEF Serves, Controls, ServeOK, ControlOK
<1>3. CASE Select
  <2>1. /\ UNCHANGED <<control, sealing, report, world, call, wire, disk, host, reader>>
        /\ serve.pc \in {"select", "await"}
    BY <1>3 DEF Select
  <2>2. serve' \in Serves /\ cancelled' \in BOOLEAN /\ ServeOK'
    <3>1. ASSUME NEW failed \in BOOLEAN, AfterSelect(failed), ~failed => Told
          PROVE  serve' \in Serves /\ cancelled' \in BOOLEAN /\ ServeOK'
      <4>1. CASE report = None
        <5>1. serve' = [pc |-> "seal", failed |-> failed] /\ cancelled' = cancelled /\ failed
          BY <3>1, <4>1 DEF AfterSelect, Told
        <5> QED
          BY <1>1, <3>1, <5>1 DEF Serves, ServeOK
      <4>2. CASE report # None
        <5>1. serve' = [pc |-> "join", failed |-> failed] /\ cancelled' = TRUE
          BY <3>1, <4>2 DEF AfterSelect
        <5>2. ~failed => Told'
          BY <2>1, <3>1 DEF Told
        <5>3. serve'.pc = "join" /\ serve'.failed = failed
          BY <5>1
        <5> QED
          BY <3>1, <5>1, <5>2, <5>3 DEF Serves, ServeOK
      <4> QED
        BY <4>1, <4>2
    <3>2. CASE serve.pc = "select" /\ ~wire /\ report # None
               /\ serve' = [serve EXCEPT !.pc = "await"] /\ UNCHANGED cancelled
      BY <1>1, <3>2 DEF Serves, ServeOK
    <3>3. \/ control.pc = "ended" /\ AfterSelect(control.failed)
          \/ AfterSelect(TRUE)
          \/ /\ serve.pc = "select" /\ ~wire /\ report # None
             /\ serve' = [serve EXCEPT !.pc = "await"] /\ UNCHANGED cancelled
      BY <1>3 DEF Select
    <3> QED
      BY <1>2, <3>1, <3>2, <3>3
  <2> QED
    BY <1>1, <2>1, <2>2, ServeStep
<1>4. CASE Join
  <2>1. serve' = [serve EXCEPT !.pc = "returned"] /\ serve.pc = "join"
        /\ UNCHANGED <<control, sealing, report, world, call, wire, cancelled, disk, host, reader>>
    BY <1>4 DEF Join
  <2>2. serve' \in Serves /\ ServeOK'
    BY <1>1, <1>2, <2>1 DEF Serves, ServeOK, Told
  <2> QED
    BY <1>1, <2>1, <2>2, ServeStep
<1>5. CASE Cancel \/ CloseWire
  <2>1. /\ UNCHANGED <<serve, control, sealing, report, world, call, disk, host, reader>>
        /\ wire' \in BOOLEAN /\ cancelled' \in BOOLEAN
    BY <1>1, <1>5 DEF Cancel, CloseWire
  <2>2. ServeOK'
    BY <1>1, <2>1 DEF ServeOK, Told
  <2> QED
    BY <1>1, <2>1, <2>2, ServeStep
<1>6. CASE Expire
  <2>1. /\ world' = [world EXCEPT !.expired = TRUE]
        /\ UNCHANGED <<serve, control, sealing, report, call, wire, cancelled, disk, host, reader>>
    BY <1>6 DEF Expire
  <2>2. /\ world' \in Worlds /\ world'.accepting = world.accepting
        /\ world'.finished = world.finished /\ world'.terminal = world.terminal
    BY <1>1, <2>1 DEF Worlds
  <2>3. ServeOK'
    BY <1>1, <2>1 DEF ServeOK, Told
  <2> QED
    BY <1>1, <2>1, <2>2, <2>3, ServeStep
<1> QED
  BY <1>3, <1>4, <1>5, <1>6

\* A claim writes only the directory and claim.json, in a directory of its own.
LEMMA ClaimStep ==
  ASSUME SessionInv, NEW claimed \in {Absent, Partial, Written}, NEW provisioned \in BOOLEAN,
         Claim(claimed, provisioned)
  PROVE  SessionInv'
<1>1. /\ disk' = [disk EXCEPT !["output"] = Written, !["claim"] = claimed]
      /\ serve.pc = "idle"
      /\ serve' = IF claimed = Written /\ provisioned THEN [serve EXCEPT !.pc = "select"]
                  ELSE [pc |-> "returned", failed |-> TRUE]
      /\ UNCHANGED <<control, sealing, report, world, call, wire, cancelled, host, reader>>
  BY DEF Claim
<1>2. disk \in [Names -> Contents] /\ serve \in Serves
  BY DEF SessionInv, SessionTypeOK
<1>3. /\ disk' \in [Names -> Contents] /\ disk'["output"] = Written
      /\ \A n \in Names \ {"output", "claim"} : disk'[n] = disk[n]
  BY <1>1, <1>2 DEF Contents, Names
<1>4. /\ disk'["terminal"] = disk["terminal"] /\ disk'["report"] = disk["report"]
      /\ disk'["terminal.pending"] = disk["terminal.pending"]
      /\ disk'["report.pending"] = disk["report.pending"]
  BY <1>3 DEF Names
<1>5. serve' \in Serves /\ ServeOK'
  BY <1>1, <1>2 DEF Serves, ServeOK
<1>6. SessionTypeOK'
  BY <1>1, <1>3, <1>5 DEF SessionInv, SessionTypeOK
<1>7. WorldOK' /\ ControlOK'
  BY <1>1 DEF SessionInv, WorldOK, ControlOK, Unlocked, Told
<1>8. SealOK'
  BY <1>1, <1>4 DEF SessionInv, SealOK, Sealed, PendingOf, Files
<1>9. DiskOK'
  BY <1>1, <1>3, <1>4, ContentsDiffer DEF SessionInv, DiskOK, Residue, PendingOf, Files
<1>10. ReaderOK'
  BY <1>1, <1>4 DEF SessionInv, ReaderOK
<1> QED
  BY <1>5, <1>6, <1>7, <1>8, <1>9, <1>10 DEF SessionInv

\* A crash ends every goroutine and leaves the directory as it is.
LEMMA CrashStep ==
  ASSUME SessionInv, Crash
  PROVE  SessionInv'
<1>1. /\ serve' = [serve EXCEPT !.pc = "dead"] /\ control' = LoopEnded(TRUE)
      /\ sealing' = NoSeal /\ wire' = FALSE /\ cancelled' = TRUE
      /\ UNCHANGED <<report, world, call, disk, host, reader>>
  BY DEF Crash
<1>2. serve \in Serves /\ control \in Controls
  BY DEF SessionInv, SessionTypeOK
<1>3. serve' \in Serves /\ serve'.pc = "dead"
  BY <1>1, <1>2 DEF Serves
<1>4. /\ control' \in Controls /\ control'.pc = "ended" /\ control'.failed = TRUE
      /\ control'.ready = control.ready /\ control'.done = control.done
      /\ control'.reply.report = None
  BY <1>1, <1>2, LoopEndedShape
<1>5. SessionTypeOK'
  BY <1>1, <1>3, <1>4, NoSealShape DEF SessionInv, SessionTypeOK
<1>6. WorldOK' /\ ServeOK'
  BY <1>1, <1>3 DEF SessionInv, WorldOK, Unlocked, ServeOK
<1>7. ControlOK'
  BY <1>1, <1>4 DEF SessionInv, ControlOK
<1>8. SealOK'
  BY <1>1, FreeSealOK
<1>9. DiskOK' /\ ReaderOK'
  BY <1>1 DEF SessionInv, DiskOK, ReaderOK
<1> QED
  BY <1>5, <1>6, <1>7, <1>8, <1>9 DEF SessionInv

-----------------------------------------------------------------------------
(***************************************************************************)
(* Tool calls.                                                             *)
(***************************************************************************)

\* A step of a call keeps the invariant when it leaves the world alone, or
\* changes one that is not finished without admitting more.
LEMMA CallStep ==
  ASSUME SessionInv, UNCHANGED <<serve, control, sealing, report, wire, cancelled, disk, host, reader>>,
         call' \in [Calls -> {"new", "queued", "stepping", "run"}], world' \in Worlds,
         \/ world' = world
         \/ /\ ~world.finished /\ ~world'.finished
            /\ world'.accepting => world.accepting
            /\ world'.terminal.execution = world.terminal.execution,
         WorldOK'
  PROVE  SessionInv'
<1>1. SessionTypeOK'
  BY DEF SessionInv, SessionTypeOK
<1>2. ControlOK' /\ ServeOK'
  BY DEF SessionInv, ControlOK, ServeOK, Told
<1>3. SealOK' /\ DiskOK' /\ ReaderOK'
  <2>1. CASE world' = world
    <3>1. SealOK'
      BY <2>1 DEF SessionInv, SealOK, Sealed
    <3>2. DiskOK' /\ ReaderOK'
      BY <2>1 DEF SessionInv, DiskOK, ReaderOK
    <3> QED
      BY <3>1, <3>2
  <2>2. CASE world' # world
    <3>1. ~world.finished /\ ~world'.finished /\ (world'.accepting => world.accepting)
      BY <2>2
    <3>2. SealOK'
      BY <3>1 DEF SessionInv, SealOK
    <3>3. DiskOK' /\ ReaderOK'
      BY <3>1 DEF SessionInv, DiskOK, ReaderOK
    <3> QED
      BY <3>2, <3>3
  <2> QED
    BY <2>1, <2>2
<1> QED
  BY <1>1, <1>2, <1>3 DEF SessionInv

\* The middleware admits calls to a world that is not finished.
LEMMA EnterStep ==
  ASSUME SessionInv, NEW c \in Calls, Enter(c)
  PROVE  SessionInv'
<1>1. /\ call' = [call EXCEPT ![c] = "queued"] /\ call[c] = "new" /\ world.accepting
      /\ UNCHANGED <<serve, control, sealing, report, world, wire, cancelled, disk, host, reader>>
  BY DEF Enter
<1>2. /\ call \in [Calls -> {"new", "queued", "stepping", "run"}] /\ world \in Worlds
      /\ WorldOK
  BY DEF SessionInv, SessionTypeOK
<1>3. call' \in [Calls -> {"new", "queued", "stepping", "run"}]
  BY <1>1, <1>2
<1>4. WorldOK'
  BY <1>1, <1>2 DEF WorldOK
<1> QED
  BY <1>1, <1>2, <1>3, <1>4, CallStep

\* Under the mutex a call is refused, spoils the session, or goes on, and none
\* goes on in a finished world.
LEMMA DispatchStep ==
  ASSUME SessionInv, NEW c \in Calls, NEW input \in {"valid", "invalid", "void"},
         Dispatch(c, input)
  PROVE  SessionInv'
<1>1. /\ call[c] = "queued" /\ Unlocked
      /\ UNCHANGED <<serve, control, sealing, report, wire, cancelled, disk, host, reader>>
  BY DEF Dispatch
<1>2. /\ call \in [Calls -> {"new", "queued", "stepping", "run"}] /\ world \in Worlds
      /\ WorldOK
  BY DEF SessionInv, SessionTypeOK
<1>3. \/ world' = world /\ call' = [call EXCEPT ![c] = "new"]
      \/ world.accepting /\ world' = Spoiled(world) /\ call' = [call EXCEPT ![c] = "new"]
      \/ world.accepting /\ world' = world /\ call' = [call EXCEPT ![c] = "stepping"]
  BY DEF Dispatch
<1>4. world.accepting => ~world.finished
  BY <1>2 DEF WorldOK
<1>5. CASE world' = world /\ call' = [call EXCEPT ![c] = "new"]
  <2>1. call' \in [Calls -> {"new", "queued", "stepping", "run"}]
    BY <1>2, <1>5
  <2>2. WorldOK'
    BY <1>1, <1>2, <1>5 DEF WorldOK, Unlocked
  <2> QED
    BY <1>1, <1>2, <1>5, <2>1, <2>2, CallStep
<1>6. CASE world.accepting /\ world' = Spoiled(world) /\ call' = [call EXCEPT ![c] = "new"]
  <2>1. call' \in [Calls -> {"new", "queued", "stepping", "run"}]
    BY <1>2, <1>6
  <2>2. /\ world.terminal \in Terminals
        /\ Spoiled(world) = [world EXCEPT !.terminal = [world.terminal EXCEPT !.failed = TRUE],
                                          !.accepting = FALSE]
    BY <1>2 DEF Worlds, Spoiled
  <2>3. /\ [world.terminal EXCEPT !.failed = TRUE] \in Terminals
        /\ [world.terminal EXCEPT !.failed = TRUE].events = world.terminal.events
        /\ [world.terminal EXCEPT !.failed = TRUE].execution = world.terminal.execution
    BY <2>2 DEF Terminals
  <2>4. /\ world' \in Worlds /\ ~world'.accepting /\ world'.finished = world.finished
        /\ world'.terminal.events = world.terminal.events
        /\ world'.terminal.execution = world.terminal.execution
    BY <1>2, <1>6, <2>2, <2>3 DEF Worlds
  <2>5. WorldOK'
    BY <1>1, <1>2, <1>4, <1>6, <2>4 DEF WorldOK
  <2> QED
    BY <1>1, <1>4, <1>6, <2>1, <2>4, <2>5, CallStep
<1>7. CASE world.accepting /\ world' = world /\ call' = [call EXCEPT ![c] = "stepping"]
  <2>1. call' \in [Calls -> {"new", "queued", "stepping", "run"}]
    BY <1>2, <1>7
  <2>2. WorldOK'
    BY <1>1, <1>2, <1>4, <1>7 DEF WorldOK
  <2> QED
    BY <1>1, <1>2, <1>7, <2>1, <2>2, CallStep
<1> QED
  BY <1>3, <1>5, <1>6, <1>7

\* The dispatcher records the attempt and the event in one step.
LEMMA StepStep ==
  ASSUME SessionInv, NEW c \in Calls, NEW ok \in BOOLEAN, Step(c, ok)
  PROVE  SessionInv'
<1> DEFINE t == [world.terminal EXCEPT !.attempts = @ + 1, !.events = @ \cup {c},
                                       !.failed = @ \/ ~ok]
<1>1. /\ call[c] = "stepping" /\ call' = [call EXCEPT ![c] = "run"]
      /\ world' = [world EXCEPT !.terminal.attempts = @ + 1,
                                !.terminal.events = @ \cup {c},
                                !.terminal.failed = @ \/ ~ok,
                                !.accepting = @ /\ ok]
      /\ UNCHANGED <<serve, control, sealing, report, wire, cancelled, disk, host, reader>>
  BY DEF Step
<1>2. /\ call \in [Calls -> {"new", "queued", "stepping", "run"}] /\ world \in Worlds
      /\ WorldOK
  BY DEF SessionInv, SessionTypeOK
<1>3. world.terminal \in Terminals /\ world.accepting \in BOOLEAN /\ ~world.finished
  BY <1>1, <1>2 DEF Worlds, WorldOK, Unlocked
<1>4. world' = [world EXCEPT !.terminal = t, !.accepting = world.accepting /\ ok]
  BY <1>1, <1>2 DEF Worlds, Terminals
<1>5. /\ t \in Terminals /\ t.events = world.terminal.events \cup {c}
      /\ t.execution = world.terminal.execution
  <2>1. t.attempts \in Nat
    BY <1>3 DEF Terminals
  <2>2. t.events \in SUBSET Calls /\ t.failed \in BOOLEAN
    BY <1>3 DEF Terminals
  <2> QED
    BY <1>3, <2>1, <2>2 DEF Terminals
<1> HIDE DEF t
<1>6. /\ world' \in Worlds /\ world'.terminal = t /\ world'.finished = world.finished
      /\ world'.accepting => world.accepting
  BY <1>2, <1>3, <1>4, <1>5 DEF Worlds
<1>7. call' \in [Calls -> {"new", "queued", "stepping", "run"}]
  BY <1>1, <1>2
<1>8. WorldOK'
  BY <1>1, <1>2, <1>3, <1>5, <1>6 DEF WorldOK
<1> QED
  BY <1>1, <1>3, <1>5, <1>6, <1>7, <1>8, CallStep

-----------------------------------------------------------------------------
(***************************************************************************)
(* seal.                                                                   *)
(***************************************************************************)

\* A seal under way belongs to one of its two callers.
LEMMA SealerWaits ==
  ASSUME SessionInv, sealing.step # None
  PROVE  /\ sealing.by \in {"control", "serve"}
         /\ sealing.by = "control" => control.pc = "seal"
         /\ sealing.by = "serve" => serve.pc = "seal"
         /\ report = None /\ ~world.accepting
BY DEF SessionInv, SessionTypeOK, SealOK, Seals

\* What a caller of seal makes of its return is right: the report is the one
\* that is published, and an error ends the control loop or fails Serve.
LEMMA ReturnIsRight ==
  ASSUME SessionInv, NEW by \in {"control", "serve"}, NEW r \in Reports \cup {None},
         Return(by, r), UNCHANGED host,
         by = "control" => control.pc = "seal", by = "serve" => serve.pc = "seal",
         report' \in Reports \cup {None}, report' = report \/ report = None,
         r \in {None, report'}
  PROVE  /\ control' \in Controls /\ serve' \in Serves /\ cancelled' \in BOOLEAN
         /\ ControlOK' /\ ServeOK'
<1>1. /\ control \in Controls /\ serve \in Serves /\ cancelled \in BOOLEAN
      /\ ControlOK /\ ServeOK
  BY DEF SessionInv, SessionTypeOK
<1>2. Told => Told'
  BY DEF Told
<1>3. host.told' \subseteq {report'} \ {None}
  BY <1>1 DEF ControlOK
<1>4. CASE by = "control"
  <2>1. UNCHANGED <<serve, cancelled>> /\ control.pc = "seal"
    BY <1>4 DEF Return
  <2>2. ServeOK'
    BY <1>1, <1>2, <2>1 DEF ServeOK
  <2>3. CASE r = None
    <3>1. control' = LoopEnded(TRUE)
      BY <1>4, <2>3 DEF Return
    <3>2. /\ control' \in Controls /\ control'.pc = "ended" /\ control'.failed = TRUE
          /\ control'.ready = control.ready /\ control'.done = control.done
          /\ control'.reply.report = None
      BY <1>1, <3>1, LoopEndedShape
    <3>3. ControlOK'
      BY <1>1, <1>3, <2>1, <3>2 DEF ControlOK
    <3> QED
      BY <1>1, <2>1, <2>2, <3>2, <3>3
  <2>4. CASE r # None
    <3>1. control' = [control EXCEPT !.pc = "reply", !.done = TRUE,
                                     !.reply = [status |-> "sealed", report |-> r]]
      BY <1>4, <2>4 DEF Return
    <3>2. /\ control' \in Controls /\ control'.pc = "reply" /\ control'.ready = control.ready
          /\ control'.reply.report = r
      BY <1>1, <3>1 DEF Controls
    <3>3. r = report' /\ report' # None
      BY <2>4
    <3>4. ControlOK'
      BY <1>1, <1>3, <2>1, <3>2, <3>3 DEF ControlOK
    <3> QED
      BY <1>1, <2>1, <2>2, <3>2, <3>4
  <2> QED
    BY <2>3, <2>4
<1>5. CASE by = "serve"
  <2>1. /\ serve' = [serve EXCEPT !.pc = "join", !.failed = @ \/ r = None]
        /\ cancelled' = TRUE /\ UNCHANGED control /\ serve.pc = "seal" /\ serve.failed
    BY <1>1, <1>5 DEF Return, ServeOK
  <2>2. serve' \in Serves /\ serve'.failed = TRUE /\ serve'.pc = "join"
    BY <1>1, <2>1 DEF Serves
  <2>3. ServeOK'
    BY <2>2 DEF ServeOK
  <2>4. ControlOK'
    BY <1>1, <1>2, <1>3, <2>1, NoneDiffers DEF ControlOK
  <2> QED
    BY <1>1, <2>1, <2>2, <2>3, <2>4
<1> QED
  BY <1>4, <1>5

\* A step in which seal returns keeps the invariant when what it leaves of the
\* world and on disk is right.
LEMMA ReturnStep ==
  ASSUME SessionInv, NEW by \in {"control", "serve"}, NEW r \in Reports \cup {None},
         Return(by, r), UNCHANGED <<call, wire, host, reader>>,
         by = "control" => control.pc = "seal", by = "serve" => serve.pc = "seal",
         report' \in Reports \cup {None}, report' = report \/ report = None,
         r \in {None, report'},
         world' \in Worlds, disk' \in [Names -> Contents], WorldOK', DiskOK', ReaderOK'
  PROVE  SessionInv'
<1>1. /\ control' \in Controls /\ serve' \in Serves /\ cancelled' \in BOOLEAN
      /\ ControlOK' /\ ServeOK'
  BY ReturnIsRight
<1>2. sealing' = NoSeal
  BY DEF Return
<1>3. SealOK'
  BY <1>2, FreeSealOK
<1>4. SessionTypeOK'
  BY <1>1, <1>2, NoSealShape DEF SessionInv, SessionTypeOK
<1> QED
  BY <1>1, <1>3, <1>4 DEF SessionInv

\* A step within seal keeps the invariant when what it leaves of the seal, of the
\* world and on disk is right.
LEMMA SealGoesOn ==
  ASSUME SessionInv, UNCHANGED callers, UNCHANGED <<report, call, wire, host, reader>>,
         sealing' \in Seals, world' \in Worlds, disk' \in [Names -> Contents],
         WorldOK', SealOK', DiskOK', ReaderOK'
  PROVE  SessionInv'
<1>1. UNCHANGED <<control, serve, cancelled>>
  BY DEF callers
<1>2. ControlOK' /\ ServeOK'
  BY <1>1 DEF SessionInv, ControlOK, ServeOK, Told
<1>3. SessionTypeOK'
  BY <1>1 DEF SessionInv, SessionTypeOK
<1> QED
  BY <1>2, <1>3 DEF SessionInv

\* Under sealMu the report that is there is returned; otherwise the barrier of
\* Finish goes up.
LEMMA AcquireStep ==
  ASSUME SessionInv, NEW w \in Sealers, Acquire(w)
  PROVE  SessionInv'
<1>1. /\ w.by \in {"control", "serve"} /\ w.outcome \in {"completed", "cancelled"}
      /\ w.by = "control" => control.pc = "seal" /\ w.outcome = control.cur.outcome
      /\ w.by = "serve" => serve.pc = "seal" /\ w.outcome = "cancelled"
  BY DEF Sealers
<1>2. UNCHANGED <<report, call, wire, disk, host, reader>>
  BY DEF Acquire
<1>3. /\ report \in Reports \cup {None} /\ world \in Worlds /\ disk \in [Names -> Contents]
      /\ WorldOK /\ ControlOK /\ DiskOK /\ ReaderOK
  BY DEF SessionInv, SessionTypeOK
<1>4. CASE report # None
  <2>1. Return(w.by, report) /\ UNCHANGED world
    BY <1>4 DEF Acquire
  <2>2. WorldOK' /\ DiskOK' /\ ReaderOK'
    BY <1>2, <1>3, <2>1 DEF WorldOK, Unlocked, DiskOK, ReaderOK
  <2> QED
    BY <1>1, <1>2, <1>3, <2>1, <2>2, ReturnStep
<1>5. CASE report = None
  <2>1. /\ sealing' = [NoSeal EXCEPT !.by = w.by, !.step = "finish", !.outcome = w.outcome]
        /\ world' = [world EXCEPT !.accepting = FALSE]
        /\ UNCHANGED callers
    BY <1>5 DEF Acquire
  <2>2. /\ sealing' \in Seals /\ sealing'.by = w.by /\ sealing'.step = "finish"
        /\ sealing'.outcome = w.outcome
    BY <1>1, <2>1 DEF NoSeal, Seals
  <2>3. /\ world' \in Worlds /\ ~world'.accepting /\ world'.finished = world.finished
        /\ world'.terminal = world.terminal
    BY <1>3, <2>1 DEF Worlds
  <2>4. WorldOK' /\ DiskOK' /\ ReaderOK'
    BY <1>2, <1>3, <2>3 DEF WorldOK, Unlocked, DiskOK, ReaderOK
  <2>5. SealOK'
    <3>1. UNCHANGED <<control, serve>>
      BY <2>1 DEF callers
    <3>2. w.outcome = "completed" => host.asked
      BY <1>1, <1>3 DEF ControlOK
    <3> QED
      BY <1>1, <1>2, <1>5, <2>2, <2>3, <3>1, <3>2, NoneDiffers DEF SealOK
  <2> QED
    BY <1>2, <1>3, <2>1, <2>2, <2>3, <2>4, <2>5, SealGoesOn
<1> QED
  BY <1>4, <1>5

\* What Finish makes of a terminal keeps its events, and completes it only for a
\* completed outcome.
LEMMA FinishedShape ==
  ASSUME NEW t \in Terminals, NEW outcome,
         NEW result \in {"passed", "failed", "evidence", "cleanup", "unsafe"},
         cancelled \in BOOLEAN, world \in Worlds
  PROVE  /\ FinishedTerminal(t, outcome, result) \in Terminals
         /\ FinishedTerminal(t, outcome, result).events = t.events
         /\ FinishedTerminal(t, outcome, result).execution = "completed" => outcome = "completed"
<1> DEFINE orderly == outcome = "completed" /\ ~cancelled /\ ~world.expired /\ ~t.failed
           execution == IF result = "evidence" THEN "failed"
                        ELSE IF orderly THEN "completed" ELSE "interrupted"
           failed == ~orderly \/ result \in {"evidence", "cleanup"}
           cleaned == result # "cleanup"
           graded == orderly /\ result = "passed"
<1>1. FinishedTerminal(t, outcome, result) =
        [t EXCEPT !.execution = execution, !.failed = failed, !.cleaned = cleaned,
                  !.graded = graded]
  BY DEF FinishedTerminal
<1>2. /\ execution \in {"running", "completed", "failed", "interrupted"}
      /\ failed \in BOOLEAN /\ cleaned \in BOOLEAN /\ graded \in BOOLEAN
      /\ execution = "completed" => outcome = "completed"
  OBVIOUS
<1> HIDE DEF orderly, execution, failed, cleaned, graded
<1> QED
  BY <1>1, <1>2 DEF Terminals

\* The first Finish freezes the terminal, with nobody under the mutex; a later
\* one is handed the same.
LEMMA FinishStep ==
  ASSUME SessionInv, NEW result \in {"passed", "failed", "evidence", "cleanup", "unsafe"},
         NEW inTime \in BOOLEAN, Finish(result, inTime)
  PROVE  SessionInv'
<1> DEFINE t == IF world.finished THEN world.terminal
                ELSE FinishedTerminal(world.terminal, sealing.outcome, result)
           unsafe == ~world.finished /\ result = "unsafe"
           r == ReportFor(t, inTime /\ Verifiable(t))
<1>1. /\ sealing.step = "finish" /\ Unlocked
      /\ world' = [world EXCEPT !.finished = TRUE, !.unsafe = @ \/ unsafe, !.terminal = t]
      /\ UNCHANGED <<report, call, wire, disk, host, reader>>
      /\ unsafe => Return(sealing.by, None)
      /\ ~unsafe => /\ sealing' = [sealing EXCEPT !.step = "create", !.file = "terminal",
                                                  !.report = r]
                    /\ UNCHANGED callers
  BY DEF Finish
<1>2. /\ world \in Worlds /\ sealing \in Seals /\ cancelled \in BOOLEAN
      /\ report \in Reports \cup {None} /\ disk \in [Names -> Contents]
      /\ WorldOK /\ SealOK /\ DiskOK /\ ReaderOK
  BY DEF SessionInv, SessionTypeOK
<1>3. sealing.step # None
  BY <1>1, NoneDiffers
<1>4. /\ sealing.by \in {"control", "serve"} /\ report = None /\ ~world.accepting
      /\ sealing.by = "control" => control.pc = "seal"
      /\ sealing.by = "serve" => serve.pc = "seal"
  BY <1>3, SealerWaits
<1>5. world.terminal \in Terminals /\ world.finished \in BOOLEAN /\ world.unsafe \in BOOLEAN
  BY <1>2 DEF Worlds
<1>6. /\ t \in Terminals /\ t.events = world.terminal.events
      /\ t.execution = "completed" => host.asked
      /\ world.finished => t = world.terminal
  <2>1. CASE world.finished
    BY <1>2, <1>5, <2>1 DEF WorldOK
  <2>2. CASE ~world.finished
    BY <1>2, <1>5, <2>2, FinishedShape DEF SealOK
  <2> QED
    BY <2>1, <2>2
<1>7. unsafe \in BOOLEAN
  OBVIOUS
<1>8. r \in Reports /\ r.of = t
  BY <1>6, VerifiableIsBoolean, ReportShape
<1> HIDE DEF t, unsafe, r
<1>9. /\ world' \in Worlds /\ world'.finished = TRUE /\ world'.terminal = t
      /\ world'.accepting = world.accepting
  BY <1>1, <1>2, <1>5, <1>6, <1>7 DEF Worlds
<1>10. WorldOK'
  BY <1>1, <1>2, <1>4, <1>6, <1>9 DEF WorldOK, Unlocked
<1>11. DiskOK' /\ ReaderOK'
  <2>1. DiskOK'
    BY <1>1, <1>2, <1>4, <1>6, <1>9 DEF DiskOK
  <2>2. ReaderOK'
    BY <1>1, <1>2, <1>6, <1>9 DEF ReaderOK
  <2> QED
    BY <2>1, <2>2
<1>12. CASE unsafe
  <2>1. Return(sealing.by, None)
    BY <1>1, <1>12
  <2> QED
    BY <1>1, <1>2, <1>4, <1>9, <1>10, <1>11, <2>1, ReturnStep
<1>13. CASE ~unsafe
  <2>1. /\ sealing' = [sealing EXCEPT !.step = "create", !.file = "terminal", !.report = r]
        /\ UNCHANGED callers
    BY <1>1, <1>13
  <2>2. /\ sealing' \in Seals /\ sealing'.step = "create" /\ sealing'.file = "terminal"
        /\ sealing'.report = r /\ sealing'.by = sealing.by
        /\ sealing'.outcome = sealing.outcome
    BY <1>2, <1>8, <2>1 DEF Seals, Files
  <2>3. UNCHANGED <<control, serve>>
    BY <2>1 DEF callers
  <2>4. SealOK'
    BY <1>1, <1>2, <1>4, <1>8, <1>9, <2>2, <2>3, NoneDiffers DEF SealOK, Files
  <2> QED
    BY <1>1, <1>2, <1>9, <1>10, <1>11, <2>1, <2>2, <2>4, SealGoesOn
<1> QED
  BY <1>12, <1>13

\* What a seal past Finish knows: the world is frozen, no report is published, and
\* the report it is about to write is one of the frozen terminal.
LEMMA Publishing ==
  ASSUME SessionInv, sealing.step \in {"create", "link", "remove"}
  PROVE  /\ sealing.by \in {"control", "serve"} /\ report = None /\ ~world.accepting
         /\ sealing.by = "control" => control.pc = "seal"
         /\ sealing.by = "serve" => serve.pc = "seal"
         /\ world \in Worlds /\ sealing \in Seals /\ disk \in [Names -> Contents]
         /\ world.finished /\ world.terminal \in Terminals
         /\ sealing.file \in Files /\ sealing.report \in Reports
         /\ sealing.report.of = world.terminal
         /\ sealing.file = "report" => /\ disk["terminal"] = world.terminal
                                       /\ disk["terminal.pending"] = Absent
         /\ Sealed \in Contents /\ Sealed # Absent
         /\ WorldOK /\ SealOK /\ DiskOK /\ ReaderOK
<1>1. sealing.step # None
  BY NoneDiffers
<1>2. /\ world \in Worlds /\ sealing \in Seals /\ disk \in [Names -> Contents]
      /\ WorldOK /\ SealOK /\ DiskOK /\ ReaderOK
  BY DEF SessionInv, SessionTypeOK
<1>3. /\ world.finished /\ sealing.file \in Files /\ sealing.report \in Reports
      /\ sealing.report.of = world.terminal
      /\ sealing.file = "report" => /\ disk["terminal"] = world.terminal
                                    /\ disk["terminal.pending"] = Absent
  BY <1>2 DEF SealOK
<1>4. world.terminal \in Terminals
  BY <1>2 DEF Worlds
<1>5. Sealed \in Terminals \cup Reports
  BY <1>3, <1>4 DEF Sealed
<1>6. Sealed \in Contents /\ Sealed # Absent
  BY <1>5, ContentsDiffer DEF Contents
<1> QED
  BY <1>1, <1>2, <1>3, <1>4, <1>6, SealerWaits

\* The names of the output directory.
LEMMA FileNames ==
  /\ PendingOf("terminal") = "terminal.pending" /\ PendingOf("report") = "report.pending"
  /\ \A f \in Files : f \in {"terminal", "report"} /\ f \in Names /\ PendingOf(f) \in Names
BY DEF PendingOf, Files, Names

\* A pending file is created only where there is none, and what is created in
\* good order is what Finish froze or the report of it.
LEMMA CreateStep ==
  ASSUME SessionInv, NEW left \in {Absent, Partial}, NEW ok \in BOOLEAN, Create(left, ok)
  PROVE  SessionInv'
<1> DEFINE pending == PendingOf(sealing.file)
           refused == \/ disk[pending] # Absent
                      \/ sealing.file = "terminal" /\ world.unsafe
<1>1. /\ sealing.step = "create" /\ UNCHANGED <<report, world, call, wire, host, reader>>
      /\ \/ /\ disk[pending] = Absent
            /\ disk' = [disk EXCEPT ![pending] = Sealed]
            /\ sealing' = [sealing EXCEPT !.step = "link"] /\ UNCHANGED callers
         \/ /\ \/ disk' = disk
               \/ disk[pending] = Absent /\ disk' = [disk EXCEPT ![pending] = left]
            /\ Return(sealing.by, None)
  <2>1. sealing.step = "create" /\ UNCHANGED <<report, world, call, wire, host, reader>>
    BY DEF Create
  <2>2. CASE ok /\ ~refused
    BY <2>2 DEF Create, Sealed
  <2>3. CASE ~(ok /\ ~refused)
    BY <2>3 DEF Create
  <2> QED
    BY <2>1, <2>2, <2>3
<1>2. /\ sealing.by \in {"control", "serve"} /\ report = None /\ ~world.accepting
      /\ sealing.by = "control" => control.pc = "seal"
      /\ sealing.by = "serve" => serve.pc = "seal"
      /\ world \in Worlds /\ sealing \in Seals /\ disk \in [Names -> Contents]
      /\ world.finished /\ world.terminal \in Terminals
      /\ sealing.file \in Files /\ sealing.report \in Reports
      /\ sealing.report.of = world.terminal
      /\ sealing.file = "report" => /\ disk["terminal"] = world.terminal
                                    /\ disk["terminal.pending"] = Absent
      /\ Sealed \in Contents /\ Sealed # Absent
      /\ WorldOK /\ SealOK /\ DiskOK /\ ReaderOK
  BY <1>1, Publishing
<1>3. WorldOK'
  BY <1>1, <1>2 DEF WorldOK, Unlocked
<1>4. pending \in Names /\ pending \in {"terminal.pending", "report.pending"}
      /\ (sealing.file = "report" => pending = "report.pending")
  BY <1>2, FileNames DEF Files
<1>5. ASSUME NEW new \in Contents, disk[pending] = Absent,
             disk' = [disk EXCEPT ![pending] = new]
      PROVE  /\ disk' \in [Names -> Contents] /\ disk'[pending] = new
             /\ \A n \in Names \ {pending} : disk'[n] = disk[n]
             /\ DiskOK' /\ ReaderOK'
  <2> HIDE DEF pending
  <2>1. /\ disk' \in [Names -> Contents] /\ disk'[pending] = new
        /\ \A n \in Names \ {pending} : disk'[n] = disk[n]
    BY <1>2, <1>4, <1>5
  <2>2. /\ disk'["terminal"] = disk["terminal"] /\ disk'["report"] = disk["report"]
        /\ disk'["claim"] = disk["claim"] /\ disk'["output"] = disk["output"]
        /\ disk["report.pending"] # Absent => disk'["report.pending"] = disk["report.pending"]
    BY <1>4, <1>5, <2>1 DEF Names
  <2>3. DiskOK'
    BY <1>1, <1>2, <2>2 DEF DiskOK
  <2>4. ReaderOK'
    BY <1>1, <1>2, <2>2 DEF ReaderOK
  <2> QED
    BY <2>1, <2>3, <2>4
<1>6. CASE /\ disk[pending] = Absent /\ disk' = [disk EXCEPT ![pending] = Sealed]
           /\ sealing' = [sealing EXCEPT !.step = "link"] /\ UNCHANGED callers
  <2>1. /\ disk' \in [Names -> Contents] /\ disk'[pending] = Sealed
        /\ \A n \in Names \ {pending} : disk'[n] = disk[n]
        /\ DiskOK' /\ ReaderOK'
    BY <1>2, <1>5, <1>6
  <2>2. /\ sealing' \in Seals /\ sealing'.step = "link" /\ sealing'.file = sealing.file
        /\ sealing'.report = sealing.report /\ sealing'.by = sealing.by
        /\ sealing'.outcome = sealing.outcome
    BY <1>2, <1>6 DEF Seals
  <2>3. UNCHANGED <<control, serve>>
    BY <1>6 DEF callers
  <2>4. disk'[PendingOf(sealing'.file)] = Sealed'
    <3>1. Sealed' = Sealed
      BY <1>1, <2>2 DEF Sealed
    <3> QED
      BY <2>1, <2>2, <3>1
  <2>5. sealing.file = "report" => /\ disk'["terminal"] = world.terminal
                                   /\ disk'["terminal.pending"] = Absent
    BY <1>2, <1>4, <2>1 DEF Names
  <2>6. SealOK'
    <3> HIDE DEF pending, refused
    <3> QED
      BY <1>1, <1>2, <2>2, <2>3, <2>4, <2>5, NoneDiffers DEF SealOK
  <2> QED
    BY <1>1, <1>2, <1>3, <1>6, <2>1, <2>2, <2>6, SealGoesOn
<1>7. CASE /\ \/ disk' = disk
              \/ disk[pending] = Absent /\ disk' = [disk EXCEPT ![pending] = left]
           /\ Return(sealing.by, None)
  <2>1. left \in Contents
    BY DEF Contents
  <2>2. disk' \in [Names -> Contents] /\ DiskOK' /\ ReaderOK'
    <3>1. CASE disk' = disk
      BY <1>1, <1>2, <3>1 DEF DiskOK, ReaderOK, Residue
    <3>2. CASE disk[pending] = Absent /\ disk' = [disk EXCEPT ![pending] = left]
      BY <1>5, <2>1, <3>2
    <3> QED
      BY <1>7, <3>1, <3>2
  <2> QED
    BY <1>1, <1>2, <1>3, <1>7, <2>2, ReturnStep
<1> QED
  BY <1>1, <1>6, <1>7

\* A link gives the pending file its name where that is free.
LEMMA LinkStep ==
  ASSUME SessionInv, NEW ok \in BOOLEAN, Link(ok)
  PROVE  SessionInv'
<1>1. sealing.step = "link" /\ UNCHANGED <<report, world, call, wire, host, reader>>
  BY DEF Link
<1>2. /\ sealing.by \in {"control", "serve"} /\ report = None /\ ~world.accepting
      /\ sealing.by = "control" => control.pc = "seal"
      /\ sealing.by = "serve" => serve.pc = "seal"
      /\ world \in Worlds /\ sealing \in Seals /\ disk \in [Names -> Contents]
      /\ world.finished /\ world.terminal \in Terminals
      /\ sealing.file \in Files /\ sealing.report \in Reports
      /\ sealing.report.of = world.terminal
      /\ sealing.file = "report" => /\ disk["terminal"] = world.terminal
                                    /\ disk["terminal.pending"] = Absent
      /\ Sealed \in Contents /\ Sealed # Absent
      /\ WorldOK /\ SealOK /\ DiskOK /\ ReaderOK
  BY <1>1, Publishing
<1>3. WorldOK'
  BY <1>1, <1>2 DEF WorldOK, Unlocked
<1>4. disk[PendingOf(sealing.file)] = Sealed
  BY <1>1, <1>2 DEF SealOK
<1>5. CASE ok /\ disk[sealing.file] = Absent
  <2>1. /\ disk' = [disk EXCEPT ![sealing.file] = Sealed]
        /\ sealing' = [sealing EXCEPT !.step = "remove"] /\ UNCHANGED callers
    BY <1>4, <1>5 DEF Link
  <2>2. /\ disk' \in [Names -> Contents] /\ disk'[sealing.file] = Sealed
        /\ \A n \in Names \ {sealing.file} : disk'[n] = disk[n]
    BY <1>2, <2>1, FileNames
  <2>3. /\ sealing' \in Seals /\ sealing'.step = "remove" /\ sealing'.file = sealing.file
        /\ sealing'.report = sealing.report /\ sealing'.by = sealing.by
        /\ sealing'.outcome = sealing.outcome
    BY <1>2, <2>1 DEF Seals
  <2>4. /\ disk'["terminal.pending"] = disk["terminal.pending"]
        /\ disk'["report.pending"] = disk["report.pending"]
        /\ disk'["claim"] = disk["claim"] /\ disk'["output"] = disk["output"]
    BY <1>2, <2>2 DEF Names, Files
  <2>5. ASSUME sealing.file = "terminal" PROVE DiskOK' /\ ReaderOK'
    <3>1. disk'["report"] = disk["report"] /\ disk'["terminal"] = world.terminal
      BY <2>2, <2>5 DEF Names, Sealed
    <3>2. DiskOK'
      BY <1>1, <1>2, <2>4, <3>1 DEF DiskOK
    <3>3. ReaderOK'
      BY <1>1, <1>2, <3>1 DEF ReaderOK
    <3> QED
      BY <3>2, <3>3
  <2>6. SealOK'
    <3>1. UNCHANGED <<control, serve>>
      BY <2>1 DEF callers
    <3>2. Sealed' = Sealed
      BY <1>1, <2>3 DEF Sealed
    <3>3. sealing.file = "report" => /\ disk'["terminal"] = world.terminal
                                     /\ disk'["terminal.pending"] = Absent
      BY <1>2, <2>2, <2>4 DEF Names
    <3>4. disk'[sealing'.file] = Sealed'
      BY <2>2, <2>3, <3>2
    <3> QED
      BY <1>1, <1>2, <2>3, <3>1, <3>3, <3>4, NoneDiffers DEF SealOK
  <2>7. ASSUME sealing.file = "report" PROVE DiskOK' /\ ReaderOK'
    <3>1. disk'["terminal"] = disk["terminal"] /\ disk["report"] = Absent
      BY <1>5, <2>2, <2>7 DEF Names
    <3>2. disk'["report.pending"] # Absent
      BY <1>2, <1>4, <2>4, <2>7, FileNames
    <3>3. DiskOK'
      BY <1>1, <1>2, <2>4, <3>1, <3>2 DEF DiskOK
    <3>4. ReaderOK'
      <4>1. reader.verdict \notin Accepted
        BY <1>2, <3>1, ReportShape, ContentsDiffer DEF ReaderOK
      <4> QED
        BY <1>1, <1>2, <4>1 DEF ReaderOK
    <3> QED
      BY <3>3, <3>4
  <2> QED
    <3>1. DiskOK' /\ ReaderOK'
      BY <1>2, <2>5, <2>7 DEF Files
    <3> QED
      BY <1>1, <1>2, <1>3, <2>1, <2>2, <2>3, <2>6, <3>1, SealGoesOn
<1>6. CASE ~(ok /\ disk[sealing.file] = Absent)
  <2>1. Return(sealing.by, None) /\ UNCHANGED disk
    BY <1>6 DEF Link
  <2>2. DiskOK' /\ ReaderOK'
    BY <1>1, <1>2, <2>1 DEF DiskOK, ReaderOK, Residue
  <2> QED
    BY <1>1, <1>2, <1>3, <2>1, <2>2, ReturnStep
<1> QED
  BY <1>5, <1>6

\* The pending name goes; after the terminal comes the report, and after the
\* report the session is sealed with both on disk and nothing left over.
LEMMA RemoveStep ==
  ASSUME SessionInv, NEW ok \in BOOLEAN, Remove(ok)
  PROVE  SessionInv'
<1> DEFINE pending == PendingOf(sealing.file)
<1>1. /\ sealing.step = "remove" /\ UNCHANGED <<world, call, wire, host, reader>>
      /\ ~ok => disk' = disk /\ Return(sealing.by, None) /\ UNCHANGED report
      /\ ok => disk' = [disk EXCEPT ![pending] = Absent]
  BY DEF Remove
<1>2. /\ sealing.by \in {"control", "serve"} /\ report = None /\ ~world.accepting
      /\ sealing.by = "control" => control.pc = "seal"
      /\ sealing.by = "serve" => serve.pc = "seal"
      /\ world \in Worlds /\ sealing \in Seals /\ disk \in [Names -> Contents]
      /\ world.finished /\ world.terminal \in Terminals
      /\ sealing.file \in Files /\ sealing.report \in Reports
      /\ sealing.report.of = world.terminal
      /\ sealing.file = "report" => /\ disk["terminal"] = world.terminal
                                    /\ disk["terminal.pending"] = Absent
      /\ Sealed \in Contents /\ Sealed # Absent
      /\ WorldOK /\ SealOK /\ DiskOK /\ ReaderOK
  BY <1>1, Publishing
<1>3. WorldOK'
  BY <1>1, <1>2 DEF WorldOK, Unlocked
<1>4. disk[sealing.file] = Sealed
  BY <1>1, <1>2 DEF SealOK
<1>5. CASE ~ok
  <2>1. disk' = disk /\ Return(sealing.by, None) /\ UNCHANGED report
    BY <1>1, <1>5
  <2>2. DiskOK' /\ ReaderOK'
    BY <1>1, <1>2, <2>1 DEF DiskOK, ReaderOK, Residue
  <2> QED
    BY <1>1, <1>2, <1>3, <2>1, <2>2, ReturnStep
<1>6. CASE ok
  <2>1. /\ disk' \in [Names -> Contents] /\ disk'[pending] = Absent
        /\ \A n \in Names \ {pending} : disk'[n] = disk[n]
    <3>1. pending \in Names /\ Absent \in Contents
      BY <1>2, FileNames DEF Contents
    <3> HIDE DEF pending
    <3> QED
      BY <1>1, <1>2, <1>6, <3>1
  <2>2. /\ disk'["terminal"] = disk["terminal"] /\ disk'["report"] = disk["report"]
        /\ disk'["claim"] = disk["claim"] /\ disk'["output"] = disk["output"]
    BY <1>2, <2>1, FileNames DEF Files, Names
  <2>3. ReaderOK'
    BY <1>1, <1>2, <2>2 DEF ReaderOK
  <2>4. CASE sealing.file = "terminal"
    <3>1. /\ sealing' = [sealing EXCEPT !.step = "create", !.file = "report"]
          /\ UNCHANGED <<report, callers>>
      BY <1>6, <2>4 DEF Remove
    <3>2. /\ sealing' \in Seals /\ sealing'.step = "create" /\ sealing'.file = "report"
          /\ sealing'.report = sealing.report /\ sealing'.by = sealing.by
          /\ sealing'.outcome = sealing.outcome
      BY <1>2, <3>1 DEF Seals, Files
    <3>3. /\ disk'["terminal"] = world.terminal /\ disk'["terminal.pending"] = Absent
          /\ disk'["report.pending"] = disk["report.pending"]
      BY <1>4, <2>1, <2>2, <2>4, FileNames DEF Sealed, Names
    <3>4. DiskOK'
      BY <1>1, <1>2, <2>2, <3>1, <3>3 DEF DiskOK
    <3>5. SealOK'
      <4>1. UNCHANGED <<control, serve>>
        BY <3>1 DEF callers
      <4> HIDE DEF pending
      <4> QED
        BY <1>1, <1>2, <3>1, <3>2, <3>3, <4>1, NoneDiffers DEF SealOK, Files
    <3> QED
      BY <1>1, <1>2, <1>3, <2>1, <2>3, <3>1, <3>2, <3>4, <3>5, SealGoesOn
  <2>5. CASE sealing.file = "report"
    <3>1. report' = sealing.report /\ Return(sealing.by, sealing.report)
      BY <1>6, <2>5 DEF Remove
    <3>2. disk["report"] = sealing.report /\ disk["terminal"] = sealing.report.of
      BY <1>2, <1>4, <2>5 DEF Sealed
    <3>3. disk'["terminal.pending"] = Absent /\ disk'["report.pending"] = Absent
      BY <1>2, <2>1, <2>5, FileNames DEF Names
    <3>4. ~Residue(disk)'
      BY <3>3, FileNames DEF Residue, Files
    <3>5. DiskOK'
      BY <1>1, <1>2, <2>2, <3>1, <3>2, <3>3, <3>4, NoneDiffers DEF DiskOK
    <3> QED
      BY <1>1, <1>2, <1>3, <2>1, <2>3, <3>1, <3>5, ReturnStep
  <2> QED
    BY <1>2, <2>4, <2>5 DEF Files
<1> QED
  BY <1>5, <1>6

-----------------------------------------------------------------------------
(***************************************************************************)
(* The control loop.                                                       *)
(***************************************************************************)

\* A step of the control loop keeps the invariant when what it makes of the loop
\* is right, it does not take back a request for completion, and no seal of the
\* loop is under way.
LEMMA LoopStep ==
  ASSUME SessionInv, UNCHANGED others, control' \in Controls,
         host' \in [asked : BOOLEAN, told : SUBSET Reports],
         host.asked => host'.asked, control.pc # "seal",
         Told => Told', ControlOK'
  PROVE  SessionInv'
<1>1. UNCHANGED <<serve, sealing, report, world, call, wire, cancelled, disk, reader>>
  BY DEF others
<1>2. SessionTypeOK'
  BY <1>1 DEF SessionInv, SessionTypeOK
<1>3. WorldOK' /\ ServeOK'
  BY <1>1 DEF SessionInv, WorldOK, ServeOK, Unlocked
<1>4. SealOK'
  BY <1>1 DEF SessionInv, SealOK, Sealed
<1>5. DiskOK' /\ ReaderOK'
  BY <1>1 DEF SessionInv, DiskOK, ReaderOK
<1> QED
  BY <1>2, <1>3, <1>4, <1>5 DEF SessionInv

\* The loop ends, and well only when the host has been told.
LEMMA LoopEnds ==
  ASSUME SessionInv, NEW failed \in BOOLEAN, EndControl(failed), ~failed => Told,
         control.pc # "seal"
  PROVE  SessionInv'
<1>1. control' = LoopEnded(failed) /\ UNCHANGED host /\ UNCHANGED others
  BY DEF EndControl
<1>2. control \in Controls /\ ControlOK /\ host \in [asked : BOOLEAN, told : SUBSET Reports]
  BY DEF SessionInv, SessionTypeOK
<1>3. /\ control' \in Controls /\ control'.pc = "ended" /\ control'.failed = failed
      /\ control'.ready = control.ready /\ control'.done = control.done
      /\ control'.reply.report = None
  BY <1>1, <1>2, LoopEndedShape
<1>4. report' = report
  BY <1>1 DEF others
<1>5. Told' <=> Told
  BY <1>1, <1>4 DEF Told
<1>6. ControlOK'
  BY <1>1, <1>2, <1>3, <1>4, <1>5 DEF ControlOK
<1> QED
  BY <1>1, <1>2, <1>3, <1>5, <1>6, LoopStep

\* Startup, hang-up and failed reads end the loop or make it ready; a hang-up is
\* good only after the seal, whose report the host has then been sent.
LEMMA LoopActions ==
  ASSUME SessionInv,
         (\E sent \in BOOLEAN : ControlReady(sent)) \/ ControlNotReady \/ HangUp \/ ReadFails
  PROVE  SessionInv'
<1>1. /\ control \in Controls /\ ControlOK
      /\ host \in [asked : BOOLEAN, told : SUBSET Reports]
  BY DEF SessionInv, SessionTypeOK
<1>2. control.done \in BOOLEAN
  BY <1>1 DEF Controls
<1>3. CASE \E sent \in BOOLEAN : ControlReady(sent)
  <2>1. PICK sent \in BOOLEAN : ControlReady(sent)
    BY <1>3
  <2>2. /\ control.pc = "startup" /\ UNCHANGED host /\ UNCHANGED others
        /\ control' = [control EXCEPT !.ready = TRUE, !.pc = IF sent THEN "read" ELSE "ended",
                                      !.failed = ~sent]
    BY <2>1 DEF ControlReady
  <2>3. /\ control' \in Controls /\ control'.ready = TRUE /\ control'.done = control.done
        /\ control'.reply = control.reply
        /\ control'.pc = IF sent THEN "read" ELSE "ended"
        /\ control'.failed = ~sent
    BY <1>1, <2>2 DEF Controls
  <2>4. report' = report
    BY <2>2 DEF others
  <2>5. Told' <=> Told
    BY <2>2, <2>4 DEF Told
  <2>6. ~control.done
    BY <1>1, <2>2 DEF ControlOK
  <2>7. ControlOK'
    <3>1. /\ control'.reply.report \in {None, report'}
          /\ host'.told \subseteq {report'} \ {None}
      BY <1>1, <2>2, <2>3, <2>4 DEF ControlOK
    <3>2. CASE sent
      <4>1. control'.pc = "read" /\ ~control'.done /\ control'.ready
        BY <2>3, <2>6, <3>2
      <4> QED
        BY <3>1, <4>1 DEF ControlOK
    <3>3. CASE ~sent
      <4>1. control'.pc = "ended" /\ control'.failed /\ ~control'.done /\ control'.ready
        BY <2>3, <2>6, <3>3
      <4> QED
        BY <3>1, <4>1 DEF ControlOK
    <3> QED
      BY <3>2, <3>3
  <2> QED
    BY <1>1, <2>2, <2>3, <2>5, <2>7, LoopStep
<1>4. CASE ControlNotReady
  BY <1>4, LoopEnds DEF ControlNotReady
<1>5. CASE HangUp
  <2>1. control.pc = "read" /\ EndControl(~control.done)
    BY <1>5 DEF HangUp, Reading
  <2>2. control.done => Told
    BY <1>1, <2>1 DEF ControlOK
  <2> QED
    BY <1>2, <2>1, <2>2, LoopEnds
<1>6. CASE ReadFails
  BY <1>6, LoopEnds DEF ReadFails
<1> QED
  BY <1>3, <1>4, <1>5, <1>6

\* A request is answered, refused, or goes to seal; completion is asked for
\* before the seal begins.
LEMMA ReceiveStep ==
  ASSUME SessionInv, NEW q \in Requests, Receive(q)
  PROVE  SessionInv'
<1> DEFINE next == [control EXCEPT !.cur = q, !.count = @ + 1]
<1>1. /\ control \in Controls /\ ControlOK
      /\ host \in [asked : BOOLEAN, told : SUBSET Reports]
  BY DEF SessionInv, SessionTypeOK
<1>2. control.pc = "read"
  BY DEF Receive, Reading
<1>3. CASE q # control.prev /\ ~Admitted(q)
  <2>1. EndControl(TRUE)
    BY <1>3 DEF Receive
  <2> QED
    BY <1>2, <2>1, LoopEnds
<1>4. CASE ~(q # control.prev /\ ~Admitted(q))
  <2>1. /\ control' = IF q = control.prev THEN [next EXCEPT !.pc = "reply"]
                      ELSE IF q.op # "status" THEN [next EXCEPT !.pc = "seal"]
                      ELSE [next EXCEPT !.pc = "reply", !.reply = StatusReply]
        /\ host' = [host EXCEPT !.asked =
                      @ \/ (q # control.prev /\ q.op = "finish" /\ q.outcome = "completed")]
        /\ UNCHANGED others
    BY <1>4 DEF Receive
  <2>2. /\ next \in Controls /\ next.ready = control.ready /\ next.done = control.done
        /\ next.reply = control.reply /\ next.cur = q
    <3>1. control.count + 1 \in Nat /\ q \in Requests \cup {NoRequest}
      BY <1>1 DEF Controls
    <3> QED
      BY <1>1, <3>1 DEF Controls
  <2>3. StatusReply \in [status : {None, "running", "sealed"}, report : Reports \cup {None}]
        /\ StatusReply.report = None
    BY DEF StatusReply
  <2> HIDE DEF next
  <2>4. /\ control' \in Controls /\ control'.ready = control.ready
        /\ control'.done = control.done /\ control'.cur = q
        /\ control'.reply.report \in {None, control.reply.report}
        /\ control'.pc \in {"reply", "seal"}
    <3>1. CASE q = control.prev
      BY <2>1, <2>2, <3>1 DEF Controls
    <3>2. CASE q # control.prev /\ q.op # "status"
      BY <2>1, <2>2, <3>2 DEF Controls
    <3>3. CASE q # control.prev /\ ~(q.op # "status")
      <4>1. control' = [next EXCEPT !.pc = "reply", !.reply = StatusReply]
        BY <2>1, <3>3
      <4>2. control' \in Controls
        BY <2>2, <2>3, <4>1 DEF Controls
      <4>3. /\ control'.ready = next.ready /\ control'.done = next.done
            /\ control'.cur = next.cur /\ control'.pc = "reply"
            /\ control'.reply = StatusReply
        BY <2>2, <4>1 DEF Controls
      <4> QED
        BY <2>2, <2>3, <4>2, <4>3
    <3> QED
      BY <3>1, <3>2, <3>3
  <2>5. control'.pc = "seal" => q # control.prev /\ q.op # "status" /\ Admitted(q)
    <3>1. CASE q = control.prev
      <4>1. control' = [next EXCEPT !.pc = "reply"]
        BY <2>1, <3>1
      <4> QED
        BY <2>2, <4>1 DEF Controls
    <3>2. CASE q # control.prev /\ q.op # "status"
      BY <1>4, <3>2
    <3>3. CASE q # control.prev /\ ~(q.op # "status")
      <4>1. control' = [next EXCEPT !.pc = "reply", !.reply = StatusReply]
        BY <2>1, <3>3
      <4> QED
        BY <2>2, <4>1 DEF Controls
    <3> QED
      BY <3>1, <3>2, <3>3
  <2>6. /\ host' \in [asked : BOOLEAN, told : SUBSET Reports] /\ host'.told = host.told
        /\ host'.asked = (host.asked \/ (q # control.prev /\ q.op = "finish"
                                         /\ q.outcome = "completed"))
    BY <1>1, <2>1
  <2>7. report' = report
    BY <2>1 DEF others
  <2>8. Told' <=> Told
    BY <2>6, <2>7 DEF Told
  <2>9. control'.pc = "seal" => /\ ~control'.done
                                /\ control'.cur.outcome = "completed" => host'.asked
    <3>1. q # control.prev /\ q.op # "status" /\ Admitted(q) =>
             ~control.done /\ (q.outcome = "completed" => host'.asked)
      BY <2>6 DEF Admitted, Requests
    <3> QED
      BY <2>4, <2>5, <3>1
  <2>10. control.ready
    BY <1>1, <1>2 DEF ControlOK
  <2>11. control.done => Told
    BY <1>1, <1>2 DEF ControlOK
  <2>12. ControlOK'
    BY <1>1, <2>4, <2>6, <2>7, <2>8, <2>9, <2>10, <2>11 DEF ControlOK
  <2> QED
    BY <1>1, <1>2, <2>1, <2>4, <2>6, <2>8, <2>12, LoopStep
<1> QED
  BY <1>3, <1>4

\* The reply that is sent names the one report or none.
LEMMA ReplyStep ==
  ASSUME SessionInv, NEW sent \in BOOLEAN, Reply(sent)
  PROVE  SessionInv'
<1>1. /\ control \in Controls /\ ControlOK
      /\ host \in [asked : BOOLEAN, told : SUBSET Reports]
      /\ report \in Reports \cup {None}
  BY DEF SessionInv, SessionTypeOK
<1>2. control.pc = "reply"
  BY DEF Reply
<1>3. CASE ~sent
  <2>1. EndControl(TRUE)
    BY <1>3 DEF Reply
  <2> QED
    BY <1>2, <2>1, LoopEnds
<1>4. CASE sent
  <2>1. /\ control' = [control EXCEPT !.prev = control.cur, !.pc = "read"]
        /\ host' = [host EXCEPT !.told = @ \cup ({control.reply.report} \ {None})]
        /\ UNCHANGED others
    BY <1>4 DEF Reply
  <2>2. /\ control' \in Controls /\ control'.pc = "read" /\ control'.ready = control.ready
        /\ control'.done = control.done /\ control'.reply = control.reply
    BY <1>1, <2>1 DEF Controls
  <2>3. /\ control.reply.report \in {None, report} /\ host.told \subseteq {report} \ {None}
        /\ control.done => Told \/ control.reply.report = report
        /\ control.done => report # None
        /\ control.ready
    BY <1>1, <1>2 DEF ControlOK
  <2>4. /\ host'.asked = host.asked
        /\ host'.told = host.told \cup ({control.reply.report} \ {None})
        /\ host'.told \in SUBSET Reports /\ host' \in [asked : BOOLEAN, told : SUBSET Reports]
    BY <1>1, <2>1, <2>3
  <2>5. report' = report
    BY <2>1 DEF others
  <2>6. host'.told \subseteq {report} \ {None}
    BY <2>3, <2>4
  <2>7. Told => Told'
    BY <2>4, <2>5, <2>6 DEF Told
  <2>8. control.done => Told'
    <3>1. CASE control.done /\ control.reply.report = report
      BY <2>3, <2>4, <2>5, <2>6, <3>1 DEF Told
    <3> QED
      BY <2>3, <2>7, <3>1
  <2>9. ControlOK'
    BY <1>1, <2>2, <2>3, <2>4, <2>5, <2>6, <2>8 DEF ControlOK
  <2> QED
    BY <1>1, <1>2, <2>1, <2>2, <2>4, <2>7, <2>9, LoopStep
<1> QED
  BY <1>3, <1>4

-----------------------------------------------------------------------------
(***************************************************************************)
(* Inspect, and the session as a whole.                                    *)
(***************************************************************************)

\* An Inspect that accepts has read the frozen terminal and its verified report.
LEMMA InspectStep ==
  ASSUME SessionInv, InspectSteps
  PROVE  SessionInv'
<1>1. /\ reader \in [step : {"idle", "listed", "read", "judged"}, terminal : Contents,
                     verdict : {None, "invalid", "passed", "failed"}]
      /\ disk \in [Names -> Contents] /\ DiskOK /\ ReaderOK
  BY DEF SessionInv, SessionTypeOK
<1>2. UNCHANGED session
  BY DEF InspectSteps, List, ReadTerminal, ReadReport
<1>3. UNCHANGED <<serve, control, sealing, report, world, call, wire, cancelled, disk, host>>
  BY <1>2 DEF session
<1>4. ASSUME reader' \in [step : {"idle", "listed", "read", "judged"}, terminal : Contents,
                          verdict : {None, "invalid", "passed", "failed"}],
             ReaderOK'
      PROVE  SessionInv'
  <2>1. SessionTypeOK'
    BY <1>3, <1>4 DEF SessionInv, SessionTypeOK
  <2>2. WorldOK' /\ ControlOK' /\ ServeOK'
    BY <1>3 DEF SessionInv, WorldOK, ControlOK, ServeOK, Unlocked, Told
  <2>3. SealOK'
    BY <1>3 DEF SessionInv, SealOK, Sealed
  <2>4. DiskOK'
    BY <1>3 DEF SessionInv, DiskOK, Residue
  <2> QED
    BY <1>4, <2>1, <2>2, <2>3, <2>4 DEF SessionInv
<1>5. /\ Judged("invalid") \in [step : {"idle", "listed", "read", "judged"},
                                terminal : Contents,
                                verdict : {None, "invalid", "passed", "failed"}]
      /\ Judged("invalid").terminal = Absent /\ Judged("invalid").verdict = "invalid"
  BY DEF Judged, NoRead, Contents
<1>6. CASE reader' = Judged("invalid")
  BY <1>4, <1>5, <1>6 DEF ReaderOK, Accepted
<1>7. CASE List /\ reader' # Judged("invalid")
  <2>1. reader' = [reader EXCEPT !.step = "listed"]
    BY <1>7 DEF List
  <2>2. reader'.terminal = reader.terminal /\ reader'.verdict = reader.verdict
    BY <1>1, <2>1
  <2>3. ReaderOK'
    BY <1>1, <1>3, <2>2 DEF ReaderOK
  <2> QED
    BY <1>1, <1>4, <2>1, <2>3
<1>8. CASE ReadTerminal /\ reader' # Judged("invalid")
  <2>1. /\ reader' = [reader EXCEPT !.step = "read", !.terminal = disk["terminal"]]
        /\ disk["terminal"] # Absent
    BY <1>8 DEF ReadTerminal
  <2>2. /\ disk["terminal"] \in Contents /\ disk["terminal"] = world.terminal
        /\ world.finished
    BY <1>1, <2>1 DEF Names, DiskOK
  <2>3. reader'.terminal = world.terminal /\ reader'.verdict = reader.verdict
    BY <1>1, <2>1, <2>2
  <2>4. ReaderOK'
    BY <1>1, <1>3, <2>2, <2>3 DEF ReaderOK
  <2> QED
    BY <1>1, <1>4, <2>1, <2>2, <2>4
<1>9. CASE ReadReport /\ reader' # Judged("invalid")
  <2> DEFINE verdict == Judge(FALSE, reader.terminal, disk["report"])
  <2>1. /\ verdict # "invalid"
        /\ reader' = [reader EXCEPT !.step = "judged", !.verdict = verdict]
    BY <1>9 DEF ReadReport
  <2>2. /\ reader.terminal.kind = "terminal" /\ disk["report"].kind = "report"
        /\ disk["report"] = ReportFor(reader.terminal, Verifiable(reader.terminal))
        /\ Verifiable(reader.terminal) /\ verdict = disk["report"].decision
    BY <2>1 DEF Judge
  <2>3. reader.terminal # Absent
    BY <2>2, ContentsDiffer
  <2>4. world.finished /\ reader.terminal = world.terminal
    BY <1>1, <2>3 DEF ReaderOK
  <2>5. disk["report"] = ReportFor(world.terminal, TRUE)
    <3>1. Verifiable(reader.terminal) = TRUE
      BY <2>2 DEF Verifiable
    <3> QED
      BY <2>2, <2>4, <3>1
  <2>6. verdict \in {"passed", "failed"}
    <3>1. ReportFor(world.terminal, TRUE).decision \in {"passed", "failed"}
      BY DEF ReportFor
    <3> QED
      BY <2>2, <2>5, <3>1
  <2> HIDE DEF verdict
  <2>7. /\ reader' \in [step : {"idle", "listed", "read", "judged"}, terminal : Contents,
                        verdict : {None, "invalid", "passed", "failed"}]
        /\ reader'.terminal = reader.terminal
    BY <1>1, <2>1, <2>6
  <2>8. ReaderOK'
    BY <1>3, <2>4, <2>5, <2>7 DEF ReaderOK
  <2> QED
    BY <1>4, <2>7, <2>8
<1> QED
  BY <1>6, <1>7, <1>8, <1>9 DEF InspectSteps

\* A step that changes nothing.
LEMMA SessionStutter ==
  ASSUME SessionInv, UNCHANGED vars
  PROVE  SessionInv'
<1>1. UNCHANGED <<serve, control, sealing, report, world, call, wire, cancelled, disk, host, reader>>
  BY DEF vars
<1>2. SessionTypeOK'
  BY <1>1 DEF SessionInv, SessionTypeOK
<1>3. WorldOK' /\ ControlOK' /\ ServeOK'
  BY <1>1 DEF SessionInv, WorldOK, ControlOK, ServeOK, Unlocked, Told
<1>4. SealOK'
  BY <1>1 DEF SessionInv, SealOK, Sealed
<1>5. DiskOK' /\ ReaderOK'
  BY <1>1 DEF SessionInv, DiskOK, ReaderOK, Residue
<1> QED
  BY <1>2, <1>3, <1>4, <1>5 DEF SessionInv

\* Every step of the session and of its Inspect keeps the invariant.
LEMMA StepKeepsSession ==
  ASSUME SessionInv, [SessionNext]_vars
  PROVE  SessionInv'
<1>1. CASE \E claimed \in {Absent, Partial, Written}, provisioned \in BOOLEAN :
             Claim(claimed, provisioned)
  BY <1>1, ClaimStep
<1>2. CASE ServeSteps \/ Cancel \/ Expire \/ CloseWire
  BY <1>2, ServeActions DEF ServeSteps
<1>3. CASE Crash
  BY <1>3, CrashStep
<1>4. CASE \E c \in Calls : Enter(c)
  BY <1>4, EnterStep
<1>5. CASE CallSteps
  BY <1>5, DispatchStep, StepStep DEF CallSteps
<1>6. CASE SealSteps
  BY <1>6, AcquireStep, FinishStep, CreateStep, LinkStep, RemoveStep DEF SealSteps
<1>7. CASE \/ \E sent \in BOOLEAN : ControlReady(sent) \/ Reply(sent)
           \/ ControlNotReady \/ HangUp \/ ReadFails
  BY <1>7, LoopActions, ReplyStep
<1>8. CASE \E q \in Requests : Receive(q)
  BY <1>8, ReceiveStep
<1>9. CASE InspectSteps
  BY <1>9, InspectStep
<1>10. CASE UNCHANGED vars
  BY <1>10, SessionStutter
<1> QED
  BY <1>1, <1>2, <1>3, <1>4, <1>5, <1>6, <1>7, <1>8, <1>9, <1>10
  DEF SessionNext, SessionSteps

\* The inductive invariant of a session: who holds the seal, what each goroutine
\* may still do with its report, and what is on disk and has been read of it
\* (Serve, controlLoop, seal, store.publish, Inspect).
THEOREM SessionInvariant == SessionSpec => []SessionInv
<1>1. SessionInit => SessionInv
  BY InitEstablishesSessionInv
<1>2. SessionInv /\ [SessionNext]_vars => SessionInv'
  BY StepKeepsSession
<1> QED
  BY <1>1, <1>2, PTL DEF SessionSpec

\* PluginWorld.Finish waits for the mutex of the world, so that the terminal that is
\* published lists every call that ever reached the dispatcher.
THEOREM NoCallIsLost == SessionSpec => []EvidenceIsComplete
<1>1. SessionInv => EvidenceIsComplete
  <2> SUFFICES ASSUME SessionInv, disk["terminal"] # Absent PROVE
                 /\ disk["terminal"] = world.terminal
                 /\ \A c \in Calls : call[c] \in {"stepping", "run"} =>
                      c \in disk["terminal"].events
    BY DEF EvidenceIsComplete
  <2>1. world.finished /\ disk["terminal"] = world.terminal /\ WorldOK
    BY DEF SessionInv, DiskOK
  <2>2. \A c \in Calls : call[c] # "stepping"
    BY <2>1 DEF WorldOK, Unlocked
  <2> QED
    BY <2>1, <2>2 DEF WorldOK
<1> QED
  BY <1>1, SessionInvariant, PTL

\* Whatever seal, control loop and Serve do in whichever order, a host is told of the
\* one published report only, and Serve succeeds only when its host has been told.
THEOREM HostIsToldTheTruth == SessionSpec => []ToldIsPublished
<1>1. SessionInv => ToldIsPublished
  <2> SUFFICES ASSUME SessionInv PROVE ToldIsPublished
    OBVIOUS
  <2>1. ControlOK /\ ServeOK /\ DiskOK
    BY DEF SessionInv
  <2>2. ASSUME NEW r \in host.told
        PROVE  disk["report"] = r /\ disk["terminal"] = r.of /\ ~Residue(disk)
    <3>1. r = report /\ report # None
      BY <2>1 DEF ControlOK
    <3> QED
      BY <2>1, <3>1 DEF DiskOK
  <2>3. serve.pc = "returned" /\ ~serve.failed => report # None /\ host.told = {report}
    BY <2>1 DEF ServeOK, Told
  <2> QED
    BY <2>2, <2>3 DEF ToldIsPublished
<1> QED
  BY <1>1, SessionInvariant, PTL

\* What an accepted directory holds: a claim, the frozen terminal of a completed
\* session with its verified report, and nothing left over.
LEMMA AcceptedShape ==
  ASSUME SessionInv, Verdict(disk) \in Accepted
  PROVE  /\ disk["claim"] = Written /\ ~Residue(disk)
         /\ disk["terminal"] # Absent /\ disk["report"] # Absent /\ report # None
         /\ world.finished /\ disk["terminal"] = world.terminal
         /\ world.terminal.execution = "completed"
<1>1. Verdict(disk) # "invalid"
  BY DEF Accepted
<1>2. disk["claim"] = Written
  BY <1>1 DEF Verdict
<1>3. Judge(Residue(disk), disk["terminal"], disk["report"]) # "invalid"
  BY <1>1, <1>2 DEF Verdict
<1>4. /\ disk["terminal"].kind = "terminal" /\ disk["report"].kind = "report"
      /\ ~Residue(disk) /\ Verifiable(disk["terminal"])
  BY <1>3 DEF Judge
<1>5. disk["terminal"] # Absent /\ disk["report"] # Absent
  BY <1>4, ContentsDiffer
<1>6. DiskOK
  BY DEF SessionInv
<1>7. disk["report.pending"] = Absent
  BY <1>4, FileNames DEF Residue, Files
<1>8. world.finished /\ disk["terminal"] = world.terminal /\ report # None
  BY <1>5, <1>6, <1>7 DEF DiskOK
<1> QED
  BY <1>2, <1>4, <1>5, <1>8 DEF Verifiable

\* End of file, abort, deadline and crash never yield a verdict (SPEC-0078), and an
\* Inspect that reads file by file accepts only what Serve has sealed.
THEOREM OnlySealedIsAccepted == SessionSpec => []AcceptedWasSealed
<1>1. SessionInv => AcceptedWasSealed
  <2> SUFFICES ASSUME SessionInv PROVE AcceptedWasSealed
    OBVIOUS
  <2>1. WorldOK /\ ControlOK /\ ReaderOK
    BY DEF SessionInv
  <2>2. Verdict(disk) \in Accepted => control.ready /\ host.asked
    BY <2>1, AcceptedShape DEF WorldOK, ControlOK
  <2> QED
    BY <2>1, <2>2 DEF AcceptedWasSealed, ReaderOK
<1> QED
  BY <1>1, SessionInvariant, PTL

\* An accepted directory is never written to again: the one report is known, so no
\* seal is under way or begins, and its claim keeps every other session out (claim,
\* seal).
THEOREM VerdictStands == SessionSpec => AcceptedIsFinal
<1>1. SessionInv /\ [SessionNext]_vars =>
        [Verdict(disk) \in Accepted => Verdict(disk') = Verdict(disk)]_vars
  <2> SUFFICES ASSUME SessionInv, [SessionNext]_vars, Verdict(disk) \in Accepted
               PROVE  disk' = disk
    OBVIOUS
  <2>1. disk["claim"] = Written /\ report # None
    BY AcceptedShape
  <2>2. sealing.step = None /\ disk["output"] # Absent
    BY <2>1, ContentsDiffer DEF SessionInv, SealOK, DiskOK
  <2>3. sealing.step \notin {"finish", "create", "link", "remove"}
    BY <2>2, NoneDiffers
  <2>4. CASE UNCHANGED vars
    BY <2>4 DEF vars
  <2>5. CASE InspectSteps
    BY <2>5 DEF InspectSteps, List, ReadTerminal, ReadReport, session
  <2>6. CASE \E claimed \in {Absent, Partial, Written}, provisioned \in BOOLEAN :
               Claim(claimed, provisioned)
    BY <2>2, <2>6 DEF Claim
  <2>7. CASE ServeSteps \/ Cancel \/ Expire \/ CloseWire \/ Crash
    BY <2>7 DEF ServeSteps, Select, Join, Cancel, Expire, CloseWire, Crash
  <2>8. CASE \E c \in Calls : Enter(c)
    BY <2>8 DEF Enter
  <2>9. CASE CallSteps
    BY <2>9 DEF CallSteps, Dispatch, Step
  <2>10. CASE SealSteps
    BY <2>3, <2>10 DEF SealSteps, Acquire, Finish, Create, Link, Remove
  <2>11. CASE \E sent \in BOOLEAN : ControlReady(sent) \/ Reply(sent)
    BY <2>11 DEF ControlReady, Reply, EndControl, others
  <2>12. CASE ControlNotReady \/ HangUp \/ ReadFails
    BY <2>12 DEF ControlNotReady, HangUp, ReadFails, EndControl, others
  <2>13. CASE \E q \in Requests : Receive(q)
    BY <2>13 DEF Receive, EndControl, others
  <2> QED
    BY <2>4, <2>5, <2>6, <2>7, <2>8, <2>9, <2>10, <2>11, <2>12, <2>13
    DEF SessionNext, SessionSteps
<1> QED
  BY <1>1, SessionInvariant, PTL DEF SessionSpec, AcceptedIsFinal
=============================================================================
