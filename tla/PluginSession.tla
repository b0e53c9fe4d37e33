---------------------------- MODULE PluginSession ----------------------------
(***************************************************************************)
(* One task-scoped plugin session: the goroutines of Serve, of its control *)
(* loop and of the host's tool calls on one PluginWorld, the seal that     *)
(* publishes terminal and report by link, and an Inspect in another        *)
(* process that reads the output directory file by file.                   *)
(***************************************************************************)
EXTENDS Integers, FiniteSets

CONSTANTS
  Calls,          \* tool calls the host may send
  None,           \* absence of a value
  MaxInflight,    \* calls admitted at a time
  MaxAttempts,    \* tool attempts in the budget of the task
  MaxRequests     \* requests read from one control connection (128 in the code)

\* terminal.json, and the report that is sealed with it.
Terminals ==
  [kind : {"terminal"}, execution : {"running", "completed", "failed", "interrupted"},
   failed : BOOLEAN, cleaned : BOOLEAN, attempts : Nat, events : SUBSET Calls, graded : BOOLEAN]
Reports ==
  [kind : {"report"}, of : Terminals, verified : BOOLEAN,
   decision : {"invalid", "passed", "failed"}]
Files == {"terminal", "report"}

\* Who seals, where seal is, its outcome, and what Inspect makes of it.
Marks ==
  {"control", "serve"} \cup {"finish", "create", "link", "remove"} \cup Files
    \cup {"completed", "cancelled"} \cup {"invalid", "passed", "failed"}

ASSUME SessionAssumption ==
  /\ MaxInflight \in Nat /\ MaxAttempts \in Nat /\ MaxRequests \in Nat
  /\ None \notin Calls \cup Reports \cup Marks

VARIABLES
  serve,      \* the goroutine of Serve
  control,    \* the goroutine of controlLoop
  sealing,    \* the holder of sealMu and its place in seal
  report,     \* the sealed report, once published
  world,      \* the PluginWorld
  call,       \* each tool call of the host
  wire,       \* the MCP streams are open
  cancelled,  \* the context of Serve is done
  disk,       \* the output directory
  host,       \* history: completion was asked for; reports sent to the host
  reader      \* an Inspect in progress

vars == <<serve, control, sealing, report, world, call, wire, cancelled, disk, host, reader>>

PendingOf(f) == IF f = "terminal" THEN "terminal.pending" ELSE "report.pending"
Names == {"output", "claim", "terminal", "terminal.pending", "report", "report.pending"}

Absent == [kind |-> "absent"]
Partial == [kind |-> "partial"]
Written == [kind |-> "written"]

Requests ==
  [seq : 1..MaxRequests, op : {"status"}, outcome : {None}]
    \cup [seq : 1..MaxRequests, op : {"finish", "abort"}, outcome : {"completed", "cancelled"}]
NoRequest == [seq |-> 0, op |-> None, outcome |-> None]
NoReply == [status |-> None, report |-> None]
NoSeal == [by |-> None, step |-> None, file |-> None, outcome |-> None, report |-> None]
NoRead == [step |-> "idle", terminal |-> Absent, verdict |-> None]

SessionInit ==
  /\ serve = [pc |-> "idle", failed |-> FALSE]
  /\ control = [pc |-> "startup", ready |-> FALSE, count |-> 0, prev |-> NoRequest,
                cur |-> NoRequest, reply |-> NoReply, done |-> FALSE, failed |-> FALSE]
  /\ sealing = NoSeal
  /\ report = None
  /\ world = [accepting |-> TRUE, expired |-> FALSE, finished |-> FALSE, unsafe |-> FALSE,
              terminal |-> [kind |-> "terminal", execution |-> "running", failed |-> FALSE,
                            cleaned |-> FALSE, attempts |-> 0, events |-> {}, graded |-> FALSE]]
  /\ call = [c \in Calls |-> "new"]
  /\ wire = TRUE
  /\ cancelled = FALSE
  /\ disk = [n \in Names |-> Absent]
  /\ host = [asked |-> FALSE, told |-> {}]
  /\ reader = NoRead

\* The control loop returns; its local variables are gone.
LoopEnded(failed) ==
  [control EXCEPT !.pc = "ended", !.failed = failed, !.count = 0, !.prev = NoRequest,
                  !.cur = NoRequest, !.reply = NoReply]

Running == serve.pc \notin {"idle", "returned", "dead"}

-----------------------------------------------------------------------------
(***************************************************************************)
(* The evidence: what makes a terminal verifiable, what the report says of *)
(* it, and what Inspect makes of a directory.                              *)
(***************************************************************************)

\* VerifyPluginTerminal, whose replay is deterministic: an orderly session
\* within its budget whose attempts are all recorded.
Verifiable(t) ==
  /\ t.execution = "completed" /\ ~t.failed /\ t.cleaned
  /\ t.attempts = Cardinality(t.events)
  /\ t.attempts <= MaxAttempts

\* reportFor: the decision is invalid unless the terminal was verified.
ReportFor(t, verified) ==
  [kind |-> "report", of |-> t, verified |-> verified,
   decision |-> IF ~verified THEN "invalid" ELSE IF t.graded THEN "passed" ELSE "failed"]

Residue(d) == \E f \in Files : d[PendingOf(f)] # Absent

\* Fault: Inspect trusts the stored report.
JudgeTrusting(residue, t, r) ==
  IF /\ t.kind = "terminal" /\ r.kind = "report"
     /\ ~residue /\ Verifiable(t)
  THEN ReportFor(t, TRUE).decision ELSE "invalid"

\* Inspect: the stored report has to be the one its own verification yields,
\* and nothing may be left unpublished.
Judge(residue, t, r) ==
  IF /\ t.kind = "terminal" /\ r.kind = "report"
     /\ r = ReportFor(t, Verifiable(t))
     /\ ~residue /\ Verifiable(t)
  THEN r.decision ELSE "invalid"

\* The verdict of an Inspect that finds the directory at rest.
Verdict(d) ==
  IF d["claim"] = Written THEN Judge(Residue(d), d["terminal"], d["report"]) ELSE "invalid"

Accepted == {"passed", "failed"}

-----------------------------------------------------------------------------
(***************************************************************************)
(* Serve: claim, wait for the first of three ends, seal, join.             *)
(***************************************************************************)

\* claim: only a directory that did not exist before is ever served; a failure
\* to write claim.json or to provision the world ends the session.
Claim(claimed, provisioned) ==
  /\ serve.pc = "idle"
  /\ disk["output"] = Absent
  /\ disk' = [disk EXCEPT !["output"] = Written, !["claim"] = claimed]
  /\ serve' = IF claimed = Written /\ provisioned
              THEN [serve EXCEPT !.pc = "select"]
              ELSE [pc |-> "returned", failed |-> TRUE]
  /\ UNCHANGED <<control, sealing, report, world, call, wire, cancelled, host, reader>>

\* After the end of the session was seen: seal what nobody has sealed, or
\* cancel and join.
AfterSelect(failed) ==
  IF report = None
  THEN serve' = [pc |-> "seal", failed |-> failed] /\ UNCHANGED cancelled
  ELSE serve' = [pc |-> "join", failed |-> failed] /\ cancelled' = TRUE

\* The select of Serve, and the wait for the control loop after a seal.
Select ==
  /\ \/ /\ serve.pc \in {"select", "await"} /\ control.pc = "ended"
        /\ AfterSelect(control.failed)
     \/ /\ serve.pc = "select" /\ ~wire
        /\ IF report # None THEN serve' = [serve EXCEPT !.pc = "await"] /\ UNCHANGED cancelled
           ELSE AfterSelect(TRUE)
     \/ /\ serve.pc = "select" /\ cancelled
        /\ AfterSelect(TRUE)
  /\ UNCHANGED <<control, sealing, report, world, call, wire, disk, host, reader>>

\* Control loop and streams have ended: Serve returns.
Join ==
  /\ serve.pc = "join" /\ control.pc = "ended" /\ ~wire
  /\ serve' = [serve EXCEPT !.pc = "returned"]
  /\ UNCHANGED <<control, sealing, report, world, call, wire, cancelled, disk, host, reader>>

\* The deadline, a signal, or the frame limit cancels the context.
Cancel ==
  /\ Running /\ ~cancelled
  /\ cancelled' = TRUE
  /\ UNCHANGED <<serve, control, sealing, report, world, call, wire, disk, host, reader>>

\* The world has a deadline of its own: its calls are refused, Serve goes on.
\* It matters as long as the world is not finished.
Expire ==
  /\ Running /\ ~world.expired /\ ~world.finished
  /\ world' = [world EXCEPT !.expired = TRUE]
  /\ UNCHANGED <<serve, control, sealing, report, call, wire, cancelled, disk, host, reader>>

\* The host closes the streams, or the cancelled context does.
CloseWire ==
  /\ Running /\ wire
  /\ wire' = FALSE
  /\ UNCHANGED <<serve, control, sealing, report, world, call, cancelled, disk, host, reader>>

\* The process is killed; the world and the calls stay here as history only.
Crash ==
  /\ Running
  /\ serve' = [serve EXCEPT !.pc = "dead"]
  /\ control' = LoopEnded(TRUE) /\ sealing' = NoSeal
  /\ wire' = FALSE /\ cancelled' = TRUE
  /\ UNCHANGED <<report, world, call, disk, host, reader>>

-----------------------------------------------------------------------------
(***************************************************************************)
(* Tool calls.                                                             *)
(***************************************************************************)
\* The middleware and the first half of PluginWorld.Call: ready, a slot, and
\* calls still accepted; then the call waits for the mutex. A call refused here
\* or under the mutex leaves no trace, and the host may send it again.
Enter(c) ==
  /\ Running /\ wire /\ call[c] = "new"
  /\ control.ready /\ world.accepting
  /\ Cardinality({o \in Calls : call[o] \in {"queued", "stepping"}}) < MaxInflight
  /\ call' = [call EXCEPT ![c] = "queued"]
  /\ UNCHANGED <<serve, control, sealing, report, world, wire, cancelled, disk, host, reader>>

\* Nobody holds the mutex of the world (Finish holds it within one action).
Unlocked == \A c \in Calls : call[c] # "stepping"

\* The budget is exhausted, or the input not acceptable: the world fails.
Spoiled(w) == [w EXCEPT !.terminal.failed = TRUE, !.accepting = FALSE]

\* Fault: a call that has waited for the mutex does not look again.
DispatchUnchecked(c, input) ==
  /\ Running /\ call[c] = "queued" /\ Unlocked
  /\ IF world.terminal.attempts >= MaxAttempts \/ input = "invalid"
     THEN world' = Spoiled(world) /\ call' = [call EXCEPT ![c] = "new"]
     ELSE /\ call' = [call EXCEPT ![c] = IF input = "void" THEN "new" ELSE "stepping"]
          /\ UNCHANGED world
  /\ UNCHANGED <<serve, control, sealing, report, wire, cancelled, disk, host, reader>>

\* Under the mutex the call is refused once the barrier is up or a context is
\* done (its own too: input "void", like a number that cannot be normalized);
\* an exhausted budget or an invalid input also ends the admission.
Dispatch(c, input) ==
  /\ Running /\ call[c] = "queued" /\ Unlocked
  /\ IF ~world.accepting \/ cancelled \/ world.expired
     THEN UNCHANGED world /\ call' = [call EXCEPT ![c] = "new"]
     ELSE IF world.terminal.attempts >= MaxAttempts \/ input = "invalid"
     THEN world' = Spoiled(world) /\ call' = [call EXCEPT ![c] = "new"]
     ELSE /\ call' = [call EXCEPT ![c] = IF input = "void" THEN "new" ELSE "stepping"]
          /\ UNCHANGED world
  /\ UNCHANGED <<serve, control, sealing, report, wire, cancelled, disk, host, reader>>

\* The dispatcher has run the call: attempt and event are recorded whatever it
\* answered, and an error ends the admission.
Step(c, ok) ==
  /\ Running /\ call[c] = "stepping"
  /\ world' = [world EXCEPT !.terminal.attempts = @ + 1,
                            !.terminal.events = @ \cup {c},
                            !.terminal.failed = @ \/ ~ok,
                            !.accepting = @ /\ ok]
  /\ call' = [call EXCEPT ![c] = "run"]
  /\ UNCHANGED <<serve, control, sealing, report, wire, cancelled, disk, host, reader>>

-----------------------------------------------------------------------------
(***************************************************************************)
(* seal: one report, published once.                                       *)
(***************************************************************************)
\* What the return of seal changes at its callers.
callers == <<control, serve, cancelled>>

\* seal returns to its caller, with the report or an error.
Return(by, r) ==
  /\ sealing' = NoSeal
  /\ IF by = "control"
     THEN /\ control' = IF r = None
               THEN LoopEnded(TRUE)
               ELSE [control EXCEPT !.pc = "reply", !.done = TRUE,
                                    !.reply = [status |-> "sealed", report |-> r]]
          /\ UNCHANGED <<serve, cancelled>>
     ELSE /\ serve' = [serve EXCEPT !.pc = "join", !.failed = @ \/ r = None]
          /\ cancelled' = TRUE
          /\ UNCHANGED control

\* Fault: Serve seals an interrupted session with the outcome of a completed one.
SealersCompleting ==
  {w \in [by : {"control", "serve"}, outcome : {"completed", "cancelled"}] :
     \/ w.by = "control" /\ control.pc = "seal" /\ w.outcome = control.cur.outcome
     \/ w.by = "serve" /\ serve.pc = "seal" /\ w.outcome = "completed"}

\* Who wants to seal, and with which outcome: Serve's own seal is a cancellation.
Sealers ==
  {w \in [by : {"control", "serve"}, outcome : {"completed", "cancelled"}] :
     \/ w.by = "control" /\ control.pc = "seal" /\ w.outcome = control.cur.outcome
     \/ w.by = "serve" /\ serve.pc = "seal" /\ w.outcome = "cancelled"}

\* Fault: a second seal does not look for the report of the first.
AcquireAgain(w) ==
  /\ Running /\ sealing.by = None
  /\ sealing' = [NoSeal EXCEPT !.by = w.by, !.step = "finish", !.outcome = w.outcome]
  /\ world' = [world EXCEPT !.accepting = FALSE]
  /\ UNCHANGED callers
  /\ UNCHANGED <<report, call, wire, disk, host, reader>>

\* sealMu: whoever finds the report returns it; otherwise Finish puts up its
\* barrier and waits for the mutex of the world.
Acquire(w) ==
  /\ Running /\ sealing.by = None
  /\ IF report # None
     THEN Return(w.by, report) /\ UNCHANGED world
     ELSE /\ sealing' = [NoSeal EXCEPT !.by = w.by, !.step = "finish", !.outcome = w.outcome]
          /\ world' = [world EXCEPT !.accepting = FALSE]
          /\ UNCHANGED callers
  /\ UNCHANGED <<report, call, wire, disk, host, reader>>

\* What Finish makes of the terminal: an unusable answer, state or grade
\* ("evidence"), a world that does not close ("cleanup"), or a grade, which
\* matters only when everything is in order.
FinishedTerminal(t, outcome, result) ==
  LET orderly == outcome = "completed" /\ ~cancelled /\ ~world.expired /\ ~t.failed
  IN [t EXCEPT !.execution = IF result = "evidence" THEN "failed"
                             ELSE IF orderly THEN "completed" ELSE "interrupted",
               !.failed = ~orderly \/ result \in {"evidence", "cleanup"},
               !.cleaned = result # "cleanup",
               !.graded = orderly /\ result = "passed"]

\* Fault: Finish does not wait for the call in progress.
FinishUnlocked(result, inTime) ==
  /\ Running /\ sealing.step = "finish" /\ ~world.finished
  /\ LET t == FinishedTerminal(world.terminal, sealing.outcome, result)
     IN /\ world' = [world EXCEPT !.finished = TRUE, !.unsafe = result = "unsafe", !.terminal = t]
        /\ sealing' = [sealing EXCEPT !.step = "create", !.file = "terminal",
                         !.report = ReportFor(t, inTime /\ Verifiable(t))]
  /\ UNCHANGED callers
  /\ UNCHANGED <<report, call, wire, disk, host, reader>>

\* Finish: the first one freezes the terminal, or fails on one that may not be
\* written; a later one is handed the same terminal. It is then replayed within
\* the cleanup budget, which gives the report.
Finish(result, inTime) ==
  /\ Running /\ sealing.step = "finish" /\ Unlocked
  /\ LET t == IF world.finished THEN world.terminal
              ELSE FinishedTerminal(world.terminal, sealing.outcome, result)
         unsafe == ~world.finished /\ result = "unsafe"
     IN /\ world' = [world EXCEPT !.finished = TRUE, !.unsafe = @ \/ unsafe, !.terminal = t]
        /\ IF unsafe THEN Return(sealing.by, None)
           ELSE /\ sealing' = [sealing EXCEPT !.step = "create", !.file = "terminal",
                                 !.report = ReportFor(t, inTime /\ Verifiable(t))]
                /\ UNCHANGED callers
  /\ UNCHANGED <<report, call, wire, disk, host, reader>>

\* store.write: the pending file must be new; a failure leaves nothing or a file
\* that is never linked.
Create(left, ok) ==
  LET pending == PendingOf(sealing.file)
      refused == \/ disk[pending] # Absent
                 \/ sealing.file = "terminal" /\ world.unsafe
  IN /\ Running /\ sealing.step = "create"
     /\ IF ok /\ ~refused
        THEN /\ disk' = [disk EXCEPT ![pending] =
                           IF sealing.file = "terminal" THEN world.terminal ELSE sealing.report]
             /\ sealing' = [sealing EXCEPT !.step = "link"]
             /\ UNCHANGED callers
        ELSE /\ disk' = IF refused THEN disk ELSE [disk EXCEPT ![pending] = left]
             /\ Return(sealing.by, None)
     /\ UNCHANGED <<report, world, call, wire, host, reader>>

\* store.publish links the pending file under its name; a link never replaces.
Link(ok) ==
  /\ Running /\ sealing.step = "link"
  /\ IF ok /\ disk[sealing.file] = Absent
     THEN /\ disk' = [disk EXCEPT ![sealing.file] = disk[PendingOf(sealing.file)]]
          /\ sealing' = [sealing EXCEPT !.step = "remove"]
          /\ UNCHANGED callers
     ELSE Return(sealing.by, None) /\ UNCHANGED disk
  /\ UNCHANGED <<report, world, call, wire, host, reader>>

\* Fault: residue of the report does not keep seal from returning it.
RemoveIgnoringResidue(ok) ==
  /\ Running /\ sealing.step = "remove"
  /\ disk' = IF ok THEN [disk EXCEPT ![PendingOf(sealing.file)] = Absent] ELSE disk
  /\ IF ~ok /\ sealing.file = "terminal" THEN Return(sealing.by, None) /\ UNCHANGED report
     ELSE IF sealing.file = "terminal"
     THEN /\ sealing' = [sealing EXCEPT !.step = "create", !.file = "report"]
          /\ UNCHANGED <<report, callers>>
     ELSE report' = sealing.report /\ Return(sealing.by, sealing.report)
  /\ UNCHANGED <<world, call, wire, host, reader>>

\* store.publish removes the pending name; after the terminal comes the report,
\* and after the report the session is sealed.
Remove(ok) ==
  /\ Running /\ sealing.step = "remove"
  /\ disk' = IF ok THEN [disk EXCEPT ![PendingOf(sealing.file)] = Absent] ELSE disk
  /\ IF ~ok THEN Return(sealing.by, None) /\ UNCHANGED report
     ELSE IF sealing.file = "terminal"
     THEN /\ sealing' = [sealing EXCEPT !.step = "create", !.file = "report"]
          /\ UNCHANGED <<report, callers>>
     ELSE report' = sealing.report /\ Return(sealing.by, sealing.report)
  /\ UNCHANGED <<world, call, wire, host, reader>>

-----------------------------------------------------------------------------
(***************************************************************************)
(* controlLoop: one connection of one host, numbered requests.             *)
(***************************************************************************)
\* What the steps of the control loop leave alone.
others == <<serve, sealing, report, world, call, wire, cancelled, disk, reader>>

\* The loop ends; it ends well only when the host hangs up after the seal.
EndControl(failed) ==
  /\ control' = LoopEnded(failed)
  /\ UNCHANGED <<host, others>>

\* Host authenticated and MCP initialized: tool calls are let in, and then the
\* host is told, or cannot be.
ControlReady(sent) ==
  /\ Running /\ control.pc = "startup" /\ ~cancelled
  /\ control' = [control EXCEPT !.ready = TRUE, !.pc = IF sent THEN "read" ELSE "ended",
                                !.failed = ~sent]
  /\ UNCHANGED <<host, others>>

\* No host, a wrong one, or no initialization in time.
ControlNotReady == Running /\ control.pc = "startup" /\ EndControl(TRUE)

\* The answer to a status request.
StatusReply == [status |-> IF control.done THEN "sealed" ELSE "running", report |-> None]

\* A request out of sequence or out of order is refused, and that ends the loop.
Admitted(q) ==
  /\ q.seq = control.prev.seq + 1
  /\ q.op # "status" => ~control.done
  /\ q.op = "abort" => q.outcome # "completed"

\* The loop reads a further request; after the last one it ends by itself.
Reading == Running /\ control.pc = "read" /\ control.count < MaxRequests

\* The next request: a repeated one gets the reply it had, a status its answer,
\* and a finish or abort goes to seal.
Receive(q) ==
  LET next == [control EXCEPT !.cur = q, !.count = @ + 1]
  IN /\ Reading
     /\ IF q # control.prev /\ ~Admitted(q) THEN EndControl(TRUE)
        ELSE /\ control' = IF q = control.prev THEN [next EXCEPT !.pc = "reply"]
                           ELSE IF q.op # "status" THEN [next EXCEPT !.pc = "seal"]
                           ELSE [next EXCEPT !.pc = "reply", !.reply = StatusReply]
             /\ host' = [host EXCEPT !.asked =
                           @ \/ (q # control.prev /\ q.op = "finish" /\ q.outcome = "completed")]
             /\ UNCHANGED others

\* The reply is sent, or the loop ends.
Reply(sent) ==
  /\ Running /\ control.pc = "reply"
  /\ IF sent
     THEN /\ control' = [control EXCEPT !.prev = control.cur, !.pc = "read"]
          /\ host' = [host EXCEPT !.told = @ \cup ({control.reply.report} \ {None})]
          /\ UNCHANGED others
     ELSE EndControl(TRUE)

\* Fault: every end of the connection is a good one.
HangUpAlwaysFine == Reading /\ EndControl(FALSE)

\* The host hangs up: fine after the seal, an interruption before.
HangUp == Reading /\ EndControl(~control.done)

\* Fault: the end of the context does not close the connection.
ReadFailsWhenSealed == Running /\ control.pc = "read" /\ control.done /\ EndControl(TRUE)

\* No further request: the connection is closed by the end of the context, or
\* silent for a second after the seal, or the request unreadable, or they were too many.
ReadFails == Running /\ control.pc = "read" /\ EndControl(TRUE)

-----------------------------------------------------------------------------
(***************************************************************************)
(* Inspect, in another process.                                            *)
(***************************************************************************)
session == <<serve, control, sealing, report, world, call, wire, cancelled, disk, host>>

\* What is listed with residue, or without a terminal, is not accepted.
Judged(verdict) == [NoRead EXCEPT !.step = "judged", !.verdict = verdict]

\* The directory is listed, and claim.json read.
List ==
  /\ reader.step = "idle" /\ disk["claim"] = Written
  /\ reader' = IF Residue(disk) THEN Judged("invalid") ELSE [reader EXCEPT !.step = "listed"]
  /\ UNCHANGED session

ReadTerminal ==
  /\ reader.step = "listed"
  /\ reader' = IF disk["terminal"] = Absent THEN Judged("invalid")
               ELSE [reader EXCEPT !.step = "read", !.terminal = disk["terminal"]]
  /\ UNCHANGED session

\* The report is read, and judged by what the listing and the terminal were.
ReadReport ==
  LET verdict == Judge(FALSE, reader.terminal, disk["report"])
  IN /\ reader.step = "read"
     /\ reader' = IF verdict = "invalid" THEN Judged(verdict)
                  ELSE [reader EXCEPT !.step = "judged", !.verdict = verdict]
     /\ UNCHANGED session

-----------------------------------------------------------------------------
ServeSteps == Select \/ Join
CallSteps ==
  \E c \in Calls : \/ \E input \in {"valid", "invalid", "void"} : Dispatch(c, input)
                  \/ \E ok \in BOOLEAN : Step(c, ok)
SealSteps ==
  \/ \E w \in Sealers : Acquire(w)
  \/ \E result \in {"passed", "failed", "evidence", "cleanup", "unsafe"}, inTime \in BOOLEAN :
       Finish(result, inTime)
  \/ \E ok \in BOOLEAN : \/ Link(ok) \/ Remove(ok)
                        \/ \E left \in {Absent, Partial} : Create(left, ok)

InspectSteps == List \/ ReadTerminal \/ ReadReport

SessionSteps ==
  \/ \E claimed \in {Absent, Partial, Written}, provisioned \in BOOLEAN :
       Claim(claimed, provisioned)
  \/ ServeSteps \/ Cancel \/ Expire \/ CloseWire \/ Crash
  \/ \E c \in Calls : Enter(c)
  \/ CallSteps
  \/ SealSteps
  \/ \E sent \in BOOLEAN : ControlReady(sent) \/ Reply(sent)
  \/ ControlNotReady \/ HangUp \/ ReadFails
  \/ \E q \in Requests : Receive(q)

SessionNext == SessionSteps \/ InspectSteps

SessionSpec == SessionInit /\ [][SessionNext]_vars

\* Goroutines run, timers fire, the deadline comes, and a cancelled context
\* closes the streams and ends a blocked read; nothing is assumed of the host.
LiveSessionSpec ==
  /\ SessionSpec
  /\ WF_vars(ServeSteps) /\ WF_vars(CallSteps) /\ WF_vars(SealSteps)
  /\ WF_vars(Cancel) /\ WF_vars(cancelled /\ CloseWire)
  /\ WF_vars(ControlNotReady) /\ WF_vars(cancelled /\ ReadFails)
  /\ WF_vars(\E sent \in BOOLEAN : Reply(sent))

-----------------------------------------------------------------------------
(***************************************************************************)
(* Properties.                                                             *)
(***************************************************************************)
\* The published terminal is the whole story: it is what Finish froze, and no
\* call that ever reached the dispatcher, answered or not, before or after the
\* barrier, is missing from it (PluginWorld.Call, Finish).
EvidenceIsComplete ==
  disk["terminal"] # Absent =>
    /\ disk["terminal"] = world.terminal
    /\ \A c \in Calls : call[c] \in {"stepping", "run"} =>
         c \in disk["terminal"].events

\* A verdict that Inspect of the directory at rest has reached is never changed
\* by whatever the session still does: repeated or competing seals, crashes,
\* failing publications (seal, store.publish).
AcceptedIsFinal ==
  [][Verdict(disk) \in Accepted => Verdict(disk') = Verdict(disk)]_vars

\* What a control host was told is sealed is on disk, under its final names and
\* without residue, and stays there: every reply to a finish, repeated or not,
\* names the one published report; and Serve reports success only for a session
\* it has published and told its host of.
ToldIsPublished ==
  /\ \A r \in host.told : disk["report"] = r /\ disk["terminal"] = r.of /\ ~Residue(disk)
  /\ serve.pc = "returned" /\ ~serve.failed => report # None /\ host.told = {report}

\* A session is only ever accepted after an authenticated host has asked for its
\* completion: end of file, abort, deadline or crash never yield a verdict, in
\* whichever order seals of Serve and of the host meet (SPEC-0078).  An Inspect
\* that runs while the session publishes, too, accepts only the terminal that was
\* frozen, together with the report of its verification by Serve.
AcceptedWasSealed ==
  /\ Verdict(disk) \in Accepted => control.ready /\ host.asked
  /\ reader.verdict \in Accepted =>
       /\ reader.terminal = world.terminal /\ world.finished
       /\ disk["report"] = ReportFor(world.terminal, TRUE)

\* Serve always returns: no wait of Serve, of the control loop, of seal or of a
\* tool call outlives the deadline, in whichever order the three ends come.
SessionEnds == Running ~> ~Running
=============================================================================
