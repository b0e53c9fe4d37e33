----------------------------- MODULE AgentTrial -----------------------------
(* One recorded agent trial (internal/agenteval RecordMock and RecordLive):  *)
(* the evidence directory is claimed, a private world provisioned, the host  *)
(* session of internal/agenthost asks a model (a script, or one POST of      *)
(* internal/agentapi) and dispatches the tool calls it returns, the terminal *)
(* world is graded and replayed, and the evidence is staged and published by *)
(* a hard link.  The process may die between any two steps; InspectDirectory *)
(* reads the directory file by file, possibly while it is being written.     *)
EXTENDS Integers, FiniteSets, Sequences

CONSTANTS
    Lanes,          \* the lanes explored, a subset of {"mock", "live"}
    Batches,        \* sequences of call IDs a model may ask for at once
    Script,         \* responses in a mock script
    ModelRequests,  \* budgets.modelRequests
    ToolAttempts,   \* budgets.toolAttempts
    ContentBudget,  \* budgets.traceBytes - 64 KiB, in units of one message
    MaxRequests,    \* maxRequests of the live plan
    Expires,        \* the approval window of the live plan is [0, Expires)
    MaxTime,        \* bound: the clock stops here
    MaxRuns         \* bound: recordings started on the same directory

ASSUME TrialAssumption ==
    /\ Lanes \subseteq {"mock", "live"}
    /\ {ModelRequests, ToolAttempts, Script, MaxRequests, MaxRuns}
           \subseteq Nat \ {0}
    /\ {ContentBudget, Expires, MaxTime} \subseteq Nat
    /\ MaxRequests <= ModelRequests

VARIABLES
    lane,     \* the lane of this trial
    pc,       \* where the recorder stands
    ended,    \* the context ended: cancelled by the caller or timed out
    clock,    \* the wall clock, which may be set back once
    setBack,  \* it was
    runs,     \* recordings started on this directory
    host,     \* agenthost.Session and its Governor
    client,   \* agentapi.Client: requests sent, stopped
    started,  \* StartedAt of the live evidence
    receipts, \* its receipts
    reply,    \* the response being accepted
    effects,  \* effects committed in the private world
    ep,       \* the AgentEpisode
    closed,   \* the replay closure was verified before the world was closed
    made,     \* the evidence directory exists
    files,    \* its members
    answer,   \* what the caller was told: "none", "ok" or "error"
    insp      \* one InspectDirectory call

memory == <<host, client, started, receipts, reply, effects, ep, closed>>
vars == <<lane, pc, ended, clock, setBack, runs, memory, made, files, answer, insp>>

Replies == [kind : {"final", "refused", "oversize"}, calls : {<<>>}]
               \cup [kind : {"calls"}, calls : Batches]
NoReply == [kind |-> "none", calls |-> <<>>]

NewHost == [waiting |-> FALSE, admitted |-> FALSE, stopped |-> FALSE,
            pending |-> <<>>, seen |-> {}, model |-> 0, tool |-> 0,
            content |-> 0, halted |-> FALSE]

NewEpisode == [status |-> "running", failure |-> "", terminalFailure |-> "",
               cleanupFailure |-> "", evidence |-> "partial",
               cleanup |-> "pending", graded |-> FALSE, replayable |-> FALSE,
               model |-> 0, tool |-> 0, content |-> 0,
               frontiers |-> <<>>, events |-> <<>>, after |-> 0]

\* A document on disk: the run that wrote it, its episode and its receipts.
Doc(e) == [run |-> runs, ep |-> e, receipts |-> receipts, started |-> started]
NoDoc == [run |-> 0, ep |-> NewEpisode, receipts |-> <<>>, started |-> 0]
Absent == [state |-> "absent", doc |-> NoDoc]
Partial == [state |-> "partial", doc |-> NoDoc]
Whole(d) == [state |-> "whole", doc |-> d]

NotInspected == [at |-> "idle", present |-> {}, previous |-> NoDoc, last |-> "",
                 bad |-> FALSE, complete |-> FALSE, quiet |-> FALSE, verdict |-> ""]

Staged == {"closure", "pending"}
Names == {"claim", "terminal"} \cup Staged

------------------------------------------------------------------------------
(* agenthost.Governor and agenthost.Session.                                *)

\* The error of Governor.Admit, "" when the work is admitted.
AdmitError(h, kind, size) ==
    IF h.halted THEN "HOST_ERROR"
    ELSE IF ended THEN "CANCELED"
    ELSE IF \/ size > ContentBudget - h.content
            \/ kind = "model" /\ h.model >= ModelRequests
            \/ kind = "tool" /\ h.tool >= ToolAttempts THEN "BUDGET_EXHAUSTED"
    ELSE ""

\* What an admitted unit of work uses up.
Used(h, kind, size) ==
    [h EXCEPT !.content = @ + size,
              !.model = @ + (IF kind = "model" THEN 1 ELSE 0),
              !.tool = @ + (IF kind = "tool" THEN 1 ELSE 0)]

\* Session.Stop: nothing of the private protocol state survives.
Stop(h) == [h EXCEPT !.stopped = TRUE, !.waiting = FALSE, !.pending = <<>>,
                     !.seen = {}, !.halted = TRUE]

\* Session.Accept: the whole response is checked before any call of it is
\* exposed; a call ID is used once in a trial.
AcceptError(h, r) ==
    IF \/ h.stopped \/ ~h.waiting \/ r.kind = "refused"
       \/ Cardinality({r.calls[i] : i \in DOMAIN r.calls}) # Len(r.calls)
       \/ \E i \in DOMAIN r.calls : r.calls[i] \in h.seen
    THEN "HOST_ERROR"
    ELSE IF r.kind = "oversize" \/ Len(r.calls) > ToolAttempts
    THEN "BUDGET_EXHAUSTED"
    ELSE AdmitError(h, "content", 1)

Accepted(h, r) ==
    LET g == [Used(h, "content", 1)
                 EXCEPT !.seen = @ \cup {r.calls[i] : i \in DOMAIN r.calls},
                        !.pending = r.calls, !.waiting = FALSE]
    IN  IF r.kind = "final" THEN Stop(g) ELSE g

\* status(code).  CANCELED stands for a time-out as well, HOST_ERROR for every
\* code that status() reports as a host error.
StatusOf(code) == CASE code = "CANCELED" -> "canceled"
                    [] code = "BUDGET_EXHAUSTED" -> "budget_exhausted"
                    [] OTHER -> "host_error"

------------------------------------------------------------------------------
(* agentapi.Plan and the checks of the evidence.                            *)

Authorized(t) == 0 <= t /\ t < Expires

Steps == IF lane = "live" THEN MaxRequests ELSE Script
Exhausted == IF lane = "live" THEN "BUDGET_EXHAUSTED" ELSE "HOST_ERROR"

\* Effects a fresh world commits when the events' inputs are replayed on it.
ReplayedEffects(e) ==
    Cardinality({i \in DOMAIN e.events : e.events[i].committed})

Ungraded(e) == \/ e.status # "completed"
               \/ e.failure # "" \/ e.terminalFailure # "" \/ e.cleanupFailure # ""
               \/ ~e.graded

Sealed(e) == e.cleanup = "complete" /\ e.evidence = "complete" /\ e.replayable

\* replayWorld: the usage, the delivery frontiers and a replay of every event
\* against the terminal world.  "terminal" asks for a sealed episode as well.
ReplayError(e, terminal) ==
    IF \/ Ungraded(e)
       \/ terminal /\ ~Sealed(e) THEN "EVIDENCE_PARTIAL"
    ELSE IF \/ Len(e.events) > ToolAttempts \/ e.tool # Len(e.events)
            \/ e.model # Len(e.frontiers) \/ e.model \notin 1..ModelRequests
            \/ e.content > ContentBudget
            \/ e.frontiers[1] # 0
            \/ e.frontiers[Len(e.frontiers)] # Len(e.events)
            \/ \E i \in 2..Len(e.frontiers) : e.frontiers[i] < e.frontiers[i - 1]
            \/ \E i \in DOMAIN e.events :
                  ~e.events[i].delivered \/ e.events[i].sequence # i
            \/ e.after # ReplayedEffects(e) THEN "EVIDENCE_INVALID"
    ELSE ""

\* verifyLive: one authorized receipt per model request, in the order of time.
ReceiptsMatch(d) ==
    /\ Authorized(d.started)
    /\ Len(d.receipts) = d.ep.model
    /\ Len(d.receipts) \in 1..MaxRequests
    /\ \A i \in DOMAIN d.receipts :
          /\ d.receipts[i].sequence = i
          /\ d.receipts[i].outcome = "response_received"
          /\ Authorized(d.receipts[i].at)
          /\ d.receipts[i].at >= (IF i = 1 THEN d.started ELSE d.receipts[i - 1].at)

VerifyError(d, terminal) ==
    IF lane = "live" /\ (d.ep.status # "completed" \/ d.ep.failure # "")
    THEN "EVIDENCE_PARTIAL"
    ELSE IF lane = "live" /\ ~ReceiptsMatch(d) THEN "EVIDENCE_INVALID"
    ELSE ReplayError(d.ep, terminal)

------------------------------------------------------------------------------
ResetMemory ==
    /\ host' = NewHost /\ client' = [sent |-> 0, stopped |-> FALSE]
    /\ started' = 0 /\ receipts' = <<>> /\ reply' = NoReply
    /\ effects' = 0 /\ ep' = NewEpisode /\ closed' = FALSE

Return(a) == pc' = "done" /\ answer' = a
Goto(p) == pc' = p /\ UNCHANGED answer

\* An error that ends the trial loop: the session stops, the outcome is settled.
Break(h, code) ==
    /\ host' = Stop(h)
    /\ ep' = [ep EXCEPT !.status = StatusOf(code), !.failure = code]
    /\ Goto("settle")

untouched == <<lane, ended, clock, setBack, runs, insp>>

Init ==
    /\ lane \in Lanes /\ pc = "start" /\ ended = FALSE /\ clock = 0
    /\ setBack = FALSE /\ runs = 1
    /\ host = NewHost /\ client = [sent |-> 0, stopped |-> FALSE]
    /\ started = 0 /\ receipts = <<>> /\ reply = NoReply
    /\ effects = 0 /\ ep = NewEpisode /\ closed = FALSE
    /\ made = FALSE /\ files = [n \in Names |-> Absent]
    /\ answer = "none"
    /\ insp = NotInspected

------------------------------------------------------------------------------
(* The recorder.                                                            *)

\* recordLive and recordWithStorage up to Mkdir: an expired approval, a
\* cancelled context or a directory that exists refuses the recording.
Claim ==
    /\ pc = "start"
    /\ \/ /\ ended \/ (lane = "live" /\ ~Authorized(clock)) \/ made
          /\ Return("error") /\ UNCHANGED <<made, started>>
       \/ /\ ~ended /\ (lane = "live" => Authorized(clock)) /\ ~made
          /\ made' = TRUE /\ started' = clock
          /\ Goto("claim")
    /\ UNCHANGED <<untouched, files, host, client, receipts, reply,
                   effects, ep, closed>>

\* writeExclusiveBytes: create, then write, sync and close.  Any step may
\* fail, and a crash in between leaves a partial file.
Write(name, at, next, d) ==
    /\ pc = at
    /\ \/ /\ files[name].state = "absent"
          /\ files' = [files EXCEPT ![name] = Partial] /\ Goto(at)
       \/ /\ files[name].state = "partial"
          /\ files' = [files EXCEPT ![name] = Whole(d)] /\ Goto(next)
       \/ Return("error") /\ UNCHANGED files
    /\ UNCHANGED <<untouched, made, memory>>

WriteClaim == Write("claim", "claim", "provision", Doc(NewEpisode))

\* provision, the host session and, in the live lane, agentapi.New, which
\* asks for the approval again.
Provision ==
    /\ pc = "provision"
    /\ \/ Return("error")
       \/ ~ended /\ (lane = "live" => Authorized(clock)) /\ Goto("request")
    /\ UNCHANGED <<untouched, made, files, memory>>

\* The head of the turn loop and Session.Request.  Once it is admitted, the
\* number of events the request shows to the model is recorded.
Request ==
    /\ pc = "request"
    /\ \/ /\ Len(ep.frontiers) >= Steps
          /\ Break(host, Exhausted)
       \/ /\ Len(ep.frontiers) < Steps
          /\ LET e == AdmitError(host, "model", 0)
            IN  \/ Break(host, "HOST_ERROR")
                \/ e # "" /\ Break(host, e)
                \/ /\ e = ""
                   /\ host' = [Used(host, "model", 0) EXCEPT !.waiting = TRUE]
                   /\ ep' = [ep EXCEPT !.frontiers = Append(@, Len(ep.events))]
                   /\ Goto(IF lane = "live" THEN "exchange" ELSE "script")
    /\ UNCHANGED <<untouched, made, files, client, started, receipts, reply, effects, closed>>

\* MockScript: the next synthetic response.
ScriptedReply ==
    /\ pc = "script"
    /\ reply' \in Replies /\ Goto("accept")
    /\ UNCHANGED <<untouched, made, files, host, client, started, receipts,
                   effects, ep, closed>>

\* Client.Exchange up to the POST boundary, first half: stopped, approval,
\* context, cap, request form.
Exchange ==
    /\ pc = "exchange"
    /\ \/ /\ client.stopped /\ Break(host, "HOST_ERROR") /\ UNCHANGED client
       \/ /\ ~client.stopped /\ ~Authorized(clock)
          /\ Break(host, "HOST_ERROR")
          /\ UNCHANGED client
       \/ /\ ~client.stopped /\ Authorized(clock) /\ ended
          /\ Break(host, "CANCELED") /\ UNCHANGED client
       \/ /\ ~client.stopped /\ Authorized(clock) /\ ~ended
          /\ IF client.sent >= MaxRequests
             THEN /\ Break(host, "BUDGET_EXHAUSTED")
                  /\ client' = [client EXCEPT !.stopped = TRUE]
             ELSE /\ \/ Break(host, "HOST_ERROR")
                     \/ Goto("boundary") /\ UNCHANGED <<host, ep>>
                  /\ UNCHANGED client
    /\ UNCHANGED <<untouched, made, files, started, receipts, reply,
                   effects, closed>>

\* Client.Exchange at the POST boundary: approval and context are read again.
Post ==
    /\ pc = "boundary"
    /\ \/ /\ ~Authorized(clock) \/ ended
          /\ Break(host, IF Authorized(clock) THEN "CANCELED" ELSE "HOST_ERROR")
          /\ UNCHANGED <<client, receipts>>
       \/ /\ Authorized(clock) /\ ~ended
          /\ client' = [client EXCEPT !.sent = @ + 1]
          /\ receipts' = Append(receipts, [sequence |-> client.sent + 1, at |-> clock,
                                          outcome |-> "acceptance_unknown"])
          /\ Goto("posted") /\ UNCHANGED <<host, ep>>
    /\ UNCHANGED <<untouched, made, files, started, reply, effects, closed>>

\* Fault: a POST whose acceptance is unknown is sent again.
ProviderAnswerWrong ==
    /\ pc = "posted"
    /\ \/ Goto("boundary") /\ UNCHANGED <<receipts, reply, client, host, ep>>
       \/ /\ ~ended
          /\ receipts' = [receipts EXCEPT ![Len(receipts)].outcome = "response_received"]
          /\ reply' \in Replies
          /\ Goto("accept") /\ UNCHANGED <<host, ep, client>>
    /\ UNCHANGED <<untouched, made, files, started, effects, closed>>

\* The answer to the POST.  Whatever is not a usable response stops the
\* client for good; nothing is polled or sent again.
ProviderAnswer ==
    /\ pc = "posted"
    /\ \/ /\ \E outcome \in {"acceptance_unknown", "http_error"} :
                receipts' = [receipts EXCEPT ![Len(receipts)].outcome = outcome]
          /\ client' = [client EXCEPT !.stopped = TRUE]
          /\ Break(host, "HOST_ERROR") /\ UNCHANGED reply
       \/ /\ ~ended
          /\ receipts' = [receipts EXCEPT ![Len(receipts)].outcome = "response_received"]
          /\ reply' \in Replies
          /\ Goto("accept") /\ UNCHANGED <<host, ep, client>>
    /\ UNCHANGED <<untouched, made, files, started, effects, closed>>

\* runLoop after a response: every event so far was in the request that was
\* answered, hence delivered; then Session.Accept.
Accept ==
    /\ pc = "accept"
    /\ LET shown == [i \in DOMAIN ep.events |-> [ep.events[i] EXCEPT !.delivered = TRUE]]
           e == AcceptError(host, reply)
           h == IF e = "" THEN Accepted(host, reply) ELSE Stop(host)
       IN  /\ host' = h
           /\ ep' = [ep EXCEPT
                 !.events = shown,
                 !.status = IF e # "" THEN StatusOf(e)
                            ELSE IF reply.kind = "final" THEN "completed" ELSE @,
                 !.failure = IF e # "" THEN e ELSE @]
           /\ Goto(IF e # "" \/ reply.kind = "final" THEN "settle" ELSE "dispatch")
    /\ reply' = NoReply
    /\ UNCHANGED <<untouched, made, files, client, started, receipts,
                   effects, closed>>

\* Session.AdmitTool for the call at the head of the batch: the attempt is
\* used up before the authority of the call is known.
AdmitTool ==
    /\ pc = "dispatch"
    /\ LET e == IF host.stopped \/ host.admitted \/ host.pending = <<>>
                THEN "HOST_ERROR" ELSE AdmitError(host, "tool", 0)
       IN  \/ e # "" /\ Break(host, e)
           \/ /\ e = ""
              /\ host' = [Used(host, "tool", 0) EXCEPT !.admitted = TRUE]
              /\ Goto("call") /\ UNCHANGED ep
    /\ UNCHANGED <<untouched, made, files, client, started, receipts, reply, effects, closed>>

\* Fault: a call that was never answered is recorded as one without effect.
CallToolWrong ==
    /\ pc = "call" /\ ~ended
    /\ effects' \in {effects, effects + 1}
    /\ ep' = [ep EXCEPT !.events = Append(@,
                 [sequence |-> host.tool, committed |-> FALSE, delivered |-> FALSE])]
    /\ Goto("deliver")
    /\ UNCHANGED <<untouched, made, files, host, client, started, receipts, reply,
                   closed>>

\* environment.step.  A call that is refused commits nothing, one that is
\* answered (the synthetic response failure included) commits once; one that
\* fails without an answer may have been committed, and leaves no event.
CallTool ==
    /\ pc = "call"
    /\ \/ /\ ended /\ Break(host, "CANCELED") /\ UNCHANGED effects
       \/ /\ ~ended
          /\ \/ /\ Break(host, "HOST_ERROR")
                /\ effects' \in {effects, effects + 1}
             \/ \E committed \in BOOLEAN :
                   /\ effects' = effects + (IF committed THEN 1 ELSE 0)
                   /\ ep' = [ep EXCEPT !.events = Append(@,
                               [sequence |-> host.tool, committed |-> committed,
                                delivered |-> FALSE])]
                   /\ Goto("deliver") /\ UNCHANGED host
    /\ UNCHANGED <<untouched, made, files, client, started, receipts, reply, closed>>

\* Session.Deliver: the result joins the history of the next request.
Deliver ==
    /\ pc = "deliver"
    /\ LET e == AdmitError(host, "content", 1)
       IN  \/ e # "" /\ Break(host, e)
           \/ Break(host, "HOST_ERROR")
           \/ /\ e = ""
              /\ host' = [Used(host, "content", 1)
                             EXCEPT !.pending = Tail(@), !.admitted = FALSE]
              /\ Goto(IF Len(host.pending) = 1 THEN "request" ELSE "dispatch")
              /\ UNCHANGED ep
    /\ UNCHANGED <<untouched, made, files, client, started, receipts, reply, effects, closed>>

\* The end of runLoop and the first half of finishEpisode, under a context of
\* its own: the usage is frozen, the terminal world read and graded.
Settle ==
    /\ pc = "settle"
    /\ host' = Stop(NewHost)
    /\ LET e == [ep EXCEPT !.model = host.model, !.tool = host.tool,
                          !.content = host.content]
       IN  \/ ep' = [e EXCEPT !.after = effects, !.graded = TRUE]
           \/ ep' = [e EXCEPT !.terminalFailure = "TERMINAL_INSPECTION_FAILED",
                             !.failure = IF @ = "" THEN "TERMINAL_INSPECTION_FAILED"
                                         ELSE @]
    /\ Goto("stage") /\ ended' = FALSE
    /\ UNCHANGED <<lane, clock, setBack, runs, insp, made, files, client, started, receipts, reply, effects, closed>>

\* The stage callback before its write: a completed run must replay.  (Neither
\* the trial's context nor the clock is read again, so both are forgotten.)
Stage ==
    /\ pc = "stage"
    /\ \/ /\ Return("error") /\ UNCHANGED closed
       \/ /\ ep.status = "completed" /\ ep.graded /\ ep.failure = ""
          /\ IF VerifyError(Doc(ep), FALSE) = ""
             THEN closed' = TRUE /\ Goto("closure")
             ELSE Return("error") /\ UNCHANGED closed
       \/ /\ ~(ep.status = "completed" /\ ep.graded /\ ep.failure = "")
          /\ Goto("closure") /\ UNCHANGED closed
    /\ clock' = 0 /\ setBack' = FALSE
    /\ UNCHANGED <<lane, ended, runs, insp, made, files, host, client, started,
                   receipts, reply, effects, ep>>

WriteClosure == Write("closure", "closure", "close", Doc(ep))

\* The rest of finishEpisode and the seal of recordWithStorage.
CloseWorld ==
    /\ pc = "close"
    /\ \/ /\ ep' = [ep EXCEPT !.cleanup = "failed",
                     !.cleanupFailure = "CLEANUP_FAILED",
                     !.failure = IF @ = "" THEN "CLEANUP_FAILED" ELSE @]
          /\ Goto("pending")
       \/ /\ ep' = [ep EXCEPT !.cleanup = "complete", !.replayable = closed,
                     !.evidence = IF closed THEN "complete" ELSE @]
          /\ Goto("pending")
       \/ Return("error") /\ UNCHANGED ep
    /\ effects' = 0
    /\ UNCHANGED <<untouched, made, files, host, client, started, receipts,
                   reply, closed>>

WritePending == Write("pending", "pending", "link", Doc(ep))

\* Fault: a staging file that cannot be removed is passed over.
PublishWrong ==
    /\ \/ /\ pc = "link"
          /\ \/ /\ files' = [files EXCEPT !["terminal"] = files["pending"]]
                /\ Goto("unlink")
             \/ Return("error") /\ UNCHANGED files
       \/ /\ pc = "unlink"
          /\ \E gone \in SUBSET Staged :
                files' = [n \in Names |-> IF n \in gone THEN Absent ELSE files[n]]
          /\ Return("ok")
    /\ UNCHANGED <<untouched, made, memory>>

\* publish: the hard link makes the terminal document appear whole or not at
\* all; then the staging files go, one by one.
Publish ==
    /\ \/ /\ pc = "link"
          /\ \/ /\ files' = [files EXCEPT !["terminal"] = files["pending"]]
                /\ Goto("unlink")
             \/ Return("error") /\ UNCHANGED files
       \/ /\ pc = "unlink"
          /\ \/ /\ files["pending"] # Absent
                /\ files' = [files EXCEPT !["pending"] = Absent] /\ Goto("unlink")
             \/ /\ files["pending"] = Absent
                /\ files' = [files EXCEPT !["closure"] = Absent] /\ Return("ok")
             \/ Return("error") /\ UNCHANGED files
    /\ UNCHANGED <<untouched, made, memory>>

Recorder ==
    \/ Claim \/ WriteClaim \/ Provision
    \/ Request \/ ScriptedReply \/ Exchange \/ Post \/ ProviderAnswer \/ Accept
    \/ AdmitTool \/ CallTool \/ Deliver \/ Settle \/ Stage
    \/ WriteClosure \/ CloseWorld \/ WritePending \/ Publish

------------------------------------------------------------------------------
(* What happens to the recorder.                                            *)

\* The caller cancels, or budgets.episodeSeconds have passed.  What follows the
\* turn loop runs under a context of its own.
ContextEnds ==
    /\ ~ended /\ ended' = TRUE /\ ~(pc = "start" /\ made)
    /\ pc \in {"start", "provision", "request", "exchange", "boundary", "posted",
               "accept", "dispatch", "call", "deliver"}
    /\ UNCHANGED <<lane, pc, clock, setBack, runs, memory, made, files, answer, insp>>

\* Time passes, or the clock is set back, before one of the places that read it.
ReadsClock ==
    /\ lane = "live" /\ ~(pc = "start" /\ made)
    /\ pc \in {"start", "provision", "exchange", "boundary"}

Tick ==
    /\ ReadsClock /\ clock < MaxTime /\ clock' = clock + 1
    /\ UNCHANGED <<lane, pc, ended, setBack, runs, memory, made, files, answer, insp>>

ClockSetBack ==
    /\ ReadsClock /\ ~setBack /\ setBack' = TRUE
    /\ clock > 0 /\ clock' = clock - 1
    /\ UNCHANGED <<lane, pc, ended, runs, memory, made, files, answer, insp>>

Forget == ResetMemory /\ ended' = FALSE /\ clock' = 0 /\ setBack' = FALSE

\* The process dies: only the directory is left.
Crash ==
    /\ pc # "done" /\ pc' = "done" /\ answer' = "none"
    /\ Forget
    /\ UNCHANGED <<lane, runs, made, files, insp>>

\* Another recording with the same directory.
RecordAgain ==
    /\ made /\ pc = "done" /\ runs < MaxRuns /\ runs' = runs + 1
    /\ pc' = "start" /\ answer' = "none"
    /\ Forget
    /\ UNCHANGED <<lane, made, files, insp>>

------------------------------------------------------------------------------
(* InspectDirectory.                                                        *)

Order == <<"claim", "closure", "pending", "terminal">>


Verdict(i, verdict) == [NotInspected EXCEPT !.at = "done", !.quiet = i.quiet,
                                            !.verdict = verdict]

\* The directory is listed once; the members of the listing are then read one
\* by one.  A directory without members is "incomplete_or_running", one
\* without a claim "invalid".  Before the closure is written a listing holds the
\* claim at most, as after a crash at that point: only later ones are explored.
InspectList ==
    /\ insp.at = "idle"
    /\ pc \in {"closure", "close", "pending", "link", "unlink", "done"}
    /\ LET present == {n \in Names : files[n].state # "absent"}
           begun == [insp EXCEPT !.present = present, !.quiet = answer = "ok"]
       IN  insp' = IF ~made THEN Verdict(begun, "not_started")
                   ELSE IF present = {} THEN Verdict(begun, "incomplete_or_running")
                   ELSE IF "claim" \notin present THEN Verdict(begun, "invalid")
                   ELSE [begun EXCEPT !.at = "claim"]
    /\ UNCHANGED <<lane, pc, ended, clock, setBack, runs, memory, made, files, answer>>

\* inspectedArtifact.core: what staging and publication must agree on.
Core(d) == [d EXCEPT !.ep.cleanup = "", !.ep.evidence = "", !.ep.replayable = FALSE,
                     !.ep.cleanupFailure = "",
                     !.ep.failure = IF @ = "CLEANUP_FAILED" THEN "" ELSE @]

\* Fault: a sealed document counts before it is published.
JudgedWrong(i, n, f) ==
    LET whole == f.state = "whole"
        error == VerifyError(f.doc, n # "closure")
    IN  [i EXCEPT
           !.bad = @ \/ ~whole \/ error \notin {"", "EVIDENCE_PARTIAL"},
           !.previous = IF whole THEN f.doc ELSE @,
           !.last = IF whole THEN n ELSE @,
           !.complete = @ \/ (whole /\ error = "" /\ Sealed(f.doc.ep))]

\* What a member that was listed adds to the judgement: it must be whole, agree
\* with the member read before it, and verify (or be honestly partial).
Judged(i, n, f) ==
    LET whole == f.state = "whole"
        error == VerifyError(f.doc, n # "closure")
        conflict == /\ i.last # ""
                    /\ \/ Core(i.previous) # Core(f.doc)
                       \/ i.last = "pending" /\ n = "terminal" /\ i.previous # f.doc
    IN  [i EXCEPT
           !.bad = @ \/ ~whole \/ conflict \/ error \notin {"", "EVIDENCE_PARTIAL"},
           !.previous = IF whole THEN f.doc ELSE @,
           !.last = IF whole THEN n ELSE @,
           !.complete = @ \/ /\ whole /\ n = "terminal"
                             /\ error = "" /\ Sealed(f.doc.ep)]

\* One member is read.  A claim that is gone or torn ends the inspection, the
\* last member of the listing closes it.
InspectRead ==
    /\ insp.at \in Names
    /\ LET n == insp.at
           rest == {m \in insp.present : \E i, j \in DOMAIN Order :
                       i < j /\ Order[i] = n /\ Order[j] = m}
           read == IF n = "claim" THEN insp ELSE Judged(insp, n, files[n])
       IN  insp' = IF n = "claim" /\ files[n].state # "whole"
                   THEN Verdict(insp, "invalid")
                   ELSE IF rest # {}
                   THEN [read EXCEPT !.at = CHOOSE m \in rest :
                            \A o \in rest : \E i, j \in DOMAIN Order :
                                i <= j /\ Order[i] = m /\ Order[j] = o]
                   ELSE Verdict(insp,
                          IF read.bad THEN "invalid"
                          ELSE IF ~read.complete THEN "incomplete_or_running"
                          ELSE IF insp.present \cap Staged # {}
                          THEN "published_with_residue" ELSE "published")
    /\ UNCHANGED <<lane, pc, ended, clock, setBack, runs, memory, made, files, answer>>

Inspector == InspectList \/ InspectRead

Next ==
    \/ Recorder \/ ContextEnds \/ Tick \/ ClockSetBack \/ Crash \/ RecordAgain
    \/ Inspector

Spec == Init /\ [][Next]_vars

------------------------------------------------------------------------------
\* A run that completes produces evidence the verifier accepts: its usage, its
\* delivery frontiers, its receipts and its replay all agree, whatever calls
\* the model asked for and whichever of them failed.  A clock that was set
\* back may cost a live run its evidence, nothing else may.
CompletedRunVerifies ==
    (pc = "stage" /\ ep.status = "completed" /\ ep.failure = "" /\ ~setBack)
        => VerifyError(Doc(ep), FALSE) = ""

\* Every POST that left the process has its receipt, in order; all but the
\* last were answered with a usable response (a POST whose acceptance is
\* unknown is the last one), and there are no more of them than was approved.
EveryPostAccounted ==
    /\ client.sent = Len(receipts) /\ client.sent <= MaxRequests
    /\ \A i \in DOMAIN receipts : receipts[i].sequence = i
    /\ \A i \in 1..(Len(receipts) - 1) : receipts[i].outcome = "response_received"

\* A positive inspection, even one that raced with the recorder or followed a
\* crash, describes a terminal document that is on disk, sealed, verifiable,
\* and written by the run that holds the claim.
PositiveIsSealed ==
    insp.verdict \in {"published", "published_with_residue"} =>
        /\ files["terminal"].state = "whole"
        /\ Sealed(files["terminal"].doc.ep)
        /\ VerifyError(files["terminal"].doc, TRUE) = ""
        /\ files["claim"].doc.run = files["terminal"].doc.run

\* A caller that was told the recording succeeded finds it: nothing but the
\* claim and the terminal document it got, and an inspection that starts
\* after the recorder ended reports a sealed trial as published.
AcknowledgedIsPublished ==
    /\ answer = "ok" =>
          /\ files["terminal"] = Whole(Doc(ep))
          /\ \A n \in Staged : files[n] = Absent
    /\ (insp.at = "done" /\ insp.quiet /\ Sealed(files["terminal"].doc.ep))
          => insp.verdict \in {"published", "published_with_residue"}

\* Inspect and the recorder agree: nothing is found published that is not sealed,
\* and nothing acknowledged is not found.
InspectionHolds == PositiveIsSealed /\ AcknowledgedIsPublished
==============================================================================
