---------------------------- MODULE EpisodeWorker ----------------------------
(* Workers of the remote Episode coordinator (cmd/statetwin: episode worker, *)
(* with the coordinator client of internal/episode): each process polls for  *)
(* a hermetic task, runs it while a second goroutine sends heartbeats, and   *)
(* reports the end.  Requests and replies may be lost, a process may be      *)
(* signalled or killed at any time, and a request whose caller is gone may   *)
(* still reach its transaction.  Any error ends the process; what runs the   *)
(* process again is a supervisor outside the program.                        *)
EXTENDS EpisodeCoordinator

\* An error is told apart from the Evidence of a run.
ASSUME WorkerAssumption == Evidence \cap {"none", "failed", "foreign"} = {}

VARIABLE worker  \* one process per worker identifier

workerVars == <<vars, worker>>

NoHold == [e |-> None, n |-> 0, fence |-> 0]
Fresh == [at |-> "idle",     \* idle, claiming, running, reporting or ended
          held |-> NoHold,   \* the claim being executed
          result |-> "none", \* of the run: Evidence, "failed", or "foreign"
          beat |-> "quiet",  \* the heartbeat goroutine: quiet, sent, lost
          stop |-> FALSE,    \* runCtx is cancelled
          signal |-> FALSE,  \* SIGTERM arrived
          past |-> {}]       \* attempts it went on from without an error

Live == {"idle", "claiming", "running", "reporting"}

\* Hermetic tasks have been submitted, and the workers start.
FleetInit ==
  /\ \E q \in Requests : episode = [e \in Episodes |-> NewRow(q, 0)]
  /\ events = [e \in Episodes |-> [i \in Sequences0 |->
       IF i = 0 THEN Created ELSE NoEvent]]
  /\ run = [r \in Runners |-> Idle] /\ answered = [e \in Episodes |-> {}]
  /\ written = [e \in Episodes |-> 0]
  /\ clock = 0
  /\ task = [e \in Episodes |-> [NoTask EXCEPT !.state = "QUEUED", !.max = MaxAttempts]]
  /\ attempt = [e \in Episodes |-> [n \in Numbers |-> NoAttempt]]
  /\ call = [w \in Workers |-> NoCall]
  /\ submit = [s \in Submitters |-> NoSubmit] /\ conn = None
  /\ worker = [w \in Workers |-> Fresh]

Becomes(w, r) == worker' = [worker EXCEPT ![w] = r]
Goes(w, at) == Becomes(w, [worker[w] EXCEPT !.at = at])

\* The process ends; only a request it has in flight outlives it.
Ends(w) == Becomes(w, [Fresh EXCEPT !.at = "ended",
             !.held = IF call[w].kind = "heartbeat" THEN worker[w].held ELSE @])

\* executeHermeticClaim returned nil: the loop goes on, or ends with --once.
MovesOn(w) ==
  \E at \in {"idle", "ended"} :
    Becomes(w, [Fresh EXCEPT !.at = at, !.past = worker[w].past
                  \cup {[e |-> worker[w].held.e, n |-> worker[w].held.n]}])

-----------------------------------------------------------------------------
(* The claim loop of runEpisodeWorker.                                      *)

Start(w) ==
  /\ worker[w].at = "ended" /\ call[w] = NoCall
  /\ Becomes(w, Fresh) /\ UNCHANGED vars

SendClaim(w) ==
  /\ worker[w].at = "idle"
  /\ ReadClock(w, "claim")
  /\ Goes(w, "claiming")

\* The claim is granted.  Its reply, which carries the bundle, may be lost or
\* too large for the client; the bundle may be of another runtime, or not open.
Granted(w) ==
  /\ \E lease \in Leases : Claim(w, lease, {"hermetic"})
  /\ IF worker[w].at # "claiming" THEN UNCHANGED worker
     ELSE LET e == CHOOSE f \in Episodes :
                     task'[f].state = "LEASED" /\ attempt'[f] # attempt[f]
              got == [worker[w] EXCEPT !.held =
                        [e |-> e, n |-> task'[e].count, fence |-> task'[e].fence]]
          IN  \/ Ends(w)
              \/ Becomes(w, [got EXCEPT !.at = "running"])
              \/ \E r \in {"failed", "foreign"} :
                   Becomes(w, [got EXCEPT !.at = "reporting", !.result = r])

\* NO_TASK: poll again, or end with --once; any other error ends the process.
NotGranted(w) ==
  /\ call[w].kind = "claim" /\ Refused(w)
  /\ IF worker[w].at # "claiming" THEN UNCHANGED worker
     ELSE Goes(w, "idle") \/ Ends(w)

-----------------------------------------------------------------------------
(* executeHermeticClaim: the heartbeat goroutine and the run.               *)

Beat(w) ==
  /\ worker[w].at = "running" /\ worker[w].beat = "quiet" /\ ~worker[w].stop
  /\ ReadClock(w, "heartbeat")
  /\ Becomes(w, [worker[w] EXCEPT !.beat = "sent"])

\* A heartbeat error is kept for the end of the run and cancels it.
BeatLost(r) == [r EXCEPT !.beat = "lost", !.stop = TRUE]

\* Fault: the lease is extended, the cancellation request overlooked.
BeatAnsweredWrong(w) ==
  LET h == worker[w].held
  IN /\ call[w].kind = "heartbeat"
     /\ \/ \E lease \in Leases : Heartbeat(w, h.e, h.n, h.fence, lease)
        \/ Refused(w)
     /\ IF worker[w].beat # "sent" THEN UNCHANGED worker
        ELSE Becomes(w, [worker[w] EXCEPT !.beat = "quiet"])

\* The coordinator handles the heartbeat; the worker learns of a cancellation
\* request, or takes the refusal or the lost reply for an error.
BeatAnswered(w) ==
  LET h == worker[w].held
  IN /\ call[w].kind = "heartbeat"
     /\ \/ /\ \E lease \in Leases : Heartbeat(w, h.e, h.n, h.fence, lease)
           /\ IF worker[w].beat # "sent" THEN UNCHANGED worker
              ELSE \/ Becomes(w, BeatLost(worker[w]))
                   \/ /\ ~worker[w].signal
                      /\ Becomes(w, [worker[w] EXCEPT !.beat = "quiet", !.stop = @ \/ task[h.e].cancel])
        \/ /\ Refused(w)
           /\ IF worker[w].beat # "sent" THEN UNCHANGED worker
              ELSE Becomes(w, BeatLost(worker[w]))

\* The reply does not come in time, or the run's context ends while the
\* goroutine waits for it or is about to ask.
BeatGone(w) ==
  /\ worker[w].at \in {"running", "reporting"}
  /\ \/ worker[w].beat = "sent"
     \/ worker[w].beat = "quiet" /\ worker[w].stop /\ worker[w].at = "running"
  /\ Becomes(w, BeatLost(worker[w])) /\ UNCHANGED vars

\* episode.Run returns: Evidence, or an error; cancelled, it returns in the end.
RunEnds(w) ==
  /\ worker[w].at = "running"
  /\ \E r \in Evidence \cup {"failed"} :
       Becomes(w, [worker[w] EXCEPT !.at = "reporting", !.result = r])
  /\ UNCHANGED vars

\* The end is reported once the heartbeat goroutine is done, and only under a
\* context no signal has cancelled.
MayReport(w) ==
  worker[w].at = "reporting" /\ worker[w].beat # "sent" /\ ~worker[w].signal

\* Evidence of a run whose heartbeat failed is dropped; an accepted completion
\* whose reply is lost ends the process like a refused one.
ReportEvidence(w) ==
  LET h == worker[w].held
  IN /\ MayReport(w) /\ worker[w].result \in Evidence /\ worker[w].beat = "quiet"
     /\ CompleteClaim(h.e, h.n, h.fence, worker[w].result)
     /\ MovesOn(w) \/ Ends(w)

\* A run that failed ends the process even when the failure was recorded; a
\* claim of another runtime is handed back, and the loop goes on.
ReportFailure(w) ==
  LET h == worker[w].held
  IN /\ MayReport(w) /\ worker[w].result \in {"failed", "foreign"}
     /\ FailClaim(h.e, h.n, h.fence, "NO_EFFECT")
     /\ \/ Ends(w)
        \/ worker[w].result = "foreign" /\ MovesOn(w)

\* Fault: a claim that could not be handed back is forgotten.
NotReportedWrong(w) ==
  /\ worker[w].at = "reporting" /\ worker[w].beat # "sent"
  /\ IF worker[w].result = "foreign" THEN MovesOn(w) ELSE Ends(w)
  /\ UNCHANGED vars

\* Nothing is recorded: the report was not sent (the heartbeat or a signal
\* forbids it), was lost, or was refused.
NotReported(w) ==
  /\ worker[w].at = "reporting" /\ worker[w].beat # "sent"
  /\ Ends(w)
  /\ UNCHANGED vars

-----------------------------------------------------------------------------
(* What happens to the processes.                                           *)

\* SIGTERM ends a process that polls or waits for its claim, and cancels a run.
Signal(w) ==
  /\ worker[w].at \in Live /\ ~worker[w].signal
  /\ IF worker[w].at \in {"idle", "claiming"}
     THEN Ends(w)
     ELSE Becomes(w, [worker[w] EXCEPT !.signal = TRUE, !.stop = TRUE])
  /\ UNCHANGED vars

\* The process is killed, or a claim is lost on its way.
Dies(w) ==
  /\ worker[w].at \in Live
  /\ Ends(w) /\ UNCHANGED vars

\* The coordinator restarts: whoever waits for a reply gets an error.
CoordinatorRestarts ==
  /\ Restart
  /\ worker' = [w \in Workers |->
       IF worker[w].at = "claiming" THEN [Fresh EXCEPT !.at = "ended"]
       ELSE IF worker[w].beat = "sent" THEN BeatLost(worker[w]) ELSE worker[w]]

\* Users cancel tasks, and anyone may ask for a recovery.
Users ==
  /\ \/ \E e \in Episodes : CancelTask(e)
     \/ RecoverExpired
     \/ Tick
  /\ UNCHANGED worker

Process(w) ==
  \/ Start(w) \/ SendClaim(w) \/ Granted(w) \/ NotGranted(w)
  \/ Beat(w) \/ BeatAnswered(w) \/ BeatGone(w) \/ RunEnds(w)
  \/ ReportEvidence(w) \/ ReportFailure(w) \/ NotReported(w)
  \/ Signal(w) \/ Dies(w)

FleetNext ==
  \/ \E w \in Workers : Process(w)
  \/ CoordinatorRestarts
  \/ Users

\* What a live process, its handler and its supervisor do when scheduled.  A run
\* need not end by itself, but one whose context is cancelled does.
Scheduled(w) ==
  \/ Start(w) \/ NotGranted(w) \/ Beat(w) \/ BeatAnswered(w)
  \/ worker[w].stop /\ RunEnds(w)
  \/ ReportEvidence(w) \/ ReportFailure(w) \/ NotReported(w)

\* Time passes, every process is scheduled and started again; and again and
\* again some process asks for a task, and some claim reaches its transaction.
FleetFairness ==
  /\ WF_workerVars(Tick /\ UNCHANGED worker)
  /\ \A w \in Workers : WF_workerVars(Scheduled(w))
  /\ SF_workerVars(\E w \in Workers : SendClaim(w))
  /\ SF_workerVars(\E w \in Workers : Granted(w))

FleetSpec == FleetInit /\ [][FleetNext]_workerVars /\ FleetFairness

-----------------------------------------------------------------------------
Holding(w) == worker[w].at \in {"running", "reporting"}

\* No attempt is executed by two processes, whatever was lost, expired, or
\* granted to a caller that is gone; and what a process executes is an attempt
\* granted under the very fence it will report (Claim, executeHermeticClaim).
OneProcessPerAttempt ==
  \A v, w \in Workers : Holding(v) /\ Holding(w) =>
    LET g == worker[v].held
        h == worker[w].held
    IN  /\ g.e = h.e /\ g.n = h.n => v = w
        /\ attempt[h.e][h.n].fence = h.fence

\* A process goes on to its next claim, or ends without an error, only when
\* each attempt it executed is over in the journal; an attempt nobody can end
\* any more, its report unsent, lost or refused, always cost its process.
MovesOnWhenOver ==
  \A w \in Workers : \A a \in worker[w].past :
    attempt[a.e][a.n].state \in {"COMPLETED", "FAILED", "CANCELLED"}

\* What a worker owes its claims: nobody else runs one, and none is left behind
\* before it is over (runEpisodeWorker).
WorkersKeepTheirClaims == OneProcessPerAttempt /\ MovesOnWhenOver

\* A cancellation reaches the worker of a run that would not end by itself:
\* the next heartbeat tells it, or fails and stops the run as well.
CancelReachesWorker ==
  \A w \in Workers : \A e \in Episodes :
    (worker[w].at = "running" /\ worker[w].held.e = e /\ task[e].cancel)
      ~> worker[w].at # "running"

\* The lease of e's attempt n ended in an earlier second.
Overdue(e, n) ==
  /\ task[e].state = "LEASED" /\ task[e].active = n
  /\ Second(attempt[e][n].lease) < Second(clock)

Retryable(e) ==
  task[e].profile = "hermetic" /\ ~task[e].cancel /\ task[e].count < task[e].max

\* Work whose process is gone does not wait for a user: while attempts are left
\* an overdue lease is taken back by the claims of the processes that poll.
OverdueWorkRetried ==
  \A e \in Episodes, n \in 1..(MaxAttempts - 1) :
    (Overdue(e, n) /\ Retryable(e)) ~>
      ~(task[e].state = "LEASED" /\ task[e].active = n /\ Retryable(e))
=============================================================================
