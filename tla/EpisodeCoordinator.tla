------------------------- MODULE EpisodeCoordinator -------------------------
(***************************************************************************)
(* The remote Episode coordinator: durable tasks, leases and fencing       *)
(* tokens on top of the Episode Journal.                                   *)
(*                                                                         *)
(* Methods of *Journal are transactions on one SQLite connection; what is  *)
(* not atomic is explicit here.  Claim and Heartbeat read the wall clock   *)
(* before they wait for the connection; Submit is two transactions, and    *)
(* the second may wait for the connection it holds itself.  Workers and    *)
(* clients may send any request at any time, late or twice; lost requests  *)
(* are requests never sent, and a lost reply is a reply never acted upon.  *)
(***************************************************************************)
EXTENDS EpisodeJournal

CONSTANTS
  Workers,        \* callers of Claim and Heartbeat
  Submitters,     \* callers of Submit
  MaxAttempts,    \* limits.MaxEpisodeAttempts
  Leases,         \* lease durations, in clock ticks
  TicksPerSecond, \* resolution of the clock below a second
  Places,         \* the second and the decimal places a tick falls into, in ticks
  MaxSetBack,     \* how far the system clock may be set back, in ticks
  MaxTime         \* bound of the modelled wall clock

ASSUME CoordinatorAssumption ==
  /\ MaxAttempts \in Nat \ {0}
  /\ Leases \subseteq Nat \ {0}
  /\ TicksPerSecond \in Nat \ {0}
  /\ TicksPerSecond \in Places /\ Places \subseteq Nat \ {0}
  /\ MaxTime \in Nat
  /\ MaxSetBack \in Nat
  /\ None \notin Workers \cup Submitters

VARIABLES
  clock,          \* the latest time the wall clock has shown, in ticks
  task,           \* table episode_tasks
  attempt,        \* table episode_attempts, keyed by (episode, attempt number)
  call,           \* the Claim or Heartbeat each worker has in flight
  submit,         \* the Submit each submitter has in flight
  conn            \* the Submit that keeps the connection while it waits for it

coordVars == <<clock, task, attempt, call, submit, conn>>
vars == <<journalVars, coordVars>>

Profiles == {"hermetic", "external"}
TaskStates == {"QUEUED", "LEASED", "COMPLETED", "CANCELLED", "FAILED", "COMMIT_UNKNOWN"}
AttemptStates == {"LEASED", "COMPLETED", "FAILED", "CANCELLED", "EXPIRED", "COMMIT_UNKNOWN"}
CommitStates == {"NOT_STARTED", "NO_EFFECT", "COMMITTED", "UNKNOWN"}
Numbers == 1..MaxAttempts

\* An attempt ID is random and never reused: it is the attempt's number, 0 is ''.
Task == [state : TaskStates \cup {"ABSENT"}, profile : Profiles, max : Numbers,
         count : 0..MaxAttempts, fence : Nat, active : 0..MaxAttempts,
         cancel : BOOLEAN, final : 0..MaxAttempts,
         digest : Evidence \cup {None}, created : Nat, timely : BOOLEAN]
NoTask == [state |-> "ABSENT", profile |-> "hermetic", max |-> 1, count |-> 0,
           fence |-> 0, active |-> 0, cancel |-> FALSE, final |-> 0,
           digest |-> None, created |-> 0, timely |-> TRUE]

Attempt == [state : AttemptStates \cup {"ABSENT"}, commit : CommitStates,
            fence : Nat, lease : Nat, created : Nat, timely : BOOLEAN]
NoAttempt == [state |-> "ABSENT", commit |-> "NOT_STARTED", fence |-> 0,
              lease |-> 0, created |-> 0, timely |-> TRUE]

Call == [kind : {"none", "claim", "heartbeat"}, now : Nat]
NoCall == [kind |-> "none", now |-> 0]

Submit == [on : Episodes \cup {None}, reserved : BOOLEAN]
NoSubmit == [on |-> None, reserved |-> FALSE]

CoordInit ==
  /\ clock = 0
  /\ task = [e \in Episodes |-> NoTask]
  /\ attempt = [e \in Episodes |-> [n \in Numbers |-> NoAttempt]]
  /\ call = [w \in Workers |-> NoCall]
  /\ submit = [s \in Submitters |-> NoSubmit]
  /\ conn = None

Init == JournalInit /\ CoordInit

\* BeginTx returns only when no call keeps the single connection.
Connected == conn = None

-----------------------------------------------------------------------------
(***************************************************************************)
(* Timestamps.  Columns hold RFC3339Nano text, whose trailing zeros are    *)
(* dropped, point included, and 'Z' sorts after digits and point: in SQL's *)
(* text comparison a time cut to fewer decimals comes after every time it  *)
(* is a cut of, and else the order is that of time.                        *)
(***************************************************************************)
Second(t) == t \div TicksPerSecond

\* b is a with its last decimals, or its whole fraction, cut off.
Cut(a, b) == b # a /\ \E place \in Places : b = a - (a % place)

TextLE(a, b) ==
  \/ Second(a) < Second(b)
  \/ Second(a) = Second(b) /\ IF a <= b THEN ~Cut(b, a) ELSE Cut(a, b)

\* Fault: the operands of the comparison are swapped.
StampLESwapped(a, b) == TextLE(b, a)

\* The comparison of two timestamps in SQL.
StampLE(a, b) == TextLE(a, b)

\* What a reading of the clock may be: it was perhaps set back meanwhile.
Readings == {t \in 0..clock : clock - t <= MaxSetBack}

Tick ==
  /\ clock < MaxTime
  /\ clock' = clock + 1
  /\ UNCHANGED <<journalVars, task, attempt, call, submit, conn>>

-----------------------------------------------------------------------------
(***************************************************************************)
(* Submit.                                                                 *)
(***************************************************************************)

\* First transaction: createOrLoad.
SubmitReserve(s, e, q) ==
  /\ Connected
  /\ submit[s] = NoSubmit
  /\ \/ /\ \E now \in Readings : CreateRow(e, q, now)
        /\ submit' = [submit EXCEPT ![s] = [on |-> e, reserved |-> TRUE]]
     \/ LoadRow(e, q) /\ submit' = [submit EXCEPT ![s] = [on |-> e, reserved |-> FALSE]]
  /\ UNCHANGED <<run, answered, clock, task, attempt, call, conn>>

\* Second transaction of the Submit that created the Episode.
SubmitTask(s, profile, max) ==
  LET e == submit[s].on
  IN /\ Connected
     /\ e # None
     /\ task[e].state = "ABSENT"
     /\ submit[s].reserved
     /\ \E now \in Readings :
          /\ task' = [task EXCEPT ![e] = [NoTask EXCEPT !.state = "QUEUED",
                        !.profile = profile, !.max = max, !.created = now]]
          /\ written' = WrittenAt({e}, now)
     /\ submit' = [submit EXCEPT ![s] = NoSubmit]
     /\ UNCHANGED <<episode, events, run, answered, clock, attempt, call, conn>>

\* The task exists: the same policy is answered with it, another conflicts.
SubmitRepeat(s) ==
  LET e == submit[s].on
  IN /\ Connected
     /\ e # None
     /\ task[e].state # "ABSENT"
     /\ submit' = [submit EXCEPT ![s] = NoSubmit]
     /\ UNCHANGED <<journalVars, clock, task, attempt, call, conn>>

\* Fault: the Episode is adopted for what it looks like, CREATED at sequence 0.
SubmitAdopt(s) ==
  LET e == submit[s].on
  IN /\ e # None
     /\ task[e].state = "ABSENT"
     /\ ~submit[s].reserved
     /\ Holds(e, "CREATED", 0)
     /\ task' = [task EXCEPT ![e] = [NoTask EXCEPT !.state = "QUEUED", !.created = clock]]
     /\ submit' = [submit EXCEPT ![s] = NoSubmit]
     /\ UNCHANGED <<journalVars, clock, attempt, call, conn>>

\* The Episode exists without a task: Journal.Get asks the pool for a second
\* connection while the open transaction keeps the only one.
SubmitBlock(s) ==
  LET e == submit[s].on
  IN /\ Connected
     /\ e # None
     /\ task[e].state = "ABSENT"
     /\ ~submit[s].reserved
     /\ conn' = s
     /\ UNCHANGED <<journalVars, clock, task, attempt, call, submit>>

\* The caller gives up: its context is cancelled and its transaction rolled back.
SubmitAbandon(s) ==
  /\ submit[s] # NoSubmit
  /\ submit' = [submit EXCEPT ![s] = NoSubmit]
  /\ conn' = IF conn = s THEN None ELSE conn
  /\ UNCHANGED <<journalVars, clock, task, attempt, call>>

\* The coordinator process restarts: rows survive, calls in flight do not.
Restart ==
  /\ call' = [w \in Workers |-> NoCall]
  /\ submit' = [s \in Submitters |-> NoSubmit]
  /\ conn' = None
  /\ UNCHANGED <<journalVars, clock, task, attempt>>

-----------------------------------------------------------------------------
(***************************************************************************)
(* recoverExpiredTx, as the rows it leaves behind at a given time.         *)
(***************************************************************************)
\* Fault: every leased task counts as expired.
ExpiredAlways(e, now) == task[e].state = "LEASED"

Expired(e, now) ==
  /\ task[e].state = "LEASED"
  /\ attempt[e][task[e].active].state = "LEASED"
  /\ StampLE(attempt[e][task[e].active].lease, now)

\* Fault: the budget is compared with <= and grants one attempt too many.
FateOverBudget(e) ==
  <<"EXPIRED", "NO_EFFECT", IF task[e].count <= task[e].max THEN "QUEUED" ELSE "FAILED">>

\* Fault: external work is requeued like hermetic work.
FateOfAnyProfile(e) ==
  IF task[e].cancel THEN <<"CANCELLED", "NO_EFFECT", "CANCELLED">>
  ELSE <<"EXPIRED", "NO_EFFECT", IF task[e].count < task[e].max THEN "QUEUED" ELSE "FAILED">>

\* Where an expired task goes: the attempt's state, its commit state, the task's.
Fate(e) ==
  IF task[e].profile = "external"
  THEN <<"COMMIT_UNKNOWN", "UNKNOWN", "COMMIT_UNKNOWN">>
  ELSE IF task[e].cancel THEN <<"CANCELLED", "NO_EFFECT", "CANCELLED">>
  ELSE <<"EXPIRED", "NO_EFFECT", IF task[e].count < task[e].max THEN "QUEUED" ELSE "FAILED">>

RecoveredTask(now) ==
  [e \in Episodes |-> IF Expired(e, now)
     THEN [task[e] EXCEPT !.state = Fate(e)[3], !.active = 0,
                          !.timely = Timely(task[e], now)]
     ELSE task[e]]

RecoveredAttempt(now) ==
  [e \in Episodes |-> IF Expired(e, now)
     THEN [attempt[e] EXCEPT ![task[e].active].state = Fate(e)[1],
                             ![task[e].active].commit = Fate(e)[2],
                             ![task[e].active].timely = Timely(attempt[e][task[e].active], now)]
     ELSE attempt[e]]

\* Fault: the task is cancelled without its Episode.
CancelParentsNot(S, now) == UNCHANGED <<episode, events>>

\* Fault: the Episode row is cancelled without its event.
CancelParentsSilently(S, now) ==
  /\ episode' = [e \in Episodes |-> IF e \in S /\ episode[e].status = "CREATED"
       THEN [episode[e] EXCEPT !.status = "CANCELLED", !.sequence = 1,
                               !.timely = Timely(episode[e], now)]
       ELSE episode[e]]
  /\ UNCHANGED events

\* cancelParentTx: a task ends CANCELLED only with its Episode, CREATED till then.
CancelParents(S, now) ==
  /\ \A e \in S : Holds(e, "CREATED", 0) \/ episode[e].status = "CANCELLED"
  /\ episode' = [e \in Episodes |-> IF e \in S /\ episode[e].status = "CREATED"
       THEN [episode[e] EXCEPT !.status = "CANCELLED", !.sequence = 1,
                               !.timely = Timely(episode[e], now)]
       ELSE episode[e]]
  /\ events' = [e \in Episodes |-> IF e \in S /\ episode[e].status = "CREATED"
       THEN [events[e] EXCEPT ![1] = Event("CREATED", "CANCELLED")]
       ELSE events[e]]

CancelledByRecovery(now) == {e \in Episodes : Expired(e, now) /\ Fate(e)[3] = "CANCELLED"}

\* RecoverExpired reads the clock inside its transaction.
RecoverExpired ==
  /\ Connected
  /\ \E now \in Readings :
       /\ CancelParents(CancelledByRecovery(now), now)
       /\ task' = RecoveredTask(now)
       /\ attempt' = RecoveredAttempt(now)
       /\ written' = WrittenAt({e \in Episodes : Expired(e, now)}, now)
  /\ UNCHANGED <<run, answered, clock, call, submit, conn>>

-----------------------------------------------------------------------------
(***************************************************************************)
(* Claim and Heartbeat: the clock is read first, the transaction follows.  *)
(***************************************************************************)
ReadClock(w, kind) ==
  /\ call[w] = NoCall
  /\ \E now \in Readings : call' = [call EXCEPT ![w] = [kind |-> kind, now |-> now]]
  /\ UNCHANGED <<journalVars, clock, task, attempt, submit, conn>>

\* QUEUED, not cancelled, of the profile asked for, and created first.
Claimable(rows, profiles) ==
  LET open == {e \in Episodes : /\ rows[e].state = "QUEUED"
                                /\ ~rows[e].cancel
                                /\ rows[e].profile \in profiles}
  IN {e \in open : \A f \in open : StampLE(rows[e].created, rows[f].created)}

\* Fault: a retry keeps the number, and so the row, of the attempt before it.
NextAttemptReused(row) == IF row.count = 0 THEN 1 ELSE row.count

\* The number of the attempt a claim creates.
NextAttempt(row) == row.count + 1

\* Fault: the fence is only raised when the task changes hands.
NextFenceKept(row) == IF row.fence = 0 THEN 1 ELSE row.fence

\* The fencing token of the attempt a claim creates.
NextFence(row) == row.fence + 1

\* ClaimProfile: recover what expired, then grant the oldest task.  Episodes
\* created at the same instant are taken in any order, as their IDs may be.
\* Without a claimable task the transaction is rolled back, recovery included.
Claim(w, lease, profiles) ==
  LET now == call[w].now
      rows == RecoveredTask(now)
  IN /\ Connected
     /\ call[w].kind = "claim"
     /\ CancelParents(CancelledByRecovery(now), now)
     /\ \E e \in Claimable(rows, profiles) :
          LET n == NextAttempt(rows[e])
              fence == NextFence(rows[e])
          IN /\ n \in Numbers
             /\ task' = [rows EXCEPT ![e].state = "LEASED", ![e].count = n,
                                     ![e].fence = fence, ![e].active = n,
                                     ![e].timely = Timely(rows[e], now)]
             /\ attempt' = [RecoveredAttempt(now) EXCEPT ![e][n] =
                  [state |-> "LEASED", commit |-> "NOT_STARTED", fence |-> fence,
                   lease |-> now + lease, created |-> now, timely |-> TRUE]]
             /\ written' = WrittenAt({e} \cup {f \in Episodes : Expired(f, now)}, now)
     /\ call' = [call EXCEPT ![w] = NoCall]
     /\ UNCHANGED <<run, answered, clock, submit, conn>>

\* ErrNoClaimableEpisode, a heartbeat refused as stale, or a caller that is gone
\* before its transaction begins: nothing is written.
Refused(w) ==
  /\ call[w] # NoCall
  /\ call' = [call EXCEPT ![w] = NoCall]
  /\ UNCHANGED <<journalVars, clock, task, attempt, submit, conn>>

\* Every mutating worker request carries Episode, attempt and fence.
Owns(e, n, fence) ==
  /\ task[e].state = "LEASED"
  /\ task[e].active = n
  /\ task[e].fence = fence

Heartbeat(w, e, n, fence, lease) ==
  LET now == call[w].now
  IN /\ Connected
     /\ call[w].kind = "heartbeat"
     /\ Owns(e, n, fence)
     /\ attempt[e][n].state = "LEASED"
     /\ attempt[e][n].lease > now
     /\ attempt' = [attempt EXCEPT ![e][n].lease = now + lease,
                                   ![e][n].timely = Timely(attempt[e][n], now)]
     /\ written' = WrittenAt({e}, now)
     /\ call' = [call EXCEPT ![w] = NoCall]
     /\ UNCHANGED <<episode, events, run, answered, clock, task, submit, conn>>

-----------------------------------------------------------------------------
(***************************************************************************)
(* CompleteClaim, FailClaim and CancelTask.                                *)
(***************************************************************************)

\* Fault: the cancellation request is not consulted.
MayCompleteCancelled(e, n, fence) ==
  Owns(e, n, fence) /\ \E now \in Readings : attempt[e][n].lease > now

\* The current, uncancelled, unexpired attempt may complete.
MayComplete(e, n, fence) ==
  /\ Owns(e, n, fence)
  /\ ~task[e].cancel
  /\ attempt[e][n].state = "LEASED" /\ attempt[e][n].fence = fence
  /\ \E now \in Readings : attempt[e][n].lease > now

\* First acceptance: attempt, task, parent, five events and Evidence at once.
\* The envelope has passed validateRemoteEnvelope, so its lifecycle is a run's.
CompleteClaim(e, n, fence, d) ==
  /\ Connected
  /\ MayComplete(e, n, fence)
  /\ Holds(e, "CREATED", 0)
  /\ events' = [events EXCEPT ![e] = VerdictLifecycle(Verdict(d))]
  /\ \E now \in Readings :
       /\ episode' = [episode EXCEPT ![e].status = Verdict(d),
                        ![e].sequence = LastSequence, ![e].evidence = d,
                        ![e].timely = Timely(episode[e], now)]
       /\ attempt' = [attempt EXCEPT ![e][n].state = "COMPLETED", ![e][n].commit = "COMMITTED",
                        ![e][n].timely = Timely(attempt[e][n], now)]
       /\ task' = [task EXCEPT ![e].state = "COMPLETED", ![e].active = 0,
                        ![e].final = n, ![e].digest = d,
                        ![e].timely = Timely(task[e], now)]
       /\ written' = WrittenAt({e}, now)
  /\ answered' = [answered EXCEPT ![e] = @ \cup {d}]
  /\ UNCHANGED <<run, clock, call, submit, conn>>

\* Fault: the digest is not compared, and the caller's envelope is answered.
RepeatAnyCompletion(e, n, fence, d) ==
  /\ task[e].state = "COMPLETED"
  /\ task[e].final = n /\ task[e].fence = fence
  /\ answered' = [answered EXCEPT ![e] = @ \cup {d}]
  /\ UNCHANGED <<episode, events, run, written, coordVars>>

\* An exact repeat of the accepted completion is answered from the record, if
\* its readers admit it.
RepeatCompletion(e, n, fence, d) ==
  /\ Connected
  /\ task[e].state = "COMPLETED"
  /\ task[e].final = n /\ task[e].fence = fence /\ task[e].digest = d
  /\ episode[e].timely
  /\ answered' = [answered EXCEPT ![e] = @ \cup {episode[e].evidence}]
  /\ UNCHANGED <<episode, events, run, written, coordVars>>

\* Fault: a cancellation request outranks an unknown commit.
ReportedFateCancelFirst(e, commit) ==
  IF task[e].cancel THEN <<"CANCELLED", "CANCELLED">>
  ELSE IF commit = "UNKNOWN" THEN <<"COMMIT_UNKNOWN", "COMMIT_UNKNOWN">>
  ELSE <<"FAILED", IF task[e].count < task[e].max THEN "QUEUED" ELSE "FAILED">>

\* Where a reported failure takes the attempt and its task.
ReportedFate(e, commit) ==
  IF commit = "UNKNOWN" THEN <<"COMMIT_UNKNOWN", "COMMIT_UNKNOWN">>
  ELSE IF task[e].cancel THEN <<"CANCELLED", "CANCELLED">>
  ELSE <<"FAILED", IF task[e].count < task[e].max THEN "QUEUED" ELSE "FAILED">>

\* FailClaim ends the attempt whether or not its lease is still running.
FailClaim(e, n, fence, commit) ==
  LET states == ReportedFate(e, commit)
  IN /\ Connected
     /\ Owns(e, n, fence)
     /\ attempt[e][n].state = "LEASED" /\ attempt[e][n].fence = fence
     /\ \E now \in Readings :
          /\ attempt' = [attempt EXCEPT ![e][n].state = states[1], ![e][n].commit = commit,
                           ![e][n].timely = Timely(attempt[e][n], now)]
          /\ task' = [task EXCEPT ![e].state = states[2], ![e].active = 0,
                           ![e].timely = Timely(task[e], now)]
          /\ CancelParents(IF states[2] = "CANCELLED" THEN {e} ELSE {}, now)
          /\ written' = WrittenAt({e}, now)
     /\ UNCHANGED <<run, answered, clock, call, submit, conn>>

\* CancelTask: terminal when queued, a durable request when leased; a task
\* that already ended otherwise is answered as it is, a completed one conflicts.
CancelTask(e) ==
  /\ Connected
  /\ task[e].state \in {"QUEUED", "LEASED"}
  /\ \E now \in Readings :
       /\ CancelParents(IF task[e].state = "QUEUED" THEN {e} ELSE {}, now)
       /\ task' = [task EXCEPT ![e].cancel = TRUE,
                     ![e].state = IF @ = "QUEUED" THEN "CANCELLED" ELSE @,
                     ![e].timely = Timely(task[e], now)]
       /\ written' = WrittenAt({e}, now)
  /\ UNCHANGED <<run, answered, clock, attempt, call, submit, conn>>

-----------------------------------------------------------------------------
\* The profile filter of a claim: one profile, or either when left empty.
Filters == {{"hermetic"}, {"external"}, Profiles}

WorkerNext ==
  \E w \in Workers :
    \/ \E kind \in {"claim", "heartbeat"} : ReadClock(w, kind)
    \/ \E lease \in Leases, profiles \in Filters : Claim(w, lease, profiles)
    \/ Refused(w)
    \/ \E e \in Episodes, n \in Numbers, fence \in Numbers, lease \in Leases :
         Heartbeat(w, e, n, fence, lease)

ClientNext ==
  \E e \in Episodes :
    \/ \E s \in Submitters, q \in Requests : SubmitReserve(s, e, q)
    \/ CancelTask(e)
    \/ \E n \in Numbers, fence \in Numbers :
         \/ \E d \in Evidence : CompleteClaim(e, n, fence, d) \/ RepeatCompletion(e, n, fence, d)
         \/ \E commit \in {"NO_EFFECT", "UNKNOWN"} : FailClaim(e, n, fence, commit)

SubmitNext ==
  \E s \in Submitters :
    \/ \E profile \in Profiles, max \in Numbers : SubmitTask(s, profile, max)
    \/ SubmitRepeat(s)
    \/ SubmitBlock(s)
    \/ SubmitAbandon(s)

Next ==
  \/ Tick
  \/ WorkerNext
  \/ ClientNext
  \/ SubmitNext
  \/ RecoverExpired
  \/ Restart
  \/ RunnerNext(Readings) /\ UNCHANGED coordVars

Spec == Init /\ [][Next]_vars

-----------------------------------------------------------------------------
(***************************************************************************)
(* Properties.                                                             *)
(***************************************************************************)
Present(e, n) == attempt[e][n].state # "ABSENT"

\* validateTaskRecord, its timestamps: the task and every attempt are updated no
\* earlier than they are created, and no attempt is created before its task.
TaskTimesAdmitted(e) ==
  /\ task[e].timely
  /\ \A n \in Numbers : Present(e, n) =>
       attempt[e][n].timely /\ task[e].created <= attempt[e][n].created

\* validateTaskRecord, the rest: the attempts are 1..attempt_count
\* with increasing fences, and the columns agree with the task's state.
TaskAdmitted(e) ==
  /\ task[e].count <= task[e].max
  /\ \A n \in Numbers :
       /\ Present(e, n) <=> n <= task[e].count
       /\ Present(e, n) => attempt[e][n].fence \in 1..task[e].fence
  /\ task[e].state = "LEASED" =>
       /\ task[e].active = task[e].count
       /\ attempt[e][task[e].count].state = "LEASED"
       /\ attempt[e][task[e].count].fence = task[e].fence
  /\ task[e].state # "LEASED" => task[e].active = 0
  /\ task[e].state = "COMPLETED" =>
       /\ task[e].final = task[e].count
       /\ task[e].digest # None /\ task[e].digest = episode[e].evidence
       /\ attempt[e][task[e].count].state = "COMPLETED"
       /\ attempt[e][task[e].count].commit = "COMMITTED"
  /\ task[e].state # "COMPLETED" => task[e].final = 0 /\ task[e].digest = None

\* No committed history of submissions, claims, late and repeated worker requests,
\* cancellations and recoveries leaves rows whose accounting, lineage or terminal
\* identity validateTaskRecord refuses; and it refuses their timestamps, so that
\* inspect shows nothing of the task, only where time ran backwards between two
\* transactions of its Episode: a clock set back, or a claim or a heartbeat whose
\* reading had become stale when its transaction began.
EveryTaskAdmitted ==
  \A e \in Episodes : task[e].state # "ABSENT" =>
    TaskAdmitted(e) /\ (TimeRanForward(e) => TaskTimesAdmitted(e))

\* A task and its parent Episode end together or not at all: COMPLETED with a
\* verdict, CANCELLED with CANCELLED, any other task leaves its Episode CREATED
\* (CompleteClaim, cancelParentTx; ST-REMOTE-R006).
ParentAgrees ==
  \A e \in Episodes : task[e].state # "ABSENT" =>
    CASE task[e].state = "COMPLETED" -> episode[e].status = Verdict(task[e].digest)
      [] task[e].state = "CANCELLED" -> episode[e].status = "CANCELLED"
      [] OTHER -> Holds(e, "CREATED", 0)

\* No unsafe automatic retry (ST-REMOTE-R005; SPEC-0018 section 2): whatever was
\* tried before the latest attempt is proven without effect, for external work by
\* a worker's own report and never by an expired lease; and COMMIT_UNKNOWN is
\* never collapsed: an attempt of unknown effect is its task's last, and decides it.
RetriesAreSafe ==
  \A e \in Episodes, n \in Numbers :
    /\ n < task[e].count =>
         /\ attempt[e][n].commit = "NO_EFFECT"
         /\ task[e].profile = "external" => attempt[e][n].state = "FAILED"
    /\ attempt[e][n].commit = "UNKNOWN" =>
         n = task[e].count /\ task[e].state = "COMMIT_UNKNOWN"

\* The last instant an attempt's worker may still believe in its lease.  Only
\* an attempt that was not ended by its own report keeps such a belief.
Believed(e, n) ==
  /\ attempt[e][n].state \in {"LEASED", "EXPIRED"}
  /\ attempt[e][n].lease > clock

\* At most one attempt of an Episode holds an unexpired lease (ST-REMOTE-R002),
\* up to the second that comparing timestamps as text may cut off, and also when
\* the system clock is set back: a late reading never takes a lease early.
OneLiveAttemptPerSecond ==
  \A e \in Episodes : \A m, n \in Numbers :
    m # n /\ Believed(e, m) /\ Believed(e, n) =>
      \E k \in {m, n} : Second(attempt[e][k].lease) = Second(clock)

\* What was given up stays given up.  An attempt that has ended is never touched
\* again, so no late heartbeat, completion, failure or recovery reaches past the
\* fence (ST-REMOTE-R003); and from a cancellation request on no attempt is
\* granted, no Evidence accepted, and the request never cleared (ST-REMOTE-R008).
EndedStaysEnded ==
  [][\A e \in Episodes :
       /\ \A n \in Numbers : attempt[e][n].state \notin {"ABSENT", "LEASED"} =>
            attempt'[e][n] = attempt[e][n]
       /\ task[e].cancel =>
            /\ task'[e].cancel
            /\ task'[e].count = task[e].count
            /\ episode'[e].evidence = episode[e].evidence]_vars

-----------------------------------------------------------------------------
(***************************************************************************)
(* The coordinator keeps its promise.                                      *)
(***************************************************************************)
PhaseOf == [ABSENT |-> "absent", QUEUED |-> "open", LEASED |-> "held",
            COMPLETED |-> "accepted", CANCELLED |-> "withdrawn",
            FAILED |-> "exhausted", COMMIT_UNKNOWN |-> "doubtful"]

Promise == INSTANCE EpisodePromise WITH
  phase <- [e \in Episodes |-> PhaseOf[task[e].state]],
  term <- [e \in Episodes |-> task[e].fence],
  verdict <- [e \in Episodes |-> task[e].digest]

\* Every behaviour of the rows is a behaviour of the promise: grants raise the
\* fence by one, Evidence is accepted once and only from the current holder.
KeepsPromise == Promise!Spec

-----------------------------------------------------------------------------
(***************************************************************************)
(* A statement of the documentation that the code does not keep.           *)
(***************************************************************************)

\* "Submit creates an immutable remotely claimable task" (remote.go:119): a
\* Submit never waits for the connection its own transaction keeps.
SubmitNeverWaitsForItself == conn = None
=============================================================================
