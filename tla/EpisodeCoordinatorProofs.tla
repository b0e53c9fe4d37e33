---------------------- MODULE EpisodeCoordinatorProofs ----------------------
(***************************************************************************)
(* What holds of the Episode Journal for any number of Episodes, requests, *)
(* Evidence digests and concurrent runners; built on it, of the remote     *)
(* coordinator for any number of Episodes, workers, submitters and         *)
(* attempts, any leases and any readings of the clock: readers refuse rows *)
(* for timestamps alone, and only where time ran backwards; retries are    *)
(* safe, leases exclude each other, tasks and Episodes end together, and   *)
(* EpisodePromise is kept; and, built on that, what its two                *)
(* kinds of user may rely on: a GetTask torn between its queries, and      *)
(* worker processes, whatever is lost, killed, cancelled or set back.      *)
(***************************************************************************)
EXTENDS TaskInspection, EpisodeWorker, TLAPS

-----------------------------------------------------------------------------
(***************************************************************************)
(* The Journal by itself, JournalSpec.                                     *)
(***************************************************************************)

\* How many transitions lead to a status on the way to a verdict.
Depth == [CREATED |-> 0, PROVISIONING |-> 1, READY |-> 2, RUNNING |-> 3,
          EVALUATING |-> 4, SUCCEEDED |-> 5, ASSERTION_FAILED |-> 5]

\* The event that leads to the i-th status of an unfinished run.
Step(i) == VerdictLifecycle("SUCCEEDED")[i]

\* A run's sequence number is the depth of its status.
RunsAtDepth ==
  \A r \in Runners : run[r].on # None =>
    /\ run[r].current \in Progress \cup {"SUCCEEDED", "ASSERTION_FAILED"}
    /\ run[r].sequence = Depth[run[r].current]

\* No two runners execute the same Episode.
RunsExclusive ==
  \A r, s \in Runners : r # s /\ run[r].on # None => run[r].on # run[s].on

\* A run that reached a verdict has its Evidence in the Journal.
FinishedHasEvidence ==
  \A r \in Runners : run[r].on # None /\ run[r].current \notin Progress =>
    episode[run[r].on].evidence # None

\* An unfinished record has taken the steps that lead to its status.
UnfinishedOnCourse ==
  \A e \in Episodes : episode[e].status \in Progress =>
    /\ episode[e].sequence = Depth[episode[e].status]
    /\ \A i \in 0..episode[e].sequence : events[e][i] = Step(i)

\* An Episode that was never reserved has no rows at all.
AbsentHasNothing ==
  \A e \in Episodes : ~Exists(e) =>
    episode[e].evidence = None /\ \A i \in Sequences0 : events[e][i] = NoEvent

\* The variables of the Journal but the times have their types.
RowsTyped ==
  /\ episode \in [Episodes -> Row]
  /\ events \in [Episodes -> [Sequences0 -> Events]]
  /\ run \in [Runners -> Run]
  /\ answered \in [Episodes -> SUBSET Evidence]

\* What is stored, timestamps aside, is what the readers demand.
RecordsReadable ==
  \A e \in Episodes : Exists(e) => EvidenceAdmitted(e) /\ LifecycleAdmitted(e)

RunsOK ==
  RunnerMirrorsJournal /\ RunsAtDepth /\ RunsExclusive /\ FinishedHasEvidence

RecordsOK == RecordsReadable /\ UnfinishedOnCourse /\ AbsentHasNothing

JournalInv == RowsTyped /\ RunsOK /\ RecordsOK /\ AnswersAgree

-----------------------------------------------------------------------------
\* The literal rows of the model have their types.
LEMMA LiteralTypes ==
  /\ NoEvent \in Events /\ Created \in Events
  /\ \A from, to \in Statuses : Event(from, to) \in Events
  /\ \A i \in Sequences0 : Step(i) \in Events
  /\ Sequences0 = 0..5
  /\ Created # NoEvent /\ \A from, to \in Statuses : Event(from, to) # NoEvent
<1>1. Sequences0 = 0..5
  BY DEF Sequences0, LastSequence
<1>2. NoEvent \in Events /\ Created \in Events
  BY DEF NoEvent, Created, Event, Events, Statuses, Progress
<1>3. \A from, to \in Statuses : Event(from, to) \in Events
  BY DEF Event, Events
<1>4. Created # NoEvent
  BY DEF NoEvent, Created, Event
<1>5. \A from, to \in Statuses : Event(from, to) # NoEvent
  BY DEF NoEvent, Event, Statuses, Progress, Terminal
<1>6. \A i \in Sequences0 : Step(i) \in Events
  BY <1>1, <1>2, <1>3 DEF Step, VerdictLifecycle, Statuses, Progress, Terminal
<1> QED
  BY <1>1, <1>2, <1>3, <1>4, <1>5, <1>6

\* A lifecycle with a verdict, event by event, is a legal chain.
LEMMA VerdictChain ==
  ASSUME NEW v \in {"SUCCEEDED", "ASSERTION_FAILED"}
  PROVE  LET log == VerdictLifecycle(v)
         IN /\ log[0] = Created /\ log[5].to = v
            /\ \A i \in 1..5 : /\ log[i].from = log[i - 1].to
                              /\ Allowed(log[i].from, log[i].to)
<1> DEFINE log == VerdictLifecycle(v)
<1>1. log[0] = Created
  BY LiteralTypes DEF VerdictLifecycle
<1>2. log[1] = Event("CREATED", "PROVISIONING")
  BY LiteralTypes DEF VerdictLifecycle
<1>3. log[2] = Event("PROVISIONING", "READY")
  BY LiteralTypes DEF VerdictLifecycle
<1>4. log[3] = Event("READY", "RUNNING")
  BY LiteralTypes DEF VerdictLifecycle
<1>5. log[4] = Event("RUNNING", "EVALUATING")
  BY LiteralTypes DEF VerdictLifecycle
<1>6. log[5] = Event("EVALUATING", v)
  BY LiteralTypes DEF VerdictLifecycle
<1> HIDE DEF log
<1>7. \A i \in 1..5 : log[i].from = log[i - 1].to /\ Allowed(log[i].from, log[i].to)
  <2> TAKE i \in 1..5
  <2>1. CASE i = 1
    <3>1. log[0].to = "CREATED" /\ log[1].from = "CREATED" /\ log[1].to = "PROVISIONING"
      <4>1. Created.to = "CREATED"
        BY DEF Created, Event
      <4>2. log[1].from = "CREATED" /\ log[1].to = "PROVISIONING"
        BY <1>2 DEF Event
      <4> QED
        BY <1>1, <4>1, <4>2
    <3> QED
      BY <2>1, <3>1 DEF Allowed, AllowedEdges
  <2>2. CASE i = 2
    BY <1>2, <1>3, <2>2 DEF Event, Allowed, AllowedEdges
  <2>3. CASE i = 3
    BY <1>3, <1>4, <2>3 DEF Event, Allowed, AllowedEdges
  <2>4. CASE i = 4
    BY <1>4, <1>5, <2>4 DEF Event, Allowed, AllowedEdges
  <2>5. CASE i = 5
    BY <1>5, <1>6, <2>5 DEF Event, Allowed, AllowedEdges
  <2>6. i = 1 \/ i = 2 \/ i = 3 \/ i = 4 \/ i = 5
    OBVIOUS
  <2> QED
    BY <2>1, <2>2, <2>3, <2>4, <2>5, <2>6
<1> QED
  BY <1>1, <1>6, <1>7 DEF log, Event

\* The initial Journal, empty and without runs, satisfies the invariant.
LEMMA InitEstablishesJournalInv == JournalInit => JournalInv
<1> USE JournalAssumption
<1> SUFFICES ASSUME JournalInit PROVE JournalInv
  OBVIOUS
<1>1. RowsTyped
  <2>1. NoRow \in Row /\ Idle \in Run /\ NoEvent \in Events
    BY DEF NoRow, Row, Idle, Run, NoEvent, Event, Events, Statuses, Progress,
           Terminal, Sequences0, LastSequence
  <2> QED
    BY <2>1 DEF JournalInit, RowsTyped
<1>2. RunsOK
  BY DEF JournalInit, RunsOK, RunnerMirrorsJournal, RunsAtDepth, RunsExclusive,
         FinishedHasEvidence, Idle
<1>3. RecordsOK /\ AnswersAgree
  BY DEF JournalInit, RecordsOK, RecordsReadable, UnfinishedOnCourse,
         AbsentHasNothing, AnswersAgree, Exists, NoRow, Progress
<1> QED
  BY <1>1, <1>2, <1>3 DEF JournalInv

-----------------------------------------------------------------------------
\* What is required of one Episode's rows, by the readers and by the runners.
RecordOK(e) ==
  /\ Exists(e) => EvidenceAdmitted(e) /\ LifecycleAdmitted(e)
  /\ episode[e].status \in Progress =>
       /\ episode[e].sequence = Depth[episode[e].status]
       /\ \A i \in 0..episode[e].sequence : events[e][i] = Step(i)
  /\ ~Exists(e) =>
       episode[e].evidence = None /\ \A i \in Sequences0 : events[e][i] = NoEvent

\* RecordsOK is RecordOK of every Episode.
LEMMA RecordByRecord ==
  /\ RecordsOK <=> \A e \in Episodes : RecordOK(e)
  /\ RecordsOK' <=> \A e \in Episodes : RecordOK(e)'
  BY DEF RecordsOK, RecordsReadable, UnfinishedOnCourse, AbsentHasNothing, RecordOK

\* A step that leaves an Episode's rows alone leaves them in order.
LEMMA UntouchedRecord ==
  ASSUME NEW f \in Episodes, RecordOK(f),
         episode'[f] = episode[f], events'[f] = events[f]
  PROVE  RecordOK(f)'
  BY DEF RecordOK, Exists, EvidenceAdmitted, LifecycleAdmitted

\* What a reservation writes, column by column.
LEMMA NewRowColumns ==
  ASSUME NEW q \in Requests, NEW now \in Nat
  PROVE  /\ NewRow(q, now) \in Row
         /\ NewRow(q, now).status = "CREATED" /\ NewRow(q, now).sequence = 0
         /\ NewRow(q, now).evidence = None /\ NewRow(q, now).request = q
         /\ NewRow(q, now).created = now /\ NewRow(q, now).timely
<1>1. NoRow \in Row
  BY LiteralTypes DEF NoRow, Row
<1>2. "CREATED" \in Statuses \cup {"ABSENT"}
  BY DEF Statuses, Progress
<1>3. NewRow(q, now) \in Row
  BY <1>1, <1>2 DEF NewRow, Row
<1>4. /\ NewRow(q, now).status = "CREATED" /\ NewRow(q, now).sequence = 0
      /\ NewRow(q, now).evidence = None /\ NewRow(q, now).request = q
      /\ NewRow(q, now).created = now
  BY DEF NewRow, NoRow
<1>5. NewRow(q, now).timely
  BY DEF NewRow, NoRow
<1> QED
  BY <1>3, <1>4, <1>5

\* Reserving an Episode ID writes a record every reader admits.
LEMMA CreateRowRecords ==
  ASSUME RowsTyped, RecordsOK, AnswersAgree, NEW e \in Episodes, NEW q \in Requests,
         NEW now \in Nat, CreateRow(e, q, now), answered' = answered
  PROVE  /\ episode' \in [Episodes -> Row]
         /\ events' \in [Episodes -> [Sequences0 -> Events]]
         /\ RecordsOK' /\ AnswersAgree'
<1> USE JournalAssumption, LiteralTypes
<1> DEFINE row == NewRow(q, now)
<1>1. /\ episode' = [episode EXCEPT ![e] = row]
      /\ events' = [events EXCEPT ![e][0] = Created]
      /\ answered' = answered
      /\ episode[e].status = "ABSENT"
  BY DEF CreateRow, Exists
<1>2. RowsTyped /\ RecordsOK /\ AnswersAgree
  OBVIOUS
<1>3. episode' \in [Episodes -> Row] /\ events' \in [Episodes -> [Sequences0 -> Events]]
  <2>1. row \in Row
    BY NewRowColumns
  <2> QED
    BY <1>1, <1>2, <2>1 DEF RowsTyped
<1>4. RecordsOK'
  <2> SUFFICES ASSUME NEW f \in Episodes PROVE RecordOK(f)'
    BY RecordByRecord
  <2>1. RecordOK(f)
    BY <1>2, RecordByRecord
  <2>2. CASE f # e
    BY <1>1, <1>2, <2>1, <2>2, UntouchedRecord DEF RowsTyped
  <2>3. CASE f = e
    <3>1. episode'[e] = row
      BY <1>1, <1>2 DEF RowsTyped
    <3>2. \A i \in 0..5 : events'[e][i] = IF i = 0 THEN Created ELSE NoEvent
      BY <1>1, <1>2, <2>1, <2>3 DEF RowsTyped, RecordOK, Exists
    <3>3. EvidenceAdmitted(e)'
      BY <3>1 DEF EvidenceAdmitted, NewRow, NoRow
    <3>4. LifecycleAdmitted(e)'
      <4>1. row.sequence = 0 /\ row.status = "CREATED" /\ row.evidence = None
        BY DEF NewRow, NoRow
      <4>2. Created.to = "CREATED"
        BY DEF Created, Event
      <4> HIDE DEF row
      <4> QED
        BY <3>1, <3>2, <4>1, <4>2 DEF LifecycleAdmitted
    <3>5. Step(0) = Created
      BY DEF Step, VerdictLifecycle
    <3> QED
      BY <2>3, <3>1, <3>2, <3>3, <3>4, <3>5 DEF RecordOK, Exists, Depth, Progress, NewRow, NoRow
  <2> QED
    BY <2>2, <2>3
<1>5. AnswersAgree'
  BY <1>1, <1>2, RecordByRecord DEF RowsTyped, AnswersAgree, RecordOK, Exists
<1> QED
  BY <1>3, <1>4, <1>5

\* A reservation starts a run of an Episode nobody runs, at depth 0.
LEMMA ReservePreserves ==
  ASSUME JournalInv, NEW r \in Runners, NEW e \in Episodes, NEW q \in Requests,
         NEW now \in Nat, Reserve(r, e, q, now)
  PROVE  JournalInv'
<1> USE JournalAssumption, LiteralTypes
<1> DEFINE row == NewRow(q, now)
           new == [on |-> e, current |-> "CREATED", sequence |-> 0]
<1>1. /\ episode' = [episode EXCEPT ![e] = row]
      /\ events' = [events EXCEPT ![e][0] = Created]
      /\ run' = [run EXCEPT ![r] = new]
      /\ answered' = answered
      /\ run[r] = Idle /\ episode[e].status = "ABSENT"
  BY DEF Reserve, CreateRow, Exists
<1>2. RowsTyped /\ RunsOK /\ RecordsOK /\ AnswersAgree
  BY DEF JournalInv
<1>3. RowsTyped'
  <2>1. row \in Row
    BY NewRowColumns
  <2>2. new \in Run
    BY DEF Run, Statuses, Progress
  <2> QED
    BY <1>1, <1>2, <2>1, <2>2 DEF RowsTyped
<1>4. RunsOK'
  <2>1. \A s \in Runners : run[s].on # e
    BY <1>1, <1>2 DEF RowsTyped, RunsOK, RunnerMirrorsJournal, Holds, Run, Statuses,
       Progress, Terminal
  <2> HIDE DEF row, new
  <2>2. row.status = "CREATED" /\ row.sequence = 0 /\ row.evidence = None
    BY DEF row, NewRow, NoRow
  <2>3. new.on = e /\ new.current = "CREATED" /\ new.sequence = 0
    BY DEF new
  <2> QED
    BY <1>1, <1>2, <2>1, <2>2, <2>3 DEF RowsTyped, RunsOK, RunnerMirrorsJournal,
       Holds, RunsAtDepth, RunsExclusive, FinishedHasEvidence, Depth, Progress
<1>5. RecordsOK' /\ AnswersAgree'
  BY <1>1, <1>2, CreateRowRecords DEF Reserve
<1> QED
  BY <1>3, <1>4, <1>5 DEF JournalInv

\* The next non-terminal transition, in the Journal and in the run alike.
LEMMA AdvancePreserves ==
  ASSUME JournalInv, NEW r \in Runners, NEW now \in Nat, Advance(r, now)
  PROVE  JournalInv'
<1> USE JournalAssumption, LiteralTypes
<1> DEFINE from == run[r].current
           to == Successor[from]
           k == run[r].sequence
           timely == Timely(episode[run[r].on], now)
<1>1. RowsTyped /\ RunsOK /\ RecordsOK /\ AnswersAgree
  BY DEF JournalInv
<1>0. PICK e \in Episodes : e = run[r].on
  BY <1>1 DEF Advance, RowsTyped, Run
<1>2. e \in Episodes /\ from \in {"CREATED", "PROVISIONING", "READY", "RUNNING"}
  BY DEF Advance, Successor
<1>3. k = Depth[from] /\ k \in 0..3 /\ Depth[to] = k + 1 /\ k + 1 \in 1..4
  BY <1>1, <1>2 DEF Advance, RunsOK, RunsAtDepth, Depth, Successor
<1>4. to \in Progress /\ Allowed(from, to) /\ from \in Statuses /\ to \in Statuses
  BY <1>2 DEF Successor, Progress, Statuses, Allowed, AllowedEdges
<1>5. /\ episode[e].status = from /\ episode[e].sequence = k
      /\ episode' = [episode EXCEPT ![e].status = to, ![e].sequence = k + 1,
                                    ![e].timely = timely]
      /\ events' = [events EXCEPT ![e][k + 1] = Event(from, to)]
      /\ run' = [run EXCEPT ![r].current = to, ![r].sequence = k + 1]
      /\ answered' = answered
  BY <1>0 DEF Advance, Holds, NextSequence
<1>6. e # None
  OBVIOUS
<1>14. timely \in BOOLEAN
  BY DEF Timely
<1> HIDE DEF to, from, k, timely
<1>7. RowsTyped'
  <2>1. Event(from, to) \in Events /\ k + 1 \in Sequences0
    BY <1>3, <1>4
  <2>2. [episode[e] EXCEPT !.status = to, !.sequence = k + 1, !.timely = timely] \in Row
    <3>1. episode[e] \in Row
      BY <1>1, <1>2 DEF RowsTyped
    <3> QED
      BY <1>4, <1>14, <2>1, <3>1 DEF Row
  <2>3. [run[r] EXCEPT !.current = to, !.sequence = k + 1] \in Run
    <3>1. run[r] \in Run
      BY <1>1 DEF RowsTyped
    <3> QED
      BY <1>4, <2>1, <3>1 DEF Run
  <2>4. [events[e] EXCEPT ![k + 1] = Event(from, to)] \in [Sequences0 -> Events]
    BY <1>1, <1>2, <2>1 DEF RowsTyped
  <2>5. episode' \in [Episodes -> Row] /\ run' \in [Runners -> Run]
    BY <1>1, <1>5, <2>2, <2>3 DEF RowsTyped
  <2>6. events' \in [Episodes -> [Sequences0 -> Events]]
    BY <1>1, <1>5, <2>4 DEF RowsTyped
  <2> QED
    BY <1>1, <1>5, <2>5, <2>6 DEF RowsTyped
<1>8. /\ episode'[e].status = to /\ episode'[e].sequence = k + 1
      /\ episode'[e].evidence = episode[e].evidence
      /\ \A f \in Episodes : f # e => episode'[f] = episode[f] /\ events'[f] = events[f]
      /\ \A i \in 0..5 : events'[e][i] = IF i = k + 1 THEN Event(from, to) ELSE events[e][i]
  BY <1>1, <1>2, <1>3, <1>5 DEF RowsTyped, Row
<1>9. /\ run'[r].on = e /\ run'[r].current = to /\ run'[r].sequence = k + 1
      /\ \A s \in Runners : s # r => run'[s] = run[s]
  BY <1>0, <1>1, <1>5 DEF RowsTyped, Run
<1>10. \A s \in Runners : s # r => run[s].on # e
  BY <1>0, <1>1, <1>6 DEF RunsOK, RunsExclusive
<1>11. RunsOK'
  <2>1. RunnerMirrorsJournal'
    BY <1>1, <1>8, <1>9, <1>10 DEF RunsOK, RunnerMirrorsJournal, Holds, RowsTyped, Run
  <2>2. RunsAtDepth'
    BY <1>1, <1>3, <1>4, <1>9 DEF RunsOK, RunsAtDepth
  <2>3. RunsExclusive'
    BY <1>1, <1>9, <1>10 DEF RunsOK, RunsExclusive
  <2>4. FinishedHasEvidence'
    BY <1>1, <1>4, <1>8, <1>9, <1>10 DEF RunsOK, FinishedHasEvidence, RowsTyped, Run
  <2> QED
    BY <2>1, <2>2, <2>3, <2>4 DEF RunsOK
<1>12. RecordsOK'
  <2> SUFFICES ASSUME NEW f \in Episodes PROVE RecordOK(f)'
    BY RecordByRecord
  <2>1. RecordOK(f)
    BY <1>1, RecordByRecord
  <2>2. CASE f # e
    BY <1>8, <2>1, <2>2, UntouchedRecord
  <2>3. CASE f = e
    <3>1. /\ EvidenceAdmitted(e) /\ LifecycleAdmitted(e)
          /\ \A i \in 0..k : events[e][i] = Step(i)
      BY <1>2, <1>5, <2>1, <2>3 DEF RecordOK, Exists, Progress
    <3>2. episode[e].evidence = None
      BY <1>2, <1>5, <3>1 DEF EvidenceAdmitted, Verdict
    <3>3. Event(from, to) = Step(k + 1) /\ Event(from, to).from = from
          /\ Event(from, to).to = to
      <4>1. CASE from = "CREATED"
        BY <1>3, <4>1 DEF Step, VerdictLifecycle, Event, Depth, Successor, to
      <4>2. CASE from = "PROVISIONING"
        BY <1>3, <4>2 DEF Step, VerdictLifecycle, Event, Depth, Successor, to
      <4>3. CASE from = "READY"
        BY <1>3, <4>3 DEF Step, VerdictLifecycle, Event, Depth, Successor, to
      <4>4. CASE from = "RUNNING"
        BY <1>3, <4>4 DEF Step, VerdictLifecycle, Event, Depth, Successor, to
      <4> QED
        BY <1>2, <4>1, <4>2, <4>3, <4>4
    <3>4. EvidenceAdmitted(e)'
      <4>1. episode'[e].evidence = None /\ episode'[e].status = to
        BY <1>8, <3>2
      <4>2. to \notin {"SUCCEEDED", "ASSERTION_FAILED"}
        BY <1>4 DEF Progress
      <4> QED
        BY <4>1, <4>2 DEF EvidenceAdmitted
    <3>5. LifecycleAdmitted(e)'
      <4> DEFINE log == events'[e]
      <4>1. \A i \in 0..5 : log[i] = IF i = k + 1 THEN Event(from, to) ELSE events[e][i]
        BY <1>8
      <4> HIDE DEF log
      <4>2. \A i \in 0..5 : log[i] # NoEvent <=> i <= k + 1
        BY <1>3, <1>4, <1>5, <3>1, <4>1 DEF LifecycleAdmitted
      <4>3. log[0] = Created /\ log[k + 1].to = to
        BY <1>3, <3>1, <3>3, <4>1 DEF LifecycleAdmitted
      <4>4. \A i \in 1..(k + 1) : log[i].from = log[i - 1].to /\ Allowed(log[i].from, log[i].to)
        <5>1. \A i \in 1..k : /\ log[i] = events[e][i] /\ log[i - 1] = events[e][i - 1]
                              /\ events[e][i].from = events[e][i - 1].to
                              /\ Allowed(events[e][i].from, events[e][i].to)
          BY <1>3, <1>5, <3>1, <4>1 DEF LifecycleAdmitted
        <5>2. log[k + 1] = Event(from, to) /\ log[k] = events[e][k] /\ events[e][k].to = from
          BY <1>3, <1>5, <3>1, <4>1 DEF LifecycleAdmitted
        <5> QED
          BY <1>3, <1>4, <3>3, <5>1, <5>2
      <4> QED
        BY <1>8, <3>2, <4>2, <4>3, <4>4 DEF LifecycleAdmitted, log
    <3>6. \A i \in 0..(k + 1) : events'[e][i] = Step(i)
      BY <1>3, <1>8, <3>1, <3>3
    <3> QED
      BY <1>3, <1>4, <1>8, <2>3, <3>4, <3>5, <3>6 DEF RecordOK, Exists, Progress
  <2> QED
    BY <2>2, <2>3
<1>13. AnswersAgree'
  BY <1>1, <1>5, <1>8 DEF AnswersAgree
<1> QED
  BY <1>7, <1>11, <1>12, <1>13 DEF JournalInv

\* The verdict, its event and its Evidence arrive together.
LEMMA CompletePreserves ==
  ASSUME JournalInv, NEW r \in Runners, NEW d \in Evidence, NEW now \in Nat,
         Complete(r, d, now)
  PROVE  JournalInv'
<1> USE JournalAssumption, LiteralTypes
<1> DEFINE v == Verdict(d)
           timely == Timely(episode[run[r].on], now)
<1>1. RowsTyped /\ RunsOK /\ RecordsOK /\ AnswersAgree
  BY DEF JournalInv
<1>0. PICK e \in Episodes : e = run[r].on
  BY <1>1 DEF Complete, RowsTyped, Run
<1>2. v \in {"SUCCEEDED", "ASSERTION_FAILED"} /\ v \in Statuses /\ v \notin Progress
  BY DEF Verdict, Statuses, Terminal, Progress
<1>3. run[r].current = "EVALUATING" /\ run[r].sequence = 4 /\ e # None
  BY <1>0, <1>1 DEF Complete, RunsOK, RunsAtDepth, Depth
<1>4. /\ episode[e].status = "EVALUATING" /\ episode[e].sequence = 4
      /\ episode' = [episode EXCEPT ![e].status = v, ![e].sequence = 5, ![e].evidence = d,
                                    ![e].timely = timely]
      /\ events' = [events EXCEPT ![e][5] = Event("EVALUATING", v)]
      /\ run' = [run EXCEPT ![r].current = v, ![r].sequence = 5]
      /\ answered' = answered
  BY <1>0, <1>3 DEF Complete, Holds, NextSequence
<1>5. d # None
  OBVIOUS
<1>17. timely \in BOOLEAN
  BY DEF Timely
<1> HIDE DEF v, timely
<1>6. Event("EVALUATING", v) \in Events
  BY <1>2 DEF Statuses, Progress
<1>16. 5 \in Sequences0
  OBVIOUS
<1>7. RowsTyped'
  <2>1. [episode[e] EXCEPT !.status = v, !.sequence = 5, !.evidence = d,
                                !.timely = timely] \in Row
    <3>1. episode[e] \in Row
      BY <1>1 DEF RowsTyped
    <3> QED
      BY <1>2, <1>16, <1>17, <3>1 DEF Row
  <2>2. [run[r] EXCEPT !.current = v, !.sequence = 5] \in Run
    <3>1. run[r] \in Run
      BY <1>1 DEF RowsTyped
    <3> QED
      BY <1>2, <1>16, <3>1 DEF Run
  <2>3. [events[e] EXCEPT ![5] = Event("EVALUATING", v)] \in [Sequences0 -> Events]
    BY <1>1, <1>6 DEF RowsTyped
  <2>4. episode' \in [Episodes -> Row] /\ run' \in [Runners -> Run]
    BY <1>1, <1>4, <2>1, <2>2 DEF RowsTyped
  <2>5. events' \in [Episodes -> [Sequences0 -> Events]]
    BY <1>1, <1>4, <2>3 DEF RowsTyped
  <2> QED
    BY <1>1, <1>4, <2>4, <2>5 DEF RowsTyped
<1>8. /\ episode'[e].status = v /\ episode'[e].sequence = 5 /\ episode'[e].evidence = d
      /\ \A f \in Episodes : f # e => episode'[f] = episode[f] /\ events'[f] = events[f]
      /\ \A i \in 0..5 : events'[e][i] = IF i = 5 THEN Event("EVALUATING", v) ELSE events[e][i]
  BY <1>1, <1>4 DEF RowsTyped, Row
<1>9. /\ run'[r].on = e /\ run'[r].current = v /\ run'[r].sequence = 5
      /\ \A s \in Runners : s # r => run'[s] = run[s]
  BY <1>0, <1>1, <1>4 DEF RowsTyped, Run
<1>10. \A s \in Runners : s # r => run[s].on # e
  BY <1>0, <1>1, <1>3 DEF RunsOK, RunsExclusive
<1>11. RunsOK'
  <2>1. RunnerMirrorsJournal'
    BY <1>1, <1>8, <1>9, <1>10 DEF RunsOK, RunnerMirrorsJournal, Holds, RowsTyped, Run
  <2>2. RunsAtDepth'
    BY <1>1, <1>2, <1>9 DEF RunsOK, RunsAtDepth, Depth
  <2>3. RunsExclusive'
    BY <1>1, <1>9, <1>10 DEF RunsOK, RunsExclusive
  <2>4. FinishedHasEvidence'
    BY <1>1, <1>5, <1>8, <1>9, <1>10 DEF RunsOK, FinishedHasEvidence, RowsTyped, Run
  <2> QED
    BY <2>1, <2>2, <2>3, <2>4 DEF RunsOK
<1>12. RecordOK(e)
  BY <1>1, RecordByRecord
<1>13. \A i \in 0..4 : events[e][i] = Step(i)
  BY <1>4, <1>12 DEF RecordOK, Progress
<1>14. RecordsOK'
  <2> SUFFICES ASSUME NEW f \in Episodes PROVE RecordOK(f)'
    BY RecordByRecord
  <2>1. RecordOK(f)
    BY <1>1, RecordByRecord
  <2>2. CASE f # e
    BY <1>8, <2>1, <2>2, UntouchedRecord
  <2>3. CASE f = e
    <3>1. EvidenceAdmitted(e)'
      BY <1>5, <1>8 DEF EvidenceAdmitted, v
    <3>2. events'[e] = VerdictLifecycle(v)
      <4>1. events'[e] \in [0..5 -> Events]
        BY <1>7 DEF RowsTyped
      <4>2. \A i \in 0..4 : VerdictLifecycle(v)[i] = Step(i)
        BY DEF Step, VerdictLifecycle
      <4>3. VerdictLifecycle(v)[5] = Event("EVALUATING", v)
        BY DEF VerdictLifecycle
      <4>4. VerdictLifecycle(v) = [i \in 0..5 |-> VerdictLifecycle(v)[i]]
        BY DEF VerdictLifecycle
      <4>5. \A i \in 0..5 : events'[e][i] = VerdictLifecycle(v)[i]
        BY <1>8, <1>13, <4>2, <4>3
      <4> HIDE DEF v
      <4> QED
        BY <4>1, <4>4, <4>5
    <3>3. LifecycleAdmitted(e)'
      <4>1. /\ events'[e][0] = Created /\ events'[e][5].to = v
            /\ \A i \in 1..5 : /\ events'[e][i].from = events'[e][i - 1].to
                              /\ Allowed(events'[e][i].from, events'[e][i].to)
        BY <1>2, <3>2, VerdictChain
      <4>3. \A i \in 0..5 : events'[e][i] # NoEvent
        BY <1>2, <3>2 DEF VerdictLifecycle, Statuses, Progress
      <4> QED
        BY <1>8, <3>2, <4>1, <4>3 DEF LifecycleAdmitted
    <3> QED
      BY <1>2, <1>8, <2>3, <3>1, <3>3 DEF RecordOK, Exists, Progress
  <2> QED
    BY <2>2, <2>3
<1>15. AnswersAgree'
  <2>1. episode[e].evidence = None
    BY <1>4, <1>12 DEF RecordOK, Exists, EvidenceAdmitted, Verdict
  <2>2. answered[e] = {}
    BY <1>1, <2>1 DEF AnswersAgree
  <2> QED
    BY <1>1, <1>4, <1>8, <2>2 DEF AnswersAgree
<1> QED
  BY <1>7, <1>11, <1>14, <1>15 DEF JournalInv

-----------------------------------------------------------------------------
\* Reuse and Answer hand out the Evidence the record holds, nothing else.
LEMMA ReusePreserves ==
  ASSUME JournalInv, NEW r \in Runners, NEW e \in Episodes, NEW q \in Requests,
         Reuse(r, e, q)
  PROVE  JournalInv'
<1>1. /\ episode' = episode /\ events' = events /\ run' = run
      /\ episode[e].evidence # None
      /\ answered' = [answered EXCEPT ![e] = @ \cup {episode[e].evidence}]
  BY DEF Reuse, LoadRow
<1>2. RowsTyped /\ RunsOK /\ RecordsOK /\ AnswersAgree
  BY DEF JournalInv
<1>3. RowsTyped'
  BY <1>1, <1>2 DEF RowsTyped, Row
<1>4. RunsOK'
  BY <1>1, <1>2 DEF RunsOK, RunnerMirrorsJournal, RunsAtDepth, RunsExclusive,
     FinishedHasEvidence, Holds
<1>5. RecordsOK'
  BY <1>1, <1>2, RecordByRecord, UntouchedRecord
<1>6. AnswersAgree'
  BY <1>1, <1>2 DEF RowsTyped, AnswersAgree
<1> QED
  BY <1>3, <1>4, <1>5, <1>6 DEF JournalInv

\* The runner answers with the Evidence it has just persisted.
LEMMA AnswerPreserves ==
  ASSUME JournalInv, NEW r \in Runners, Answer(r)
  PROVE  JournalInv'
<1> USE JournalAssumption
<1>1. RowsTyped /\ RunsOK /\ RecordsOK /\ AnswersAgree
  BY DEF JournalInv
<1>2. PICK e \in Episodes : e = run[r].on
  BY <1>1 DEF Answer, RowsTyped, Run
<1>3. /\ episode' = episode /\ events' = events
      /\ run' = [run EXCEPT ![r] = Idle]
      /\ IsTerminal(run[r].current)
      /\ answered' = [answered EXCEPT ![e] = @ \cup {episode[e].evidence}]
  BY <1>2 DEF Answer
<1>4. episode[e].evidence # None /\ episode[e].evidence \in Evidence
  <2>1. run[r].current \notin Progress /\ run[r].on # None
    BY <1>2, <1>3 DEF IsTerminal, Terminal, Progress
  <2>2. episode[e].evidence # None
    BY <1>1, <1>2, <2>1 DEF RunsOK, FinishedHasEvidence
  <2> QED
    BY <1>1, <2>2 DEF RowsTyped, Row
<1>5. Idle \in Run /\ Idle.on = None
  BY DEF Idle, Run, Statuses, Progress, Sequences0, LastSequence
<1>6. RowsTyped'
  BY <1>1, <1>3, <1>4, <1>5 DEF RowsTyped
<1>7. RunsOK'
  BY <1>1, <1>3, <1>5 DEF RunsOK, RunnerMirrorsJournal, RunsAtDepth, RunsExclusive,
     FinishedHasEvidence, Holds, RowsTyped
<1>8. RecordsOK'
  BY <1>1, <1>3, RecordByRecord, UntouchedRecord
<1>9. AnswersAgree'
  BY <1>1, <1>3, <1>4 DEF RowsTyped, AnswersAgree
<1> QED
  BY <1>6, <1>7, <1>8, <1>9 DEF JournalInv

\* A run that is abandoned writes nothing.
LEMMA AbandonPreserves ==
  ASSUME JournalInv, NEW r \in Runners, Abandon(r)
  PROVE  JournalInv'
<1> USE JournalAssumption
<1>1. RowsTyped /\ RunsOK /\ RecordsOK /\ AnswersAgree
  BY DEF JournalInv
<1>2. /\ episode' = episode /\ events' = events /\ answered' = answered
      /\ run' = [run EXCEPT ![r] = Idle]
  BY DEF Abandon
<1>3. Idle \in Run /\ Idle.on = None
  BY DEF Idle, Run, Statuses, Progress, Sequences0, LastSequence
<1>4. RowsTyped'
  BY <1>1, <1>2, <1>3 DEF RowsTyped
<1>5. RunsOK'
  BY <1>1, <1>2, <1>3 DEF RunsOK, RunnerMirrorsJournal, RunsAtDepth, RunsExclusive,
     FinishedHasEvidence, Holds, RowsTyped
<1>6. RecordsOK'
  BY <1>1, <1>2, RecordByRecord, UntouchedRecord
<1>7. AnswersAgree'
  BY <1>1, <1>2 DEF AnswersAgree
<1> QED
  BY <1>4, <1>5, <1>6, <1>7 DEF JournalInv

\* A failed run either leaves the record as it is or ends it in RUNTIME_ERROR.
LEMMA RunErrorPreserves ==
  ASSUME JournalInv, NEW r \in Runners, NEW now \in Nat, RunError(r, now)
  PROVE  JournalInv'
<1> USE JournalAssumption, LiteralTypes
<1> DEFINE k == run[r].sequence
           from == run[r].current
           timely == Timely(episode[run[r].on], now)
<1>1. RowsTyped /\ RunsOK /\ RecordsOK /\ AnswersAgree
  BY DEF JournalInv
<1>2. PICK e \in Episodes : e = run[r].on
  BY <1>1 DEF RunError, RowsTyped, Run
<1>3. episode[e].status = from /\ episode[e].sequence = k /\ e # None
  BY <1>1, <1>2 DEF RunsOK, RunnerMirrorsJournal, Holds
<1>4. CASE ~Allowed(from, "RUNTIME_ERROR")
  <2>1. Abandon(r)
    BY <1>2, <1>3, <1>4 DEF RunError, Abandon
  <2> QED
    BY <2>1, AbandonPreserves
<1>5. CASE Allowed(from, "RUNTIME_ERROR")
  <2>1. from \in {"PROVISIONING", "RUNNING", "EVALUATING"} /\ from \in Statuses
    BY <1>5 DEF Allowed, AllowedEdges, Statuses, Progress
  <2>2. k = Depth[from] /\ k \in 1..4
    <3>1. k = Depth[from]
      BY <1>1, <1>2, <1>3 DEF RunsOK, RunsAtDepth
    <3> QED
      BY <2>1, <3>1 DEF Depth
  <2>3. /\ episode' = [episode EXCEPT ![e].status = "RUNTIME_ERROR", ![e].sequence = k + 1,
                                      ![e].timely = timely]
        /\ events' = [events EXCEPT ![e][k + 1] = Event(from, "RUNTIME_ERROR")]
        /\ run' = [run EXCEPT ![r] = Idle]
        /\ answered' = answered
    BY <1>2, <1>3, <1>5 DEF RunError, NextSequence
  <2>13. timely \in BOOLEAN
    BY DEF Timely
  <2> HIDE DEF k, from, timely
  <2>4. k + 1 \in Sequences0 /\ "RUNTIME_ERROR" \in Statuses
    BY <2>2 DEF Statuses, Terminal
  <2>5. Idle \in Run /\ Idle.on = None
    BY DEF Idle, Run, Statuses, Progress
  <2>6. RowsTyped'
    <3>1. [episode[e] EXCEPT !.status = "RUNTIME_ERROR", !.sequence = k + 1,
                                  !.timely = timely] \in Row
      <4>1. episode[e] \in Row
        BY <1>1 DEF RowsTyped
      <4> QED
        BY <2>4, <2>13, <4>1 DEF Row
    <3>2. [events[e] EXCEPT ![k + 1] = Event(from, "RUNTIME_ERROR")] \in [Sequences0 -> Events]
      BY <1>1, <2>1, <2>4 DEF RowsTyped
    <3>3. episode' \in [Episodes -> Row] /\ run' \in [Runners -> Run]
      BY <1>1, <2>3, <2>5, <3>1 DEF RowsTyped
    <3>4. events' \in [Episodes -> [Sequences0 -> Events]]
      BY <1>1, <2>3, <3>2 DEF RowsTyped
    <3> QED
      BY <1>1, <2>3, <3>3, <3>4 DEF RowsTyped
  <2>7. /\ episode'[e].status = "RUNTIME_ERROR" /\ episode'[e].sequence = k + 1
        /\ episode'[e].evidence = episode[e].evidence
        /\ \A f \in Episodes : f # e => episode'[f] = episode[f] /\ events'[f] = events[f]
        /\ \A i \in 0..5 : events'[e][i] =
             IF i = k + 1 THEN Event(from, "RUNTIME_ERROR") ELSE events[e][i]
    BY <1>1, <2>2, <2>3 DEF RowsTyped, Row
  <2>8. run'[r].on = None /\ \A s \in Runners : s # r => run'[s] = run[s]
    BY <1>1, <2>3, <2>5 DEF RowsTyped
  <2>9. \A s \in Runners : s # r => run[s].on # e
    BY <1>1, <1>2, <1>3 DEF RunsOK, RunsExclusive
  <2>10. RunsOK'
    <3>1. RunnerMirrorsJournal'
      BY <1>1, <2>7, <2>8, <2>9 DEF RunsOK, RunnerMirrorsJournal, Holds, RowsTyped, Run
    <3>2. RunsAtDepth'
      BY <1>1, <2>8 DEF RunsOK, RunsAtDepth
    <3>3. RunsExclusive'
      BY <1>1, <2>8 DEF RunsOK, RunsExclusive
    <3>4. FinishedHasEvidence'
      BY <1>1, <2>7, <2>8, <2>9 DEF RunsOK, FinishedHasEvidence, RowsTyped, Run
    <3> QED
      BY <3>1, <3>2, <3>3, <3>4 DEF RunsOK
  <2>11. RecordsOK'
    <3> SUFFICES ASSUME NEW f \in Episodes PROVE RecordOK(f)'
      BY RecordByRecord
    <3>1. RecordOK(f)
      BY <1>1, RecordByRecord
    <3>2. CASE f # e
      BY <2>7, <3>1, <3>2, UntouchedRecord
    <3>3. CASE f = e
      <4>1. EvidenceAdmitted(e) /\ LifecycleAdmitted(e)
        BY <1>3, <2>1, <3>1, <3>3 DEF RecordOK, Exists
      <4>2. episode[e].evidence = None
        BY <1>3, <2>1, <4>1 DEF EvidenceAdmitted, Verdict
      <4>3. /\ Event(from, "RUNTIME_ERROR").from = from
            /\ Event(from, "RUNTIME_ERROR").to = "RUNTIME_ERROR"
        BY DEF Event
      <4>4. EvidenceAdmitted(e)'
        BY <2>7, <4>2 DEF EvidenceAdmitted
      <4>5. LifecycleAdmitted(e)'
        <5> DEFINE log == events'[e]
        <5>1. \A i \in 0..5 : log[i] =
                IF i = k + 1 THEN Event(from, "RUNTIME_ERROR") ELSE events[e][i]
          BY <2>7
        <5> HIDE DEF log
        <5>2. \A i \in 0..5 : log[i] # NoEvent <=> i <= k + 1
          BY <1>3, <2>1, <2>2, <2>4, <4>1, <5>1 DEF LifecycleAdmitted
        <5>3. log[0] = Created /\ log[k + 1].to = "RUNTIME_ERROR"
          BY <2>2, <4>1, <4>3, <5>1 DEF LifecycleAdmitted
        <5>4. \A i \in 1..(k + 1) :
                log[i].from = log[i - 1].to /\ Allowed(log[i].from, log[i].to)
          <6>1. \A i \in 1..k : /\ log[i] = events[e][i] /\ log[i - 1] = events[e][i - 1]
                                /\ events[e][i].from = events[e][i - 1].to
                                /\ Allowed(events[e][i].from, events[e][i].to)
            BY <1>3, <2>2, <4>1, <5>1 DEF LifecycleAdmitted
          <6>2. /\ log[k + 1] = Event(from, "RUNTIME_ERROR")
                /\ log[k] = events[e][k] /\ events[e][k].to = from
            BY <1>3, <2>2, <4>1, <5>1 DEF LifecycleAdmitted
          <6> QED
            BY <1>5, <2>2, <4>3, <6>1, <6>2
        <5> QED
          BY <2>7, <4>2, <5>2, <5>3, <5>4 DEF LifecycleAdmitted, log
      <4> QED
        BY <2>7, <3>3, <4>4, <4>5 DEF RecordOK, Exists, Progress
    <3> QED
      BY <3>2, <3>3
  <2>12. AnswersAgree'
    BY <1>1, <2>3, <2>7 DEF AnswersAgree
  <2> QED
    BY <2>6, <2>10, <2>11, <2>12 DEF JournalInv
<1> QED
  BY <1>4, <1>5

\* A step that changes no variable.
LEMMA StutterPreserves ==
  ASSUME JournalInv, UNCHANGED <<episode, events, run, answered>>
  PROVE  JournalInv'
<1>1. episode' = episode /\ events' = events /\ run' = run /\ answered' = answered
  OBVIOUS
<1>2. RowsTyped' /\ RunsOK' /\ AnswersAgree'
  BY <1>1 DEF JournalInv, RowsTyped, RunsOK, RunnerMirrorsJournal, RunsAtDepth,
     RunsExclusive, FinishedHasEvidence, Holds, AnswersAgree
<1>3. RecordsOK'
  BY <1>1, RecordByRecord, UntouchedRecord DEF JournalInv
<1> QED
  BY <1>2, <1>3 DEF JournalInv

\* The invariant is inductive.
LEMMA JournalInvInductive == JournalInv /\ [RunnerNext(Nat)]_journalVars => JournalInv'
<1> SUFFICES ASSUME JournalInv, [RunnerNext(Nat)]_journalVars PROVE JournalInv'
  OBVIOUS
<1>1. CASE UNCHANGED journalVars
  BY <1>1, StutterPreserves DEF journalVars
<1>2. ASSUME NEW r \in Runners, NEW e \in Episodes, NEW q \in Requests, NEW now \in Nat,
             Reserve(r, e, q, now) \/ Reuse(r, e, q) \/ Refuse(r, e, q)
      PROVE  JournalInv'
  BY <1>2, ReservePreserves, ReusePreserves, StutterPreserves DEF Refuse, journalVars
<1>3. ASSUME NEW r \in Runners, NEW now \in Nat,
             Advance(r, now) \/ Answer(r) \/ RunError(r, now) \/ Abandon(r)
      PROVE  JournalInv'
  BY <1>3, AdvancePreserves, AnswerPreserves, RunErrorPreserves, AbandonPreserves
<1>4. ASSUME NEW r \in Runners, NEW d \in Evidence, NEW now \in Nat, Complete(r, d, now)
      PROVE  JournalInv'
  BY <1>4, CompletePreserves
<1> QED
  BY <1>1, <1>2, <1>3, <1>4 DEF RunnerNext

-----------------------------------------------------------------------------
(***************************************************************************)
(* The theorems.                                                           *)
(***************************************************************************)

\* The invariant above holds in every reachable state of the Journal.
THEOREM JournalInvariant == JournalSpec => []JournalInv
<1>1. JournalInit => JournalInv
  BY InitEstablishesJournalInv
<1>2. JournalInv /\ [RunnerNext(Nat)]_journalVars => JournalInv'
  BY JournalInvInductive
<1> QED
  BY <1>1, <1>2, PTL DEF JournalSpec

\* What a transaction that writes an Episode's rows at a time does to its Episode
\* row: it creates it, updates it, or leaves it to rows beside it.
DatedWrite(e, now) ==
  /\ written'[e] = IF written[e] \in 0..now THEN now ELSE Disordered
  /\ \/ episode'[e].created = now /\ episode'[e].timely
     \/ episode'[e].created = episode[e].created /\ episode'[e].timely = Timely(episode[e], now)
     \/ episode'[e].created = episode[e].created /\ episode'[e].timely = episode[e].timely

\* An Episode row's timestamps are in order unless time ran backwards for it.
DateOK(e) ==
  TimeRanForward(e) => episode[e].timely /\ episode[e].created <= written[e]

DatesOK ==
  /\ written \in [Episodes -> Nat \cup {Disordered}]
  /\ \A e \in Episodes : DateOK(e)

\* A transaction keeps the timestamps of the rows it writes and spares in order.
LEMMA WriteKeepsDates ==
  ASSUME RowsTyped, DatesOK, NEW S \in SUBSET Episodes, NEW now \in Nat,
         written' = WrittenAt(S, now),
         \A e \in S : DatedWrite(e, now),
         \A e \in Episodes \ S : episode'[e].created = episode[e].created
                                /\ episode'[e].timely = episode[e].timely
  PROVE  DatesOK'
<1>1. \A e \in Episodes : written[e] \in Nat \cup {Disordered} /\ episode[e].created \in Nat
  BY DEF DatesOK, RowsTyped, Row
<1>2. Disordered \in Int /\ Disordered \notin Nat
  BY DEF Disordered
<1>3. written' \in [Episodes -> Nat \cup {Disordered}]
  BY <1>1 DEF WrittenAt
<1>4. ASSUME NEW e \in S PROVE DateOK(e)'
  <2> SUFFICES ASSUME written'[e] # Disordered
               PROVE  episode'[e].timely /\ episode'[e].created <= written'[e]
    BY DEF DateOK, TimeRanForward
  <2>1. e \in Episodes /\ DatedWrite(e, now)
    BY <1>4
  <2>2. written'[e] = now /\ written[e] \in 0..now
    BY <2>1 DEF DatedWrite
  <2>3. episode[e].timely /\ episode[e].created <= now
    BY <1>1, <1>2, <2>1, <2>2 DEF DatesOK, DateOK, TimeRanForward
  <2>4. CASE episode'[e].created = now /\ episode'[e].timely
    BY <2>2, <2>4
  <2>5. CASE episode'[e].created = episode[e].created /\ episode'[e].timely = Timely(episode[e], now)
    BY <2>2, <2>3, <2>5 DEF Timely
  <2>6. CASE episode'[e].created = episode[e].created /\ episode'[e].timely = episode[e].timely
    BY <2>2, <2>3, <2>6
  <2> QED
    BY <2>1, <2>4, <2>5, <2>6 DEF DatedWrite
<1>5. ASSUME NEW e \in Episodes \ S PROVE DateOK(e)'
  <2>1. written'[e] = written[e]
    BY <1>5 DEF WrittenAt
  <2> QED
    BY <1>5, <2>1 DEF DatesOK, DateOK, TimeRanForward
<1> QED
  BY <1>3, <1>4, <1>5 DEF DatesOK

\* The times of one Episode after a transaction on it alone.
LEMMA WrittenAlone ==
  ASSUME NEW e \in Episodes, NEW now
  PROVE  WrittenAt({e}, now)[e] = IF written[e] \in 0..now THEN now ELSE Disordered
  BY DEF WrittenAt

\* What a runner writes, if anything, is one Episode's rows at one time.
RunnerWrite(e, now) ==
  /\ written' = WrittenAt({e}, now)
  /\ \A f \in Episodes \ {e} : episode'[f] = episode[f]
  /\ \/ episode'[e].created = now /\ episode'[e].timely
     \/ /\ episode'[e].created = episode[e].created
        /\ episode'[e].timely = Timely(episode[e], now)

RunnerWritesOne ==
  \/ UNCHANGED <<episode, written>>
  \/ \E e \in Episodes, now \in Nat : RunnerWrite(e, now)

\* That is what each of its actions does.
LEMMA RunnerWrites ==
  ASSUME RowsTyped, RunnerNext(Nat)
  PROVE  RunnerWritesOne
<1>1. RowsTyped
  OBVIOUS
<1>2. ASSUME UNCHANGED <<episode, written>> PROVE RunnerWritesOne
  BY <1>2 DEF RunnerWritesOne
<1>3. ASSUME NEW e \in Episodes, NEW now \in Nat, written' = WrittenAt({e}, now),
             \A f \in Episodes \ {e} : episode'[f] = episode[f],
             \/ episode'[e].created = now /\ episode'[e].timely
             \/ /\ episode'[e].created = episode[e].created
                /\ episode'[e].timely = Timely(episode[e], now)
      PROVE  RunnerWritesOne
  BY <1>3 DEF RunnerWrite, RunnerWritesOne
<1>4. PICK r \in Runners, now \in Nat :
        \/ \E e \in Episodes, q \in Requests :
             Reserve(r, e, q, now) \/ Reuse(r, e, q) \/ Refuse(r, e, q)
        \/ Advance(r, now)
        \/ \E d \in Evidence : Complete(r, d, now)
        \/ Answer(r)
        \/ RunError(r, now)
        \/ Abandon(r)
  BY DEF RunnerNext
<1>5. run[r].on \in Episodes \cup {None}
  BY <1>1 DEF RowsTyped, Run
<1>6. ASSUME NEW e \in Episodes, NEW q \in Requests, Reserve(r, e, q, now)
      PROVE  RunnerWritesOne
  <2>1. /\ episode' = [episode EXCEPT ![e] = NewRow(q, now)]
        /\ written' = WrittenAt({e}, now)
    BY <1>6 DEF Reserve, CreateRow
  <2>2. NewRow(q, now).created = now /\ NewRow(q, now).timely
    BY NewRowColumns
  <2> QED
    BY <1>1, <1>3, <2>1, <2>2 DEF RowsTyped
<1>7. ASSUME NEW e \in Episodes, NEW q \in Requests, Reuse(r, e, q) \/ Refuse(r, e, q)
      PROVE  RunnerWritesOne
  BY <1>2, <1>7 DEF Reuse, LoadRow, Refuse, journalVars
<1>8. CASE Advance(r, now)
  <2>1. run[r].on \in Episodes
    BY <1>5, <1>8 DEF Advance
  <2>2. episode[run[r].on] \in Row
    BY <1>1, <2>1 DEF RowsTyped
  <2>3. /\ written' = WrittenAt({run[r].on}, now)
        /\ \A f \in Episodes \ {run[r].on} : episode'[f] = episode[f]
        /\ episode'[run[r].on].created = episode[run[r].on].created
        /\ episode'[run[r].on].timely = Timely(episode[run[r].on], now)
    BY <1>1, <1>8, <2>1, <2>2 DEF Advance, RowsTyped, Row
  <2> QED
    BY <1>3, <2>1, <2>3
<1>9. ASSUME NEW d \in Evidence, Complete(r, d, now)
      PROVE  RunnerWritesOne
  <2>1. run[r].on \in Episodes
    BY <1>5, <1>9 DEF Complete
  <2>2. episode[run[r].on] \in Row
    BY <1>1, <2>1 DEF RowsTyped
  <2>3. /\ written' = WrittenAt({run[r].on}, now)
        /\ \A f \in Episodes \ {run[r].on} : episode'[f] = episode[f]
        /\ episode'[run[r].on].created = episode[run[r].on].created
        /\ episode'[run[r].on].timely = Timely(episode[run[r].on], now)
    BY <1>1, <1>9, <2>1, <2>2 DEF Complete, RowsTyped, Row
  <2> QED
    BY <1>3, <2>1, <2>3
<1>10. CASE Answer(r) \/ Abandon(r)
  BY <1>2, <1>10 DEF Answer, Abandon
<1>11. CASE RunError(r, now)
  <2>1. run[r].on \in Episodes
    BY <1>5, <1>11 DEF RunError
  <2>2. episode[run[r].on] \in Row
    BY <1>1, <2>1 DEF RowsTyped
  <2>3. CASE UNCHANGED <<episode, events, written>>
    BY <1>2, <2>3
  <2>4. CASE ~UNCHANGED <<episode, events, written>>
    <3>1. /\ written' = WrittenAt({run[r].on}, now)
          /\ \A f \in Episodes \ {run[r].on} : episode'[f] = episode[f]
          /\ episode'[run[r].on].created = episode[run[r].on].created
          /\ episode'[run[r].on].timely = Timely(episode[run[r].on], now)
      BY <1>1, <1>11, <2>1, <2>2, <2>4 DEF RunError, RowsTyped, Row
    <3> QED
      BY <1>3, <2>1, <3>1
  <2> QED
    BY <2>3, <2>4
<1> QED
  BY <1>4, <1>6, <1>7, <1>8, <1>9, <1>10, <1>11

\* What a runner does keeps timestamps in order.
LEMMA RunnerKeepsDates ==
  ASSUME JournalInv, DatesOK, RunnerNext(Nat)
  PROVE  DatesOK'
<1>1. RowsTyped
  BY DEF JournalInv
<1>2. CASE UNCHANGED <<episode, written>>
  BY <1>2 DEF DatesOK, DateOK, TimeRanForward
<1>3. ASSUME NEW e \in Episodes, NEW now \in Nat, RunnerWrite(e, now)
      PROVE  DatesOK'
  <2>1. DatedWrite(e, now)
    BY <1>3, WrittenAlone DEF DatedWrite, RunnerWrite
  <2> QED
    BY <1>1, <1>3, <2>1, WriteKeepsDates DEF RunnerWrite
<1> QED
  BY <1>1, <1>2, <1>3, RunnerWrites DEF RunnerWritesOne

\* Before anything is written the timestamps are in order.
LEMMA InitEstablishesDates == JournalInit => DatesOK
  BY DEF JournalInit, DatesOK, DateOK, NoRow

\* Timestamps are out of order only where time ran backwards.
THEOREM JournalDates == JournalSpec => []DatesOK
<1>1. JournalInv /\ DatesOK /\ [RunnerNext(Nat)]_journalVars => DatesOK'
  <2> SUFFICES ASSUME JournalInv, DatesOK, [RunnerNext(Nat)]_journalVars PROVE DatesOK'
    OBVIOUS
  <2>1. CASE UNCHANGED journalVars
    BY <2>1 DEF journalVars, DatesOK, DateOK, TimeRanForward
  <2> QED
    BY <2>1, RunnerKeepsDates
<1> QED
  BY <1>1, InitEstablishesDates, JournalInvariant, PTL DEF JournalSpec

\* Rows, events, runs and answers keep their types: no sequence number ever
\* leaves the six events of the longest lifecycle.
THEOREM JournalTypeCorrect == JournalSpec => []JournalTypeOK
<1>1. JournalInv /\ DatesOK => JournalTypeOK
  BY DEF JournalInv, RowsTyped, DatesOK, JournalTypeOK
<1> QED
  BY <1>1, JournalInvariant, JournalDates, PTL

\* Every record that transactions, errors and crashes can leave behind passes
\* the admission that scanRecord and loadEvents apply when it is read back, its
\* timestamps where no transaction read an earlier time than one before it.
THEOREM RecordsAreAdmitted == JournalSpec => []EveryRecordAdmitted
<1>1. JournalInv /\ DatesOK => EveryRecordAdmitted
  BY DEF JournalInv, RecordsOK, RecordsReadable, DatesOK, DateOK, EveryRecordAdmitted, TimesAdmitted
<1> QED
  BY <1>1, JournalInvariant, JournalDates, PTL

\* The compare-and-swap of a runner is never lost.
THEOREM RunnersMirrorJournal == JournalSpec => []RunnerMirrorsJournal
<1>1. JournalInv => RunnerMirrorsJournal
  BY DEF JournalInv, RunsOK
<1> QED
  BY <1>1, JournalInvariant, PTL

\* All callers handed Evidence for an Episode were handed the same digest.
THEOREM AnswersAlwaysAgree == JournalSpec => []AnswersAgree
<1>1. JournalInv => AnswersAgree
  BY DEF JournalInv
<1> QED
  BY <1>1, JournalInvariant, PTL

\* A runner whose status still has a successor or a RUNTIME_ERROR edge runs an
\* Episode that is not terminal.
LEMMA StepKeepsTerminal ==
  JournalInv /\ [RunnerNext(Nat)]_journalVars => [KeepsTerminal]_journalVars
<1> USE JournalAssumption
<1> SUFFICES ASSUME JournalInv, RunnerNext(Nat), NEW e \in Episodes
             PROVE  /\ Exists(e) => episode'[e].request = episode[e].request
                    /\ IsTerminal(episode[e].status) =>
                         episode'[e] = episode[e] /\ events'[e] = events[e]
  BY DEF KeepsTerminal
<1>1. RowsTyped /\ RunsOK
  BY DEF JournalInv
<1>2. episode[e] \in Row
  BY <1>1 DEF RowsTyped
<1>3. ASSUME NEW r \in Runners, NEW f \in Episodes, NEW q \in Requests, NEW now \in Nat,
             Reserve(r, f, q, now)
      PROVE  ~Exists(f) /\ \A g \in Episodes \ {f} : episode'[g] = episode[g]
                                                  /\ events'[g] = events[g]
  BY <1>1, <1>3 DEF Reserve, CreateRow, RowsTyped
<1>4. ASSUME NEW r \in Runners, NEW now \in Nat, Advance(r, now)
      PROVE  /\ Exists(e) => episode'[e].request = episode[e].request
             /\ IsTerminal(episode[e].status) =>
                  episode'[e] = episode[e] /\ events'[e] = events[e]
  BY <1>1, <1>2, <1>4 DEF Advance, Holds, Successor, RowsTyped, Row, IsTerminal, Terminal
<1>5. ASSUME NEW r \in Runners, NEW d \in Evidence, NEW now \in Nat, Complete(r, d, now)
      PROVE  /\ Exists(e) => episode'[e].request = episode[e].request
             /\ IsTerminal(episode[e].status) =>
                  episode'[e] = episode[e] /\ events'[e] = events[e]
  BY <1>1, <1>2, <1>5 DEF Complete, Holds, RowsTyped, Row, IsTerminal, Terminal
<1>6. ASSUME NEW r \in Runners, NEW now \in Nat, RunError(r, now)
      PROVE  /\ Exists(e) => episode'[e].request = episode[e].request
             /\ IsTerminal(episode[e].status) =>
                  episode'[e] = episode[e] /\ events'[e] = events[e]
  <2>1. CASE e = run[r].on
    <3>1. ~IsTerminal(episode[e].status)
      BY <1>1, <1>6, <2>1 DEF RunError, RunsOK, RunnerMirrorsJournal, Holds
    <3> QED
      BY <1>1, <1>2, <1>6, <2>1, <3>1 DEF RunError, RowsTyped, Row
  <2>2. CASE e # run[r].on
    BY <1>1, <1>6, <2>2 DEF RunError, RowsTyped
  <2> QED
    BY <2>1, <2>2
<1>7. ASSUME NEW r \in Runners, NEW f \in Episodes, NEW q \in Requests,
             Reuse(r, f, q) \/ Refuse(r, f, q)
      PROVE  episode' = episode /\ events' = events
  BY <1>7 DEF Reuse, LoadRow, Refuse, journalVars
<1>8. ASSUME NEW r \in Runners, Answer(r) \/ Abandon(r)
      PROVE  episode' = episode /\ events' = events
  BY <1>8 DEF Answer, Abandon
<1>9. CASE \E r \in Runners, f \in Episodes, q \in Requests, now \in Nat : Reserve(r, f, q, now)
  <2>1. PICK f \in Episodes : /\ ~Exists(f)
                              /\ \A g \in Episodes \ {f} : episode'[g] = episode[g]
                                                        /\ events'[g] = events[g]
    BY <1>3, <1>9
  <2>2. CASE e = f
    BY <2>1, <2>2 DEF Exists, IsTerminal, Terminal
  <2>3. CASE e # f
    BY <2>1, <2>3
  <2> QED
    BY <2>2, <2>3
<1> QED
  BY <1>4, <1>5, <1>6, <1>7, <1>8, <1>9 DEF RunnerNext

\* No transaction of the Journal ever rewrites a terminal Episode.
THEOREM TerminalStaysFinal == JournalSpec => TerminalIsFinal
<1>1. JournalInv /\ [RunnerNext(Nat)]_journalVars => [KeepsTerminal]_journalVars
  BY StepKeepsTerminal
<1> QED
  BY <1>1, JournalInvariant, PTL DEF JournalSpec, TerminalIsFinal

-----------------------------------------------------------------------------
(***************************************************************************)
(* The rows of one Episode: T its task, A its attempts, c the clock.       *)
(***************************************************************************)

\* No task yet, none of its attempts either; a queued one may still be granted.
Unstarted(T, A) ==
  /\ T.state = "ABSENT" => T = NoTask /\ \A n \in Numbers : A[n] = NoAttempt
  /\ T.state = "QUEUED" => T.count < T.max

\* The attempts are 1..count, each with a fence of its task.
Numbered(T, A) ==
  /\ T.count <= T.max
  /\ \A n \in Numbers :
       /\ A[n].state # "ABSENT" <=> n <= T.count
       /\ A[n].state # "ABSENT" => A[n].fence \in 1..T.fence

\* A leased task is held by its latest attempt, and by no other.
Held(T, A) ==
  /\ T.state = "LEASED" =>
       /\ T.active = T.count
       /\ T.count \in Numbers
       /\ A[T.count].state = "LEASED"
       /\ A[T.count].commit = "NOT_STARTED"
       /\ A[T.count].fence = T.fence
  /\ T.state # "LEASED" => T.active = 0
  /\ \A n \in Numbers : A[n].state = "LEASED" => T.state = "LEASED" /\ n = T.count

\* Evidence is there exactly when the latest attempt completed the task.
Closed(T, A) ==
  /\ T.state = "COMPLETED" =>
       /\ T.final = T.count
       /\ T.count \in Numbers
       /\ T.digest \in Evidence
       /\ A[T.count].state = "COMPLETED"
       /\ A[T.count].commit = "COMMITTED"
  /\ T.state # "COMPLETED" => T.final = 0 /\ T.digest = None

\* What was tried before, and everything once the task is queued again, had no
\* effect; an unknown effect is the last.
Tried(T, A) ==
  \A n \in Numbers :
    /\ n < T.count \/ (n = T.count /\ T.state = "QUEUED") =>
         /\ A[n].commit = "NO_EFFECT"
         /\ T.profile = "external" => A[n].state = "FAILED"
    /\ A[n].commit = "UNKNOWN" => n = T.count /\ T.state = "COMMIT_UNKNOWN"

\* An attempt expires no earlier than in the second its lease ends in.
Past(A, c) ==
  \A n \in Numbers : A[n].state = "EXPIRED" => Second(A[n].lease) <= Second(c)

RowsOK(T, A, c) ==
  /\ T \in Task
  /\ A \in [Numbers -> Attempt]
  /\ Unstarted(T, A)
  /\ Numbered(T, A)
  /\ Held(T, A)
  /\ Closed(T, A)
  /\ Tried(T, A)
  /\ Past(A, c)

\* What a change of the rows from T, A to U, B never undoes: an attempt that
\* ended, the fence of any attempt, a cancellation request, a task that ended,
\* the attempts counted; and a queued task leaves the queue by a grant or by a
\* cancellation.
Final(T, A, U, B) ==
  /\ \A n \in Numbers : A[n].state \notin {"ABSENT", "LEASED"} => B[n] = A[n]
  /\ \A n \in Numbers :
       A[n].state # "ABSENT" => B[n].state # "ABSENT" /\ B[n].fence = A[n].fence
  /\ T.cancel => U.cancel /\ U.count = T.count
  /\ T.state \notin {"ABSENT", "QUEUED", "LEASED"} => U = T /\ B = A
  /\ U.count # T.count => T.count < U.count
  /\ T.state = "QUEUED" /\ U.count = T.count => U.state \in {"QUEUED", "CANCELLED"}

\* What a change from T to U may be for the promise.
Promised(T, U) ==
  \/ /\ T.state \in {"QUEUED", "LEASED"} /\ U.state = "LEASED"
     /\ U.fence = T.fence + 1 /\ U.digest = T.digest
  \/ /\ T.state = "LEASED" /\ U.state = "COMPLETED"
     /\ U.fence = T.fence /\ U.digest \in Evidence
  \/ /\ \/ T.state \in {"ABSENT", "LEASED"} /\ U.state = "QUEUED"
        \/ T.state \in {"QUEUED", "LEASED"} /\ U.state = "CANCELLED"
        \/ T.state = "LEASED" /\ U.state \in {"FAILED", "COMMIT_UNKNOWN"}
     /\ U.fence = T.fence /\ U.digest = T.digest
  \/ U.state = T.state /\ U.fence = T.fence /\ U.digest = T.digest

-----------------------------------------------------------------------------
(***************************************************************************)
(* Numbers and seconds.                                                    *)
(***************************************************************************)
LEMMA NumberFacts ==
  /\ Numbers \subseteq Nat
  /\ \A n \in Numbers : n >= 1 /\ n <= MaxAttempts
  /\ \A n \in Nat : n >= 1 /\ n <= MaxAttempts => n \in Numbers
  /\ 1 \in Numbers /\ 0 \notin Numbers
  /\ MaxAttempts \in Nat \ {0}
BY CoordinatorAssumption DEF Numbers

\* A later instant is no earlier second.
LEMMA SecondsGrow ==
  ASSUME NEW a \in Nat, NEW b \in Nat, a <= b
  PROVE  Second(a) <= Second(b)
<1>1. \A d \in Nat \ {0} : a \div d <= b \div d
  BY SMT
<1> QED
  BY <1>1, CoordinatorAssumption DEF Second

\* The text order agrees with time up to the second.
LEMMA StampSecond ==
  ASSUME NEW a \in Nat, NEW b \in Nat, StampLE(a, b)
  PROVE  Second(a) <= Second(b)
<1>1. Second(a) \in Int /\ Second(b) \in Int
  <2>1. \A d \in Nat \ {0} : a \div d \in Int /\ b \div d \in Int
    BY SMT
  <2> QED
    BY <2>1, CoordinatorAssumption DEF Second
<1> QED
  BY <1>1 DEF StampLE, TextLE

\* An attempt whose lease was set before stays so.
LEMMA PastLater ==
  ASSUME NEW A \in [Numbers -> Attempt], NEW c \in Nat, NEW d \in Nat, c <= d, Past(A, c)
  PROVE  Past(A, d)
<1>1. \A n \in Numbers : A[n].lease \in Nat
  BY DEF Attempt
<1>2. \A a \in Nat : Second(a) \in Int
  <2>1. \A a \in Nat, k \in Nat \ {0} : a \div k \in Int
    BY SMT
  <2> QED
    BY <2>1, CoordinatorAssumption DEF Second
<1>3. Second(c) <= Second(d)
  BY SecondsGrow
<1> QED
  BY <1>1, <1>2, <1>3 DEF Past

-----------------------------------------------------------------------------
(***************************************************************************)
(* What each kind of write does to the rows of its Episode.                *)
(***************************************************************************)

\* A new task.
LEMMA SubmitRows ==
  ASSUME NEW T, NEW A, NEW c, RowsOK(T, A, c), T.state = "ABSENT",
         NEW profile \in Profiles, NEW max \in Numbers, NEW now \in Nat
  PROVE  LET U == [NoTask EXCEPT !.state = "QUEUED", !.profile = profile,
                                 !.max = max, !.created = now]
         IN RowsOK(U, A, c) /\ Final(T, A, U, A) /\ Promised(T, U)
<1> DEFINE U == [NoTask EXCEPT !.state = "QUEUED", !.profile = profile,
                               !.max = max, !.created = now]
<1>0. NoTask \in Task
  BY NumberFacts DEF NoTask, Task, TaskStates, Profiles
<1>1. /\ U.state = "QUEUED" /\ U.profile = profile /\ U.max = max /\ U.count = 0
      /\ U.fence = 0 /\ U.active = 0 /\ U.cancel = FALSE /\ U.final = 0
      /\ U.digest = None /\ U.created = now
  BY DEF NoTask
<1>2. T = NoTask /\ \A n \in Numbers : A[n] = NoAttempt
  BY DEF RowsOK, Unstarted
<1>3. U \in Task
  BY <1>0 DEF Task, TaskStates
<1> HIDE DEF U
<1>4. RowsOK(U, A, c)
  BY <1>1, <1>2, <1>3, NumberFacts DEF RowsOK, Unstarted, Numbered, Held, Closed, Tried, NoAttempt
<1>5. Final(T, A, U, A) /\ Promised(T, U)
  BY <1>1, <1>2 DEF Final, Promised, NoTask
<1> QED
  BY <1>4, <1>5 DEF U

\* A grant: the next attempt, with the next fence.
LEMMA GrantRows ==
  ASSUME NEW T, NEW A, NEW c, RowsOK(T, A, c), T.state = "QUEUED", ~T.cancel,
         T.count + 1 \in Numbers, NEW lease \in Nat, NEW now \in Nat, NEW timely \in BOOLEAN
  PROVE  LET U == [T EXCEPT !.state = "LEASED", !.count = T.count + 1,
                            !.fence = T.fence + 1, !.active = T.count + 1,
                            !.timely = timely]
             B == [A EXCEPT ![T.count + 1] =
                     [state |-> "LEASED", commit |-> "NOT_STARTED", fence |-> T.fence + 1,
                      lease |-> lease, created |-> now, timely |-> TRUE]]
         IN RowsOK(U, B, c) /\ Final(T, A, U, B) /\ Promised(T, U)
<1> DEFINE n == T.count + 1
           U == [T EXCEPT !.state = "LEASED", !.count = T.count + 1,
                          !.fence = T.fence + 1, !.active = T.count + 1,
                          !.timely = timely]
           new == [state |-> "LEASED", commit |-> "NOT_STARTED", fence |-> T.fence + 1,
                   lease |-> lease, created |-> now, timely |-> TRUE]
           B == [A EXCEPT ![n] = new]
<1>1. T \in Task /\ A \in [Numbers -> Attempt] /\ n \in Numbers /\ T.count \in Nat /\ T.fence \in Nat
  BY NumberFacts DEF RowsOK, Task
<1>0. U \in Task
  <2>1. n \in 0..MaxAttempts /\ T.fence + 1 \in Nat
    BY <1>1, NumberFacts
  <2> HIDE DEF n
  <2>2. [T EXCEPT !.state = "LEASED", !.count = n, !.fence = T.fence + 1, !.active = n,
                  !.timely = timely] \in Task
    BY <1>1, <2>1 DEF Task, TaskStates
  <2> QED
    BY <2>2 DEF n
<1>2. /\ U.state = "LEASED" /\ U.count = n /\ U.fence = T.fence + 1 /\ U.active = n
      /\ U.profile = T.profile /\ U.max = T.max /\ U.cancel = T.cancel
      /\ U.final = T.final /\ U.digest = T.digest
  BY <1>1 DEF Task
<1>3. new \in Attempt
  BY <1>1 DEF Attempt, AttemptStates, CommitStates
<1>4. /\ B \in [Numbers -> Attempt]
      /\ B[n] = new
      /\ \A m \in Numbers \ {n} : B[m] = A[m]
  BY <1>1, <1>3
<1>5. new.state = "LEASED" /\ new.commit = "NOT_STARTED" /\ new.fence = T.fence + 1
  OBVIOUS
<1>6. \A m \in Numbers : m \in Nat /\ (m < n => m <= T.count) /\ (m # n /\ m <= n => m < n)
                        /\ (m < n => m < T.count \/ m = T.count) /\ (m <= T.count => m # n)
  BY <1>1, NumberFacts
<1> HIDE DEF U, B, n, new
<1>7. Numbered(U, B)
  <2>1. U.count <= U.max
    <3>1. T.max \in Nat /\ T.count < T.max
      BY <1>1, NumberFacts DEF RowsOK, Unstarted, Task
    <3> QED
      BY <3>1, <1>1, <1>2 DEF n
  <2>2. ASSUME NEW m \in Numbers
        PROVE  /\ B[m].state # "ABSENT" <=> m <= U.count
               /\ B[m].state # "ABSENT" => B[m].fence \in 1..U.fence
    <3>1. CASE m = n
      BY <3>1, <1>1, <1>2, <1>4, <1>5, <1>6
    <3>2. CASE m # n
      <4>1. /\ A[m].state # "ABSENT" <=> m <= T.count
            /\ A[m].state # "ABSENT" => A[m].fence \in 1..T.fence
        BY DEF RowsOK, Numbered
      <4> QED
        BY <3>2, <4>1, <1>1, <1>2, <1>4, <1>6 DEF n
    <3> QED
      BY <3>1, <3>2
  <2> QED
    BY <2>1, <2>2 DEF Numbered
<1>8. Held(U, B)
  BY <1>1, <1>2, <1>4, <1>5 DEF RowsOK, Held
<1>9. Closed(U, B)
  BY <1>2 DEF RowsOK, Closed
<1>10. Tried(U, B)
  BY <1>1, <1>2, <1>4, <1>5, <1>6 DEF RowsOK, Tried
<1>11. Past(B, c)
  BY <1>4, <1>5 DEF RowsOK, Past
<1>12. Final(T, A, U, B)
  BY <1>1, <1>2, <1>4, <1>6 DEF RowsOK, Numbered, Final
<1>13. Unstarted(U, B) /\ Promised(T, U)
  BY <1>2 DEF Unstarted, Promised
<1> QED
  BY <1>0, <1>4, <1>7, <1>8, <1>9, <1>10, <1>11, <1>12, <1>13 DEF RowsOK, U, B, n, new

\* A heartbeat: the lease of the holder moves.
LEMMA BeatRows ==
  ASSUME NEW T, NEW A, NEW c, RowsOK(T, A, c), NEW n \in Numbers,
         A[n].state = "LEASED", NEW lease \in Nat, NEW timely \in BOOLEAN
  PROVE  LET B == [A EXCEPT ![n].lease = lease, ![n].timely = timely]
         IN RowsOK(T, B, c) /\ Final(T, A, T, B) /\ Promised(T, T)
<1> DEFINE B == [A EXCEPT ![n].lease = lease, ![n].timely = timely]
<1>1. A \in [Numbers -> Attempt]
  BY DEF RowsOK
<1>2. /\ B \in [Numbers -> Attempt]
      /\ B[n].state = "LEASED" /\ B[n].commit = A[n].commit /\ B[n].fence = A[n].fence
      /\ \A m \in Numbers \ {n} : B[m] = A[m]
  BY <1>1 DEF Attempt
<1> HIDE DEF B
<1>3. T.state = "LEASED"
  BY DEF RowsOK, Held
<1>4. RowsOK(T, B, c)
  BY <1>2, <1>3 DEF RowsOK, Unstarted, Numbered, Held, Closed, Tried, Past
<1>5. Final(T, A, T, B) /\ Promised(T, T)
  BY <1>2, <1>3 DEF Final, Promised
<1> QED
  BY <1>4, <1>5 DEF B

\* A task and its active attempt as they end.
EndedTask(T, s, t) == [T EXCEPT !.state = s, !.active = 0, !.timely = t]
EndedTries(A, n, x, k, a) == [A EXCEPT ![n].state = x, ![n].commit = k, ![n].timely = a]

\* The end of the held attempt, without Evidence.
LEMMA EndRows ==
  ASSUME NEW T, NEW A, NEW c, RowsOK(T, A, c), T.state = "LEASED",
         NEW s \in {"QUEUED", "FAILED", "CANCELLED", "COMMIT_UNKNOWN"},
         NEW x \in {"EXPIRED", "FAILED", "CANCELLED", "COMMIT_UNKNOWN"},
         NEW k \in {"NO_EFFECT", "UNKNOWN"}, NEW t \in BOOLEAN, NEW a \in BOOLEAN,
         k = "UNKNOWN" => s = "COMMIT_UNKNOWN",
         s = "QUEUED" => T.count < T.max /\ (T.profile = "external" => x = "FAILED"),
         x = "EXPIRED" => Second(A[T.active].lease) <= Second(c)
  PROVE  LET U == EndedTask(T, s, t)
             B == EndedTries(A, T.active, x, k, a)
         IN RowsOK(U, B, c) /\ Final(T, A, U, B) /\ Promised(T, U)
<1> DEFINE n == T.count
           U == EndedTask(T, s, t)
           B == EndedTries(A, T.active, x, k, a)
<1>1. /\ T \in Task /\ A \in [Numbers -> Attempt] /\ T.active = n /\ n \in Numbers
      /\ A[n].state = "LEASED"
      /\ \A m \in Numbers : A[m].state = "LEASED" => m = n
  BY DEF RowsOK, Held
<1>2. /\ U.state = s /\ U.count = n /\ U.fence = T.fence /\ U.active = 0
      /\ U.profile = T.profile /\ U.max = T.max /\ U.cancel = T.cancel
      /\ U.final = T.final /\ U.digest = T.digest
  BY <1>1 DEF Task, EndedTask
<1>3. U \in Task
  <2>1. 0 \in 0..MaxAttempts
    BY NumberFacts
  <2> QED
    BY <1>1, <2>1 DEF Task, TaskStates, EndedTask
<1>4. B = [A EXCEPT ![n].state = x, ![n].commit = k, ![n].timely = a]
  BY <1>1 DEF EndedTries
<1>5. /\ B \in [Numbers -> Attempt]
      /\ B[n].state = x /\ B[n].commit = k
      /\ B[n].fence = A[n].fence /\ B[n].lease = A[n].lease
      /\ \A m \in Numbers \ {n} : B[m] = A[m]
  <2>1. A[n] \in Attempt
    BY <1>1
  <2> DEFINE r == [A[n] EXCEPT !.state = x, !.commit = k, !.timely = a]
  <2>2. /\ r \in Attempt /\ r.state = x /\ r.commit = k
        /\ r.fence = A[n].fence /\ r.lease = A[n].lease
    BY <2>1 DEF Attempt, AttemptStates, CommitStates
  <2> HIDE DEF B, n
  <2>3. B = [A EXCEPT ![n] = r]
    BY <1>1, <1>4, <2>1 DEF Attempt
  <2> HIDE DEF r
  <2> QED
    BY <1>1, <2>2, <2>3
<1>6. \A m \in Numbers : m \in Nat /\ (m < n => m # n)
  BY <1>1, NumberFacts
<1>7. x = "EXPIRED" => Second(A[n].lease) <= Second(c)
  BY <1>1
<1> HIDE DEF U, B
<1>8. Unstarted(U, B)
  BY <1>2 DEF Unstarted, n
<1> HIDE DEF n
<1>9. Numbered(U, B)
  BY <1>1, <1>2, <1>5 DEF RowsOK, Numbered, n
<1>10. Held(U, B)
  BY <1>1, <1>2, <1>5 DEF RowsOK, Held
<1>11. Closed(U, B)
  BY <1>2 DEF RowsOK, Closed
<1>12. Tried(U, B)
  <2>1. ASSUME NEW m \in Numbers, m # n
        PROVE  /\ m < U.count \/ (m = U.count /\ U.state = "QUEUED") =>
                    /\ B[m].commit = "NO_EFFECT"
                    /\ U.profile = "external" => B[m].state = "FAILED"
               /\ B[m].commit = "UNKNOWN" => m = U.count /\ U.state = "COMMIT_UNKNOWN"
    BY <2>1, <1>1, <1>2, <1>5 DEF RowsOK, Tried, n
  <2>2. /\ n < U.count \/ (n = U.count /\ U.state = "QUEUED") =>
             /\ B[n].commit = "NO_EFFECT"
             /\ U.profile = "external" => B[n].state = "FAILED"
        /\ B[n].commit = "UNKNOWN" => n = U.count /\ U.state = "COMMIT_UNKNOWN"
    BY <1>1, <1>2, <1>5, <1>6
  <2> QED
    BY <2>1, <2>2 DEF Tried
<1>13. Past(B, c)
  BY <1>5, <1>7 DEF RowsOK, Past
<1>14. Final(T, A, U, B)
  BY <1>1, <1>2, <1>5 DEF Final, n
<1>15. Promised(T, U)
  BY <1>2 DEF Promised
<1> QED
  BY <1>3, <1>5, <1>8, <1>9, <1>10, <1>11, <1>12, <1>13, <1>14, <1>15 DEF RowsOK, U, B

\* The end of the held attempt, with Evidence.
LEMMA CompleteRows ==
  ASSUME NEW T, NEW A, NEW c, RowsOK(T, A, c), T.state = "LEASED", ~T.cancel,
         NEW n \in Numbers, T.active = n, NEW d \in Evidence,
         NEW t \in BOOLEAN, NEW a \in BOOLEAN
  PROVE  LET U == [T EXCEPT !.state = "COMPLETED", !.active = 0, !.final = n, !.digest = d,
                            !.timely = t]
             B == [A EXCEPT ![n].state = "COMPLETED", ![n].commit = "COMMITTED",
                            ![n].timely = a]
         IN RowsOK(U, B, c) /\ Final(T, A, U, B) /\ Promised(T, U)
<1> DEFINE U == [T EXCEPT !.state = "COMPLETED", !.active = 0, !.final = n, !.digest = d,
                          !.timely = t]
           B == [A EXCEPT ![n].state = "COMPLETED", ![n].commit = "COMMITTED",
                          ![n].timely = a]
<1>1. /\ T \in Task /\ A \in [Numbers -> Attempt] /\ T.count = n
      /\ A[n].state = "LEASED"
      /\ \A m \in Numbers : A[m].state = "LEASED" => m = n
  BY DEF RowsOK, Held
<1>2. /\ U.state = "COMPLETED" /\ U.count = n /\ U.fence = T.fence /\ U.active = 0
      /\ U.profile = T.profile /\ U.max = T.max /\ U.cancel = T.cancel
      /\ U.final = n /\ U.digest = d
  BY <1>1 DEF Task
<1>3. U \in Task
  <2>1. 0 \in 0..MaxAttempts /\ n \in 0..MaxAttempts
    BY NumberFacts
  <2> QED
    BY <1>1, <2>1 DEF Task, TaskStates
<1>4. /\ B \in [Numbers -> Attempt]
      /\ B[n].state = "COMPLETED" /\ B[n].commit = "COMMITTED"
      /\ B[n].fence = A[n].fence
      /\ \A m \in Numbers \ {n} : B[m] = A[m]
  <2>1. A[n] \in Attempt
    BY <1>1
  <2>2. [A[n] EXCEPT !.state = "COMPLETED", !.commit = "COMMITTED", !.timely = a] \in Attempt
    BY <2>1 DEF Attempt, AttemptStates, CommitStates
  <2> QED
    BY <1>1, <2>1, <2>2 DEF Attempt
<1> HIDE DEF U, B
<1>5. \A m \in Numbers : m \in Nat /\ (m < n => m # n)
  BY NumberFacts
<1>6. Unstarted(U, B) /\ Closed(U, B)
  BY <1>2, <1>4 DEF Unstarted, Closed
<1>7. Numbered(U, B) /\ Held(U, B)
  BY <1>1, <1>2, <1>4 DEF RowsOK, Numbered, Held
<1>8. Tried(U, B)
  BY <1>1, <1>2, <1>4, <1>5 DEF RowsOK, Tried
<1>9. Past(B, c)
  BY <1>4 DEF RowsOK, Past
<1>10. Final(T, A, U, B) /\ Promised(T, U)
  BY <1>1, <1>2, <1>4 DEF Final, Promised
<1> QED
  BY <1>3, <1>4, <1>6, <1>7, <1>8, <1>9, <1>10 DEF RowsOK, U, B

\* A cancellation request.
LEMMA CancelRows ==
  ASSUME NEW T, NEW A, NEW c, RowsOK(T, A, c), T.state \in {"QUEUED", "LEASED"},
         NEW t \in BOOLEAN
  PROVE  LET U == [T EXCEPT !.cancel = TRUE,
                            !.state = IF @ = "QUEUED" THEN "CANCELLED" ELSE @,
                            !.timely = t]
         IN RowsOK(U, A, c) /\ Final(T, A, U, A) /\ Promised(T, U)
<1> DEFINE U == [T EXCEPT !.cancel = TRUE,
                          !.state = IF @ = "QUEUED" THEN "CANCELLED" ELSE @,
                          !.timely = t]
<1>1. T \in Task
  BY DEF RowsOK
<1>2. /\ U.state = IF T.state = "QUEUED" THEN "CANCELLED" ELSE T.state
      /\ U.count = T.count /\ U.fence = T.fence /\ U.active = T.active
      /\ U.profile = T.profile /\ U.max = T.max /\ U.cancel = TRUE
      /\ U.final = T.final /\ U.digest = T.digest
  BY <1>1 DEF Task
<1>3. U \in Task
  BY <1>1 DEF Task, TaskStates
<1> HIDE DEF U
<1>4. RowsOK(U, A, c)
  BY <1>2, <1>3 DEF RowsOK, Unstarted, Numbered, Held, Closed, Tried
<1>5. Final(T, A, U, A) /\ Promised(T, U)
  BY <1>2 DEF Final, Promised
<1> QED
  BY <1>4, <1>5 DEF U

\* Two changes in one transaction: an end and a grant of the same Episode.
LEMMA EndThenGrant ==
  ASSUME NEW T, NEW A, NEW U, NEW B, NEW V, NEW C,
         Final(T, A, U, B), Final(U, B, V, C), Promised(T, U), Promised(U, V),
         U.state = "QUEUED", V.state = "LEASED", T.state # "ABSENT",
         V.fence = U.fence + 1, V.digest = U.digest,
         T.count \in Nat, U.count \in Nat, V.count = U.count + 1
  PROVE  Final(T, A, V, C) /\ Promised(T, V)
<1>1. Final(T, A, V, C)
  <2>1. T.state \in {"QUEUED", "LEASED"}
    BY DEF Promised
  <2>2. T.count < V.count
    BY DEF Final
  <2>3. \A n \in Numbers :
          A[n].state # "ABSENT" => C[n].state # "ABSENT" /\ C[n].fence = A[n].fence
    BY DEF Final
  <2> QED
    BY <2>1, <2>2, <2>3 DEF Final
<1>2. Promised(T, V)
  BY DEF Promised
<1> QED
  BY <1>1, <1>2

-----------------------------------------------------------------------------
(***************************************************************************)
(* The inductive invariant.                                                *)
(***************************************************************************)
CoordTypeOK ==
  /\ clock \in Nat
  /\ task \in [Episodes -> Task]
  /\ attempt \in [Episodes -> [Numbers -> Attempt]]
  /\ call \in [Workers -> Call]
  /\ submit \in [Submitters -> Submit]

\* No call carries a reading the clock has not shown.
CallsPast == \A w \in Workers : call[w].now <= clock

TasksOK == \A e \in Episodes : RowsOK(task[e], attempt[e], clock)

\* Where the record of a task's Episode stands.
Parent(e) ==
  /\ task[e].state \notin {"ABSENT", "COMPLETED", "CANCELLED"} => Holds(e, "CREATED", 0)
  /\ task[e].state = "CANCELLED" => episode[e].status = "CANCELLED"
  /\ task[e].state = "COMPLETED" =>
       episode[e].status = Verdict(task[e].digest) /\ episode[e].evidence = task[e].digest

\* A local run never executes an Episode that was submitted remotely.
Unshared ==
  \A r \in Runners : run[r].on # None =>
    /\ task[run[r].on].state = "ABSENT"
    /\ \A s \in Submitters : submit[s].reserved => submit[s].on # run[r].on

\* Between the transactions of a Submit its Episode waits, untouched.
Reservations ==
  \A s \in Submitters : submit[s].reserved =>
    /\ submit[s].on \in Episodes
    /\ task[submit[s].on].state = "ABSENT" => Holds(submit[s].on, "CREATED", 0)

ParentsOK == (\A e \in Episodes : Parent(e)) /\ Unshared /\ Reservations

CoordInv ==
  CoordTypeOK /\ CallsPast /\ TasksOK /\ JournalInv /\ ParentsOK

\* What no step of the coordinator does.
CoordKeeps ==
  /\ \A e \in Episodes :
       /\ Final(task[e], attempt[e], task'[e], attempt'[e])
       /\ Promised(task[e], task'[e])
       /\ task[e].cancel => episode'[e].evidence = episode[e].evidence
  /\ KeepsTerminal

-----------------------------------------------------------------------------
(***************************************************************************)
(* Steps that write no row.                                                *)
(***************************************************************************)
LEMMA SameRows ==
  ASSUME NEW e \in Episodes, task'[e] = task[e], attempt'[e] = attempt[e]
  PROVE  Final(task[e], attempt[e], task'[e], attempt'[e]) /\ Promised(task[e], task'[e])
BY DEF Final, Promised

\* A step that changes neither a task nor an attempt keeps their rows, however
\* late it is.
LEMMA TasksKept ==
  ASSUME TasksOK, CoordTypeOK, UNCHANGED <<task, attempt>>, clock' \in Nat, clock <= clock'
  PROVE  /\ TasksOK'
         /\ \A e \in Episodes : /\ Final(task[e], attempt[e], task'[e], attempt'[e])
                               /\ Promised(task[e], task'[e])
<1>1. \A e \in Episodes : RowsOK(task[e], attempt[e], clock')
  <2> TAKE e \in Episodes
  <2>1. RowsOK(task[e], attempt[e], clock)
    BY DEF TasksOK
  <2>2. Past(attempt[e], clock')
    BY <2>1, PastLater DEF RowsOK, CoordTypeOK
  <2> QED
    BY <2>1, <2>2 DEF RowsOK
<1> QED
  BY <1>1, SameRows DEF TasksOK

\* A step that changes no record keeps the invariant.
LEMMA QuietStep ==
  ASSUME CoordInv, UNCHANGED <<episode, events, run, answered, task, attempt>>,
         clock' \in Nat, clock <= clock',
         call' \in [Workers -> Call],
         \A w \in Workers : call'[w].now <= clock',
         submit' \in [Submitters -> Submit],
         \A s \in Submitters : submit'[s].reserved => submit'[s] = submit[s]
  PROVE  CoordInv' /\ CoordKeeps
<1>1. TasksOK' /\ \A e \in Episodes : /\ Final(task[e], attempt[e], task'[e], attempt'[e])
                                     /\ Promised(task[e], task'[e])
  BY TasksKept DEF CoordInv
<1>2. JournalInv'
  BY StutterPreserves DEF CoordInv
<1>3. ParentsOK'
  <2>1. \A e \in Episodes : Parent(e)'
    BY DEF CoordInv, ParentsOK, Parent, Holds
  <2>2. Unshared'
    BY DEF CoordInv, ParentsOK, Unshared
  <2>3. Reservations'
    BY DEF CoordInv, ParentsOK, Reservations, Holds
  <2> QED
    BY <2>1, <2>2, <2>3 DEF ParentsOK
<1>4. CoordTypeOK' /\ CallsPast'
  BY DEF CoordInv, CoordTypeOK, CallsPast
<1>5. KeepsTerminal
  BY DEF KeepsTerminal
<1> QED
  BY <1>1, <1>2, <1>3, <1>4, <1>5 DEF CoordInv, CoordKeeps

\* A reading of the clock is an instant that has come.
LEMMA NowPast ==
  ASSUME CoordTypeOK, NEW now \in Readings
  PROVE  now \in Nat /\ now <= clock
BY DEF CoordTypeOK, Readings

\* A runner's readings of the clock are times.
LEMMA AnyReading == CoordTypeOK /\ RunnerNext(Readings) => RunnerNext(Nat)
  BY NowPast DEF RunnerNext

\* A call and a submission that are not there have their types.
LEMMA CallTypes == NoCall \in Call /\ NoSubmit \in Submit /\ ~NoSubmit.reserved
BY DEF NoCall, Call, NoSubmit, Submit

\* The steps of callers, and of time, change no record.
LEMMA QuietActions ==
  ASSUME CoordInv,
         \/ Tick
         \/ Restart
         \/ \E w \in Workers : \/ Refused(w)
                               \/ \E kind \in {"claim", "heartbeat"} : ReadClock(w, kind)
         \/ \E s \in Submitters : SubmitRepeat(s) \/ SubmitBlock(s) \/ SubmitAbandon(s)
  PROVE  CoordInv' /\ CoordKeeps
<1> USE CallTypes
<1>0. /\ clock \in Nat /\ call \in [Workers -> Call] /\ submit \in [Submitters -> Submit]
      /\ \A w \in Workers : call[w].now <= clock
  BY DEF CoordInv, CoordTypeOK, CallsPast
<1>1. CASE Tick
  <2>1. \A w \in Workers : call'[w].now <= clock'
    BY <1>0, <1>1 DEF Tick, Call
  <2> QED
    BY <1>0, <1>1, <2>1, QuietStep DEF Tick, journalVars
<1>2. CASE Restart
  <2>1. \A w \in Workers : call'[w] = NoCall
    BY <1>2 DEF Restart
  <2>2. \A s \in Submitters : ~submit'[s].reserved
    BY <1>2 DEF Restart
  <2>3. call' \in [Workers -> Call] /\ submit' \in [Submitters -> Submit]
    BY <1>2 DEF Restart
  <2> QED
    BY <1>0, <1>2, <2>1, <2>2, <2>3, QuietStep DEF Restart, journalVars, NoCall
<1>3. ASSUME NEW w \in Workers, Refused(w)
      PROVE  CoordInv' /\ CoordKeeps
  <2>1. /\ call' \in [Workers -> Call]
        /\ \A v \in Workers : call'[v] = call[v] \/ call'[v] = NoCall
    BY <1>0, <1>3 DEF Refused
  <2> QED
    BY <1>0, <1>3, <2>1, QuietStep DEF Refused, journalVars, NoCall
<1>4. ASSUME NEW w \in Workers, NEW kind \in {"claim", "heartbeat"}, ReadClock(w, kind)
      PROVE  CoordInv' /\ CoordKeeps
  <2>1. PICK now \in Readings : call' = [call EXCEPT ![w] = [kind |-> kind, now |-> now]]
    BY <1>4 DEF ReadClock
  <2>2. now \in Nat /\ now <= clock
    BY NowPast DEF CoordInv
  <2>3. [kind |-> kind, now |-> now] \in Call
    BY <2>2 DEF Call
  <2>4. /\ call' \in [Workers -> Call]
        /\ \A v \in Workers : call'[v] = call[v] \/ call'[v] = [kind |-> kind, now |-> now]
    BY <1>0, <2>1, <2>3
  <2>5. \A v \in Workers : call'[v].now <= clock
    BY <1>0, <2>2, <2>4
  <2> QED
    BY <1>0, <1>4, <2>4, <2>5, QuietStep DEF ReadClock, journalVars
<1>5. ASSUME NEW s \in Submitters, SubmitRepeat(s) \/ SubmitBlock(s) \/ SubmitAbandon(s)
      PROVE  CoordInv' /\ CoordKeeps
  <2>1. submit' = submit \/ submit' = [submit EXCEPT ![s] = NoSubmit]
    BY <1>5 DEF SubmitRepeat, SubmitBlock, SubmitAbandon
  <2>2. /\ submit' \in [Submitters -> Submit]
        /\ \A u \in Submitters : submit'[u].reserved => submit'[u] = submit[u]
    BY <1>0, <2>1
  <2> QED
    BY <1>0, <1>5, <2>2, QuietStep DEF SubmitRepeat, SubmitBlock, SubmitAbandon, journalVars
<1> QED
  BY <1>1, <1>2, <1>3, <1>4, <1>5

-----------------------------------------------------------------------------
(***************************************************************************)
(* Steps of the local runner.                                              *)
(***************************************************************************)

\* An Episode with a task, or reserved by a Submit, has a record.
LEMMA TaskExists ==
  ASSUME CoordInv, NEW e \in Episodes
  PROVE  /\ task[e].state # "ABSENT" => Exists(e)
         /\ \A s \in Submitters : submit[s].reserved /\ submit[s].on = e => Exists(e)
<1>1. task[e].state # "ABSENT" => Exists(e)
  BY DEF CoordInv, ParentsOK, Parent, Holds, Exists, Verdict
<1> QED
  BY <1>1 DEF CoordInv, ParentsOK, Reservations, Holds, Exists

\* A runner touches the Episode it runs, or one that has no record, and nothing
\* else.
LEMMA RunnerTouches ==
  ASSUME CoordInv, RunnerNext(Nat), NEW e \in Episodes,
         task[e].state # "ABSENT" \/ \E s \in Submitters : submit[s].reserved /\ submit[s].on = e
  PROVE  /\ episode'[e] = episode[e] /\ events'[e] = events[e]
         /\ \A r \in Runners : run'[r].on # None => run'[r].on # e
<1>1. Exists(e)
  BY TaskExists
<1>2. \A r \in Runners : run[r].on # None => run[r].on # e
  BY DEF CoordInv, ParentsOK, Unshared
<1>3. e # None /\ RowsTyped
  BY JournalAssumption DEF CoordInv, JournalInv
<1>4. PICK r \in Runners, now \in Nat :
        \/ \E f \in Episodes, q \in Requests :
             Reserve(r, f, q, now) \/ Reuse(r, f, q) \/ Refuse(r, f, q)
        \/ Advance(r, now)
        \/ \E d \in Evidence : Complete(r, d, now)
        \/ Answer(r)
        \/ RunError(r, now)
        \/ Abandon(r)
  BY DEF RunnerNext
<1>5. run[r].on # e
  BY <1>2, <1>3
<1>6. ASSUME NEW f \in Episodes, NEW q \in Requests, Reserve(r, f, q, now)
      PROVE  /\ episode'[e] = episode[e] /\ events'[e] = events[e]
             /\ \A s \in Runners : run'[s].on # None => run'[s].on # e
  <2>1. f # e
    BY <1>1, <1>6 DEF Reserve, CreateRow
  <2> QED
    BY <1>2, <1>3, <1>6, <2>1 DEF Reserve, CreateRow, RowsTyped
<1>7. CASE \E f \in Episodes, q \in Requests : Reuse(r, f, q) \/ Refuse(r, f, q)
  BY <1>2, <1>7 DEF Reuse, LoadRow, Refuse, journalVars
<1>8. CASE Advance(r, now)
  BY <1>2, <1>3, <1>5, <1>8 DEF Advance, RowsTyped, Run
<1>9. CASE \E d \in Evidence : Complete(r, d, now)
  BY <1>2, <1>3, <1>5, <1>9 DEF Complete, RowsTyped, Run
<1>10. CASE Answer(r) \/ Abandon(r)
  BY <1>2, <1>3, <1>5, <1>10 DEF Answer, Abandon, RowsTyped, Idle
<1>11. CASE RunError(r, now)
  <2>1. run' = [run EXCEPT ![r] = Idle]
    BY <1>11 DEF RunError
  <2>2. episode'[e] = episode[e] /\ events'[e] = events[e]
    BY <1>3, <1>5, <1>11 DEF RunError, RowsTyped
  <2> QED
    BY <1>2, <1>3, <2>1, <2>2 DEF RowsTyped, Idle
<1> QED
  BY <1>4, <1>6, <1>7, <1>8, <1>9, <1>10, <1>11

\* A step of a runner on the Journal keeps the invariant.
LEMMA RunnerStep ==
  ASSUME CoordInv, RunnerNext(Nat), UNCHANGED coordVars
  PROVE  CoordInv' /\ CoordKeeps
<1>1. JournalInv'
  BY JournalInvInductive DEF CoordInv
<1>2. KeepsTerminal
  <2>1. [KeepsTerminal]_journalVars
    BY StepKeepsTerminal DEF CoordInv
  <2> QED
    BY <2>1 DEF KeepsTerminal, journalVars
<1>3. /\ clock' = clock /\ task' = task /\ attempt' = attempt
      /\ call' = call /\ submit' = submit
  BY DEF coordVars
<1>4. CoordTypeOK' /\ CallsPast'
  BY <1>3 DEF CoordInv, CoordTypeOK, CallsPast
<1>5. TasksOK' /\ \A e \in Episodes : /\ Final(task[e], attempt[e], task'[e], attempt'[e])
                                     /\ Promised(task[e], task'[e])
  BY <1>3, TasksKept DEF CoordInv, CoordTypeOK
<1>6. \A e \in Episodes : task[e].cancel => task[e].state # "ABSENT"
  BY DEF CoordInv, TasksOK, RowsOK, Unstarted, NoTask
<1>7. \A e \in Episodes : task[e].cancel => episode'[e].evidence = episode[e].evidence
  BY <1>6, RunnerTouches
<1>8. \A e \in Episodes : Parent(e)'
  BY <1>3, RunnerTouches DEF CoordInv, ParentsOK, Parent, Holds
<1>9. Unshared'
  <2> SUFFICES ASSUME NEW r \in Runners, run'[r].on # None
               PROVE  /\ task[run'[r].on].state = "ABSENT"
                      /\ \A s \in Submitters : submit[s].reserved => submit[s].on # run'[r].on
    BY <1>3 DEF Unshared
  <2>1. run'[r].on \in Episodes
    BY <1>1 DEF JournalInv, RowsTyped, Run
  <2> QED
    BY <2>1, RunnerTouches
<1>10. Reservations'
  BY <1>3, RunnerTouches DEF CoordInv, ParentsOK, Reservations, Holds
<1> QED
  BY <1>1, <1>2, <1>4, <1>5, <1>7, <1>8, <1>9, <1>10 DEF CoordInv, CoordKeeps, ParentsOK

-----------------------------------------------------------------------------
(***************************************************************************)
(* Submit.                                                                 *)
(***************************************************************************)

\* The first transaction creates the record and keeps its reservation, or finds
\* the record and keeps none.
LEMMA SubmitReserveStep ==
  ASSUME CoordInv, NEW s \in Submitters, NEW e \in Episodes, NEW q \in Requests,
         SubmitReserve(s, e, q)
  PROVE  CoordInv' /\ CoordKeeps
<1>0. /\ clock \in Nat /\ call \in [Workers -> Call] /\ submit \in [Submitters -> Submit]
      /\ \A w \in Workers : call[w].now <= clock
      /\ RowsTyped /\ RunsOK /\ RecordsOK /\ AnswersAgree
  BY DEF CoordInv, CoordTypeOK, CallsPast, JournalInv
<1>1. CASE LoadRow(e, q) /\ submit' = [submit EXCEPT ![s] = [on |-> e, reserved |-> FALSE]]
  <2>1. [on |-> e, reserved |-> FALSE] \in Submit
    BY DEF Submit
  <2>2. /\ submit' \in [Submitters -> Submit]
        /\ \A u \in Submitters : submit'[u].reserved => submit'[u] = submit[u]
    BY <1>0, <1>1, <2>1
  <2> QED
    BY <1>0, <1>1, <2>2, QuietStep DEF SubmitReserve, LoadRow
<1>2. CASE /\ \E now \in Readings : CreateRow(e, q, now)
           /\ submit' = [submit EXCEPT ![s] = [on |-> e, reserved |-> TRUE]]
  <2>0. PICK now \in Nat : CreateRow(e, q, now)
    BY <1>2, NowPast DEF CoordInv
  <2>1. [on |-> e, reserved |-> TRUE] \in Submit
    BY DEF Submit
  <2>2. /\ submit' \in [Submitters -> Submit]
        /\ submit'[s] = [on |-> e, reserved |-> TRUE]
        /\ \A u \in Submitters \ {s} : submit'[u] = submit[u]
    BY <1>0, <1>2, <2>1
  <2>3. /\ ~Exists(e)
        /\ episode'[e].status = "CREATED" /\ episode'[e].sequence = 0
        /\ \A f \in Episodes \ {e} : episode'[f] = episode[f] /\ events'[f] = events[f]
    BY <1>0, <2>0 DEF CreateRow, RowsTyped, NewRow, NoRow
  <2>4. /\ episode' \in [Episodes -> Row]
        /\ events' \in [Episodes -> [Sequences0 -> Events]]
        /\ RecordsOK' /\ AnswersAgree'
    BY <1>0, <2>0, CreateRowRecords DEF SubmitReserve
  <2>5. run' = run /\ answered' = answered /\ UNCHANGED <<clock, task, attempt, call>>
    BY DEF SubmitReserve
  <2>6. task[e].state = "ABSENT"
    BY <2>3, TaskExists
  <2>7. \A r \in Runners : run[r].on # None => run[r].on \in Episodes /\ run[r].on # e
    <3>1. \A r \in Runners : run[r] \in Run
      BY <1>0 DEF RowsTyped
    <3> QED
      BY <1>0, <2>3, <3>1 DEF RunsOK, RunnerMirrorsJournal, Holds, Exists, Run, Statuses,
         Progress, Terminal
  <2>8. RowsTyped'
    BY <1>0, <2>4, <2>5 DEF RowsTyped
  <2>9. RunsOK'
    BY <1>0, <2>3, <2>5, <2>7 DEF RunsOK, RunnerMirrorsJournal, Holds, RunsAtDepth,
       RunsExclusive, FinishedHasEvidence
  <2>10. \A f \in Episodes : Parent(f)'
    BY <2>3, <2>5, <2>6 DEF CoordInv, ParentsOK, Parent, Holds
  <2>11. Unshared'
    BY <2>2, <2>5, <2>7 DEF CoordInv, ParentsOK, Unshared
  <2>12. Reservations'
    BY <2>2, <2>3, <2>5, TaskExists DEF CoordInv, ParentsOK, Reservations, Holds
  <2>13. TasksOK' /\ \A f \in Episodes : /\ Final(task[f], attempt[f], task'[f], attempt'[f])
                                       /\ Promised(task[f], task'[f])
    BY <1>0, <2>5, TasksKept DEF CoordInv
  <2>14. \A f \in Episodes : task[f].cancel => f # e
    BY <2>6 DEF CoordInv, TasksOK, RowsOK, Unstarted, NoTask
  <2>15. KeepsTerminal
    BY <2>3 DEF KeepsTerminal, Exists, IsTerminal, Terminal
  <2>16. CoordTypeOK' /\ CallsPast'
    BY <1>0, <2>2, <2>5 DEF CoordInv, CoordTypeOK, CallsPast
  <2>17. CoordKeeps
    BY <2>3, <2>13, <2>14, <2>15 DEF CoordKeeps
  <2> QED
    BY <2>4, <2>8, <2>9, <2>10, <2>11, <2>12, <2>13, <2>16, <2>17
       DEF CoordInv, JournalInv, ParentsOK
<1> QED
  BY <1>1, <1>2 DEF SubmitReserve

\* A step that leaves the Journal alone and changes the rows of one Episode,
\* whose record it finds where the new rows have it.
LEMMA OneTaskStep ==
  ASSUME CoordInv, NEW e \in Episodes, NEW T, NEW A,
         UNCHANGED <<episode, events, run, answered, clock>>,
         task' = [task EXCEPT ![e] = T], attempt' = [attempt EXCEPT ![e] = A],
         RowsOK(T, A, clock), Final(task[e], attempt[e], T, A), Promised(task[e], T),
         T.state \notin {"ABSENT", "COMPLETED", "CANCELLED"},
         Holds(e, "CREATED", 0),
         \A r \in Runners : run[r].on # e,
         call' \in [Workers -> Call],
         \A w \in Workers : call'[w].now <= clock,
         submit' \in [Submitters -> Submit],
         \A s \in Submitters : submit'[s].reserved => submit'[s] = submit[s]
  PROVE  CoordInv' /\ CoordKeeps
<1>1. /\ DOMAIN task' = Episodes /\ task'[e] = T
      /\ DOMAIN attempt' = Episodes /\ attempt'[e] = A
      /\ \A f \in Episodes \ {e} : task'[f] = task[f] /\ attempt'[f] = attempt[f]
  BY DEF CoordInv, CoordTypeOK
<1>2. CoordTypeOK' /\ CallsPast'
  BY DEF CoordInv, CoordTypeOK, CallsPast, RowsOK
<1>3. TasksOK'
  BY <1>1 DEF CoordInv, TasksOK
<1>4. \A f \in Episodes : /\ Final(task[f], attempt[f], task'[f], attempt'[f])
                         /\ Promised(task[f], task'[f])
  BY <1>1, SameRows
<1>5. JournalInv'
  BY StutterPreserves DEF CoordInv
<1>6. \A f \in Episodes : Parent(f)'
  BY <1>1 DEF CoordInv, ParentsOK, Parent, Holds
<1>7. Unshared'
  <2> SUFFICES ASSUME NEW r \in Runners, run[r].on # None
               PROVE  /\ task'[run[r].on].state = "ABSENT"
                      /\ \A s \in Submitters : submit'[s].reserved => submit'[s].on # run[r].on
    BY DEF Unshared
  <2>1. run[r].on \in Episodes /\ run[r].on # e
    BY DEF CoordInv, JournalInv, RowsTyped, Run
  <2> QED
    BY <1>1, <2>1 DEF CoordInv, ParentsOK, Unshared
<1>8. Reservations'
  BY <1>1 DEF CoordInv, ParentsOK, Reservations, Holds
<1>9. KeepsTerminal
  BY DEF KeepsTerminal
<1> QED
  BY <1>2, <1>3, <1>4, <1>5, <1>6, <1>7, <1>8, <1>9 DEF CoordInv, CoordKeeps, ParentsOK

\* A submission adds a task and its record.
LEMMA SubmitTaskStep ==
  ASSUME CoordInv, NEW s \in Submitters, NEW profile \in Profiles, NEW max \in Numbers,
         SubmitTask(s, profile, max)
  PROVE  CoordInv' /\ CoordKeeps
<1> DEFINE e == submit[s].on
<1>1. /\ submit[s].reserved /\ task[e].state = "ABSENT"
      /\ submit \in [Submitters -> Submit] /\ call \in [Workers -> Call]
      /\ \A w \in Workers : call[w].now <= clock
  BY DEF SubmitTask, CoordInv, CoordTypeOK, CallsPast
<1>2. e \in Episodes /\ Holds(e, "CREATED", 0) /\ \A r \in Runners : run[r].on # e
  BY <1>1, JournalAssumption DEF CoordInv, ParentsOK, Reservations, Unshared
<1>3. PICK now \in Readings :
        task' = [task EXCEPT ![e] = [NoTask EXCEPT !.state = "QUEUED",
                   !.profile = profile, !.max = max, !.created = now]]
  BY DEF SubmitTask
<1>4. now \in Nat
  BY NowPast DEF CoordInv
<1> DEFINE T == [NoTask EXCEPT !.state = "QUEUED", !.profile = profile,
                               !.max = max, !.created = now]
<1>5. RowsOK(task[e], attempt[e], clock)
  BY <1>2 DEF CoordInv, TasksOK
<1>6. /\ RowsOK(T, attempt[e], clock)
      /\ Final(task[e], attempt[e], T, attempt[e]) /\ Promised(task[e], T)
  BY <1>1, <1>4, <1>5, SubmitRows
<1>7. T.state = "QUEUED"
  BY DEF NoTask
<1>8. attempt' = [attempt EXCEPT ![e] = attempt[e]]
  BY <1>2 DEF SubmitTask, CoordInv, CoordTypeOK, TasksOK
<1>9. /\ submit' \in [Submitters -> Submit]
      /\ \A u \in Submitters : submit'[u].reserved => submit'[u] = submit[u]
  BY <1>1, CallTypes DEF SubmitTask
<1> HIDE DEF T, e
<1> QED
  BY <1>1, <1>2, <1>3, <1>6, <1>7, <1>8, <1>9, OneTaskStep DEF SubmitTask, journalVars, T, e

-----------------------------------------------------------------------------
(***************************************************************************)
(* Steps that write tasks and attempts, and cancel parents.                *)
(***************************************************************************)

\* The record of a task that has not ended is CREATED, without Evidence, and no
\* runner executes it.
LEMMA OpenParent ==
  ASSUME CoordInv, NEW e \in Episodes,
         task[e].state \notin {"ABSENT", "COMPLETED", "CANCELLED"}
  PROVE  /\ episode[e].status = "CREATED" /\ episode[e].sequence = 0
         /\ episode[e].evidence = None
         /\ events[e][0] = Created
         /\ \A i \in 1..5 : events[e][i] = NoEvent
         /\ answered[e] = {}
         /\ \A r \in Runners : run[r].on # e
<1> USE JournalAssumption, LiteralTypes
<1>1. Holds(e, "CREATED", 0)
  BY DEF CoordInv, ParentsOK, Parent
<1>2. RecordOK(e) /\ Exists(e)
  BY <1>1, RecordByRecord DEF CoordInv, JournalInv, Holds, Exists
<1>3. episode[e].evidence = None
  <2>1. Verdict(episode[e].evidence) # "CREATED"
    BY DEF Verdict
  <2> QED
    BY <1>1, <1>2, <2>1 DEF RecordOK, EvidenceAdmitted, Holds
<1>4. events[e][0] = Created /\ \A i \in 1..5 : events[e][i] = NoEvent
  BY <1>1, <1>2 DEF RecordOK, LifecycleAdmitted, Holds
<1>5. answered[e] = {}
  BY <1>3 DEF CoordInv, JournalInv, AnswersAgree
<1>6. \A r \in Runners : run[r].on # e
  BY DEF CoordInv, ParentsOK, Unshared
<1> QED
  BY <1>1, <1>3, <1>4, <1>5, <1>6 DEF Holds

\* The records of open tasks are cancelled, each with its event, and no other
\* record is touched.
LEMMA ParentsCancelled ==
  ASSUME CoordInv, NEW S \in SUBSET Episodes, NEW now, CancelParents(S, now),
         UNCHANGED <<run, answered>>,
         \A e \in S : task[e].state \in {"QUEUED", "LEASED"}
  PROVE  /\ JournalInv' /\ KeepsTerminal
         /\ \A e \in Episodes :
              IF e \in S THEN episode'[e].status = "CANCELLED"
                           /\ episode'[e].evidence = episode[e].evidence
              ELSE episode'[e] = episode[e]
<1> USE JournalAssumption, LiteralTypes
<1>1. RowsTyped /\ RunsOK /\ RecordsOK /\ AnswersAgree
  BY DEF CoordInv, JournalInv
<1>2. \A e \in S : /\ e \in Episodes
                   /\ episode[e].status = "CREATED" /\ episode[e].sequence = 0
                   /\ episode[e].evidence = None
                   /\ events[e][0] = Created
                   /\ \A i \in 1..5 : events[e][i] = NoEvent
                   /\ answered[e] = {}
                   /\ \A r \in Runners : run[r].on # e
  BY OpenParent
<1>3. /\ DOMAIN episode' = Episodes
      /\ \A e \in S : episode'[e] = [episode[e] EXCEPT !.status = "CANCELLED", !.sequence = 1,
                                                   !.timely = Timely(episode[e], now)]
      /\ \A e \in Episodes \ S : episode'[e] = episode[e]
  BY <1>2 DEF CancelParents
<1>4. /\ DOMAIN events' = Episodes
      /\ \A e \in S : events'[e] = [events[e] EXCEPT ![1] = Event("CREATED", "CANCELLED")]
      /\ \A e \in Episodes \ S : events'[e] = events[e]
  BY <1>2 DEF CancelParents
<1>5. \A e \in S : /\ episode'[e] \in Row
                   /\ episode'[e].status = "CANCELLED" /\ episode'[e].sequence = 1
                   /\ episode'[e].evidence = None
                   /\ episode'[e].request = episode[e].request
  <2> TAKE e \in S
  <2>1. episode[e] \in Row
    BY <1>1, <1>2 DEF RowsTyped
  <2>2. "CANCELLED" \in Statuses /\ 1 \in Sequences0
    BY DEF Statuses, Terminal
  <2> DEFINE timely == Timely(episode[e], now)
             row == [episode[e] EXCEPT !.status = "CANCELLED", !.sequence = 1,
                                       !.timely = timely]
  <2>8. timely \in BOOLEAN
    BY DEF Timely
  <2>9. episode'[e] = row
    BY <1>3
  <2>7. timely \in BOOLEAN /\ episode'[e] = row
    BY <2>8, <2>9
  <2> HIDE DEF timely
  <2>3. row \in Row
    BY <2>1, <2>2, <2>7 DEF Row
  <2>4. /\ row.status = "CANCELLED" /\ row.sequence = 1
        /\ row.evidence = episode[e].evidence
        /\ row.request = episode[e].request
    BY <2>1 DEF Row
  <2>5. episode'[e] = row /\ row \in Row
    BY <2>3, <2>7
  <2> HIDE DEF row
  <2>6. episode[e].evidence = None
    BY <1>2
  <2> QED
    BY <2>4, <2>5, <2>6
<1>6. Event("CREATED", "CANCELLED") \in Events
  BY DEF Statuses, Progress, Terminal
<1>7. \A e \in S : /\ events'[e] \in [Sequences0 -> Events]
                   /\ events'[e][0] = Created
                   /\ events'[e][1] = Event("CREATED", "CANCELLED")
                   /\ \A i \in 2..5 : events'[e][i] = NoEvent
  <2> TAKE e \in S
  <2>1. events[e] \in [Sequences0 -> Events]
    BY <1>1, <1>2 DEF RowsTyped
  <2> DEFINE end == Event("CREATED", "CANCELLED")
  <2>2. events'[e] = [events[e] EXCEPT ![1] = end]
    BY <1>4
  <2>3. end \in Events
    BY <1>6
  <2> HIDE DEF end
  <2>4. /\ events'[e] \in [Sequences0 -> Events]
        /\ events'[e][1] = end
        /\ \A i \in 0..5 : i # 1 => events'[e][i] = events[e][i]
    BY <2>1, <2>2, <2>3
  <2> QED
    BY <1>2, <2>4 DEF end
<1>8. RowsTyped'
  <2>1. episode' \in [Episodes -> Row]
    BY <1>1, <1>3, <1>5 DEF RowsTyped, CancelParents
  <2>2. events' \in [Episodes -> [Sequences0 -> Events]]
    BY <1>1, <1>4, <1>7 DEF RowsTyped, CancelParents
  <2> QED
    BY <1>1, <2>1, <2>2 DEF RowsTyped
<1>9. RunsOK'
  <2>1. \A r \in Runners : run[r].on # None => run[r].on \in Episodes \ S
    BY <1>1, <1>2 DEF RowsTyped, Run
  <2> QED
    BY <1>1, <1>3, <2>1, ZenonT(60) DEF RunsOK, RunnerMirrorsJournal, Holds, RunsAtDepth,
       RunsExclusive, FinishedHasEvidence
<1>10. RecordsOK'
  <2> SUFFICES ASSUME NEW e \in Episodes PROVE RecordOK(e)'
    BY RecordByRecord
  <2>1. CASE e \notin S
    BY <1>1, <1>3, <1>4, <2>1, UntouchedRecord, RecordByRecord
  <2>2. CASE e \in S
    <3>1. EvidenceAdmitted(e)'
      BY <1>5, <2>2 DEF EvidenceAdmitted
    <3>2. LifecycleAdmitted(e)'
      <4>1. Created.to = "CREATED"
        BY DEF Created, Event
      <4>2. Event("CREATED", "CANCELLED").from = "CREATED"
            /\ Event("CREATED", "CANCELLED").to = "CANCELLED"
            /\ Event("CREATED", "CANCELLED") # NoEvent
        BY DEF Event, NoEvent
      <4>3. Allowed("CREATED", "CANCELLED")
        BY DEF Allowed, AllowedEdges
      <4>4. \A i \in Sequences0 : events'[e][i] # NoEvent <=> i <= 1
        BY <1>7, <2>2, <4>2
      <4> QED
        BY <1>5, <1>7, <2>2, <4>1, <4>2, <4>3, <4>4 DEF LifecycleAdmitted
    <3> QED
      BY <1>5, <2>2, <3>1, <3>2 DEF RecordOK, Exists, Progress
  <2> QED
    BY <2>1, <2>2
<1>11. AnswersAgree'
  BY <1>1, <1>2, <1>3 DEF AnswersAgree
<1>12. KeepsTerminal
  BY <1>2, <1>3, <1>4, <1>5 DEF KeepsTerminal, IsTerminal, Terminal
<1>13. JournalInv'
  BY <1>8, <1>9, <1>10, <1>11 DEF JournalInv
<1>14. \A e \in Episodes :
         IF e \in S THEN episode'[e].status = "CANCELLED"
                      /\ episode'[e].evidence = episode[e].evidence
         ELSE episode'[e] = episode[e]
  <2> SUFFICES ASSUME NEW e \in Episodes
               PROVE  /\ e \in S => /\ episode'[e].status = "CANCELLED"
                                   /\ episode'[e].evidence = episode[e].evidence
                      /\ e \notin S => episode'[e] = episode[e]
    OBVIOUS
  <2>1. CASE e \in S
    <3>1. episode[e].evidence = None
      BY <1>2, <2>1
    <3> QED
      BY <1>5, <2>1, <3>1
  <2>2. CASE e \notin S
    BY <1>3, <2>2
  <2> QED
    BY <2>1, <2>2
<1> QED
  BY <1>12, <1>13, <1>14

\* Rows change, Episode by Episode; those in S are cancelled with their parents.
LEMMA RowsStep ==
  ASSUME CoordInv, NEW S \in SUBSET Episodes, NEW now, CancelParents(S, now),
         UNCHANGED <<run, answered, clock, submit>>,
         task' \in [Episodes -> Task], attempt' \in [Episodes -> [Numbers -> Attempt]],
         call' \in [Workers -> Call],
         \A w \in Workers : call'[w].now <= clock,
         \A e \in Episodes : /\ RowsOK(task'[e], attempt'[e], clock)
                            /\ Final(task[e], attempt[e], task'[e], attempt'[e])
                            /\ Promised(task[e], task'[e]),
         \A e \in S : /\ task[e].state \in {"QUEUED", "LEASED"}
                     /\ task'[e].state = "CANCELLED",
         \A e \in Episodes \ S :
           \/ task'[e].state = task[e].state /\ task'[e].digest = task[e].digest
           \/ /\ task[e].state \in {"QUEUED", "LEASED"}
              /\ task'[e].state \in {"QUEUED", "LEASED", "FAILED", "COMMIT_UNKNOWN"}
  PROVE  CoordInv' /\ CoordKeeps
<1>1. /\ JournalInv' /\ KeepsTerminal
      /\ \A e \in Episodes :
           IF e \in S THEN episode'[e].status = "CANCELLED"
                        /\ episode'[e].evidence = episode[e].evidence
           ELSE episode'[e] = episode[e]
  BY ParentsCancelled
<1>2. \A e \in Episodes : /\ task'[e].state = "ABSENT" => task[e].state = "ABSENT"
                         /\ task[e].state = "ABSENT" => task'[e].state = "ABSENT" /\ e \notin S
  OBVIOUS
<1>3. \A e \in Episodes : Parent(e)'
  BY <1>1 DEF CoordInv, ParentsOK, Parent, Holds
<1>4. Unshared'
  <2>1. \A r \in Runners : run[r].on # None => run[r].on \in Episodes
    BY DEF CoordInv, JournalInv, RowsTyped, Run
  <2> QED
    BY <1>2, <2>1 DEF CoordInv, ParentsOK, Unshared
<1>5. Reservations'
  BY <1>1, <1>2 DEF CoordInv, ParentsOK, Reservations, Holds
<1>6. CoordTypeOK' /\ CallsPast' /\ TasksOK'
  BY DEF CoordInv, CoordTypeOK, CallsPast, TasksOK
<1>7. CoordKeeps
  BY <1>1 DEF CoordKeeps
<1> QED
  BY <1>1, <1>3, <1>4, <1>5, <1>6, <1>7 DEF CoordInv, ParentsOK

\* What recoverExpiredTx makes of an expired task, whatever the profile.
LEMMA FateCases ==
  ASSUME NEW e \in Episodes
  PROVE  /\ Fate(e)[1] \in {"EXPIRED", "CANCELLED", "COMMIT_UNKNOWN"}
         /\ Fate(e)[2] \in {"NO_EFFECT", "UNKNOWN"}
         /\ Fate(e)[3] \in {"QUEUED", "FAILED", "CANCELLED", "COMMIT_UNKNOWN"}
         /\ Fate(e)[2] = "UNKNOWN" => Fate(e)[3] = "COMMIT_UNKNOWN"
         /\ Fate(e)[3] = "QUEUED" => task[e].count < task[e].max /\ task[e].profile # "external"
<1>1. CASE task[e].profile = "external"
  BY <1>1 DEF Fate
<1>2. CASE task[e].profile # "external" /\ task[e].cancel
  BY <1>2 DEF Fate
<1>3. CASE task[e].profile # "external" /\ ~task[e].cancel /\ task[e].count < task[e].max
  BY <1>3 DEF Fate
<1>4. CASE task[e].profile # "external" /\ ~task[e].cancel /\ ~(task[e].count < task[e].max)
  BY <1>4 DEF Fate
<1> QED
  BY <1>1, <1>2, <1>3, <1>4

\* Recovery at a time the clock has shown, seen from one Episode.
LEMMA RecoveredRows ==
  ASSUME CoordInv, NEW now \in Nat, now <= clock, NEW e \in Episodes
  PROVE  LET U == RecoveredTask(now)[e]
             B == RecoveredAttempt(now)[e]
         IN /\ RowsOK(U, B, clock)
            /\ Final(task[e], attempt[e], U, B)
            /\ Promised(task[e], U)
            /\ Expired(e, now) => task[e].state = "LEASED" /\ U.state = Fate(e)[3]
            /\ ~Expired(e, now) => U = task[e] /\ B = attempt[e]
            /\ U.fence = task[e].fence /\ U.digest = task[e].digest
<1>1. RowsOK(task[e], attempt[e], clock)
  BY DEF CoordInv, TasksOK
<1>2. CASE ~Expired(e, now)
  BY <1>1, <1>2 DEF RecoveredTask, RecoveredAttempt, Final, Promised
<1>3. CASE Expired(e, now)
  <2> DEFINE n == task[e].active
             t == Timely(task[e], now)
             b == Timely(attempt[e][n], now)
             U == EndedTask(task[e], Fate(e)[3], t)
             B == EndedTries(attempt[e], n, Fate(e)[1], Fate(e)[2], b)
  <2>1. RecoveredTask(now)[e] = U /\ RecoveredAttempt(now)[e] = B
    BY <1>3 DEF RecoveredTask, RecoveredAttempt, EndedTask, EndedTries
  <2>6. t \in BOOLEAN /\ b \in BOOLEAN
    BY DEF Timely
  <2> HIDE DEF t, b
  <2>2. task[e].state = "LEASED" /\ n \in Numbers /\ task[e] \in Task
        /\ attempt[e] \in [Numbers -> Attempt]
    BY <1>1, <1>3 DEF Expired, RowsOK, Held
  <2>3. Second(attempt[e][n].lease) <= Second(clock)
    <3>1. attempt[e][n].lease \in Nat /\ clock \in Nat
      BY <2>2 DEF CoordInv, CoordTypeOK, Attempt
    <3>2. Second(attempt[e][n].lease) <= Second(now) /\ Second(now) <= Second(clock)
      BY <1>3, <3>1, StampSecond, SecondsGrow DEF Expired
    <3>3. \A a \in Nat : Second(a) \in Int
      <4>1. \A a \in Nat, k \in Nat \ {0} : a \div k \in Int
        BY SMT
      <4> QED
        BY <4>1, CoordinatorAssumption DEF Second
    <3> QED
      BY <3>1, <3>2, <3>3
  <2>4. U.state = Fate(e)[3] /\ U.fence = task[e].fence /\ U.digest = task[e].digest
    BY <2>2 DEF Task, EndedTask
  <2>5. RowsOK(U, B, clock) /\ Final(task[e], attempt[e], U, B) /\ Promised(task[e], U)
    BY <1>1, <2>2, <2>3, <2>6, FateCases, EndRows, ZenonT(120)
  <2> HIDE DEF U, B
  <2> QED
    BY <1>3, <2>1, <2>2, <2>4, <2>5
<1> QED
  BY <1>2, <1>3

\* RecoverExpired ends attempts whose lease is over.
LEMMA RecoverStep ==
  ASSUME CoordInv, RecoverExpired
  PROVE  CoordInv' /\ CoordKeeps
<1>1. PICK now \in Readings : /\ CancelParents(CancelledByRecovery(now), now)
                             /\ task' = RecoveredTask(now)
                             /\ attempt' = RecoveredAttempt(now)
  BY DEF RecoverExpired
<1>2. now \in Nat /\ now <= clock
  BY NowPast DEF CoordInv
<1> DEFINE S == CancelledByRecovery(now)
<1>3. \A e \in Episodes :
        /\ RowsOK(task'[e], attempt'[e], clock)
        /\ Final(task[e], attempt[e], task'[e], attempt'[e])
        /\ Promised(task[e], task'[e])
        /\ Expired(e, now) => task[e].state = "LEASED" /\ task'[e].state = Fate(e)[3]
        /\ ~Expired(e, now) => task'[e] = task[e]
  BY <1>1, <1>2, RecoveredRows
<1>4. task' \in [Episodes -> Task] /\ attempt' \in [Episodes -> [Numbers -> Attempt]]
  BY <1>1, <1>3 DEF RecoveredTask, RecoveredAttempt, RowsOK
<1>5. \A e \in Episodes : e \in S <=> Expired(e, now) /\ Fate(e)[3] = "CANCELLED"
  BY DEF CancelledByRecovery
<1>6. S \in SUBSET Episodes
  BY DEF CancelledByRecovery
<1> HIDE DEF S
<1>7. \A e \in S : task[e].state \in {"QUEUED", "LEASED"} /\ task'[e].state = "CANCELLED"
  BY <1>3, <1>5, <1>6
<1>8. \A e \in Episodes \ S :
        \/ task'[e].state = task[e].state /\ task'[e].digest = task[e].digest
        \/ /\ task[e].state \in {"QUEUED", "LEASED"}
           /\ task'[e].state \in {"QUEUED", "LEASED", "FAILED", "COMMIT_UNKNOWN"}
  BY <1>3, <1>5, FateCases
<1>9. CancelParents(S, now)
  BY <1>1 DEF S
<1> QED
  BY <1>3, <1>4, <1>6, <1>7, <1>8, <1>9, RowsStep
     DEF RecoverExpired, CoordInv, CoordTypeOK, CallsPast

\* A heartbeat moves the lease of a live attempt.
LEMMA HeartbeatStep ==
  ASSUME CoordInv, NEW w \in Workers, NEW e \in Episodes, NEW n \in Numbers,
         NEW fence, NEW lease \in Leases, Heartbeat(w, e, n, fence, lease)
  PROVE  CoordInv' /\ CoordKeeps
<1> DEFINE until == call[w].now + lease
           timely == Timely(attempt[e][n], call[w].now)
           A == [attempt[e] EXCEPT ![n].lease = until, ![n].timely = timely]
<1>1. /\ call \in [Workers -> Call] /\ \A v \in Workers : call[v].now <= clock
      /\ submit \in [Submitters -> Submit]
      /\ attempt \in [Episodes -> [Numbers -> Attempt]] /\ task \in [Episodes -> Task]
      /\ RowsOK(task[e], attempt[e], clock) /\ clock \in Nat
  BY DEF CoordInv, CoordTypeOK, CallsPast, TasksOK
<1>2. until \in Nat
  BY <1>1, CoordinatorAssumption DEF Call
<1>3. attempt[e][n].state = "LEASED" /\ task[e].state = "LEASED"
  BY DEF Heartbeat, Owns
<1>9. timely \in BOOLEAN
  BY DEF Timely
<1> HIDE DEF until, timely
<1>4. RowsOK(task[e], A, clock) /\ Final(task[e], attempt[e], task[e], A)
      /\ Promised(task[e], task[e])
  BY <1>1, <1>2, <1>3, <1>9, BeatRows
<1>5. attempt' = [attempt EXCEPT ![e] = A]
  BY DEF Heartbeat, until, timely
<1>6. task' = [task EXCEPT ![e] = task[e]]
  BY <1>1 DEF Heartbeat
<1>7. call' \in [Workers -> Call] /\ \A v \in Workers : call'[v].now <= clock
  <2>1. \A v \in Workers : call'[v] = call[v] \/ call'[v] = NoCall
    BY <1>1 DEF Heartbeat
  <2> QED
    BY <1>1, <2>1, CallTypes DEF Heartbeat, NoCall
<1>8. Holds(e, "CREATED", 0) /\ \A r \in Runners : run[r].on # e
  BY <1>3, OpenParent DEF Holds
<1> HIDE DEF A
<1> QED
  BY <1>1, <1>3, <1>4, <1>5, <1>6, <1>7, <1>8, OneTaskStep DEF Heartbeat, journalVars

\* A failure that is reported ends its attempt.
LEMMA FailClaimStep ==
  ASSUME CoordInv, NEW e \in Episodes, NEW n \in Numbers, NEW fence,
         NEW commit \in {"NO_EFFECT", "UNKNOWN"}, FailClaim(e, n, fence, commit)
  PROVE  CoordInv' /\ CoordKeeps
<1> DEFINE x == ReportedFate(e, commit)[1]
           s == ReportedFate(e, commit)[2]
           S == IF s = "CANCELLED" THEN {e} ELSE {}
<1>1. /\ call \in [Workers -> Call] /\ \A v \in Workers : call[v].now <= clock
      /\ attempt \in [Episodes -> [Numbers -> Attempt]] /\ task \in [Episodes -> Task]
      /\ \A f \in Episodes : RowsOK(task[f], attempt[f], clock)
  BY DEF CoordInv, CoordTypeOK, CallsPast, TasksOK
<1>2. task[e].state = "LEASED" /\ task[e].active = n
  BY DEF FailClaim, Owns
<1>3. /\ x \in {"FAILED", "CANCELLED", "COMMIT_UNKNOWN"}
      /\ s \in {"QUEUED", "FAILED", "CANCELLED", "COMMIT_UNKNOWN"}
      /\ commit = "UNKNOWN" => s = "COMMIT_UNKNOWN"
      /\ s = "QUEUED" => task[e].count < task[e].max /\ x = "FAILED"
  <2>1. CASE commit = "UNKNOWN"
    BY <2>1 DEF ReportedFate
  <2>2. CASE commit # "UNKNOWN" /\ task[e].cancel
    BY <2>2 DEF ReportedFate
  <2>3. CASE commit # "UNKNOWN" /\ ~task[e].cancel /\ task[e].count < task[e].max
    BY <2>3 DEF ReportedFate
  <2>4. CASE commit # "UNKNOWN" /\ ~task[e].cancel /\ ~(task[e].count < task[e].max)
    BY <2>4 DEF ReportedFate
  <2> QED
    BY <2>1, <2>2, <2>3, <2>4
<1>10. PICK now \in Readings :
         /\ attempt' = [attempt EXCEPT ![e][n].state = x, ![e][n].commit = commit,
                          ![e][n].timely = Timely(attempt[e][n], now)]
         /\ task' = [task EXCEPT ![e].state = s, ![e].active = 0,
                          ![e].timely = Timely(task[e], now)]
         /\ CancelParents(S, now)
  BY DEF FailClaim
<1> DEFINE t == Timely(task[e], now)
           a == Timely(attempt[e][n], now)
           T == EndedTask(task[e], s, t)
           A == EndedTries(attempt[e], n, x, commit, a)
<1>4. task' = [task EXCEPT ![e] = T] /\ attempt' = [attempt EXCEPT ![e] = A]
  BY <1>10 DEF EndedTask, EndedTries
<1>11. t \in BOOLEAN /\ a \in BOOLEAN
  BY DEF Timely
<1> HIDE DEF x, s, t, a
<1>5. RowsOK(T, A, clock) /\ Final(task[e], attempt[e], T, A) /\ Promised(task[e], T)
  BY <1>1, <1>2, <1>3, <1>11, EndRows, ZenonT(120)
<1>6. T.state = s
  BY <1>1 DEF Task, EndedTask
<1> HIDE DEF T, A
<1>7. /\ task' \in [Episodes -> Task] /\ attempt' \in [Episodes -> [Numbers -> Attempt]]
      /\ task'[e] = T /\ attempt'[e] = A
      /\ \A f \in Episodes \ {e} : task'[f] = task[f] /\ attempt'[f] = attempt[f]
  BY <1>1, <1>4, <1>5 DEF RowsOK
<1>8. \A f \in Episodes : /\ RowsOK(task'[f], attempt'[f], clock)
                         /\ Final(task[f], attempt[f], task'[f], attempt'[f])
                         /\ Promised(task[f], task'[f])
  BY <1>1, <1>5, <1>7, SameRows
<1>9. /\ S \in SUBSET Episodes
      /\ \A f \in S : task[f].state \in {"QUEUED", "LEASED"} /\ task'[f].state = "CANCELLED"
      /\ \A f \in Episodes \ S :
           \/ task'[f].state = task[f].state /\ task'[f].digest = task[f].digest
           \/ /\ task[f].state \in {"QUEUED", "LEASED"}
              /\ task'[f].state \in {"QUEUED", "LEASED", "FAILED", "COMMIT_UNKNOWN"}
  BY <1>2, <1>3, <1>6, <1>7
<1> HIDE DEF S
<1> QED
  BY <1>1, <1>7, <1>8, <1>9, <1>10, RowsStep DEF FailClaim

\* A cancellation ends its task.
LEMMA CancelTaskStep ==
  ASSUME CoordInv, NEW e \in Episodes, CancelTask(e)
  PROVE  CoordInv' /\ CoordKeeps
<1> DEFINE S == IF task[e].state = "QUEUED" THEN {e} ELSE {}
<1>1. /\ call \in [Workers -> Call] /\ \A v \in Workers : call[v].now <= clock
      /\ attempt \in [Episodes -> [Numbers -> Attempt]] /\ task \in [Episodes -> Task]
      /\ \A f \in Episodes : RowsOK(task[f], attempt[f], clock)
  BY DEF CoordInv, CoordTypeOK, CallsPast, TasksOK
<1>2. task[e].state \in {"QUEUED", "LEASED"}
  BY DEF CancelTask
<1>10. PICK now \in Readings :
         /\ CancelParents(S, now)
         /\ task' = [task EXCEPT ![e].cancel = TRUE,
                       ![e].state = IF @ = "QUEUED" THEN "CANCELLED" ELSE @,
                       ![e].timely = Timely(task[e], now)]
  BY DEF CancelTask
<1> DEFINE t == Timely(task[e], now)
           T == [task[e] EXCEPT !.cancel = TRUE,
                                !.state = IF @ = "QUEUED" THEN "CANCELLED" ELSE @,
                                !.timely = t]
<1>5. task' = [task EXCEPT ![e] = T] /\ attempt' = attempt
  BY <1>10 DEF CancelTask
<1>11. t \in BOOLEAN
  BY DEF Timely
<1> HIDE DEF t
<1>3. RowsOK(T, attempt[e], clock) /\ Final(task[e], attempt[e], T, attempt[e])
      /\ Promised(task[e], T)
  BY <1>1, <1>2, <1>11, CancelRows
<1>4. T.state = IF task[e].state = "QUEUED" THEN "CANCELLED" ELSE task[e].state
  BY <1>1 DEF Task
<1>6. T.digest = task[e].digest
  BY <1>1 DEF Task
<1> HIDE DEF T
<1>7. /\ task' \in [Episodes -> Task]
      /\ task'[e] = T
      /\ \A f \in Episodes \ {e} : task'[f] = task[f]
  BY <1>1, <1>3, <1>5 DEF RowsOK
<1>8. \A f \in Episodes : /\ RowsOK(task'[f], attempt'[f], clock)
                         /\ Final(task[f], attempt[f], task'[f], attempt'[f])
                         /\ Promised(task[f], task'[f])
  BY <1>1, <1>3, <1>5, <1>7, SameRows
<1>9. /\ S \in SUBSET Episodes
      /\ \A f \in S : task[f].state \in {"QUEUED", "LEASED"} /\ task'[f].state = "CANCELLED"
      /\ \A f \in Episodes \ S :
           \/ task'[f].state = task[f].state /\ task'[f].digest = task[f].digest
           \/ /\ task[f].state \in {"QUEUED", "LEASED"}
              /\ task'[f].state \in {"QUEUED", "LEASED", "FAILED", "COMMIT_UNKNOWN"}
  BY <1>2, <1>4, <1>6, <1>7
<1> HIDE DEF S
<1> QED
  BY <1>1, <1>5, <1>7, <1>8, <1>9, <1>10, RowsStep DEF CancelTask

\* A claim grants a task to a new attempt.
LEMMA ClaimStep ==
  ASSUME CoordInv, NEW w \in Workers, NEW lease \in Leases, NEW profiles \in Filters,
         Claim(w, lease, profiles)
  PROVE  CoordInv' /\ CoordKeeps
<1> DEFINE now == call[w].now
           rows == RecoveredTask(now)
           tries == RecoveredAttempt(now)
           S == CancelledByRecovery(now)
<1>1. /\ call \in [Workers -> Call] /\ \A v \in Workers : call[v].now <= clock
      /\ \A f \in Episodes : RowsOK(task[f], attempt[f], clock)
  BY DEF CoordInv, CoordTypeOK, CallsPast, TasksOK
<1>2. now \in Nat /\ now <= clock /\ now + lease \in Nat
  BY <1>1, CoordinatorAssumption DEF Call
<1>3. CancelParents(S, now)
  BY DEF Claim
<1>4. PICK e \in Claimable(rows, profiles) :
        /\ NextAttempt(rows[e]) \in Numbers
        /\ task' = [rows EXCEPT ![e].state = "LEASED", ![e].count = NextAttempt(rows[e]),
                                ![e].fence = NextFence(rows[e]),
                                ![e].active = NextAttempt(rows[e]),
                                ![e].timely = Timely(rows[e], now)]
        /\ attempt' = [tries EXCEPT ![e][NextAttempt(rows[e])] =
             [state |-> "LEASED", commit |-> "NOT_STARTED", fence |-> NextFence(rows[e]),
              lease |-> now + lease, created |-> now, timely |-> TRUE]]
  BY DEF Claim
<1>5. e \in Episodes /\ rows[e].state = "QUEUED" /\ ~rows[e].cancel
  BY DEF Claimable
<1>6. \A f \in Episodes :
        /\ RowsOK(rows[f], tries[f], clock)
        /\ Final(task[f], attempt[f], rows[f], tries[f])
        /\ Promised(task[f], rows[f])
        /\ Expired(f, now) => task[f].state = "LEASED" /\ rows[f].state = Fate(f)[3]
        /\ ~Expired(f, now) => rows[f] = task[f] /\ tries[f] = attempt[f]
  BY <1>2, RecoveredRows
<1>7. rows \in [Episodes -> Task] /\ tries \in [Episodes -> [Numbers -> Attempt]]
  BY <1>6 DEF RecoveredTask, RecoveredAttempt, RowsOK
<1>8. \A f \in Episodes : f \in S <=> Expired(f, now) /\ Fate(f)[3] = "CANCELLED"
  BY DEF CancelledByRecovery
<1>9. S \in SUBSET Episodes
  BY DEF CancelledByRecovery
<1> DEFINE U == rows[e]
           B == tries[e]
           until == now + lease
           timely == Timely(U, now)
           V == [U EXCEPT !.state = "LEASED", !.count = U.count + 1,
                          !.fence = U.fence + 1, !.active = U.count + 1,
                          !.timely = timely]
           C == [B EXCEPT ![U.count + 1] =
                  [state |-> "LEASED", commit |-> "NOT_STARTED", fence |-> U.fence + 1,
                   lease |-> until, created |-> now, timely |-> TRUE]]
<1> HIDE DEF now, rows, tries, S
<1>10. U.count + 1 \in Numbers
  BY <1>4 DEF NextAttempt
<1>11. RowsOK(U, B, clock) /\ U.state = "QUEUED" /\ ~U.cancel /\ until \in Nat
  BY <1>2, <1>5, <1>6
<1>12. task' = [rows EXCEPT ![e] = V] /\ attempt' = [tries EXCEPT ![e] = C]
  BY <1>4 DEF NextAttempt, NextFence
<1>13. /\ V.state = "LEASED" /\ V.fence = U.fence + 1 /\ V.digest = U.digest
       /\ V.count = U.count + 1 /\ U.count \in Nat /\ task[e].count \in Nat
  BY <1>1, <1>5, <1>7, NumberFacts DEF Task, RowsOK
<1>22. timely \in BOOLEAN
  BY DEF Timely
<1> HIDE DEF until, timely
<1>14. RowsOK(V, C, clock) /\ Final(U, B, V, C) /\ Promised(U, V)
  BY <1>2, <1>10, <1>11, <1>22, GrantRows
<1> HIDE DEF U, B, V, C
<1>15. /\ Final(task[e], attempt[e], V, C) /\ Promised(task[e], V)
       /\ task[e].state \in {"QUEUED", "LEASED"}
  <2>1. CASE Expired(e, now)
    <3>1. Final(task[e], attempt[e], U, B) /\ Promised(task[e], U) /\ task[e].state = "LEASED"
      BY <1>5, <1>6, <2>1 DEF U, B
    <3> QED
      BY <1>11, <1>13, <1>14, <3>1, EndThenGrant
  <2>2. CASE ~Expired(e, now)
    <3>1. U = task[e] /\ B = attempt[e]
      BY <1>5, <1>6, <2>2 DEF U, B
    <3> QED
      BY <1>11, <1>14, <3>1
  <2> QED
    BY <2>1, <2>2
<1>16. /\ task' \in [Episodes -> Task] /\ attempt' \in [Episodes -> [Numbers -> Attempt]]
       /\ task'[e] = V /\ attempt'[e] = C
       /\ \A f \in Episodes \ {e} : task'[f] = rows[f] /\ attempt'[f] = tries[f]
  BY <1>5, <1>7, <1>12, <1>14 DEF RowsOK
<1>17. \A f \in Episodes : /\ RowsOK(task'[f], attempt'[f], clock)
                          /\ Final(task[f], attempt[f], task'[f], attempt'[f])
                          /\ Promised(task[f], task'[f])
  BY <1>6, <1>14, <1>15, <1>16
<1>18. e \notin S
  BY <1>5, <1>6, <1>8
<1>19. \A f \in S : task[f].state \in {"QUEUED", "LEASED"} /\ task'[f].state = "CANCELLED"
  BY <1>6, <1>8, <1>9, <1>16, <1>18
<1>20. \A f \in Episodes \ S :
         \/ task'[f].state = task[f].state /\ task'[f].digest = task[f].digest
         \/ /\ task[f].state \in {"QUEUED", "LEASED"}
            /\ task'[f].state \in {"QUEUED", "LEASED", "FAILED", "COMMIT_UNKNOWN"}
  BY <1>6, <1>8, <1>13, <1>15, <1>16, FateCases
<1>21. call' \in [Workers -> Call] /\ \A v \in Workers : call'[v].now <= clock
  <2>1. \A v \in Workers : call'[v] = call[v] \/ call'[v] = NoCall
    BY <1>1 DEF Claim
  <2>2. clock \in Nat
    BY DEF CoordInv, CoordTypeOK
  <2> QED
    BY <1>1, <2>1, <2>2, CallTypes DEF Claim, NoCall
<1> QED
  BY <1>3, <1>9, <1>16, <1>17, <1>19, <1>20, <1>21, RowsStep DEF Claim

\* The completion: five events, the verdict and its Evidence, attempt and task.
LEMMA CompleteClaimStep ==
  ASSUME CoordInv, NEW e \in Episodes, NEW n \in Numbers, NEW fence,
         NEW d \in Evidence, CompleteClaim(e, n, fence, d)
  PROVE  CoordInv' /\ CoordKeeps
<1> USE JournalAssumption, LiteralTypes
<1> DEFINE v == Verdict(d)
<1>1. /\ RowsTyped /\ RunsOK /\ RecordsOK /\ AnswersAgree
      /\ call \in [Workers -> Call] /\ \A w \in Workers : call[w].now <= clock
      /\ attempt \in [Episodes -> [Numbers -> Attempt]] /\ task \in [Episodes -> Task]
      /\ \A f \in Episodes : RowsOK(task[f], attempt[f], clock)
  BY DEF CoordInv, JournalInv, CoordTypeOK, CallsPast, TasksOK
<1>2. task[e].state = "LEASED" /\ task[e].active = n /\ ~task[e].cancel
  BY DEF CompleteClaim, MayComplete, Owns
<1>0. PICK now \in Readings :
        /\ episode' = [episode EXCEPT ![e].status = v, ![e].sequence = LastSequence,
                         ![e].evidence = d, ![e].timely = Timely(episode[e], now)]
        /\ attempt' = [attempt EXCEPT ![e][n].state = "COMPLETED", ![e][n].commit = "COMMITTED",
                         ![e][n].timely = Timely(attempt[e][n], now)]
        /\ task' = [task EXCEPT ![e].state = "COMPLETED", ![e].active = 0,
                         ![e].final = n, ![e].digest = d,
                         ![e].timely = Timely(task[e], now)]
  BY DEF CompleteClaim
<1> DEFINE p == Timely(episode[e], now)
           t == Timely(task[e], now)
           a == Timely(attempt[e][n], now)
           T == [task[e] EXCEPT !.state = "COMPLETED", !.active = 0, !.final = n, !.digest = d,
                                !.timely = t]
           A == [attempt[e] EXCEPT ![n].state = "COMPLETED", ![n].commit = "COMMITTED",
                                   ![n].timely = a]
<1>23. p \in BOOLEAN /\ t \in BOOLEAN /\ a \in BOOLEAN
  BY DEF Timely
<1>24. /\ task' = [task EXCEPT ![e] = T] /\ attempt' = [attempt EXCEPT ![e] = A]
       /\ episode' = [episode EXCEPT ![e].status = v, ![e].sequence = 5, ![e].evidence = d,
                                     ![e].timely = p]
  BY <1>0 DEF LastSequence
<1> HIDE DEF p, t, a
<1>3. /\ task' = [task EXCEPT ![e] = T] /\ attempt' = [attempt EXCEPT ![e] = A]
      /\ episode' = [episode EXCEPT ![e].status = v, ![e].sequence = 5, ![e].evidence = d,
                                    ![e].timely = p]
      /\ events' = [events EXCEPT ![e] = VerdictLifecycle(v)]
      /\ answered' = [answered EXCEPT ![e] = @ \cup {d}]
      /\ UNCHANGED <<run, clock, call, submit>>
  BY <1>24 DEF CompleteClaim
<1>4. RowsOK(T, A, clock) /\ Final(task[e], attempt[e], T, A) /\ Promised(task[e], T)
  BY <1>1, <1>2, <1>23, CompleteRows
<1>5. T.state = "COMPLETED" /\ T.digest = d
  BY <1>1 DEF Task
<1>6. v \in {"SUCCEEDED", "ASSERTION_FAILED"} /\ v \in Statuses /\ v \notin Progress
  BY DEF Verdict, Statuses, Terminal, Progress
<1>7. /\ episode[e].status = "CREATED" /\ episode[e].evidence = None
      /\ answered[e] = {} /\ \A r \in Runners : run[r].on # e
  BY <1>2, OpenParent
<1> HIDE DEF T, A, v
<1>8. /\ task' \in [Episodes -> Task] /\ attempt' \in [Episodes -> [Numbers -> Attempt]]
      /\ task'[e] = T /\ attempt'[e] = A
      /\ \A f \in Episodes \ {e} : task'[f] = task[f] /\ attempt'[f] = attempt[f]
  BY <1>1, <1>3, <1>4 DEF RowsOK
<1>9. \A f \in Episodes : /\ RowsOK(task'[f], attempt'[f], clock)
                         /\ Final(task[f], attempt[f], task'[f], attempt'[f])
                         /\ Promised(task[f], task'[f])
  BY <1>1, <1>4, <1>8, SameRows
<1>10. /\ episode' \in [Episodes -> Row]
       /\ episode'[e].status = v /\ episode'[e].sequence = 5 /\ episode'[e].evidence = d
       /\ episode'[e].request = episode[e].request
       /\ \A f \in Episodes \ {e} : episode'[f] = episode[f]
  <2> DEFINE row == [episode[e] EXCEPT !.status = v, !.sequence = 5, !.evidence = d,
                                       !.timely = p]
  <2>1. episode[e] \in Row /\ 5 \in Sequences0
    BY <1>1 DEF RowsTyped
  <2>2. row \in Row
    BY <1>6, <1>23, <2>1 DEF Row
  <2>3. /\ row.status = v /\ row.sequence = 5 /\ row.evidence = d
        /\ row.request = episode[e].request
    BY <2>1 DEF Row
  <2>4. episode' = [episode EXCEPT ![e] = row]
    BY <1>3
  <2> HIDE DEF row
  <2> QED
    BY <1>1, <2>2, <2>3, <2>4 DEF RowsTyped
<1>11. /\ events' \in [Episodes -> [Sequences0 -> Events]]
       /\ events'[e] = VerdictLifecycle(v)
       /\ \A f \in Episodes \ {e} : events'[f] = events[f]
  <2>1. VerdictLifecycle(v) \in [Sequences0 -> Events]
    <3>1. ASSUME NEW i \in 0..5
          PROVE  VerdictLifecycle(v)[i] \in Events
      <4>1. /\ Event("CREATED", "PROVISIONING") \in Events /\ Event("PROVISIONING", "READY") \in Events
            /\ Event("READY", "RUNNING") \in Events /\ Event("RUNNING", "EVALUATING") \in Events
            /\ Event("EVALUATING", v) \in Events /\ Created \in Events
        BY <1>6 DEF Statuses, Progress
      <4> QED
        BY <4>1 DEF VerdictLifecycle
    <3> QED
      BY <3>1 DEF VerdictLifecycle
  <2> QED
    BY <1>1, <1>3, <2>1 DEF RowsTyped
<1>12. /\ answered' \in [Episodes -> SUBSET Evidence]
       /\ answered'[e] = {d}
       /\ \A f \in Episodes \ {e} : answered'[f] = answered[f]
  BY <1>1, <1>3, <1>7 DEF RowsTyped
<1>13. RowsTyped'
  BY <1>1, <1>3, <1>10, <1>11, <1>12 DEF RowsTyped
<1>14. RunsOK'
  <2>1. \A r \in Runners : run[r].on # None => run[r].on \in Episodes \ {e}
    BY <1>1, <1>7 DEF RowsTyped, Run
  <2> QED
    BY <1>1, <1>3, <1>10, <2>1 DEF RunsOK, RunnerMirrorsJournal, Holds, RunsAtDepth,
       RunsExclusive, FinishedHasEvidence
<1>15. RecordsOK'
  <2> SUFFICES ASSUME NEW f \in Episodes PROVE RecordOK(f)'
    BY RecordByRecord
  <2>1. CASE f # e
    BY <1>1, <1>10, <1>11, <2>1, UntouchedRecord, RecordByRecord
  <2>2. CASE f = e
    <3>1. EvidenceAdmitted(e)'
      BY <1>10 DEF EvidenceAdmitted, v
    <3>2. LifecycleAdmitted(e)'
      <4>1. /\ events'[e][0] = Created /\ events'[e][5].to = v
            /\ \A i \in 1..5 : /\ events'[e][i].from = events'[e][i - 1].to
                              /\ Allowed(events'[e][i].from, events'[e][i].to)
        BY <1>6, <1>11, VerdictChain
      <4>2. \A i \in 0..5 : events'[e][i] # NoEvent
        BY <1>6, <1>11, SMTT(40) DEF VerdictLifecycle, Statuses, Progress
      <4> QED
        BY <1>10, <1>11, <4>1, <4>2 DEF LifecycleAdmitted
    <3> QED
      BY <1>6, <1>10, <2>2, <3>1, <3>2 DEF RecordOK, Exists, Progress
  <2> QED
    BY <2>1, <2>2
<1>16. AnswersAgree'
  BY <1>1, <1>10, <1>12 DEF AnswersAgree
<1>17. KeepsTerminal
  BY <1>7, <1>10, <1>11 DEF KeepsTerminal, IsTerminal, Terminal
<1>18. \A f \in Episodes : Parent(f)'
  BY <1>5, <1>8, <1>10 DEF CoordInv, ParentsOK, Parent, Holds, v
<1>19. Unshared'
  <2>1. \A r \in Runners : run[r].on # None => run[r].on \in Episodes \ {e}
    BY <1>1, <1>7 DEF RowsTyped, Run
  <2> QED
    BY <1>3, <1>8, <2>1 DEF CoordInv, ParentsOK, Unshared
<1>20. Reservations'
  BY <1>3, <1>5, <1>8, <1>10 DEF CoordInv, ParentsOK, Reservations, Holds
<1>21. CoordTypeOK' /\ CallsPast' /\ TasksOK'
  BY <1>3, <1>8, <1>9 DEF CoordInv, CoordTypeOK, CallsPast, TasksOK
<1>22. CoordKeeps
  BY <1>2, <1>9, <1>10, <1>17 DEF CoordKeeps
<1> QED
  BY <1>13, <1>14, <1>15, <1>16, <1>18, <1>19, <1>20, <1>21, <1>22
     DEF CoordInv, JournalInv, ParentsOK

\* The repeat of a completion answers what the record holds.
LEMMA RepeatCompletionStep ==
  ASSUME CoordInv, NEW e \in Episodes, NEW n \in Numbers, NEW fence,
         NEW d \in Evidence, RepeatCompletion(e, n, fence, d)
  PROVE  CoordInv' /\ CoordKeeps
<1> USE JournalAssumption
<1>1. /\ episode' = episode /\ events' = events /\ run' = run
      /\ clock' = clock /\ task' = task /\ attempt' = attempt
      /\ call' = call /\ submit' = submit
      /\ answered' = [answered EXCEPT ![e] = @ \cup {episode[e].evidence}]
      /\ task[e].state = "COMPLETED" /\ task[e].digest = d
  BY DEF RepeatCompletion, coordVars
<1>2. episode[e].evidence = d
  BY <1>1 DEF CoordInv, ParentsOK, Parent
<1>3. RowsTyped' /\ RunsOK' /\ AnswersAgree'
  BY <1>1, <1>2 DEF CoordInv, JournalInv, RowsTyped, RunsOK, RunnerMirrorsJournal,
     RunsAtDepth, RunsExclusive, FinishedHasEvidence, Holds, AnswersAgree
<1>4. RecordsOK'
  BY <1>1, RecordByRecord, UntouchedRecord DEF CoordInv, JournalInv
<1>5. ParentsOK'
  <2>1. \A f \in Episodes : Parent(f)'
    BY <1>1 DEF CoordInv, ParentsOK, Parent, Holds
  <2>2. Unshared' /\ Reservations'
    BY <1>1 DEF CoordInv, ParentsOK, Unshared, Reservations, Holds
  <2> QED
    BY <2>1, <2>2 DEF ParentsOK
<1>6. CoordTypeOK' /\ CallsPast'
  BY <1>1 DEF CoordInv, CoordTypeOK, CallsPast
<1>7. TasksOK' /\ \A f \in Episodes : /\ Final(task[f], attempt[f], task'[f], attempt'[f])
                                     /\ Promised(task[f], task'[f])
  BY <1>1, TasksKept DEF CoordInv, CoordTypeOK
<1>8. CoordKeeps
  BY <1>1, <1>7 DEF CoordKeeps, KeepsTerminal
<1> QED
  BY <1>3, <1>4, <1>5, <1>6, <1>7, <1>8 DEF CoordInv, JournalInv

-----------------------------------------------------------------------------
(***************************************************************************)
(* The invariant holds at first and is inductive.                          *)
(***************************************************************************)
LEMMA InitEstablishesCoordInv == Init => CoordInv
<1> SUFFICES ASSUME Init PROVE CoordInv
  OBVIOUS
<1> USE JournalAssumption, CallTypes, NumberFacts
<1>1. JournalInv
  BY InitEstablishesJournalInv DEF Init
<1>2. /\ clock = 0
      /\ task = [e \in Episodes |-> NoTask]
      /\ attempt = [e \in Episodes |-> [n \in Numbers |-> NoAttempt]]
      /\ call = [w \in Workers |-> NoCall]
      /\ submit = [s \in Submitters |-> NoSubmit]
      /\ run = [r \in Runners |-> Idle]
  BY DEF Init, CoordInit, JournalInit
<1>3. NoTask \in Task
  BY DEF NoTask, Task, TaskStates, Profiles
<1>4. NoAttempt \in Attempt
  BY DEF NoAttempt, Attempt, AttemptStates, CommitStates
<1>5. CoordTypeOK /\ CallsPast
  BY <1>2, <1>3, <1>4 DEF CoordTypeOK, CallsPast, NoCall
<1>6. TasksOK
  <2> SUFFICES ASSUME NEW e \in Episodes PROVE RowsOK(task[e], attempt[e], clock)
    BY DEF TasksOK
  <2>1. task[e] = NoTask /\ attempt[e] = [n \in Numbers |-> NoAttempt]
    BY <1>2
  <2>2. attempt[e] \in [Numbers -> Attempt] /\ \A n \in Numbers : attempt[e][n] = NoAttempt
    BY <1>4, <2>1
  <2>3. /\ NoTask.state = "ABSENT" /\ NoTask.count = 0 /\ NoTask.max = 1 /\ NoTask.active = 0
        /\ NoTask.final = 0 /\ NoTask.digest = None
        /\ NoAttempt.state = "ABSENT" /\ NoAttempt.commit = "NOT_STARTED"
    BY DEF NoTask, NoAttempt
  <2> QED
    BY <1>3, <2>1, <2>2, <2>3 DEF RowsOK, Unstarted, Numbered, Held, Closed, Tried, Past
<1>7. ParentsOK
  BY <1>2 DEF ParentsOK, Parent, Unshared, Reservations, NoTask, NoSubmit, Idle
<1> QED
  BY <1>1, <1>5, <1>6, <1>7 DEF CoordInv

\* Every step of the coordinator keeps the invariant.
LEMMA NextStep ==
  ASSUME CoordInv, Next
  PROVE  CoordInv' /\ CoordKeeps
<1>1. CASE Tick \/ Restart
  BY <1>1, QuietActions
<1>2. ASSUME NEW w \in Workers,
             \/ \E kind \in {"claim", "heartbeat"} : ReadClock(w, kind)
             \/ Refused(w)
      PROVE  CoordInv' /\ CoordKeeps
  BY <1>2, QuietActions
<1>3. ASSUME NEW w \in Workers, NEW lease \in Leases, NEW profiles \in Filters,
             Claim(w, lease, profiles)
      PROVE  CoordInv' /\ CoordKeeps
  BY <1>3, ClaimStep
<1>4. ASSUME NEW w \in Workers, NEW e \in Episodes, NEW n \in Numbers, NEW fence \in Numbers,
             NEW lease \in Leases, Heartbeat(w, e, n, fence, lease)
      PROVE  CoordInv' /\ CoordKeeps
  BY <1>4, HeartbeatStep
<1>5. CASE WorkerNext
  BY <1>2, <1>3, <1>4, <1>5 DEF WorkerNext
<1>6. ASSUME NEW e \in Episodes, NEW s \in Submitters, NEW q \in Requests, SubmitReserve(s, e, q)
      PROVE  CoordInv' /\ CoordKeeps
  BY <1>6, SubmitReserveStep
<1>7. ASSUME NEW e \in Episodes, CancelTask(e)
      PROVE  CoordInv' /\ CoordKeeps
  BY <1>7, CancelTaskStep
<1>8. ASSUME NEW e \in Episodes, NEW n \in Numbers, NEW fence \in Numbers, NEW d \in Evidence,
             CompleteClaim(e, n, fence, d) \/ RepeatCompletion(e, n, fence, d)
      PROVE  CoordInv' /\ CoordKeeps
  BY <1>8, CompleteClaimStep, RepeatCompletionStep
<1>9. ASSUME NEW e \in Episodes, NEW n \in Numbers, NEW fence \in Numbers,
             NEW commit \in {"NO_EFFECT", "UNKNOWN"}, FailClaim(e, n, fence, commit)
      PROVE  CoordInv' /\ CoordKeeps
  BY <1>9, FailClaimStep
<1>10. CASE ClientNext
  BY <1>6, <1>7, <1>8, <1>9, <1>10 DEF ClientNext
<1>11. ASSUME NEW s \in Submitters, NEW profile \in Profiles, NEW max \in Numbers,
              SubmitTask(s, profile, max)
       PROVE  CoordInv' /\ CoordKeeps
  BY <1>11, SubmitTaskStep
<1>12. ASSUME NEW s \in Submitters, SubmitRepeat(s) \/ SubmitBlock(s) \/ SubmitAbandon(s)
       PROVE  CoordInv' /\ CoordKeeps
  BY <1>12, QuietActions
<1>13. CASE SubmitNext
  BY <1>11, <1>12, <1>13 DEF SubmitNext
<1>14. CASE RecoverExpired
  BY <1>14, RecoverStep
<1>15. CASE RunnerNext(Readings) /\ UNCHANGED coordVars
  <2>1. RunnerNext(Nat)
    BY <1>15, AnyReading DEF CoordInv
  <2> QED
    BY <1>15, <2>1, RunnerStep
<1> QED
  BY <1>1, <1>5, <1>10, <1>13, <1>14, <1>15 DEF Next

\* A step that changes no variable changes nothing it should not.
LEMMA CoordInvInductive ==
  CoordInv /\ [Next]_vars => CoordInv' /\ CoordKeeps
<1> SUFFICES ASSUME CoordInv, UNCHANGED vars PROVE CoordInv' /\ CoordKeeps
  BY NextStep
<1>1. /\ UNCHANGED <<episode, events, run, answered, task, attempt>>
      /\ clock' = clock /\ call' = call /\ submit' = submit
  BY DEF vars, journalVars, coordVars
<1>2. /\ clock \in Nat /\ call \in [Workers -> Call] /\ submit \in [Submitters -> Submit]
      /\ \A w \in Workers : call[w].now <= clock
  BY DEF CoordInv, CoordTypeOK, CallsPast
<1> QED
  BY <1>1, <1>2, QuietStep

-----------------------------------------------------------------------------
(***************************************************************************)
(* What follows from the invariant.                                        *)
(***************************************************************************)
LEMMA TasksAdmitted ==
  ASSUME CoordInv, NEW e \in Episodes, task[e].state # "ABSENT"
  PROVE  TaskAdmitted(e)
<1>1. RowsOK(task[e], attempt[e], clock)
  BY DEF CoordInv, TasksOK
<1>2. task[e].state = "COMPLETED" => task[e].digest = episode[e].evidence
  BY DEF CoordInv, ParentsOK, Parent
<1> QED
  BY <1>1, <1>2, JournalAssumption
     DEF RowsOK, Numbered, Held, Closed, TaskAdmitted, Present

\* The invariant implies that retries are safe.
LEMMA RetriesSafe == CoordInv => RetriesAreSafe
<1> SUFFICES ASSUME CoordInv PROVE RetriesAreSafe
  OBVIOUS
<1>1. \A e \in Episodes : Tried(task[e], attempt[e])
  BY DEF CoordInv, TasksOK, RowsOK
<1> QED
  BY <1>1 DEF Tried, RetriesAreSafe

\* Of two attempts that both believe in a lease one has expired, and no earlier
\* than in the second its lease ends in.
LEMMA OneLive == CoordInv => OneLiveAttemptPerSecond
<1> SUFFICES ASSUME CoordInv, NEW e \in Episodes, NEW m \in Numbers, NEW n \in Numbers,
                    m # n, Believed(e, m), Believed(e, n)
             PROVE  \E k \in {m, n} : Second(attempt[e][k].lease) = Second(clock)
  BY DEF OneLiveAttemptPerSecond
<1>1. RowsOK(task[e], attempt[e], clock) /\ clock \in Nat
  BY DEF CoordInv, CoordTypeOK, TasksOK
<1>2. PICK k \in {m, n} : attempt[e][k].state = "EXPIRED"
  BY <1>1 DEF Believed, RowsOK, Held
<1>3. k \in Numbers /\ attempt[e][k].lease \in Nat /\ clock <= attempt[e][k].lease
  BY <1>1, <1>2 DEF RowsOK, Attempt, Believed
<1>4. Second(attempt[e][k].lease) <= Second(clock)
  BY <1>1, <1>2, <1>3 DEF RowsOK, Past
<1>5. Second(clock) <= Second(attempt[e][k].lease)
  BY <1>1, <1>3, SecondsGrow
<1>6. Second(clock) \in Int /\ Second(attempt[e][k].lease) \in Int
  <2>1. \A a \in Nat, d \in Nat \ {0} : a \div d \in Int
    BY SMT
  <2> QED
    BY <1>1, <1>3, <2>1, CoordinatorAssumption DEF Second
<1> QED
  BY <1>4, <1>5, <1>6

\* The invariant implies that parents agree with their tasks.
LEMMA ParentsAgree == CoordInv => ParentAgrees
<1> SUFFICES ASSUME CoordInv, NEW e \in Episodes, task[e].state # "ABSENT"
             PROVE  CASE task[e].state = "COMPLETED" -> episode[e].status = Verdict(task[e].digest)
                      [] task[e].state = "CANCELLED" -> episode[e].status = "CANCELLED"
                      [] OTHER -> Holds(e, "CREATED", 0)
  BY DEF ParentAgrees
<1>1. Parent(e)
  BY DEF CoordInv, ParentsOK
<1>2. CASE task[e].state = "COMPLETED"
  BY <1>1, <1>2 DEF Parent
<1>3. CASE task[e].state = "CANCELLED"
  BY <1>1, <1>3 DEF Parent
<1>4. CASE task[e].state # "COMPLETED" /\ task[e].state # "CANCELLED"
  BY <1>1, <1>4 DEF Parent
<1> QED
  BY <1>2, <1>3, <1>4

\* The step of the rows is a step of the promise, Episode by Episode.
LEMMA PromiseStep ==
  ASSUME CoordInv, CoordInv', CoordKeeps
  PROVE  Promise!Next
<1> DEFINE phase == [e \in Episodes |-> PhaseOf[task[e].state]]
           term == [e \in Episodes |-> task[e].fence]
           verdict == [e \in Episodes |-> task[e].digest]
<1> SUFFICES ASSUME NEW e \in Episodes
             PROVE  Promise!Grant(e) \/ Promise!Accept(e) \/ Promise!Move(e) \/ Promise!Keep(e)
  BY DEF Promise!Next
<1>1. Promised(task[e], task'[e])
  BY DEF CoordKeeps
<1>2. /\ phase[e] = PhaseOf[task[e].state] /\ phase'[e] = PhaseOf[task'[e].state]
      /\ term[e] = task[e].fence /\ term'[e] = task'[e].fence
      /\ verdict[e] = task[e].digest /\ verdict'[e] = task'[e].digest
  OBVIOUS
<1>3. /\ PhaseOf["ABSENT"] = "absent" /\ PhaseOf["QUEUED"] = "open"
      /\ PhaseOf["LEASED"] = "held" /\ PhaseOf["COMPLETED"] = "accepted"
      /\ PhaseOf["CANCELLED"] = "withdrawn" /\ PhaseOf["FAILED"] = "exhausted"
      /\ PhaseOf["COMMIT_UNKNOWN"] = "doubtful"
  BY DEF PhaseOf
<1>4. CASE /\ task[e].state \in {"QUEUED", "LEASED"} /\ task'[e].state = "LEASED"
           /\ task'[e].fence = task[e].fence + 1 /\ task'[e].digest = task[e].digest
  BY <1>2, <1>3, <1>4 DEF Promise!Grant, Promise!Moves
<1>5. CASE /\ task[e].state = "LEASED" /\ task'[e].state = "COMPLETED"
           /\ task'[e].fence = task[e].fence /\ task'[e].digest \in Evidence
  BY <1>2, <1>3, <1>5 DEF Promise!Accept, Promise!Moves
<1>6. CASE /\ \/ task[e].state \in {"ABSENT", "LEASED"} /\ task'[e].state = "QUEUED"
              \/ task[e].state \in {"QUEUED", "LEASED"} /\ task'[e].state = "CANCELLED"
              \/ task[e].state = "LEASED" /\ task'[e].state \in {"FAILED", "COMMIT_UNKNOWN"}
           /\ task'[e].fence = task[e].fence /\ task'[e].digest = task[e].digest
  BY <1>2, <1>3, <1>6 DEF Promise!Move, Promise!Moves
<1>7. CASE /\ task'[e].state = task[e].state
           /\ task'[e].fence = task[e].fence /\ task'[e].digest = task[e].digest
  BY <1>2, <1>7 DEF Promise!Keep
<1> QED
  BY <1>1, <1>4, <1>5, <1>6, <1>7 DEF Promised

\* The initial coordinator is an initial promise.
LEMMA PromiseInit == Init => Promise!Init
BY DEF Init, CoordInit, Promise!Init, PhaseOf, NoTask

-----------------------------------------------------------------------------
(***************************************************************************)
(* The theorems.                                                           *)
(***************************************************************************)

\* The invariant above holds in every reachable state of Journal and coordinator:
\* rows keep their types, tasks agree with their attempts, and an Episode is run
\* locally or remotely but never both.
THEOREM CoordinatorInvariant == Spec => []CoordInv
<1>1. Init => CoordInv
  BY InitEstablishesCoordInv
<1>2. CoordInv /\ [Next]_vars => CoordInv'
  BY CoordInvInductive
<1> QED
  BY <1>1, <1>2, PTL DEF Spec

-----------------------------------------------------------------------------
(***************************************************************************)
(* Timestamps: every transaction stamps what it writes.                   *)
(***************************************************************************)
\* What a transaction at a time does to the timestamps of a task, of one attempt,
\* and of a task with its attempts: it updates them, or creates one of them.
DatedTask(T, U, now) ==
  U.created = T.created /\ (U.timely = T.timely \/ U.timely = Timely(T, now))

DatedAttempt(X, Y, now) ==
  \/ Y.created = now /\ Y.timely
  \/ /\ Y.created = X.created
     /\ Y.timely = X.timely \/ Y.timely = Timely(X, now)
     /\ Y.state # "ABSENT" => X.state # "ABSENT"

DatedRows(T, A, U, B, now) ==
  \/ DatedTask(T, U, now) /\ \A n \in Numbers : DatedAttempt(A[n], B[n], now)
  \/ /\ U.created = now /\ U.timely
     /\ B = A /\ \A n \in Numbers : A[n].state = "ABSENT"

\* A transaction at a time that writes the rows of the Episodes in S.
DatedStep(S, now) ==
  /\ written' = WrittenAt(S, now)
  /\ \A e \in S :
       /\ DatedWrite(e, now)
       /\ DatedRows(task[e], attempt[e], task'[e], attempt'[e], now)
  /\ \A e \in Episodes \ S :
       /\ episode'[e].created = episode[e].created
       /\ episode'[e].timely = episode[e].timely
       /\ task'[e] = task[e] /\ attempt'[e] = attempt[e]

\* Timestamps of a task and its attempts, none of them after w, are in order.
InOrder(T, A, w) ==
  /\ T.timely /\ T.created <= w
  /\ \A n \in Numbers :
       /\ A[n].timely /\ A[n].created <= w
       /\ A[n].state # "ABSENT" => T.created <= A[n].created

TaskDateOK(e) == TimeRanForward(e) => InOrder(task[e], attempt[e], written[e])

TaskDatesOK == \A e \in Episodes : TaskDateOK(e)

\* Rows in order stay in order when they are written no earlier than before.
LEMMA RowsInOrder ==
  ASSUME NEW T \in Task, NEW A \in [Numbers -> Attempt],
         NEW U \in Task, NEW B \in [Numbers -> Attempt],
         NEW w \in Nat, NEW now \in Nat, w <= now,
         InOrder(T, A, w), DatedRows(T, A, U, B, now)
  PROVE  InOrder(U, B, now)
<1>1. T.created \in Nat /\ U.created \in Nat /\ T.created <= now
  BY DEF Task, InOrder
<1>2. \A n \in Numbers : A[n].created \in Nat /\ B[n].created \in Nat /\ A[n].created <= now
  BY DEF Attempt, InOrder
<1>3. CASE DatedTask(T, U, now) /\ \A n \in Numbers : DatedAttempt(A[n], B[n], now)
  <2>1. U.created = T.created /\ U.timely
    BY <1>1, <1>3 DEF DatedTask, Timely, InOrder
  <2>2. ASSUME NEW n \in Numbers
        PROVE  /\ B[n].timely /\ B[n].created <= now
               /\ B[n].state # "ABSENT" => T.created <= B[n].created
    <3>1. CASE B[n].created = now /\ B[n].timely
      BY <1>1, <3>1
    <3>2. CASE /\ B[n].created = A[n].created
               /\ B[n].timely = A[n].timely \/ B[n].timely = Timely(A[n], now)
               /\ B[n].state # "ABSENT" => A[n].state # "ABSENT"
      BY <1>2, <3>2 DEF Timely, InOrder
    <3> QED
      BY <1>3, <3>1, <3>2 DEF DatedAttempt
  <2> QED
    BY <1>1, <2>1, <2>2 DEF InOrder
<1>4. CASE /\ U.created = now /\ U.timely
           /\ B = A /\ \A n \in Numbers : A[n].state = "ABSENT"
  BY <1>2, <1>4 DEF InOrder
<1> QED
  BY <1>3, <1>4 DEF DatedRows

\* A transaction that stamps what it writes keeps every timestamp in order,
\* unless it is the one that reads an earlier time than one before it.
LEMMA DatedStepKeeps ==
  ASSUME CoordInv, CoordInv', DatesOK, TaskDatesOK,
         NEW S \in SUBSET Episodes, NEW now \in Nat, DatedStep(S, now)
  PROVE  DatesOK' /\ TaskDatesOK'
<1>1. DatesOK'
  BY WriteKeepsDates DEF DatedStep, CoordInv, JournalInv
<1>2. Disordered \notin Nat
  BY DEF Disordered
<1>3. ASSUME NEW e \in S PROVE TaskDateOK(e)'
  <2> SUFFICES ASSUME written'[e] # Disordered
               PROVE  InOrder(task'[e], attempt'[e], written'[e])
    BY DEF TaskDateOK, TimeRanForward
  <2>1. written'[e] = now /\ written[e] \in 0..now
    BY <1>3 DEF DatedStep, DatedWrite
  <2>2. written[e] \in Nat /\ written[e] <= now
    BY <2>1
  <2>3. InOrder(task[e], attempt[e], written[e])
    BY <1>2, <1>3, <2>2 DEF TaskDatesOK, TaskDateOK, TimeRanForward
  <2>4. /\ task[e] \in Task /\ attempt[e] \in [Numbers -> Attempt]
        /\ task'[e] \in Task /\ attempt'[e] \in [Numbers -> Attempt]
    BY <1>3 DEF CoordInv, CoordTypeOK
  <2>5. DatedRows(task[e], attempt[e], task'[e], attempt'[e], now)
    BY <1>3 DEF DatedStep
  <2> QED
    BY <2>1, <2>2, <2>3, <2>4, <2>5, RowsInOrder
<1>4. ASSUME NEW e \in Episodes \ S PROVE TaskDateOK(e)'
  <2>1. written'[e] = written[e] /\ task'[e] = task[e] /\ attempt'[e] = attempt[e]
    BY <1>4 DEF DatedStep, WrittenAt
  <2> QED
    BY <1>4, <2>1 DEF TaskDatesOK, TaskDateOK, TimeRanForward
<1> QED
  BY <1>1, <1>3, <1>4 DEF TaskDatesOK

\* A step that stamps nothing.
LEMMA UnstampedKeeps ==
  ASSUME DatesOK, TaskDatesOK, UNCHANGED <<episode, written, task, attempt>>
  PROVE  DatesOK' /\ TaskDatesOK'
  BY DEF DatesOK, DateOK, TaskDatesOK, TaskDateOK, TimeRanForward

\* What stamps the rows of one Episode alone.
LEMMA OneDatedStep ==
  ASSUME NEW e \in Episodes, NEW now \in Nat, written' = WrittenAt({e}, now),
         \/ episode'[e].created = now /\ episode'[e].timely
         \/ episode'[e].created = episode[e].created /\ episode'[e].timely = Timely(episode[e], now)
         \/ episode'[e].created = episode[e].created /\ episode'[e].timely = episode[e].timely,
         DatedRows(task[e], attempt[e], task'[e], attempt'[e], now),
         \A f \in Episodes \ {e} :
           episode'[f] = episode[f] /\ task'[f] = task[f] /\ attempt'[f] = attempt[f]
  PROVE  \E S \in SUBSET Episodes, t \in Nat : DatedStep(S, t)
<1>1. DatedWrite(e, now)
  BY WrittenAlone DEF DatedWrite
<1>2. DatedStep({e}, now)
  BY <1>1 DEF DatedStep
<1> QED
  BY <1>2

\* Rows that are not written are dated as they were.
LEMMA SameDates ==
  ASSUME NEW T, NEW A, NEW now PROVE DatedRows(T, A, T, A, now)
  BY DEF DatedRows, DatedTask, DatedAttempt

\* cancelParentTx stamps the records it cancels and no other.
LEMMA CancelDates ==
  ASSUME CoordInv, NEW S \in SUBSET Episodes, NEW now, CancelParents(S, now), NEW e \in Episodes
  PROVE  /\ e \notin S => episode'[e] = episode[e]
         /\ \/ episode'[e].created = episode[e].created
               /\ episode'[e].timely = Timely(episode[e], now)
            \/ episode'[e].created = episode[e].created /\ episode'[e].timely = episode[e].timely
<1>1. episode[e] \in Row
  BY DEF CoordInv, JournalInv, RowsTyped
<1>2. CASE e \in S /\ episode[e].status = "CREATED"
  BY <1>1, <1>2 DEF CancelParents, Row
<1>3. CASE ~(e \in S /\ episode[e].status = "CREATED")
  BY <1>3 DEF CancelParents
<1> QED
  BY <1>2, <1>3

\* recoverExpiredTx stamps the task and the attempt it ends.
LEMMA RecoveredDates ==
  ASSUME CoordInv, NEW now \in Nat, NEW e \in Episodes, Expired(e, now)
  PROVE  /\ DatedTask(task[e], RecoveredTask(now)[e], now)
         /\ \A n \in Numbers :
              DatedAttempt(attempt[e][n], RecoveredAttempt(now)[e][n], now)
<1>1. task[e] \in Task /\ attempt[e] \in [Numbers -> Attempt]
  BY DEF CoordInv, CoordTypeOK
<1>2. task[e].active \in Numbers /\ attempt[e][task[e].active].state = "LEASED"
  BY DEF CoordInv, TasksOK, RowsOK, Held, Expired
<1> DEFINE m == task[e].active
           t == Timely(task[e], now)
           b == Timely(attempt[e][m], now)
<1>3. RecoveredTask(now)[e] = [task[e] EXCEPT !.state = Fate(e)[3], !.active = 0, !.timely = t]
  BY DEF RecoveredTask
<1>4. RecoveredAttempt(now)[e] =
        [attempt[e] EXCEPT ![m].state = Fate(e)[1], ![m].commit = Fate(e)[2], ![m].timely = b]
  BY DEF RecoveredAttempt
<1>5. DatedTask(task[e], RecoveredTask(now)[e], now)
  BY <1>1, <1>3 DEF DatedTask, Task
<1>6. ASSUME NEW n \in Numbers
      PROVE  DatedAttempt(attempt[e][n], RecoveredAttempt(now)[e][n], now)
  <2>1. attempt[e][n] \in Attempt
    BY <1>1
  <2>2. CASE n # m
    BY <1>1, <1>4, <2>2 DEF DatedAttempt
  <2>3. CASE n = m
    <3>2. DOMAIN attempt[e][n] = {"state", "commit", "fence", "lease", "created", "timely"}
      BY <2>1 DEF Attempt
    <3>3. n \in DOMAIN attempt[e]
      BY <1>1
    <3> HIDE DEF m, b
    <3>1. /\ RecoveredAttempt(now)[e][n].created = attempt[e][n].created
          /\ RecoveredAttempt(now)[e][n].timely = b
      BY <1>4, <2>3, <3>2, <3>3
    <3> QED
      BY <1>2, <2>3, <3>1 DEF DatedAttempt, m, b
  <2> QED
    BY <2>2, <2>3
<1> QED
  BY <1>5, <1>6

\* RecoverExpired stamps what it ends, and the records it cancels.
LEMMA RecoverDated ==
  ASSUME CoordInv, RecoverExpired
  PROVE  \E S \in SUBSET Episodes, t \in Nat : DatedStep(S, t)
<1>1. PICK now \in Readings :
        /\ CancelParents(CancelledByRecovery(now), now)
        /\ task' = RecoveredTask(now)
        /\ attempt' = RecoveredAttempt(now)
        /\ written' = WrittenAt({e \in Episodes : Expired(e, now)}, now)
  BY DEF RecoverExpired
<1>2. now \in Nat
  BY NowPast DEF CoordInv
<1> DEFINE S == {e \in Episodes : Expired(e, now)}
<1>3. CancelledByRecovery(now) \in SUBSET Episodes /\ CancelledByRecovery(now) \subseteq S
  BY DEF CancelledByRecovery
<1>4. ASSUME NEW e \in S
      PROVE  /\ DatedWrite(e, now)
             /\ DatedRows(task[e], attempt[e], task'[e], attempt'[e], now)
  <2>1. written'[e] = IF written[e] \in 0..now THEN now ELSE Disordered
    BY <1>1, <1>4 DEF WrittenAt
  <2> QED
    BY <1>1, <1>2, <1>3, <1>4, <2>1, CancelDates, RecoveredDates DEF DatedWrite, DatedRows
<1>5. ASSUME NEW e \in Episodes \ S
      PROVE  episode'[e] = episode[e] /\ task'[e] = task[e] /\ attempt'[e] = attempt[e]
  BY <1>1, <1>3, <1>5, CancelDates DEF RecoveredTask, RecoveredAttempt
<1>6. DatedStep(S, now)
  BY <1>1, <1>4, <1>5 DEF DatedStep
<1> QED
  BY <1>2, <1>6

\* A claim stamps what it recovers, the task it grants and the attempt it creates.
LEMMA ClaimDated ==
  ASSUME CoordInv, NEW w \in Workers, NEW lease \in Leases, NEW profiles \in Filters,
         Claim(w, lease, profiles)
  PROVE  \E S \in SUBSET Episodes, t \in Nat : DatedStep(S, t)
<1> DEFINE now == call[w].now
           rows == RecoveredTask(now)
           tries == RecoveredAttempt(now)
<1>1. now \in Nat /\ now <= clock
  BY DEF CoordInv, CoordTypeOK, CallsPast, Call
<1>2. CancelParents(CancelledByRecovery(now), now)
  BY DEF Claim
<1>3. PICK e \in Claimable(rows, profiles) :
        /\ NextAttempt(rows[e]) \in Numbers
        /\ task' = [rows EXCEPT ![e].state = "LEASED", ![e].count = NextAttempt(rows[e]),
                                ![e].fence = NextFence(rows[e]),
                                ![e].active = NextAttempt(rows[e]),
                                ![e].timely = Timely(rows[e], now)]
        /\ attempt' = [tries EXCEPT ![e][NextAttempt(rows[e])] =
             [state |-> "LEASED", commit |-> "NOT_STARTED", fence |-> NextFence(rows[e]),
              lease |-> now + lease, created |-> now, timely |-> TRUE]]
        /\ written' = WrittenAt({e} \cup {f \in Episodes : Expired(f, now)}, now)
  BY DEF Claim
<1>4. e \in Episodes
  BY DEF Claimable
<1>5. \A f \in Episodes : ~Expired(f, now) => rows[f] = task[f] /\ tries[f] = attempt[f]
  BY DEF RecoveredTask, RecoveredAttempt
<1>6. \A f \in Episodes :
        /\ DatedTask(task[f], rows[f], now)
        /\ \A n \in Numbers : DatedAttempt(attempt[f][n], tries[f][n], now)
  <2> TAKE f \in Episodes
  <2>1. CASE Expired(f, now)
    BY <1>1, <2>1, RecoveredDates
  <2>2. CASE ~Expired(f, now)
    BY <1>5, <2>2 DEF DatedTask, DatedAttempt
  <2> QED
    BY <2>1, <2>2
<1>7. /\ rows \in [Episodes -> Task] /\ tries \in [Episodes -> [Numbers -> Attempt]]
  <2>1. \A f \in Episodes : RowsOK(rows[f], tries[f], clock)
    BY <1>1, RecoveredRows
  <2> QED
    BY <2>1 DEF RecoveredTask, RecoveredAttempt, RowsOK
<1> DEFINE S == {e} \cup {f \in Episodes : Expired(f, now)}
<1>8. CancelledByRecovery(now) \in SUBSET Episodes /\ CancelledByRecovery(now) \subseteq S
  BY DEF CancelledByRecovery
<1>9. S \in SUBSET Episodes
  BY <1>4
<1>10. \A f \in Episodes \ S : ~Expired(f, now) /\ f # e
  OBVIOUS
<1>16. e \in S
  OBVIOUS
<1>17. written' = WrittenAt(S, now)
  BY <1>3
<1> HIDE DEF now, rows, tries, S
<1> DEFINE k == NextAttempt(rows[e])
           t == Timely(rows[e], now)
           new == [state |-> "LEASED", commit |-> "NOT_STARTED", fence |-> NextFence(rows[e]),
                   lease |-> now + lease, created |-> now, timely |-> TRUE]
<1>11. \A f \in Episodes \ {e} : task'[f] = rows[f] /\ attempt'[f] = tries[f]
  BY <1>3, <1>7
<1>12. task'[e].created = rows[e].created /\ task'[e].timely = t
  BY <1>3, <1>4, <1>7 DEF Task
<1>13. /\ attempt'[e][k] = new
       /\ \A n \in Numbers \ {k} : attempt'[e][n] = tries[e][n]
  BY <1>3, <1>4, <1>7
<1>18. new.created = now /\ new.timely
  OBVIOUS
<1> HIDE DEF k, new
<1>14. DatedRows(task[e], attempt[e], task'[e], attempt'[e], now)
  <2>1. DatedTask(task[e], task'[e], now)
    BY <1>4, <1>6, <1>12 DEF DatedTask, Timely
  <2>2. ASSUME NEW n \in Numbers
        PROVE  DatedAttempt(attempt[e][n], attempt'[e][n], now)
    <3>1. CASE n = k
      BY <1>13, <1>18, <3>1 DEF DatedAttempt
    <3>2. CASE n # k
      BY <1>4, <1>6, <1>13, <3>2
    <3> QED
      BY <3>1, <3>2
  <2> QED
    BY <2>1, <2>2 DEF DatedRows
<1>15. ASSUME NEW f \in S
       PROVE  /\ DatedWrite(f, now)
              /\ DatedRows(task[f], attempt[f], task'[f], attempt'[f], now)
  <2>1. f \in Episodes
    BY <1>9, <1>15
  <2>2. written'[f] = IF written[f] \in 0..now THEN now ELSE Disordered
    BY <1>15, <1>17, <2>1 DEF WrittenAt
  <2>3. DatedWrite(f, now)
    BY <1>2, <1>8, <2>1, <2>2, CancelDates DEF DatedWrite
  <2>4. CASE f = e
    BY <1>14, <2>3, <2>4
  <2>5. CASE f # e
    BY <1>6, <1>11, <2>1, <2>3, <2>5 DEF DatedRows
  <2> QED
    BY <2>4, <2>5
<1>19. ASSUME NEW f \in Episodes \ S
       PROVE  episode'[f] = episode[f] /\ task'[f] = task[f] /\ attempt'[f] = attempt[f]
  <2>1. f \notin CancelledByRecovery(now)
    BY <1>8, <1>19
  <2> QED
    BY <1>2, <1>5, <1>8, <1>10, <1>11, <1>19, <2>1, CancelDates
<1>20. DatedStep(S, now)
  BY <1>15, <1>17, <1>19 DEF DatedStep
<1> QED
  BY <1>1, <1>9, <1>20

\* Heartbeat, CompleteClaim, FailClaim and CancelTask stamp the rows they write.
LEMMA WorkerDated ==
  ASSUME CoordInv, NEW e \in Episodes,
         \/ \E w \in Workers, n \in Numbers, fence \in Numbers, lease \in Leases :
              Heartbeat(w, e, n, fence, lease)
         \/ \E n \in Numbers, fence \in Numbers, d \in Evidence : CompleteClaim(e, n, fence, d)
         \/ \E n \in Numbers, fence \in Numbers, commit \in {"NO_EFFECT", "UNKNOWN"} :
              FailClaim(e, n, fence, commit)
         \/ CancelTask(e)
  PROVE  \E S \in SUBSET Episodes, t \in Nat : DatedStep(S, t)
<1>1. /\ episode \in [Episodes -> Row] /\ task \in [Episodes -> Task]
      /\ attempt \in [Episodes -> [Numbers -> Attempt]]
  BY DEF CoordInv, CoordTypeOK, JournalInv, RowsTyped
<1>2. episode[e] \in Row /\ task[e] \in Task /\ \A n \in Numbers : attempt[e][n] \in Attempt
  BY <1>1
<1>3. ASSUME NEW w \in Workers, NEW n \in Numbers, NEW fence \in Numbers, NEW lease \in Leases,
             Heartbeat(w, e, n, fence, lease)
      PROVE  \E S \in SUBSET Episodes, t \in Nat : DatedStep(S, t)
  <2>1. call[w].now \in Nat
    BY DEF CoordInv, CoordTypeOK, Call
  <2>2. /\ attempt'[e][n].created = attempt[e][n].created
        /\ attempt'[e][n].timely = Timely(attempt[e][n], call[w].now)
        /\ \A m \in Numbers \ {n} : attempt'[e][m] = attempt[e][m]
        /\ \A f \in Episodes \ {e} : attempt'[f] = attempt[f]
    BY <1>1, <1>2, <1>3 DEF Heartbeat, Attempt
  <2>3. /\ episode' = episode /\ task' = task /\ written' = WrittenAt({e}, call[w].now)
        /\ attempt[e][n].state = "LEASED"
    BY <1>3 DEF Heartbeat
  <2>4. DatedRows(task[e], attempt[e], task'[e], attempt'[e], call[w].now)
    BY <2>2, <2>3 DEF DatedRows, DatedTask, DatedAttempt
  <2> QED
    BY <2>1, <2>2, <2>3, <2>4, OneDatedStep
<1>4. ASSUME NEW n \in Numbers, NEW now \in Nat, written' = WrittenAt({e}, now),
             attempt[e][n].state = "LEASED",
             attempt' = [attempt EXCEPT ![e] = attempt'[e]],
             attempt'[e][n].created = attempt[e][n].created,
             attempt'[e][n].timely = Timely(attempt[e][n], now),
             \A m \in Numbers \ {n} : attempt'[e][m] = attempt[e][m],
             DatedTask(task[e], task'[e], now),
             \A f \in Episodes \ {e} : episode'[f] = episode[f] /\ task'[f] = task[f],
             \/ episode'[e].created = episode[e].created
                /\ episode'[e].timely = Timely(episode[e], now)
             \/ episode'[e].created = episode[e].created
                /\ episode'[e].timely = episode[e].timely
      PROVE  \E S \in SUBSET Episodes, t \in Nat : DatedStep(S, t)
  <2>1. DatedRows(task[e], attempt[e], task'[e], attempt'[e], now)
    BY <1>4 DEF DatedRows, DatedAttempt
  <2>2. \A f \in Episodes \ {e} : attempt'[f] = attempt[f]
    BY <1>1, <1>4
  <2> QED
    BY <1>4, <2>1, <2>2, OneDatedStep
<1>5. ASSUME NEW n \in Numbers, NEW fence \in Numbers, NEW d \in Evidence,
             CompleteClaim(e, n, fence, d)
      PROVE  \E S \in SUBSET Episodes, t \in Nat : DatedStep(S, t)
  <2>1. PICK now \in Readings :
          /\ episode' = [episode EXCEPT ![e].status = Verdict(d), ![e].sequence = LastSequence,
                           ![e].evidence = d, ![e].timely = Timely(episode[e], now)]
          /\ attempt' = [attempt EXCEPT ![e][n].state = "COMPLETED",
                           ![e][n].commit = "COMMITTED",
                           ![e][n].timely = Timely(attempt[e][n], now)]
          /\ task' = [task EXCEPT ![e].state = "COMPLETED", ![e].active = 0,
                           ![e].final = n, ![e].digest = d,
                           ![e].timely = Timely(task[e], now)]
          /\ written' = WrittenAt({e}, now)
    BY <1>5 DEF CompleteClaim
  <2>2. attempt[e][n].state = "LEASED" /\ now \in Nat
    BY <1>5, NowPast DEF CompleteClaim, MayComplete, CoordInv
  <2>3. /\ attempt'[e][n].created = attempt[e][n].created
        /\ attempt'[e][n].timely = Timely(attempt[e][n], now)
        /\ \A m \in Numbers \ {n} : attempt'[e][m] = attempt[e][m]
    BY <1>1, <1>2, <2>1 DEF Attempt
  <2>4. attempt' = [attempt EXCEPT ![e] = attempt'[e]]
    BY <1>1, <2>1
  <2>5. DatedTask(task[e], task'[e], now) /\ \A f \in Episodes \ {e} : task'[f] = task[f]
    BY <1>1, <1>2, <2>1 DEF DatedTask, Task
  <2>6. /\ episode'[e].created = episode[e].created
        /\ episode'[e].timely = Timely(episode[e], now)
        /\ \A f \in Episodes \ {e} : episode'[f] = episode[f]
    BY <1>1, <1>2, <2>1 DEF Row
  <2> QED
    BY <1>4, <2>1, <2>2, <2>3, <2>4, <2>5, <2>6
<1>6. ASSUME NEW n \in Numbers, NEW fence \in Numbers, NEW commit \in {"NO_EFFECT", "UNKNOWN"},
             FailClaim(e, n, fence, commit)
      PROVE  \E S \in SUBSET Episodes, t \in Nat : DatedStep(S, t)
  <2> DEFINE x == ReportedFate(e, commit)[1]
             s == ReportedFate(e, commit)[2]
             P == IF s = "CANCELLED" THEN {e} ELSE {}
  <2>1. PICK now \in Readings :
          /\ attempt' = [attempt EXCEPT ![e][n].state = x, ![e][n].commit = commit,
                           ![e][n].timely = Timely(attempt[e][n], now)]
          /\ task' = [task EXCEPT ![e].state = s, ![e].active = 0,
                           ![e].timely = Timely(task[e], now)]
          /\ CancelParents(P, now)
          /\ written' = WrittenAt({e}, now)
    BY <1>6 DEF FailClaim
  <2>2. attempt[e][n].state = "LEASED" /\ now \in Nat
    BY <1>6, NowPast DEF FailClaim, CoordInv
  <2>7. P \in SUBSET Episodes /\ \A f \in Episodes \ {e} : f \notin P
    OBVIOUS
  <2> HIDE DEF x, s, P
  <2>3. /\ attempt'[e][n].created = attempt[e][n].created
        /\ attempt'[e][n].timely = Timely(attempt[e][n], now)
        /\ \A m \in Numbers \ {n} : attempt'[e][m] = attempt[e][m]
    BY <1>1, <1>2, <2>1 DEF Attempt
  <2>4. attempt' = [attempt EXCEPT ![e] = attempt'[e]]
    BY <1>1, <2>1
  <2>5. DatedTask(task[e], task'[e], now) /\ \A f \in Episodes \ {e} : task'[f] = task[f]
    BY <1>1, <1>2, <2>1 DEF DatedTask, Task
  <2>6. /\ \A f \in Episodes \ {e} : episode'[f] = episode[f]
        /\ \/ episode'[e].created = episode[e].created
              /\ episode'[e].timely = Timely(episode[e], now)
           \/ episode'[e].created = episode[e].created
              /\ episode'[e].timely = episode[e].timely
    BY <2>1, <2>7, CancelDates
  <2> QED
    BY <1>4, <2>1, <2>2, <2>3, <2>4, <2>5, <2>6
<1>7. CASE CancelTask(e)
  <2> DEFINE P == IF task[e].state = "QUEUED" THEN {e} ELSE {}
  <2>1. PICK now \in Readings :
          /\ CancelParents(P, now)
          /\ task' = [task EXCEPT ![e].cancel = TRUE,
                        ![e].state = IF @ = "QUEUED" THEN "CANCELLED" ELSE @,
                        ![e].timely = Timely(task[e], now)]
          /\ written' = WrittenAt({e}, now)
    BY <1>7 DEF CancelTask
  <2>2. attempt' = attempt /\ now \in Nat
    BY <1>7, NowPast DEF CancelTask, CoordInv
  <2>3. P \in SUBSET Episodes /\ \A f \in Episodes \ {e} : f \notin P
    OBVIOUS
  <2> HIDE DEF P
  <2>4. DatedTask(task[e], task'[e], now) /\ \A f \in Episodes \ {e} : task'[f] = task[f]
    BY <1>1, <1>2, <2>1 DEF DatedTask, Task
  <2>5. DatedRows(task[e], attempt[e], task'[e], attempt'[e], now)
    BY <2>2, <2>4 DEF DatedRows, DatedAttempt
  <2>6. /\ \A f \in Episodes \ {e} : episode'[f] = episode[f]
        /\ \/ episode'[e].created = episode[e].created
              /\ episode'[e].timely = Timely(episode[e], now)
           \/ episode'[e].created = episode[e].created
              /\ episode'[e].timely = episode[e].timely
    BY <2>1, <2>3, CancelDates
  <2> QED
    BY <2>1, <2>2, <2>4, <2>5, <2>6, OneDatedStep
<1> QED
  BY <1>3, <1>5, <1>6, <1>7

\* Submit stamps the record it creates and, later, its task.
LEMMA SubmitDated ==
  ASSUME CoordInv, NEW s \in Submitters, NEW e \in Episodes, NEW now \in Nat,
         written' = WrittenAt({e}, now),
         \/ \E q \in Requests : CreateRow(e, q, now) /\ UNCHANGED <<task, attempt>>
         \/ \E profile \in Profiles, max \in Numbers :
              /\ task[e].state = "ABSENT"
              /\ task' = [task EXCEPT ![e] = [NoTask EXCEPT !.state = "QUEUED",
                            !.profile = profile, !.max = max, !.created = now]]
              /\ UNCHANGED <<episode, attempt>>
  PROVE  \E S \in SUBSET Episodes, t \in Nat : DatedStep(S, t)
<1>1. episode \in [Episodes -> Row] /\ task \in [Episodes -> Task]
  BY DEF CoordInv, CoordTypeOK, JournalInv, RowsTyped
<1>2. ASSUME NEW q \in Requests, CreateRow(e, q, now), UNCHANGED <<task, attempt>>
      PROVE  \E S \in SUBSET Episodes, t \in Nat : DatedStep(S, t)
  <2>1. episode'[e] = NewRow(q, now) /\ \A f \in Episodes \ {e} : episode'[f] = episode[f]
    BY <1>1, <1>2 DEF CreateRow
  <2>2. episode'[e].created = now /\ episode'[e].timely
    <3> DEFINE R == episode'[e]
               N == NewRow(q, now)
    <3>1. R = N
      BY <2>1
    <3>2. N.created = now
      BY NewRowColumns
    <3>3. N.timely
      BY NewRowColumns
    <3> HIDE DEF N
    <3>4. R.created = now
      BY <3>1, <3>2
    <3>5. R.timely
      BY <3>1, <3>3
    <3> QED
      BY <3>4, <3>5
  <2> QED
    BY <1>2, <2>1, <2>2, SameDates, OneDatedStep
<1>3. ASSUME NEW profile \in Profiles, NEW max \in Numbers, task[e].state = "ABSENT",
             task' = [task EXCEPT ![e] = [NoTask EXCEPT !.state = "QUEUED",
                        !.profile = profile, !.max = max, !.created = now]],
             UNCHANGED <<episode, attempt>>
      PROVE  \E S \in SUBSET Episodes, t \in Nat : DatedStep(S, t)
  <2> DEFINE T == [NoTask EXCEPT !.state = "QUEUED", !.profile = profile,
                                 !.max = max, !.created = now]
  <2>1. T.created = now /\ T.timely
    BY DEF NoTask
  <2>2. task' = [task EXCEPT ![e] = T]
    BY <1>3
  <2> HIDE DEF T
  <2>3. task'[e] = T /\ \A f \in Episodes \ {e} : task'[f] = task[f]
    BY <1>1, <2>2
  <2>4. \A n \in Numbers : attempt[e][n].state = "ABSENT"
    <3>1. Unstarted(task[e], attempt[e])
      BY DEF CoordInv, TasksOK, RowsOK
    <3>2. \A n \in Numbers : attempt[e][n] = NoAttempt
      BY <1>3, <3>1 DEF Unstarted
    <3>3. NoAttempt.state = "ABSENT"
      BY DEF NoAttempt
    <3> QED
      BY <3>2, <3>3
  <2>5. DatedRows(task[e], attempt[e], task'[e], attempt'[e], now)
    BY <1>3, <2>1, <2>3, <2>4 DEF DatedRows
  <2> QED
    BY <1>3, <2>3, <2>5, OneDatedStep
<1> QED
  BY <1>2, <1>3

\* Every transaction stamps what it writes.
LEMMA NextDated ==
  ASSUME CoordInv, Next
  PROVE  \/ UNCHANGED <<episode, written, task, attempt>>
         \/ \E S \in SUBSET Episodes, t \in Nat : DatedStep(S, t)
<1> DEFINE Goal == \/ UNCHANGED <<episode, written, task, attempt>>
                   \/ \E S \in SUBSET Episodes, t \in Nat : DatedStep(S, t)
<1> SUFFICES Goal
  OBVIOUS
<1>1. CASE Tick \/ Restart
  BY <1>1 DEF Tick, Restart, journalVars
<1>2. ASSUME NEW w \in Workers,
             \/ \E kind \in {"claim", "heartbeat"} : ReadClock(w, kind)
             \/ Refused(w)
      PROVE  Goal
  BY <1>2 DEF ReadClock, Refused, journalVars
<1>3. ASSUME NEW w \in Workers, NEW lease \in Leases, NEW profiles \in Filters,
             Claim(w, lease, profiles)
      PROVE  Goal
  BY <1>3, ClaimDated
<1>4. ASSUME NEW w \in Workers, NEW e \in Episodes, NEW n \in Numbers, NEW fence \in Numbers,
             NEW lease \in Leases, Heartbeat(w, e, n, fence, lease)
      PROVE  Goal
  BY <1>4, WorkerDated
<1>5. CASE WorkerNext
  BY <1>2, <1>3, <1>4, <1>5 DEF WorkerNext
<1>6. ASSUME NEW e \in Episodes, NEW s \in Submitters, NEW q \in Requests, SubmitReserve(s, e, q)
      PROVE  Goal
  <2>1. UNCHANGED <<task, attempt>>
    BY <1>6 DEF SubmitReserve
  <2>2. CASE LoadRow(e, q)
    BY <2>1, <2>2 DEF LoadRow
  <2>3. CASE \E now \in Readings : CreateRow(e, q, now)
    <3>1. PICK now \in Nat : CreateRow(e, q, now)
      BY <2>3, NowPast DEF CoordInv
    <3>2. written' = WrittenAt({e}, now)
      BY <3>1 DEF CreateRow
    <3> QED
      BY <2>1, <3>1, <3>2, SubmitDated
  <2> QED
    BY <1>6, <2>2, <2>3 DEF SubmitReserve
<1>7. ASSUME NEW e \in Episodes, CancelTask(e)
      PROVE  Goal
  BY <1>7, WorkerDated
<1>8. ASSUME NEW e \in Episodes, NEW n \in Numbers, NEW fence \in Numbers, NEW d \in Evidence,
             CompleteClaim(e, n, fence, d) \/ RepeatCompletion(e, n, fence, d)
      PROVE  Goal
  <2>1. CASE CompleteClaim(e, n, fence, d)
    BY <2>1, WorkerDated
  <2>2. CASE RepeatCompletion(e, n, fence, d)
    BY <2>2 DEF RepeatCompletion, coordVars
  <2> QED
    BY <1>8, <2>1, <2>2
<1>9. ASSUME NEW e \in Episodes, NEW n \in Numbers, NEW fence \in Numbers,
             NEW commit \in {"NO_EFFECT", "UNKNOWN"}, FailClaim(e, n, fence, commit)
      PROVE  Goal
  BY <1>9, WorkerDated
<1>10. CASE ClientNext
  BY <1>6, <1>7, <1>8, <1>9, <1>10 DEF ClientNext
<1>11. ASSUME NEW s \in Submitters, NEW profile \in Profiles, NEW max \in Numbers,
              SubmitTask(s, profile, max)
       PROVE  Goal
  <2> DEFINE e == submit[s].on
  <2>1. PICK now \in Readings :
          /\ task' = [task EXCEPT ![e] = [NoTask EXCEPT !.state = "QUEUED",
                        !.profile = profile, !.max = max, !.created = now]]
          /\ written' = WrittenAt({e}, now)
    BY <1>11 DEF SubmitTask
  <2>2. now \in Nat
    BY NowPast DEF CoordInv
  <2>3. /\ task[e].state = "ABSENT" /\ submit[s].reserved
        /\ UNCHANGED <<episode, attempt>>
    BY <1>11 DEF SubmitTask
  <2>4. e \in Episodes
    BY <2>3 DEF CoordInv, ParentsOK, Reservations
  <2> HIDE DEF e
  <2> QED
    BY <2>1, <2>2, <2>3, <2>4, SubmitDated
<1>12. ASSUME NEW s \in Submitters, SubmitRepeat(s) \/ SubmitBlock(s) \/ SubmitAbandon(s)
       PROVE  Goal
  BY <1>12 DEF SubmitRepeat, SubmitBlock, SubmitAbandon, journalVars
<1>13. CASE SubmitNext
  BY <1>11, <1>12, <1>13 DEF SubmitNext
<1>14. CASE RecoverExpired
  BY <1>14, RecoverDated
<1>15. CASE RunnerNext(Readings) /\ UNCHANGED coordVars
  <2>1. RunnerNext(Nat) /\ RowsTyped /\ UNCHANGED <<task, attempt>>
    BY <1>15, AnyReading DEF CoordInv, JournalInv, coordVars
  <2>2. CASE UNCHANGED <<episode, written>>
    BY <2>1, <2>2
  <2>3. CASE \E e \in Episodes, now \in Nat : RunnerWrite(e, now)
    <3>1. PICK e \in Episodes, now \in Nat : RunnerWrite(e, now)
      BY <2>3
    <3> QED
      BY <2>1, <3>1, SameDates, OneDatedStep DEF RunnerWrite
  <2> QED
    BY <2>1, <2>2, <2>3, RunnerWrites DEF RunnerWritesOne
<1> HIDE DEF Goal
<1> QED
  BY <1>1, <1>5, <1>10, <1>13, <1>14, <1>15 DEF Next

\* Before anything is written the timestamps are in order.
LEMMA InitEstablishesTaskDates == Init => DatesOK /\ TaskDatesOK
<1> SUFFICES ASSUME Init PROVE DatesOK /\ TaskDatesOK
  OBVIOUS
<1>1. DatesOK
  BY InitEstablishesDates DEF Init
<1>2. \A e \in Episodes : /\ task[e] = NoTask /\ written[e] = 0
                         /\ \A n \in Numbers : attempt[e][n] = NoAttempt
  BY DEF Init, CoordInit, JournalInit
<1> QED
  BY <1>1, <1>2 DEF TaskDatesOK, TaskDateOK, InOrder, NoTask, NoAttempt

\* Timestamps are out of order only where time ran backwards, in the records and
\* in the tasks.
THEOREM TaskDates == Spec => [](DatesOK /\ TaskDatesOK)
<1>1. CoordInv /\ CoordInv' /\ (DatesOK /\ TaskDatesOK) /\ [Next]_vars => (DatesOK /\ TaskDatesOK)'
  <2> SUFFICES ASSUME CoordInv, CoordInv', DatesOK, TaskDatesOK, [Next]_vars
               PROVE  DatesOK' /\ TaskDatesOK'
    OBVIOUS
  <2>1. CASE UNCHANGED vars
    BY <2>1, UnstampedKeeps DEF vars, journalVars, coordVars
  <2>2. CASE Next
    BY <2>2, NextDated, UnstampedKeeps, DatedStepKeeps
  <2> QED
    BY <2>1, <2>2
<1> QED
  BY <1>1, InitEstablishesTaskDates, CoordinatorInvariant, PTL DEF Spec

\* A task whose timestamps are in order has those validateTaskRecord demands.
LEMMA TaskTimes ==
  ASSUME TaskDatesOK, NEW e \in Episodes, TimeRanForward(e)
  PROVE  TaskTimesAdmitted(e)
  BY DEF TaskDatesOK, TaskDateOK, InOrder, TaskTimesAdmitted, Present

-----------------------------------------------------------------------------
(***************************************************************************)
(* The theorems, one by one.                                              *)
(***************************************************************************)
\* Whatever Submit, Claim, Heartbeat, CompleteClaim, FailClaim, CancelTask and
\* recovery commit, and in whatever order, validateTaskRecord admits every task,
\* its timestamps where no transaction read an earlier time than one before it.
THEOREM TasksAlwaysAdmitted == Spec => []EveryTaskAdmitted
<1>1. CoordInv /\ TaskDatesOK => EveryTaskAdmitted
  BY TasksAdmitted, TaskTimes DEF EveryTaskAdmitted
<1> QED
  BY <1>1, CoordinatorInvariant, TaskDates, PTL

\* recoverExpiredTx and FailClaim never requeue what may have had an effect.
THEOREM RetriesAlwaysSafe == Spec => []RetriesAreSafe
<1> QED
  BY RetriesSafe, CoordinatorInvariant, PTL

\* recoverExpiredTx takes no lease before the second it ends in, whatever Claim
\* read from the clock, so two workers never believe in a lease for longer.
THEOREM LeasesExclude == Spec => []OneLiveAttemptPerSecond
<1> QED
  BY OneLive, CoordinatorInvariant, PTL

\* CompleteClaim and cancelParentTx move a task and its Episode together.
THEOREM ParentsAlwaysAgree == Spec => []ParentAgrees
<1> QED
  BY ParentsAgree, CoordinatorInvariant, PTL

\* No late request rewrites an attempt that ended, and none gets past a
\* cancellation request (CancelTask).
THEOREM AttemptsStayEnded == Spec => EndedStaysEnded
<1> DEFINE KeepsEnded == \A e \in Episodes :
       /\ \A n \in Numbers : attempt[e][n].state \notin {"ABSENT", "LEASED"} =>
            attempt'[e][n] = attempt[e][n]
       /\ task[e].cancel =>
            /\ task'[e].cancel
            /\ task'[e].count = task[e].count
            /\ episode'[e].evidence = episode[e].evidence
<1>1. CoordInv /\ [Next]_vars => [KeepsEnded]_vars
  BY CoordInvInductive DEF CoordKeeps, Final
<1> QED
  BY <1>1, CoordinatorInvariant, PTL DEF Spec, EndedStaysEnded

\* With remote workers, too, no transaction rewrites a terminal Episode.
THEOREM RemoteTerminalIsFinal == Spec => TerminalIsFinal
<1>1. CoordInv /\ [Next]_vars => [KeepsTerminal]_journalVars
  BY CoordInvInductive DEF CoordKeeps
<1> QED
  BY <1>1, CoordinatorInvariant, PTL DEF Spec, TerminalIsFinal

\* The Journal's own invariant survives the coordinator: its records stay
\* readable (scanRecord, loadEvents), their timestamps where time ran forward, a
\* runner's compare-and-swap is never lost to CompleteClaim or cancelParentTx,
\* and all answers for an Episode agree.
THEOREM RemoteJournalInvariant ==
  Spec => [](EveryRecordAdmitted /\ RunnerMirrorsJournal /\ AnswersAgree)
<1>1. CoordInv /\ DatesOK => EveryRecordAdmitted /\ RunnerMirrorsJournal /\ AnswersAgree
  BY DEF CoordInv, JournalInv, RecordsOK, RecordsReadable, RunsOK, DatesOK, DateOK,
     EveryRecordAdmitted, TimesAdmitted
<1> QED
  BY <1>1, CoordinatorInvariant, TaskDates, PTL

\* The coordinator implements EpisodePromise: every transaction grants the next
\* term, accepts Evidence from the holder, moves the task without Evidence, or
\* leaves the Episode as it stands.
THEOREM PromiseIsKept == Spec => KeepsPromise
<1>1. Init => Promise!Init
  BY PromiseInit
<1>2. CoordInv /\ CoordInv' /\ [Next]_vars => [Promise!Next]_(Promise!promiseVars)
  BY CoordInvInductive, PromiseStep
<1> QED
  BY <1>1, <1>2, CoordinatorInvariant, PTL DEF Spec, KeepsPromise, Promise!Spec

-----------------------------------------------------------------------------
(***************************************************************************)
(* InspectionSpec: the inductive invariant.                                *)
(***************************************************************************)

\* T was a row of the task that is U now: no later than U, the same once it had
\* ended, and out of the queue only by a grant or a cancellation.
Once(T, U) ==
  /\ T.state # "ABSENT" /\ U.state # "ABSENT"
  /\ T.state = "LEASED" => T.active = T.count /\ T.count \in Numbers
  /\ T.count <= U.count
  /\ T.state \notin {"QUEUED", "LEASED"} => U = T
  /\ T.state = "QUEUED" /\ U.count = T.count => U.state \in {"QUEUED", "CANCELLED"}

Reading(v) == v.step \in {"task", "episode", "events", "accepted"}
HasEpisode(v) == v.step \in {"episode", "events", "accepted"}

\* The Episode's row, read after the task's: Evidence in it is what the task has
\* ended with by now; and if the lease read first is still held now, it was held
\* when the Episode was read.
EpisodeBetween(v) ==
  /\ v.episode.evidence # None =>
       task[v.on].state = "COMPLETED" /\ task[v.on].digest = v.episode.evidence
  /\ v.task.state = "LEASED" /\ attempt[v.on][v.task.count].state = "LEASED" =>
       v.episode.status = "CREATED"

\* What an accepted answer says (see AcceptedViewHolds).
Stands(v) ==
  /\ v.episode.evidence # None =>
       /\ v.task.state = "COMPLETED"
       /\ v.task = task[v.on]
       /\ v.attempts = attempt[v.on]
  /\ v.task.state = "LEASED" =>
       /\ v.attempts[v.task.active].state = "LEASED"
       /\ v.episode.status = "CREATED"

ViewOK(v) ==
  /\ v.step \in {"idle", "task", "episode", "events", "accepted"}
  /\ Reading(v) => v.on \in Episodes /\ Once(v.task, task[v.on])
  /\ HasEpisode(v) => EpisodeBetween(v)
  /\ v.step = "accepted" => Stands(v)

View == [step : {"idle", "task", "episode", "events", "accepted"},
         on : Episodes \cup {None}, task : Task, episode : Row,
         attempts : [Numbers -> Attempt]]

InspectionInv ==
  /\ CoordInv
  /\ view \in [Readers -> View]
  /\ \A i \in Readers : ViewOK(view[i])

-----------------------------------------------------------------------------
(***************************************************************************)
(* What a view keeps while the coordinator goes on.                        *)
(***************************************************************************)

\* The Evidence of an Episode with a task is the task's, which has ended with it.
LEMMA EvidenceIsTheTasks ==
  ASSUME CoordInv, NEW e \in Episodes, task[e].state # "ABSENT", episode[e].evidence # None
  PROVE  task[e].state = "COMPLETED" /\ task[e].digest = episode[e].evidence
<1>1. Parent(e) /\ RecordOK(e) /\ Exists(e)
  BY RecordByRecord, TaskExists DEF CoordInv, ParentsOK, JournalInv
<1>2. episode[e].status \in {"SUCCEEDED", "ASSERTION_FAILED"}
  BY <1>1 DEF RecordOK, EvidenceAdmitted, Verdict
<1> QED
  BY <1>1, <1>2 DEF Parent, Holds

\* Rows read once stay rows the task has passed through.
LEMMA OnceKept ==
  ASSUME CoordInv, CoordInv', CoordKeeps, NEW e \in Episodes, NEW T \in Task, Once(T, task[e])
  PROVE  Once(T, task'[e])
<1>1. /\ Final(task[e], attempt[e], task'[e], attempt'[e])
      /\ Promised(task[e], task'[e])
  BY DEF CoordKeeps
<1>2. T.count \in Nat /\ task[e].count \in Nat /\ task'[e].count \in Nat
  BY NumberFacts DEF CoordInv, CoordTypeOK, Task
<1>3. T.count <= task'[e].count
  BY <1>1, <1>2 DEF Final, Once
<1>4. T.state \notin {"QUEUED", "LEASED"} => task'[e] = T
  BY <1>1 DEF Final, Once
<1>5. T.state = "QUEUED" /\ task'[e].count = T.count => task'[e].state \in {"QUEUED", "CANCELLED"}
  BY <1>1, <1>2 DEF Final, Once
<1>6. task'[e].state # "ABSENT"
  BY <1>1 DEF Promised, Once
<1> QED
  BY <1>3, <1>4, <1>5, <1>6 DEF Once

\* A view stays right when the coordinator moves on as its records allow.
LEMMA ViewKept ==
  ASSUME CoordInv, CoordInv', CoordKeeps, NEW v \in View, ViewOK(v)
  PROVE  ViewOK(v)'
<1>1. CASE ~Reading(v)
  BY <1>1 DEF ViewOK, Reading, HasEpisode
<1>2. CASE Reading(v)
  <2> DEFINE e == v.on
             T == v.task
  <2>1. e \in Episodes /\ Once(T, task[e]) /\ T \in Task
    BY <1>2 DEF ViewOK, View
  <2>2. /\ Final(task[e], attempt[e], task'[e], attempt'[e])
        /\ RowsOK(task[e], attempt[e], clock)
    BY <2>1 DEF CoordKeeps, CoordInv, TasksOK
  <2>3. Once(T, task'[e])
    BY <2>1, OnceKept
  <2>4. task[e].state = "COMPLETED" => task'[e] = task[e] /\ attempt'[e] = attempt[e]
    BY <2>2 DEF Final
  <2>5. T.state = "LEASED" /\ attempt'[e][T.count].state = "LEASED" =>
          attempt[e][T.count].state = "LEASED"
    <3> SUFFICES ASSUME T.state = "LEASED", attempt[e][T.count].state # "LEASED"
                 PROVE  attempt'[e][T.count].state # "LEASED"
      OBVIOUS
    <3>1. T.count \in Numbers /\ T.count <= task[e].count
      BY <2>1 DEF Once
    <3>2. attempt[e][T.count].state # "ABSENT"
      BY <2>2, <3>1 DEF RowsOK, Numbered
    <3> QED
      BY <2>2, <3>1, <3>2 DEF Final
  <2> HIDE DEF e, T
  <2>6. HasEpisode(v) => EpisodeBetween(v)'
    BY <2>4, <2>5 DEF ViewOK, EpisodeBetween, e, T
  <2>7. v.step = "accepted" => Stands(v)'
    BY <2>4 DEF ViewOK, Stands, e, T
  <2> QED
    BY <2>1, <2>3, <2>6, <2>7 DEF ViewOK, e, T
<1> QED
  BY <1>1, <1>2

-----------------------------------------------------------------------------
(***************************************************************************)
(* The queries of GetTask.                                                 *)
(***************************************************************************)
LEMMA Unchanged ==
  ASSUME CoordInv, UNCHANGED vars
  PROVE  /\ CoordInv' /\ CoordKeeps
         /\ task' = task /\ attempt' = attempt /\ episode' = episode
BY CoordInvInductive DEF vars, coordVars, journalVars

\* An inspection that has read nothing is right.
LEMMA NoViewOK == NoView \in View /\ ViewOK(NoView)
<1>1. NoTask \in Task
  BY NumberFacts DEF NoTask, Task, TaskStates, Profiles
<1>2. NoAttempt \in Attempt
  BY DEF NoAttempt, Attempt, AttemptStates, CommitStates
<1>3. NoRow \in Row
  BY LiteralTypes DEF NoRow, Row
<1>4. NoView \in View
  BY <1>1, <1>2, <1>3 DEF NoView, View
<1>5. NoView.step = "idle"
  BY DEF NoView
<1> QED
  BY <1>4, <1>5 DEF ViewOK, Reading, HasEpisode

\* One reader's view changes, and nothing else.
LEMMA ReaderStep ==
  ASSUME InspectionInv, UNCHANGED vars, NEW i \in Readers, NEW v \in View, ViewOK(v),
         view' = [view EXCEPT ![i] = v]
  PROVE  InspectionInv'
<1>1. CoordInv' /\ CoordKeeps
  BY Unchanged DEF InspectionInv
<1>2. view' \in [Readers -> View]
  BY DEF InspectionInv
<1>3. ASSUME NEW j \in Readers PROVE ViewOK(view[j])'
  <2> DEFINE u == view'[j]
  <2>1. u \in View /\ (u = view[j] \/ u = v)
    BY DEF InspectionInv
  <2>2. ViewOK(view[j])
    BY DEF InspectionInv
  <2> QED
    BY <1>1, <2>1, <2>2, ViewKept DEF InspectionInv
<1> QED
  BY <1>1, <1>2, <1>3 DEF InspectionInv

\* An inspection may be given up at any time.
LEMMA GivenUpStep ==
  ASSUME InspectionInv, UNCHANGED vars, NEW i \in Readers, view' = GivenUp(i)
  PROVE  InspectionInv'
BY NoViewOK, ReaderStep DEF GivenUp

\* The first read takes the task as it is.
LEMMA ReadTaskStep ==
  ASSUME InspectionInv, NEW i \in Readers, NEW e \in Episodes, ReadTask(i, e)
  PROVE  InspectionInv'
<1> DEFINE v == [view[i] EXCEPT !.step = "task", !.on = e, !.task = task[e]]
<1>1. view[i] \in View /\ RowsOK(task[e], attempt[e], clock) /\ task[e].state # "ABSENT"
  BY DEF InspectionInv, CoordInv, TasksOK, ReadTask
<1>2. task[e] \in Task
  BY <1>1 DEF RowsOK
<1>3. v \in View /\ v.step = "task" /\ v.on = e /\ v.task = task[e]
  BY <1>1, <1>2 DEF View
<1>4. view' = [view EXCEPT ![i] = v] /\ UNCHANGED vars
  BY DEF ReadTask, Reads
<1> HIDE DEF v
<1>5. Once(task[e], task[e])
  <2>1. task[e].count \in Nat
    BY <1>2, NumberFacts DEF Task
  <2> QED
    BY <1>1, <2>1 DEF Once, RowsOK, Held
<1>6. ViewOK(v)
  BY <1>3, <1>5 DEF ViewOK, Reading, HasEpisode
<1> QED
  BY <1>3, <1>4, <1>6, ReaderStep

\* The Episode's row is read while the task is where it was, or further.
LEMMA ReadEpisodeStep ==
  ASSUME InspectionInv, NEW i \in Readers, ReadEpisode(i)
  PROVE  InspectionInv'
<1> DEFINE e == view[i].on
           v == [view[i] EXCEPT !.step = "episode", !.episode = episode[e]]
<1>1. /\ view[i] \in View /\ view[i].step = "task"
      /\ e \in Episodes /\ Once(view[i].task, task[e])
  BY DEF InspectionInv, ViewOK, Reading, ReadEpisode, Reads
<1>2. episode[e] \in Row /\ RowsOK(task[e], attempt[e], clock)
  BY <1>1 DEF InspectionInv, CoordInv, JournalInv, RowsTyped, TasksOK
<1>3. /\ v \in View /\ v.step = "episode" /\ v.on = e /\ v.task = view[i].task
      /\ v.episode = episode[e]
  BY <1>1, <1>2 DEF View
<1>4. /\ UNCHANGED vars
      /\ view' = [view EXCEPT ![i] = v] \/ view' = GivenUp(i)
  BY DEF ReadEpisode, Reads
<1> HIDE DEF v, e
<1>5. v.episode.evidence # None =>
        task[e].state = "COMPLETED" /\ task[e].digest = v.episode.evidence
  BY <1>1, <1>3, EvidenceIsTheTasks DEF InspectionInv, Once
<1>6. v.task.state = "LEASED" /\ attempt[e][v.task.count].state = "LEASED" =>
        v.episode.status = "CREATED"
  <2> SUFFICES ASSUME v.task.state = "LEASED", attempt[e][v.task.count].state = "LEASED"
               PROVE  v.episode.status = "CREATED"
    OBVIOUS
  <2>1. v.task.count \in Numbers
    BY <1>1, <1>3 DEF Once
  <2>2. task[e].state = "LEASED"
    BY <1>2, <2>1 DEF RowsOK, Held
  <2> QED
    BY <1>1, <1>3, <2>2, OpenParent DEF InspectionInv
<1>7. ViewOK(v)
  BY <1>1, <1>3, <1>5, <1>6 DEF ViewOK, Reading, HasEpisode, EpisodeBetween
<1> QED
  BY <1>3, <1>4, <1>7, ReaderStep, GivenUpStep

\* The events are judged against the row that was read before them.
LEMMA ReadEventsStep ==
  ASSUME InspectionInv, NEW i \in Readers, ReadEvents(i)
  PROVE  InspectionInv'
<1> DEFINE v == [view[i] EXCEPT !.step = "events"]
<1>1. view[i] \in View /\ ViewOK(view[i]) /\ view[i].step = "episode" /\ UNCHANGED vars
  BY DEF InspectionInv, ReadEvents, Reads
<1>2. /\ v \in View /\ v.step = "events" /\ v.on = view[i].on /\ v.task = view[i].task
      /\ v.episode = view[i].episode
  BY <1>1 DEF View
<1>3. view' = [view EXCEPT ![i] = v] \/ view' = GivenUp(i)
  BY DEF ReadEvents
<1> HIDE DEF v
<1>4. ViewOK(v)
  BY <1>1, <1>2 DEF ViewOK, Reading, HasEpisode, EpisodeBetween
<1> QED
  BY <1>1, <1>2, <1>3, <1>4, ReaderStep, GivenUpStep

\* What validateTaskRecord accepts of rows read at different times stands: the
\* attempts are as many as the task had, so the task has been granted no further.
LEMMA ReadAttemptsStep ==
  ASSUME InspectionInv, NEW i \in Readers, ReadAttempts(i)
  PROVE  InspectionInv'
<1> DEFINE e == view[i].on
           T == view[i].task
           rows == attempt[e]
           v == [view[i] EXCEPT !.attempts = rows, !.step = "accepted"]
<1>1. /\ view[i] \in View /\ ViewOK(view[i]) /\ view[i].step = "events" /\ UNCHANGED vars
      /\ CoordInv
  BY DEF InspectionInv, ReadAttempts, Reads
<1>2. e \in Episodes /\ Once(T, task[e]) /\ EpisodeBetween(view[i]) /\ T \in Task
  BY <1>1 DEF ViewOK, Reading, HasEpisode, View
<1>3. RowsOK(task[e], rows, clock) /\ rows \in [Numbers -> Attempt] /\ task[e] \in Task
  BY <1>1, <1>2 DEF CoordInv, TasksOK, RowsOK
<1>4. CASE view' = GivenUp(i)
  BY <1>1, <1>4, GivenUpStep
<1>5. CASE Judged(T, view[i].episode, rows) /\ view' = [view EXCEPT ![i] = v]
  <2>1. /\ v \in View /\ v.step = "accepted" /\ v.on = e /\ v.task = T
        /\ v.episode = view[i].episode /\ v.attempts = rows
    BY <1>1, <1>3 DEF View
  <2> HIDE DEF v
  <2>2. T.count \in Nat /\ task[e].count \in Nat
        /\ T.count <= MaxAttempts /\ task[e].count <= MaxAttempts
    BY <1>2, <1>3, NumberFacts DEF Task
  <2>3. T.count = task[e].count
    <3>1. \A n \in Numbers : n <= T.count <=> n <= task[e].count
      BY <1>3, <1>5 DEF Judged, RowsOK, Numbered
    <3>2. T.count <= task[e].count
      BY <1>2 DEF Once
    <3>3. task[e].count = 0 \/ task[e].count \in Numbers
      BY <2>2, NumberFacts
    <3> QED
      BY <2>2, <3>1, <3>2, <3>3
  <2>4. T.state = "LEASED" => T.active = T.count /\ rows[T.count].state = "LEASED"
    BY <1>5 DEF Judged
  <2>5. ASSUME v.episode.evidence # None
        PROVE  T.state = "COMPLETED" /\ T = task[e]
    <3>1. task[e].state = "COMPLETED"
      BY <1>2, <2>1, <2>5 DEF EpisodeBetween
    <3>2. T.state # "QUEUED"
      BY <1>2, <2>3, <3>1 DEF Once
    <3>3. T.state # "LEASED"
      BY <1>3, <2>3, <2>4, <3>1 DEF RowsOK, Closed
    <3> QED
      BY <1>2, <3>1, <3>2, <3>3 DEF Once
  <2>6. T.state = "LEASED" => v.episode.status = "CREATED"
    BY <1>2, <2>1, <2>4 DEF EpisodeBetween
  <2>7. Stands(v)
    BY <2>1, <2>4, <2>5, <2>6 DEF Stands
  <2>8. EpisodeBetween(v)
    BY <1>2, <2>1 DEF EpisodeBetween
  <2>9. ViewOK(v)
    BY <1>2, <2>1, <2>7, <2>8 DEF ViewOK
  <2> QED
    BY <1>1, <1>5, <2>1, <2>9, ReaderStep
<1> QED
  BY <1>4, <1>5 DEF ReadAttempts

-----------------------------------------------------------------------------
(***************************************************************************)
(* The invariant holds at first and is inductive.                          *)
(***************************************************************************)
LEMMA InspectionStart == InspectionInit => InspectionInv
BY NoViewOK, InitEstablishesCoordInv DEF InspectionInit, InspectionInv

\* Every step of the coordinator and of the inspections keeps the invariant.
LEMMA InspectionInvInductive ==
  InspectionInv /\ [InspectionNext]_inspectionVars => InspectionInv'
<1>1. ASSUME InspectionInv, [Next]_vars, view' = view
      PROVE  InspectionInv'
  <2>1. CoordInv' /\ CoordKeeps
    BY <1>1, CoordInvInductive DEF InspectionInv
  <2>2. \A i \in Readers : ViewOK(view[i])'
    <3> TAKE i \in Readers
    <3> DEFINE v == view[i]
    <3>1. v \in View /\ ViewOK(v) /\ view'[i] = v
      BY <1>1 DEF InspectionInv
    <3> QED
      BY <1>1, <2>1, <3>1, ViewKept DEF InspectionInv
  <2> QED
    BY <1>1, <2>1, <2>2 DEF InspectionInv
<1>2. ASSUME InspectionInv, NEW i \in Readers, Answered(i) PROVE InspectionInv'
  BY <1>2, GivenUpStep DEF Answered
<1> QED
  BY <1>1, <1>2, ReadTaskStep, ReadEpisodeStep, ReadEventsStep, ReadAttemptsStep
     DEF InspectionNext, inspectionVars

-----------------------------------------------------------------------------
(***************************************************************************)
(* The theorems.                                                           *)
(***************************************************************************)

\* What each GetTask call has read so far stays within what the invariant above
\* says of it, whatever commits between its four queries.
THEOREM InspectionInvariant == InspectionSpec => []InspectionInv
<1> QED
  BY InspectionStart, InspectionInvInductive, PTL DEF InspectionSpec

\* GetTask is no transaction, yet validateTaskRecord lets no torn answer pass
\* that the Journal would contradict: Evidence comes with its completed task,
\* a lease with an Episode that has not begun.
THEOREM TornReadsAgree == InspectionSpec => []AcceptedViewHolds
<1>1. InspectionInv => AcceptedViewHolds
  BY DEF InspectionInv, ViewOK, Stands, AcceptedViewHolds
<1> QED
  BY <1>1, InspectionInvariant, PTL

-----------------------------------------------------------------------------
(***************************************************************************)
(* FleetSpec: the inductive invariant.                                     *)
(***************************************************************************)
ProcessRecord ==
  [at : Live \cup {"ended"},
   held : [e : Episodes \cup {None}, n : 0..MaxAttempts, fence : Nat],
   result : Evidence \cup {"none", "failed", "foreign"},
   beat : {"quiet", "sent", "lost"}, stop : BOOLEAN, signal : BOOLEAN,
   past : SUBSET [e : Episodes, n : Numbers]]

Executing(r) == r.at \in {"running", "reporting"}

\* Among the attempts A, the one a claim names is there, under the claim's fence.
Granting(A, h) ==
  /\ h.e \in Episodes /\ h.n \in Numbers
  /\ A[h.e][h.n].state # "ABSENT"
  /\ A[h.e][h.n].fence = h.fence

\* A process whose heartbeat may still be on its way: it names an attempt, and
\* neither goes on to another nor hands a foreign one back meanwhile.
Beating(r) ==
  /\ r.held.e \in Episodes /\ r.held.n \in Numbers
  /\ \/ Executing(r) /\ r.beat # "quiet" /\ r.result # "foreign"
     \/ r.at = "ended"

Over(A, a) == A[a.e][a.n].state \in {"COMPLETED", "FAILED", "CANCELLED"}

SameAttempt(g, h) == g.e = h.e /\ g.n = h.n

FleetTypeOK == worker \in [Workers -> ProcessRecord]

BeatsNamed == \A w \in Workers : call[w].kind = "heartbeat" => Beating(worker[w])

HoldsGranted == \A w \in Workers : Executing(worker[w]) => Granting(attempt, worker[w].held)

HoldsApart ==
  \A v, w \in Workers :
    v # w /\ Executing(worker[v]) /\ Executing(worker[w]) =>
      ~SameAttempt(worker[v].held, worker[w].held)

PastOver == \A w \in Workers : \A a \in worker[w].past : Over(attempt, a)

\* A process that waits for work has no run yet; foreign work is not run, so no
\* heartbeat is ever lost under it.
Orderly(r) ==
  /\ r.at \in {"idle", "claiming"} => r.result = "none" /\ r.beat = "quiet"
  /\ r.at = "running" => r.result = "none"
  /\ r.at = "reporting" /\ r.result = "foreign" => r.beat = "quiet"

RunsOrderly == \A w \in Workers : Orderly(worker[w])

FleetInv ==
  /\ CoordInv
  /\ FleetTypeOK
  /\ BeatsNamed
  /\ HoldsGranted
  /\ HoldsApart
  /\ PastOver
  /\ RunsOrderly

-----------------------------------------------------------------------------
(***************************************************************************)
(* What the coordinator's steps leave of what processes rely on.           *)
(***************************************************************************)

\* A granted attempt stays, with its fence, and one that is over stays over.
LEMMA AttemptsKept ==
  ASSUME CoordKeeps
  PROVE  /\ \A h : Granting(attempt, h) => Granting(attempt', h)
         /\ \A a \in [e : Episodes, n : Numbers] : Over(attempt, a) => Over(attempt', a)
<1>1. \A e \in Episodes, n \in Numbers :
        /\ attempt[e][n].state # "ABSENT" =>
             attempt'[e][n].state # "ABSENT" /\ attempt'[e][n].fence = attempt[e][n].fence
        /\ attempt[e][n].state \in {"COMPLETED", "FAILED", "CANCELLED"} =>
             attempt'[e][n] = attempt[e][n]
  BY DEF CoordKeeps, Final
<1>2. ASSUME NEW h, Granting(attempt, h) PROVE Granting(attempt', h)
  BY <1>1, <1>2 DEF Granting
<1>3. ASSUME NEW a \in [e : Episodes, n : Numbers], Over(attempt, a) PROVE Over(attempt', a)
  <2>1. a.e \in Episodes /\ a.n \in Numbers
    OBVIOUS
  <2> QED
    BY <1>1, <1>3, <2>1 DEF Over
<1> QED
  BY <1>2, <1>3

\* What a step of the fleet must show of each process, whatever it did.
LEMMA FleetKept ==
  ASSUME FleetInv, CoordInv', CoordKeeps,
         worker' \in [Workers -> ProcessRecord],
         \A w \in Workers : call'[w].kind = "heartbeat" => Beating(worker'[w]),
         \A w \in Workers : Executing(worker'[w]) =>
           \/ Executing(worker[w]) /\ worker'[w].held = worker[w].held
           \/ /\ Granting(attempt', worker'[w].held)
              /\ \A v \in Workers \ {w} :
                   /\ worker'[v] = worker[v]
                   /\ Executing(worker[v]) => ~SameAttempt(worker[v].held, worker'[w].held),
         \A w \in Workers : Orderly(worker'[w]),
         \A w \in Workers : \A a \in worker'[w].past : a \in worker[w].past \/ Over(attempt', a)
  PROVE  FleetInv'
<1>1. FleetTypeOK' /\ BeatsNamed' /\ RunsOrderly'
  BY DEF FleetTypeOK, BeatsNamed, RunsOrderly, Orderly, Beating, Executing
<1>2. HoldsGranted'
  <2> SUFFICES ASSUME NEW w \in Workers, Executing(worker'[w])
               PROVE  Granting(attempt', worker'[w].held)
    BY DEF HoldsGranted, Executing
  <2>1. CASE Executing(worker[w]) /\ worker'[w].held = worker[w].held
    <3>1. Granting(attempt, worker[w].held)
      BY <2>1 DEF FleetInv, HoldsGranted
    <3> QED
      BY <2>1, <3>1, AttemptsKept DEF Granting
  <2> QED
    BY <2>1
<1>3. HoldsApart'
  <2> SUFFICES ASSUME NEW v \in Workers, NEW w \in Workers, v # w,
                      Executing(worker'[v]), Executing(worker'[w])
               PROVE  ~SameAttempt(worker'[v].held, worker'[w].held)
    BY DEF HoldsApart, Executing, SameAttempt
  <2>1. CASE /\ Executing(worker[v]) /\ worker'[v].held = worker[v].held
             /\ Executing(worker[w]) /\ worker'[w].held = worker[w].held
    BY <2>1 DEF FleetInv, HoldsApart
  <2>2. CASE \A u \in Workers \ {w} :
               /\ worker'[u] = worker[u]
               /\ Executing(worker[u]) => ~SameAttempt(worker[u].held, worker'[w].held)
    BY <2>2
  <2>3. CASE \A u \in Workers \ {v} :
               /\ worker'[u] = worker[u]
               /\ Executing(worker[u]) => ~SameAttempt(worker[u].held, worker'[v].held)
    BY <2>3 DEF SameAttempt
  <2> QED
    BY <2>1, <2>2, <2>3
<1>4. PastOver'
  <2> SUFFICES ASSUME NEW w \in Workers, NEW a \in worker'[w].past PROVE Over(attempt', a)
    BY DEF PastOver, Over
  <2>1. CASE a \in worker[w].past
    <3>1. a \in [e : Episodes, n : Numbers]
      BY <2>1 DEF FleetInv, FleetTypeOK, ProcessRecord
    <3>2. Over(attempt, a)
      BY <2>1 DEF FleetInv, PastOver
    <3> QED
      BY <3>1, <3>2, AttemptsKept
  <2> QED
    BY <2>1
<1> QED
  BY <1>1, <1>2, <1>3, <1>4 DEF FleetInv

\* The same when one process becomes r, and at most its own call changes.
LEMMA ProcessKept ==
  ASSUME FleetInv, CoordInv', CoordKeeps, NEW w \in Workers, NEW r \in ProcessRecord,
         worker' = [worker EXCEPT ![w] = r],
         \A v \in Workers \ {w} : call'[v] = call[v],
         call'[w].kind = "heartbeat" => Beating(r),
         Executing(r) =>
           \/ Executing(worker[w]) /\ r.held = worker[w].held
           \/ /\ Granting(attempt', r.held)
              /\ \A v \in Workers \ {w} :
                   Executing(worker[v]) => ~SameAttempt(worker[v].held, r.held),
         Orderly(r),
         \A a \in r.past : a \in worker[w].past \/ Over(attempt', a)
  PROVE  FleetInv'
<1>1. /\ worker' \in [Workers -> ProcessRecord] /\ worker'[w] = r
      /\ \A v \in Workers \ {w} : worker'[v] = worker[v]
  BY DEF FleetInv, FleetTypeOK
<1>2. \A v \in Workers : call'[v].kind = "heartbeat" => Beating(worker'[v])
  BY <1>1 DEF FleetInv, BeatsNamed
<1>3. \A v \in Workers : Executing(worker'[v]) =>
        \/ Executing(worker[v]) /\ worker'[v].held = worker[v].held
        \/ /\ Granting(attempt', worker'[v].held)
           /\ \A u \in Workers \ {v} :
                /\ worker'[u] = worker[u]
                /\ Executing(worker[u]) => ~SameAttempt(worker[u].held, worker'[v].held)
  <2> TAKE v \in Workers
  <2>1. CASE v = w
    BY <1>1, <2>1 DEF Granting
  <2>2. CASE v # w
    BY <1>1, <2>2
  <2> QED
    BY <2>1, <2>2
<1>4. \A v \in Workers : Orderly(worker'[v])
  BY <1>1 DEF FleetInv, RunsOrderly
<1>5. \A v \in Workers : \A a \in worker'[v].past : a \in worker[v].past \/ Over(attempt', a)
  BY <1>1
<1> QED
  BY <1>1, <1>2, <1>3, <1>4, <1>5, FleetKept

-----------------------------------------------------------------------------
(***************************************************************************)
(* How a process changes.                                                  *)
(***************************************************************************)
LEMMA FreshRecord ==
  /\ Fresh \in ProcessRecord /\ Fresh.at = "idle" /\ Fresh.past = {}
  /\ Fresh.result = "none" /\ Fresh.beat = "quiet"
  /\ NoHold \in [e : Episodes \cup {None}, n : 0..MaxAttempts, fence : Nat]
<1>1. NoHold \in [e : Episodes \cup {None}, n : 0..MaxAttempts, fence : Nat]
  BY NumberFacts DEF NoHold
<1> QED
  BY <1>1 DEF Fresh, ProcessRecord, Live

\* A process that ends executes nothing; its heartbeat may be on its way.
LEMMA EndsKept ==
  ASSUME FleetInv, CoordInv', CoordKeeps, NEW w \in Workers, Ends(w),
         \A v \in Workers \ {w} : call'[v] = call[v],
         call'[w].kind = "heartbeat" => call[w].kind = "heartbeat"
  PROVE  FleetInv'
<1> DEFINE h == IF call[w].kind = "heartbeat" THEN worker[w].held ELSE Fresh.held
           r == [Fresh EXCEPT !.at = "ended", !.held = h]
<1>1. worker' = [worker EXCEPT ![w] = r]
  BY DEF Ends, Becomes
<1>2. h \in [e : Episodes \cup {None}, n : 0..MaxAttempts, fence : Nat]
  BY FreshRecord DEF FleetInv, FleetTypeOK, ProcessRecord
<1>3. call[w].kind = "heartbeat" => h.e \in Episodes /\ h.n \in Numbers
  BY DEF FleetInv, BeatsNamed, Beating
<1> HIDE DEF h
<1>4. r \in ProcessRecord /\ r.at = "ended" /\ r.held = h /\ r.past = {}
  BY <1>2, FreshRecord DEF ProcessRecord
<1> HIDE DEF r
<1>5. ~Executing(r) /\ Orderly(r)
  BY <1>4 DEF Executing, Orderly
<1>6. call'[w].kind = "heartbeat" => Beating(r)
  BY <1>3, <1>4 DEF Beating
<1> QED
  BY <1>1, <1>4, <1>5, <1>6, ProcessKept

\* A process goes on, its attempt over.
LEMMA MovesOnKept ==
  ASSUME FleetInv, CoordInv', CoordKeeps, NEW w \in Workers, MovesOn(w),
         Executing(worker[w]),
         Over(attempt', worker[w].held),
         \A v \in Workers \ {w} : call'[v] = call[v],
         call'[w].kind # "heartbeat"
  PROVE  FleetInv'
<1> DEFINE a == [e |-> worker[w].held.e, n |-> worker[w].held.n]
           past == worker[w].past \cup {a}
<1>1. PICK at \in {"idle", "ended"} :
        worker' = [worker EXCEPT ![w] = [Fresh EXCEPT !.at = at, !.past = past]]
  BY DEF MovesOn, Becomes
<1> DEFINE r == [Fresh EXCEPT !.at = at, !.past = past]
<1>2. worker[w].held.e \in Episodes /\ worker[w].held.n \in Numbers
  BY DEF FleetInv, HoldsGranted, Granting
<1>3. past \in SUBSET [e : Episodes, n : Numbers]
  BY <1>2 DEF FleetInv, FleetTypeOK, ProcessRecord
<1>4. Over(attempt', a)
  BY DEF Over
<1>5. \A b \in past : b \in worker[w].past \/ Over(attempt', b)
  BY <1>4
<1> HIDE DEF past
<1>6. /\ r \in ProcessRecord /\ r.at = at /\ r.past = past
      /\ r.result = "none" /\ r.beat = "quiet"
  BY <1>3, FreshRecord DEF ProcessRecord, Live
<1> HIDE DEF r
<1>7. ~Executing(r) /\ Orderly(r)
  BY <1>6 DEF Executing, Orderly
<1>8. worker' = [worker EXCEPT ![w] = r]
  BY <1>1 DEF r
<1> HIDE DEF a
<1> QED
  BY <1>5, <1>6, <1>7, <1>8, ProcessKept

\* A process that stays as it is, whatever became of its call.
LEMMA WorkersKept ==
  ASSUME FleetInv, CoordInv', CoordKeeps, worker' = worker,
         \A v \in Workers : call'[v] = call[v] \/ call'[v].kind # "heartbeat"
  PROVE  FleetInv'
<1>1. worker' \in [Workers -> ProcessRecord] /\ \A w \in Workers : worker'[w] = worker[w]
  BY DEF FleetInv, FleetTypeOK
<1>2. \A w \in Workers : call'[w].kind = "heartbeat" => Beating(worker'[w])
  BY DEF FleetInv, BeatsNamed
<1>3. \A w \in Workers : Orderly(worker'[w])
  BY <1>1 DEF FleetInv, RunsOrderly
<1> QED
  BY <1>1, <1>2, <1>3, FleetKept

\* A step in which the coordinator does nothing.
LEMMA CoordinatorIdle ==
  ASSUME FleetInv, UNCHANGED vars
  PROVE  CoordInv' /\ CoordKeeps /\ call' = call
BY CoordInvInductive DEF FleetInv, vars, coordVars

\* A process that waits for nothing has no call of any kind.
LEMMA NoCallKind == NoCall.kind = "none"
BY DEF NoCall

-----------------------------------------------------------------------------
(***************************************************************************)
(* The claim loop.                                                         *)
(***************************************************************************)
LEMMA StartStep ==
  ASSUME FleetInv, NEW w \in Workers, Start(w)
  PROVE  FleetInv'
<1>1. CoordInv' /\ CoordKeeps /\ call' = call
  BY CoordinatorIdle DEF Start
<1>2. worker' = [worker EXCEPT ![w] = Fresh] /\ call[w] = NoCall
  BY DEF Start, Becomes
<1>3. ~Executing(Fresh) /\ Orderly(Fresh)
  BY FreshRecord DEF Executing, Orderly
<1> QED
  BY <1>1, <1>2, <1>3, FreshRecord, NoCallKind, ProcessKept

\* A process sends its claim request: no run starts yet.
LEMMA SendClaimStep ==
  ASSUME FleetInv, NEW w \in Workers, SendClaim(w)
  PROVE  FleetInv'
<1>1. CoordInv' /\ CoordKeeps
  BY QuietActions DEF SendClaim, FleetInv
<1>2. call \in [Workers -> Call]
  BY DEF FleetInv, CoordInv, CoordTypeOK
<1>3. PICK now \in Readings : call' = [call EXCEPT ![w] = [kind |-> "claim", now |-> now]]
  BY DEF SendClaim, ReadClock
<1>4. call'[w].kind = "claim" /\ \A v \in Workers \ {w} : call'[v] = call[v]
  BY <1>2, <1>3
<1> DEFINE r == [worker[w] EXCEPT !.at = "claiming"]
<1>5. worker' = [worker EXCEPT ![w] = r]
  BY DEF SendClaim, Goes, Becomes
<1>6. /\ r \in ProcessRecord /\ r.at = "claiming" /\ r.past = worker[w].past
      /\ r.result = worker[w].result /\ r.beat = worker[w].beat
  BY DEF FleetInv, FleetTypeOK, ProcessRecord, Live
<1> HIDE DEF r
<1>7. ~Executing(r) /\ Orderly(r)
  BY <1>6 DEF SendClaim, FleetInv, RunsOrderly, Executing, Orderly
<1> QED
  BY <1>1, <1>4, <1>5, <1>6, <1>7, ProcessKept

\* A claim that is not granted leaves its process without a run.
LEMMA NotGrantedStep ==
  ASSUME FleetInv, NEW w \in Workers, NotGranted(w)
  PROVE  FleetInv'
<1>1. CoordInv' /\ CoordKeeps
  BY QuietActions DEF NotGranted, FleetInv
<1>2. call' = [call EXCEPT ![w] = NoCall] /\ call \in [Workers -> Call]
  BY DEF NotGranted, Refused, FleetInv, CoordInv, CoordTypeOK
<1>3. call'[w].kind # "heartbeat" /\ \A v \in Workers \ {w} : call'[v] = call[v]
  BY <1>2, NoCallKind
<1>4. CASE worker' = worker
  BY <1>1, <1>3, <1>4, WorkersKept
<1>5. CASE Ends(w)
  BY <1>1, <1>3, <1>5, EndsKept
<1>6. CASE worker[w].at = "claiming" /\ Goes(w, "idle")
  <2> DEFINE r == [worker[w] EXCEPT !.at = "idle"]
  <2>1. worker' = [worker EXCEPT ![w] = r]
    BY <1>6 DEF Goes, Becomes
  <2>2. /\ r \in ProcessRecord /\ r.at = "idle" /\ r.past = worker[w].past
        /\ r.result = worker[w].result /\ r.beat = worker[w].beat
    BY DEF FleetInv, FleetTypeOK, ProcessRecord, Live
  <2> HIDE DEF r
  <2>3. ~Executing(r) /\ Orderly(r)
    BY <1>6, <2>2 DEF FleetInv, RunsOrderly, Executing, Orderly
  <2> QED
    BY <1>1, <1>3, <2>1, <2>2, <2>3, ProcessKept
<1> QED
  BY <1>4, <1>5, <1>6 DEF NotGranted

\* A claim grants one attempt that was not there, and is told apart by it: what
\* recovery ends in the same transaction is not leased.
LEMMA ClaimGrants ==
  ASSUME CoordInv, NEW w \in Workers, NEW lease \in Leases, NEW profiles \in Filters,
         Claim(w, lease, profiles)
  PROVE  \E e \in Episodes :
           /\ task'[e].state = "LEASED" /\ attempt'[e] # attempt[e]
           /\ task'[e].count \in Numbers
           /\ attempt[e][task'[e].count].state = "ABSENT"
           /\ attempt'[e][task'[e].count].state = "LEASED"
           /\ attempt'[e][task'[e].count].fence = task'[e].fence
           /\ \A f \in Episodes \ {e} :
                ~(task'[f].state = "LEASED" /\ attempt'[f] # attempt[f])
<1> DEFINE now == call[w].now
           rows == RecoveredTask(now)
           tries == RecoveredAttempt(now)
<1>1. now \in Nat /\ now <= clock
  BY DEF CoordInv, CoordTypeOK, CallsPast, Call
<1>2. PICK e \in Claimable(rows, profiles) :
        /\ NextAttempt(rows[e]) \in Numbers
        /\ task' = [rows EXCEPT ![e].state = "LEASED", ![e].count = NextAttempt(rows[e]),
                                ![e].fence = NextFence(rows[e]),
                                ![e].active = NextAttempt(rows[e]),
                                ![e].timely = Timely(rows[e], now)]
        /\ attempt' = [tries EXCEPT ![e][NextAttempt(rows[e])] =
             [state |-> "LEASED", commit |-> "NOT_STARTED", fence |-> NextFence(rows[e]),
              lease |-> now + lease, created |-> now, timely |-> TRUE]]
  BY DEF Claim
<1>3. e \in Episodes
  BY DEF Claimable
<1>4. \A f \in Episodes :
        /\ RowsOK(rows[f], tries[f], clock)
        /\ Final(task[f], attempt[f], rows[f], tries[f])
        /\ Expired(f, now) => rows[f].state = Fate(f)[3]
        /\ ~Expired(f, now) => tries[f] = attempt[f]
  BY <1>1, RecoveredRows
<1>5. rows \in [Episodes -> Task] /\ tries \in [Episodes -> [Numbers -> Attempt]]
  BY <1>4 DEF RecoveredTask, RecoveredAttempt, RowsOK
<1> HIDE DEF now, rows, tries
<1> DEFINE n == NextAttempt(rows[e])
           new == [state |-> "LEASED", commit |-> "NOT_STARTED", fence |-> NextFence(rows[e]),
                   lease |-> now + lease, created |-> now, timely |-> TRUE]
<1>6. /\ task'[e].state = "LEASED" /\ task'[e].count = n /\ task'[e].fence = NextFence(rows[e])
      /\ \A f \in Episodes \ {e} : task'[f] = rows[f]
  BY <1>2, <1>3, <1>5 DEF Task
<1>7. n \in Numbers /\ n = rows[e].count + 1 /\ rows[e].count \in Nat
  BY <1>2, <1>3, <1>5, NumberFacts DEF NextAttempt, Task
<1>8. new.state = "LEASED" /\ new.fence = NextFence(rows[e])
  OBVIOUS
<1>9. /\ attempt'[e][n] = new
      /\ \A f \in Episodes \ {e} : attempt'[f] = tries[f]
  BY <1>2, <1>3, <1>5, <1>7
<1> HIDE DEF n, new
<1>10. tries[e][n].state = "ABSENT"
  <2>1. tries[e][n].state # "ABSENT" <=> n <= rows[e].count
    BY <1>3, <1>4, <1>7 DEF RowsOK, Numbered
  <2> QED
    BY <1>7, <2>1
<1>11. attempt[e][n].state = "ABSENT"
  BY <1>3, <1>4, <1>7, <1>10 DEF Final
<1>12. ASSUME NEW f \in Episodes \ {e}
       PROVE  ~(task'[f].state = "LEASED" /\ attempt'[f] # attempt[f])
  BY <1>4, <1>6, <1>9, FateCases
<1>13. attempt'[e] # attempt[e]
  BY <1>8, <1>9, <1>11
<1> QED
  BY <1>3, <1>6, <1>7, <1>8, <1>9, <1>11, <1>12, <1>13

\* The process takes the attempt granted, which no other can hold.
LEMMA GrantedStep ==
  ASSUME FleetInv, NEW w \in Workers, Granted(w)
  PROVE  FleetInv'
<1>1. PICK lease \in Leases : Claim(w, lease, {"hermetic"})
  BY DEF Granted
<1>2. {"hermetic"} \in Filters
  BY DEF Filters
<1>3. CoordInv' /\ CoordKeeps
  BY <1>1, <1>2, ClaimStep DEF FleetInv
<1>4. call' = [call EXCEPT ![w] = NoCall] /\ call \in [Workers -> Call]
  BY <1>1 DEF Claim, FleetInv, CoordInv, CoordTypeOK
<1>5. call'[w].kind # "heartbeat" /\ \A v \in Workers \ {w} : call'[v] = call[v]
  BY <1>4, NoCallKind
<1>6. CASE worker' = worker
  BY <1>3, <1>5, <1>6, WorkersKept
<1>7. CASE Ends(w)
  BY <1>3, <1>5, <1>7, EndsKept
<1> DEFINE e == CHOOSE f \in Episodes : task'[f].state = "LEASED" /\ attempt'[f] # attempt[f]
           h == [e |-> e, n |-> task'[e].count, fence |-> task'[e].fence]
<1>8. /\ e \in Episodes
      /\ task'[e].count \in Numbers
      /\ attempt[e][task'[e].count].state = "ABSENT"
      /\ attempt'[e][task'[e].count].state = "LEASED"
      /\ attempt'[e][task'[e].count].fence = task'[e].fence
  <2>1. PICK f \in Episodes :
          /\ task'[f].state = "LEASED" /\ attempt'[f] # attempt[f]
          /\ task'[f].count \in Numbers
          /\ attempt[f][task'[f].count].state = "ABSENT"
          /\ attempt'[f][task'[f].count].state = "LEASED"
          /\ attempt'[f][task'[f].count].fence = task'[f].fence
          /\ \A g \in Episodes \ {f} :
               ~(task'[g].state = "LEASED" /\ attempt'[g] # attempt[g])
    BY <1>1, <1>2, ClaimGrants DEF FleetInv
  <2>2. e \in Episodes /\ task'[e].state = "LEASED" /\ attempt'[e] # attempt[e]
    BY <2>1
  <2>3. e = f
    BY <2>1, <2>2
  <2> HIDE DEF e
  <2> QED
    BY <2>1, <2>3
<1> HIDE DEF e
<1>9. h.e = e /\ h.n = task'[e].count /\ h.fence = task'[e].fence
  OBVIOUS
<1>10. h \in [e : Episodes \cup {None}, n : 0..MaxAttempts, fence : Nat]
  <2>1. task'[e].count \in 0..MaxAttempts /\ task'[e].fence \in Nat
    BY <1>3, <1>8 DEF CoordInv, CoordTypeOK, Task
  <2> QED
    BY <1>8, <2>1
<1> HIDE DEF h
<1>11. Granting(attempt', h)
  BY <1>8, <1>9 DEF Granting
<1>12. \A v \in Workers : Executing(worker[v]) => ~SameAttempt(worker[v].held, h)
  BY <1>8, <1>9 DEF FleetInv, HoldsGranted, Granting, SameAttempt
<1>13. ASSUME NEW r, r \in ProcessRecord, r.held = h, r.past = worker[w].past, Orderly(r),
              worker' = [worker EXCEPT ![w] = r]
       PROVE  FleetInv'
  BY <1>3, <1>5, <1>11, <1>12, <1>13, ProcessKept
<1> DEFINE got == [worker[w] EXCEPT !.held = h]
<1>14. /\ got \in ProcessRecord /\ got.held = h /\ got.at = worker[w].at
       /\ got.beat = worker[w].beat /\ got.result = worker[w].result
       /\ got.past = worker[w].past
  BY <1>10 DEF FleetInv, FleetTypeOK, ProcessRecord
<1>15. \/ worker' = worker
       \/ Ends(w)
       \/ worker[w].at = "claiming" /\ Becomes(w, [got EXCEPT !.at = "running"])
       \/ /\ worker[w].at = "claiming"
          /\ \E r \in {"failed", "foreign"} :
               Becomes(w, [got EXCEPT !.at = "reporting", !.result = r])
  BY DEF Granted, e, h
<1> HIDE DEF got
<1>16. worker[w].at = "claiming" => got.result = "none" /\ got.beat = "quiet"
  BY <1>14 DEF FleetInv, RunsOrderly, Orderly
<1>17. CASE worker[w].at = "claiming" /\ Becomes(w, [got EXCEPT !.at = "running"])
  <2> DEFINE r == [got EXCEPT !.at = "running"]
  <2>1. /\ r \in ProcessRecord /\ r.held = h /\ r.past = worker[w].past
        /\ r.at = "running" /\ r.result = got.result
    BY <1>14 DEF ProcessRecord, Live
  <2>2. worker' = [worker EXCEPT ![w] = r]
    BY <1>17 DEF Becomes
  <2> HIDE DEF r
  <2>3. Orderly(r)
    BY <1>16, <1>17, <2>1 DEF Orderly
  <2> QED
    BY <1>13, <2>1, <2>2, <2>3
<1>18. ASSUME NEW x \in {"failed", "foreign"}, worker[w].at = "claiming",
              Becomes(w, [got EXCEPT !.at = "reporting", !.result = x])
       PROVE  FleetInv'
  <2> DEFINE r == [got EXCEPT !.at = "reporting", !.result = x]
  <2>1. /\ r \in ProcessRecord /\ r.held = h /\ r.past = worker[w].past
        /\ r.at = "reporting" /\ r.beat = got.beat
    BY <1>14 DEF ProcessRecord, Live
  <2>2. worker' = [worker EXCEPT ![w] = r]
    BY <1>18 DEF Becomes
  <2> HIDE DEF r
  <2>3. Orderly(r)
    BY <1>16, <1>18, <2>1 DEF Orderly
  <2> QED
    BY <1>13, <2>1, <2>2, <2>3
<1> QED
  BY <1>6, <1>7, <1>15, <1>17, <1>18

-----------------------------------------------------------------------------
(***************************************************************************)
(* The heartbeat goroutine and the run.                                    *)
(***************************************************************************)

\* A process that stays with its claim: the run or its heartbeat moves.
LEMMA StaysKept ==
  ASSUME FleetInv, CoordInv', CoordKeeps, NEW w \in Workers, NEW r \in ProcessRecord,
         worker' = [worker EXCEPT ![w] = r],
         r.held = worker[w].held, r.past = worker[w].past,
         Executing(r) => Executing(worker[w]),
         Orderly(r),
         \A v \in Workers \ {w} : call'[v] = call[v],
         call'[w].kind = "heartbeat" => Beating(r)
  PROVE  FleetInv'
BY ProcessKept

\* A lost heartbeat stops the process and leaves the claim it holds.
LEMMA BeatLostRecord ==
  ASSUME NEW r \in ProcessRecord
  PROVE  /\ BeatLost(r) \in ProcessRecord /\ BeatLost(r).beat = "lost"
         /\ BeatLost(r).at = r.at /\ BeatLost(r).held = r.held
         /\ BeatLost(r).past = r.past /\ BeatLost(r).result = r.result
BY DEF BeatLost, ProcessRecord

\* A process asks for a renewal with the claim it holds.
LEMMA BeatStep ==
  ASSUME FleetInv, NEW w \in Workers, Beat(w)
  PROVE  FleetInv'
<1>1. CoordInv' /\ CoordKeeps
  BY QuietActions DEF Beat, FleetInv
<1>2. call \in [Workers -> Call]
  BY DEF FleetInv, CoordInv, CoordTypeOK
<1>3. PICK now \in Readings : call' = [call EXCEPT ![w] = [kind |-> "heartbeat", now |-> now]]
  BY DEF Beat, ReadClock
<1>4. \A v \in Workers \ {w} : call'[v] = call[v]
  BY <1>2, <1>3
<1> DEFINE r == [worker[w] EXCEPT !.beat = "sent"]
<1>5. worker' = [worker EXCEPT ![w] = r] /\ worker[w].at = "running"
  BY DEF Beat, Becomes
<1>6. /\ r \in ProcessRecord /\ r.held = worker[w].held /\ r.past = worker[w].past
      /\ r.at = worker[w].at /\ r.beat = "sent" /\ r.result = worker[w].result
  BY DEF FleetInv, FleetTypeOK, ProcessRecord
<1>7. r.result = "none"
  BY <1>5, <1>6 DEF FleetInv, RunsOrderly, Orderly
<1> HIDE DEF r
<1>8. Beating(r) /\ Orderly(r) /\ Executing(worker[w])
  BY <1>5, <1>6, <1>7 DEF FleetInv, HoldsGranted, Granting, Beating, Orderly, Executing
<1> QED
  BY <1>1, <1>4, <1>5, <1>6, <1>8, StaysKept

\* An answered renewal moves the lease of the run it names.
LEMMA BeatAnsweredStep ==
  ASSUME FleetInv, NEW w \in Workers, BeatAnswered(w)
  PROVE  FleetInv'
<1> DEFINE h == worker[w].held
<1>1. /\ call[w].kind = "heartbeat" /\ Beating(worker[w])
      /\ worker[w] \in ProcessRecord /\ call \in [Workers -> Call]
  BY DEF BeatAnswered, FleetInv, BeatsNamed, FleetTypeOK, CoordInv, CoordTypeOK
<1>2. h.e \in Episodes /\ h.n \in Numbers
  BY <1>1 DEF Beating
<1>3. CoordInv' /\ CoordKeeps /\ call' = [call EXCEPT ![w] = NoCall]
  <2>1. ASSUME NEW lease \in Leases, Heartbeat(w, h.e, h.n, h.fence, lease)
        PROVE  CoordInv' /\ CoordKeeps /\ call' = [call EXCEPT ![w] = NoCall]
    <3>1. call' = [call EXCEPT ![w] = NoCall]
      BY <2>1 DEF Heartbeat
    <3> HIDE DEF h
    <3>2. CoordInv' /\ CoordKeeps
      BY <1>2, <2>1, HeartbeatStep DEF FleetInv
    <3> QED
      BY <3>1, <3>2
  <2>2. CASE Refused(w)
    BY <2>2, QuietActions DEF FleetInv, Refused
  <2> QED
    BY <2>1, <2>2 DEF BeatAnswered
<1>4. call'[w].kind # "heartbeat" /\ \A v \in Workers \ {w} : call'[v] = call[v]
  BY <1>1, <1>3, NoCallKind
<1>5. CASE worker' = worker
  BY <1>3, <1>4, <1>5, WorkersKept
<1>6. CASE Becomes(w, BeatLost(worker[w]))
  <2> DEFINE r == BeatLost(worker[w])
  <2>1. worker' = [worker EXCEPT ![w] = r]
    BY <1>6 DEF Becomes
  <2>2. /\ r \in ProcessRecord /\ r.beat = "lost" /\ r.at = worker[w].at
        /\ r.held = worker[w].held /\ r.past = worker[w].past /\ r.result = worker[w].result
    BY <1>1, BeatLostRecord
  <2> HIDE DEF r
  <2>3. Orderly(r) /\ (Executing(r) => Executing(worker[w]))
    BY <1>1, <2>2 DEF FleetInv, RunsOrderly, Orderly, Beating, Executing
  <2> QED
    BY <1>3, <1>4, <2>1, <2>2, <2>3, StaysKept
<1>7. ASSUME NEW stop \in BOOLEAN,
             Becomes(w, [worker[w] EXCEPT !.beat = "quiet", !.stop = stop])
      PROVE  FleetInv'
  <2> DEFINE r == [worker[w] EXCEPT !.beat = "quiet", !.stop = stop]
  <2>1. worker' = [worker EXCEPT ![w] = r]
    BY <1>7 DEF Becomes
  <2>2. /\ r \in ProcessRecord /\ r.beat = "quiet" /\ r.at = worker[w].at
        /\ r.held = worker[w].held /\ r.past = worker[w].past /\ r.result = worker[w].result
    BY <1>1 DEF ProcessRecord
  <2> HIDE DEF r
  <2>3. Orderly(r) /\ (Executing(r) => Executing(worker[w]))
    BY <2>2 DEF FleetInv, RunsOrderly, Orderly, Executing
  <2> QED
    BY <1>3, <1>4, <2>1, <2>2, <2>3, StaysKept
<1>8. (worker[w].stop \/ task[h.e].cancel) \in BOOLEAN
  OBVIOUS
<1> QED
  BY <1>5, <1>6, <1>7, <1>8 DEF BeatAnswered

\* A heartbeat that is lost or refused stops the process.
LEMMA BeatGoneStep ==
  ASSUME FleetInv, NEW w \in Workers, BeatGone(w)
  PROVE  FleetInv'
<1>1. CoordInv' /\ CoordKeeps /\ call' = call
  BY CoordinatorIdle DEF BeatGone
<1> DEFINE r == BeatLost(worker[w])
<1>2. worker' = [worker EXCEPT ![w] = r]
  BY DEF BeatGone, Becomes
<1>3. /\ r \in ProcessRecord /\ r.beat = "lost" /\ r.at = worker[w].at
      /\ r.held = worker[w].held /\ r.past = worker[w].past /\ r.result = worker[w].result
  BY BeatLostRecord DEF FleetInv, FleetTypeOK
<1> HIDE DEF r
<1>4. Orderly(r) /\ (Executing(r) => Executing(worker[w]))
  BY <1>3 DEF BeatGone, FleetInv, RunsOrderly, Orderly, Executing
<1>5. call[w].kind = "heartbeat" => Beating(r)
  BY <1>3 DEF FleetInv, BeatsNamed, Beating, Executing
<1> QED
  BY <1>1, <1>2, <1>3, <1>4, <1>5, StaysKept

\* A run ends with Evidence or with a failure.
LEMMA RunEndsStep ==
  ASSUME FleetInv, NEW w \in Workers, RunEnds(w)
  PROVE  FleetInv'
<1>1. CoordInv' /\ CoordKeeps /\ call' = call
  BY CoordinatorIdle DEF RunEnds
<1>2. PICK x \in Evidence \cup {"failed"} :
        worker' = [worker EXCEPT ![w] = [worker[w] EXCEPT !.at = "reporting", !.result = x]]
  BY DEF RunEnds, Becomes
<1> DEFINE r == [worker[w] EXCEPT !.at = "reporting", !.result = x]
<1>3. /\ r \in ProcessRecord /\ r.beat = worker[w].beat /\ r.at = "reporting"
      /\ r.held = worker[w].held /\ r.past = worker[w].past /\ r.result = x
  BY DEF FleetInv, FleetTypeOK, ProcessRecord, Live
<1>4. worker' = [worker EXCEPT ![w] = r]
  BY <1>2
<1> HIDE DEF r
<1>5. x # "foreign" /\ worker[w].at = "running"
  BY WorkerAssumption DEF RunEnds
<1>6. Orderly(r) /\ Executing(worker[w])
  BY <1>3, <1>5 DEF Orderly, Executing
<1>7. call[w].kind = "heartbeat" => Beating(r)
  BY <1>3, <1>5 DEF FleetInv, BeatsNamed, Beating, Executing
<1> QED
  BY <1>1, <1>3, <1>4, <1>6, <1>7, StaysKept

-----------------------------------------------------------------------------
(***************************************************************************)
(* Reports, signals and deaths.                                            *)
(***************************************************************************)

\* What is accepted ended its attempt.
LEMMA ReportEvidenceStep ==
  ASSUME FleetInv, NEW w \in Workers, ReportEvidence(w)
  PROVE  FleetInv'
<1> DEFINE h == worker[w].held
           d == worker[w].result
<1>1. /\ worker[w].at = "reporting" /\ d \in Evidence /\ worker[w].beat = "quiet"
      /\ CompleteClaim(h.e, h.n, h.fence, d)
  BY DEF ReportEvidence, MayReport
<1>2. Executing(worker[w]) /\ h.e \in Episodes /\ h.n \in Numbers
  BY <1>1 DEF FleetInv, HoldsGranted, Granting, Executing
<1>3. CoordInv' /\ CoordKeeps
  <2> HIDE DEF h, d
  <2> QED
    BY <1>1, <1>2, CompleteClaimStep DEF FleetInv
<1>4. call' = call /\ call[w].kind # "heartbeat"
  BY <1>1 DEF CompleteClaim, FleetInv, BeatsNamed, Beating
<1>5. Over(attempt', h)
  <2>1. PICK now \in Readings :
          attempt' = [attempt EXCEPT ![h.e][h.n].state = "COMPLETED",
                        ![h.e][h.n].commit = "COMMITTED",
                        ![h.e][h.n].timely = Timely(attempt[h.e][h.n], now)]
    BY <1>1, Zenon DEF CompleteClaim
  <2>2. attempt \in [Episodes -> [Numbers -> Attempt]]
    BY DEF FleetInv, CoordInv, CoordTypeOK
  <2> HIDE DEF h
  <2>5. attempt[h.e] \in [Numbers -> Attempt] /\ h.e \in DOMAIN attempt
    BY <1>2, <2>2
  <2>6. h.n \in DOMAIN attempt[h.e] /\ "state" \in DOMAIN attempt[h.e][h.n]
    BY <1>2, <2>5 DEF Attempt
  <2>3. attempt'[h.e][h.n].state = "COMPLETED"
    BY <2>1, <2>5, <2>6
  <2> QED
    BY <2>3 DEF Over
<1>6. CASE MovesOn(w)
  BY <1>2, <1>3, <1>4, <1>5, <1>6, MovesOnKept
<1>7. CASE Ends(w)
  BY <1>3, <1>4, <1>7, EndsKept
<1> QED
  BY <1>6, <1>7 DEF ReportEvidence

\* A claim handed back ended its attempt as well.
LEMMA ReportFailureStep ==
  ASSUME FleetInv, NEW w \in Workers, ReportFailure(w)
  PROVE  FleetInv'
<1> DEFINE h == worker[w].held
<1>1. worker[w].at = "reporting" /\ FailClaim(h.e, h.n, h.fence, "NO_EFFECT")
  BY DEF ReportFailure, MayReport
<1>2. Executing(worker[w]) /\ h.e \in Episodes /\ h.n \in Numbers
  BY <1>1 DEF FleetInv, HoldsGranted, Granting, Executing
<1>3. CoordInv' /\ CoordKeeps
  <2> HIDE DEF h
  <2> QED
    BY <1>1, <1>2, FailClaimStep DEF FleetInv
<1>4. call' = call
  BY <1>1 DEF FailClaim
<1>5. Over(attempt', h)
  <2> DEFINE x == ReportedFate(h.e, "NO_EFFECT")[1]
  <2>1. PICK now \in Readings :
          attempt' = [attempt EXCEPT ![h.e][h.n].state = x,
                        ![h.e][h.n].commit = "NO_EFFECT",
                        ![h.e][h.n].timely = Timely(attempt[h.e][h.n], now)]
    BY <1>1, Zenon DEF FailClaim
  <2>2. attempt \in [Episodes -> [Numbers -> Attempt]]
    BY DEF FleetInv, CoordInv, CoordTypeOK
  <2>3. x \in {"FAILED", "CANCELLED"}
    BY DEF ReportedFate
  <2> HIDE DEF h, x
  <2>5. attempt[h.e] \in [Numbers -> Attempt] /\ h.e \in DOMAIN attempt
    BY <1>2, <2>2
  <2>6. h.n \in DOMAIN attempt[h.e] /\ "state" \in DOMAIN attempt[h.e][h.n]
    BY <1>2, <2>5 DEF Attempt
  <2>4. attempt'[h.e][h.n].state = x
    BY <2>1, <2>5, <2>6
  <2> QED
    BY <2>3, <2>4 DEF Over
<1>6. CASE worker[w].result = "foreign" /\ MovesOn(w)
  <2>1. call'[w].kind # "heartbeat"
    BY <1>1, <1>4, <1>6 DEF FleetInv, BeatsNamed, Beating
  <2> QED
    BY <1>2, <1>3, <1>4, <1>5, <1>6, <2>1, MovesOnKept
<1>7. CASE Ends(w)
  BY <1>3, <1>4, <1>7, EndsKept
<1> QED
  BY <1>6, <1>7 DEF ReportFailure

\* A result that is not reported, or the loss of the process, ends its claim.
LEMMA EndStep ==
  ASSUME FleetInv, NEW w \in Workers, NotReported(w) \/ Dies(w)
  PROVE  FleetInv'
<1>1. CoordInv' /\ CoordKeeps /\ call' = call
  BY CoordinatorIdle DEF NotReported, Dies
<1> QED
  BY <1>1, EndsKept DEF NotReported, Dies

\* A signal ends an idle process, and stops a running one.
LEMMA SignalStep ==
  ASSUME FleetInv, NEW w \in Workers, Signal(w)
  PROVE  FleetInv'
<1>1. CoordInv' /\ CoordKeeps /\ call' = call
  BY CoordinatorIdle DEF Signal
<1>2. CASE Ends(w)
  BY <1>1, <1>2, EndsKept
<1>3. CASE Becomes(w, [worker[w] EXCEPT !.signal = TRUE, !.stop = TRUE])
  <2> DEFINE r == [worker[w] EXCEPT !.signal = TRUE, !.stop = TRUE]
  <2>1. worker' = [worker EXCEPT ![w] = r]
    BY <1>3 DEF Becomes
  <2>4. worker[w] \in ProcessRecord
    BY DEF FleetInv, FleetTypeOK
  <2>2. /\ r \in ProcessRecord /\ r.beat = worker[w].beat /\ r.at = worker[w].at
        /\ r.held = worker[w].held /\ r.past = worker[w].past /\ r.result = worker[w].result
    BY <2>4 DEF ProcessRecord
  <2> HIDE DEF r
  <2>3. /\ Orderly(r) /\ (Executing(r) => Executing(worker[w]))
        /\ call[w].kind = "heartbeat" => Beating(r)
    BY <2>2 DEF FleetInv, RunsOrderly, BeatsNamed, Orderly, Beating, Executing
  <2> QED
    BY <1>1, <2>1, <2>2, <2>3, StaysKept
<1> QED
  BY <1>2, <1>3 DEF Signal

\* Every process that waits for a reply meets the restart by itself.
LEMMA RestartStep ==
  ASSUME FleetInv, CoordinatorRestarts
  PROVE  FleetInv'
<1> DEFINE became(w) ==
         IF worker[w].at = "claiming" THEN [Fresh EXCEPT !.at = "ended"]
         ELSE IF worker[w].beat = "sent" THEN BeatLost(worker[w]) ELSE worker[w]
<1>1. CoordInv' /\ CoordKeeps
  BY QuietActions DEF CoordinatorRestarts, FleetInv
<1>2. \A w \in Workers : call'[w].kind # "heartbeat"
  BY NoCallKind DEF CoordinatorRestarts, Restart
<1>3. worker' = [w \in Workers |-> became(w)]
  BY DEF CoordinatorRestarts
<1>4. ASSUME NEW w \in Workers
      PROVE  /\ became(w) \in ProcessRecord
             /\ Executing(became(w)) => Executing(worker[w]) /\ became(w).held = worker[w].held
             /\ Orderly(became(w))
             /\ \A a \in became(w).past : a \in worker[w].past
  <2>1. worker[w] \in ProcessRecord /\ Orderly(worker[w])
    BY DEF FleetInv, FleetTypeOK, RunsOrderly
  <2>2. CASE worker[w].at = "claiming"
    <3> DEFINE r == [Fresh EXCEPT !.at = "ended"]
    <3>1. r \in ProcessRecord /\ r.at = "ended" /\ r.past = {}
      BY FreshRecord DEF ProcessRecord
    <3>2. became(w) = r
      BY <2>2
    <3> HIDE DEF r, became
    <3> QED
      BY <3>1, <3>2 DEF Executing, Orderly
  <2>3. CASE worker[w].at # "claiming" /\ worker[w].beat = "sent"
    <3>1. became(w) = BeatLost(worker[w])
      BY <2>3
    <3> HIDE DEF became
    <3> QED
      BY <2>1, <2>3, <3>1, BeatLostRecord DEF Executing, Orderly
  <2>4. CASE worker[w].at # "claiming" /\ worker[w].beat # "sent"
    BY <2>1, <2>4
  <2> QED
    BY <2>2, <2>3, <2>4
<1> HIDE DEF became
<1>5. worker' \in [Workers -> ProcessRecord] /\ \A w \in Workers : worker'[w] = became(w)
  BY <1>3, <1>4
<1> QED
  BY <1>1, <1>2, <1>4, <1>5, FleetKept

\* What users ask of the coordinator leaves every process as it is.
LEMMA UsersStep ==
  ASSUME FleetInv, Users
  PROVE  FleetInv'
<1>1. CoordInv' /\ CoordKeeps
  BY CancelTaskStep, RecoverStep, QuietActions DEF Users, FleetInv
<1>2. call' = call /\ worker' = worker
  BY DEF Users, CancelTask, RecoverExpired, Tick
<1> QED
  BY <1>1, <1>2, WorkersKept

-----------------------------------------------------------------------------
(***************************************************************************)
(* The invariant holds at first and is inductive.                          *)
(***************************************************************************)
LEMMA FleetStart == FleetInit => FleetInv
<1> SUFFICES ASSUME FleetInit PROVE FleetInv
  OBVIOUS
<1> USE JournalAssumption, LiteralTypes, CallTypes, NumberFacts
<1> DEFINE Queued == [NoTask EXCEPT !.state = "QUEUED", !.max = MaxAttempts]
<1>1. PICK q \in Requests : episode = [e \in Episodes |-> NewRow(q, 0)]
  BY DEF FleetInit
<1>2. /\ events = [e \in Episodes |-> [i \in Sequences0 |-> IF i = 0 THEN Created ELSE NoEvent]]
      /\ run = [r \in Runners |-> Idle] /\ answered = [e \in Episodes |-> {}]
      /\ clock = 0
      /\ task = [e \in Episodes |-> Queued]
      /\ attempt = [e \in Episodes |-> [n \in Numbers |-> NoAttempt]]
      /\ call = [w \in Workers |-> NoCall]
      /\ submit = [s \in Submitters |-> NoSubmit]
      /\ worker = [w \in Workers |-> Fresh]
  BY DEF FleetInit
<1>3. \A e \in Episodes : /\ episode[e].status = "CREATED" /\ episode[e].sequence = 0
                         /\ episode[e].evidence = None /\ episode[e].request = q
                         /\ events[e][0] = Created
                         /\ \A i \in 1..5 : events[e][i] = NoEvent
  BY <1>1, <1>2, NewRowColumns
<1>4. RowsTyped
  <2>1. episode \in [Episodes -> Row]
    BY <1>1, NewRowColumns
  <2>2. events \in [Episodes -> [Sequences0 -> Events]]
    BY <1>2
  <2>3. run \in [Runners -> Run]
    BY <1>2 DEF Idle, Run, Statuses, Progress
  <2> QED
    BY <1>2, <2>1, <2>2, <2>3 DEF RowsTyped
<1>5. RunsOK
  BY <1>2 DEF RunsOK, RunnerMirrorsJournal, RunsAtDepth, RunsExclusive, FinishedHasEvidence, Idle
<1>6. RecordsOK
  <2> SUFFICES ASSUME NEW e \in Episodes PROVE RecordOK(e)
    BY RecordByRecord
  <2>1. EvidenceAdmitted(e)
    BY <1>3 DEF EvidenceAdmitted
  <2>2. LifecycleAdmitted(e)
    <3>1. Created.to = "CREATED"
      BY DEF Created, Event
    <3>2. \A i \in 0..5 : events[e][i] # NoEvent <=> i <= 0
      BY <1>3
    <3> QED
      BY <1>3, <3>1, <3>2 DEF LifecycleAdmitted
  <2>3. Step(0) = Created
    BY DEF Step, VerdictLifecycle
  <2> QED
    BY <1>3, <2>1, <2>2, <2>3 DEF RecordOK, Exists, Depth, Progress
<1>7. AnswersAgree
  BY <1>2, <1>3 DEF AnswersAgree
<1>8. NoTask \in Task /\ NoAttempt \in Attempt
  BY DEF NoTask, Task, TaskStates, Profiles, NoAttempt, Attempt, AttemptStates, CommitStates
<1>9. /\ Queued \in Task /\ Queued.state = "QUEUED" /\ Queued.max = MaxAttempts
      /\ Queued.count = 0 /\ Queued.fence = 0 /\ Queued.active = 0 /\ Queued.final = 0
      /\ Queued.digest = None
  <2>1. MaxAttempts \in Numbers
    OBVIOUS
  <2>2. /\ NoTask.count = 0 /\ NoTask.fence = 0 /\ NoTask.active = 0
        /\ NoTask.final = 0 /\ NoTask.digest = None
    BY DEF NoTask
  <2> QED
    BY <1>8, <2>1, <2>2 DEF Task, TaskStates
<1> HIDE DEF Queued
<1>10. CoordTypeOK /\ CallsPast
  BY <1>2, <1>8, <1>9 DEF CoordTypeOK, CallsPast, NoCall
<1>11. TasksOK
  <2> SUFFICES ASSUME NEW e \in Episodes PROVE RowsOK(task[e], attempt[e], clock)
    BY DEF TasksOK
  <2>1. task[e] = Queued /\ attempt[e] = [n \in Numbers |-> NoAttempt]
    BY <1>2
  <2>2. attempt[e] \in [Numbers -> Attempt] /\ \A n \in Numbers : attempt[e][n] = NoAttempt
    BY <1>8, <2>1
  <2>3. NoAttempt.state = "ABSENT" /\ NoAttempt.commit = "NOT_STARTED"
    BY DEF NoAttempt
  <2> QED
    BY <1>9, <2>1, <2>2, <2>3 DEF RowsOK, Unstarted, Numbered, Held, Closed, Tried, Past
<1>12. ParentsOK
  BY <1>2, <1>3, <1>9 DEF ParentsOK, Parent, Holds, Unshared, Reservations, NoSubmit, Idle
<1>13. CoordInv
  BY <1>4, <1>5, <1>6, <1>7, <1>10, <1>11, <1>12 DEF CoordInv, JournalInv
<1>14. \A w \in Workers : worker[w] = Fresh /\ ~Executing(worker[w]) /\ Orderly(worker[w])
  BY <1>2, FreshRecord DEF Executing, Orderly
<1>15. FleetTypeOK /\ BeatsNamed
  BY <1>2, <1>14, FreshRecord, NoCallKind DEF FleetTypeOK, BeatsNamed
<1> QED
  BY <1>13, <1>14, <1>15, FreshRecord
     DEF FleetInv, HoldsGranted, HoldsApart, PastOver, RunsOrderly

\* Every step of the coordinator and of its workers keeps the invariant.
LEMMA FleetInvInductive == FleetInv /\ [FleetNext]_workerVars => FleetInv'
<1>1. ASSUME FleetInv, NEW w \in Workers, Process(w) PROVE FleetInv'
  BY <1>1, StartStep, SendClaimStep, GrantedStep, NotGrantedStep, BeatStep, BeatAnsweredStep,
     BeatGoneStep, RunEndsStep, ReportEvidenceStep, ReportFailureStep, EndStep, SignalStep
     DEF Process
<1>2. ASSUME FleetInv, UNCHANGED workerVars PROVE FleetInv'
  <2>1. UNCHANGED vars /\ worker' = worker
    BY <1>2 DEF workerVars
  <2> QED
    BY <1>2, <2>1, CoordinatorIdle, WorkersKept
<1> QED
  BY <1>1, <1>2, RestartStep, UsersStep DEF FleetNext

-----------------------------------------------------------------------------
(***************************************************************************)
(* The theorems.                                                           *)
(***************************************************************************)

\* In every reachable state of coordinator and workers the invariant above
\* holds: a process executes a granted attempt that no other executes, and a
\* heartbeat in flight names the attempt of the process that sent it.
THEOREM FleetInvariant == FleetSpec => []FleetInv
<1> QED
  BY FleetStart, FleetInvInductive, PTL DEF FleetSpec

\* Whatever ClaimProfile, recovery, lost replies, kills and restarts bring about,
\* executeHermeticClaim never runs twice for one attempt, and reports under the
\* fence the attempt was granted with.
THEOREM NoAttemptRunsTwice == FleetSpec => []OneProcessPerAttempt
<1>1. FleetInv => OneProcessPerAttempt
  BY DEF FleetInv, HoldsGranted, HoldsApart, Granting, SameAttempt, Executing, Holding,
         OneProcessPerAttempt
<1> QED
  BY <1>1, FleetInvariant, PTL

\* runEpisodeWorker loops on, or exits without an error, only past attempts that
\* CompleteClaim or FailClaim ended in the journal.
THEOREM GoesOnWhenOver == FleetSpec => []MovesOnWhenOver
<1>1. FleetInv => MovesOnWhenOver
  BY DEF FleetInv, PastOver, Over, MovesOnWhenOver
<1> QED
  BY <1>1, FleetInvariant, PTL

\* An attempt that executeHermeticClaim runs is run by nobody else, and
\* runEpisodeWorker leaves none behind before it is over.
THEOREM ClaimsAreKept == FleetSpec => []WorkersKeepTheirClaims
<1>1. OneProcessPerAttempt /\ MovesOnWhenOver => WorkersKeepTheirClaims
  BY DEF WorkersKeepTheirClaims
<1> QED
  BY <1>1, NoAttemptRunsTwice, GoesOnWhenOver, PTL

=============================================================================
