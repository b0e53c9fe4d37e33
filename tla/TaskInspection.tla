--------------------------- MODULE TaskInspection ---------------------------
(***************************************************************************)
(* GetTask, the reader behind inspect, submit, fail and cancel.  It is not *)
(* a transaction: the task row, the Episode row, its events and the        *)
(* attempts are four queries on the pool, and other calls may commit       *)
(* between them.  validateTaskRecord then judges what the four returned.   *)
(***************************************************************************)
EXTENDS EpisodeCoordinator

CONSTANT Readers

VARIABLE view    \* what each GetTask call has read so far, and its outcome

inspectionVars == <<vars, view>>

NoView == [step |-> "idle", on |-> None, task |-> NoTask, episode |-> NoRow,
           attempts |-> [n \in Numbers |-> NoAttempt]]

InspectionInit == Init /\ view = [i \in Readers |-> NoView]

Reads(i, from) == Connected /\ view[i].step = from /\ UNCHANGED vars

\* An error is returned, or an answer is over: nothing of it is kept.
GivenUp(i) == [view EXCEPT ![i] = NoView]

ReadTask(i, e) ==
  /\ Reads(i, "idle")
  /\ task[e].state # "ABSENT"
  /\ view' = [view EXCEPT ![i].step = "task", ![i].on = e, ![i].task = task[e]]

\* Journal.Get, scanRecord: one query, refused for its timestamps alone.
ReadEpisode(i) ==
  LET row == episode[view[i].on]
  IN /\ Reads(i, "task")
     /\ view' = IF row.timely
                THEN [view EXCEPT ![i].step = "episode", ![i].episode = row]
                ELSE GivenUp(i)

\* loadEvents: the events must end in the status and number the row names, and
\* equal the lifecycle of its Evidence.
ReadEvents(i) ==
  LET row == view[i].episode
      log == events[view[i].on]
  IN /\ Reads(i, "episode")
     /\ view' = IF /\ \A j \in Sequences0 : log[j] # NoEvent <=> j <= row.sequence
                   /\ log[row.sequence].to = row.status
                   /\ row.evidence # None => log = VerdictLifecycle(row.status)
                THEN [view EXCEPT ![i].step = "events"] ELSE GivenUp(i)

\* Fault: the active attempt is not compared with its task.
JudgedLoosely(t, row, rows) ==
  /\ \A n \in Numbers : rows[n].state # "ABSENT" <=> n <= t.count
  /\ t.state = "COMPLETED" => row.evidence = t.digest

\* validateTaskRecord on the rows read.
Judged(t, row, rows) ==
  LET last == rows[t.count]
  IN /\ t.timely
     /\ \A n \in Numbers : rows[n].state # "ABSENT" <=> n <= t.count
     /\ \A n \in Numbers : /\ rows[n].fence <= t.fence
                           /\ rows[n].state # "ABSENT" =>
                                rows[n].timely /\ t.created <= rows[n].created
     /\ t.state = "LEASED" => /\ t.active = t.count
                              /\ last.state = "LEASED"
                              /\ last.fence = t.fence
     /\ t.state = "COMPLETED" => /\ row.evidence = t.digest
                                 /\ last.state = "COMPLETED"

ReadAttempts(i) ==
  LET rows == attempt[view[i].on]
  IN /\ Reads(i, "events")
     /\ view' = IF Judged(view[i].task, view[i].episode, rows)
                THEN [view EXCEPT ![i].attempts = rows, ![i].step = "accepted"]
                ELSE GivenUp(i)

\* The answer reaches the caller, who may ask again.
Answered(i) ==
  /\ view[i].step = "accepted"
  /\ view' = GivenUp(i)
  /\ UNCHANGED vars

InspectionNext ==
  \/ Next /\ UNCHANGED view
  \/ \E i \in Readers :
       \/ \E e \in Episodes : ReadTask(i, e)
       \/ ReadEpisode(i) \/ ReadEvents(i) \/ ReadAttempts(i) \/ Answered(i)

InspectionSpec == InspectionInit /\ [][InspectionNext]_inspectionVars

-----------------------------------------------------------------------------
\* Torn or not, an accepted answer tells a story the Journal still stands by: one
\* that shows Evidence shows the task as COMPLETED by its last attempt, and both
\* are what the Journal holds; one whose task is LEASED shows the attempt of that
\* lease as not yet reported or expired, and its Episode as not yet begun.
AcceptedViewHolds ==
  \A i \in Readers : view[i].step = "accepted" =>
    /\ view[i].episode.evidence # None =>
         /\ view[i].task.state = "COMPLETED"
         /\ view[i].task = task[view[i].on]
         /\ view[i].attempts = attempt[view[i].on]
    /\ view[i].task.state = "LEASED" =>
         /\ view[i].attempts[view[i].task.active].state = "LEASED"
         /\ view[i].episode.status = "CREATED"
=============================================================================
