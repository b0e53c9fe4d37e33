-------------------------- MODULE EpisodeLifecycle --------------------------
(***************************************************************************)
(* The lifecycle state machine every Episode record follows, whoever       *)
(* writes it: the local runner (EpisodeJournal) or the remote coordinator  *)
(* (EpisodeCoordinator).  Pure operators, no state.                        *)
(***************************************************************************)
EXTENDS Integers

Terminal == {"SUCCEEDED", "ASSERTION_FAILED", "RUNTIME_ERROR", "CANCELLED"}
Progress == {"CREATED", "PROVISIONING", "READY", "RUNNING", "EVALUATING"}
Statuses == Progress \cup Terminal

\* The edges allowedTransition accepts.
AllowedEdges ==
  {<<"CREATED", "PROVISIONING">>, <<"CREATED", "CANCELLED">>,
   <<"PROVISIONING", "READY">>, <<"PROVISIONING", "RUNTIME_ERROR">>,
   <<"PROVISIONING", "CANCELLED">>,
   <<"READY", "RUNNING">>, <<"READY", "CANCELLED">>,
   <<"RUNNING", "EVALUATING">>, <<"RUNNING", "RUNTIME_ERROR">>,
   <<"RUNNING", "CANCELLED">>,
   <<"EVALUATING", "SUCCEEDED">>, <<"EVALUATING", "ASSERTION_FAILED">>,
   <<"EVALUATING", "RUNTIME_ERROR">>}

Allowed(current, next) == <<current, next>> \in AllowedEdges

IsTerminal(status) == status \in Terminal

\* The next status of a run that meets no error, before it has a verdict.
Successor == [CREATED |-> "PROVISIONING", PROVISIONING |-> "READY",
              READY |-> "RUNNING", RUNNING |-> "EVALUATING"]

\* Sequence numbers: CREATED is event 0, the longest lifecycle has six events.
LastSequence == 5
Sequences0 == 0..LastSequence

\* A row of episode_events; creation has an empty from_status.
Event(from, to) == [from |-> from, to |-> to]
NoEvent == Event("", "")
Created == Event("", "CREATED")
Events == [from : Statuses \cup {""}, to : Statuses \cup {""}]

\* The lifecycle of a run that reached a verdict, as Evidence records it.
VerdictLifecycle(verdict) ==
  [i \in Sequences0 |->
     CASE i = 0 -> Created
       [] i = 1 -> Event("CREATED", "PROVISIONING")
       [] i = 2 -> Event("PROVISIONING", "READY")
       [] i = 3 -> Event("READY", "RUNNING")
       [] i = 4 -> Event("RUNNING", "EVALUATING")
       [] i = 5 -> Event("EVALUATING", verdict)]
=============================================================================
