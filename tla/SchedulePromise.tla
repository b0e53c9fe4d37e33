--------------------------- MODULE SchedulePromise ---------------------------
(***************************************************************************)
(* What the branch-local scheduler promises (SPEC-0007: advancing the      *)
(* clock and executing what is due is atomic): each branch has a timetable *)
(* and a log of calls, and a step executes, at once, the longest prefix of *)
(* the earliest pending instant that the two step budgets allow, every     *)
(* action of it exactly once and in its turn.  No transaction, working     *)
(* copy, callback, rollback or restart: those are how it keeps the promise.*)
(***************************************************************************)
EXTENDS Integers, Sequences, FiniteSets

CONSTANTS
  Branches,
  EventIds,
  Actions,                \* the event IDs that stand for a tool call
  Priorities,
  Instants,               \* the instants explored
  None,
  MaxScheduledDelivery,   \* events of a step
  MaxScheduledActions     \* actions of a step

VARIABLES
  table,   \* the timetable of each branch
  calls,   \* who made its calls, in order: an action, or None for a client
  saved    \* the timetables a branch may be given

promiseVars == <<table, calls, saved>>

\* used: the IDs that were ever scheduled; pending: those still to come.
Blank == [clock |-> 0, next |-> 0, used |-> {}, pending |-> [x \in {} |-> x]]

Init ==
  /\ table = [b \in Branches |-> Blank]
  /\ calls = [b \in Branches |-> <<>>]
  /\ saved = {Blank}

\* By instant, then by priority, then by creation.
Precedes(t, x, y) ==
  LET p == t.pending[x]
      q == t.pending[y]
  IN \/ p.due < q.due
     \/ p.due = q.due /\ p.priority > q.priority
     \/ p.due = q.due /\ p.priority = q.priority /\ p.seq < q.seq

\* The timetable t with one more event.
With(t, x, due, priority) ==
  [clock |-> t.clock,
   next |-> t.next + 1,
   used |-> t.used \cup {x},
   pending |-> [y \in DOMAIN t.pending \cup {x} |->
      IF y = x THEN [due |-> due, priority |-> priority, seq |-> t.next + 1]
      ELSE t.pending[y]]]

\* The timetable t at an instant, without the events of S.
Past(t, instant, S) ==
  [clock |-> instant,
   next |-> t.next,
   used |-> t.used,
   pending |-> [x \in DOMAIN t.pending \ S |-> t.pending[x]]]

-----------------------------------------------------------------------------
\* An event is scheduled for an instant to come, under an ID never used.
Schedule(b, x, due, priority) ==
  /\ x \notin table[b].used
  /\ due > table[b].clock
  /\ table' = [table EXCEPT ![b] = With(table[b], x, due, priority)]
  /\ UNCHANGED <<calls, saved>>

Cancel(b, x) ==
  /\ x \in DOMAIN table[b].pending
  /\ table' = [table EXCEPT ![b] = Past(table[b], table[b].clock, {x})]
  /\ UNCHANGED <<calls, saved>>

\* The clock moves on; what is due is delivered, and no action may be among it.
Advance(b, target) ==
  LET t == table[b]
      due == {x \in DOMAIN t.pending : t.pending[x].due <= target}
  IN /\ target > t.clock
     /\ due \cap Actions = {}
     /\ table' = [table EXCEPT ![b] = Past(t, target, due)]
     /\ UNCHANGED <<calls, saved>>

\* A client calls a tool.
Call(b) ==
  /\ calls' = [calls EXCEPT ![b] = Append(@, None)]
  /\ UNCHANGED <<table, saved>>

\* A step may execute S: one instant, nothing pending comes before it, and it is
\* within the budgets.
Allowed(t, S) ==
  /\ S \subseteq DOMAIN t.pending
  /\ \A x, y \in S : t.pending[x].due = t.pending[y].due
  /\ \A x \in S, y \in DOMAIN t.pending \ S : Precedes(t, x, y)
  /\ Cardinality(S) <= MaxScheduledDelivery
  /\ Cardinality(S \cap Actions) <= MaxScheduledActions

\* The longest one.
Selected(t, S) ==
  /\ Allowed(t, S)
  /\ \A T \in SUBSET DOMAIN t.pending : Allowed(t, T) => T \subseteq S

\* Rows are the actions of S, each of them once and in its turn.
InTurn(t, S, rows) ==
  /\ \A x \in S \cap Actions : \E i \in DOMAIN rows : rows[i] = x
  /\ \A i, j \in DOMAIN rows : i < j => Precedes(t, rows[i], rows[j])

Step(b, S) ==
  LET t == table[b]
  IN /\ Selected(t, S)
     /\ \E x \in S : table' = [table EXCEPT ![b] = Past(t, t.pending[x].due, S)]
     /\ \E rows \in [1..Cardinality(S \cap Actions) -> S \cap Actions] :
          /\ InTurn(t, S, rows)
          /\ calls' = [calls EXCEPT ![b] = @ \o rows]
     /\ UNCHANGED saved

\* A timetable is saved, and a branch is given one: it starts a new log.
Save(b) == saved' = saved \cup {table[b]} /\ UNCHANGED <<table, calls>>

Load(b, t) ==
  /\ table' = [table EXCEPT ![b] = t]
  /\ calls' = [calls EXCEPT ![b] = <<>>]
  /\ UNCHANGED saved

\* What the scheduler does without anybody seeing it: a step begins, goes on, or is
\* rolled back, a client reads.  (TLC tries it first.)
Unseen == UNCHANGED promiseVars

Next ==
  \/ Unseen
  \/ \E b \in Branches :
       \/ \E x \in EventIds, due \in Instants, priority \in Priorities : Schedule(b, x, due, priority)
       \/ \E x \in EventIds : Cancel(b, x)
       \/ \E target \in Instants : Advance(b, target)
       \/ Call(b)
       \/ \E S \in SUBSET DOMAIN table[b].pending : Step(b, S)
       \/ Save(b)
       \/ \E t \in saved : Load(b, t)

Spec == Init /\ [][Next]_promiseVars
=============================================================================
