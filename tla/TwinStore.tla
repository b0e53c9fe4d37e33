------------------------------ MODULE TwinStore ------------------------------
(***************************************************************************)
(* The Twin store: branches, snapshots, fault plans, tool audit and the    *)
(* branch-local scheduler, in one SQLite database behind one connection.   *)
(*                                                                         *)
(* Every operation is one transaction, hence one action, except the        *)
(* scheduler step of advanceClockToNext: it runs the callback of each      *)
(* selected action inside its transaction, so it is a sequence of actions  *)
(* on the working copy tx, closed by a commit or a rollback; the single    *)
(* connection keeps every other operation out meanwhile.                   *)
(***************************************************************************)
EXTENDS Integers, Sequences, FiniteSets

CONSTANTS
  Branches,               \* branch IDs
  Names,                  \* snapshot names
  EventIds,               \* scheduled event IDs
  Actions,                \* the event IDs used for kind tool-call
  Tools,                  \* modeled tools
  FaultIds,               \* fault plan IDs, numbered in their order
  Specs,                  \* TwinSpec digests
  Clients,                \* control-plane callers
  Priorities,             \* event priorities
  None,                   \* absence of a value
  MaxForks, MaxSnapshots, MaxFaultPlans, MaxFaultRepeats,
  MaxScheduledEvents, MaxScheduledAtInstant,
  MaxScheduledDelivery, MaxScheduledActions, MaxClockAdvance,
  MaxClock, MaxHead       \* bounds of the model, not of the code: the latest
                          \* instant, and the changes of each branch

\* The phases a fault plan may fire in.
Phases == {"before-validation", "after-commit-before-response"}

ASSUME StoreAssumption ==
  /\ Actions \subseteq EventIds
  /\ FaultIds \subseteq Nat \ {0} /\ Priorities \subseteq Int
  /\ None \notin Branches \cup Names \cup EventIds \cup Specs \cup Phases
  /\ {MaxForks, MaxSnapshots, MaxFaultPlans, MaxFaultRepeats, MaxScheduledEvents,
      MaxScheduledAtInstant, MaxScheduledDelivery, MaxScheduledActions,
      MaxClockAdvance, MaxClock} \subseteq Nat \ {0}
  /\ MaxHead \in [Branches -> Nat]

VARIABLES
  branch,     \* table branches
  snapshot,   \* table snapshots
  plans,      \* table fault_plans, by branch and ID
  audit,      \* table audit, by branch, in insertion order
  fired,      \* table fault_events, by branch, in insertion order
  runtime,    \* the TwinSpec the running server has loaded
  tx,         \* the scheduler step in progress
  view,       \* what each control client last read of a branch
  origin      \* history: the modeled world a branch started from last

rowVars == <<branch, plans, audit, fired>>
storeVars == <<branch, snapshot, plans, audit, fired, runtime, tx, view, origin>>

Pending == "pending"
Processed == {"delivered", "completed", "failed"}
NoEvent == [status |-> "absent", due |-> 0, priority |-> 0, seq |-> 0, tool |-> None,
            spec |-> None, call |-> 0, effect |-> FALSE, phase |-> None]
\* state_json: the modeled world, as the number of its committed effects, and
\* the scheduler of the branch.
FreshState == [world |-> 0, events |-> [x \in EventIds |-> NoEvent], next |-> 0]
NoBranch == [spec |-> None, state |-> FreshState, clock |-> 0, calls |-> 0, head |-> 0]
NoSnapshot == [spec |-> None, state |-> FreshState, clock |-> 0, source |-> 0]
NoPlan == [tool |-> None, phase |-> None, remaining |-> 0, fired |-> 0]
NoView == [on |-> None, row |-> NoBranch, plans |-> [f \in FaultIds |-> NoPlan]]
NoTx == [on |-> None, todo |-> {}, row |-> NoBranch,
         plans |-> [f \in FaultIds |-> NoPlan], audit |-> <<>>, fired |-> <<>>]

Known(b) == branch[b].spec # None
\* The connection is free, and the head stays within the bound of the model.
Open(b) == tx.on = None /\ Known(b) /\ branch[b].head < MaxHead[b]

StoreInit ==
  /\ branch = [b \in Branches |-> NoBranch]
  /\ snapshot = [s \in Names |-> NoSnapshot]
  /\ plans = [b \in Branches |-> [f \in FaultIds |-> NoPlan]]
  /\ audit = [b \in Branches |-> <<>>]
  /\ fired = [b \in Branches |-> <<>>]
  /\ runtime = None
  /\ tx = NoTx
  /\ view = [c \in Clients |-> NoView]
  /\ origin = [b \in Branches |-> 0]

-----------------------------------------------------------------------------
(***************************************************************************)
(* Branches and snapshots.                                                 *)
(***************************************************************************)

\* InitializeBranch: creates the branch unless it exists.
InitializeBranch(b, d) ==
  IF Known(b) THEN UNCHANGED branch
  ELSE /\ Cardinality({o \in Branches : Known(o)}) < MaxForks
       /\ MaxHead[b] > 0        \* one that is never changed is only forked
       /\ branch' = [branch EXCEPT ![b] = [NoBranch EXCEPT !.spec = d]]

\* A server starts on a branch, perhaps with another TwinSpec than before:
\* whatever transaction its predecessor had open is rolled back.
Start(d, b) ==
  /\ runtime' = d
  /\ tx' = NoTx
  /\ InitializeBranch(b, d)
  /\ UNCHANGED <<snapshot, plans, audit, fired, view, origin>>

\* CreateSnapshot: an immutable copy of a branch's state and clock.
CreateSnapshot(s, b) ==
  /\ tx.on = None
  /\ Cardinality({t \in Names : snapshot[t].spec # None}) < MaxSnapshots
  /\ Known(b)
  /\ snapshot[s].spec = None
  /\ snapshot' = [snapshot EXCEPT ![s] =
       [spec |-> branch[b].spec, state |-> branch[b].state, clock |-> branch[b].clock,
        source |-> branch[b].head]]
  /\ UNCHANGED <<rowVars, runtime, tx, view, origin>>

\* Fork: a new branch at head 0 and call 0, without fault plans.
Fork(s, b) ==
  /\ tx.on = None
  /\ Cardinality({o \in Branches : Known(o)}) < MaxForks
  /\ snapshot[s].spec # None
  /\ ~Known(b)
  /\ branch' = [branch EXCEPT ![b] =
       [spec |-> snapshot[s].spec, state |-> snapshot[s].state,
        clock |-> snapshot[s].clock, calls |-> 0, head |-> 0]]
  /\ origin' = [origin EXCEPT ![b] = snapshot[s].state.world]
  /\ UNCHANGED <<snapshot, plans, audit, fired, runtime, tx, view>>

\* Fault: the branch keeps its TwinSpec binding.
ResetRowKeepingSpec(s, b) ==
  [spec |-> branch[b].spec, state |-> snapshot[s].state, clock |-> snapshot[s].clock,
   calls |-> 0, head |-> branch[b].head + 1]

\* Fault: the head goes back to the one the snapshot was taken at.
ResetRowRewindingHead(s, b) ==
  [spec |-> snapshot[s].spec, state |-> snapshot[s].state, clock |-> snapshot[s].clock,
   calls |-> 0, head |-> snapshot[s].source]

\* What Reset writes into the branch row.
ResetRow(s, b) ==
  [spec |-> snapshot[s].spec, state |-> snapshot[s].state, clock |-> snapshot[s].clock,
   calls |-> 0, head |-> branch[b].head + 1]

\* Reset: state, clock and spec of the snapshot, calls from 0, the next head;
\* fault plans, audit and fault events stay.
Reset(s, b) ==
  /\ Open(b)
  /\ snapshot[s].spec # None
  /\ branch' = [branch EXCEPT ![b] = ResetRow(s, b)]
  /\ origin' = [origin EXCEPT ![b] = snapshot[s].state.world]
  /\ UNCHANGED <<snapshot, plans, audit, fired, runtime, tx, view>>

\* Branch: a control client reads a branch, its fault plans and its head.
Read(c, b) ==
  /\ tx.on = None
  /\ Known(b)
  /\ view' = [view EXCEPT ![c] = [on |-> b, row |-> branch[b], plans |-> plans[b]]]
  /\ UNCHANGED <<rowVars, snapshot, runtime, tx, origin>>

-----------------------------------------------------------------------------
(***************************************************************************)
(* Fault plans and tool calls.                                             *)
(***************************************************************************)

\* InstallFault: a new plan, and the next head.
InstallFault(b, f, tool, phase, n) ==
  /\ Open(b)
  /\ Cardinality({g \in FaultIds : plans[b][g] # NoPlan}) < MaxFaultPlans
  /\ plans[b][f] = NoPlan
  /\ plans' = [plans EXCEPT ![b][f] =
                 [tool |-> tool, phase |-> phase, remaining |-> n, fired |-> 0]]
  /\ branch' = [branch EXCEPT ![b].head = @ + 1]
  /\ UNCHANGED <<snapshot, audit, fired, runtime, tx, view, origin>>

\* RemoveFault.
RemoveFault(b, f) ==
  /\ Open(b)
  /\ plans[b][f] # NoPlan
  /\ plans' = [plans EXCEPT ![b][f] = NoPlan]
  /\ branch' = [branch EXCEPT ![b].head = @ + 1]
  /\ UNCHANGED <<snapshot, audit, fired, runtime, tx, view, origin>>

\* takeFault selects the lowest eligible plan of a tool and a phase; 0 if none.
TakeFault(ps, tool, phase) ==
  LET eligible == {f \in FaultIds : /\ ps[f].tool = tool /\ ps[f].phase = phase
                                    /\ ps[f].remaining > 0}
  IN IF eligible = {} THEN 0 ELSE CHOOSE f \in eligible : \A g \in eligible : f <= g

\* takeFault consumes what it selected.
Consume(ps, f) ==
  IF f = 0 THEN ps
  ELSE [ps EXCEPT ![f].remaining = @ - 1, ![f].fired = @ + 1]

\* Fault: a call that failed in the model consumes the plan of an effect.
OutcomeWithoutEffect(ps, tool, ok) ==
  LET before == TakeFault(ps, tool, "before-validation")
      after == TakeFault(ps, tool, "after-commit-before-response")
  IN CASE before # 0 -> [ok |-> FALSE, effect |-> FALSE, fault |-> before]
       [] before = 0 /\ after # 0 -> [ok |-> FALSE, effect |-> ok, fault |-> after]
       [] OTHER -> [ok |-> ok, effect |-> ok, fault |-> 0]

\* A tool execution whose modeled result is ok or a domain error: whether the
\* caller sees success, whether the effect commits, and the fault consumed.
Outcome(ps, tool, ok) ==
  LET before == TakeFault(ps, tool, "before-validation")
      after == TakeFault(ps, tool, "after-commit-before-response")
  IN CASE before # 0 -> [ok |-> FALSE, effect |-> FALSE, fault |-> before]
       [] before = 0 /\ ok /\ after # 0 -> [ok |-> FALSE, effect |-> TRUE, fault |-> after]
       [] OTHER -> [ok |-> ok, effect |-> ok, fault |-> 0]

\* A row of audit; by names the scheduled event, None for an Agent's call.
AuditRow(index, by, o) == [index |-> index, by |-> by, ok |-> o.ok, effect |-> o.effect]

\* A row of fault_events, when a fault fired.
FaultRows(index, o) ==
  IF o.fault = 0 THEN <<>> ELSE <<[fault |-> o.fault, index |-> index]>>

Effects(o) == IF o.effect THEN 1 ELSE 0

\* Fault: a fault that suppresses the call still leaves its effect.
ApplyCallKeepingState(b, tool, ok) ==
  LET o == Outcome(plans[b], tool, ok)
      index == branch[b].calls + 1
  IN /\ Open(b)
     /\ branch[b].spec = runtime
     /\ branch' = [branch EXCEPT ![b].state.world = @ + (IF ok THEN 1 ELSE 0),
                                 ![b].calls = index, ![b].head = @ + 1]
     /\ plans' = [plans EXCEPT ![b] = Consume(@, o.fault)]
     /\ audit' = [audit EXCEPT ![b] = Append(@, AuditRow(index, None, o))]
     /\ fired' = [fired EXCEPT ![b] = @ \o FaultRows(index, o)]
     /\ UNCHANGED <<snapshot, runtime, tx, view, origin>>

\* ApplyCall: fault, effect, audit, fault event, call index and head together.
ApplyCall(b, tool, ok) ==
  LET o == Outcome(plans[b], tool, ok)
      index == branch[b].calls + 1
  IN /\ Open(b)
     /\ branch[b].spec = runtime
     /\ branch' = [branch EXCEPT ![b].state.world = @ + Effects(o),
                                 ![b].calls = index, ![b].head = @ + 1]
     /\ plans' = [plans EXCEPT ![b] = Consume(@, o.fault)]
     /\ audit' = [audit EXCEPT ![b] = Append(@, AuditRow(index, None, o))]
     /\ fired' = [fired EXCEPT ![b] = @ \o FaultRows(index, o)]
     /\ UNCHANGED <<snapshot, runtime, tx, view, origin>>

-----------------------------------------------------------------------------
(***************************************************************************)
(* The scheduler.                                                          *)
(***************************************************************************)
PendingEvents(state) == {x \in EventIds : state.events[x].status = Pending}

\* scheduledEvents: the total order of two events of one branch; creation
\* sequences differ, so the ID never decides.
Before(state, x, y) ==
  LET p == state.events[x]
      q == state.events[y]
  IN \/ p.due < q.due
     \/ p.due = q.due /\ p.priority > q.priority
     \/ p.due = q.due /\ p.priority = q.priority /\ p.seq < q.seq

UpTo(state, set, x) == {y \in set : y = x \/ Before(state, y, x)}

\* The pending events of the earliest pending instant.
EarliestDue(state) ==
  {x \in PendingEvents(state) :
     \A y \in PendingEvents(state) : state.events[x].due <= state.events[y].due}

\* scheduledBatchSize: the longest prefix within the two step budgets.
Batch(state) ==
  LET instant == EarliestDue(state)
  IN {x \in instant :
        /\ Cardinality(UpTo(state, instant, x)) <= MaxScheduledDelivery
        /\ Cardinality(UpTo(state, instant, x) \cap Actions) <= MaxScheduledActions}

\* Fault: an event may be scheduled at the current instant.
DueAdmittedNow(b, due) ==
  due >= branch[b].clock /\ due - branch[b].clock <= MaxClockAdvance

\* A due time after the clock and within the horizon.
DueAdmitted(b, due) ==
  due > branch[b].clock /\ due - branch[b].clock <= MaxClockAdvance

\* ScheduleEvent: signals, and tool calls bound to the loaded TwinSpec.
ScheduleEvent(b, x, due, priority, tool) ==
  LET state == branch[b].state
  IN /\ Open(b)
     /\ x \in Actions => runtime = branch[b].spec
     /\ DueAdmitted(b, due)
     /\ state.events[x].status = "absent"
     /\ Cardinality({y \in EventIds : state.events[y].status # "absent"}) < MaxScheduledEvents
     /\ Cardinality({y \in PendingEvents(state) : state.events[y].due = due})
          < MaxScheduledAtInstant
     /\ branch' = [branch EXCEPT
          ![b].state.next = @ + 1,
          ![b].state.events[x] =
            [status |-> Pending, due |-> due, priority |-> priority, seq |-> state.next + 1,
             tool |-> IF x \in Actions THEN tool ELSE None,
             spec |-> IF x \in Actions THEN runtime ELSE None,
             call |-> 0, effect |-> FALSE, phase |-> None],
          ![b].head = @ + 1]
     /\ UNCHANGED <<snapshot, plans, audit, fired, runtime, tx, view, origin>>

\* CancelScheduledEvent.
CancelScheduledEvent(b, x) ==
  /\ Open(b)
  /\ branch[b].state.events[x].status = Pending
  /\ branch' = [branch EXCEPT ![b].state.events[x].status = "canceled", ![b].head = @ + 1]
  /\ UNCHANGED <<snapshot, plans, audit, fired, runtime, tx, view, origin>>

\* The pending events an ordinary advance to the target delivers.
DueBy(state, target) == {x \in PendingEvents(state) : state.events[x].due <= target}

\* AdvanceClock: all due signals or nothing, and never a due action.
AdvanceClock(b, target) ==
  LET state == branch[b].state
      due == DueBy(state, target)
  IN /\ Open(b)
     /\ target > branch[b].clock
     /\ target - branch[b].clock <= MaxClockAdvance
     /\ due \cap Actions = {}
     /\ Cardinality(due) <= MaxScheduledDelivery
     /\ branch' = [branch EXCEPT
          ![b].clock = target,
          ![b].state.events = [x \in EventIds |->
             IF x \in due THEN [@[x] EXCEPT !.status = "delivered"] ELSE @[x]],
          ![b].head = @ + 1]
     /\ UNCHANGED <<snapshot, plans, audit, fired, runtime, tx, view, origin>>

\* POST /v1/clock/advance "by": the target comes from a clock read before, and
\* the caller may or may not send the head it has read.
AdvanceBy(c, d, checked) ==
  LET b == view[c].on
  IN /\ b # None
     /\ checked => view[c].row.head = branch[b].head
     /\ view[c].row.clock + d <= MaxClock
     /\ AdvanceClock(b, view[c].row.clock + d)

\* advanceClockToNext opens its transaction and selects a prefix; without a
\* runtime-backed control plane a batch with actions is refused, and with one
\* the runtime must be the branch's.
BeginStep(b, backed) ==
  LET state == branch[b].state
      batch == Batch(state)
      due == state.events[CHOOSE x \in EarliestDue(state) : TRUE].due
  IN /\ Open(b)
     /\ PendingEvents(state) # {}
     /\ IF backed THEN branch[b].spec = runtime ELSE batch \cap Actions = {}
     /\ due - branch[b].clock <= MaxClockAdvance
     /\ tx' = [on |-> b, todo |-> batch,
               row |-> [branch[b] EXCEPT !.clock = IF due > @ THEN due ELSE @],
               plans |-> plans[b], audit |-> audit[b], fired |-> fired[b]]
     /\ UNCHANGED <<rowVars, snapshot, runtime, view, origin>>

\* Fault: the events of a step are taken in any order.
IsNextInAnyOrder(x) == x \in tx.todo

\* The next event of the prefix in progress.
IsNext(x) == x \in tx.todo /\ \A y \in tx.todo \ {x} : Before(tx.row.state, x, y)

\* A signal of the prefix is delivered.
StepSignal(x) ==
  /\ tx.on # None
  /\ IsNext(x)
  /\ x \notin Actions
  /\ tx' = [tx EXCEPT !.todo = @ \ {x}, !.row.state.events[x].status = "delivered"]
  /\ UNCHANGED <<rowVars, snapshot, runtime, view, origin>>

\* Fault: every action of a step gets the first free call index.
NextCallFromTable == branch[tx.on].calls + 1

\* The call index the next action of the step in progress is given.
NextCall == tx.row.calls + 1

\* The event x with its outcome, at the call index it was given.
Executed(x, o) ==
  [tx.row.state.events[x] EXCEPT
     !.status = IF o.ok THEN "completed" ELSE "failed",
     !.call = NextCall,
     !.effect = o.effect,
     !.phase = IF o.fault = 0 THEN None ELSE tx.plans[o.fault].phase]

\* The working copy after the action x, with its outcome o.
Execute(x, o) ==
  LET state == [tx.row.state EXCEPT !.world = @ + Effects(o), !.events[x] = Executed(x, o)]
  IN [tx EXCEPT !.todo = @ \ {x},
                !.row = [@ EXCEPT !.calls = NextCall, !.state = state],
                !.plans = Consume(@, o.fault),
                !.audit = Append(@, AuditRow(NextCall, x, o)),
                !.fired = @ \o FaultRows(NextCall, o)]

\* Fault: the plans a step consumes stay consumed when it rolls back.
StepActionLeakingFaults(x, ok) ==
  LET event == tx.row.state.events[x]
      o == Outcome(tx.plans, event.tool, ok)
  IN /\ tx.on # None
     /\ IsNext(x)
     /\ x \in Actions
     /\ event.spec = tx.row.spec
     /\ tx' = Execute(x, o)
     /\ plans' = [plans EXCEPT ![tx.on] = Consume(@, o.fault)]
     /\ UNCHANGED <<branch, audit, fired, snapshot, runtime, view, origin>>

\* An action of the prefix is executed once: call index, fault, effect, audit
\* and outcome, all in the working copy.
StepAction(x, ok) ==
  LET event == tx.row.state.events[x]
  IN /\ tx.on # None
     /\ IsNext(x)
     /\ x \in Actions
     /\ event.spec = tx.row.spec
     /\ tx' = Execute(x, Outcome(tx.plans, event.tool, ok))
     /\ UNCHANGED <<rowVars, snapshot, runtime, view, origin>>

\* The step commits: branch row under the next head, plans, audit and events.
CommitStep ==
  /\ tx.on # None
  /\ tx.todo = {}
  /\ branch' = [branch EXCEPT ![tx.on] = [tx.row EXCEPT !.head = @ + 1]]
  /\ plans' = [plans EXCEPT ![tx.on] = tx.plans]
  /\ audit' = [audit EXCEPT ![tx.on] = tx.audit]
  /\ fired' = [fired EXCEPT ![tx.on] = tx.fired]
  /\ tx' = NoTx
  /\ UNCHANGED <<snapshot, runtime, view, origin>>

\* The step rolls back: a callback error, a budget, an invalid result, a
\* cancelled request, or an action bound to another spec.
AbortStep ==
  /\ tx.on # None
  /\ tx' = NoTx
  /\ UNCHANGED <<rowVars, snapshot, runtime, view, origin>>

StoreNext ==
  \/ \E d \in Specs, b \in Branches : Start(d, b)
  \/ \E s \in Names, b \in Branches : CreateSnapshot(s, b) \/ Fork(s, b) \/ Reset(s, b)
  \/ \E c \in Clients, b \in Branches : Read(c, b)
  \/ \E b \in Branches, f \in FaultIds :
       \/ \E tool \in Tools, phase \in Phases,
             n \in 1..MaxFaultRepeats : InstallFault(b, f, tool, phase, n)
       \/ RemoveFault(b, f)
  \/ \E b \in Branches, tool \in Tools, ok \in BOOLEAN : ApplyCall(b, tool, ok)
  \/ \E b \in Branches, x \in EventIds, due \in 0..MaxClock, priority \in Priorities,
        tool \in Tools : ScheduleEvent(b, x, due, priority, tool)
  \/ \E b \in Branches, x \in EventIds : CancelScheduledEvent(b, x)
  \/ \E b \in Branches, target \in 0..MaxClock : AdvanceClock(b, target)
  \/ \E c \in Clients, d \in 1..MaxClock, checked \in BOOLEAN : AdvanceBy(c, d, checked)
  \/ \E b \in Branches, backed \in BOOLEAN : BeginStep(b, backed)
  \/ \E x \in EventIds, ok \in BOOLEAN : StepSignal(x) \/ StepAction(x, ok)
  \/ CommitStep
  \/ AbortStep

StoreSpec == StoreInit /\ [][StoreNext]_storeVars

-----------------------------------------------------------------------------
(***************************************************************************)
(* What scanBranch demands of a stored state before any operation on it.   *)
(***************************************************************************)
Present(state) == {x \in EventIds : state.events[x].status # "absent"}

\* validateInternalState: creation sequences are allocated and never shared.
SequencesAdmitted(state) ==
  \A x \in Present(state) :
    /\ state.events[x].seq \in 1..state.next
    /\ \A y \in Present(state) \ {x} : state.events[x].seq # state.events[y].seq

\* validateSignalLifecycle.
SignalAdmitted(e) ==
  e.status \in {Pending, "delivered", "canceled"} /\ e.call = 0 /\ e.phase = None

\* validateActionLifecycle: an outcome exactly on the executed, a committed
\* effect on the completed, and on a failed one only with an after-effect fault.
ActionAdmitted(e) ==
  \/ e.status \in {Pending, "canceled"} /\ e.call = 0 /\ ~e.effect /\ e.phase = None
  \/ e.status = "completed" /\ e.call >= 1 /\ e.effect /\ e.phase = None
  \/ e.status = "failed" /\ e.call >= 1
     /\ (e.effect <=> e.phase = "after-commit-before-response")

StateAdmitted(state) ==
  /\ SequencesAdmitted(state)
  /\ \A x \in Present(state) :
       IF x \in Actions THEN ActionAdmitted(state.events[x]) ELSE SignalAdmitted(state.events[x])

-----------------------------------------------------------------------------
(***************************************************************************)
(* Properties.                                                             *)
(***************************************************************************)
Event == [status : Processed \cup {Pending, "canceled", "absent"}, due : Nat,
          priority : Priorities \cup {0}, seq : Nat, tool : Tools \cup {None},
          spec : Specs \cup {None}, call : Nat, effect : BOOLEAN, phase : Phases \cup {None}]
State == [world : Nat, events : [EventIds -> Event], next : Nat]
Row == [spec : Specs \cup {None}, state : State, clock : Nat, calls : Nat, head : Nat]
Plan == [tool : Tools \cup {None}, phase : Phases \cup {None}, remaining : Nat, fired : Nat]
AuditRows == [index : Nat, by : EventIds \cup {None}, ok : BOOLEAN, effect : BOOLEAN]
FaultEvents == [fault : FaultIds, index : Nat]

StoreTypeOK ==
  /\ branch \in [Branches -> Row]
  /\ snapshot \in [Names -> [spec : Specs \cup {None}, state : State, clock : Nat, source : Nat]]
  /\ plans \in [Branches -> [FaultIds -> Plan]]
  /\ audit \in [Branches -> Seq(AuditRows)]
  /\ fired \in [Branches -> Seq(FaultEvents)]
  /\ runtime \in Specs \cup {None}
  /\ tx \in [on : Branches \cup {None}, todo : SUBSET EventIds, row : Row,
             plans : [FaultIds -> Plan], audit : Seq(AuditRows), fired : Seq(FaultEvents)]
  /\ view \in [Clients -> [on : Branches \cup {None}, row : Row, plans : [FaultIds -> Plan]]]
  /\ origin \in [Branches -> Nat]

\* Every state any operation stores, in a branch or a snapshot, is one the next
\* read accepts: no legal sequence of scheduler steps, faults, forks and resets
\* makes a branch unreadable (scanBranch, scanSnapshot, ValidateBudget).
EveryStateAdmitted ==
  /\ \A b \in Branches : StateAdmitted(branch[b].state)
  /\ \A s \in Names : StateAdmitted(snapshot[s].state)

\* No clock ever passes a pending event: whatever was advanced, drained in
\* part, forked or reset, what is pending on a branch (advanceClockToNext,
\* AdvanceClock, Reset, Fork) is due at its clock or later.
NothingOverdue ==
  \A b \in Branches, x \in EventIds :
    branch[b].state.events[x].status = Pending => branch[b].state.events[x].due >= branch[b].clock

\* A pending action belongs to the TwinSpec of the branch it is pending on, so
\* advanceClockToNext never meets one of another TwinSpec.
PendingActionsBound ==
  \A b \in Branches, x \in Actions :
    branch[b].state.events[x].status = Pending => branch[b].state.events[x].spec = branch[b].spec

\* The audit rows of a branch since its last initialization, fork or reset.
Since(b) == SubSeq(audit[b], Len(audit[b]) - branch[b].calls + 1, Len(audit[b]))

\* The audit accounts for the branch: its last call_count rows are the calls
\* 1..call_count in order, and the world is the one it started from plus the
\* effects these rows committed (ApplyCall, advanceClockToNext, Reset).
AuditExplainsWorld ==
  \A b \in Branches :
    /\ branch[b].calls <= Len(audit[b])
    /\ \A i \in 1..branch[b].calls : Since(b)[i].index = i
    /\ branch[b].state.world =
         origin[b] + Cardinality({i \in 1..branch[b].calls : Since(b)[i].effect})

\* The schedule of a branch is its history.  Every event already processed comes,
\* in the total order of scheduledEvents, before every event still pending:
\* instants drained over several steps are drained in order and nothing joins
\* them late.  And an action is executed once: a row the scheduler wrote since
\* the last reset is the recorded outcome of its event (advanceClockToNext).
ScheduleIsHistory ==
  \A b \in Branches :
    /\ \A x, y \in EventIds :
         /\ branch[b].state.events[x].status \in Processed
         /\ branch[b].state.events[y].status = Pending
         => Before(branch[b].state, x, y)
    /\ \A i \in 1..branch[b].calls : Since(b)[i].by # None =>
         LET event == branch[b].state.events[Since(b)[i].by]
         IN event.call = i /\ event.status = (IF Since(b)[i].ok THEN "completed" ELSE "failed")

\* The head identifies what a control client has read: as long as the head it
\* read is current, row and fault plans are the ones it read, so a request
\* with expectedHeadVersion never acts on a state its caller did not see, and
\* a committed request repeated with the old head is refused.
HeadIdentifiesState ==
  \A c \in Clients :
    LET b == view[c].on
    IN b # None /\ view[c].row.head = branch[b].head =>
         view[c].row = branch[b] /\ view[c].plans = plans[b]

FiredBy(rows, f) == Cardinality({i \in DOMAIN rows : rows[i].fault = f})

\* While a plan is installed its repeat count (remaining plus fired, the part of
\* FaultPlanDigest) never changes, and each firing it counts has its fault event:
\* takeFault is never undone or doubled by a step that rolls back.
FaultsAccounted ==
  [][\A b \in Branches, f \in FaultIds :
       plans[b][f] # NoPlan /\ plans'[b][f] # NoPlan =>
         /\ plans'[b][f].remaining + plans'[b][f].fired = plans[b][f].remaining + plans[b][f].fired
         /\ FiredBy(fired'[b], f) - FiredBy(fired[b], f) = plans'[b][f].fired - plans[b][f].fired
    ]_storeVars

-----------------------------------------------------------------------------
(***************************************************************************)
(* The scheduler keeps its promise.                                        *)
(***************************************************************************)
\* The timetable of a row or a snapshot.
TableOf(row) ==
  [clock |-> row.clock,
   next |-> row.state.next,
   used |-> Present(row.state),
   pending |-> [x \in PendingEvents(row.state) |->
      LET e == row.state.events[x] IN [due |-> e.due, priority |-> e.priority, seq |-> e.seq]]]

Timetables == [b \in Branches |-> TableOf(branch[b])]
CallLogs == [b \in Branches |-> [i \in 1..branch[b].calls |-> Since(b)[i].by]]
SavedTables == {TableOf(NoSnapshot)} \cup {TableOf(snapshot[s]) : s \in Names}

Promise == INSTANCE SchedulePromise WITH
  table <- Timetables, calls <- CallLogs, saved <- SavedTables, Instants <- 0..MaxClock

\* Every behaviour of the tables is a behaviour of the promise.  A scheduler step
\* runs its callbacks one by one in a working copy, may be rolled back or lost
\* with its server at any of them, and starts over: what the branch sees is a step
\* that executes the longest batch within the budgets, each action once and in
\* its turn, or no step at all (advanceClockToNext).
KeepsSchedule == Promise!Spec
=============================================================================
