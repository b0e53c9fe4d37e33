--------------------------- MODULE TwinStoreProofs ---------------------------
(***************************************************************************)
(* What holds of the Twin store for any number of branches, snapshots,     *)
(* events, fault plans and clients, with machine-checked proofs.           *)
(***************************************************************************)
EXTENDS EventPages, TLAPS, FiniteSetTheorems, WellFoundedInduction, SequenceTheorems

-----------------------------------------------------------------------------
(***************************************************************************)
(* Fault plans: selection, consumption and the events that record it.      *)
(***************************************************************************)

\* A set of natural numbers that is not empty has a least element.
LEMMA LeastExists ==
  ASSUME NEW S \in SUBSET Nat, S # {}
  PROVE  \E m \in S : \A n \in S : m <= n
<1>1. PICK m \in S : \A n \in S : ~(<<n, m>> \in OpToRel(<, Nat))
  BY NatLessThanWellFounded, WFMin
<1>2. \A n \in S : <<n, m>> \in Nat \X Nat /\ ~(n < m)
  BY <1>1 DEF OpToRel
<1>3. m \in Nat /\ \A n \in S : n \in Nat
  OBVIOUS
<1>4. \A n \in S : m <= n
  <2> TAKE n \in S
  <2>1. ~(n < m) /\ n \in Nat /\ m \in Nat
    BY <1>2, <1>3
  <2> QED
    BY <2>1
<1> QED
  BY <1>4

Plans == [FaultIds -> Plan]

\* A number that takeFault may answer: no plan, or one with firings left.
Usable(ps, f) ==
  \/ f = 0
  \/ f \in FaultIds /\ ps[f].remaining > 0

\* takeFault answers no plan or one with firings left.
LEMMA TakeFaultIsUsable ==
  ASSUME NEW ps \in Plans, NEW tool, NEW phase
  PROVE  Usable(ps, TakeFault(ps, tool, phase))
<1> DEFINE eligible == {f \in FaultIds : /\ ps[f].tool = tool /\ ps[f].phase = phase
                                         /\ ps[f].remaining > 0}
<1>1. CASE eligible = {}
  BY <1>1 DEF Usable, TakeFault
<1>2. CASE eligible # {}
  <2>1. \E f \in eligible : \A g \in eligible : f <= g
    BY <1>2, StoreAssumption, LeastExists
  <2>2. TakeFault(ps, tool, phase) \in eligible
    BY <1>2, <2>1 DEF TakeFault
  <2> QED
    BY <2>2 DEF Usable
<1> QED
  BY <1>1, <1>2

\* A tool execution has Boolean results and consumes at most one usable plan.
LEMMA OutcomeShape ==
  ASSUME NEW ps \in Plans, NEW tool, NEW ok \in BOOLEAN
  PROVE  LET o == Outcome(ps, tool, ok)
         IN o.ok \in BOOLEAN /\ o.effect \in BOOLEAN /\ Usable(ps, o.fault)
<1>1. Usable(ps, TakeFault(ps, tool, "before-validation"))
  BY TakeFaultIsUsable
<1>2. Usable(ps, TakeFault(ps, tool, "after-commit-before-response"))
  BY TakeFaultIsUsable
<1>3. Usable(ps, 0)
  BY DEF Usable
<1> QED
  BY <1>1, <1>2, <1>3 DEF Outcome

\* Consumption conserves the repeat count of every plan, counts one firing of
\* the plan selected, and makes no plan out of none.
LEMMA ConsumeCounts ==
  ASSUME NEW ps \in Plans, NEW f, Usable(ps, f)
  PROVE  /\ Consume(ps, f) \in Plans
         /\ \A g \in FaultIds :
              LET q == Consume(ps, f)[g]
              IN /\ q.remaining + q.fired = ps[g].remaining + ps[g].fired
                 /\ q.fired = ps[g].fired + (IF g = f THEN 1 ELSE 0)
                 /\ q = NoPlan <=> ps[g] = NoPlan
<1>1. CASE f = 0
  BY <1>1, StoreAssumption DEF Consume, Plans, Plan
<1>2. CASE f # 0
  <2>1. f \in FaultIds /\ ps[f].remaining > 0
    BY <1>2 DEF Usable
  <2>2. Consume(ps, f) = [ps EXCEPT ![f].remaining = @ - 1, ![f].fired = @ + 1]
    BY <1>2 DEF Consume
  <2>3. \A g \in FaultIds : g # f => Consume(ps, f)[g] = ps[g]
    BY <2>2 DEF Plans
  <2>4. Consume(ps, f)[f] = [ps[f] EXCEPT !.remaining = @ - 1, !.fired = @ + 1]
    BY <2>1, <2>2 DEF Plans
  <2>5. ps[f] \in Plan
    BY <2>1 DEF Plans
  <2>6. Consume(ps, f)[f] \in Plan
    <3>1. Consume(ps, f)[f] =
            [tool |-> ps[f].tool, phase |-> ps[f].phase,
             remaining |-> ps[f].remaining - 1, fired |-> ps[f].fired + 1]
      BY <2>4, <2>5 DEF Plan
    <3>2. ps[f].remaining - 1 \in Nat /\ ps[f].fired + 1 \in Nat
      BY <2>1, <2>5 DEF Plan
    <3> QED
      BY <2>5, <3>1, <3>2 DEF Plan
  <2>7. Consume(ps, f) \in Plans
    BY <2>1, <2>2, <2>3, <2>6 DEF Plans
  <2>8. /\ Consume(ps, f)[f].remaining + Consume(ps, f)[f].fired
             = ps[f].remaining + ps[f].fired
        /\ Consume(ps, f)[f].fired = ps[f].fired + 1
    BY <2>1, <2>4, <2>5 DEF Plan
  <2>9. Consume(ps, f)[f] # NoPlan /\ ps[f] # NoPlan
    <3>1. Consume(ps, f)[f].fired # 0
      BY <2>5, <2>8 DEF Plan
    <3> QED
      BY <2>1, <3>1 DEF NoPlan
  <2>10. \A g \in FaultIds : ps[g].fired \in Nat /\ ps[g].remaining \in Nat
    BY DEF Plans, Plan
  <2> QED
    BY <2>3, <2>7, <2>8, <2>9, <2>10
<1> QED
  BY <1>1, <1>2

\* A call adds one fault event for the plan it fired and none for any other.
LEMMA FiredRowsCount ==
  ASSUME NEW rows \in Seq(FaultEvents), NEW index \in Nat, NEW o, NEW f \in FaultIds,
         o.fault = 0 \/ o.fault \in FaultIds
  PROVE  /\ rows \o FaultRows(index, o) \in Seq(FaultEvents)
         /\ FiredBy(rows, f) \in Nat
         /\ FiredBy(rows \o FaultRows(index, o), f)
              = FiredBy(rows, f) + (IF o.fault = f THEN 1 ELSE 0)
<1> DEFINE firings == {i \in DOMAIN rows : rows[i].fault = f}
           more == rows \o FaultRows(index, o)
<1>1. IsFiniteSet(firings) /\ Cardinality(firings) \in Nat
  <2>1. DOMAIN rows = 1..Len(rows) /\ Len(rows) \in Nat
    OBVIOUS
  <2>2. IsFiniteSet(1..Len(rows))
    BY <2>1, FS_Interval
  <2> QED
    BY <2>1, <2>2, FS_Subset, FS_CardinalityType
<1>2. CASE o.fault = 0
  <2>1. f # 0
    BY StoreAssumption
  <2>2. more = rows
    BY <1>2 DEF FaultRows
  <2> QED
    BY <1>1, <1>2, <2>1, <2>2 DEF FiredBy
<1>3. CASE o.fault # 0
  <2>1. o.fault \in FaultIds
    BY <1>3
  <2> DEFINE row == [fault |-> o.fault, index |-> index]
  <2>2. row \in FaultEvents
    BY <2>1 DEF FaultEvents
  <2>3. more = Append(rows, row)
    BY <1>3, <2>2 DEF FaultRows
  <2>4. more \in Seq(FaultEvents)
    BY <2>2, <2>3
  <2>5. /\ DOMAIN more = 1..(Len(rows) + 1) /\ more[Len(rows) + 1] = row
        /\ \A i \in 1..Len(rows) : more[i] = rows[i]
    BY <2>2, <2>3
  <2>6. CASE o.fault = f
    <3>1. {i \in DOMAIN more : more[i].fault = f} = firings \cup {Len(rows) + 1}
      BY <2>5, <2>6
    <3>2. Len(rows) + 1 \notin firings
      OBVIOUS
    <3>3. Cardinality(firings \cup {Len(rows) + 1}) = Cardinality(firings) + 1
      BY <1>1, <3>2, FS_AddElement
    <3> QED
      BY <1>1, <2>4, <2>6, <3>1, <3>3 DEF FiredBy
  <2>7. CASE o.fault # f
    <3>1. {i \in DOMAIN more : more[i].fault = f} = firings
      BY <2>5, <2>7
    <3>2. FiredBy(more, f) = FiredBy(rows, f)
      BY <3>1 DEF FiredBy
    <3>3. FiredBy(rows, f) \in Nat
      BY <1>1 DEF FiredBy
    <3> QED
      BY <2>4, <2>7, <3>2, <3>3
  <2> QED
    BY <2>6, <2>7
<1> QED
  BY <1>2, <1>3

-----------------------------------------------------------------------------
(***************************************************************************)
(* The inductive invariant.                                                *)
(***************************************************************************)

\* A row (of a branch, a snapshot or a step in progress) whose pending events
\* are not overdue and whose pending actions are bound to its TwinSpec.
Sound(row) ==
  \A x \in EventIds : row.state.events[x].status = Pending =>
    /\ row.state.events[x].due >= row.clock
    /\ x \in Actions => row.state.events[x].spec = row.spec

\* Between two versions of a branch's fault plans and fault events, no repeat
\* count changed, and each firing that was counted has its event.
Accounted(ps, rows, qs, more) ==
  \A f \in FaultIds :
    /\ qs[f].remaining + qs[f].fired = ps[f].remaining + ps[f].fired
    /\ FiredBy(more, f) - FiredBy(rows, f) = qs[f].fired - ps[f].fired

RowsSound ==
  /\ \A b \in Branches : Sound(branch[b])
  /\ \A s \in Names : Sound(snapshot[s])

\* A step in progress works on a sound descendant of the row it was copied
\* from, under the same head and TwinSpec.
StepSound ==
  tx.on # None =>
    /\ Known(tx.on)
    /\ tx.row.spec = branch[tx.on].spec
    /\ tx.row.head = branch[tx.on].head
    /\ Sound(tx.row)
    /\ Accounted(plans[tx.on], fired[tx.on], tx.plans, tx.fired)

\* A client has read a head the branch has not passed below.
ViewsSound ==
  \A c \in Clients : view[c].on # None =>
    /\ Known(view[c].on)
    /\ view[c].row.head <= branch[view[c].on].head

StoreInv ==
  /\ StoreTypeOK
  /\ RowsSound
  /\ StepSound
  /\ ViewsSound
  /\ HeadIdentifiesState

\* What FaultsAccounted demands of one step.
KeepsAccounts ==
  \A b \in Branches, f \in FaultIds :
    plans[b][f] # NoPlan /\ plans'[b][f] # NoPlan =>
      /\ plans'[b][f].remaining + plans'[b][f].fired = plans[b][f].remaining + plans[b][f].fired
      /\ FiredBy(fired'[b], f) - FiredBy(fired[b], f) = plans'[b][f].fired - plans[b][f].fired

-----------------------------------------------------------------------------
(***************************************************************************)
(* Types of the literal rows, and of an event whose status changes.        *)
(***************************************************************************)
LEMMA LiteralRows ==
  /\ NoEvent \in Event /\ NoEvent.status # Pending
  /\ FreshState \in State /\ \A x \in EventIds : FreshState.events[x] = NoEvent
  /\ NoBranch \in Row /\ NoPlan \in Plan
  /\ NoTx.on = None
<1>1. NoEvent \in Event /\ NoEvent.status # Pending
  BY DEF NoEvent, Event, Pending
<1>2. FreshState \in State /\ \A x \in EventIds : FreshState.events[x] = NoEvent
  BY <1>1 DEF FreshState, State
<1>3. NoBranch \in Row
  BY <1>2 DEF NoBranch, Row
<1>4. NoPlan \in Plan /\ NoTx.on = None
  BY DEF NoPlan, Plan, NoTx
<1> QED
  BY <1>1, <1>2, <1>3, <1>4

Statuses == Processed \cup {Pending, "canceled", "absent"}

\* Ending an event that was pending keeps a row's type and makes nothing
\* pending; its other columns stay.
LEMMA EndedEvent ==
  ASSUME NEW e \in Event, NEW status \in Statuses
  PROVE  LET ended == [e EXCEPT !.status = status]
         IN ended \in Event /\ ended.status = status
BY DEF Event, Statuses

\* Every state that keeps the pending events it has, or ends some of them,
\* stays sound under the same clock and TwinSpec.
LEMMA FewerPendingSound ==
  ASSUME NEW row, NEW new, Sound(row), new.clock = row.clock, new.spec = row.spec,
         \A x \in EventIds : new.state.events[x].status = Pending =>
           new.state.events[x] = row.state.events[x]
  PROVE  Sound(new)
BY DEF Sound

\* The initial store satisfies the invariant.
LEMMA InitEstablishesStoreInv == StoreInit => StoreInv
<1> SUFFICES ASSUME StoreInit PROVE StoreInv
  OBVIOUS
<1> USE LiteralRows DEF StoreInit
<1>1. StoreTypeOK
  <2>1. branch \in [Branches -> Row]
    OBVIOUS
  <2>2. snapshot \in [Names -> [spec : Specs \cup {None}, state : State, clock : Nat, source : Nat]]
    BY DEF NoSnapshot
  <2>3. plans \in [Branches -> [FaultIds -> Plan]]
    OBVIOUS
  <2>4. audit \in [Branches -> Seq(AuditRows)] /\ fired \in [Branches -> Seq(FaultEvents)]
    OBVIOUS
  <2>5. tx \in [on : Branches \cup {None}, todo : SUBSET EventIds, row : Row,
               plans : [FaultIds -> Plan], audit : Seq(AuditRows), fired : Seq(FaultEvents)]
    BY DEF NoTx
  <2>6. view \in [Clients -> [on : Branches \cup {None}, row : Row, plans : [FaultIds -> Plan]]]
    BY DEF NoView
  <2>7. runtime \in Specs \cup {None} /\ origin \in [Branches -> Nat]
    OBVIOUS
  <2> QED
    BY <2>1, <2>2, <2>3, <2>4, <2>5, <2>6, <2>7 DEF StoreTypeOK
<1>2. RowsSound
  BY DEF RowsSound, Sound, NoBranch, NoSnapshot
<1>3. StepSound
  BY DEF StepSound
<1>4. ViewsSound /\ HeadIdentifiesState
  BY DEF ViewsSound, HeadIdentifiesState, NoView
<1> QED
  BY <1>1, <1>2, <1>3, <1>4 DEF StoreInv

-----------------------------------------------------------------------------
(***************************************************************************)
(* Two lemmas on how the operations change the rows.                       *)
(***************************************************************************)
Txs == [on : Branches \cup {None}, todo : SUBSET EventIds, row : Row,
        plans : [FaultIds -> Plan], audit : Seq(AuditRows), fired : Seq(FaultEvents)]

\* An operation that writes one branch row under the next head, with fault
\* plans, audit and fault events of that branch only, keeps the invariant.
LEMMA RowUpdate ==
  ASSUME StoreInv, NEW b \in Branches, Known(b),
         NEW row \in Row, Sound(row), row.head = branch[b].head + 1, row.spec # None,
         branch' = [branch EXCEPT ![b] = row],
         plans' \in [Branches -> Plans],
         \A o \in Branches : o # b => plans'[o] = plans[o],
         audit' \in [Branches -> Seq(AuditRows)],
         fired' \in [Branches -> Seq(FaultEvents)],
         tx' \in Txs, tx'.on = None, origin' \in [Branches -> Nat],
         UNCHANGED <<snapshot, runtime, view>>
  PROVE  StoreInv'
<1> USE DEF StoreInv
<1>1. branch \in [Branches -> Row]
  BY DEF StoreTypeOK
<1>2. branch'[b] = row /\ \A o \in Branches : o # b => branch'[o] = branch[o]
  BY <1>1
<1>3. StoreTypeOK'
  <2>1. branch' \in [Branches -> Row]
    BY <1>1
  <2> QED
    BY <2>1 DEF StoreTypeOK, Txs, Plans
<1>4. RowsSound'
  BY <1>2 DEF RowsSound, Sound
<1>5. StepSound'
  BY DEF StepSound
<1>6. /\ branch[b].head \in Nat /\ \A o \in Branches : branch[o].head \in Nat
      /\ \A c \in Clients : view[c].row.head \in Nat /\ view[c].on \in Branches \cup {None}
  BY <1>1 DEF StoreTypeOK, Row
<1>7. ViewsSound'
  <2> SUFFICES ASSUME NEW c \in Clients, view[c].on # None
               PROVE  /\ branch'[view[c].on].spec # None
                      /\ view[c].row.head <= branch'[view[c].on].head
    BY DEF ViewsSound, Known
  <2>1. view[c].on \in Branches
    BY <1>6
  <2> QED
    BY <1>2, <1>6, <2>1, SMTT(40) DEF ViewsSound, Known
<1>8. HeadIdentifiesState'
  <2> SUFFICES ASSUME NEW c \in Clients, view[c].on # None,
                      view[c].row.head = branch'[view[c].on].head
               PROVE  /\ view[c].row = branch'[view[c].on]
                      /\ view[c].plans = plans'[view[c].on]
    BY DEF HeadIdentifiesState
  <2>1. view[c].on \in Branches /\ view[c].row.head <= branch[view[c].on].head
    BY <1>6 DEF ViewsSound
  <2>2. view[c].on # b
    BY <1>2, <1>6, <2>1
  <2> QED
    BY <1>2, <2>1, <2>2 DEF HeadIdentifiesState
<1> QED
  BY <1>3, <1>4, <1>5, <1>7, <1>8

\* A step in progress that moves to another sound working copy of its branch,
\* and touches no table, keeps the invariant.
LEMMA StepUpdate ==
  ASSUME StoreInv, tx' \in Txs,
         tx'.on # None => /\ Known(tx'.on)
                          /\ tx'.row.spec = branch[tx'.on].spec
                          /\ tx'.row.head = branch[tx'.on].head
                          /\ Sound(tx'.row)
                          /\ Accounted(plans[tx'.on], fired[tx'.on], tx'.plans, tx'.fired),
         UNCHANGED <<rowVars, snapshot, runtime, view, origin>>
  PROVE  StoreInv'
<1> USE DEF rowVars
<1>1. StoreTypeOK'
  BY DEF StoreInv, StoreTypeOK, Txs
<1>2. RowsSound'
  BY DEF StoreInv, RowsSound, Sound
<1>3. StepSound'
  BY DEF StepSound, Known, Sound, Accounted, FiredBy
<1>4. ViewsSound' /\ HeadIdentifiesState'
  BY DEF StoreInv, ViewsSound, HeadIdentifiesState, Known
<1> QED
  BY <1>1, <1>2, <1>3, <1>4 DEF StoreInv

\* Fault events are counted by natural numbers.
LEMMA FiredByType ==
  ASSUME StoreTypeOK, NEW b \in Branches, NEW f \in FaultIds
  PROVE  /\ FiredBy(fired[b], f) \in Nat
         /\ plans[b][f].remaining \in Nat /\ plans[b][f].fired \in Nat
<1>1. fired[b] \in Seq(FaultEvents) /\ plans[b][f] \in Plan
  BY DEF StoreTypeOK
<1>2. FiredBy(fired[b], f) \in Nat
  BY <1>1, FiredRowsCount, [fault |-> 0].fault = 0
<1> QED
  BY <1>1, <1>2 DEF Plan

\* An operation that touches neither plans nor fault events keeps the accounts.
LEMMA PlansUntouched ==
  ASSUME StoreTypeOK, UNCHANGED <<plans, fired>>
  PROVE  KeepsAccounts
BY FiredByType DEF KeepsAccounts

\* The columns of a branch row and its events have their types.
LEMMA ColumnTypes ==
  ASSUME StoreTypeOK, NEW b \in Branches
  PROVE  /\ branch[b] \in Row
         /\ branch[b].spec \in Specs \cup {None} /\ branch[b].state \in State
         /\ branch[b].clock \in Nat /\ branch[b].calls \in Nat /\ branch[b].head \in Nat
         /\ branch[b].state.world \in Nat /\ branch[b].state.next \in Nat
         /\ branch[b].state.events \in [EventIds -> Event]
         /\ \A x \in EventIds : branch[b].state.events[x].due \in Nat
<1>1. branch[b] \in Row
  BY DEF StoreTypeOK
<1>2. branch[b].state \in State
  BY <1>1 DEF Row
<1>3. branch[b].state.events \in [EventIds -> Event]
  BY <1>2 DEF State
<1>4. \A x \in EventIds : branch[b].state.events[x] \in Event
  BY <1>3
<1>5. \A x \in EventIds : branch[b].state.events[x].due \in Nat
  BY <1>4 DEF Event
<1>6. branch[b].state.world \in Nat /\ branch[b].state.next \in Nat
  BY <1>2 DEF State
<1> QED
  BY <1>1, <1>2, <1>3, <1>5, <1>6 DEF Row

\* So have the columns of a snapshot.
LEMMA SnapshotTypes ==
  ASSUME StoreTypeOK, NEW s \in Names
  PROVE  /\ snapshot[s].spec \in Specs \cup {None} /\ snapshot[s].state \in State
         /\ snapshot[s].clock \in Nat /\ snapshot[s].state.world \in Nat
<1>1. /\ snapshot[s].spec \in Specs \cup {None} /\ snapshot[s].state \in State
      /\ snapshot[s].clock \in Nat
  BY DEF StoreTypeOK
<1> QED
  BY <1>1 DEF State

\* Another head, and nothing else, keeps a branch row typed and sound.
LEMMA NextHead ==
  ASSUME NEW row \in Row, Sound(row)
  PROVE  LET next == [row EXCEPT !.head = @ + 1]
         IN /\ next \in Row /\ Sound(next)
            /\ next.head = row.head + 1 /\ next.spec = row.spec
<1> DEFINE next == [row EXCEPT !.head = @ + 1]
<1>1. next = [spec |-> row.spec, state |-> row.state, clock |-> row.clock,
              calls |-> row.calls, head |-> row.head + 1]
  BY DEF Row
<1>2. next \in Row
  BY <1>1 DEF Row
<1> QED
  BY <1>1, <1>2 DEF Sound

-----------------------------------------------------------------------------
(***************************************************************************)
(* Branches, snapshots and fault plans.                                    *)
(***************************************************************************)

\* A server start creates at most a fresh branch and drops the open step.
LEMMA StartKeeps ==
  ASSUME StoreInv, NEW d \in Specs, NEW b \in Branches, Start(d, b)
  PROVE  StoreInv' /\ KeepsAccounts
<1> USE DEF StoreInv
<1> DEFINE row == [NoBranch EXCEPT !.spec = d]
<1>1. \/ UNCHANGED branch
      \/ ~Known(b) /\ branch' = [branch EXCEPT ![b] = row]
  BY DEF Start, InitializeBranch
<1>2. d # None
  BY StoreAssumption
<1>3. row \in Row /\ Sound(row) /\ row.spec = d
  <2>1. row = [spec |-> d, state |-> FreshState, clock |-> 0, calls |-> 0, head |-> 0]
    BY DEF NoBranch
  <2>2. row \in Row
    BY <2>1, LiteralRows DEF Row
  <2> QED
    BY <2>1, <2>2, LiteralRows DEF Sound
<1>4. branch' \in [Branches -> Row] /\ \A o \in Branches : Known(o) => branch'[o] = branch[o]
  BY <1>1, <1>3 DEF StoreTypeOK
<1>5. tx' = NoTx /\ runtime' = d /\ UNCHANGED <<snapshot, plans, audit, fired, view, origin>>
  BY DEF Start
<1>6. NoTx \in Txs /\ NoTx.on = None
  BY LiteralRows DEF NoTx, Txs
<1>7. StoreTypeOK'
  BY <1>4, <1>5, <1>6 DEF StoreTypeOK, Txs
<1>8. RowsSound'
  <2>1. \A o \in Branches : Sound(branch'[o])
    BY <1>1, <1>3, <1>4 DEF RowsSound, StoreTypeOK
  <2> QED
    BY <2>1, <1>5 DEF RowsSound, Sound
<1>9. StepSound'
  BY <1>5, <1>6 DEF StepSound
<1>10. ViewsSound' /\ HeadIdentifiesState'
  <2>1. \A c \in Clients : view[c].on # None =>
          view[c].on \in Branches /\ branch'[view[c].on] = branch[view[c].on]
    BY <1>4 DEF StoreTypeOK, ViewsSound
  <2> QED
    BY <1>5, <2>1 DEF ViewsSound, HeadIdentifiesState, Known
<1>11. KeepsAccounts
  BY <1>5, PlansUntouched
<1> QED
  BY <1>7, <1>8, <1>9, <1>10, <1>11

\* A snapshot is as sound as the branch it copies.
LEMMA CreateSnapshotKeeps ==
  ASSUME StoreInv, NEW s \in Names, NEW b \in Branches, CreateSnapshot(s, b)
  PROVE  StoreInv' /\ KeepsAccounts
<1> USE DEF StoreInv
<1> DEFINE copy == [spec |-> branch[b].spec, state |-> branch[b].state,
                    clock |-> branch[b].clock, source |-> branch[b].head]
           Copies == [spec : Specs \cup {None}, state : State, clock : Nat, source : Nat]
<1>1. /\ snapshot' = [snapshot EXCEPT ![s] = copy] /\ tx.on = None
      /\ UNCHANGED <<branch, plans, audit, fired, runtime, tx, view, origin>>
  BY DEF CreateSnapshot, rowVars
<1>2. copy \in Copies
  BY ColumnTypes
<1>3. snapshot \in [Names -> Copies]
  BY DEF StoreTypeOK
<1>4. snapshot' \in [Names -> Copies]
  BY <1>1, <1>2, <1>3
<1>5. StoreTypeOK'
  BY <1>1, <1>4 DEF StoreTypeOK
<1>6. Sound(copy)
  BY DEF RowsSound, Sound
<1>7. \A t \in Names : Sound(snapshot'[t])
  BY <1>1, <1>3, <1>6 DEF RowsSound
<1>8. RowsSound'
  BY <1>1, <1>7 DEF RowsSound, Sound
<1>9. StepSound'
  BY <1>1 DEF StepSound
<1>10. ViewsSound' /\ HeadIdentifiesState'
  BY <1>1 DEF ViewsSound, HeadIdentifiesState, Known
<1>11. KeepsAccounts
  BY <1>1, PlansUntouched
<1> QED
  BY <1>5, <1>8, <1>9, <1>10, <1>11

\* A fork starts from a sound snapshot, and nobody has read it before.
LEMMA ForkKeeps ==
  ASSUME StoreInv, NEW s \in Names, NEW b \in Branches, Fork(s, b)
  PROVE  StoreInv' /\ KeepsAccounts
<1> USE DEF StoreInv
<1> DEFINE row == [spec |-> snapshot[s].spec, state |-> snapshot[s].state,
                   clock |-> snapshot[s].clock, calls |-> 0, head |-> 0]
<1>1. /\ tx.on = None /\ ~Known(b) /\ branch' = [branch EXCEPT ![b] = row]
      /\ origin' = [origin EXCEPT ![b] = snapshot[s].state.world]
      /\ UNCHANGED <<snapshot, plans, audit, fired, runtime, tx, view>>
  BY DEF Fork
<1>2. row \in Row /\ snapshot[s].state.world \in Nat
  BY SnapshotTypes DEF Row
<1>3. Sound(row)
  BY DEF RowsSound, Sound
<1>4. branch' \in [Branches -> Row] /\ \A o \in Branches : Known(o) => branch'[o] = branch[o]
  BY <1>1, <1>2 DEF StoreTypeOK
<1>5. StoreTypeOK'
  <2>1. origin' \in [Branches -> Nat]
    BY <1>1, <1>2 DEF StoreTypeOK
  <2> QED
    BY <1>1, <1>4, <2>1 DEF StoreTypeOK
<1>6. RowsSound'
  <2>1. \A o \in Branches : Sound(branch'[o])
    BY <1>1, <1>3 DEF RowsSound, StoreTypeOK
  <2> QED
    BY <1>1, <2>1 DEF RowsSound, Sound
<1>7. StepSound'
  BY <1>1 DEF StepSound
<1>8. ViewsSound' /\ HeadIdentifiesState'
  <2>1. \A c \in Clients : view[c].on # None =>
          view[c].on \in Branches /\ branch'[view[c].on] = branch[view[c].on]
    BY <1>4 DEF StoreTypeOK, ViewsSound
  <2> QED
    BY <1>1, <2>1 DEF ViewsSound, HeadIdentifiesState, Known
<1>9. KeepsAccounts
  BY <1>1, PlansUntouched
<1> QED
  BY <1>5, <1>6, <1>7, <1>8, <1>9

\* A reset restores a sound snapshot under the next head.
LEMMA ResetKeeps ==
  ASSUME StoreInv, NEW s \in Names, NEW b \in Branches, Reset(s, b)
  PROVE  StoreInv' /\ KeepsAccounts
<1> DEFINE row == ResetRow(s, b)
<1>1. StoreTypeOK /\ tx.on = None /\ Known(b) /\ tx \in Txs
  BY DEF StoreInv, Reset, Open, StoreTypeOK, Txs
<1>2. /\ branch' = [branch EXCEPT ![b] = row] /\ snapshot[s].spec # None
      /\ origin' = [origin EXCEPT ![b] = snapshot[s].state.world]
      /\ UNCHANGED <<snapshot, plans, audit, fired, runtime, tx, view>>
  BY DEF Reset
<1>3. /\ row.spec = snapshot[s].spec /\ row.state = snapshot[s].state
      /\ row.clock = snapshot[s].clock /\ row.head = branch[b].head + 1
  BY DEF ResetRow
<1>4. row \in Row /\ snapshot[s].state.world \in Nat
  <2>1. row = [spec |-> snapshot[s].spec, state |-> snapshot[s].state,
               clock |-> snapshot[s].clock, calls |-> 0, head |-> branch[b].head + 1]
    BY DEF ResetRow
  <2> HIDE DEF row
  <2> QED
    BY <1>1, <2>1, ColumnTypes, SnapshotTypes DEF Row
<1>5. Sound(row)
  BY <1>3 DEF StoreInv, RowsSound, Sound
<1>6. origin' \in [Branches -> Nat]
  BY <1>1, <1>2, <1>4 DEF StoreTypeOK
<1>7. /\ plans' \in [Branches -> Plans] /\ audit' \in [Branches -> Seq(AuditRows)]
      /\ fired' \in [Branches -> Seq(FaultEvents)]
  BY <1>1, <1>2 DEF StoreTypeOK, Plans
<1> HIDE DEF row
<1>8. StoreInv'
  BY <1>1, <1>2, <1>3, <1>4, <1>5, <1>6, <1>7, RowUpdate
<1> QED
  BY <1>1, <1>2, <1>8, PlansUntouched

\* A client's read is the current state of the branch.
LEMMA ReadKeeps ==
  ASSUME StoreInv, NEW c \in Clients, NEW b \in Branches, Read(c, b)
  PROVE  StoreInv' /\ KeepsAccounts
<1> USE DEF StoreInv
<1>1. /\ Known(b) /\ tx.on = None
      /\ view' = [view EXCEPT ![c] = [on |-> b, row |-> branch[b], plans |-> plans[b]]]
      /\ UNCHANGED <<branch, plans, audit, fired, snapshot, runtime, tx, origin>>
  BY DEF Read, rowVars
<1>2. StoreTypeOK'
  BY <1>1, ColumnTypes DEF StoreTypeOK
<1>3. RowsSound' /\ StepSound'
  BY <1>1 DEF RowsSound, StepSound, Sound
<1>4. /\ view'[c] = [on |-> b, row |-> branch[b], plans |-> plans[b]]
      /\ \A o \in Clients : o # c => view'[o] = view[o]
  BY <1>1 DEF StoreTypeOK
<1>5. ViewsSound'
  BY <1>1, <1>4, ColumnTypes DEF ViewsSound, Known
<1>6. HeadIdentifiesState'
  BY <1>1, <1>4 DEF HeadIdentifiesState
<1>7. KeepsAccounts
  BY <1>1, PlansUntouched
<1> QED
  BY <1>2, <1>3, <1>5, <1>6, <1>7

\* Installing a plan where none was leaves every other account alone.
LEMMA InstallFaultKeeps ==
  ASSUME StoreInv, NEW b \in Branches, NEW f \in FaultIds, NEW tool \in Tools,
         NEW phase \in Phases, NEW n \in 1..MaxFaultRepeats,
         InstallFault(b, f, tool, phase, n)
  PROVE  StoreInv' /\ KeepsAccounts
<1> DEFINE row == [branch[b] EXCEPT !.head = @ + 1]
           plan == [tool |-> tool, phase |-> phase, remaining |-> n, fired |-> 0]
<1>1. StoreTypeOK /\ tx.on = None /\ Known(b) /\ tx \in Txs /\ Sound(branch[b])
  BY DEF StoreInv, InstallFault, Open, StoreTypeOK, Txs, RowsSound
<1>2. /\ branch' = [branch EXCEPT ![b] = row] /\ plans[b][f] = NoPlan
      /\ plans' = [plans EXCEPT ![b][f] = plan]
      /\ UNCHANGED <<snapshot, audit, fired, runtime, tx, view, origin>>
  BY DEF InstallFault
<1>3. row \in Row /\ Sound(row) /\ row.head = branch[b].head + 1 /\ row.spec # None
  BY <1>1, ColumnTypes, NextHead DEF Known
<1>4. plans \in [Branches -> Plans] /\ plan \in Plan
  BY <1>1 DEF StoreTypeOK, Plans, Plan
<1>5. /\ plans' \in [Branches -> Plans]
      /\ \A o \in Branches, g \in FaultIds : o # b \/ g # f => plans'[o][g] = plans[o][g]
      /\ \A o \in Branches : o # b => plans'[o] = plans[o]
  BY <1>2, <1>4 DEF Plans
<1>6. audit' \in [Branches -> Seq(AuditRows)] /\ fired' \in [Branches -> Seq(FaultEvents)]
  BY <1>1, <1>2 DEF StoreTypeOK
<1>7. origin' \in [Branches -> Nat]
  BY <1>1, <1>2 DEF StoreTypeOK
<1> HIDE DEF row
<1>8. StoreInv'
  BY <1>1, <1>2, <1>3, <1>5, <1>6, <1>7, RowUpdate
<1>9. KeepsAccounts
  BY <1>1, <1>2, <1>5, FiredByType DEF KeepsAccounts
<1> QED
  BY <1>8, <1>9

\* So does removing one.
LEMMA RemoveFaultKeeps ==
  ASSUME StoreInv, NEW b \in Branches, NEW f \in FaultIds, RemoveFault(b, f)
  PROVE  StoreInv' /\ KeepsAccounts
<1> DEFINE row == [branch[b] EXCEPT !.head = @ + 1]
<1>1. StoreTypeOK /\ tx.on = None /\ Known(b) /\ tx \in Txs /\ Sound(branch[b])
  BY DEF StoreInv, RemoveFault, Open, StoreTypeOK, Txs, RowsSound
<1>2. /\ branch' = [branch EXCEPT ![b] = row]
      /\ plans' = [plans EXCEPT ![b][f] = NoPlan]
      /\ UNCHANGED <<snapshot, audit, fired, runtime, tx, view, origin>>
  BY DEF RemoveFault
<1>3. row \in Row /\ Sound(row) /\ row.head = branch[b].head + 1 /\ row.spec # None
  BY <1>1, ColumnTypes, NextHead DEF Known
<1>4. plans \in [Branches -> Plans] /\ NoPlan \in Plan
  BY <1>1, LiteralRows DEF StoreTypeOK, Plans
<1>5. /\ plans' \in [Branches -> Plans] /\ plans'[b][f] = NoPlan
      /\ \A o \in Branches, g \in FaultIds : o # b \/ g # f => plans'[o][g] = plans[o][g]
      /\ \A o \in Branches : o # b => plans'[o] = plans[o]
  BY <1>2, <1>4 DEF Plans
<1>6. audit' \in [Branches -> Seq(AuditRows)] /\ fired' \in [Branches -> Seq(FaultEvents)]
  BY <1>1, <1>2 DEF StoreTypeOK
<1>7. origin' \in [Branches -> Nat]
  BY <1>1, <1>2 DEF StoreTypeOK
<1> HIDE DEF row
<1>8. StoreInv'
  BY <1>1, <1>2, <1>3, <1>5, <1>6, <1>7, RowUpdate
<1>9. KeepsAccounts
  BY <1>1, <1>2, <1>5, FiredByType DEF KeepsAccounts
<1> QED
  BY <1>8, <1>9

-----------------------------------------------------------------------------
(***************************************************************************)
(* Tool calls.                                                             *)
(***************************************************************************)

\* One execution of a tool, in a call or in a step: its plans, fault events and
\* audit row are typed, and the accounts are kept.
LEMMA ExecutionAccounted ==
  ASSUME NEW ps \in Plans, NEW rows \in Seq(FaultEvents), NEW log \in Seq(AuditRows),
         NEW tool, NEW ok \in BOOLEAN, NEW index \in Nat, NEW by \in EventIds \cup {None}
  PROVE  LET o == Outcome(ps, tool, ok)
         IN /\ o.ok \in BOOLEAN /\ o.effect \in BOOLEAN /\ Effects(o) \in Nat
            /\ Usable(ps, o.fault)
            /\ Consume(ps, o.fault) \in Plans
            /\ rows \o FaultRows(index, o) \in Seq(FaultEvents)
            /\ Append(log, AuditRow(index, by, o)) \in Seq(AuditRows)
            /\ Accounted(ps, rows, Consume(ps, o.fault), rows \o FaultRows(index, o))
<1> DEFINE o == Outcome(ps, tool, ok)
<1>1. o.ok \in BOOLEAN /\ o.effect \in BOOLEAN /\ Usable(ps, o.fault)
  BY OutcomeShape
<1> HIDE DEF o
<1>2. Effects(o) \in Nat
  BY DEF Effects
<1>3. o.fault = 0 \/ o.fault \in FaultIds
  BY <1>1 DEF Usable
<1>4. Consume(ps, o.fault) \in Plans
  BY <1>1, ConsumeCounts
<1>5. AuditRow(index, by, o) \in AuditRows
  BY <1>1 DEF AuditRow, AuditRows
<1>6. Accounted(ps, rows, Consume(ps, o.fault), rows \o FaultRows(index, o))
  <2> SUFFICES ASSUME NEW f \in FaultIds
      PROVE /\ Consume(ps, o.fault)[f].remaining + Consume(ps, o.fault)[f].fired
                  = ps[f].remaining + ps[f].fired
            /\ FiredBy(rows \o FaultRows(index, o), f) - FiredBy(rows, f)
                  = Consume(ps, o.fault)[f].fired - ps[f].fired
    BY DEF Accounted
  <2>1. /\ Consume(ps, o.fault)[f].remaining + Consume(ps, o.fault)[f].fired
              = ps[f].remaining + ps[f].fired
        /\ Consume(ps, o.fault)[f].fired = ps[f].fired + (IF f = o.fault THEN 1 ELSE 0)
    BY <1>1, ConsumeCounts
  <2>2. /\ FiredBy(rows, f) \in Nat
        /\ FiredBy(rows \o FaultRows(index, o), f)
             = FiredBy(rows, f) + (IF o.fault = f THEN 1 ELSE 0)
    BY <1>3, FiredRowsCount
  <2>3. ps[f].fired \in Nat
    BY DEF Plans, Plan
  <2> QED
    BY <2>1, <2>2, <2>3
<1>7. rows \o FaultRows(index, o) \in Seq(FaultEvents)
  <2>1. CASE FaultIds = {}
    BY <1>3, <2>1 DEF FaultRows
  <2>2. CASE FaultIds # {}
    <3>1. PICK f \in FaultIds : TRUE
      BY <2>2
    <3> QED
      BY <1>3, <3>1, FiredRowsCount
  <2> QED
    BY <2>1, <2>2
<1> QED
  BY <1>1, <1>2, <1>4, <1>5, <1>6, <1>7 DEF o

\* A tool call writes effect, plan, audit and fault event together.
LEMMA ApplyCallKeeps ==
  ASSUME StoreInv, NEW b \in Branches, NEW tool \in Tools, NEW ok \in BOOLEAN,
         ApplyCall(b, tool, ok)
  PROVE  StoreInv' /\ KeepsAccounts
<1> DEFINE o == Outcome(plans[b], tool, ok)
           index == branch[b].calls + 1
           state == [branch[b].state EXCEPT !.world = @ + Effects(o)]
           row == [branch[b] EXCEPT !.state = state, !.calls = index, !.head = @ + 1]
<1>1. StoreTypeOK /\ tx.on = None /\ Known(b) /\ tx \in Txs /\ Sound(branch[b])
  BY DEF StoreInv, ApplyCall, Open, StoreTypeOK, Txs, RowsSound
<1>2. /\ branch' = [branch EXCEPT ![b].state.world = @ + Effects(o),
                                  ![b].calls = index, ![b].head = @ + 1]
      /\ plans' = [plans EXCEPT ![b] = Consume(@, o.fault)]
      /\ audit' = [audit EXCEPT ![b] = Append(@, AuditRow(index, None, o))]
      /\ fired' = [fired EXCEPT ![b] = @ \o FaultRows(index, o)]
      /\ UNCHANGED <<snapshot, runtime, tx, view, origin>>
  BY DEF ApplyCall
<1>3. branch' = [branch EXCEPT ![b] = row]
  BY <1>1, <1>2 DEF StoreTypeOK, Row, State
<1>4. /\ plans \in [Branches -> Plans] /\ plans[b] \in Plans
      /\ audit \in [Branches -> Seq(AuditRows)] /\ audit[b] \in Seq(AuditRows)
      /\ fired \in [Branches -> Seq(FaultEvents)] /\ fired[b] \in Seq(FaultEvents)
  BY <1>1 DEF StoreTypeOK, Plans
<1>5. index \in Nat
  BY <1>1, ColumnTypes
<1>6. /\ Effects(o) \in Nat /\ Consume(plans[b], o.fault) \in Plans
      /\ fired[b] \o FaultRows(index, o) \in Seq(FaultEvents)
      /\ Append(audit[b], AuditRow(index, None, o)) \in Seq(AuditRows)
      /\ Accounted(plans[b], fired[b], Consume(plans[b], o.fault),
                   fired[b] \o FaultRows(index, o))
  BY <1>4, <1>5, ExecutionAccounted
<1> HIDE DEF o, index
<1>7. row \in Row /\ Sound(row) /\ row.head = branch[b].head + 1 /\ row.spec # None
  <2>1. state = [world |-> branch[b].state.world + Effects(o),
                 events |-> branch[b].state.events, next |-> branch[b].state.next]
    BY <1>1, ColumnTypes DEF State
  <2>2. state \in State
    BY <1>1, <1>6, <2>1, ColumnTypes DEF State
  <2> HIDE DEF state
  <2>3. branch[b] \in Row /\ branch[b].head + 1 \in Nat
    BY <1>1, ColumnTypes
  <2>4. /\ row \in Row /\ row.state = state /\ row.spec = branch[b].spec
        /\ row.clock = branch[b].clock /\ row.head = branch[b].head + 1
    BY <1>5, <2>2, <2>3 DEF Row
  <2> HIDE DEF row
  <2>5. Sound(row)
    BY <1>1, <2>1, <2>4 DEF Sound
  <2> QED
    BY <1>1, <2>4, <2>5 DEF Known
<1>8. /\ plans' \in [Branches -> Plans] /\ audit' \in [Branches -> Seq(AuditRows)]
      /\ fired' \in [Branches -> Seq(FaultEvents)]
      /\ \A p \in Branches : p # b => plans'[p] = plans[p] /\ fired'[p] = fired[p]
      /\ plans'[b] = Consume(plans[b], o.fault)
      /\ fired'[b] = fired[b] \o FaultRows(index, o)
  BY <1>2, <1>4, <1>6
<1>9. origin' \in [Branches -> Nat]
  BY <1>1, <1>2 DEF StoreTypeOK
<1> HIDE DEF row
<1>10. StoreInv'
  BY <1>1, <1>2, <1>3, <1>7, <1>8, <1>9, RowUpdate
<1>11. KeepsAccounts
  <2> SUFFICES ASSUME NEW p \in Branches, NEW f \in FaultIds
      PROVE /\ plans'[p][f].remaining + plans'[p][f].fired
                  = plans[p][f].remaining + plans[p][f].fired
            /\ FiredBy(fired'[p], f) - FiredBy(fired[p], f)
                  = plans'[p][f].fired - plans[p][f].fired
    BY DEF KeepsAccounts
  <2>1. CASE p = b
    BY <1>6, <1>8, <2>1 DEF Accounted
  <2>2. CASE p # b
    BY <1>1, <1>8, <2>2, FiredByType
  <2> QED
    BY <2>1, <2>2
<1> QED
  BY <1>10, <1>11

-----------------------------------------------------------------------------
(***************************************************************************)
(* The scheduler.                                                          *)
(***************************************************************************)

\* A scheduler operation that writes only the branch row keeps the invariant
\* when the row stays typed and sound.
LEMMA RowOnly ==
  ASSUME StoreInv, NEW b \in Branches, Open(b),
         NEW row \in Row, Sound(row), row.head = branch[b].head + 1, row.spec = branch[b].spec,
         branch' = [branch EXCEPT ![b] = row],
         UNCHANGED <<snapshot, plans, audit, fired, runtime, tx, view, origin>>
  PROVE  StoreInv' /\ KeepsAccounts
<1>1. StoreTypeOK /\ tx.on = None /\ Known(b) /\ tx \in Txs
  BY DEF StoreInv, Open, StoreTypeOK, Txs
<1>2. /\ plans' \in [Branches -> Plans] /\ audit' \in [Branches -> Seq(AuditRows)]
      /\ fired' \in [Branches -> Seq(FaultEvents)] /\ origin' \in [Branches -> Nat]
  BY <1>1 DEF StoreTypeOK, Plans
<1>3. row.spec # None
  BY <1>1 DEF Known
<1>4. StoreInv'
  BY <1>1, <1>2, <1>3, RowUpdate
<1> QED
  BY <1>1, <1>4, PlansUntouched

\* A new event is due after the clock and bound to the branch's TwinSpec.
LEMMA ScheduleEventKeeps ==
  ASSUME StoreInv, NEW b \in Branches, NEW x \in EventIds, NEW due \in 0..MaxClock,
         NEW priority \in Priorities, NEW tool \in Tools,
         ScheduleEvent(b, x, due, priority, tool)
  PROVE  StoreInv' /\ KeepsAccounts
<1> DEFINE old == branch[b].state
           event == [status |-> Pending, due |-> due, priority |-> priority,
                     seq |-> old.next + 1,
                     tool |-> IF x \in Actions THEN tool ELSE None,
                     spec |-> IF x \in Actions THEN runtime ELSE None,
                     call |-> 0, effect |-> FALSE, phase |-> None]
           state == [old EXCEPT !.next = @ + 1, !.events = [@ EXCEPT ![x] = event]]
           row == [branch[b] EXCEPT !.state = state, !.head = @ + 1]
<1>1. StoreTypeOK /\ Open(b) /\ Sound(branch[b])
  BY DEF StoreInv, ScheduleEvent, RowsSound
<1>2. /\ x \in Actions => runtime = branch[b].spec
      /\ due > branch[b].clock
      /\ branch' = [branch EXCEPT ![b].state.next = @ + 1, ![b].state.events[x] = event,
                                  ![b].head = @ + 1]
      /\ UNCHANGED <<snapshot, plans, audit, fired, runtime, tx, view, origin>>
  BY DEF ScheduleEvent, DueAdmitted
<1>3. branch' = [branch EXCEPT ![b] = row]
  <2>1. branch \in [Branches -> Row] /\ branch[b] \in Row /\ old \in State
    BY <1>1, ColumnTypes DEF StoreTypeOK
  <2> QED
    BY <1>2, <2>1 DEF Row, State
<1>4. /\ branch[b] \in Row /\ old \in State /\ old.events \in [EventIds -> Event]
      /\ old.next + 1 \in Nat /\ branch[b].head + 1 \in Nat /\ due \in Nat
      /\ branch[b].clock \in Nat
  BY <1>1, ColumnTypes
<1>5. event \in Event
  <2>1. runtime \in Specs \cup {None}
    BY <1>1 DEF StoreTypeOK
  <2> QED
    BY <1>4, <2>1 DEF Event, Pending
<1>6. /\ event.status = Pending /\ event.due >= branch[b].clock
      /\ x \in Actions => event.spec = branch[b].spec
  BY <1>2, <1>4
<1> HIDE DEF event
<1>7. /\ state \in State /\ state.events[x] = event
      /\ \A y \in EventIds : y # x => state.events[y] = old.events[y]
  BY <1>4, <1>5 DEF State
<1> HIDE DEF state
<1>8. /\ row \in Row /\ row.state = state /\ row.spec = branch[b].spec
      /\ row.clock = branch[b].clock /\ row.head = branch[b].head + 1
  BY <1>4, <1>7 DEF Row
<1> HIDE DEF row
<1>9. Sound(row)
  BY <1>1, <1>6, <1>7, <1>8 DEF Sound
<1> QED
  BY <1>1, <1>2, <1>3, <1>8, <1>9, RowOnly

\* Cancelling ends a pending event.
LEMMA CancelScheduledEventKeeps ==
  ASSUME StoreInv, NEW b \in Branches, NEW x \in EventIds, CancelScheduledEvent(b, x)
  PROVE  StoreInv' /\ KeepsAccounts
<1> DEFINE old == branch[b].state
           event == [old.events[x] EXCEPT !.status = "canceled"]
           state == [old EXCEPT !.events = [@ EXCEPT ![x] = event]]
           row == [branch[b] EXCEPT !.state = state, !.head = @ + 1]
<1>1. StoreTypeOK /\ Open(b) /\ Sound(branch[b])
  BY DEF StoreInv, CancelScheduledEvent, RowsSound
<1>2. /\ branch' = [branch EXCEPT ![b].state.events[x].status = "canceled", ![b].head = @ + 1]
      /\ UNCHANGED <<snapshot, plans, audit, fired, runtime, tx, view, origin>>
  BY DEF CancelScheduledEvent
<1>3. branch' = [branch EXCEPT ![b] = row]
  BY <1>1, <1>2 DEF StoreTypeOK, Row, State
<1>4. /\ branch[b] \in Row /\ old \in State /\ old.events \in [EventIds -> Event]
      /\ branch[b].head + 1 \in Nat
  BY <1>1, ColumnTypes
<1>5. event \in Event /\ event.status # Pending
  BY <1>4, EndedEvent DEF Statuses, Pending
<1> HIDE DEF event
<1>6. /\ state \in State /\ state.events[x] = event
      /\ \A y \in EventIds : y # x => state.events[y] = old.events[y]
  BY <1>4, <1>5 DEF State
<1> HIDE DEF state
<1>7. /\ row \in Row /\ row.state = state /\ row.spec = branch[b].spec
      /\ row.clock = branch[b].clock /\ row.head = branch[b].head + 1
  BY <1>4, <1>6 DEF Row
<1> HIDE DEF row
<1>8. Sound(row)
  BY <1>1, <1>5, <1>6, <1>7, FewerPendingSound
<1> QED
  BY <1>1, <1>2, <1>3, <1>7, <1>8, RowOnly

\* An advance delivers what is due, so what stays pending is due later.
LEMMA AdvanceClockKeeps ==
  ASSUME StoreInv, NEW b \in Branches, NEW target \in Nat, AdvanceClock(b, target)
  PROVE  StoreInv' /\ KeepsAccounts
<1> DEFINE old == branch[b].state
           due == DueBy(old, target)
           occurred == [x \in EventIds |->
              IF x \in due THEN [old.events[x] EXCEPT !.status = "delivered"] ELSE old.events[x]]
           state == [old EXCEPT !.events = occurred]
           row == [branch[b] EXCEPT !.clock = target, !.state = state, !.head = @ + 1]
<1>1. StoreTypeOK /\ Open(b) /\ Sound(branch[b])
  BY DEF StoreInv, AdvanceClock, RowsSound
<1>2. /\ target > branch[b].clock
      /\ branch' = [branch EXCEPT ![b].clock = target,
           ![b].state.events = [x \in EventIds |->
             IF x \in due THEN [@[x] EXCEPT !.status = "delivered"] ELSE @[x]],
           ![b].head = @ + 1]
      /\ UNCHANGED <<snapshot, plans, audit, fired, runtime, tx, view, origin>>
  BY DEF AdvanceClock
<1>3. branch' = [branch EXCEPT ![b] = row]
  BY <1>1, <1>2 DEF StoreTypeOK, Row, State
<1>4. /\ branch[b] \in Row /\ old \in State /\ old.events \in [EventIds -> Event]
      /\ branch[b].head + 1 \in Nat
      /\ \A x \in EventIds : old.events[x] \in Event /\ old.events[x].due \in Nat
  BY <1>1, ColumnTypes
<1>5. \A x \in EventIds : /\ occurred[x] \in Event
                          /\ x \in due => occurred[x].status # Pending
                          /\ x \notin due => occurred[x] = old.events[x]
  BY <1>4, EndedEvent, ZenonT(60) DEF Statuses, Processed, Pending
<1>6. occurred \in [EventIds -> Event]
  BY <1>5
<1>7. \A x \in EventIds : occurred[x].status = Pending =>
        occurred[x] = old.events[x] /\ old.events[x].due > target
  BY <1>4, <1>5 DEF DueBy, PendingEvents
<1> HIDE DEF occurred
<1>8. state \in State /\ state.events = occurred
  BY <1>4, <1>6 DEF State
<1> HIDE DEF state
<1>9. /\ row \in Row /\ row.state = state /\ row.spec = branch[b].spec
      /\ row.clock = target /\ row.head = branch[b].head + 1
  BY <1>4, <1>8 DEF Row
<1> HIDE DEF row
<1>10. Sound(row)
  <2> SUFFICES ASSUME NEW x \in EventIds, row.state.events[x].status = Pending
               PROVE  /\ row.state.events[x].due >= row.clock
                      /\ x \in Actions => row.state.events[x].spec = row.spec
    BY DEF Sound
  <2>1. row.state.events[x] = old.events[x] /\ old.events[x].due > target
    BY <1>7, <1>8, <1>9
  <2> QED
    BY <1>1, <1>4, <1>9, <2>1 DEF Sound
<1> QED
  BY <1>1, <1>2, <1>3, <1>9, <1>10, RowOnly

\* An advance computed from a stale read is an advance.
LEMMA AdvanceByKeeps ==
  ASSUME StoreInv, NEW c \in Clients, NEW d \in 1..MaxClock, NEW checked \in BOOLEAN,
         AdvanceBy(c, d, checked)
  PROVE  StoreInv' /\ KeepsAccounts
<1>1. view[c].on \in Branches /\ view[c].row.clock \in Nat
  BY DEF StoreInv, StoreTypeOK, AdvanceBy, Row
<1>2. view[c].row.clock + d \in Nat
  BY <1>1
<1>3. AdvanceClock(view[c].on, view[c].row.clock + d)
  BY DEF AdvanceBy
<1> QED
  BY <1>1, <1>2, <1>3, AdvanceClockKeeps

-----------------------------------------------------------------------------
(***************************************************************************)
(* The scheduler step.                                                     *)
(***************************************************************************)

\* The working copy of a step has its types.
LEMMA StepTypes ==
  ASSUME StoreTypeOK
  PROVE  /\ tx \in Txs /\ tx.row \in Row /\ tx.row.state \in State
         /\ tx.row.state.events \in [EventIds -> Event]
         /\ tx.plans \in Plans /\ tx.audit \in Seq(AuditRows) /\ tx.fired \in Seq(FaultEvents)
         /\ tx.row.calls \in Nat /\ tx.row.head \in Nat /\ tx.row.state.world \in Nat
         /\ tx.on # None => tx.on \in Branches
<1>1. tx \in Txs
  BY DEF StoreTypeOK, Txs
<1>2. tx.row \in Row /\ tx.plans \in Plans /\ (tx.on # None => tx.on \in Branches)
  BY <1>1 DEF Txs, Plans
<1>3. tx.row.state \in State /\ tx.row.calls \in Nat /\ tx.row.head \in Nat
  BY <1>2 DEF Row
<1>4. tx.row.state.events \in [EventIds -> Event] /\ tx.row.state.world \in Nat
  BY <1>3 DEF State
<1>5. tx.audit \in Seq(AuditRows) /\ tx.fired \in Seq(FaultEvents)
  BY <1>1 DEF Txs
<1> QED
  BY <1>1, <1>2, <1>3, <1>4, <1>5

\* Fault events in the working copy are counted by natural numbers.
LEMMA WorkingCounts ==
  ASSUME NEW ps \in Plans, NEW rows \in Seq(FaultEvents), NEW f \in FaultIds
  PROVE  FiredBy(rows, f) \in Nat /\ ps[f].fired \in Nat /\ ps[f].remaining \in Nat
<1>1. FiredBy(rows, f) \in Nat
  BY FiredRowsCount, [fault |-> 0].fault = 0
<1> QED
  BY <1>1 DEF Plans, Plan

\* Pending events have an earliest instant, and it is the one a step selects.
LEMMA EarliestInstant ==
  ASSUME NEW state \in State, PendingEvents(state) # {}
  PROVE  LET due == state.events[CHOOSE x \in EarliestDue(state) : TRUE].due
         IN /\ due \in Nat
            /\ \A y \in PendingEvents(state) : due <= state.events[y].due
<1> DEFINE instants == {state.events[y].due : y \in PendingEvents(state)}
<1>1. \A y \in PendingEvents(state) : state.events[y].due \in Nat
  <2>1. \A y \in EventIds : state.events[y] \in Event
    BY DEF State
  <2> QED
    BY <2>1 DEF PendingEvents, Event
<1>2. PICK first \in instants : \A t \in instants : first <= t
  BY <1>1, LeastExists
<1>3. PICK x \in PendingEvents(state) : state.events[x].due = first
  BY <1>2
<1>4. x \in EarliestDue(state)
  BY <1>2, <1>3 DEF EarliestDue
<1>5. (CHOOSE z \in EarliestDue(state) : TRUE) \in EarliestDue(state)
  BY <1>4
<1> QED
  BY <1>1, <1>5 DEF EarliestDue

\* A step starts from the row of its branch, at the earliest pending instant.
LEMMA BeginStepKeeps ==
  ASSUME StoreInv, NEW b \in Branches, NEW backed \in BOOLEAN, BeginStep(b, backed)
  PROVE  StoreInv' /\ KeepsAccounts
<1> DEFINE state == branch[b].state
           due == state.events[CHOOSE x \in EarliestDue(state) : TRUE].due
           clock == IF due > branch[b].clock THEN due ELSE branch[b].clock
           row == [branch[b] EXCEPT !.clock = clock]
<1>1. StoreTypeOK /\ Known(b) /\ Sound(branch[b])
  BY DEF StoreInv, BeginStep, Open, RowsSound
<1>2. /\ PendingEvents(state) # {}
      /\ tx' = [on |-> b, todo |-> Batch(state), row |-> row,
                plans |-> plans[b], audit |-> audit[b], fired |-> fired[b]]
      /\ UNCHANGED <<rowVars, snapshot, runtime, view, origin>>
  BY DEF BeginStep
<1>3. branch[b] \in Row /\ state \in State /\ branch[b].clock \in Nat
  BY <1>1, ColumnTypes
<1>4. due \in Nat /\ \A y \in PendingEvents(state) : due <= state.events[y].due
  BY <1>2, <1>3, EarliestInstant
<1>5. clock \in Nat
  BY <1>3, <1>4
<1>6. \A x \in EventIds : state.events[x].status = Pending => state.events[x].due >= clock
  <2> SUFFICES ASSUME NEW x \in EventIds, state.events[x].status = Pending
               PROVE  state.events[x].due >= clock
    OBVIOUS
  <2>1. x \in PendingEvents(state) /\ state.events[x].due \in Nat
    BY <1>1, ColumnTypes DEF PendingEvents
  <2>2. state.events[x].due >= branch[b].clock
    BY <1>1 DEF Sound
  <2> QED
    BY <1>3, <1>4, <2>1, <2>2
<1> HIDE DEF due, clock
<1>7. /\ row \in Row /\ row.state = state /\ row.clock = clock
      /\ row.spec = branch[b].spec /\ row.head = branch[b].head
  BY <1>3, <1>5 DEF Row
<1> HIDE DEF row
<1>8. Sound(row)
  BY <1>1, <1>6, <1>7 DEF Sound
<1>9. /\ plans[b] \in Plans /\ audit[b] \in Seq(AuditRows) /\ fired[b] \in Seq(FaultEvents)
      /\ Batch(state) \in SUBSET EventIds
  BY <1>1 DEF StoreTypeOK, Plans, Batch, EarliestDue, PendingEvents
<1>10. tx' \in Txs
  BY <1>2, <1>7, <1>9 DEF Txs, Plans
<1>11. Accounted(plans[b], fired[b], plans[b], fired[b])
  BY <1>9, WorkingCounts DEF Accounted
<1>12. StoreInv'
  BY <1>1, <1>2, <1>7, <1>8, <1>10, <1>11, StepUpdate
<1> QED
  BY <1>1, <1>2, <1>12, PlansUntouched DEF rowVars

\* Delivering a signal ends a pending event of the working copy.
LEMMA StepSignalKeeps ==
  ASSUME StoreInv, NEW x \in EventIds, StepSignal(x)
  PROVE  StoreInv' /\ KeepsAccounts
<1> DEFINE old == tx.row.state
           event == [old.events[x] EXCEPT !.status = "delivered"]
           state == [old EXCEPT !.events = [@ EXCEPT ![x] = event]]
           row == [tx.row EXCEPT !.state = state]
           step == [tx EXCEPT !.todo = @ \ {x}, !.row = row]
<1>1. StoreTypeOK /\ tx.on # None /\ StepSound
  BY DEF StoreInv, StepSignal
<1>2. /\ tx' = [tx EXCEPT !.todo = @ \ {x}, !.row.state.events[x].status = "delivered"]
      /\ UNCHANGED <<rowVars, snapshot, runtime, view, origin>>
  BY DEF StepSignal
<1>3. /\ tx \in Txs /\ tx.row \in Row /\ old \in State /\ old.events \in [EventIds -> Event]
  BY <1>1, StepTypes
<1>4. tx' = step
  BY <1>2, <1>3 DEF Txs, Row, State
<1>5. event \in Event /\ event.status # Pending
  <2>1. old.events[x] \in Event
    BY <1>3
  <2>2. "delivered" \in Statuses /\ "delivered" # Pending
    BY DEF Statuses, Processed, Pending
  <2> QED
    BY <2>1, <2>2, EndedEvent
<1> HIDE DEF event
<1>6. /\ state \in State /\ state.events[x] = event
      /\ \A y \in EventIds : y # x => state.events[y] = old.events[y]
  BY <1>3, <1>5 DEF State
<1> HIDE DEF state
<1>7. /\ row \in Row /\ row.state = state /\ row.spec = tx.row.spec
      /\ row.clock = tx.row.clock /\ row.head = tx.row.head
  BY <1>3, <1>6 DEF Row
<1> HIDE DEF row
<1>8. Sound(row)
  BY <1>1, <1>5, <1>6, <1>7, FewerPendingSound DEF StepSound
<1>9. /\ step \in Txs /\ step.on = tx.on /\ step.row = row
      /\ step.plans = tx.plans /\ step.fired = tx.fired
  BY <1>3, <1>7 DEF Txs
<1>10. StoreInv'
  <2> HIDE DEF step
  <2> QED
    BY <1>1, <1>2, <1>4, <1>7, <1>8, <1>9, StepUpdate DEF StepSound
<1> QED
  BY <1>1, <1>2, <1>10, PlansUntouched DEF rowVars

\* Accounts kept twice are kept.
LEMMA AccountedTransitive ==
  ASSUME NEW ps \in Plans, NEW qs \in Plans, NEW rs \in Plans,
         NEW rows \in Seq(FaultEvents), NEW more \in Seq(FaultEvents),
         NEW most \in Seq(FaultEvents),
         Accounted(ps, rows, qs, more), Accounted(qs, more, rs, most)
  PROVE  Accounted(ps, rows, rs, most)
<1> SUFFICES ASSUME NEW f \in FaultIds
    PROVE /\ rs[f].remaining + rs[f].fired = ps[f].remaining + ps[f].fired
          /\ FiredBy(most, f) - FiredBy(rows, f) = rs[f].fired - ps[f].fired
  BY DEF Accounted
<1>1. /\ FiredBy(rows, f) \in Nat /\ FiredBy(more, f) \in Nat /\ FiredBy(most, f) \in Nat
      /\ ps[f].fired \in Nat /\ qs[f].fired \in Nat /\ rs[f].fired \in Nat
  BY WorkingCounts
<1> QED
  BY <1>1 DEF Accounted

\* Executing an action ends a pending event and accounts for its fault.
LEMMA StepActionKeeps ==
  ASSUME StoreInv, NEW x \in EventIds, NEW ok \in BOOLEAN, StepAction(x, ok)
  PROVE  StoreInv' /\ KeepsAccounts
<1> DEFINE old == tx.row.state
           o == Outcome(tx.plans, old.events[x].tool, ok)
           status == IF o.ok THEN "completed" ELSE "failed"
           phase == IF o.fault = 0 THEN None ELSE tx.plans[o.fault].phase
           event == Executed(x, o)
           state == [old EXCEPT !.world = @ + Effects(o), !.events[x] = event]
           row == [tx.row EXCEPT !.calls = NextCall, !.state = state]
           step == [tx EXCEPT !.todo = @ \ {x}, !.row = row,
                              !.plans = Consume(@, o.fault),
                              !.audit = Append(@, AuditRow(NextCall, x, o)),
                              !.fired = @ \o FaultRows(NextCall, o)]
<1>1. StoreTypeOK /\ tx.on # None /\ StepSound
  BY DEF StoreInv, StepAction
<1>2. /\ tx' = Execute(x, o)
      /\ UNCHANGED <<rowVars, snapshot, runtime, view, origin>>
  BY DEF StepAction
<1>3. /\ tx \in Txs /\ tx.row \in Row /\ old \in State /\ old.events \in [EventIds -> Event]
      /\ old.events[x] \in Event /\ old.world \in Nat
      /\ tx.plans \in Plans /\ tx.audit \in Seq(AuditRows) /\ tx.fired \in Seq(FaultEvents)
      /\ NextCall \in Nat /\ tx.on \in Branches
  BY <1>1, StepTypes DEF NextCall
<1>4. /\ o.ok \in BOOLEAN /\ o.effect \in BOOLEAN /\ Effects(o) \in Nat
      /\ Usable(tx.plans, o.fault)
      /\ Consume(tx.plans, o.fault) \in Plans
      /\ tx.fired \o FaultRows(NextCall, o) \in Seq(FaultEvents)
      /\ Append(tx.audit, AuditRow(NextCall, x, o)) \in Seq(AuditRows)
      /\ Accounted(tx.plans, tx.fired, Consume(tx.plans, o.fault),
                   tx.fired \o FaultRows(NextCall, o))
  BY <1>3, ExecutionAccounted, SMTT(40)
<1> HIDE DEF o
<1>5. tx' = step
  BY <1>2, <1>3 DEF Execute
<1>6. phase \in Phases \cup {None} /\ status \in Statuses /\ status # Pending
  <2>1. o.fault = 0 \/ tx.plans[o.fault] \in Plan
    BY <1>3, <1>4 DEF Usable, Plans
  <2> QED
    BY <2>1 DEF Plan, Statuses, Processed, Pending
<1> HIDE DEF phase, status
<1>7. event \in Event /\ event.status # Pending
  <2> USE DEF Executed
  <2>1. event.status = status
    BY <1>3 DEF Event, status
  <2>2. event \in Event
    BY <1>3, <1>4, <1>6, ZenonT(60) DEF Event, Statuses, status, phase
  <2> QED
    BY <1>6, <2>1, <2>2
<1> HIDE DEF event
<1>8. /\ state \in State /\ state.events[x] = event
      /\ \A y \in EventIds : y # x => state.events[y] = old.events[y]
  <2>1. old.world + Effects(o) \in Nat
    BY <1>3, <1>4
  <2>2. state = [old EXCEPT !.world = old.world + Effects(o),
                            !.events = [old.events EXCEPT ![x] = event]]
    OBVIOUS
  <2> QED
    BY <1>3, <1>7, <2>1, <2>2 DEF State
<1> HIDE DEF state
<1>9. /\ row \in Row /\ row.state = state /\ row.spec = tx.row.spec
      /\ row.clock = tx.row.clock /\ row.head = tx.row.head
  BY <1>3, <1>8 DEF Row
<1> HIDE DEF row
<1>10. Sound(row)
  BY <1>1, <1>7, <1>8, <1>9, FewerPendingSound DEF StepSound
<1>11. /\ step \in Txs /\ step.on = tx.on /\ step.row = row
       /\ step.plans = Consume(tx.plans, o.fault)
       /\ step.fired = tx.fired \o FaultRows(NextCall, o)
  BY <1>3, <1>4, <1>9 DEF Txs, Plans
<1> HIDE DEF step
<1>12. plans[tx.on] \in Plans /\ fired[tx.on] \in Seq(FaultEvents)
  BY <1>1, <1>3 DEF StoreTypeOK, Plans
<1>13. Accounted(plans[tx.on], fired[tx.on], step.plans, step.fired)
  <2>1. Accounted(plans[tx.on], fired[tx.on], tx.plans, tx.fired)
    BY <1>1 DEF StepSound
  <2>2. Accounted(tx.plans, tx.fired, step.plans, step.fired)
    BY <1>4, <1>11
  <2>3. step.plans \in Plans /\ step.fired \in Seq(FaultEvents)
    BY <1>4, <1>11
  <2> QED
    BY <1>3, <1>12, <2>1, <2>2, <2>3, AccountedTransitive
<1>14. StoreInv'
  BY <1>1, <1>2, <1>5, <1>9, <1>10, <1>11, <1>13, StepUpdate DEF StepSound
<1> QED
  BY <1>1, <1>2, <1>14, PlansUntouched DEF rowVars

\* A rollback leaves every table as it was.
LEMMA AbortStepKeeps ==
  ASSUME StoreInv, AbortStep
  PROVE  StoreInv' /\ KeepsAccounts
<1>1. tx' = NoTx /\ UNCHANGED <<rowVars, snapshot, runtime, view, origin>>
  BY DEF AbortStep
<1>2. NoTx \in Txs /\ NoTx.on = None
  BY LiteralRows DEF NoTx, Txs
<1>3. StoreInv'
  BY <1>1, <1>2, StepUpdate
<1> QED
  BY <1>1, <1>3, PlansUntouched DEF rowVars, StoreInv

\* A commit writes the sound working copy under the next head.
LEMMA CommitStepKeeps ==
  ASSUME StoreInv, CommitStep
  PROVE  StoreInv' /\ KeepsAccounts
<1> DEFINE b == tx.on
           row == [tx.row EXCEPT !.head = @ + 1]
<1>1. StoreTypeOK /\ StepSound /\ b # None
  BY DEF StoreInv, CommitStep
<1>2. /\ branch' = [branch EXCEPT ![b] = row] /\ plans' = [plans EXCEPT ![b] = tx.plans]
      /\ audit' = [audit EXCEPT ![b] = tx.audit] /\ fired' = [fired EXCEPT ![b] = tx.fired]
      /\ tx' = NoTx /\ UNCHANGED <<snapshot, runtime, view, origin>>
  BY DEF CommitStep
<1>3. /\ b \in Branches /\ tx.row \in Row /\ tx.plans \in Plans
      /\ tx.audit \in Seq(AuditRows) /\ tx.fired \in Seq(FaultEvents)
  BY <1>1, StepTypes
<1>4. /\ Known(b) /\ tx.row.spec = branch[b].spec /\ tx.row.head = branch[b].head
      /\ Sound(tx.row) /\ Accounted(plans[b], fired[b], tx.plans, tx.fired)
  BY <1>1 DEF StepSound
<1>5. row \in Row /\ Sound(row) /\ row.head = branch[b].head + 1 /\ row.spec # None
  BY <1>3, <1>4, NextHead DEF Known
<1>6. NoTx \in Txs /\ NoTx.on = None
  BY LiteralRows DEF NoTx, Txs
<1>7. /\ plans \in [Branches -> Plans] /\ audit \in [Branches -> Seq(AuditRows)]
      /\ fired \in [Branches -> Seq(FaultEvents)] /\ origin' \in [Branches -> Nat]
  BY <1>1, <1>2 DEF StoreTypeOK, Plans
<1>8. /\ plans' \in [Branches -> Plans] /\ audit' \in [Branches -> Seq(AuditRows)]
      /\ fired' \in [Branches -> Seq(FaultEvents)]
      /\ \A o \in Branches : o # b => plans'[o] = plans[o] /\ fired'[o] = fired[o]
      /\ plans'[b] = tx.plans /\ fired'[b] = tx.fired
  BY <1>2, <1>3, <1>7
<1> HIDE DEF row, b
<1>9. StoreInv'
  BY <1>2, <1>3, <1>4, <1>5, <1>6, <1>7, <1>8, RowUpdate
<1>10. KeepsAccounts
  <2> SUFFICES ASSUME NEW p \in Branches, NEW f \in FaultIds
      PROVE /\ plans'[p][f].remaining + plans'[p][f].fired
                  = plans[p][f].remaining + plans[p][f].fired
            /\ FiredBy(fired'[p], f) - FiredBy(fired[p], f)
                  = plans'[p][f].fired - plans[p][f].fired
    BY DEF KeepsAccounts
  <2>1. CASE p = b
    BY <1>4, <1>8, <2>1 DEF Accounted
  <2>2. CASE p # b
    BY <1>1, <1>8, <2>2, FiredByType
  <2> QED
    BY <2>1, <2>2
<1> QED
  BY <1>9, <1>10

-----------------------------------------------------------------------------
(***************************************************************************)
(* The theorems.                                                           *)
(***************************************************************************)

\* Every step of the store keeps the invariant and the accounts of the faults.
LEMMA StepKeeps ==
  ASSUME StoreInv, [StoreNext]_storeVars
  PROVE  StoreInv' /\ KeepsAccounts
<1>1. CASE UNCHANGED storeVars
  <2> USE <1>1 DEF storeVars
  <2>1. StoreTypeOK'
    BY DEF StoreInv, StoreTypeOK
  <2>2. RowsSound' /\ StepSound'
    BY DEF StoreInv, RowsSound, StepSound, Known, Sound, Accounted, FiredBy
  <2>3. ViewsSound' /\ HeadIdentifiesState'
    BY DEF StoreInv, ViewsSound, HeadIdentifiesState, Known
  <2> QED
    BY <2>1, <2>2, <2>3, PlansUntouched DEF StoreInv
<1>2. ASSUME NEW d \in Specs, NEW b \in Branches, Start(d, b)
      PROVE  StoreInv' /\ KeepsAccounts
  BY <1>2, StartKeeps
<1>3. ASSUME NEW s \in Names, NEW b \in Branches,
             CreateSnapshot(s, b) \/ Fork(s, b) \/ Reset(s, b)
      PROVE  StoreInv' /\ KeepsAccounts
  BY <1>3, CreateSnapshotKeeps, ForkKeeps, ResetKeeps
<1>4. ASSUME NEW c \in Clients, NEW b \in Branches, Read(c, b)
      PROVE  StoreInv' /\ KeepsAccounts
  BY <1>4, ReadKeeps
<1>5. ASSUME NEW b \in Branches, NEW f \in FaultIds,
             \/ \E tool \in Tools, phase \in Phases,
                   n \in 1..MaxFaultRepeats : InstallFault(b, f, tool, phase, n)
             \/ RemoveFault(b, f)
      PROVE  StoreInv' /\ KeepsAccounts
  BY <1>5, InstallFaultKeeps, RemoveFaultKeeps
<1>6. ASSUME NEW b \in Branches, NEW tool \in Tools, NEW ok \in BOOLEAN,
             ApplyCall(b, tool, ok)
      PROVE  StoreInv' /\ KeepsAccounts
  BY <1>6, ApplyCallKeeps
<1>7. ASSUME NEW b \in Branches, NEW x \in EventIds, NEW due \in 0..MaxClock,
             NEW priority \in Priorities, NEW tool \in Tools,
             ScheduleEvent(b, x, due, priority, tool)
      PROVE  StoreInv' /\ KeepsAccounts
  BY <1>7, ScheduleEventKeeps
<1>8. ASSUME NEW b \in Branches, NEW x \in EventIds, CancelScheduledEvent(b, x)
      PROVE  StoreInv' /\ KeepsAccounts
  BY <1>8, CancelScheduledEventKeeps
<1>9. ASSUME NEW b \in Branches, NEW target \in 0..MaxClock, AdvanceClock(b, target)
      PROVE  StoreInv' /\ KeepsAccounts
  <2>1. target \in Nat
    OBVIOUS
  <2> QED
    BY <1>9, <2>1, AdvanceClockKeeps
<1>10. ASSUME NEW c \in Clients, NEW d \in 1..MaxClock, NEW checked \in BOOLEAN,
              AdvanceBy(c, d, checked)
       PROVE  StoreInv' /\ KeepsAccounts
  BY <1>10, AdvanceByKeeps
<1>11. ASSUME NEW b \in Branches, NEW backed \in BOOLEAN, BeginStep(b, backed)
       PROVE  StoreInv' /\ KeepsAccounts
  BY <1>11, BeginStepKeeps
<1>12. ASSUME NEW x \in EventIds, NEW ok \in BOOLEAN, StepSignal(x) \/ StepAction(x, ok)
       PROVE  StoreInv' /\ KeepsAccounts
  BY <1>12, StepSignalKeeps, StepActionKeeps
<1>13. CASE CommitStep \/ AbortStep
  BY <1>13, CommitStepKeeps, AbortStepKeeps
<1> QED
  BY <1>1, <1>2, <1>3, <1>4, <1>5, <1>6, <1>7, <1>8, <1>9, <1>10, <1>11, <1>12, <1>13
     DEF StoreNext

\* The inductive invariant holds throughout every behaviour of the store.
THEOREM StoreInvariant == StoreSpec => []StoreInv
<1>1. StoreInit => StoreInv
  BY InitEstablishesStoreInv
<1>2. StoreInv /\ [StoreNext]_storeVars => StoreInv'
  BY StepKeeps
<1> QED
  BY <1>1, <1>2, PTL DEF StoreSpec

\* Every column of every table, of the step in progress and of what clients
\* have read keeps its type through calls, steps, forks and resets.
THEOREM StoreTypeCorrect == StoreSpec => []StoreTypeOK
<1>1. StoreInv => StoreTypeOK
  BY DEF StoreInv
<1> QED
  BY <1>1, StoreInvariant, PTL

\* The head a client has read is current only while the row and the fault plans
\* of the branch are the ones it read (expectedHeadVersion).
THEOREM HeadsIdentifyStates == StoreSpec => []HeadIdentifiesState
<1>1. StoreInv => HeadIdentifiesState
  BY DEF StoreInv
<1> QED
  BY <1>1, StoreInvariant, PTL

\* No advance, step, fork or reset puts a branch clock past a pending event.
THEOREM NothingIsOverdue == StoreSpec => []NothingOverdue
<1>1. StoreInv => NothingOverdue
  BY DEF StoreInv, RowsSound, Sound, NothingOverdue
<1> QED
  BY <1>1, StoreInvariant, PTL

\* A pending action is bound to the TwinSpec of the branch it is pending on,
\* whichever snapshots branches were forked from or reset to.
THEOREM PendingActionsAreBound == StoreSpec => []PendingActionsBound
<1>1. StoreInv => PendingActionsBound
  BY StoreAssumption DEF StoreInv, RowsSound, Sound, PendingActionsBound
<1> QED
  BY <1>1, StoreInvariant, PTL

\* takeFault is neither undone nor doubled: no step, whether it commits, rolls
\* back or is cut by a restart, loses a firing or its fault event.
THEOREM FaultsAreAccounted == StoreSpec => FaultsAccounted
<1>1. StoreInv /\ [StoreNext]_storeVars => [KeepsAccounts]_storeVars
  BY StepKeeps
<1>2. StoreSpec => [][KeepsAccounts]_storeVars
  BY <1>1, StoreInvariant, PTL DEF StoreSpec
<1> QED
  BY <1>2 DEF FaultsAccounted, KeepsAccounts

-----------------------------------------------------------------------------
(***************************************************************************)
(* The history of a branch: what its schedule and its audit say of the     *)
(* operations that made its row.                                           *)
(***************************************************************************)

\* The event x as the lifecycle validators of its kind accept it.
Admitted(state, x) ==
  IF x \in Actions THEN ActionAdmitted(state.events[x]) ELSE SignalAdmitted(state.events[x])

\* A schedule, at a clock, that the operations of the store can have made: the
\* next read accepts it, what was processed was due by the clock, and it comes
\* before everything still pending.
Lived(state, clock) ==
  /\ IsFiniteSet(Present(state))
  /\ StateAdmitted(state)
  /\ \A x \in EventIds : state.events[x].status \in Processed =>
       /\ state.events[x].due <= clock
       /\ \A y \in PendingEvents(state) : Before(state, x, y)

\* The audit row of a branch row's call i, in the log of its branch.
Recorded(row, log, i) == log[Len(log) - row.calls + i]

\* The row i names no event, or the event whose outcome it recorded.
Executes(row, log, i) ==
  LET record == Recorded(row, log, i)
      event == row.state.events[record.by]
  IN record.by # None =>
       /\ record.by \in EventIds
       /\ event.call = i
       /\ event.status = (IF record.ok THEN "completed" ELSE "failed")

\* The calls of a row, in a log, that committed an effect.
EffectCalls(row, log) == {i \in 1..row.calls : Recorded(row, log, i).effect}

\* A branch row that the last rows of a log explain, from the world it started with.
Audited(row, log, start) ==
  /\ row.calls <= Len(log)
  /\ \A i \in 1..row.calls : Recorded(row, log, i).index = i /\ Executes(row, log, i)
  /\ row.state.world = start + Cardinality(EffectCalls(row, log))

RowsLived ==
  /\ \A b \in Branches : /\ Lived(branch[b].state, branch[b].clock)
                         /\ Audited(branch[b], audit[b], origin[b])
                         /\ ~Known(b) => origin[b] = 0
  /\ \A s \in Names : Lived(snapshot[s].state, snapshot[s].clock)

\* What a step in progress still has to process is pending, due, and a prefix
\* of what is pending.
Prefix(todo, state, clock) ==
  \A x \in todo :
    /\ x \in PendingEvents(state)
    /\ state.events[x].due <= clock
    /\ \A y \in PendingEvents(state) \ todo : Before(state, x, y)

StepLived ==
  tx.on # None =>
    /\ Lived(tx.row.state, tx.row.clock)
    /\ Audited(tx.row, tx.audit, origin[tx.on])
    /\ Prefix(tx.todo, tx.row.state, tx.row.clock)

HistoryInv ==
  /\ StoreInv
  /\ RowsLived
  /\ StepLived

\* The columns by which the scheduler orders events are integers.
LEMMA EventTypes ==
  ASSUME NEW state \in State, NEW x \in EventIds
  PROVE  /\ state.events[x] \in Event /\ state.events[x].due \in Nat
         /\ state.events[x].seq \in Nat /\ state.events[x].priority \in Int
<1>1. state.events[x] \in Event
  BY DEF State
<1>2. /\ state.events[x].priority \in Priorities \cup {0}
      /\ state.events[x].due \in Nat /\ state.events[x].seq \in Nat
  BY <1>1 DEF Event
<1>3. state.events[x].priority \in Int
  <2>1. \A p \in Priorities : p \in Int
    BY StoreAssumption
  <2> QED
    BY <1>2, <2>1
<1> QED
  BY <1>1, <1>2, <1>3

\* The order of scheduledEvents is transitive.
LEMMA BeforeTransitive ==
  ASSUME NEW state \in State, NEW x \in EventIds, NEW y \in EventIds, NEW z \in EventIds,
         Before(state, x, y), Before(state, y, z)
  PROVE  Before(state, x, z)
BY EventTypes DEF Before

\* It is total on events whose creation sequences differ.
LEMMA BeforeTotal ==
  ASSUME NEW state \in State, NEW x \in EventIds, NEW y \in EventIds,
         state.events[x].seq # state.events[y].seq
  PROVE  Before(state, x, y) \/ Before(state, y, x)
BY EventTypes DEF Before

\* What is pending is scheduled; what is ended is not pending.
LEMMA StatusesDiffer ==
  /\ "absent" \notin Processed /\ Pending \notin Processed /\ Pending # "absent"
  /\ "canceled" \notin Processed /\ Pending # "canceled"
BY DEF Processed, Pending

\* The batch of a step is pending, of one instant, and a prefix of what is pending.
LEMMA BatchIsPrefix ==
  ASSUME NEW state \in State, NEW clock \in Nat, Lived(state, clock)
  PROVE  /\ Batch(state) \subseteq EarliestDue(state)
         /\ \A x \in Batch(state) : \A y \in PendingEvents(state) \ Batch(state) :
              Before(state, x, y)
<1> DEFINE instant == EarliestDue(state)
<1>1. Batch(state) \subseteq instant
  BY DEF Batch
<1>2. instant \subseteq PendingEvents(state) /\ PendingEvents(state) \subseteq Present(state)
  BY StatusesDiffer DEF EarliestDue, PendingEvents, Present
<1>3. IsFiniteSet(Present(state)) /\ SequencesAdmitted(state)
  BY DEF Lived, StateAdmitted
<1>4. PendingEvents(state) \subseteq EventIds
  BY DEF PendingEvents
<1>5. \A z \in instant : /\ IsFiniteSet(UpTo(state, instant, z))
                         /\ IsFiniteSet(UpTo(state, instant, z) \cap Actions)
  <2> TAKE z \in instant
  <2>1. /\ UpTo(state, instant, z) \subseteq Present(state)
        /\ UpTo(state, instant, z) \cap Actions \subseteq Present(state)
    BY <1>2 DEF UpTo
  <2> QED
    BY <1>3, <2>1, FS_Subset
<1>6. ASSUME NEW x \in Batch(state), NEW y \in PendingEvents(state) \ Batch(state)
      PROVE  Before(state, x, y)
  <2>1. /\ x \in instant /\ x \in EventIds /\ y \in EventIds /\ x # y
        /\ x \in Present(state) /\ y \in Present(state)
    BY <1>1, <1>2, <1>4, <1>6
  <2>2. /\ state.events[x].due \in Nat /\ state.events[y].due \in Nat
        /\ state.events[x].due <= state.events[y].due
    BY <2>1, EventTypes DEF EarliestDue
  <2>3. CASE y \notin instant
    <3>1. PICK z \in PendingEvents(state) : ~(state.events[y].due <= state.events[z].due)
      BY <2>3 DEF EarliestDue
    <3>2. state.events[z].due \in Nat
      BY <1>4, EventTypes
    <3>3. state.events[x].due <= state.events[z].due
      BY <2>1 DEF EarliestDue
    <3> QED
      BY <2>2, <3>1, <3>2, <3>3 DEF Before
  <2>4. CASE y \in instant /\ Before(state, y, x)
    <3>1. UpTo(state, instant, y) \subseteq UpTo(state, instant, x)
      <4> SUFFICES ASSUME NEW z \in instant, z = y \/ Before(state, z, y)
                   PROVE  Before(state, z, x)
        BY DEF UpTo
      <4>1. z \in EventIds
        BY <1>2, <1>4
      <4> QED
        BY <2>1, <2>4, <4>1, BeforeTransitive
    <3>2. /\ Cardinality(UpTo(state, instant, y)) <= Cardinality(UpTo(state, instant, x))
          /\ Cardinality(UpTo(state, instant, y) \cap Actions)
               <= Cardinality(UpTo(state, instant, x) \cap Actions)
      <4>1. UpTo(state, instant, y) \cap Actions \subseteq UpTo(state, instant, x) \cap Actions
        BY <3>1
      <4> QED
        BY <1>5, <2>1, <3>1, <4>1, FS_Subset
    <3>3. /\ Cardinality(UpTo(state, instant, x)) \in Nat
          /\ Cardinality(UpTo(state, instant, y)) \in Nat
          /\ Cardinality(UpTo(state, instant, x) \cap Actions) \in Nat
          /\ Cardinality(UpTo(state, instant, y) \cap Actions) \in Nat
      BY <1>5, <2>1, <2>4, FS_CardinalityType
    <3>4. /\ Cardinality(UpTo(state, instant, x)) <= MaxScheduledDelivery
          /\ Cardinality(UpTo(state, instant, x) \cap Actions) <= MaxScheduledActions
      BY DEF Batch
    <3>5. /\ Cardinality(UpTo(state, instant, y)) <= MaxScheduledDelivery
          /\ Cardinality(UpTo(state, instant, y) \cap Actions) <= MaxScheduledActions
      BY <3>2, <3>3, <3>4, StoreAssumption
    <3>6. y \in Batch(state)
      BY <2>4, <3>5 DEF Batch
    <3> QED
      BY <3>6
  <2>5. Before(state, x, y) \/ Before(state, y, x)
    BY <1>3, <2>1, BeforeTotal DEF SequencesAdmitted
  <2> QED
    BY <2>3, <2>4, <2>5
<1> QED
  BY <1>1, <1>6

\* The pending events ended, and no others, end between two schedules: in a way
\* their validators accept, and when processed, due by a later clock and before
\* what stays pending.
EndsOnly(old, new, ended, later) ==
  /\ new.next = old.next
  /\ ended \subseteq PendingEvents(old)
  /\ \A x \in EventIds \ ended : new.events[x] = old.events[x]
  /\ \A x \in ended :
       /\ new.events[x].due = old.events[x].due
       /\ new.events[x].priority = old.events[x].priority
       /\ new.events[x].seq = old.events[x].seq
       /\ new.events[x].status \in Processed \cup {"canceled"}
       /\ Admitted(new, x)
       /\ new.events[x].status \in Processed =>
            /\ old.events[x].due <= later
            /\ \A y \in PendingEvents(old) \ ended : Before(old, x, y)

\* Such a schedule still is one the operations can have made.
LEMMA EventsEnd ==
  ASSUME NEW old \in State, NEW new \in State, NEW clock \in Nat, NEW later \in Nat,
         clock <= later, Lived(old, clock), NEW ended, EndsOnly(old, new, ended, later)
  PROVE  Lived(new, later)
<1> USE DEF EndsOnly
<1>1. ended \subseteq EventIds
  BY DEF PendingEvents
<1>2. \A x \in EventIds : /\ new.events[x].due = old.events[x].due
                          /\ new.events[x].priority = old.events[x].priority
                          /\ new.events[x].seq = old.events[x].seq
  <2> TAKE x \in EventIds
  <2> QED
    BY <1>1
<1>3. \A x, y \in EventIds : Before(new, x, y) <=> Before(old, x, y)
  BY <1>2 DEF Before
<1>4. Present(new) = Present(old)
  <2>1. \A x \in ended : x \in Present(new) /\ x \in Present(old)
    BY <1>1, StatusesDiffer DEF Present, PendingEvents
  <2> QED
    BY <2>1 DEF Present
<1>5. PendingEvents(new) = PendingEvents(old) \ ended
  <2>1. \A x \in ended : new.events[x].status # Pending
    BY StatusesDiffer
  <2> QED
    BY <2>1 DEF PendingEvents
<1>6. IsFiniteSet(Present(new))
  BY <1>4 DEF Lived
<1>7. StateAdmitted(new)
  <2>1. SequencesAdmitted(new)
    <3>1. SequencesAdmitted(old) /\ Present(old) \subseteq EventIds
      BY DEF Lived, StateAdmitted, Present
    <3> QED
      BY <1>2, <1>4, <3>1 DEF SequencesAdmitted
  <2>2. \A x \in Present(new) : Admitted(new, x)
    <3> TAKE x \in Present(new)
    <3>1. CASE x \in ended
      BY <3>1
    <3>2. CASE x \notin ended
      <4>1. new.events[x] = old.events[x] /\ x \in Present(old)
        BY <1>4, <3>2 DEF Present
      <4>2. Admitted(old, x)
        BY <4>1 DEF Lived, StateAdmitted, Admitted
      <4> QED
        BY <4>1, <4>2 DEF Admitted
    <3> QED
      BY <3>1, <3>2
  <2> QED
    BY <2>1, <2>2 DEF StateAdmitted, Admitted
<1>8. ASSUME NEW x \in EventIds, new.events[x].status \in Processed
      PROVE  /\ new.events[x].due <= later
             /\ \A y \in PendingEvents(new) : Before(new, x, y)
  <2>1. PendingEvents(new) \subseteq EventIds
    BY DEF PendingEvents
  <2>2. CASE x \in ended
    BY <1>2, <1>3, <1>5, <1>8, <2>1, <2>2
  <2>3. CASE x \notin ended
    <3>1. old.events[x].status \in Processed
      BY <1>8, <2>3
    <3>2. /\ old.events[x].due <= clock
          /\ \A y \in PendingEvents(old) : Before(old, x, y)
      BY <3>1 DEF Lived
    <3>3. old.events[x].due \in Nat
      BY EventTypes
    <3> QED
      BY <1>2, <1>3, <1>5, <2>1, <3>2, <3>3
  <2> QED
    BY <2>2, <2>3
<1> QED
  BY <1>6, <1>7, <1>8 DEF Lived

\* No event changing, the clock may move on.
LEMMA EventsStay ==
  ASSUME NEW old \in State, NEW new \in State, NEW clock \in Nat, NEW later \in Nat,
         clock <= later, Lived(old, clock), new.next = old.next, new.events = old.events
  PROVE  Lived(new, later)
<1>1. EndsOnly(old, new, {}, later)
  BY DEF EndsOnly
<1> QED
  BY <1>1, EventsEnd

\* A new pending event, due after the clock, joins behind what was processed.
LEMMA EventJoins ==
  ASSUME NEW old \in State, NEW new \in State, NEW clock \in Nat, Lived(old, clock),
         NEW x \in EventIds, old.events[x].status = "absent",
         new.next = old.next + 1,
         \A y \in EventIds \ {x} : new.events[y] = old.events[y],
         new.events[x].status = Pending, new.events[x].due > clock,
         new.events[x].seq = new.next, Admitted(new, x)
  PROVE  Lived(new, clock)
<1>1. Present(new) = Present(old) \cup {x} /\ x \notin Present(old)
  BY StatusesDiffer DEF Present
<1>2. PendingEvents(new) = PendingEvents(old) \cup {x}
  BY StatusesDiffer DEF PendingEvents
<1>3. \A y \in Present(old) : y \in EventIds /\ y # x /\ new.events[y] = old.events[y]
  BY <1>1 DEF Present
<1>4. IsFiniteSet(Present(new))
  BY <1>1, FS_AddElement DEF Lived
<1>5. StateAdmitted(new)
  <2>1. SequencesAdmitted(new)
    <3>1. old.next \in Nat
      BY DEF State
    <3>2. \A y \in Present(old) :
            /\ new.events[y].seq \in 1..old.next
            /\ \A z \in Present(old) \ {y} : new.events[y].seq # new.events[z].seq
      BY <1>3 DEF Lived, StateAdmitted, SequencesAdmitted
    <3>3. new.events[x].seq = old.next + 1
      OBVIOUS
    <3>4. ASSUME NEW y \in Present(new)
          PROVE  new.events[y].seq \in 1..new.next
      BY <1>1, <3>1, <3>2, <3>3
    <3>5. ASSUME NEW y \in Present(new), NEW z \in Present(new) \ {y}
          PROVE  new.events[y].seq # new.events[z].seq
      BY <1>1, <3>1, <3>2, <3>3
    <3> QED
      BY <3>4, <3>5 DEF SequencesAdmitted
  <2>2. ASSUME NEW y \in Present(old) PROVE Admitted(new, y)
    <3>1. Admitted(old, y)
      BY DEF Lived, StateAdmitted, Admitted
    <3> QED
      BY <1>3, <3>1 DEF Admitted
  <2> QED
    BY <1>1, <2>1, <2>2 DEF StateAdmitted, Admitted
<1>6. ASSUME NEW y \in EventIds, new.events[y].status \in Processed
      PROVE  /\ new.events[y].due <= clock
             /\ \A z \in PendingEvents(new) : Before(new, y, z)
  <2>1. y # x
    BY <1>6, StatusesDiffer
  <2>2. new.events[y] = old.events[y] /\ old.events[y].status \in Processed
    BY <1>6, <2>1
  <2>3. /\ old.events[y].due <= clock
        /\ \A z \in PendingEvents(old) : Before(old, y, z)
    BY <2>2 DEF Lived
  <2>4. Before(new, y, x)
    <3>1. new.events[y].due \in Nat /\ new.events[x].due \in Nat
      BY EventTypes
    <3> QED
      BY <2>2, <2>3, <3>1 DEF Before
  <2>5. ASSUME NEW z \in PendingEvents(old) PROVE Before(new, y, z)
    <3>1. z \in EventIds \ {x}
      BY StatusesDiffer DEF PendingEvents
    <3>2. Before(old, y, z)
      BY <2>3
    <3> QED
      BY <2>2, <3>1, <3>2 DEF Before
  <2> QED
    BY <1>2, <2>2, <2>3, <2>4, <2>5
<1> QED
  BY <1>4, <1>5, <1>6 DEF Lived

\* The outcome of an executed event is one nothing changes later.
LEMMA OutcomesAreProcessed ==
  \A ok \in BOOLEAN : (IF ok THEN "completed" ELSE "failed") \in Processed
BY DEF Processed

\* The calls of a row that committed an effect can be counted.
LEMMA EffectsCounted ==
  ASSUME NEW row \in Row, NEW log
  PROVE  /\ IsFiniteSet(EffectCalls(row, log))
         /\ Cardinality(EffectCalls(row, log)) \in Nat
         /\ EffectCalls(row, log) \subseteq 1..row.calls
<1>1. row.calls \in Nat
  BY DEF Row
<1>2. IsFiniteSet(1..row.calls)
  BY <1>1, FS_Interval
<1>3. EffectCalls(row, log) \subseteq 1..row.calls
  BY DEF EffectCalls
<1> QED
  BY <1>2, <1>3, FS_Subset, FS_CardinalityType

\* A row with no calls is explained by any log, from its own world.
LEMMA AuditedFresh ==
  ASSUME NEW row \in Row, NEW log \in Seq(AuditRows), row.calls = 0
  PROVE  Audited(row, log, row.state.world)
<1>1. 1..row.calls = {}
  OBVIOUS
<1>2. EffectCalls(row, log) = {}
  BY <1>1, EffectsCounted
<1>3. row.state.world \in Nat /\ Len(log) \in Nat
  BY DEF Row, State
<1>4. Cardinality({}) = 0
  BY FS_EmptySet
<1> QED
  BY <1>1, <1>2, <1>3, <1>4 DEF Audited

\* An operation that makes no call and rewrites no outcome keeps the explanation.
LEMMA AuditedKept ==
  ASSUME NEW old \in Row, NEW new \in Row, NEW log \in Seq(AuditRows), NEW start,
         Audited(old, log, start),
         new.calls = old.calls, new.state.world = old.state.world,
         \A x \in EventIds : old.state.events[x].status \in Processed =>
           new.state.events[x] = old.state.events[x]
  PROVE  Audited(new, log, start)
<1>1. \A i \in 1..new.calls : Recorded(new, log, i) = Recorded(old, log, i)
  BY DEF Recorded
<1>2. EffectCalls(new, log) = EffectCalls(old, log)
  BY <1>1 DEF EffectCalls
<1>3. ASSUME NEW i \in 1..new.calls PROVE Executes(new, log, i)
  <2> DEFINE record == Recorded(old, log, i)
  <2> SUFFICES ASSUME record.by # None
               PROVE  /\ record.by \in EventIds
                      /\ new.state.events[record.by].call = i
                      /\ new.state.events[record.by].status
                           = (IF record.ok THEN "completed" ELSE "failed")
    BY <1>1 DEF Executes
  <2>1. /\ record.by \in EventIds
        /\ old.state.events[record.by].call = i
        /\ old.state.events[record.by].status
             = (IF record.ok THEN "completed" ELSE "failed")
    BY DEF Audited, Executes
  <2>2. old.state.events[record.by].status \in Processed
    BY <2>1 DEF Processed
  <2> QED
    BY <2>1, <2>2
<1> QED
  BY <1>1, <1>2, <1>3 DEF Audited

\* One row is the other after a call with the outcome o, which executed the
\* event by, if any.
Calls(old, new, by, o) ==
  /\ o.ok \in BOOLEAN /\ o.effect \in BOOLEAN
  /\ by \in EventIds \cup {None}
  /\ new.calls = old.calls + 1
  /\ new.state.world = old.state.world + Effects(o)
  /\ \A x \in EventIds : old.state.events[x].status \in Processed =>
       new.state.events[x] = old.state.events[x]
  /\ by # None => /\ new.state.events[by].call = new.calls
                  /\ new.state.events[by].status = (IF o.ok THEN "completed" ELSE "failed")

\* A call under the next index, recorded with its effect and with the outcome
\* of the event it executes if any, keeps it too.
LEMMA AuditedNext ==
  ASSUME NEW old \in Row, NEW new \in Row, NEW log \in Seq(AuditRows), NEW start \in Nat,
         Audited(old, log, start), NEW o, NEW by, Calls(old, new, by, o)
  PROVE  Audited(new, Append(log, AuditRow(new.calls, by, o)), start)
<1> USE DEF Calls
<1> DEFINE n == old.calls
           row == AuditRow(new.calls, by, o)
           more == Append(log, row)
<1>1. n \in Nat /\ n <= Len(log) /\ Len(log) \in Nat /\ new.calls = n + 1
  BY DEF Row, Audited
<1>2. row \in AuditRows
  BY <1>1 DEF AuditRow, AuditRows
<1>3. /\ row.index = new.calls /\ row.by = by /\ row.ok = o.ok /\ row.effect = o.effect
  BY DEF AuditRow
<1> HIDE DEF row
<1>4. /\ Len(more) = Len(log) + 1 /\ more[Len(log) + 1] = row
      /\ \A k \in 1..Len(log) : more[k] = log[k]
  BY <1>2
<1> HIDE DEF more
<1>5. Recorded(new, more, n + 1) = row
  BY <1>1, <1>4 DEF Recorded
<1>6. \A i \in 1..n : Recorded(new, more, i) = Recorded(old, log, i)
  <2> TAKE i \in 1..n
  <2> HIDE DEF n
  <2>1. Len(log) - n + i \in 1..Len(log)
    BY <1>1
  <2>2. Len(more) = Len(log) + 1
    BY <1>4
  <2>3. Len(more) - new.calls + (n + 1) = Len(log) + 1
    BY <1>1, <2>2
  <2>4. Len(more) - new.calls + i = Len(log) - n + i
    BY <1>1, <2>2
  <2>5. more[Len(log) - n + i] = log[Len(log) - n + i]
    BY <1>4, <2>1
  <2> QED
    BY <2>4, <2>5 DEF Recorded, n
<1>7. \A i \in 1..new.calls : i \in 1..n \/ i = n + 1
  BY <1>1
<1>8. \A i \in 1..new.calls : Recorded(new, more, i).index = i
  <2>1. \A i \in 1..n : Recorded(old, log, i).index = i
    BY DEF Audited
  <2> QED
    BY <1>1, <1>3, <1>5, <1>6, <1>7, <2>1
<1>9. \A i \in 1..new.calls : Executes(new, more, i)
  <2>1. ASSUME NEW i \in 1..n PROVE Executes(new, more, i)
    <3> DEFINE record == Recorded(old, log, i)
    <3> SUFFICES ASSUME record.by # None
                 PROVE  /\ record.by \in EventIds
                        /\ new.state.events[record.by].call = i
                        /\ new.state.events[record.by].status
                             = (IF record.ok THEN "completed" ELSE "failed")
      BY <1>6 DEF Executes
    <3>1. /\ record.by \in EventIds
          /\ old.state.events[record.by].call = i
          /\ old.state.events[record.by].status
               = (IF record.ok THEN "completed" ELSE "failed")
      BY DEF Audited, Executes
    <3>2. old.state.events[record.by].status \in Processed
      BY <3>1 DEF Processed
    <3> QED
      BY <3>1, <3>2
  <2>2. Executes(new, more, n + 1)
    BY <1>1, <1>3, <1>5 DEF Executes
  <2> QED
    BY <1>7, <2>1, <2>2
<1>10. new.state.world = start + Cardinality(EffectCalls(new, more))
  <2> DEFINE before == EffectCalls(old, log)
  <2>1. /\ IsFiniteSet(before) /\ Cardinality(before) \in Nat /\ before \subseteq 1..n
        /\ n + 1 \notin before
    BY <1>1, EffectsCounted
  <2>2. old.state.world = start + Cardinality(before)
    BY DEF Audited
  <2>3. CASE o.effect
    <3>1. EffectCalls(new, more) = before \cup {n + 1}
      <4>1. n + 1 \in EffectCalls(new, more)
        <5>1. Recorded(new, more, n + 1).effect = TRUE
          BY <1>3, <1>5, <2>3
        <5>2. n + 1 \in 1..new.calls
          BY <1>1
        <5> HIDE DEF n
        <5> QED
          BY <5>1, <5>2 DEF EffectCalls
      <4>2. \A i \in 1..n : i \in EffectCalls(new, more) <=> i \in before
        BY <1>1, <1>6 DEF EffectCalls
      <4>3. \A i \in EffectCalls(new, more) : i \in 1..n \/ i = n + 1
        BY <1>7 DEF EffectCalls
      <4> QED
        BY <2>1, <4>1, <4>2, <4>3
    <3>2. Cardinality(before \cup {n + 1}) = Cardinality(before) + 1
      BY <2>1, FS_AddElement
    <3> QED
      BY <2>1, <2>2, <2>3, <3>1, <3>2 DEF Effects
  <2>4. CASE ~o.effect
    <3>1. EffectCalls(new, more) = before
      <4>1. n + 1 \notin EffectCalls(new, more)
        BY <1>3, <1>5, <2>4 DEF EffectCalls
      <4>2. \A i \in 1..n : i \in EffectCalls(new, more) <=> i \in before
        BY <1>1, <1>6 DEF EffectCalls
      <4>3. \A i \in EffectCalls(new, more) : i \in 1..n \/ i = n + 1
        BY <1>7 DEF EffectCalls
      <4> QED
        BY <2>1, <4>1, <4>2, <4>3
    <3> QED
      BY <2>1, <2>2, <2>4, <3>1 DEF Effects
  <2> QED
    BY <2>3, <2>4
<1>11. new.calls <= Len(more)
  BY <1>1, <1>4
<1> QED
  BY <1>8, <1>9, <1>10, <1>11 DEF Audited, row, more

\* takeFault answers a plan of the phase it was asked for.
LEMMA TakeFaultPhase ==
  ASSUME NEW ps \in Plans, NEW tool, NEW phase, TakeFault(ps, tool, phase) # 0
  PROVE  /\ TakeFault(ps, tool, phase) \in FaultIds
         /\ ps[TakeFault(ps, tool, phase)].phase = phase
<1> DEFINE eligible == {f \in FaultIds : /\ ps[f].tool = tool /\ ps[f].phase = phase
                                         /\ ps[f].remaining > 0}
<1>1. eligible # {}
  BY DEF TakeFault
<1>2. \E f \in eligible : \A g \in eligible : f <= g
  BY <1>1, StoreAssumption, LeastExists
<1>3. TakeFault(ps, tool, phase) \in eligible
  BY <1>1, <1>2 DEF TakeFault
<1> QED
  BY <1>3

\* The outcome of an action is one validateActionLifecycle accepts.
LEMMA OutcomeAdmitted ==
  ASSUME NEW ps \in Plans, NEW tool, NEW ok \in BOOLEAN, NEW e, NEW index \in Nat,
         LET o == Outcome(ps, tool, ok)
         IN /\ e.status = (IF o.ok THEN "completed" ELSE "failed")
            /\ e.call = index + 1 /\ e.effect = o.effect
            /\ e.phase = (IF o.fault = 0 THEN None ELSE ps[o.fault].phase)
  PROVE  ActionAdmitted(e)
<1> DEFINE before == TakeFault(ps, tool, "before-validation")
           after == TakeFault(ps, tool, "after-commit-before-response")
           o == Outcome(ps, tool, ok)
<1>1. e.call >= 1 /\ None # "after-commit-before-response"
  BY StoreAssumption DEF Phases
<1>2. CASE before # 0
  <2>1. o = [ok |-> FALSE, effect |-> FALSE, fault |-> before]
    BY <1>2 DEF Outcome
  <2>2. ps[before].phase = "before-validation"
    BY <1>2, TakeFaultPhase
  <2> HIDE DEF o, before
  <2>3. e.status = "failed" /\ e.effect = FALSE /\ e.phase = "before-validation"
    BY <1>2, <2>1, <2>2 DEF o
  <2> QED
    BY <1>1, <2>3 DEF ActionAdmitted
<1>3. CASE before = 0 /\ ok /\ after # 0
  <2>1. o = [ok |-> FALSE, effect |-> TRUE, fault |-> after]
    BY <1>3 DEF Outcome
  <2>2. ps[after].phase = "after-commit-before-response"
    BY <1>3, TakeFaultPhase
  <2>3. o.ok = FALSE /\ o.effect = TRUE /\ o.fault = after
    BY <2>1
  <2> HIDE DEF before, after
  <2>4. /\ e.status = (IF o.ok THEN "completed" ELSE "failed") /\ e.effect = o.effect
        /\ e.phase = (IF o.fault = 0 THEN None ELSE ps[o.fault].phase)
    OBVIOUS
  <2> HIDE DEF o
  <2>5. e.status = "failed" /\ e.effect = TRUE /\ e.phase = "after-commit-before-response"
    BY <1>3, <2>2, <2>3, <2>4
  <2> QED
    BY <1>1, <2>5 DEF ActionAdmitted
<1>4. CASE before = 0 /\ ~(ok /\ after # 0)
  <2>1. o = [ok |-> ok, effect |-> ok, fault |-> 0]
    BY <1>4 DEF Outcome
  <2> HIDE DEF o
  <2>2. e.status = (IF ok THEN "completed" ELSE "failed") /\ e.effect = ok /\ e.phase = None
    BY <2>1 DEF o
  <2> QED
    BY <1>1, <2>2 DEF ActionAdmitted
<1> QED
  BY <1>2, <1>3, <1>4

\* A fresh branch has lived through nothing.
LEMMA FreshLived == \A clock \in Nat : Lived(FreshState, clock)
<1>1. \A x \in EventIds : FreshState.events[x].status = "absent"
  BY LiteralRows DEF NoEvent
<1>2. Present(FreshState) = {}
  BY <1>1 DEF Present
<1>3. IsFiniteSet(Present(FreshState))
  BY <1>2, FS_EmptySet
<1>4. StateAdmitted(FreshState)
  BY <1>2 DEF StateAdmitted, SequencesAdmitted
<1> QED
  BY <1>1, <1>3, <1>4, StatusesDiffer DEF Lived

\* The initial store has no history.
LEMMA InitEstablishesHistoryInv == StoreInit => HistoryInv
<1> SUFFICES ASSUME StoreInit PROVE HistoryInv
  OBVIOUS
<1>1. StoreInv
  BY InitEstablishesStoreInv
<1>2. ASSUME NEW b \in Branches
      PROVE  /\ Lived(branch[b].state, branch[b].clock)
             /\ Audited(branch[b], audit[b], origin[b]) /\ origin[b] = 0
  <2>1. branch[b] = NoBranch /\ audit[b] = <<>> /\ origin[b] = 0
    BY DEF StoreInit
  <2>2. /\ NoBranch \in Row /\ NoBranch.calls = 0 /\ NoBranch.clock = 0
        /\ NoBranch.state = FreshState /\ NoBranch.state.world = 0
    BY LiteralRows DEF NoBranch, FreshState
  <2>3. audit[b] \in Seq(AuditRows)
    BY <2>1
  <2>4. Audited(NoBranch, audit[b], NoBranch.state.world)
    BY <2>2, <2>3, AuditedFresh
  <2> QED
    BY <2>1, <2>2, <2>4, FreshLived
<1>3. \A s \in Names : Lived(snapshot[s].state, snapshot[s].clock)
  <2>1. NoSnapshot.state = FreshState /\ NoSnapshot.clock = 0
    BY DEF NoSnapshot
  <2> QED
    BY <2>1, FreshLived DEF StoreInit
<1>4. StepLived
  BY LiteralRows DEF StoreInit, StepLived
<1> QED
  BY <1>1, <1>2, <1>3, <1>4 DEF HistoryInv, RowsLived

\* An operation outside a step that leaves one branch, if any, with a row that
\* has lived and is audited, keeps the histories.
LEMMA OneHistory ==
  ASSUME HistoryInv, StoreInv', NEW b \in Branches,
         Lived(branch'[b].state, branch'[b].clock),
         Audited(branch'[b], audit'[b], origin'[b]),
         branch'[b].spec = None => origin'[b] = 0,
         \A o \in Branches : o # b =>
           branch'[o] = branch[o] /\ audit'[o] = audit[o] /\ origin'[o] = origin[o],
         tx'.on = None, UNCHANGED snapshot
  PROVE  HistoryInv'
<1>1. RowsLived
  BY DEF HistoryInv
<1>2. ASSUME NEW o \in Branches
      PROVE  /\ Lived(branch'[o].state, branch'[o].clock)
             /\ Audited(branch'[o], audit'[o], origin'[o])
             /\ branch'[o].spec = None => origin'[o] = 0
  <2>1. CASE o = b
    BY <2>1
  <2>2. CASE o # b
    BY <1>1, <2>2 DEF RowsLived, Known
  <2> QED
    BY <2>1, <2>2
<1>3. RowsLived'
  BY <1>1, <1>2 DEF RowsLived, Known
<1> QED
  BY <1>3 DEF HistoryInv, StepLived

\* An operation that touches no branch row, snapshot or audit keeps them when
\* the step in progress, if any, has lived.
LEMMA StepHistory ==
  ASSUME HistoryInv, StoreInv', UNCHANGED <<branch, snapshot, audit, origin>>, StepLived'
  PROVE  HistoryInv'
BY DEF HistoryInv, RowsLived, Known

\* A new branch starts fresh; the step a restart drops leaves nothing behind.
LEMMA StartLives ==
  ASSUME HistoryInv, StoreInv', NEW d \in Specs, NEW b \in Branches, Start(d, b)
  PROVE  HistoryInv'
<1>1. /\ tx' = NoTx /\ UNCHANGED <<snapshot, audit, origin>>
      /\ tx'.on = None
  BY LiteralRows DEF Start
<1>2. CASE Known(b)
  <2>1. UNCHANGED branch
    BY <1>2 DEF Start, InitializeBranch
  <2> QED
    BY <1>1, <2>1, StepHistory DEF StepLived
<1>3. CASE ~Known(b)
  <2> DEFINE row == [NoBranch EXCEPT !.spec = d]
  <2>1. branch' = [branch EXCEPT ![b] = row] /\ branch \in [Branches -> Row]
    BY <1>3 DEF Start, InitializeBranch, HistoryInv, StoreInv, StoreTypeOK
  <2>2. branch'[b] = row /\ \A o \in Branches : o # b => branch'[o] = branch[o]
    BY <2>1
  <2>3. row = [spec |-> d, state |-> FreshState, clock |-> 0, calls |-> 0, head |-> 0]
    BY DEF NoBranch
  <2>4. row \in Row /\ row.calls = 0 /\ row.clock = 0 /\ row.state = FreshState
    BY <2>3, LiteralRows DEF Row
  <2>5. row.state.world = 0
    BY <2>4 DEF FreshState
  <2> HIDE DEF row
  <2>6. origin'[b] = 0 /\ audit'[b] \in Seq(AuditRows)
    BY <1>1, <1>3 DEF HistoryInv, RowsLived, StoreInv, StoreTypeOK
  <2>7. Audited(branch'[b], audit'[b], origin'[b])
    BY <2>2, <2>4, <2>5, <2>6, AuditedFresh
  <2>8. Lived(branch'[b].state, branch'[b].clock)
    BY <2>2, <2>4, FreshLived
  <2> QED
    BY <1>1, <2>2, <2>6, <2>7, <2>8, OneHistory
<1> QED
  BY <1>2, <1>3

\* A snapshot has lived through what its branch has.
LEMMA CreateSnapshotLives ==
  ASSUME HistoryInv, StoreInv', NEW s \in Names, NEW b \in Branches, CreateSnapshot(s, b)
  PROVE  HistoryInv'
<1> DEFINE copy == [spec |-> branch[b].spec, state |-> branch[b].state,
                    clock |-> branch[b].clock, source |-> branch[b].head]
<1>1. /\ snapshot' = [snapshot EXCEPT ![s] = copy] /\ tx.on = None
      /\ UNCHANGED <<branch, audit, tx, origin>>
  BY DEF CreateSnapshot, rowVars
<1>2. copy.state = branch[b].state /\ copy.clock = branch[b].clock
  OBVIOUS
<1> HIDE DEF copy
<1>3. \A t \in Names : snapshot'[t] = snapshot[t] \/ snapshot'[t] = copy
  BY <1>1 DEF HistoryInv, StoreInv, StoreTypeOK
<1>4. Lived(copy.state, copy.clock)
  BY <1>2 DEF HistoryInv, RowsLived
<1>5. \A t \in Names : Lived(snapshot'[t].state, snapshot'[t].clock)
  BY <1>3, <1>4 DEF HistoryInv, RowsLived
<1>6. RowsLived'
  BY <1>1, <1>5 DEF HistoryInv, RowsLived, Known
<1> QED
  BY <1>1, <1>6 DEF HistoryInv, StepLived

\* A fork goes on from where its snapshot was, with no calls.
LEMMA ForkLives ==
  ASSUME HistoryInv, StoreInv', NEW s \in Names, NEW b \in Branches, Fork(s, b)
  PROVE  HistoryInv'
<1> DEFINE row == [spec |-> snapshot[s].spec, state |-> snapshot[s].state,
                   clock |-> snapshot[s].clock, calls |-> 0, head |-> 0]
<1>1. /\ tx.on = None /\ snapshot[s].spec # None /\ branch' = [branch EXCEPT ![b] = row]
      /\ origin' = [origin EXCEPT ![b] = snapshot[s].state.world]
      /\ UNCHANGED <<snapshot, audit, tx>>
  BY DEF Fork
<1>2. StoreTypeOK
  BY DEF HistoryInv, StoreInv
<1>3. /\ branch'[b] = row /\ origin'[b] = snapshot[s].state.world
      /\ audit'[b] \in Seq(AuditRows)
      /\ \A o \in Branches : o # b => branch'[o] = branch[o] /\ origin'[o] = origin[o]
  BY <1>1, <1>2 DEF StoreTypeOK
<1>4. /\ row.spec # None /\ row.state = snapshot[s].state /\ row.clock = snapshot[s].clock
      /\ row.calls = 0
  BY <1>1
<1>5. row \in Row
  BY <1>2, SnapshotTypes DEF Row
<1> HIDE DEF row
<1>6. Audited(branch'[b], audit'[b], origin'[b])
  BY <1>3, <1>4, <1>5, AuditedFresh
<1>7. Lived(branch'[b].state, branch'[b].clock)
  BY <1>3, <1>4 DEF HistoryInv, RowsLived
<1> QED
  BY <1>1, <1>3, <1>4, <1>6, <1>7, OneHistory

\* So does a reset; the audit stays, and its rows are not this row's calls.
LEMMA ResetLives ==
  ASSUME HistoryInv, StoreInv', NEW s \in Names, NEW b \in Branches, Reset(s, b)
  PROVE  HistoryInv'
<1> DEFINE row == ResetRow(s, b)
<1>1. /\ tx.on = None /\ snapshot[s].spec # None /\ branch' = [branch EXCEPT ![b] = row]
      /\ origin' = [origin EXCEPT ![b] = snapshot[s].state.world]
      /\ UNCHANGED <<snapshot, audit, tx>>
  BY DEF Reset, Open
<1>2. StoreTypeOK
  BY DEF HistoryInv, StoreInv
<1>3. /\ branch'[b] = row /\ origin'[b] = snapshot[s].state.world
      /\ audit'[b] \in Seq(AuditRows)
      /\ \A o \in Branches : o # b => branch'[o] = branch[o] /\ origin'[o] = origin[o]
  BY <1>1, <1>2 DEF StoreTypeOK
<1>4. /\ row.spec # None /\ row.state = snapshot[s].state /\ row.clock = snapshot[s].clock
      /\ row.calls = 0
  BY <1>1 DEF ResetRow
<1>5. branch'[b] \in Row
  BY DEF StoreInv, StoreTypeOK
<1> HIDE DEF row
<1>6. Audited(branch'[b], audit'[b], origin'[b])
  BY <1>3, <1>4, <1>5, AuditedFresh
<1>7. Lived(branch'[b].state, branch'[b].clock)
  BY <1>3, <1>4 DEF HistoryInv, RowsLived
<1> QED
  BY <1>1, <1>3, <1>4, <1>6, <1>7, OneHistory

\* Reading, and installing or removing a fault plan, change no history.
LEMMA SameHistory ==
  ASSUME HistoryInv, StoreInv', NEW b \in Branches, Known(b), tx.on = None,
         branch'[b].spec = branch[b].spec, branch'[b].state = branch[b].state,
         branch'[b].clock = branch[b].clock, branch'[b].calls = branch[b].calls,
         \A o \in Branches : o # b => branch'[o] = branch[o],
         UNCHANGED <<snapshot, audit, tx, origin>>
  PROVE  HistoryInv'
<1>1. /\ branch[b] \in Row /\ branch'[b] \in Row /\ audit[b] \in Seq(AuditRows)
  BY DEF HistoryInv, StoreInv, StoreTypeOK
<1>2. Audited(branch[b], audit[b], origin[b]) /\ Lived(branch[b].state, branch[b].clock)
  BY DEF HistoryInv, RowsLived
<1>3. Audited(branch'[b], audit[b], origin[b])
  BY <1>1, <1>2, AuditedKept
<1> QED
  BY <1>2, <1>3, OneHistory DEF Known

\* A read changes no history.
LEMMA ReadLives ==
  ASSUME HistoryInv, StoreInv', NEW c \in Clients, NEW b \in Branches, Read(c, b)
  PROVE  HistoryInv'
BY SameHistory DEF Read, rowVars

\* Nor does installing a fault plan, whose head is no part of it.
LEMMA InstallFaultLives ==
  ASSUME HistoryInv, StoreInv', NEW b \in Branches, NEW f \in FaultIds, NEW tool \in Tools,
         NEW phase \in Phases, NEW n \in 1..MaxFaultRepeats,
         InstallFault(b, f, tool, phase, n)
  PROVE  HistoryInv'
<1>1. branch \in [Branches -> Row] /\ branch[b] \in Row
  BY DEF HistoryInv, StoreInv, StoreTypeOK
<1>2. branch' = [branch EXCEPT ![b].head = @ + 1]
  BY DEF InstallFault
<1>3. /\ branch'[b].spec = branch[b].spec /\ branch'[b].state = branch[b].state
      /\ branch'[b].clock = branch[b].clock /\ branch'[b].calls = branch[b].calls
      /\ \A o \in Branches : o # b => branch'[o] = branch[o]
  BY <1>1, <1>2 DEF Row
<1>4. Known(b) /\ tx.on = None /\ UNCHANGED <<snapshot, audit, tx, origin>>
  BY DEF InstallFault, Open
<1> QED
  BY <1>3, <1>4, SameHistory

\* Nor does removing one.
LEMMA RemoveFaultLives ==
  ASSUME HistoryInv, StoreInv', NEW b \in Branches, NEW f \in FaultIds, RemoveFault(b, f)
  PROVE  HistoryInv'
<1>1. branch \in [Branches -> Row] /\ branch[b] \in Row
  BY DEF HistoryInv, StoreInv, StoreTypeOK
<1>2. branch' = [branch EXCEPT ![b].head = @ + 1]
  BY DEF RemoveFault
<1>3. /\ branch'[b].spec = branch[b].spec /\ branch'[b].state = branch[b].state
      /\ branch'[b].clock = branch[b].clock /\ branch'[b].calls = branch[b].calls
      /\ \A o \in Branches : o # b => branch'[o] = branch[o]
  BY <1>1, <1>2 DEF Row
<1>4. Known(b) /\ tx.on = None /\ UNCHANGED <<snapshot, audit, tx, origin>>
  BY DEF RemoveFault, Open
<1> QED
  BY <1>3, <1>4, SameHistory

\* A call is the next row of the audit, and changes no event.
LEMMA ApplyCallLives ==
  ASSUME HistoryInv, StoreInv', NEW b \in Branches, NEW tool \in Tools, NEW ok \in BOOLEAN,
         ApplyCall(b, tool, ok)
  PROVE  HistoryInv'
<1> DEFINE o == Outcome(plans[b], tool, ok)
           old == branch[b]
           new == branch'[b]
<1>1. /\ branch \in [Branches -> Row] /\ old \in Row /\ old.state \in State /\ new \in Row
      /\ new.state \in State /\ plans[b] \in Plans
      /\ audit \in [Branches -> Seq(AuditRows)] /\ audit[b] \in Seq(AuditRows)
      /\ origin[b] \in Nat /\ old.clock \in Nat
  BY ColumnTypes DEF HistoryInv, StoreInv, StoreTypeOK, Plans, Row
<1>2. Known(b) /\ tx.on = None /\ tx' = tx /\ UNCHANGED <<snapshot, origin>>
  BY DEF ApplyCall, Open
<1>3. /\ branch' = [branch EXCEPT ![b].state.world = @ + Effects(o),
                                  ![b].calls = old.calls + 1, ![b].head = @ + 1]
      /\ audit' = [audit EXCEPT ![b] = Append(@, AuditRow(old.calls + 1, None, o))]
  BY DEF ApplyCall
<1>4. o.ok \in BOOLEAN /\ o.effect \in BOOLEAN
  BY <1>1, OutcomeShape
<1> HIDE DEF o
<1>5. \A p \in Branches : p # b => branch'[p] = branch[p] /\ audit'[p] = audit[p]
  BY <1>1, <1>3
<1>6. /\ new.calls = old.calls + 1 /\ new.spec = old.spec /\ new.clock = old.clock
      /\ new.state.world = old.state.world + Effects(o)
      /\ new.state.events = old.state.events /\ new.state.next = old.state.next
  BY <1>1, <1>3 DEF Row, State
<1>7. audit'[b] = Append(audit[b], AuditRow(new.calls, None, o))
  BY <1>1, <1>3, <1>6
<1>8. Lived(old.state, old.clock) /\ Audited(old, audit[b], origin[b])
  BY DEF HistoryInv, RowsLived
<1> HIDE DEF old, new
<1>9. Lived(new.state, old.clock)
  <2>1. /\ old.state \in State /\ new.state \in State /\ old.clock \in Nat
        /\ old.clock <= old.clock /\ new.state.next = old.state.next
        /\ new.state.events = old.state.events
    BY <1>1, <1>6
  <2> QED
    BY <1>8, <2>1, EventsStay
<1>10. Audited(new, audit'[b], origin[b])
  <2>1. Calls(old, new, None, o)
    BY <1>4, <1>6 DEF Calls
  <2> QED
    BY <1>1, <1>7, <1>8, <2>1, AuditedNext
<1> QED
  BY <1>2, <1>5, <1>6, <1>9, <1>10, OneHistory DEF Known, old, new

\* A scheduled event joins the schedule behind what was processed.
LEMMA ScheduleEventLives ==
  ASSUME HistoryInv, StoreInv', NEW b \in Branches, NEW x \in EventIds,
         NEW due \in 0..MaxClock, NEW priority \in Priorities, NEW tool \in Tools,
         ScheduleEvent(b, x, due, priority, tool)
  PROVE  HistoryInv'
<1> DEFINE old == branch[b]
           new == branch'[b]
           event == [status |-> Pending, due |-> due, priority |-> priority,
                     seq |-> old.state.next + 1,
                     tool |-> IF x \in Actions THEN tool ELSE None,
                     spec |-> IF x \in Actions THEN runtime ELSE None,
                     call |-> 0, effect |-> FALSE, phase |-> None]
<1>1. /\ branch \in [Branches -> Row] /\ old \in Row /\ old.state \in State /\ new \in Row
      /\ new.state \in State /\ old.clock \in Nat /\ audit[b] \in Seq(AuditRows)
      /\ old.state.events \in [EventIds -> Event]
  BY ColumnTypes DEF HistoryInv, StoreInv, StoreTypeOK, Row
<1>2. /\ Known(b) /\ tx.on = None /\ tx' = tx /\ UNCHANGED <<snapshot, audit, origin>>
      /\ old.state.events[x].status = "absent" /\ due > old.clock
  BY DEF ScheduleEvent, Open, DueAdmitted
<1>3. branch' = [branch EXCEPT ![b].state.next = @ + 1, ![b].state.events[x] = event,
                               ![b].head = @ + 1]
  BY DEF ScheduleEvent
<1>4. /\ event.status = Pending /\ event.due = due /\ event.seq = old.state.next + 1
      /\ event.call = 0 /\ event.effect = FALSE /\ event.phase = None
  OBVIOUS
<1> HIDE DEF event
<1>5. \A o \in Branches : o # b => branch'[o] = branch[o]
  BY <1>1, <1>3
<1>6. /\ new.calls = old.calls /\ new.spec = old.spec /\ new.clock = old.clock
      /\ new.state.world = old.state.world
      /\ new.state.events = [old.state.events EXCEPT ![x] = event]
      /\ new.state.next = old.state.next + 1
  BY <1>1, <1>3 DEF Row, State
<1>7. /\ new.state.events[x] = event
      /\ \A y \in EventIds \ {x} : new.state.events[y] = old.state.events[y]
  BY <1>1, <1>6
<1>8. Lived(old.state, old.clock) /\ Audited(old, audit[b], origin[b])
  BY DEF HistoryInv, RowsLived
<1>9. Admitted(new.state, x)
  BY <1>4, <1>7 DEF Admitted, ActionAdmitted, SignalAdmitted
<1> HIDE DEF old, new
<1>10. Lived(new.state, old.clock)
  BY <1>1, <1>2, <1>4, <1>6, <1>7, <1>8, <1>9, EventJoins
<1>11. \A y \in EventIds : old.state.events[y].status \in Processed =>
         new.state.events[y] = old.state.events[y]
  BY <1>2, <1>7, StatusesDiffer
<1>12. Audited(new, audit[b], origin[b])
  BY <1>1, <1>6, <1>8, <1>11, AuditedKept
<1> QED
  BY <1>2, <1>5, <1>6, <1>10, <1>12, OneHistory DEF Known, old, new

\* The event x ends with a status, its other columns as they were.
EndsWith(old, new, x, status) ==
  new.events[x] = [old.events[x] EXCEPT !.status = status]

\* An event of a kind that was accepted while pending is accepted canceled, and
\* a signal delivered.
LEMMA EndedAdmitted ==
  ASSUME NEW old \in State, NEW new \in State, NEW x \in PendingEvents(old),
         Admitted(old, x), NEW status,
         status = "canceled" \/ (status = "delivered" /\ x \notin Actions),
         EndsWith(old, new, x, status)
  PROVE  /\ Admitted(new, x) /\ new.events[x].status = status
         /\ new.events[x].due = old.events[x].due
         /\ new.events[x].priority = old.events[x].priority
         /\ new.events[x].seq = old.events[x].seq
<1>1. x \in EventIds /\ old.events[x].status = Pending
  BY DEF PendingEvents
<1>2. old.events[x] \in Event
  BY <1>1, EventTypes
<1>3. /\ new.events[x].status = status
      /\ new.events[x].due = old.events[x].due /\ new.events[x].seq = old.events[x].seq
      /\ new.events[x].priority = old.events[x].priority
      /\ new.events[x].call = old.events[x].call
      /\ new.events[x].effect = old.events[x].effect
      /\ new.events[x].phase = old.events[x].phase
  BY <1>2 DEF Event, EndsWith
<1>4. CASE x \in Actions
  <2>1. /\ old.events[x].call = 0 /\ ~old.events[x].effect /\ old.events[x].phase = None
    BY <1>1, <1>4 DEF Admitted, ActionAdmitted, Pending
  <2> QED
    BY <1>3, <1>4, <2>1 DEF Admitted, ActionAdmitted
<1>5. CASE x \notin Actions
  BY <1>1, <1>3, <1>5 DEF Admitted, SignalAdmitted
<1> QED
  BY <1>3, <1>4, <1>5

\* What is pending was accepted.
LEMMA PendingAdmitted ==
  ASSUME NEW state, NEW clock, Lived(state, clock), NEW x \in PendingEvents(state)
  PROVE  x \in EventIds /\ Admitted(state, x)
BY StatusesDiffer DEF PendingEvents, Present, Lived, StateAdmitted, Admitted

\* A cancelled event was pending, and nothing is processed.
LEMMA CancelScheduledEventLives ==
  ASSUME HistoryInv, StoreInv', NEW b \in Branches, NEW x \in EventIds,
         CancelScheduledEvent(b, x)
  PROVE  HistoryInv'
<1> DEFINE old == branch[b]
           new == branch'[b]
<1>1. /\ branch \in [Branches -> Row] /\ old \in Row /\ old.state \in State /\ new \in Row
      /\ new.state \in State /\ old.clock \in Nat /\ audit[b] \in Seq(AuditRows)
      /\ old.state.events \in [EventIds -> Event]
  BY ColumnTypes DEF HistoryInv, StoreInv, StoreTypeOK, Row
<1>2. /\ Known(b) /\ tx.on = None /\ tx' = tx /\ UNCHANGED <<snapshot, audit, origin>>
      /\ old.state.events[x].status = Pending
  BY DEF CancelScheduledEvent, Open
<1>3. branch' = [branch EXCEPT ![b].state.events[x].status = "canceled", ![b].head = @ + 1]
  BY DEF CancelScheduledEvent
<1>4. \A o \in Branches : o # b => branch'[o] = branch[o]
  BY <1>1, <1>3
<1>5. /\ new.calls = old.calls /\ new.spec = old.spec /\ new.clock = old.clock
      /\ new.state.world = old.state.world /\ new.state.next = old.state.next
      /\ new.state.events =
           [old.state.events EXCEPT ![x] = [old.state.events[x] EXCEPT !.status = "canceled"]]
  BY <1>1, <1>3 DEF Row, State
<1>6. /\ new.state.events[x] = [old.state.events[x] EXCEPT !.status = "canceled"]
      /\ \A y \in EventIds \ {x} : new.state.events[y] = old.state.events[y]
  BY <1>1, <1>5
<1>7. Lived(old.state, old.clock) /\ Audited(old, audit[b], origin[b])
  BY DEF HistoryInv, RowsLived
<1> HIDE DEF old, new
<1>8. x \in PendingEvents(old.state)
  BY <1>2 DEF PendingEvents
<1>9. /\ Admitted(new.state, x) /\ new.state.events[x].status = "canceled"
      /\ new.state.events[x].due = old.state.events[x].due
      /\ new.state.events[x].priority = old.state.events[x].priority
      /\ new.state.events[x].seq = old.state.events[x].seq
  <2>1. EndsWith(old.state, new.state, x, "canceled")
    BY <1>6 DEF EndsWith
  <2>2. Admitted(old.state, x)
    BY <1>7, <1>8, PendingAdmitted
  <2> QED
    BY <1>1, <1>8, <2>1, <2>2, EndedAdmitted
<1>10. Lived(new.state, old.clock)
  <2>1. EndsOnly(old.state, new.state, {x}, old.clock)
    BY <1>5, <1>6, <1>8, <1>9, StatusesDiffer DEF EndsOnly
  <2> QED
    BY <1>1, <1>7, <2>1, EventsEnd
<1>11. \A y \in EventIds : old.state.events[y].status \in Processed =>
         new.state.events[y] = old.state.events[y]
  BY <1>2, <1>6, StatusesDiffer
<1>12. Audited(new, audit[b], origin[b])
  BY <1>1, <1>5, <1>7, <1>11, AuditedKept
<1> QED
  BY <1>2, <1>4, <1>5, <1>10, <1>12, OneHistory DEF Known, old, new

\* An advance delivers every signal due by its target, so what stays pending is
\* due later than what was processed.
LEMMA AdvanceClockLives ==
  ASSUME HistoryInv, StoreInv', NEW b \in Branches, NEW target \in Nat,
         AdvanceClock(b, target)
  PROVE  HistoryInv'
<1> DEFINE old == branch[b]
           new == branch'[b]
           due == DueBy(old.state, target)
           occurred == [x \in EventIds |->
              IF x \in due THEN [old.state.events[x] EXCEPT !.status = "delivered"]
                           ELSE old.state.events[x]]
<1>1. /\ branch \in [Branches -> Row] /\ old \in Row /\ old.state \in State /\ new \in Row
      /\ new.state \in State /\ old.clock \in Nat /\ audit[b] \in Seq(AuditRows)
      /\ old.state.events \in [EventIds -> Event]
  BY ColumnTypes DEF HistoryInv, StoreInv, StoreTypeOK, Row
<1>2. /\ Known(b) /\ tx.on = None /\ tx' = tx /\ UNCHANGED <<snapshot, audit, origin>>
      /\ target > old.clock /\ due \cap Actions = {}
  BY DEF AdvanceClock, Open
<1>3. branch' = [branch EXCEPT ![b].clock = target,
           ![b].state.events = [x \in EventIds |->
             IF x \in due THEN [@[x] EXCEPT !.status = "delivered"] ELSE @[x]],
           ![b].head = @ + 1]
  BY DEF AdvanceClock
<1>4. \A o \in Branches : o # b => branch'[o] = branch[o]
  BY <1>1, <1>3
<1>5. /\ new.calls = old.calls /\ new.spec = old.spec /\ new.clock = target
      /\ new.state.world = old.state.world /\ new.state.next = old.state.next
      /\ new.state.events = occurred
  BY <1>1, <1>3 DEF Row, State
<1>6. /\ \A x \in due : /\ x \in PendingEvents(old.state) /\ old.state.events[x].due <= target
                        /\ x \notin Actions
      /\ \A y \in PendingEvents(old.state) \ due : ~(old.state.events[y].due <= target)
  BY <1>2 DEF DueBy
<1>7. due \in SUBSET PendingEvents(old.state) /\ PendingEvents(old.state) \subseteq EventIds
  BY DEF DueBy, PendingEvents
<1>8. /\ \A x \in due :
           new.state.events[x] = [old.state.events[x] EXCEPT !.status = "delivered"]
      /\ \A y \in EventIds \ due : new.state.events[y] = old.state.events[y]
  BY <1>5, <1>7
<1> HIDE DEF due, occurred
<1>9. Lived(old.state, old.clock) /\ Audited(old, audit[b], origin[b])
  BY DEF HistoryInv, RowsLived
<1> HIDE DEF old, new
<1>10. ASSUME NEW x \in due
       PROVE  /\ Admitted(new.state, x) /\ new.state.events[x].status = "delivered"
              /\ new.state.events[x].due = old.state.events[x].due
              /\ new.state.events[x].priority = old.state.events[x].priority
              /\ new.state.events[x].seq = old.state.events[x].seq
  <2>1. EndsWith(old.state, new.state, x, "delivered") /\ x \in PendingEvents(old.state)
    BY <1>6, <1>8 DEF EndsWith
  <2>2. Admitted(old.state, x) /\ x \notin Actions
    BY <1>6, <1>9, <2>1, PendingAdmitted
  <2> QED
    BY <1>1, <2>1, <2>2, EndedAdmitted
<1>11. ASSUME NEW x \in due, NEW y \in PendingEvents(old.state) \ due
       PROVE  Before(old.state, x, y)
  <2>1. old.state.events[x].due \in Nat /\ old.state.events[y].due \in Nat
    BY <1>1, <1>7, EventTypes
  <2> QED
    BY <1>6, <2>1 DEF Before
<1>12. Lived(new.state, target)
  <2>1. old.clock <= target /\ "delivered" \in Processed
    BY <1>1, <1>2 DEF Processed
  <2>2. EndsOnly(old.state, new.state, due, target)
    BY <1>5, <1>6, <1>7, <1>8, <1>10, <1>11, <2>1 DEF EndsOnly
  <2> QED
    BY <1>1, <1>9, <2>1, <2>2, EventsEnd
<1>13. \A y \in EventIds : old.state.events[y].status \in Processed =>
         new.state.events[y] = old.state.events[y]
  BY <1>6, <1>8, StatusesDiffer DEF PendingEvents
<1>14. Audited(new, audit[b], origin[b])
  BY <1>1, <1>5, <1>9, <1>13, AuditedKept
<1> QED
  BY <1>2, <1>4, <1>5, <1>12, <1>14, OneHistory DEF Known, old, new

\* An advance computed from a stale read is an advance.
LEMMA AdvanceByLives ==
  ASSUME HistoryInv, StoreInv', NEW c \in Clients, NEW d \in 1..MaxClock,
         NEW checked \in BOOLEAN, AdvanceBy(c, d, checked)
  PROVE  HistoryInv'
<1>1. view[c].on \in Branches /\ view[c].row \in Row
  BY DEF HistoryInv, StoreInv, StoreTypeOK, AdvanceBy
<1>2. view[c].row.clock \in Nat
  BY <1>1 DEF Row
<1>3. view[c].row.clock + d \in Nat
  BY <1>2
<1> QED
  BY <1>1, <1>3, AdvanceClockLives DEF AdvanceBy

\* A step selects a prefix of what is pending, all due at the clock it moves to.
LEMMA BeginStepLives ==
  ASSUME HistoryInv, StoreInv', NEW b \in Branches, NEW backed \in BOOLEAN,
         BeginStep(b, backed)
  PROVE  HistoryInv'
<1> DEFINE state == branch[b].state
           first == CHOOSE x \in EarliestDue(state) : TRUE
           due == state.events[first].due
           clock == IF due > branch[b].clock THEN due ELSE branch[b].clock
           row == [branch[b] EXCEPT !.clock = clock]
<1>1. /\ branch[b] \in Row /\ state \in State /\ branch[b].clock \in Nat
      /\ audit[b] \in Seq(AuditRows)
  BY ColumnTypes DEF HistoryInv, StoreInv, StoreTypeOK
<1>2. /\ PendingEvents(state) # {}
      /\ tx' = [on |-> b, todo |-> Batch(state), row |-> row,
                plans |-> plans[b], audit |-> audit[b], fired |-> fired[b]]
      /\ UNCHANGED <<branch, snapshot, audit, origin>>
  BY DEF BeginStep, rowVars
<1>3. due \in Nat /\ \A y \in PendingEvents(state) : due <= state.events[y].due
  BY <1>1, <1>2, EarliestInstant
<1>4. \A y \in EarliestDue(state) : state.events[y].due <= due
  <2> TAKE y \in EarliestDue(state)
  <2>1. first \in EarliestDue(state)
    OBVIOUS
  <2> QED
    BY <2>1 DEF EarliestDue
<1> HIDE DEF due, first
<1>5. clock \in Nat /\ branch[b].clock <= clock /\ due <= clock
  BY <1>1, <1>3
<1> HIDE DEF clock
<1>6. /\ row.state = state /\ row.clock = clock /\ row.calls = branch[b].calls
      /\ row \in Row
  BY <1>1, <1>5 DEF Row
<1> HIDE DEF row
<1>7. /\ tx'.on = b /\ tx'.todo = Batch(state) /\ tx'.row = row /\ tx'.audit = audit[b]
  BY <1>2
<1>8. Lived(state, branch[b].clock) /\ Audited(branch[b], audit[b], origin[b])
  BY DEF HistoryInv, RowsLived
<1> HIDE DEF state
<1>9. Lived(state, clock)
  BY <1>1, <1>5, <1>8, EventsStay
<1>10. Audited(row, audit[b], origin[b])
  BY <1>1, <1>6, <1>8, AuditedKept DEF state
<1>11. Prefix(Batch(state), state, clock)
  <2>1. /\ Batch(state) \subseteq EarliestDue(state)
        /\ \A x \in Batch(state) : \A y \in PendingEvents(state) \ Batch(state) :
             Before(state, x, y)
    BY <1>1, <1>8, BatchIsPrefix
  <2>2. \A x \in EarliestDue(state) : x \in PendingEvents(state) /\ x \in EventIds
    BY DEF EarliestDue, PendingEvents
  <2>3. \A x \in Batch(state) : state.events[x].due <= clock
    <3> TAKE x \in Batch(state)
    <3>1. state.events[x].due \in Nat /\ state.events[x].due <= due
      BY <1>1, <1>4, <2>1, <2>2, EventTypes
    <3> QED
      BY <1>3, <1>5, <3>1
  <2> QED
    BY <2>1, <2>2, <2>3 DEF Prefix
<1>12. StepLived'
  BY <1>2, <1>6, <1>7, <1>9, <1>10, <1>11 DEF StepLived
<1> QED
  BY <1>2, <1>12, StepHistory

\* Processing the first event of a prefix, in a way its validator accepts,
\* leaves the rest of the prefix.
LEMMA PrefixShrinks ==
  ASSUME NEW old \in State, NEW new \in State, NEW clock \in Nat, Lived(old, clock),
         NEW todo, Prefix(todo, old, clock),
         NEW x \in todo, \A y \in todo \ {x} : Before(old, x, y),
         new.next = old.next,
         \A y \in EventIds \ {x} : new.events[y] = old.events[y],
         new.events[x].due = old.events[x].due,
         new.events[x].priority = old.events[x].priority,
         new.events[x].seq = old.events[x].seq,
         new.events[x].status \in Processed, Admitted(new, x)
  PROVE  /\ Lived(new, clock)
         /\ Prefix(todo \ {x}, new, clock)
         /\ \A y \in EventIds : old.events[y].status \in Processed =>
              new.events[y] = old.events[y]
<1>1. /\ x \in PendingEvents(old) /\ x \in EventIds /\ old.events[x].due <= clock
      /\ \A y \in PendingEvents(old) \ todo : Before(old, x, y)
  BY DEF Prefix, PendingEvents
<1>2. \A y \in PendingEvents(old) \ {x} : Before(old, x, y)
  BY <1>1
<1>3. Lived(new, clock)
  <2>1. EndsOnly(old, new, {x}, clock)
    BY <1>1, <1>2 DEF EndsOnly
  <2> QED
    BY <2>1, EventsEnd
<1>4. PendingEvents(new) = PendingEvents(old) \ {x}
  BY <1>1, StatusesDiffer DEF PendingEvents
<1>5. \A y \in EventIds : /\ new.events[y].due = old.events[y].due
                          /\ new.events[y].priority = old.events[y].priority
                          /\ new.events[y].seq = old.events[y].seq
  OBVIOUS
<1>6. \A y, z \in EventIds : Before(new, y, z) <=> Before(old, y, z)
  BY <1>5 DEF Before
<1>7. Prefix(todo \ {x}, new, clock)
  <2> SUFFICES ASSUME NEW y \in todo \ {x}
               PROVE  /\ y \in PendingEvents(new)
                      /\ new.events[y].due <= clock
                      /\ \A z \in PendingEvents(new) \ (todo \ {x}) : Before(new, y, z)
    BY DEF Prefix
  <2>1. /\ y \in PendingEvents(old) /\ old.events[y].due <= clock
        /\ \A z \in PendingEvents(old) \ todo : Before(old, y, z)
    BY DEF Prefix
  <2>2. PendingEvents(old) \subseteq EventIds
    BY DEF PendingEvents
  <2> QED
    BY <1>4, <1>5, <1>6, <2>1, <2>2
<1>8. \A y \in EventIds : old.events[y].status \in Processed =>
         new.events[y] = old.events[y]
  BY <1>1, StatusesDiffer DEF PendingEvents
<1> QED
  BY <1>3, <1>7, <1>8

\* What the delivery of a signal makes of the working copy.
LEMMA SignalStep ==
  ASSUME StoreInv, StoreInv', NEW x \in EventIds, StepSignal(x)
  PROVE  LET old == tx.row
             new == tx'.row
         IN /\ tx \in Txs /\ old \in Row /\ old.state \in State /\ old.clock \in Nat
            /\ tx.audit \in Seq(AuditRows) /\ new \in Row /\ new.state \in State
            /\ tx.on # None /\ x \in tx.todo /\ x \notin Actions
            /\ \A y \in tx.todo \ {x} : Before(old.state, x, y)
            /\ UNCHANGED <<branch, snapshot, audit, origin>>
            /\ tx'.on = tx.on /\ tx'.todo = tx.todo \ {x} /\ tx'.audit = tx.audit
            /\ new.calls = old.calls /\ new.clock = old.clock
            /\ new.state.world = old.state.world /\ new.state.next = old.state.next
            /\ new.state.events[x] = [old.state.events[x] EXCEPT !.status = "delivered"]
            /\ \A y \in EventIds \ {x} : new.state.events[y] = old.state.events[y]
<1> DEFINE old == tx.row
           new == tx'.row
<1>1. /\ tx \in Txs /\ old \in Row /\ old.state \in State
      /\ old.state.events \in [EventIds -> Event] /\ tx.audit \in Seq(AuditRows)
  BY StepTypes DEF StoreInv
<1>2. new \in Row /\ new.state \in State /\ old.clock \in Nat
  <2>1. StoreTypeOK'
    BY DEF StoreInv
  <2>2. new \in Row
    BY <2>1 DEF StoreTypeOK
  <2> QED
    BY <1>1, <2>2 DEF Row
<1>3. /\ tx.on # None /\ x \in tx.todo /\ x \notin Actions
      /\ \A y \in tx.todo \ {x} : Before(old.state, x, y)
      /\ UNCHANGED <<branch, snapshot, audit, origin>>
  BY DEF StepSignal, IsNext, rowVars
<1>4. tx' = [tx EXCEPT !.todo = @ \ {x}, !.row.state.events[x].status = "delivered"]
  BY DEF StepSignal
<1>5. /\ tx'.on = tx.on /\ tx'.todo = tx.todo \ {x} /\ tx'.audit = tx.audit
      /\ new = [old EXCEPT !.state.events[x].status = "delivered"]
  BY <1>1, <1>4 DEF Txs
<1>6. /\ new.calls = old.calls /\ new.clock = old.clock
      /\ new.state.world = old.state.world /\ new.state.next = old.state.next
      /\ new.state.events =
           [old.state.events EXCEPT ![x] = [old.state.events[x] EXCEPT !.status = "delivered"]]
  BY <1>1, <1>5 DEF Row, State
<1>7. /\ new.state.events[x] = [old.state.events[x] EXCEPT !.status = "delivered"]
      /\ \A y \in EventIds \ {x} : new.state.events[y] = old.state.events[y]
  BY <1>1, <1>6
<1> QED
  BY <1>1, <1>2, <1>3, <1>5, <1>6, <1>7

\* A delivered signal is processed in its turn.
LEMMA StepSignalLives ==
  ASSUME HistoryInv, StoreInv', NEW x \in EventIds, StepSignal(x)
  PROVE  HistoryInv'
<1> DEFINE old == tx.row
           new == tx'.row
<1>1. /\ tx \in Txs /\ old \in Row /\ old.state \in State /\ old.clock \in Nat
      /\ tx.audit \in Seq(AuditRows) /\ new \in Row /\ new.state \in State
      /\ tx.on # None /\ x \in tx.todo /\ x \notin Actions
      /\ \A y \in tx.todo \ {x} : Before(old.state, x, y)
      /\ UNCHANGED <<branch, snapshot, audit, origin>>
      /\ tx'.on = tx.on /\ tx'.todo = tx.todo \ {x} /\ tx'.audit = tx.audit
      /\ new.calls = old.calls /\ new.clock = old.clock
      /\ new.state.world = old.state.world /\ new.state.next = old.state.next
      /\ new.state.events[x] = [old.state.events[x] EXCEPT !.status = "delivered"]
      /\ \A y \in EventIds \ {x} : new.state.events[y] = old.state.events[y]
  BY SignalStep DEF HistoryInv
<1>2. /\ Lived(old.state, old.clock) /\ Audited(old, tx.audit, origin[tx.on])
      /\ Prefix(tx.todo, old.state, old.clock)
  BY <1>1 DEF HistoryInv, StepLived
<1> HIDE DEF old, new
<1>3. x \in PendingEvents(old.state)
  BY <1>1, <1>2 DEF Prefix
<1>4. /\ Admitted(new.state, x) /\ new.state.events[x].status = "delivered"
       /\ new.state.events[x].due = old.state.events[x].due
       /\ new.state.events[x].priority = old.state.events[x].priority
       /\ new.state.events[x].seq = old.state.events[x].seq
  <2>1. Admitted(old.state, x)
    BY <1>2, <1>3, PendingAdmitted
  <2>2. EndsWith(old.state, new.state, x, "delivered") /\ x \notin Actions
    BY <1>1 DEF EndsWith
  <2> QED
    BY <1>1, <1>3, <2>1, <2>2, EndedAdmitted
<1>5. new.state.events[x].status \in Processed
  BY <1>4 DEF Processed
<1>6. /\ Lived(new.state, old.clock) /\ Prefix(tx.todo \ {x}, new.state, old.clock)
       /\ \A y \in EventIds : old.state.events[y].status \in Processed =>
            new.state.events[y] = old.state.events[y]
  BY <1>1, <1>2, <1>4, <1>5, PrefixShrinks
<1>7. Audited(new, tx.audit, origin[tx.on])
  BY <1>1, <1>2, <1>6, AuditedKept
<1>8. StepLived'
  BY <1>1, <1>6, <1>7 DEF StepLived, new
<1> QED
  BY <1>1, <1>8, StepHistory

\* What the execution of an action makes of the working copy, with its outcome o.
LEMMA ActionStep ==
  ASSUME StoreInv, StoreInv', NEW x \in EventIds, NEW ok \in BOOLEAN, StepAction(x, ok)
  PROVE  LET old == tx.row
             new == tx'.row
             o == Outcome(tx.plans, old.state.events[x].tool, ok)
             event == Executed(x, o)
         IN /\ tx \in Txs /\ old \in Row /\ old.state \in State /\ old.clock \in Nat
            /\ tx.audit \in Seq(AuditRows) /\ new \in Row /\ new.state \in State
            /\ tx.on # None /\ x \in tx.todo /\ x \in Actions
            /\ \A y \in tx.todo \ {x} : Before(old.state, x, y)
            /\ UNCHANGED <<branch, snapshot, audit, origin>>
            /\ tx'.on = tx.on /\ tx'.todo = tx.todo \ {x}
            /\ o.ok \in BOOLEAN /\ o.effect \in BOOLEAN
            /\ tx'.audit = Append(tx.audit, AuditRow(old.calls + 1, x, o))
            /\ old.calls \in Nat /\ new.calls = old.calls + 1 /\ new.clock = old.clock
            /\ new.state.world = old.state.world + Effects(o)
            /\ new.state.next = old.state.next
            /\ new.state.events[x] = event /\ ActionAdmitted(event)
            /\ event.status = (IF o.ok THEN "completed" ELSE "failed")
            /\ event.call = old.calls + 1 /\ event.effect = o.effect
            /\ event.due = old.state.events[x].due /\ event.seq = old.state.events[x].seq
            /\ event.priority = old.state.events[x].priority
            /\ \A y \in EventIds \ {x} : new.state.events[y] = old.state.events[y]
<1> DEFINE old == tx.row
           new == tx'.row
           tool == old.state.events[x].tool
           o == Outcome(tx.plans, tool, ok)
           event == Executed(x, o)
<1>1. /\ tx \in Txs /\ old \in Row /\ old.state \in State /\ tx.plans \in Plans
      /\ old.state.events \in [EventIds -> Event] /\ tx.audit \in Seq(AuditRows)
      /\ old.calls \in Nat /\ tx.on \in Branches \cup {None}
  BY StepTypes DEF StoreInv, Txs
<1>2. new \in Row /\ new.state \in State /\ old.clock \in Nat
  <2>1. StoreTypeOK'
    BY DEF StoreInv
  <2>2. new \in Row
    BY <2>1 DEF StoreTypeOK
  <2> QED
    BY <1>1, <2>2 DEF Row
<1>3. /\ tx.on # None /\ x \in tx.todo /\ x \in Actions
      /\ \A y \in tx.todo \ {x} : Before(old.state, x, y)
      /\ UNCHANGED <<branch, snapshot, audit, origin>>
  BY DEF StepAction, IsNext, rowVars
<1>4. tx' = Execute(x, o)
  BY DEF StepAction
<1>5. o.ok \in BOOLEAN /\ o.effect \in BOOLEAN
  BY <1>1, OutcomeShape
<1>6. /\ event.status = (IF o.ok THEN "completed" ELSE "failed")
      /\ event.call = old.calls + 1 /\ event.effect = o.effect
      /\ event.phase = (IF o.fault = 0 THEN None ELSE tx.plans[o.fault].phase)
      /\ event.due = old.state.events[x].due /\ event.seq = old.state.events[x].seq
      /\ event.priority = old.state.events[x].priority
  <2>1. old.state.events[x] \in Event
    BY <1>1
  <2> HIDE DEF o
  <2> QED
    BY <2>1 DEF Executed, NextCall, Event
<1>7. ActionAdmitted(event)
  <2> HIDE DEF event
  <2> QED
    BY <1>1, <1>6, OutcomeAdmitted
<1> HIDE DEF o, event
<1>8. /\ tx'.on = tx.on /\ tx'.todo = tx.todo \ {x}
      /\ tx'.audit = Append(tx.audit, AuditRow(old.calls + 1, x, o))
      /\ new = [old EXCEPT !.calls = old.calls + 1,
                  !.state = [old.state EXCEPT !.world = @ + Effects(o), !.events[x] = event]]
  BY <1>1, <1>4 DEF Execute, NextCall, Txs, event
<1>9. /\ new.calls = old.calls + 1 /\ new.clock = old.clock
      /\ new.state.world = old.state.world + Effects(o)
      /\ new.state.next = old.state.next
      /\ new.state.events = [old.state.events EXCEPT ![x] = event]
  BY <1>1, <1>8, ZenonT(60) DEF Row, State
<1>10. /\ new.state.events[x] = event
       /\ \A y \in EventIds \ {x} : new.state.events[y] = old.state.events[y]
  BY <1>1, <1>9
<1> QED
  BY <1>1, <1>2, <1>3, <1>5, <1>6, <1>7, <1>8, <1>9, <1>10, Zenon DEF o, event, old, new

\* An executed action is processed in its turn, and is the next audit row.
LEMMA StepActionLives ==
  ASSUME HistoryInv, StoreInv', NEW x \in EventIds, NEW ok \in BOOLEAN, StepAction(x, ok)
  PROVE  HistoryInv'
<1> DEFINE old == tx.row
           new == tx'.row
           o == Outcome(tx.plans, old.state.events[x].tool, ok)
           event == Executed(x, o)
<1>1. /\ tx \in Txs /\ old \in Row /\ old.state \in State /\ old.clock \in Nat
      /\ tx.audit \in Seq(AuditRows) /\ new \in Row /\ new.state \in State
      /\ tx.on # None /\ x \in tx.todo /\ x \in Actions
      /\ \A y \in tx.todo \ {x} : Before(old.state, x, y)
      /\ UNCHANGED <<branch, snapshot, audit, origin>>
      /\ tx'.on = tx.on /\ tx'.todo = tx.todo \ {x}
      /\ o.ok \in BOOLEAN /\ o.effect \in BOOLEAN
      /\ tx'.audit = Append(tx.audit, AuditRow(old.calls + 1, x, o))
      /\ old.calls \in Nat /\ new.calls = old.calls + 1 /\ new.clock = old.clock
      /\ new.state.world = old.state.world + Effects(o)
      /\ new.state.next = old.state.next
      /\ new.state.events[x] = event /\ ActionAdmitted(event)
      /\ event.status = (IF o.ok THEN "completed" ELSE "failed")
      /\ event.call = old.calls + 1 /\ event.effect = o.effect
      /\ event.due = old.state.events[x].due /\ event.seq = old.state.events[x].seq
      /\ event.priority = old.state.events[x].priority
      /\ \A y \in EventIds \ {x} : new.state.events[y] = old.state.events[y]
  BY ActionStep DEF HistoryInv
<1>2. /\ Lived(old.state, old.clock) /\ Audited(old, tx.audit, origin[tx.on])
      /\ Prefix(tx.todo, old.state, old.clock)
  BY <1>1 DEF HistoryInv, StepLived
<1> HIDE DEF o, event, old, new
<1>3. Admitted(new.state, x) /\ event.status \in Processed
  BY <1>1, OutcomesAreProcessed DEF Admitted
<1>4. /\ Lived(new.state, old.clock) /\ Prefix(tx.todo \ {x}, new.state, old.clock)
      /\ \A y \in EventIds : old.state.events[y].status \in Processed =>
           new.state.events[y] = old.state.events[y]
  BY <1>1, <1>2, <1>3, PrefixShrinks
<1>5. Audited(new, tx'.audit, origin[tx.on])
  <2>1. tx'.audit = Append(tx.audit, AuditRow(new.calls, x, o))
    BY <1>1
  <2>2. Calls(old, new, x, o)
    BY <1>1, <1>4 DEF Calls
  <2>3. origin[tx.on] \in Nat
    BY <1>1 DEF HistoryInv, StoreInv, StoreTypeOK, Txs
  <2> QED
    BY <1>1, <1>2, <2>1, <2>2, <2>3, AuditedNext
<1>6. StepLived'
  BY <1>1, <1>4, <1>5 DEF StepLived, new
<1> QED
  BY <1>1, <1>6, StepHistory

\* A commit makes the working copy the branch, with its audit.
LEMMA CommitStepLives ==
  ASSUME HistoryInv, StoreInv', CommitStep
  PROVE  HistoryInv'
<1> DEFINE b == tx.on
           new == branch'[b]
<1>1. /\ tx.on # None /\ tx'.on = None /\ UNCHANGED <<snapshot, origin>>
      /\ branch' = [branch EXCEPT ![b] = [tx.row EXCEPT !.head = @ + 1]]
      /\ audit' = [audit EXCEPT ![b] = tx.audit]
  BY LiteralRows DEF CommitStep
<1>2. /\ b \in Branches /\ tx.row \in Row /\ tx.audit \in Seq(AuditRows)
      /\ branch \in [Branches -> Row] /\ audit \in [Branches -> Seq(AuditRows)]
  BY <1>1, StepTypes DEF HistoryInv, StoreInv, StoreTypeOK
<1>3. new \in Row
  BY <1>2 DEF StoreInv, StoreTypeOK
<1>4. /\ new.state = tx.row.state /\ new.clock = tx.row.clock /\ new.calls = tx.row.calls
      /\ new.spec = tx.row.spec /\ audit'[b] = tx.audit
      /\ \A o \in Branches : o # b => branch'[o] = branch[o] /\ audit'[o] = audit[o]
  BY <1>1, <1>2 DEF Row
<1>5. new.spec # None
  BY <1>1, <1>4 DEF HistoryInv, StoreInv, StepSound, Known
<1>6. Lived(tx.row.state, tx.row.clock) /\ Audited(tx.row, tx.audit, origin[b])
  BY <1>1 DEF HistoryInv, StepLived
<1> HIDE DEF new
<1>7. Audited(new, tx.audit, origin[b])
  BY <1>2, <1>3, <1>4, <1>6, AuditedKept
<1> HIDE DEF b
<1> QED
  BY <1>1, <1>2, <1>4, <1>5, <1>6, <1>7, OneHistory DEF new

\* A rollback leaves every history as it was.
LEMMA AbortStepLives ==
  ASSUME HistoryInv, StoreInv', AbortStep
  PROVE  HistoryInv'
BY StepHistory, LiteralRows DEF AbortStep, rowVars, StepLived

\* Every step of the store keeps the histories.
LEMMA StepLives ==
  ASSUME HistoryInv, [StoreNext]_storeVars
  PROVE  HistoryInv'
<1>0. StoreInv'
  BY StepKeeps DEF HistoryInv
<1>1. CASE UNCHANGED storeVars
  <2>1. StepLived'
    BY <1>1 DEF storeVars, HistoryInv, StepLived
  <2> QED
    BY <1>0, <1>1, <2>1, StepHistory DEF storeVars
<1>2. ASSUME NEW d \in Specs, NEW b \in Branches, Start(d, b)
      PROVE  HistoryInv'
  BY <1>0, <1>2, StartLives
<1>3. ASSUME NEW s \in Names, NEW b \in Branches,
             CreateSnapshot(s, b) \/ Fork(s, b) \/ Reset(s, b)
      PROVE  HistoryInv'
  BY <1>0, <1>3, CreateSnapshotLives, ForkLives, ResetLives
<1>4. ASSUME NEW c \in Clients, NEW b \in Branches, Read(c, b)
      PROVE  HistoryInv'
  BY <1>0, <1>4, ReadLives
<1>5. ASSUME NEW b \in Branches, NEW f \in FaultIds,
             \/ \E tool \in Tools, phase \in Phases,
                   n \in 1..MaxFaultRepeats : InstallFault(b, f, tool, phase, n)
             \/ RemoveFault(b, f)
      PROVE  HistoryInv'
  BY <1>0, <1>5, InstallFaultLives, RemoveFaultLives
<1>6. ASSUME NEW b \in Branches, NEW tool \in Tools, NEW ok \in BOOLEAN,
             ApplyCall(b, tool, ok)
      PROVE  HistoryInv'
  BY <1>0, <1>6, ApplyCallLives
<1>7. ASSUME NEW b \in Branches, NEW x \in EventIds, NEW due \in 0..MaxClock,
             NEW priority \in Priorities, NEW tool \in Tools,
             ScheduleEvent(b, x, due, priority, tool)
      PROVE  HistoryInv'
  BY <1>0, <1>7, ScheduleEventLives
<1>8. ASSUME NEW b \in Branches, NEW x \in EventIds, CancelScheduledEvent(b, x)
      PROVE  HistoryInv'
  BY <1>0, <1>8, CancelScheduledEventLives
<1>9. ASSUME NEW b \in Branches, NEW target \in 0..MaxClock, AdvanceClock(b, target)
      PROVE  HistoryInv'
  <2>1. target \in Nat
    OBVIOUS
  <2> QED
    BY <1>0, <1>9, <2>1, AdvanceClockLives
<1>10. ASSUME NEW c \in Clients, NEW d \in 1..MaxClock, NEW checked \in BOOLEAN,
              AdvanceBy(c, d, checked)
       PROVE  HistoryInv'
  BY <1>0, <1>10, AdvanceByLives
<1>11. ASSUME NEW b \in Branches, NEW backed \in BOOLEAN, BeginStep(b, backed)
       PROVE  HistoryInv'
  BY <1>0, <1>11, BeginStepLives
<1>12. ASSUME NEW x \in EventIds, NEW ok \in BOOLEAN, StepSignal(x) \/ StepAction(x, ok)
       PROVE  HistoryInv'
  BY <1>0, <1>12, StepSignalLives, StepActionLives
<1>13. CASE CommitStep \/ AbortStep
  BY <1>0, <1>13, CommitStepLives, AbortStepLives
<1> QED
  BY <1>1, <1>2, <1>3, <1>4, <1>5, <1>6, <1>7, <1>8, <1>9, <1>10, <1>11, <1>12, <1>13
     DEF StoreNext

\* Throughout every behaviour of the store, branch rows, snapshots and the step
\* in progress have a schedule and an audit that its operations can have made.
THEOREM HistoryInvariant == StoreSpec => []HistoryInv
<1>1. StoreInit => HistoryInv
  BY InitEstablishesHistoryInv
<1>2. HistoryInv /\ [StoreNext]_storeVars => HistoryInv'
  BY StepLives
<1> QED
  BY <1>1, <1>2, PTL DEF StoreSpec

\* scanBranch and scanSnapshot accept every state that calls, faults, scheduler
\* steps, forks and resets ever store.
THEOREM StatesAreAdmitted == StoreSpec => []EveryStateAdmitted
<1>1. HistoryInv => EveryStateAdmitted
  BY DEF HistoryInv, RowsLived, Lived, EveryStateAdmitted
<1> QED
  BY <1>1, HistoryInvariant, PTL

\* The last rows of a log.
LEMMA LastRows ==
  ASSUME NEW log \in Seq(AuditRows), NEW n \in Nat, n <= Len(log)
  PROVE  \A i \in 1..n : SubSeq(log, Len(log) - n + 1, Len(log))[i] = log[Len(log) - n + i]
<1> TAKE i \in 1..n
<1> DEFINE m == Len(log) - n + 1
<1>1. m \in 1..(Len(log) + 1) /\ i \in 1..(Len(log) - m + 1) /\ Len(log) \in Nat
  OBVIOUS
<1>2. SubSeq(log, m, Len(log))[i] = log[m + i - 1]
  <2>1. m \in Int /\ Len(log) \in Int
    BY <1>1
  <2>2. \A k \in m..Len(log) : log[k] \in AuditRows
    BY <1>1
  <2> HIDE DEF m
  <2> QED
    BY <1>1, <2>1, <2>2, SubSeqProperties
<1>3. m + i - 1 = Len(log) - n + i
  BY <1>1
<1> QED
  BY <1>2, <1>3

\* The rows of the audit since the last fork or reset are the rows the
\* explanation of a branch row counts.
LEMMA SinceIsRecorded ==
  ASSUME StoreTypeOK, NEW b \in Branches, branch[b].calls <= Len(audit[b])
  PROVE  \A i \in 1..branch[b].calls : Since(b)[i] = Recorded(branch[b], audit[b], i)
<1>1. branch[b].calls \in Nat /\ audit[b] \in Seq(AuditRows)
  BY ColumnTypes DEF StoreTypeOK
<1> QED
  BY <1>1, LastRows DEF Since, Recorded

\* The audit rows since a branch was initialized, forked or reset are its calls
\* in order, and the effects they committed are its world: no call, committed
\* step, rollback, restart or reset loses one or counts one twice.
THEOREM WorldIsExplained == StoreSpec => []AuditExplainsWorld
<1>1. ASSUME HistoryInv PROVE AuditExplainsWorld
  <2> SUFFICES ASSUME NEW b \in Branches
      PROVE /\ branch[b].calls <= Len(audit[b])
            /\ \A i \in 1..branch[b].calls : Since(b)[i].index = i
            /\ branch[b].state.world =
                 origin[b] + Cardinality({i \in 1..branch[b].calls : Since(b)[i].effect})
    BY DEF AuditExplainsWorld
  <2>1. StoreTypeOK /\ Audited(branch[b], audit[b], origin[b])
    BY <1>1 DEF HistoryInv, StoreInv, RowsLived
  <2>2. /\ branch[b].calls <= Len(audit[b])
        /\ \A i \in 1..branch[b].calls : Since(b)[i] = Recorded(branch[b], audit[b], i)
    BY <2>1, SinceIsRecorded DEF Audited
  <2>3. {i \in 1..branch[b].calls : Since(b)[i].effect} = EffectCalls(branch[b], audit[b])
    BY <2>2 DEF EffectCalls
  <2> QED
    BY <2>1, <2>2, <2>3 DEF Audited
<1> QED
  BY <1>1, HistoryInvariant, PTL

\* What advanceClockToNext and AdvanceClock processed comes before everything
\* pending, and each action the scheduler executed has one audit row, its outcome.
THEOREM ScheduleIsItsHistory == StoreSpec => []ScheduleIsHistory
<1>1. ASSUME HistoryInv PROVE ScheduleIsHistory
  <2>1. ASSUME NEW b \in Branches, NEW x \in EventIds, NEW y \in EventIds,
               branch[b].state.events[x].status \in Processed,
               branch[b].state.events[y].status = Pending
        PROVE  Before(branch[b].state, x, y)
    <3>1. Lived(branch[b].state, branch[b].clock)
      BY <1>1 DEF HistoryInv, RowsLived
    <3>2. y \in PendingEvents(branch[b].state)
      BY <2>1 DEF PendingEvents
    <3> QED
      BY <2>1, <3>1, <3>2 DEF Lived
  <2>2. ASSUME NEW b \in Branches, NEW i \in 1..branch[b].calls, Since(b)[i].by # None
        PROVE  LET event == branch[b].state.events[Since(b)[i].by]
               IN /\ event.call = i
                  /\ event.status = (IF Since(b)[i].ok THEN "completed" ELSE "failed")
    <3>1. StoreTypeOK /\ Audited(branch[b], audit[b], origin[b])
      BY <1>1 DEF HistoryInv, StoreInv, RowsLived
    <3>2. Since(b)[i] = Recorded(branch[b], audit[b], i)
      BY <3>1, SinceIsRecorded DEF Audited
    <3> QED
      BY <2>2, <3>1, <3>2 DEF Audited, Executes
  <2> QED
    BY <2>1, <2>2 DEF ScheduleIsHistory
<1> QED
  BY <1>1, HistoryInvariant, PTL

-----------------------------------------------------------------------------
(***************************************************************************)
(* A set of events in the order of scheduledEvents.                        *)
(***************************************************************************)

\* Scheduled events, finitely many, no two created by the same request.
Distinct(state, set) ==
  /\ IsFiniteSet(set) /\ set \subseteq EventIds
  /\ \A x, y \in set : x # y => state.events[x].seq # state.events[y].seq

\* How many events of the set come no later than x.
Rank(state, set, x) == Cardinality(UpTo(state, set, x))

\* What is scheduled in an admitted schedule is such a set, as is any part of it.
LEMMA PartsAreDistinct ==
  ASSUME NEW state, NEW clock, Lived(state, clock), NEW set, set \subseteq Present(state)
  PROVE  Distinct(state, set)
<1>1. IsFiniteSet(Present(state)) /\ SequencesAdmitted(state)
  BY DEF Lived, StateAdmitted
<1>2. IsFiniteSet(set)
  BY <1>1, FS_Subset
<1>3. set \subseteq EventIds
  BY DEF Present
<1> QED
  BY <1>1, <1>2, <1>3 DEF Distinct, SequencesAdmitted

\* No event comes before itself, nor two before each other.
LEMMA BeforeStrict ==
  ASSUME NEW state \in State, NEW x \in EventIds, NEW y \in EventIds, Before(state, x, y)
  PROVE  x # y /\ ~Before(state, y, x)
BY EventTypes DEF Before

\* Ranks count from 1 to the size of the set.
LEMMA RankType ==
  ASSUME NEW state, NEW set, Distinct(state, set), NEW x \in set
  PROVE  /\ IsFiniteSet(UpTo(state, set, x)) /\ x \in UpTo(state, set, x)
         /\ Cardinality(set) \in Nat /\ Rank(state, set, x) \in 1..Cardinality(set)
<1>1. UpTo(state, set, x) \subseteq set /\ x \in UpTo(state, set, x)
  BY DEF UpTo
<1>2. IsFiniteSet(set)
  BY DEF Distinct
<1>3. /\ IsFiniteSet(UpTo(state, set, x))
      /\ Cardinality(UpTo(state, set, x)) <= Cardinality(set)
  BY <1>1, <1>2, FS_Subset
<1>4. Cardinality(set) \in Nat /\ Cardinality(UpTo(state, set, x)) \in Nat
  BY <1>2, <1>3, FS_CardinalityType
<1>5. Cardinality(UpTo(state, set, x)) # 0
  BY <1>1, <1>3, FS_EmptySet
<1> QED
  BY <1>1, <1>3, <1>4, <1>5 DEF Rank

\* An event that comes later has a higher rank.
LEMMA RankGrows ==
  ASSUME NEW state \in State, NEW set, Distinct(state, set),
         NEW x \in set, NEW y \in set, Before(state, x, y)
  PROVE  Rank(state, set, x) < Rank(state, set, y)
<1>1. set \subseteq EventIds
  BY DEF Distinct
<1>2. UpTo(state, set, x) \subseteq UpTo(state, set, y)
  BY <1>1, BeforeTransitive DEF UpTo
<1>3. y \in UpTo(state, set, y) /\ y \notin UpTo(state, set, x)
  BY <1>1, BeforeStrict DEF UpTo
<1>4. IsFiniteSet(UpTo(state, set, y))
  BY RankType
<1>5. /\ Cardinality(UpTo(state, set, x)) <= Cardinality(UpTo(state, set, y))
      /\ Cardinality(UpTo(state, set, x)) # Cardinality(UpTo(state, set, y))
  BY <1>2, <1>3, <1>4, FS_Subset
<1>6. Rank(state, set, x) \in Nat /\ Rank(state, set, y) \in Nat
  BY RankType
<1> QED
  BY <1>5, <1>6 DEF Rank

\* Two events of different ranks are in the order of their ranks.
LEMMA RankOrders ==
  ASSUME NEW state \in State, NEW set, Distinct(state, set), NEW x \in set, NEW y \in set
  PROVE  /\ Rank(state, set, x) = Rank(state, set, y) => x = y
         /\ Rank(state, set, x) < Rank(state, set, y) <=> Before(state, x, y)
<1>1. x \in EventIds /\ y \in EventIds
  BY DEF Distinct
<1>2. x = y \/ Before(state, x, y) \/ Before(state, y, x)
  BY <1>1, BeforeTotal DEF Distinct
<1>3. Rank(state, set, x) \in Nat /\ Rank(state, set, y) \in Nat
  BY RankType
<1>4. CASE x = y
  BY <1>1, <1>3, <1>4, BeforeStrict
<1>5. CASE Before(state, x, y)
  <2>1. Rank(state, set, x) < Rank(state, set, y)
    BY <1>5, RankGrows
  <2> QED
    BY <1>3, <1>5, <2>1
<1>6. CASE Before(state, y, x)
  <2>1. Rank(state, set, y) < Rank(state, set, x)
    BY <1>6, RankGrows
  <2>2. ~Before(state, x, y)
    BY <1>1, <1>6, BeforeStrict
  <2> QED
    BY <1>3, <2>1, <2>2
<1> QED
  BY <1>2, <1>4, <1>5, <1>6

\* Every rank is that of one event, so the set has a sorted listing.
LEMMA SortedExists ==
  ASSUME NEW state \in State, NEW set, Distinct(state, set)
  PROVE  Sorted(state, set) # {}
<1> DEFINE n == Cardinality(set)
           rank == [x \in set |-> Rank(state, set, x)]
           s == [i \in 1..n |-> CHOOSE x \in set : Rank(state, set, x) = i]
<1>1. IsFiniteSet(set) /\ n \in Nat
  BY FS_CardinalityType DEF Distinct
<1>2. rank \in [set -> 1..n]
  BY RankType
<1>3. IsInjective(rank)
  BY RankOrders DEF IsInjective
<1>4. rank \in Injection(set, 1..n)
  BY <1>2, <1>3 DEF Injection
<1>5. IsFiniteSet(1..n) /\ Cardinality(1..n) = n
  BY <1>1, FS_Interval
<1>6. rank \in Surjection(set, 1..n)
  BY <1>4, <1>5, FS_Injection
<1>7. \A i \in 1..n : s[i] \in set /\ Rank(state, set, s[i]) = i
  BY <1>6 DEF Surjection
<1>8. \A i, j \in 1..n : i < j => Before(state, s[i], s[j])
  BY <1>7, RankOrders
<1>9. s \in [1..n -> set] /\ DOMAIN s = 1..n
  BY <1>7
<1>10. s \in Sorted(state, set)
  BY <1>8, <1>9 DEF Sorted
<1> QED
  BY <1>10

\* A sorted listing has each event of the set once, at its rank.
LEMMA SortedRanks ==
  ASSUME NEW state \in State, NEW set, Distinct(state, set), NEW s \in Sorted(state, set)
  PROVE  /\ Cardinality(set) \in Nat /\ DOMAIN s = 1..Cardinality(set)
         /\ s \in Seq(set) /\ Len(s) = Cardinality(set)
         /\ \A i \in DOMAIN s : /\ s[i] \in set /\ Rank(state, set, s[i]) = i
                                /\ UpTo(state, set, s[i]) = {s[k] : k \in 1..i}
         /\ \A x \in set : \E i \in DOMAIN s : s[i] = x
<1> DEFINE n == Cardinality(set)
<1>1. IsFiniteSet(set) /\ n \in Nat /\ set \subseteq EventIds
  BY FS_CardinalityType DEF Distinct
<1>2. /\ s \in [1..n -> set] /\ DOMAIN s = 1..n
      /\ \A i, j \in 1..n : i < j => Before(state, s[i], s[j])
  BY DEF Sorted
<1>3. s \in Seq(set) /\ Len(s) = n
  BY <1>1, <1>2
<1>4. IsInjective(s)
  <2> SUFFICES ASSUME NEW i \in 1..n, NEW j \in 1..n, i < j PROVE s[i] # s[j]
    BY <1>1, <1>2 DEF IsInjective
  <2> QED
    BY <1>1, <1>2, BeforeStrict
<1>5. s \in Injection(1..n, set)
  BY <1>2, <1>4 DEF Injection
<1>6. IsFiniteSet(1..n) /\ Cardinality(1..n) = n
  BY <1>1, FS_Interval
<1>7. \A x \in set : \E i \in 1..n : s[i] = x
  <2>1. s \in Surjection(1..n, set)
    BY <1>1, <1>5, <1>6, FS_Injection
  <2> QED
    BY <2>1 DEF Surjection
<1>8. ASSUME NEW i \in 1..n
      PROVE  /\ s[i] \in set /\ Rank(state, set, s[i]) = i
             /\ UpTo(state, set, s[i]) = {s[k] : k \in 1..i}
  <2>1. \A k \in 1..i : s[k] \in UpTo(state, set, s[i])
    <3> TAKE k \in 1..i
    <3>1. k \in 1..n /\ (k = i \/ k < i)
      BY <1>1
    <3> QED
      BY <1>2, <3>1 DEF UpTo
  <2>2. \A x \in UpTo(state, set, s[i]) : \E k \in 1..i : s[k] = x
    <3> TAKE x \in UpTo(state, set, s[i])
    <3>1. PICK k \in 1..n : s[k] = x
      BY <1>7 DEF UpTo
    <3>2. ~(i < k)
      <4> SUFFICES ASSUME i < k PROVE FALSE
        OBVIOUS
      <4>1. Before(state, s[i], x) /\ x \in EventIds /\ s[i] \in EventIds
        BY <1>1, <1>2, <3>1
      <4> QED
        BY <4>1, BeforeStrict DEF UpTo
    <3> QED
      BY <1>1, <3>1, <3>2
  <2>3. UpTo(state, set, s[i]) = {s[k] : k \in 1..i}
    BY <2>1, <2>2
  <2> DEFINE first == [k \in 1..i |-> s[k]]
  <2>4. first \in Injection(1..i, UpTo(state, set, s[i]))
    <3>1. 1..i \subseteq 1..n
      BY <1>1
    <3>2. first \in [1..i -> UpTo(state, set, s[i])]
      BY <2>1
    <3>3. IsInjective(first)
      BY <1>2, <1>4, <3>1 DEF IsInjective
    <3> QED
      BY <3>2, <3>3 DEF Injection
  <2>5. first \in Surjection(1..i, UpTo(state, set, s[i]))
    <3>1. first \in [1..i -> UpTo(state, set, s[i])]
      BY <2>1
    <3> QED
      BY <2>2, <3>1 DEF Surjection
  <2>6. IsFiniteSet(1..i) /\ Cardinality(1..i) = i
    BY <1>1, FS_Interval
  <2>7. Cardinality(UpTo(state, set, s[i])) = i
    BY <2>4, <2>5, <2>6, FS_Surjection
  <2> QED
    BY <1>2, <2>3, <2>7 DEF Rank
<1> QED
  BY <1>1, <1>2, <1>3, <1>7, <1>8

\* So there is only one sorted listing, and it depends on nothing but the events.
LEMMA SortedUnique ==
  ASSUME NEW state \in State, NEW set, Distinct(state, set), NEW other \in State,
         Distinct(other, set), \A x \in set : other.events[x] = state.events[x],
         NEW s \in Sorted(state, set), NEW t \in Sorted(other, set)
  PROVE  s = t
<1>1. \A x, y \in set : Before(other, x, y) <=> Before(state, x, y)
  BY DEF Before
<1>2. t \in Sorted(state, set)
  BY <1>1 DEF Sorted
<1>3. /\ Cardinality(set) \in Nat
      /\ s \in [1..Cardinality(set) -> set] /\ t \in [1..Cardinality(set) -> set]
  BY SortedRanks DEF Sorted
<1>4. \A i \in 1..Cardinality(set) : s[i] = t[i]
  <2> TAKE i \in 1..Cardinality(set)
  <2>1. s[i] \in set /\ Rank(state, set, s[i]) = i
    BY SortedRanks
  <2>2. t[i] \in set /\ Rank(state, set, t[i]) = i
    BY <1>2, SortedRanks
  <2> QED
    BY <2>1, <2>2, RankOrders
<1> QED
  BY <1>3, <1>4

\* A set of events that is not empty has a first and a last one.
LEMMA EndsExist ==
  ASSUME NEW state \in State, NEW set, Distinct(state, set), set # {}
  PROVE  /\ \E x \in set : \A y \in set : y = x \/ Before(state, x, y)
         /\ \E x \in set : \A y \in set : y = x \/ Before(state, y, x)
<1> DEFINE n == Cardinality(set)
<1>1. PICK s \in Sorted(state, set) : TRUE
  BY SortedExists
<1>2. /\ n \in Nat /\ DOMAIN s = 1..n /\ \A i \in 1..n : s[i] \in set
      /\ \A x \in set : \E i \in 1..n : s[i] = x
  BY SortedRanks
<1>3. 1 \in 1..n /\ n \in 1..n
  BY <1>2
<1>4. \A i, j \in 1..n : i < j => Before(state, s[i], s[j])
  BY <1>2 DEF Sorted
<1>5. \A y \in set : /\ y = s[1] \/ Before(state, s[1], y)
                     /\ y = s[n] \/ Before(state, y, s[n])
  <2> TAKE y \in set
  <2>1. PICK i \in 1..n : s[i] = y
    BY <1>2
  <2>2. (i = 1 \/ 1 < i) /\ (i = n \/ i < n)
    BY <1>2
  <2> QED
    BY <1>3, <1>4, <2>1, <2>2
<1> QED
  BY <1>2, <1>3, <1>5

-----------------------------------------------------------------------------
(***************************************************************************)
(* The batch of a step, as what the budgets allow.                         *)
(***************************************************************************)

\* A step may process the set: it is pending at one instant, nothing pending comes
\* before it, and it is within the budgets.
WithinBudgets(state, set) ==
  /\ set \subseteq PendingEvents(state)
  /\ \A x, y \in set : state.events[x].due = state.events[y].due
  /\ \A x \in set, y \in PendingEvents(state) \ set : Before(state, x, y)
  /\ Cardinality(set) <= MaxScheduledDelivery
  /\ Cardinality(set \cap Actions) <= MaxScheduledActions

\* The pending events are scheduled, hence distinct; their first one is due first.
LEMMA PendingDistinct ==
  ASSUME NEW state \in State, NEW clock, Lived(state, clock)
  PROVE  /\ PendingEvents(state) \subseteq Present(state)
         /\ \A set \in SUBSET PendingEvents(state) :
              /\ Distinct(state, set)
              /\ IsFiniteSet(set) /\ Cardinality(set) \in Nat
              /\ IsFiniteSet(set \cap Actions) /\ Cardinality(set \cap Actions) \in Nat
<1>1. PendingEvents(state) \subseteq Present(state)
  BY StatusesDiffer DEF PendingEvents, Present
<1>2. \A set \in SUBSET PendingEvents(state) : Distinct(state, set)
  BY <1>1, PartsAreDistinct
<1>3. ASSUME NEW set \in SUBSET PendingEvents(state)
      PROVE  /\ IsFiniteSet(set) /\ Cardinality(set) \in Nat
             /\ IsFiniteSet(set \cap Actions) /\ Cardinality(set \cap Actions) \in Nat
  <2>1. IsFiniteSet(set)
    BY <1>2 DEF Distinct
  <2>2. IsFiniteSet(set \cap Actions)
    BY <2>1, FS_Subset
  <2> QED
    BY <2>1, <2>2, FS_CardinalityType
<1> QED
  BY <1>1, <1>2, <1>3

\* The first pending event is of the earliest instant, and within any budget.
LEMMA FirstIsInBatch ==
  ASSUME NEW state \in State, NEW clock, Lived(state, clock),
         NEW x \in PendingEvents(state),
         \A y \in PendingEvents(state) : y = x \/ Before(state, x, y)
  PROVE  x \in EarliestDue(state) /\ x \in Batch(state)
<1> DEFINE instant == EarliestDue(state)
<1>1. PendingEvents(state) \subseteq EventIds /\ instant \subseteq PendingEvents(state)
  BY DEF PendingEvents, EarliestDue
<1>2. \A y \in PendingEvents(state) : state.events[x].due <= state.events[y].due
  BY <1>1, EventTypes DEF Before
<1>3. x \in instant
  BY <1>2 DEF EarliestDue
<1>4. UpTo(state, instant, x) = {x}
  <2>1. \A y \in instant : y # x => ~Before(state, y, x)
    BY <1>1, BeforeStrict
  <2> QED
    BY <1>3, <2>1 DEF UpTo
<1>5. /\ IsFiniteSet({x}) /\ Cardinality({x}) = 1
      /\ Cardinality({x} \cap Actions) \in Nat /\ Cardinality({x} \cap Actions) <= 1
  <2>1. IsFiniteSet({x}) /\ Cardinality({x}) = 1
    BY FS_Singleton
  <2>2. IsFiniteSet({x} \cap Actions) /\ Cardinality({x} \cap Actions) <= Cardinality({x})
    BY <2>1, FS_Subset
  <2> QED
    BY <2>1, <2>2, FS_CardinalityType
<1>6. MaxScheduledDelivery \in Nat \ {0} /\ MaxScheduledActions \in Nat \ {0}
  BY StoreAssumption
<1>7. /\ Cardinality(UpTo(state, instant, x)) <= MaxScheduledDelivery
      /\ Cardinality(UpTo(state, instant, x) \cap Actions) <= MaxScheduledActions
  BY <1>4, <1>5, <1>6
<1> QED
  BY <1>3, <1>7 DEF Batch

\* The batch is the longest set of events the budgets of a step allow, and never
\* empty while something is pending.
LEMMA BatchIsLongest ==
  ASSUME NEW state \in State, NEW clock \in Nat, Lived(state, clock),
         PendingEvents(state) # {}
  PROVE  /\ Batch(state) # {} /\ WithinBudgets(state, Batch(state))
         /\ \A set : WithinBudgets(state, set) => set \subseteq Batch(state)
<1> DEFINE instant == EarliestDue(state)
           batch == Batch(state)
           upTo(x) == UpTo(state, instant, x)
<1>1. PendingEvents(state) \subseteq EventIds /\ instant \subseteq PendingEvents(state)
  BY DEF PendingEvents, EarliestDue
<1>2. /\ batch \subseteq instant
      /\ \A x \in batch : \A y \in PendingEvents(state) \ batch : Before(state, x, y)
  BY BatchIsPrefix
<1>3. batch # {}
  <2>1. Distinct(state, PendingEvents(state))
    BY PendingDistinct
  <2>2. PICK x \in PendingEvents(state) :
               \A y \in PendingEvents(state) : y = x \/ Before(state, x, y)
    BY <2>1, EndsExist
  <2> QED
    BY <2>2, FirstIsInBatch
<1>4. \A x \in batch : /\ Cardinality(upTo(x)) <= MaxScheduledDelivery
                       /\ Cardinality(upTo(x) \cap Actions) <= MaxScheduledActions
  BY DEF Batch
<1>5. \A x \in instant : /\ IsFiniteSet(upTo(x)) /\ Cardinality(upTo(x)) \in Nat
                         /\ IsFiniteSet(upTo(x) \cap Actions)
                         /\ Cardinality(upTo(x) \cap Actions) \in Nat
  <2> TAKE x \in instant
  <2>1. upTo(x) \in SUBSET PendingEvents(state)
    BY <1>1 DEF UpTo
  <2> QED
    BY <2>1, PendingDistinct
<1>6. /\ IsFiniteSet(batch) /\ Cardinality(batch) \in Nat
      /\ IsFiniteSet(batch \cap Actions) /\ Cardinality(batch \cap Actions) \in Nat
  BY <1>1, <1>2, PendingDistinct
<1>7. MaxScheduledDelivery \in Nat /\ MaxScheduledActions \in Nat
  BY StoreAssumption
<1>8. /\ Cardinality(batch) <= MaxScheduledDelivery
      /\ Cardinality(batch \cap Actions) <= MaxScheduledActions
  <2>1. Distinct(state, batch)
    BY <1>1, <1>2, PendingDistinct
  <2>2. PICK x \in batch : \A y \in batch : y = x \/ Before(state, y, x)
    BY <1>3, <2>1, EndsExist
  <2>3. x \in instant /\ batch \subseteq upTo(x) /\ batch \cap Actions \subseteq upTo(x) \cap Actions
    BY <1>2, <2>2 DEF UpTo
  <2>4. /\ Cardinality(batch) <= Cardinality(upTo(x))
        /\ Cardinality(batch \cap Actions) <= Cardinality(upTo(x) \cap Actions)
    BY <1>5, <2>3, FS_Subset
  <2> HIDE DEF batch, upTo
  <2> QED
    BY <1>4, <1>5, <1>6, <1>7, <2>3, <2>4
<1>9. \A x, y \in batch : state.events[x].due = state.events[y].due
  BY <1>1, <1>2, EventTypes DEF EarliestDue
<1>10. ASSUME NEW set, WithinBudgets(state, set), NEW x \in set
       PROVE  x \in batch
  <2>1. /\ set \subseteq PendingEvents(state) /\ x \in EventIds
        /\ \A y \in set : state.events[x].due = state.events[y].due
        /\ \A y \in PendingEvents(state) \ set : Before(state, x, y)
        /\ Cardinality(set) <= MaxScheduledDelivery
        /\ Cardinality(set \cap Actions) <= MaxScheduledActions
    BY <1>1, <1>10 DEF WithinBudgets
  <2>2. \A y \in PendingEvents(state) : state.events[x].due <= state.events[y].due
    BY <1>1, <2>1, EventTypes DEF Before
  <2>3. x \in instant
    BY <2>1, <2>2 DEF EarliestDue
  <2>4. upTo(x) \subseteq set /\ upTo(x) \cap Actions \subseteq set \cap Actions
    <3>1. \A y \in instant : Before(state, y, x) => y \in set
      BY <1>1, <2>1, BeforeStrict
    <3> QED
      BY <3>1 DEF UpTo
  <2>5. /\ IsFiniteSet(set) /\ Cardinality(set) \in Nat
        /\ IsFiniteSet(set \cap Actions) /\ Cardinality(set \cap Actions) \in Nat
    BY <2>1, PendingDistinct
  <2>6. /\ Cardinality(upTo(x)) <= Cardinality(set)
        /\ Cardinality(upTo(x) \cap Actions) <= Cardinality(set \cap Actions)
    BY <2>4, <2>5, FS_Subset
  <2> HIDE DEF upTo
  <2>7. /\ Cardinality(upTo(x)) <= MaxScheduledDelivery
        /\ Cardinality(upTo(x) \cap Actions) <= MaxScheduledActions
    BY <1>5, <1>7, <2>1, <2>3, <2>5, <2>6
  <2> QED
    BY <2>3, <2>7 DEF Batch, upTo
<1>11. WithinBudgets(state, batch)
  BY <1>1, <1>2, <1>8, <1>9 DEF WithinBudgets
<1> QED
  BY <1>3, <1>10, <1>11

-----------------------------------------------------------------------------
(***************************************************************************)
(* A step in progress, and the batch it was begun for.                     *)
(***************************************************************************)

\* The schedule new is old with the events of the batch processed that are not
\* left to do, which came first.
Processing(old, new, batch, todo) ==
  /\ todo \subseteq batch /\ new.next = old.next
  /\ \A x \in EventIds \ (batch \ todo) : new.events[x] = old.events[x]
  /\ \A x \in batch \ todo :
       /\ new.events[x].status \in Processed
       /\ new.events[x].due = old.events[x].due
       /\ new.events[x].priority = old.events[x].priority
       /\ new.events[x].seq = old.events[x].seq
       /\ \A y \in todo : Before(old, x, y)

\* The log more is log with n rows more: those of the actions in the set, each
\* once and in its turn.
Logged(old, set, log, more, n) ==
  LET by(i) == more[Len(log) + i].by
  IN /\ n \in Nat /\ Len(more) = Len(log) + n
     /\ \A i \in 1..Len(log) : more[i] = log[i]
     /\ \A i \in 1..n : by(i) \in set \cap Actions
     /\ \A x \in set \cap Actions : \E i \in 1..n : by(i) = x
     /\ \A i, j \in 1..n : i < j => Before(old, by(i), by(j))

\* A step is on its way through the batch that its branch, unchanged since, would
\* have selected now; its clock stands at the instant of the batch.
StepFollows ==
  tx.on # None =>
    LET row == branch[tx.on]
        batch == Batch(row.state)
    IN /\ PendingEvents(row.state) # {}
       /\ \A x \in batch : row.state.events[x].due = tx.row.clock
       /\ Processing(row.state, tx.row.state, batch, tx.todo)
       /\ tx.row.calls >= row.calls
       /\ Logged(row.state, batch \ tx.todo, audit[tx.on], tx.audit, tx.row.calls - row.calls)

\* A branch or snapshot that does not exist has an empty row.
RowsAbsent ==
  /\ \A b \in Branches : ~Known(b) => branch[b] = NoBranch
  /\ \A s \in Names : snapshot[s].spec = None => snapshot[s] = NoSnapshot

StepInv == HistoryInv /\ StepFollows /\ RowsAbsent

\* The schedule new is old with the event x processed.
Processes(old, new, x) ==
  /\ new.next = old.next
  /\ \A y \in EventIds \ {x} : new.events[y] = old.events[y]
  /\ new.events[x].due = old.events[x].due
  /\ new.events[x].priority = old.events[x].priority
  /\ new.events[x].seq = old.events[x].seq
  /\ new.events[x].status \in Processed

\* Processing the first of what is left to do goes on with the batch.
LEMMA ProcessingNext ==
  ASSUME NEW old \in State, NEW mid \in State, NEW new \in State,
         NEW batch \in SUBSET EventIds, NEW todo, Processing(old, mid, batch, todo),
         NEW x \in todo, \A y \in todo \ {x} : Before(mid, x, y), Processes(mid, new, x)
  PROVE  Processing(old, new, batch, todo \ {x})
<1>1. /\ todo \subseteq batch /\ x \in EventIds /\ mid.next = old.next
      /\ \A y \in EventIds \ (batch \ todo) : mid.events[y] = old.events[y]
      /\ \A y \in batch \ todo : \A z \in todo : Before(old, y, z)
      /\ new.next = mid.next
      /\ \A y \in EventIds \ {x} : new.events[y] = mid.events[y]
      /\ new.events[x].due = mid.events[x].due
      /\ new.events[x].priority = mid.events[x].priority
      /\ new.events[x].seq = mid.events[x].seq /\ new.events[x].status \in Processed
  BY DEF Processing, Processes
<1>2. batch \ (todo \ {x}) = (batch \ todo) \cup {x}
  BY <1>1
<1>3. \A y \in todo : mid.events[y] = old.events[y]
  BY <1>1
<1>4. \A y \in todo \ {x} : Before(old, x, y)
  BY <1>3 DEF Before
<1>5. \A y \in EventIds \ (batch \ (todo \ {x})) : new.events[y] = old.events[y]
  BY <1>1, <1>2
<1>6. ASSUME NEW y \in batch \ (todo \ {x})
      PROVE  /\ new.events[y].status \in Processed
             /\ new.events[y].due = old.events[y].due
             /\ new.events[y].priority = old.events[y].priority
             /\ new.events[y].seq = old.events[y].seq
             /\ \A z \in todo \ {x} : Before(old, y, z)
  <2>1. CASE y = x
    BY <1>1, <1>3, <1>4, <2>1
  <2>2. CASE y # x
    <3>1. y \in batch \ todo /\ new.events[y] = mid.events[y]
      BY <1>1, <1>2, <2>2
    <3> QED
      BY <3>1 DEF Processing
  <2> QED
    BY <2>1, <2>2
<1> QED
  BY <1>1, <1>5, <1>6 DEF Processing

\* A signal adds no row.
LEMMA LoggedSignal ==
  ASSUME NEW old, NEW set, NEW log, NEW more, NEW n, Logged(old, set, log, more, n),
         NEW x, x \notin Actions
  PROVE  Logged(old, set \cup {x}, log, more, n)
<1>1. (set \cup {x}) \cap Actions = set \cap Actions
  OBVIOUS
<1> QED
  BY <1>1 DEF Logged

\* An action adds its row at the end, and everything before it came before it.
LEMMA LoggedAction ==
  ASSUME NEW old, NEW set, NEW log \in Seq(AuditRows), NEW more \in Seq(AuditRows), NEW n,
         Logged(old, set, log, more, n),
         NEW x \in Actions, \A y \in set : Before(old, y, x),
         NEW row \in AuditRows, row.by = x
  PROVE  Logged(old, set \cup {x}, log, Append(more, row), n + 1)
<1> DEFINE next == Append(more, row)
           by(i) == more[Len(log) + i].by
           nextBy(i) == next[Len(log) + i].by
<1>1. /\ n \in Nat /\ Len(log) \in Nat /\ Len(more) = Len(log) + n
      /\ \A i \in 1..Len(log) : more[i] = log[i]
      /\ \A i \in 1..n : by(i) \in set \cap Actions
      /\ \A y \in set \cap Actions : \E i \in 1..n : by(i) = y
      /\ \A i, j \in 1..n : i < j => Before(old, by(i), by(j))
  BY DEF Logged
<1>2. /\ Len(next) = Len(more) + 1 /\ next[Len(more) + 1] = row
      /\ \A i \in 1..Len(more) : next[i] = more[i]
  OBVIOUS
<1> HIDE DEF next
<1>3. /\ \A i \in 1..Len(log) : next[i] = log[i]
      /\ \A i \in 1..n : nextBy(i) = by(i)
      /\ nextBy(n + 1) = x
  <2>1. \A i \in 1..n : Len(log) + i \in 1..Len(more)
    BY <1>1
  <2>2. \A i \in 1..Len(log) : i \in 1..Len(more)
    BY <1>1
  <2>3. Len(log) + (n + 1) = Len(more) + 1
    BY <1>1
  <2> QED
    BY <1>1, <1>2, <2>1, <2>2, <2>3
<1>4. \A i \in 1..(n + 1) : i \in 1..n \/ i = n + 1
  BY <1>1
<1> HIDE DEF by, nextBy
<1>5. \A i \in 1..(n + 1) : nextBy(i) \in (set \cup {x}) \cap Actions
  BY <1>1, <1>3, <1>4
<1>6. \A y \in (set \cup {x}) \cap Actions : \E i \in 1..(n + 1) : nextBy(i) = y
  <2> TAKE y \in (set \cup {x}) \cap Actions
  <2>1. n + 1 \in 1..(n + 1) /\ \A i \in 1..n : i \in 1..(n + 1)
    BY <1>1
  <2>2. CASE y = x
    BY <1>3, <2>1, <2>2
  <2>3. CASE y \in set \cap Actions
    BY <1>1, <1>3, <2>1, <2>3
  <2> QED
    BY <2>2, <2>3
<1>7. \A i, j \in 1..(n + 1) : i < j => Before(old, nextBy(i), nextBy(j))
  <2> TAKE i, j \in 1..(n + 1)
  <2> HAVE i < j
  <2>1. i \in 1..n
    BY <1>1
  <2>2. CASE j \in 1..n
    BY <1>1, <1>3, <2>1, <2>2
  <2>3. CASE j = n + 1
    BY <1>1, <1>3, <2>1, <2>3
  <2> QED
    BY <1>4, <2>2, <2>3
<1>8. n + 1 \in Nat /\ Len(next) = Len(log) + (n + 1)
  BY <1>1, <1>2
<1> QED
  BY <1>3, <1>5, <1>6, <1>7, <1>8 DEF Logged, next, nextBy

\* A step begins with the whole batch to do, and its clock at the batch's instant:
\* nothing pending is overdue, so the clock is never kept ahead of it.
LEMMA BeginStepFollows ==
  ASSUME HistoryInv, NEW b \in Branches, NEW backed \in BOOLEAN, BeginStep(b, backed)
  PROVE  StepFollows'
<1> DEFINE state == branch[b].state
           first == CHOOSE x \in EarliestDue(state) : TRUE
           due == state.events[first].due
           clock == IF due > branch[b].clock THEN due ELSE branch[b].clock
           row == [branch[b] EXCEPT !.clock = clock]
           batch == Batch(state)
<1>1. /\ branch[b] \in Row /\ state \in State /\ branch[b].clock \in Nat
      /\ branch[b].calls \in Nat /\ audit[b] \in Seq(AuditRows)
  BY ColumnTypes DEF HistoryInv, StoreInv, StoreTypeOK
<1>2. /\ PendingEvents(state) # {}
      /\ tx' = [on |-> b, todo |-> batch, row |-> row,
                plans |-> plans[b], audit |-> audit[b], fired |-> fired[b]]
      /\ UNCHANGED <<branch, audit>>
  BY DEF BeginStep, rowVars
<1>3. Sound(branch[b]) /\ Lived(state, branch[b].clock)
  BY DEF HistoryInv, RowsLived, StoreInv, RowsSound
<1>4. due \in Nat /\ \A y \in PendingEvents(state) : due <= state.events[y].due
  BY <1>1, <1>2, EarliestInstant
<1>5. EarliestDue(state) # {}
  <2>1. batch # {} /\ batch \subseteq EarliestDue(state)
    BY <1>1, <1>2, <1>3, BatchIsLongest, BatchIsPrefix
  <2> QED
    BY <2>1
<1>6. first \in EarliestDue(state)
  BY <1>5
<1> HIDE DEF first
<1>7. clock = due
  <2>1. first \in EventIds /\ state.events[first].status = Pending
    BY <1>6 DEF EarliestDue, PendingEvents
  <2>2. due >= branch[b].clock
    BY <1>3, <2>1 DEF Sound
  <2> QED
    BY <1>1, <1>4, <2>2
<1>8. \A x \in batch : state.events[x].due = clock
  <2> TAKE x \in batch
  <2>1. x \in EarliestDue(state)
    BY DEF Batch
  <2>2. state.events[x].due <= due /\ due <= state.events[x].due /\ x \in EventIds
    BY <1>4, <1>6, <2>1 DEF EarliestDue, PendingEvents
  <2> QED
    BY <1>1, <1>4, <1>7, <2>2, EventTypes
<1> HIDE DEF due, clock
<1>9. row.state = state /\ row.clock = clock /\ row.calls = branch[b].calls
  BY <1>1 DEF Row
<1>10. Processing(state, state, batch, batch)
  BY DEF Processing
<1>11. Logged(state, {}, audit[b], audit[b], 0)
  BY <1>1 DEF Logged
<1>12. row.calls - branch[b].calls = 0 /\ row.calls >= branch[b].calls /\ batch \ batch = {}
  BY <1>1, <1>9
<1>13. /\ tx'.on = b /\ tx'.todo = batch /\ tx'.row = row /\ tx'.audit = audit[b]
       /\ branch'[b] = branch[b] /\ audit'[b] = audit[b]
  BY <1>2
<1> HIDE DEF row, batch
<1>14. StepFollows' <=>
         LET r == branch'[tx'.on]
             set == Batch(r.state)
         IN tx'.on # None =>
              /\ PendingEvents(r.state) # {}
              /\ \A x \in set : r.state.events[x].due = tx'.row.clock
              /\ Processing(r.state, tx'.row.state, set, tx'.todo)
              /\ tx'.row.calls >= r.calls
              /\ Logged(r.state, set \ tx'.todo, audit'[tx'.on], tx'.audit,
                        tx'.row.calls - r.calls)
  BY DEF StepFollows
<1> QED
  BY <1>2, <1>8, <1>9, <1>10, <1>11, <1>12, <1>13, <1>14 DEF batch

\* A step that processes the next event, and logs it if it is an action, is still
\* on its way through the batch.
LEMMA NextFollows ==
  ASSUME HistoryInv, StepFollows, StoreInv', tx.on # None, NEW x \in tx.todo,
         \A y \in tx.todo \ {x} : Before(tx.row.state, x, y),
         UNCHANGED <<branch, audit>>,
         tx'.on = tx.on, tx'.todo = tx.todo \ {x}, tx'.row.clock = tx.row.clock,
         Processes(tx.row.state, tx'.row.state, x),
         \/ /\ x \notin Actions /\ tx'.row.calls = tx.row.calls /\ tx'.audit = tx.audit
         \/ /\ x \in Actions /\ tx'.row.calls = tx.row.calls + 1
            /\ \E row \in AuditRows : row.by = x /\ tx'.audit = Append(tx.audit, row)
  PROVE  StepFollows'
<1> DEFINE b == tx.on
           state == branch[b].state
           batch == Batch(state)
           n == tx.row.calls - branch[b].calls
<1>1. /\ b \in Branches /\ tx.row.state \in State /\ tx.audit \in Seq(AuditRows)
      /\ tx.row.calls \in Nat /\ branch[b].calls \in Nat /\ state \in State
      /\ audit[b] \in Seq(AuditRows)
  BY StepTypes, ColumnTypes DEF HistoryInv, StoreInv, StoreTypeOK
<1>2. tx'.row.state \in State
  <2>1. StoreTypeOK'
    BY DEF StoreInv
  <2>2. tx'.row \in Row
    BY <2>1 DEF StoreTypeOK
  <2> QED
    BY <2>2 DEF Row
<1>3. /\ PendingEvents(state) # {}
      /\ \A y \in batch : state.events[y].due = tx.row.clock
      /\ Processing(state, tx.row.state, batch, tx.todo)
      /\ tx.row.calls >= branch[b].calls
      /\ Logged(state, batch \ tx.todo, audit[b], tx.audit, n)
  BY DEF StepFollows
<1>4. batch \subseteq EventIds
  BY DEF Batch, EarliestDue, PendingEvents
<1>5. /\ Processing(state, tx'.row.state, batch, tx.todo \ {x})
      /\ batch \ (tx.todo \ {x}) = (batch \ tx.todo) \cup {x}
      /\ \A y \in batch \ tx.todo : Before(state, y, x)
  <2>1. batch \ (tx.todo \ {x}) = (batch \ tx.todo) \cup {x}
    BY <1>3 DEF Processing
  <2>2. \A y \in batch \ tx.todo : Before(state, y, x)
    BY <1>3 DEF Processing
  <2> HIDE DEF state, batch
  <2>3. Processing(state, tx'.row.state, batch, tx.todo \ {x})
    BY <1>1, <1>2, <1>3, <1>4, ProcessingNext
  <2> QED
    BY <2>1, <2>2, <2>3
<1>6. /\ tx'.row.calls >= branch[b].calls
      /\ Logged(state, batch \ (tx.todo \ {x}), audit[b], tx'.audit,
                tx'.row.calls - branch[b].calls)
  <2> HIDE DEF state, batch
  <2>1. CASE x \notin Actions
    BY <1>3, <1>5, <2>1, LoggedSignal
  <2>2. CASE x \in Actions
    <3>1. PICK row \in AuditRows : row.by = x /\ tx'.audit = Append(tx.audit, row)
      BY <2>2
    <3>2. tx'.row.calls - branch[b].calls = n + 1 /\ tx'.row.calls >= branch[b].calls
      BY <1>1, <1>3, <2>2
    <3>3. Logged(state, (batch \ tx.todo) \cup {x}, audit[b], tx'.audit, n + 1)
      <4> HIDE DEF n, b
      <4> QED
        BY <1>1, <1>3, <1>5, <2>2, <3>1, LoggedAction
    <3> QED
      BY <1>5, <3>2, <3>3
  <2> QED
    BY <2>1, <2>2
<1> HIDE DEF n
<1>7. branch'[tx'.on] = branch[b] /\ audit'[tx'.on] = audit[b]
  OBVIOUS
<1> QED
  BY <1>3, <1>5, <1>6, <1>7 DEF StepFollows

\* Every step of the store keeps the step in progress on its way.
LEMMA StepFollowsNext ==
  ASSUME StepInv, HistoryInv', [StoreNext]_storeVars
  PROVE  StepFollows'
<1>1. HistoryInv /\ StoreInv /\ StepFollows /\ StoreInv'
  BY DEF StepInv, HistoryInv
<1>2. CASE UNCHANGED storeVars
  BY <1>1, <1>2 DEF storeVars, StepFollows
<1>3. CASE tx'.on = None
  BY <1>3 DEF StepFollows
<1>4. CASE tx.on = None /\ UNCHANGED tx
  BY <1>4 DEF StepFollows
<1>5. ASSUME NEW b \in Branches, NEW backed \in BOOLEAN, BeginStep(b, backed)
      PROVE  StepFollows'
  BY <1>1, <1>5, BeginStepFollows
<1>6. ASSUME NEW x \in EventIds, StepSignal(x)
      PROVE  StepFollows'
  <2> DEFINE old == tx.row
             new == tx'.row
  <2>1. /\ tx.on # None /\ x \in tx.todo /\ x \notin Actions /\ old.state \in State
        /\ \A y \in tx.todo \ {x} : Before(old.state, x, y)
        /\ UNCHANGED <<branch, audit>>
        /\ tx'.on = tx.on /\ tx'.todo = tx.todo \ {x} /\ tx'.audit = tx.audit
        /\ new.calls = old.calls /\ new.clock = old.clock /\ new.state.next = old.state.next
        /\ new.state.events[x] = [old.state.events[x] EXCEPT !.status = "delivered"]
        /\ \A y \in EventIds \ {x} : new.state.events[y] = old.state.events[y]
    BY <1>1, <1>6, SignalStep
  <2>2. /\ new.state.events[x].status = "delivered"
        /\ new.state.events[x].due = old.state.events[x].due
        /\ new.state.events[x].priority = old.state.events[x].priority
        /\ new.state.events[x].seq = old.state.events[x].seq
    <3>1. old.state.events[x] \in Event
      BY <2>1, EventTypes
    <3> QED
      BY <2>1, <3>1 DEF Event
  <2>3. "delivered" \in Processed
    BY DEF Processed
  <2>4. Processes(old.state, new.state, x)
    BY <2>1, <2>2, <2>3 DEF Processes
  <2> QED
    BY <1>1, <2>1, <2>4, NextFollows
<1>7. ASSUME NEW x \in EventIds, NEW ok \in BOOLEAN, StepAction(x, ok)
      PROVE  StepFollows'
  <2> DEFINE old == tx.row
             new == tx'.row
             o == Outcome(tx.plans, old.state.events[x].tool, ok)
             event == Executed(x, o)
             row == AuditRow(old.calls + 1, x, o)
  <2>1. /\ tx.on # None /\ x \in tx.todo /\ x \in Actions
        /\ \A y \in tx.todo \ {x} : Before(old.state, x, y)
        /\ UNCHANGED <<branch, audit>>
        /\ tx'.on = tx.on /\ tx'.todo = tx.todo \ {x}
        /\ o.ok \in BOOLEAN /\ o.effect \in BOOLEAN
        /\ tx'.audit = Append(tx.audit, row)
        /\ old.calls \in Nat /\ new.calls = old.calls + 1 /\ new.clock = old.clock
        /\ new.state.next = old.state.next /\ new.state.events[x] = event
        /\ event.status = (IF o.ok THEN "completed" ELSE "failed")
        /\ event.due = old.state.events[x].due /\ event.seq = old.state.events[x].seq
        /\ event.priority = old.state.events[x].priority
        /\ \A y \in EventIds \ {x} : new.state.events[y] = old.state.events[y]
    BY <1>1, <1>7, ActionStep
  <2> HIDE DEF o, event
  <2>2. row \in AuditRows /\ row.by = x
    BY <2>1 DEF AuditRow, AuditRows
  <2>3. new.state.events[x].status \in Processed
    BY <2>1, OutcomesAreProcessed
  <2> HIDE DEF row
  <2>4. Processes(old.state, new.state, x)
    BY <2>1, <2>3 DEF Processes
  <2> QED
    BY <1>1, <2>1, <2>2, <2>4, NextFollows
<1>8. ASSUME NEW d \in Specs, NEW b \in Branches, Start(d, b)
      PROVE  StepFollows'
  BY <1>3, <1>8, LiteralRows DEF Start
<1>9. ASSUME NEW s \in Names, NEW b \in Branches,
             CreateSnapshot(s, b) \/ Fork(s, b) \/ Reset(s, b)
      PROVE  StepFollows'
  BY <1>4, <1>9 DEF CreateSnapshot, Fork, Reset, Open
<1>10. ASSUME NEW c \in Clients, NEW b \in Branches, Read(c, b)
       PROVE  StepFollows'
  BY <1>4, <1>10 DEF Read
<1>11. ASSUME NEW b \in Branches, NEW f \in FaultIds,
              \/ \E tool \in Tools, phase \in Phases,
                    n \in 1..MaxFaultRepeats : InstallFault(b, f, tool, phase, n)
              \/ RemoveFault(b, f)
       PROVE  StepFollows'
  BY <1>4, <1>11 DEF InstallFault, RemoveFault, Open
<1>12. ASSUME NEW b \in Branches, NEW tool \in Tools, NEW ok \in BOOLEAN,
              ApplyCall(b, tool, ok)
       PROVE  StepFollows'
  BY <1>4, <1>12 DEF ApplyCall, Open
<1>13. ASSUME NEW b \in Branches, NEW x \in EventIds, NEW due, NEW priority, NEW tool,
              ScheduleEvent(b, x, due, priority, tool) \/ CancelScheduledEvent(b, x)
       PROVE  StepFollows'
  BY <1>4, <1>13 DEF ScheduleEvent, CancelScheduledEvent, Open
<1>14. ASSUME NEW b, NEW target, AdvanceClock(b, target)
       PROVE  StepFollows'
  BY <1>4, <1>14 DEF AdvanceClock, Open
<1>15. ASSUME NEW c \in Clients, NEW d, NEW checked, AdvanceBy(c, d, checked)
       PROVE  StepFollows'
  BY <1>14, <1>15 DEF AdvanceBy
<1>16. CASE CommitStep \/ AbortStep
  BY <1>3, <1>16, LiteralRows DEF CommitStep, AbortStep
<1> QED
  BY <1>2, <1>5, <1>6, <1>7, <1>8, <1>9, <1>10, <1>11, <1>12, <1>13, <1>14, <1>15, <1>16
     DEF StoreNext

\* Rows appear, and are written, with a TwinSpec.
LEMMA RowsAbsentNext ==
  ASSUME StepInv, StoreInv', [StoreNext]_storeVars
  PROVE  RowsAbsent'
<1>1. HistoryInv /\ StoreInv /\ StoreTypeOK /\ RowsAbsent
  BY DEF StepInv, HistoryInv, StoreInv
<1>2. CASE UNCHANGED <<branch, snapshot>>
  BY <1>1, <1>2 DEF RowsAbsent, Known
<1>3. ASSUME NEW b \in Branches, UNCHANGED snapshot, branch'[b].spec # None,
             \A o \in Branches : o # b => branch'[o] = branch[o]
      PROVE  RowsAbsent'
  BY <1>1, <1>3 DEF RowsAbsent, Known
<1>4. ASSUME NEW d \in Specs, NEW b \in Branches, Start(d, b)
      PROVE  RowsAbsent'
  <2>1. CASE Known(b)
    BY <1>2, <1>4, <2>1 DEF Start, InitializeBranch
  <2>2. CASE ~Known(b)
    <3>1. branch' = [branch EXCEPT ![b] = [NoBranch EXCEPT !.spec = d]] /\ UNCHANGED snapshot
      BY <1>4, <2>2 DEF Start, InitializeBranch
    <3>2. branch'[b].spec = d /\ \A o \in Branches : o # b => branch'[o] = branch[o]
      BY <1>1, <3>1 DEF StoreTypeOK, NoBranch
    <3>3. d # None
      BY StoreAssumption
    <3> QED
      BY <1>3, <3>1, <3>2, <3>3
  <2> QED
    BY <2>1, <2>2
<1>5. ASSUME NEW s \in Names, NEW b \in Branches, CreateSnapshot(s, b)
      PROVE  RowsAbsent'
  <2>1. /\ UNCHANGED branch /\ branch[b].spec # None
        /\ snapshot'[s].spec = branch[b].spec
        /\ \A n \in Names : n # s => snapshot'[n] = snapshot[n]
    BY <1>1, <1>5 DEF CreateSnapshot, rowVars, Known, StoreTypeOK
  <2> QED
    BY <1>1, <2>1 DEF RowsAbsent, Known
<1>6. ASSUME NEW s \in Names, NEW b \in Branches, Fork(s, b) \/ Reset(s, b)
      PROVE  RowsAbsent'
  <2>1. /\ UNCHANGED snapshot /\ branch'[b].spec = snapshot[s].spec /\ snapshot[s].spec # None
        /\ \A o \in Branches : o # b => branch'[o] = branch[o]
    BY <1>1, <1>6 DEF Fork, Reset, ResetRow, StoreTypeOK
  <2> QED
    BY <1>3, <2>1
<1>7. ASSUME NEW b \in Branches, Known(b), UNCHANGED snapshot, branch'[b].spec = branch[b].spec,
             \A o \in Branches : o # b => branch'[o] = branch[o]
      PROVE  RowsAbsent'
  BY <1>3, <1>7 DEF Known
<1>8. ASSUME NEW b \in Branches, NEW f \in FaultIds,
             \/ \E tool \in Tools, phase \in Phases,
                   n \in 1..MaxFaultRepeats : InstallFault(b, f, tool, phase, n)
             \/ RemoveFault(b, f)
      PROVE  RowsAbsent'
  <2>1. branch' = [branch EXCEPT ![b].head = @ + 1] /\ UNCHANGED snapshot /\ Known(b)
    BY <1>8 DEF InstallFault, RemoveFault, Open
  <2>2. branch \in [Branches -> Row]
    BY <1>1 DEF StoreTypeOK
  <2>3. branch'[b].spec = branch[b].spec /\ \A o \in Branches : o # b => branch'[o] = branch[o]
    BY <2>1, <2>2 DEF Row
  <2> QED
    BY <1>7, <2>1, <2>3
<1>9. ASSUME NEW b \in Branches, NEW tool \in Tools, NEW ok \in BOOLEAN,
             ApplyCall(b, tool, ok)
      PROVE  RowsAbsent'
  <2> DEFINE o == Outcome(plans[b], tool, ok)
  <2>1. /\ branch' = [branch EXCEPT ![b].state.world = @ + Effects(o),
                                   ![b].calls = branch[b].calls + 1, ![b].head = @ + 1]
        /\ UNCHANGED snapshot /\ Known(b)
    BY <1>9 DEF ApplyCall, Open
  <2> HIDE DEF o
  <2>2. branch \in [Branches -> Row]
    BY <1>1 DEF StoreTypeOK
  <2>3. branch'[b].spec = branch[b].spec /\ \A q \in Branches : q # b => branch'[q] = branch[q]
    BY <2>1, <2>2 DEF Row
  <2> QED
    BY <1>7, <2>1, <2>3
<1>10. ASSUME NEW b \in Branches, NEW x \in EventIds, NEW due, NEW priority, NEW tool,
              ScheduleEvent(b, x, due, priority, tool) \/ CancelScheduledEvent(b, x)
       PROVE  RowsAbsent'
  <2>1. /\ UNCHANGED snapshot /\ Known(b)
        /\ \E n, e : \/ branch' = [branch EXCEPT ![b].state.next = @ + 1,
                                       ![b].state.events[x] = e, ![b].head = @ + 1]
                     \/ branch' = [branch EXCEPT ![b].state.events[x].status = e,
                                       ![b].head = @ + 1]
    BY <1>10 DEF ScheduleEvent, CancelScheduledEvent, Open
  <2>2. branch \in [Branches -> Row]
    BY <1>1 DEF StoreTypeOK
  <2>3. branch'[b].spec = branch[b].spec /\ \A o \in Branches : o # b => branch'[o] = branch[o]
    BY <2>1, <2>2 DEF Row
  <2> QED
    BY <1>7, <2>1, <2>3
<1>11. ASSUME NEW b \in Branches, NEW target, AdvanceClock(b, target)
       PROVE  RowsAbsent'
  <2>1. /\ UNCHANGED snapshot /\ Known(b)
        /\ \E f : branch' = [branch EXCEPT ![b].clock = target, ![b].state.events = f,
                                          ![b].head = @ + 1]
    BY <1>11 DEF AdvanceClock, Open
  <2>2. branch \in [Branches -> Row]
    BY <1>1 DEF StoreTypeOK
  <2>3. branch'[b].spec = branch[b].spec /\ \A o \in Branches : o # b => branch'[o] = branch[o]
    BY <2>1, <2>2 DEF Row
  <2> QED
    BY <1>7, <2>1, <2>3
<1>12. ASSUME NEW c \in Clients, NEW d, NEW checked, AdvanceBy(c, d, checked)
       PROVE  RowsAbsent'
  <2>1. view[c].on \in Branches
    BY <1>1, <1>12 DEF AdvanceBy, StoreTypeOK
  <2> QED
    BY <1>11, <1>12, <2>1 DEF AdvanceBy
<1>13. CASE CommitStep
  <2>1. /\ tx.on \in Branches /\ branch \in [Branches -> Row] /\ tx.row \in Row
        /\ Known(tx.on) /\ tx.row.spec = branch[tx.on].spec
    BY <1>1, <1>13, StepTypes DEF CommitStep, StoreInv, StepSound, StoreTypeOK
  <2>2. branch' = [branch EXCEPT ![tx.on] = [tx.row EXCEPT !.head = @ + 1]]
        /\ UNCHANGED snapshot
    BY <1>13 DEF CommitStep
  <2>3. /\ branch'[tx.on].spec = branch[tx.on].spec
        /\ \A o \in Branches : o # tx.on => branch'[o] = branch[o]
    BY <2>1, <2>2 DEF Row
  <2> QED
    BY <1>7, <2>1, <2>2, <2>3
<1>14. CASE \/ UNCHANGED storeVars \/ AbortStep
            \/ \E c \in Clients, b \in Branches : Read(c, b)
            \/ \E b \in Branches, backed \in BOOLEAN : BeginStep(b, backed)
            \/ \E x \in EventIds, ok \in BOOLEAN : StepSignal(x) \/ StepAction(x, ok)
  BY <1>2, <1>14 DEF storeVars, rowVars, AbortStep, Read, BeginStep, StepSignal, StepAction
<1> QED
  BY <1>4, <1>5, <1>6, <1>8, <1>9, <1>10, <1>11, <1>12, <1>13, <1>14 DEF StoreNext

\* A step in progress never strays from the batch that its branch would select
\* now, whatever its callbacks commit or consume and however often it is rolled
\* back and begun again: what it has left to do is the rest of that batch, and its
\* log is the branch's with the actions done, each once and in turn
\* (advanceClockToNext).
THEOREM StepsFollowTheirBatch == StoreSpec => []StepInv
<1>1. StoreInit => StepInv
  <2> HAVE StoreInit
  <2>1. HistoryInv
    BY InitEstablishesHistoryInv
  <2>2. tx.on = None
    BY LiteralRows DEF StoreInit
  <2> QED
    BY <2>1, <2>2 DEF StepInv, StepFollows, StoreInit, RowsAbsent
<1>2. StepInv /\ [StoreNext]_storeVars => StepInv'
  <2> HAVE StepInv /\ [StoreNext]_storeVars
  <2>1. HistoryInv'
    BY StepLives DEF StepInv
  <2>2. StepFollows'
    BY <2>1, StepFollowsNext
  <2>3. RowsAbsent'
    BY <2>1, RowsAbsentNext DEF HistoryInv
  <2> QED
    BY <2>1, <2>2, <2>3 DEF StepInv
<1> QED
  BY <1>1, <1>2, PTL DEF StoreSpec

-----------------------------------------------------------------------------
(***************************************************************************)
(* The store keeps the promise of its scheduler: tables and logs.          *)
(***************************************************************************)

\* The promise counts as the store does.
LEMMA PromiseCounts ==
  ASSUME NEW set
  PROVE  Promise!Cardinality(set) = Cardinality(set)
BY DEF Promise!Cardinality, Cardinality

\* What a timetable says of its events is what the row says.
LEMMA TableFields ==
  ASSUME NEW row
  PROVE  LET t == TableOf(row)
         IN /\ t.clock = row.clock /\ t.next = row.state.next /\ t.used = Present(row.state)
            /\ DOMAIN t.pending = PendingEvents(row.state)
            /\ \A x \in PendingEvents(row.state) :
                 /\ t.pending[x].due = row.state.events[x].due
                 /\ t.pending[x].priority = row.state.events[x].priority
                 /\ t.pending[x].seq = row.state.events[x].seq
BY DEF TableOf

\* The promise orders the pending as scheduledEvents does.
LEMMA TableOrder ==
  ASSUME NEW row, NEW x \in PendingEvents(row.state), NEW y \in PendingEvents(row.state)
  PROVE  Promise!Precedes(TableOf(row), x, y) <=> Before(row.state, x, y)
<1>1. \A z \in {x, y} :
        /\ TableOf(row).pending[z].due = row.state.events[z].due
        /\ TableOf(row).pending[z].priority = row.state.events[z].priority
        /\ TableOf(row).pending[z].seq = row.state.events[z].seq
  BY TableFields
<1> QED
  BY <1>1 DEF Promise!Precedes, Before

\* What the promise allows is what the budgets allow.
LEMMA TableAllows ==
  ASSUME NEW row, NEW set
  PROVE  Promise!Allowed(TableOf(row), set) <=> WithinBudgets(row.state, set)
<1> DEFINE t == TableOf(row)
<1>1. /\ DOMAIN t.pending = PendingEvents(row.state)
      /\ \A x \in PendingEvents(row.state) : t.pending[x].due = row.state.events[x].due
  BY TableFields
<1>2. \A x, y \in PendingEvents(row.state) :
        Promise!Precedes(t, x, y) <=> Before(row.state, x, y)
  BY TableOrder
<1>3. /\ Promise!Cardinality(set) = Cardinality(set)
      /\ Promise!Cardinality(set \cap Actions) = Cardinality(set \cap Actions)
  BY PromiseCounts
<1> HIDE DEF t
<1>4. CASE set \subseteq PendingEvents(row.state)
  <2>1. (\A x, y \in set : t.pending[x].due = t.pending[y].due) <=>
          (\A x, y \in set : row.state.events[x].due = row.state.events[y].due)
    BY <1>1, <1>4
  <2>2. (\A x \in set, y \in DOMAIN t.pending \ set : Promise!Precedes(t, x, y)) <=>
          (\A x \in set, y \in PendingEvents(row.state) \ set : Before(row.state, x, y))
    BY <1>1, <1>2, <1>4
  <2> QED
    BY <1>1, <1>3, <1>4, <2>1, <2>2 DEF Promise!Allowed, WithinBudgets, t
<1>5. CASE ~(set \subseteq PendingEvents(row.state))
  BY <1>1, <1>5 DEF Promise!Allowed, WithinBudgets, t
<1> QED
  BY <1>4, <1>5

\* A row with the same clock and schedule has the same timetable.
LEMMA SameTable ==
  ASSUME NEW old, NEW new, new.clock = old.clock, new.state.next = old.state.next,
         new.state.events = old.state.events
  PROVE  TableOf(new) = TableOf(old)
BY DEF TableOf, Present, PendingEvents

\* The pending events in the set end, the others stay as they were.
RowLoses(old, new, set) ==
  /\ new.state.next = old.state.next
  /\ set \subseteq PendingEvents(old.state)
  /\ \A x \in EventIds \ set : new.state.events[x] = old.state.events[x]
  /\ \A x \in set : new.state.events[x].status \notin {Pending, "absent"}

\* Events that end are pending no more, but stay scheduled.
LEMMA PendingEnds ==
  ASSUME NEW old, NEW new, NEW set, RowLoses(old, new, set)
  PROVE  /\ Present(new.state) = Present(old.state)
         /\ PendingEvents(new.state) = PendingEvents(old.state) \ set
         /\ \A x \in PendingEvents(new.state) : new.state.events[x] = old.state.events[x]
<1>1. /\ set \subseteq EventIds /\ \A x \in set : old.state.events[x].status = Pending
      /\ \A x \in EventIds \ set : new.state.events[x] = old.state.events[x]
      /\ \A x \in set : new.state.events[x].status \notin {Pending, "absent"}
  BY DEF RowLoses, PendingEvents
<1>2. PendingEvents(new.state) = PendingEvents(old.state) \ set
  BY <1>1 DEF PendingEvents
<1>3. \A x \in EventIds :
        new.state.events[x].status # "absent" <=> old.state.events[x].status # "absent"
  BY <1>1, StatusesDiffer
<1>4. Present(new.state) = Present(old.state)
  BY <1>3 DEF Present
<1>5. PendingEvents(new.state) \subseteq EventIds \ set
  BY <1>2 DEF PendingEvents
<1> QED
  BY <1>1, <1>2, <1>4, <1>5

\* Then they are gone from the timetable.
LEMMA EndedTable ==
  ASSUME NEW old, NEW new, NEW set, RowLoses(old, new, set)
  PROVE  TableOf(new) = Promise!Past(TableOf(old), new.clock, set)
<1> DEFINE Entry(row, x) == [due |-> row.state.events[x].due,
                             priority |-> row.state.events[x].priority,
                             seq |-> row.state.events[x].seq]
<1>1. \A x \in PendingEvents(old.state) : TableOf(old).pending[x] = Entry(old, x)
  BY DEF TableOf
<1>2. /\ TableOf(old).next = old.state.next /\ TableOf(old).used = Present(old.state)
      /\ DOMAIN TableOf(old).pending = PendingEvents(old.state)
  BY TableFields
<1>3. /\ new.state.next = old.state.next /\ Present(new.state) = Present(old.state)
      /\ PendingEvents(new.state) = PendingEvents(old.state) \ set
      /\ \A x \in PendingEvents(new.state) : new.state.events[x] = old.state.events[x]
  <2>1. new.state.next = old.state.next
    BY DEF RowLoses
  <2> QED
    BY <2>1, PendingEnds
<1>4. \A x \in PendingEvents(new.state) : TableOf(old).pending[x] = Entry(new, x)
  BY <1>1, <1>3
<1>5. [x \in PendingEvents(new.state) |-> Entry(new, x)] =
        [x \in DOMAIN TableOf(old).pending \ set |-> TableOf(old).pending[x]]
  <2> HIDE DEF Entry
  <2> QED
    BY <1>2, <1>3, <1>4
<1>6. TableOf(new) = [clock |-> new.clock, next |-> new.state.next,
                      used |-> Present(new.state),
                      pending |-> [x \in PendingEvents(new.state) |-> Entry(new, x)]]
  BY DEF TableOf
<1>7. Promise!Past(TableOf(old), new.clock, set) =
        [clock |-> new.clock, next |-> TableOf(old).next, used |-> TableOf(old).used,
         pending |-> [x \in DOMAIN TableOf(old).pending \ set |-> TableOf(old).pending[x]]]
  BY DEF Promise!Past
<1> QED
  BY <1>2, <1>3, <1>5, <1>6, <1>7

\* The event x is scheduled, the others stay as they were.
RowGains(old, new, x, due, priority) ==
  /\ new.clock = old.clock /\ new.state.next = old.state.next + 1
  /\ Present(new.state) = Present(old.state) \cup {x}
  /\ PendingEvents(new.state) = PendingEvents(old.state) \cup {x}
  /\ \A y \in PendingEvents(old.state) \ {x} : new.state.events[y] = old.state.events[y]
  /\ new.state.events[x].due = due /\ new.state.events[x].priority = priority
  /\ new.state.events[x].seq = old.state.next + 1

\* Then it is in the timetable.
LEMMA ScheduledTable ==
  ASSUME NEW old, NEW new, NEW x, NEW due, NEW priority, RowGains(old, new, x, due, priority)
  PROVE  TableOf(new) = Promise!With(TableOf(old), x, due, priority)
<1> DEFINE Entry(row, y) == [due |-> row.state.events[y].due,
                             priority |-> row.state.events[y].priority,
                             seq |-> row.state.events[y].seq]
           t == TableOf(old)
           entry == [due |-> due, priority |-> priority, seq |-> t.next + 1]
<1>1. \A y \in PendingEvents(old.state) : t.pending[y] = Entry(old, y)
  BY DEF TableOf
<1>2. /\ t.next = old.state.next /\ t.used = Present(old.state) /\ t.clock = old.clock
      /\ DOMAIN t.pending = PendingEvents(old.state)
  BY TableFields
<1>3. /\ new.clock = old.clock /\ new.state.next = old.state.next + 1
      /\ Present(new.state) = Present(old.state) \cup {x}
      /\ PendingEvents(new.state) = PendingEvents(old.state) \cup {x}
      /\ \A y \in PendingEvents(old.state) \ {x} : t.pending[y] = Entry(new, y)
  BY <1>1 DEF RowGains
<1>4. Entry(new, x) = entry
  BY <1>2 DEF RowGains
<1>5. [y \in PendingEvents(new.state) |-> Entry(new, y)] =
        [y \in DOMAIN t.pending \cup {x} |-> IF y = x THEN entry ELSE t.pending[y]]
  <2> HIDE DEF Entry, entry, t
  <2> QED
    BY <1>2, <1>3, <1>4
<1>6. TableOf(new) = [clock |-> new.clock, next |-> new.state.next,
                      used |-> Present(new.state),
                      pending |-> [y \in PendingEvents(new.state) |-> Entry(new, y)]]
  BY DEF TableOf
<1>7. Promise!With(t, x, due, priority) =
        [clock |-> t.clock, next |-> t.next + 1, used |-> t.used \cup {x},
         pending |-> [y \in DOMAIN t.pending \cup {x} |->
                        IF y = x THEN entry ELSE t.pending[y]]]
  BY DEF Promise!With
<1> QED
  BY <1>2, <1>3, <1>5, <1>6, <1>7

\* Two sequences joined.
LEMMA Joined ==
  ASSUME NEW S, NEW s \in Seq(S), NEW t \in Seq(S)
  PROVE  /\ \A i \in 1..Len(s) : (s \o t)[i] = s[i]
         /\ \A i \in (Len(s) + 1)..(Len(s) + Len(t)) : (s \o t)[i] = t[i - Len(s)]
         /\ s \o t = [i \in 1..(Len(s) + Len(t)) |-> (s \o t)[i]]
<1>1. /\ \A i \in 1..Len(s) : (s \o t)[i] = s[i]
      /\ \A i \in (Len(s) + 1)..(Len(s) + Len(t)) : (s \o t)[i] = t[i - Len(s)]
  OBVIOUS
<1>2. s \o t = [i \in 1..(Len(s) + Len(t)) |-> (s \o t)[i]]
  <2> DEFINE q == s \o t
  <2>1. q \in Seq(S) /\ Len(q) = Len(s) + Len(t)
    BY ConcatProperties
  <2> HIDE DEF q
  <2>2. q = [i \in 1..(Len(s) + Len(t)) |-> q[i]]
    BY <2>1
  <2> QED
    BY <2>2 DEF q
<1> QED
  BY <1>1, <1>2

\* Who made the last n rows of a log.
MadeBy(n, log) == [i \in 1..n |-> log[Len(log) - n + i].by]

\* Who made the n rows that the log more has more than log.
Callers(log, more, n) == [i \in 1..n |-> more[Len(log) + i].by]

\* Rows that are added to a log are added to the last of them.
LEMMA MadeByMore ==
  ASSUME NEW log \in Seq(AuditRows), NEW more \in Seq(AuditRows), NEW n \in Nat, n <= Len(log),
         NEW k \in Nat, Len(more) = Len(log) + k, \A i \in 1..Len(log) : more[i] = log[i]
  PROVE  MadeBy(n + k, more) = MadeBy(n, log) \o Callers(log, more, k)
<1> DEFINE first == MadeBy(n, log)
           rest == Callers(log, more, k)
           last == MadeBy(n + k, more)
           People == EventIds \cup {None}
<1>1. Len(log) \in Nat /\ Len(more) \in Nat
  OBVIOUS
<1>2. /\ \A i \in 1..Len(log) : log[i].by \in People
      /\ \A i \in 1..Len(more) : more[i].by \in People
  <2>1. \A row \in AuditRows : row.by \in People
    BY DEF AuditRows
  <2>2. /\ \A i \in 1..Len(log) : log[i] \in AuditRows
        /\ \A i \in 1..Len(more) : more[i] \in AuditRows
    OBVIOUS
  <2> QED
    BY <2>1, <2>2
<1>3. \A i \in 1..n : Len(log) - n + i \in 1..Len(log)
  BY <1>1
<1>4. \A j \in 1..k : Len(log) + j \in 1..Len(more)
  BY <1>1
<1>5. first \in Seq(People) /\ Len(first) = n /\ rest \in Seq(People) /\ Len(rest) = k
  <2>1. first \in [1..n -> People] /\ rest \in [1..k -> People]
    BY <1>2, <1>3, <1>4 DEF MadeBy, Callers
  <2> HIDE DEF first, rest
  <2> QED
    BY <2>1
<1>6. /\ \A i \in 1..n : (first \o rest)[i] = first[i]
      /\ \A i \in (n + 1)..(n + k) : (first \o rest)[i] = rest[i - n]
      /\ first \o rest = [i \in 1..(n + k) |-> (first \o rest)[i]]
  <2> HIDE DEF first, rest, People
  <2>1. /\ \A i \in 1..Len(first) : (first \o rest)[i] = first[i]
        /\ \A i \in (Len(first) + 1)..(Len(first) + Len(rest)) :
             (first \o rest)[i] = rest[i - Len(first)]
        /\ first \o rest = [i \in 1..(Len(first) + Len(rest)) |-> (first \o rest)[i]]
    BY <1>5, Joined
  <2> QED
    BY <1>5, <2>1
<1>7. \A i \in 1..(n + k) : last[i] = (first \o rest)[i]
  <2> TAKE i \in 1..(n + k)
  <2>1. last[i] = more[Len(log) - n + i].by
    <3>1. Len(more) - (n + k) + i = Len(log) - n + i
      BY <1>1
    <3> QED
      BY <3>1 DEF MadeBy
  <2>2. CASE i <= n
    <3>1. i \in 1..n /\ Len(log) - n + i \in 1..Len(log)
      BY <1>1, <2>2
    <3>2. first[i] = log[Len(log) - n + i].by
      BY <3>1 DEF MadeBy
    <3>3. (first \o rest)[i] = first[i]
      BY <1>6, <3>1
    <3>4. log[Len(log) - n + i] = more[Len(log) - n + i]
      BY <3>1
    <3> HIDE DEF first, rest, last
    <3> QED
      BY <2>1, <3>2, <3>3, <3>4
  <2>3. CASE n < i
    <3>1. i - n \in 1..k /\ Len(log) + (i - n) = Len(log) - n + i /\ i \in (n + 1)..(n + k)
      BY <1>1, <2>3
    <3>2. rest[i - n] = more[Len(log) - n + i].by
      BY <3>1 DEF Callers
    <3>3. (first \o rest)[i] = rest[i - n]
      BY <1>6, <3>1
    <3> HIDE DEF first, rest, last
    <3> QED
      BY <2>1, <3>2, <3>3
  <2>4. i <= n \/ n < i
    OBVIOUS
  <2> HIDE DEF first, rest, last
  <2> QED
    BY <2>2, <2>3, <2>4
<1>8. last = [i \in 1..(n + k) |-> last[i]]
  BY DEF MadeBy
<1> QED
  <2> HIDE DEF first, rest, last
  <2>1. [i \in 1..(n + k) |-> last[i]] = [i \in 1..(n + k) |-> (first \o rest)[i]]
    BY <1>7
  <2>2. last = first \o rest
    BY <1>6, <1>8, <2>1
  <2> QED
    BY <2>2 DEF first, rest, last

\* A branch's log is that of the calls its row counts, before and after a step.
LEMMA LogsAre ==
  ASSUME HistoryInv, HistoryInv', NEW b \in Branches
  PROVE  /\ CallLogs[b] = MadeBy(branch[b].calls, audit[b])
         /\ CallLogs'[b] = MadeBy(branch'[b].calls, audit'[b])
<1>1. ASSUME NEW log \in Seq(AuditRows), NEW n \in Nat, n <= Len(log)
      PROVE  [i \in 1..n |-> SubSeq(log, Len(log) - n + 1, Len(log))[i].by] = MadeBy(n, log)
  BY <1>1, LastRows DEF MadeBy
<1>2. branch[b].calls \in Nat /\ audit[b] \in Seq(AuditRows) /\ branch[b].calls <= Len(audit[b])
  BY ColumnTypes DEF HistoryInv, RowsLived, Audited, StoreInv, StoreTypeOK
<1>3. /\ branch'[b].calls \in Nat /\ audit'[b] \in Seq(AuditRows)
      /\ branch'[b].calls <= Len(audit'[b])
  <2>1. StoreTypeOK' /\ RowsLived'
    BY DEF HistoryInv, StoreInv
  <2>2. branch'[b] \in Row /\ audit'[b] \in Seq(AuditRows)
    BY <2>1 DEF StoreTypeOK
  <2> QED
    BY <2>1, <2>2 DEF RowsLived, Audited, Row
<1>4. CallLogs[b] = [i \in 1..branch[b].calls |->
        SubSeq(audit[b], Len(audit[b]) - branch[b].calls + 1, Len(audit[b]))[i].by]
  BY DEF CallLogs, Since
<1>5. CallLogs'[b] = [i \in 1..branch'[b].calls |->
        SubSeq(audit'[b], Len(audit'[b]) - branch'[b].calls + 1, Len(audit'[b]))[i].by]
  BY DEF CallLogs, Since
<1> QED
  BY <1>1, <1>2, <1>3, <1>4, <1>5

\* A step that writes one branch row gives that branch its timetable and log, and
\* leaves the others theirs.
LEMMA OneMapped ==
  ASSUME HistoryInv, HistoryInv', NEW b \in Branches,
         \A o \in Branches : o # b => branch'[o] = branch[o] /\ audit'[o] = audit[o]
  PROVE  /\ Timetables[b] = TableOf(branch[b])
         /\ Timetables' = [Timetables EXCEPT ![b] = TableOf(branch'[b])]
         /\ CallLogs[b] = MadeBy(branch[b].calls, audit[b])
         /\ CallLogs' = [CallLogs EXCEPT ![b] = MadeBy(branch'[b].calls, audit'[b])]
<1>1. /\ Timetables = [o \in Branches |-> Timetables[o]]
      /\ Timetables' = [o \in Branches |-> Timetables'[o]]
      /\ CallLogs = [o \in Branches |-> CallLogs[o]]
      /\ CallLogs' = [o \in Branches |-> CallLogs'[o]]
  BY DEF Timetables, CallLogs
<1>2. \A o \in Branches : /\ Timetables[o] = TableOf(branch[o])
                          /\ Timetables'[o] = TableOf(branch'[o])
  BY DEF Timetables
<1>3. \A o \in Branches : /\ CallLogs[o] = MadeBy(branch[o].calls, audit[o])
                          /\ CallLogs'[o] = MadeBy(branch'[o].calls, audit'[o])
  BY LogsAre
<1>4. \A o \in Branches : o # b => Timetables'[o] = Timetables[o] /\ CallLogs'[o] = CallLogs[o]
  BY <1>2, <1>3
<1>5. Timetables' = [Timetables EXCEPT ![b] = Timetables'[b]]
  BY <1>1, <1>4
<1>6. CallLogs' = [CallLogs EXCEPT ![b] = CallLogs'[b]]
  BY <1>1, <1>4
<1> QED
  BY <1>2, <1>3, <1>5, <1>6

\* A step that makes no call and gives no branch a new log leaves the logs.
LEMMA LogsKept ==
  ASSUME HistoryInv, HistoryInv',
         \A b \in Branches : branch'[b].calls = branch[b].calls /\ audit'[b] = audit[b]
  PROVE  CallLogs' = CallLogs
<1>1. \A b \in Branches : CallLogs'[b] = CallLogs[b]
  BY LogsAre
<1>2. CallLogs = [b \in Branches |-> CallLogs[b]] /\ CallLogs' = [b \in Branches |-> CallLogs'[b]]
  BY DEF CallLogs
<1> QED
  BY <1>1, <1>2

\* A step that leaves clock, schedule, calls and audit of every branch is none of
\* the promise's, if it leaves the snapshots too.
LEMMA NothingMapped ==
  ASSUME HistoryInv, HistoryInv',
         \A b \in Branches :
           /\ branch'[b].clock = branch[b].clock
           /\ branch'[b].state.next = branch[b].state.next
           /\ branch'[b].state.events = branch[b].state.events
           /\ branch'[b].calls = branch[b].calls /\ audit'[b] = audit[b]
  PROVE  Timetables' = Timetables /\ CallLogs' = CallLogs
<1>1. \A b \in Branches : TableOf(branch'[b]) = TableOf(branch[b])
  BY SameTable
<1>2. Timetables' = Timetables
  BY <1>1 DEF Timetables
<1> QED
  BY <1>2, LogsKept

-----------------------------------------------------------------------------
(***************************************************************************)
(* Each operation is one of the promise, or none.                          *)
(***************************************************************************)

\* An event that is scheduled appears in the timetable of its branch.
LEMMA ScheduleMaps ==
  ASSUME StepInv, StepInv', NEW b \in Branches, NEW x \in EventIds,
         NEW due \in 0..MaxClock, NEW priority \in Priorities, NEW tool \in Tools,
         ScheduleEvent(b, x, due, priority, tool)
  PROVE  Promise!Schedule(b, x, due, priority)
<1> DEFINE old == branch[b]
           new == branch'[b]
           event == [status |-> Pending, due |-> due, priority |-> priority,
                     seq |-> old.state.next + 1,
                     tool |-> IF x \in Actions THEN tool ELSE None,
                     spec |-> IF x \in Actions THEN runtime ELSE None,
                     call |-> 0, effect |-> FALSE, phase |-> None]
<1>1. HistoryInv /\ HistoryInv' /\ StoreTypeOK
  BY DEF StepInv, HistoryInv, StoreInv
<1>2. /\ branch \in [Branches -> Row] /\ old \in Row /\ old.state \in State
      /\ old.clock \in Nat /\ old.state.events \in [EventIds -> Event]
  BY <1>1, ColumnTypes DEF StoreTypeOK
<1>3. /\ UNCHANGED <<snapshot, audit>>
      /\ old.state.events[x].status = "absent" /\ due > old.clock
      /\ branch' = [branch EXCEPT ![b].state.next = @ + 1, ![b].state.events[x] = event,
                                  ![b].head = @ + 1]
  BY DEF ScheduleEvent, Open, DueAdmitted
<1>4. /\ event.status = Pending /\ event.due = due /\ event.seq = old.state.next + 1
      /\ event.priority = priority
  OBVIOUS
<1> HIDE DEF event
<1>5. \A o \in Branches : o # b => branch'[o] = branch[o]
  BY <1>2, <1>3
<1>6. /\ new.calls = old.calls /\ new.clock = old.clock
      /\ new.state.events = [old.state.events EXCEPT ![x] = event]
      /\ new.state.next = old.state.next + 1
  BY <1>2, <1>3 DEF Row, State
<1>7. /\ new.state.events[x] = event
      /\ \A y \in EventIds \ {x} : new.state.events[y] = old.state.events[y]
  BY <1>2, <1>6
<1> HIDE DEF old, new
<1>8. /\ x \notin Present(old.state) /\ x \notin PendingEvents(old.state)
      /\ Present(new.state) = Present(old.state) \cup {x}
      /\ PendingEvents(new.state) = PendingEvents(old.state) \cup {x}
      /\ \A y \in PendingEvents(old.state) \ {x} : new.state.events[y] = old.state.events[y]
  BY <1>3, <1>4, <1>7, StatusesDiffer DEF Present, PendingEvents
<1>9. TableOf(new) = Promise!With(TableOf(old), x, due, priority)
  <2>1. RowGains(old, new, x, due, priority)
    BY <1>4, <1>6, <1>7, <1>8 DEF RowGains
  <2> QED
    BY <2>1, ScheduledTable
<1>10. /\ Timetables[b] = TableOf(old)
       /\ Timetables' = [Timetables EXCEPT ![b] = TableOf(new)]
  BY <1>1, <1>3, <1>5, OneMapped DEF old, new
<1>11. UNCHANGED <<CallLogs, SavedTables>>
  <2>1. \A o \in Branches : branch'[o].calls = branch[o].calls /\ audit'[o] = audit[o]
    BY <1>3, <1>5, <1>6 DEF old, new
  <2>2. CallLogs' = CallLogs
    BY <1>1, <2>1, LogsKept
  <2> QED
    BY <1>3, <2>2 DEF SavedTables
<1>12. Timetables[b].used = Present(old.state) /\ Timetables[b].clock = old.clock
  BY <1>10, TableFields
<1> QED
  BY <1>3, <1>8, <1>9, <1>10, <1>11, <1>12 DEF Promise!Schedule

\* One that is canceled disappears from it.
LEMMA CancelMaps ==
  ASSUME StepInv, StepInv', NEW b \in Branches, NEW x \in EventIds,
         CancelScheduledEvent(b, x)
  PROVE  Promise!Cancel(b, x)
<1> DEFINE old == branch[b]
           new == branch'[b]
<1>1. HistoryInv /\ HistoryInv' /\ StoreTypeOK
  BY DEF StepInv, HistoryInv, StoreInv
<1>2. /\ branch \in [Branches -> Row] /\ old \in Row /\ old.state \in State
      /\ old.state.events \in [EventIds -> Event] /\ old.state.events[x] \in Event
  BY <1>1, ColumnTypes DEF StoreTypeOK
<1>3. /\ UNCHANGED <<snapshot, audit>> /\ old.state.events[x].status = Pending
      /\ branch' = [branch EXCEPT ![b].state.events[x].status = "canceled", ![b].head = @ + 1]
  BY DEF CancelScheduledEvent, Open
<1>4. \A o \in Branches : o # b => branch'[o] = branch[o]
  BY <1>2, <1>3
<1>5. /\ new.calls = old.calls /\ new.clock = old.clock /\ new.state.next = old.state.next
      /\ new.state.events =
           [old.state.events EXCEPT ![x] = [old.state.events[x] EXCEPT !.status = "canceled"]]
  BY <1>2, <1>3 DEF Row, State
<1>6. /\ new.state.events[x].status = "canceled"
      /\ \A y \in EventIds \ {x} : new.state.events[y] = old.state.events[y]
  BY <1>2, <1>5 DEF Event
<1> HIDE DEF old, new
<1>7. RowLoses(old, new, {x}) /\ x \in PendingEvents(old.state)
  BY <1>3, <1>5, <1>6, StatusesDiffer DEF RowLoses, PendingEvents
<1>8. TableOf(new) = Promise!Past(TableOf(old), old.clock, {x})
  BY <1>5, <1>7, EndedTable
<1>9. /\ Timetables[b] = TableOf(old)
      /\ Timetables' = [Timetables EXCEPT ![b] = TableOf(new)]
  BY <1>1, <1>3, <1>4, OneMapped DEF old, new
<1>10. UNCHANGED <<CallLogs, SavedTables>>
  <2>1. \A o \in Branches : branch'[o].calls = branch[o].calls /\ audit'[o] = audit[o]
    BY <1>3, <1>4, <1>5 DEF old, new
  <2>2. CallLogs' = CallLogs
    BY <1>1, <2>1, LogsKept
  <2> QED
    BY <1>3, <2>2 DEF SavedTables
<1>11. Timetables[b].clock = old.clock /\ DOMAIN Timetables[b].pending = PendingEvents(old.state)
  BY <1>9, TableFields
<1> QED
  BY <1>7, <1>8, <1>9, <1>10, <1>11 DEF Promise!Cancel

\* An advance delivers every event due by its target.
LEMMA AdvanceMaps ==
  ASSUME StepInv, StepInv', NEW b \in Branches, NEW target \in Nat, AdvanceClock(b, target)
  PROVE  Promise!Advance(b, target)
<1> DEFINE old == branch[b]
           new == branch'[b]
           due == DueBy(old.state, target)
           occurred == [x \in EventIds |->
              IF x \in due THEN [old.state.events[x] EXCEPT !.status = "delivered"]
                           ELSE old.state.events[x]]
<1>1. HistoryInv /\ HistoryInv' /\ StoreTypeOK
  BY DEF StepInv, HistoryInv, StoreInv
<1>2. /\ branch \in [Branches -> Row] /\ old \in Row /\ old.state \in State
      /\ old.state.events \in [EventIds -> Event]
  BY <1>1, ColumnTypes DEF StoreTypeOK
<1>3. /\ UNCHANGED <<snapshot, audit>> /\ target > old.clock /\ due \cap Actions = {}
  BY DEF AdvanceClock, Open
<1>4. branch' = [branch EXCEPT ![b].clock = target,
           ![b].state.events = [x \in EventIds |->
             IF x \in due THEN [@[x] EXCEPT !.status = "delivered"] ELSE @[x]],
           ![b].head = @ + 1]
  BY DEF AdvanceClock
<1>5. \A o \in Branches : o # b => branch'[o] = branch[o]
  BY <1>2, <1>4
<1>6. /\ new.calls = old.calls /\ new.clock = target /\ new.state.next = old.state.next
      /\ new.state.events = occurred
  BY <1>2, <1>4 DEF Row, State
<1>7. due = {x \in PendingEvents(old.state) : old.state.events[x].due <= target}
  BY DEF DueBy
<1>8. due \in SUBSET PendingEvents(old.state) /\ PendingEvents(old.state) \subseteq EventIds
  BY DEF DueBy, PendingEvents
<1>9. /\ \A x \in due : new.state.events[x].status = "delivered"
      /\ \A y \in EventIds \ due : new.state.events[y] = old.state.events[y]
  <2>1. /\ \A x \in due : new.state.events[x] = [old.state.events[x] EXCEPT !.status = "delivered"]
        /\ \A y \in EventIds \ due : new.state.events[y] = old.state.events[y]
    BY <1>6, <1>8
  <2>2. \A x \in due : old.state.events[x] \in Event
    BY <1>2, <1>8
  <2> HIDE DEF due, old, new
  <2> QED
    BY <2>1, <2>2 DEF Event
<1> HIDE DEF due, occurred, old, new
<1>10. RowLoses(old, new, due)
  <2>1. "delivered" \notin {Pending, "absent"}
    BY DEF Pending
  <2> QED
    BY <1>6, <1>8, <1>9, <2>1 DEF RowLoses
<1>11. TableOf(new) = Promise!Past(TableOf(old), target, due)
  BY <1>6, <1>10, EndedTable
<1>12. /\ Timetables[b] = TableOf(old)
       /\ Timetables' = [Timetables EXCEPT ![b] = TableOf(new)]
  BY <1>1, <1>3, <1>5, OneMapped DEF old, new
<1>13. UNCHANGED <<CallLogs, SavedTables>>
  <2>1. \A o \in Branches : branch'[o].calls = branch[o].calls /\ audit'[o] = audit[o]
    BY <1>3, <1>5, <1>6 DEF old, new
  <2>2. CallLogs' = CallLogs
    BY <1>1, <2>1, LogsKept
  <2> QED
    BY <1>3, <2>2 DEF SavedTables
<1>14. /\ Timetables[b].clock = old.clock
       /\ {x \in DOMAIN Timetables[b].pending : Timetables[b].pending[x].due <= target} = due
  <2>1. /\ Timetables[b].clock = old.clock
        /\ DOMAIN Timetables[b].pending = PendingEvents(old.state)
        /\ \A x \in PendingEvents(old.state) :
             Timetables[b].pending[x].due = old.state.events[x].due
    BY <1>12, TableFields
  <2> QED
    BY <1>7, <2>1
<1> QED
  BY <1>3, <1>11, <1>12, <1>13, <1>14 DEF Promise!Advance

\* A call adds one row to the log, of no event.
LEMMA CallMaps ==
  ASSUME StepInv, StepInv', NEW b \in Branches, NEW tool \in Tools, NEW ok \in BOOLEAN,
         ApplyCall(b, tool, ok)
  PROVE  Promise!Call(b)
<1> DEFINE o == Outcome(plans[b], tool, ok)
           old == branch[b]
           new == branch'[b]
           row == AuditRow(old.calls + 1, None, o)
<1>1. HistoryInv /\ HistoryInv' /\ StoreTypeOK /\ StoreTypeOK'
  BY DEF StepInv, HistoryInv, StoreInv
<1>2. /\ branch \in [Branches -> Row] /\ old \in Row /\ old.state \in State
      /\ audit \in [Branches -> Seq(AuditRows)] /\ audit[b] \in Seq(AuditRows)
      /\ old.calls \in Nat /\ old.calls <= Len(audit[b]) /\ audit'[b] \in Seq(AuditRows)
  BY <1>1, ColumnTypes DEF StoreTypeOK, HistoryInv, RowsLived, Audited
<1>3. /\ branch' = [branch EXCEPT ![b].state.world = @ + Effects(o),
                                  ![b].calls = old.calls + 1, ![b].head = @ + 1]
      /\ audit' = [audit EXCEPT ![b] = Append(@, row)]
      /\ UNCHANGED snapshot
  BY DEF ApplyCall
<1>4. row.by = None
  BY DEF AuditRow
<1> HIDE DEF o, row
<1>5. \A p \in Branches : p # b => branch'[p] = branch[p] /\ audit'[p] = audit[p]
  BY <1>2, <1>3
<1>6. /\ new.calls = old.calls + 1 /\ new.clock = old.clock
      /\ new.state.events = old.state.events /\ new.state.next = old.state.next
  BY <1>2, <1>3 DEF Row, State
<1>7. audit'[b] = Append(audit[b], row)
  BY <1>2, <1>3
<1> HIDE DEF old, new
<1>8. TableOf(new) = TableOf(old)
  BY <1>6, SameTable
<1>9. MadeBy(new.calls, audit'[b]) = Append(MadeBy(old.calls, audit[b]), None)
  <2> DEFINE log == audit[b]
             more == audit'[b]
  <2>1. /\ log \in Seq(AuditRows) /\ more \in Seq(AuditRows) /\ more = Append(log, row)
    BY <1>2, <1>7
  <2> HIDE DEF log, more
  <2>2. /\ Len(more) = Len(log) + 1 /\ more[Len(log) + 1] = row
        /\ \A i \in 1..Len(log) : more[i] = log[i]
    BY <2>1
  <2>3. MadeBy(old.calls + 1, more) =
          MadeBy(old.calls, log) \o Callers(log, more, 1)
    <3>1. old.calls \in Nat /\ old.calls <= Len(log)
      BY <1>2 DEF log
    <3>2. \A n, k \in Nat : n <= Len(log) /\ Len(more) = Len(log) + k =>
            MadeBy(n + k, more) = MadeBy(n, log) \o Callers(log, more, k)
      BY <2>1, <2>2, MadeByMore
    <3> QED
      BY <2>2, <3>1, <3>2
  <2>4. Callers(log, more, 1) = <<None>>
    BY <1>4, <2>2 DEF Callers
  <2>5. \A s : s \o <<None>> = Append(s, None)
    OBVIOUS
  <2> QED
    BY <1>6, <2>3, <2>4, <2>5 DEF log, more
<1>10. /\ Timetables[b] = TableOf(old)
       /\ Timetables' = [Timetables EXCEPT ![b] = TableOf(new)]
       /\ CallLogs[b] = MadeBy(old.calls, audit[b])
       /\ CallLogs' = [CallLogs EXCEPT ![b] = MadeBy(new.calls, audit'[b])]
  BY <1>1, <1>5, OneMapped DEF old, new
<1>11. Timetables' = Timetables
  <2>1. Timetables = [p \in Branches |-> Timetables[p]]
    BY DEF Timetables
  <2> QED
    BY <1>8, <1>10, <2>1
<1>12. SavedTables' = SavedTables
  BY <1>3 DEF SavedTables
<1> QED
  BY <1>9, <1>10, <1>11, <1>12 DEF Promise!Call

\* A snapshot saves the timetable of its branch: the row it fills held a blank one.
LEMMA SaveMaps ==
  ASSUME StepInv, StepInv', NEW s \in Names, NEW b \in Branches, CreateSnapshot(s, b)
  PROVE  Promise!Save(b)
<1> DEFINE old == branch[b]
           copy == [spec |-> old.spec, state |-> old.state, clock |-> old.clock,
                    source |-> old.head]
           Saved(n) == TableOf(snapshot[n])
<1>1. HistoryInv /\ HistoryInv' /\ StoreTypeOK
  BY DEF StepInv, HistoryInv, StoreInv
<1>2. /\ UNCHANGED <<branch, audit>> /\ snapshot[s].spec = None
      /\ snapshot' = [snapshot EXCEPT ![s] = copy]
  BY DEF CreateSnapshot, rowVars
<1>3. snapshot[s] = NoSnapshot
  BY <1>2 DEF StepInv, RowsAbsent
<1>4. /\ snapshot'[s] = copy
      /\ \A n \in Names : n # s => snapshot'[n] = snapshot[n]
  BY <1>1, <1>2 DEF StoreTypeOK
<1>5. TableOf(copy) = TableOf(old)
  <2>1. copy.clock = old.clock /\ copy.state = old.state
    OBVIOUS
  <2> HIDE DEF copy, old
  <2> QED
    BY <2>1, SameTable
<1> HIDE DEF copy
<1>6. Timetables' = Timetables /\ CallLogs' = CallLogs
  BY <1>1, <1>2, NothingMapped
<1>7. Timetables[b] = TableOf(old)
  BY DEF Timetables
<1>8. /\ TableOf(snapshot'[s]) = TableOf(old) /\ TableOf(snapshot[s]) = TableOf(NoSnapshot)
      /\ \A n \in Names : n # s => TableOf(snapshot'[n]) = TableOf(snapshot[n])
  BY <1>3, <1>4, <1>5
<1>9. SavedTables' = SavedTables \cup {TableOf(old)}
  <2>1. SavedTables = {TableOf(NoSnapshot)} \cup {TableOf(snapshot[n]) : n \in Names}
    BY DEF SavedTables
  <2>2. SavedTables' = {TableOf(NoSnapshot)} \cup {TableOf(snapshot'[n]) : n \in Names}
    BY DEF SavedTables
  <2> HIDE DEF old
  <2> QED
    BY <1>8, <2>1, <2>2
<1> QED
  BY <1>6, <1>7, <1>9 DEF Promise!Save

\* A fork and a reset give a branch a timetable that was saved, and a new log.
LEMMA LoadMaps ==
  ASSUME StepInv, StepInv', NEW s \in Names, NEW b \in Branches,
         Fork(s, b) \/ Reset(s, b)
  PROVE  \E t \in SavedTables : Promise!Load(b, t)
<1> DEFINE new == branch'[b]
<1>1. HistoryInv /\ HistoryInv' /\ StoreTypeOK
  BY DEF StepInv, HistoryInv, StoreInv
<1>2. branch \in [Branches -> Row]
  BY <1>1 DEF StoreTypeOK
<1>3. /\ UNCHANGED <<snapshot, audit>>
      /\ new.clock = snapshot[s].clock /\ new.state = snapshot[s].state /\ new.calls = 0
      /\ \A o \in Branches : o # b => branch'[o] = branch[o]
  BY <1>2 DEF Fork, Reset, ResetRow
<1> HIDE DEF new
<1>4. TableOf(new) = TableOf(snapshot[s])
  BY <1>3, SameTable
<1>5. /\ Timetables' = [Timetables EXCEPT ![b] = TableOf(new)]
      /\ CallLogs' = [CallLogs EXCEPT ![b] = MadeBy(new.calls, audit'[b])]
  BY <1>1, <1>3, OneMapped DEF new
<1>6. MadeBy(new.calls, audit'[b]) = <<>>
  BY <1>3 DEF MadeBy
<1>7. TableOf(snapshot[s]) \in SavedTables /\ SavedTables' = SavedTables
  BY <1>3 DEF SavedTables
<1> QED
  BY <1>4, <1>5, <1>6, <1>7 DEF Promise!Load

\* A server that starts loses the step in progress, and the branch it creates has
\* the blank timetable and log it had before.
LEMMA StartMaps ==
  ASSUME StepInv, StepInv', NEW d \in Specs, NEW b \in Branches, Start(d, b)
  PROVE  UNCHANGED <<Timetables, CallLogs, SavedTables>>
<1>1. HistoryInv /\ HistoryInv' /\ StoreTypeOK
  BY DEF StepInv, HistoryInv, StoreInv
<1>2. UNCHANGED <<snapshot, audit>>
  BY DEF Start
<1>3. \A o \in Branches : /\ branch'[o].clock = branch[o].clock
                          /\ branch'[o].state = branch[o].state
                          /\ branch'[o].calls = branch[o].calls
  <2>1. CASE Known(b)
    BY <2>1 DEF Start, InitializeBranch
  <2>2. CASE ~Known(b)
    <3>1. branch[b] = NoBranch
      BY <2>2 DEF StepInv, RowsAbsent
    <3>2. branch' = [branch EXCEPT ![b] = [NoBranch EXCEPT !.spec = d]]
      BY <2>2 DEF Start, InitializeBranch
    <3>3. branch'[b] = [NoBranch EXCEPT !.spec = d]
          /\ \A o \in Branches : o # b => branch'[o] = branch[o]
      BY <1>1, <3>2 DEF StoreTypeOK
    <3>4. /\ branch'[b].clock = NoBranch.clock /\ branch'[b].state = NoBranch.state
          /\ branch'[b].calls = NoBranch.calls
      BY <3>3 DEF NoBranch
    <3> QED
      BY <3>1, <3>3, <3>4
  <2> QED
    BY <2>1, <2>2
<1>4. Timetables' = Timetables /\ CallLogs' = CallLogs
  BY <1>1, <1>2, <1>3, NothingMapped
<1>5. SavedTables' = SavedTables
  BY <1>2 DEF SavedTables
<1> QED
  BY <1>4, <1>5

\* The n rows are the actions of the set, each of them once and in its turn.
EachInTurn(state, set, rows, n) ==
  /\ n = Cardinality(set \cap Actions) /\ rows \in [1..n -> set \cap Actions]
  /\ \A x \in set \cap Actions : \E i \in 1..n : rows[i] = x
  /\ \A i, j \in 1..n : i < j => Before(state, rows[i], rows[j])

\* A log with the rows of the actions of a set names each of them once, in order.
LEMMA LoggedRows ==
  ASSUME NEW state \in State, NEW set, set \subseteq EventIds,
         NEW log, NEW more, NEW n, Logged(state, set, log, more, n)
  PROVE  EachInTurn(state, set, Callers(log, more, n), n)
<1> DEFINE rows == Callers(log, more, n)
           done == set \cap Actions
<1>1. /\ n \in Nat
      /\ \A i \in 1..n : rows[i] \in done
      /\ \A x \in done : \E i \in 1..n : rows[i] = x
      /\ \A i, j \in 1..n : i < j => Before(state, rows[i], rows[j])
  BY DEF Logged, Callers
<1>2. rows \in [1..n -> done]
  BY <1>1 DEF Callers
<1> HIDE DEF rows
<1>3. \A i, j \in 1..n : i # j => rows[i] # rows[j]
  <2> TAKE i, j \in 1..n
  <2> HAVE i # j
  <2>1. rows[i] \in EventIds /\ rows[j] \in EventIds
    BY <1>1
  <2>2. i < j \/ j < i
    BY <1>1
  <2>3. Before(state, rows[i], rows[j]) \/ Before(state, rows[j], rows[i])
    BY <1>1, <2>2
  <2> QED
    BY <2>1, <2>3, BeforeStrict
<1>4. rows \in Bijection(1..n, done)
  <2>1. rows \in Injection(1..n, done)
    BY <1>2, <1>3 DEF Injection, IsInjective
  <2>2. rows \in Surjection(1..n, done)
    BY <1>1, <1>2 DEF Surjection
  <2> QED
    BY <2>1, <2>2 DEF Bijection
<1>5. ExistsBijection(1..n, done)
  BY <1>4 DEF ExistsBijection
<1>6. n = Cardinality(done)
  BY <1>1, <1>5, FS_CountingElements
<1> QED
  BY <1>1, <1>2, <1>6 DEF rows, EachInTurn

\* The events of a batch that is processed end.
LEMMA ProcessedEnds ==
  ASSUME NEW old, NEW new, NEW batch, batch \subseteq PendingEvents(old.state),
         Processing(old.state, new.state, batch, {})
  PROVE  RowLoses(old, new, batch)
<1>1. /\ batch \ {} = batch /\ new.state.next = old.state.next
      /\ \A x \in EventIds \ batch : new.state.events[x] = old.state.events[x]
      /\ \A x \in batch : new.state.events[x].status \in Processed
  BY DEF Processing
<1>2. Pending \notin Processed /\ "absent" \notin Processed
  BY DEF Pending, Processed
<1> QED
  BY <1>1, <1>2 DEF RowLoses

\* What the promise selects is the batch.
LEMMA BatchSelected ==
  ASSUME NEW row \in Row, Lived(row.state, row.clock), PendingEvents(row.state) # {}
  PROVE  Promise!Selected(TableOf(row), Batch(row.state))
<1> DEFINE t == TableOf(row)
           batch == Batch(row.state)
<1>1. row.state \in State /\ row.clock \in Nat
  BY DEF Row
<1>2. /\ WithinBudgets(row.state, batch)
      /\ \A set : WithinBudgets(row.state, set) => set \subseteq batch
  BY <1>1, BatchIsLongest
<1>3. \A set : Promise!Allowed(t, set) <=> WithinBudgets(row.state, set)
  BY TableAllows
<1> HIDE DEF t, batch
<1>4. Promise!Selected(t, batch)
  BY <1>2, <1>3 DEF Promise!Selected
<1> QED
  BY <1>4 DEF t, batch

\* Rows in the order of scheduledEvents are in turn.
LEMMA RowsInTurn ==
  ASSUME NEW row, NEW set, set \subseteq PendingEvents(row.state),
         NEW n \in Nat, NEW rows \in [1..n -> set \cap Actions],
         \A x \in set \cap Actions : \E i \in 1..n : rows[i] = x,
         \A i, j \in 1..n : i < j => Before(row.state, rows[i], rows[j])
  PROVE  Promise!InTurn(TableOf(row), set, rows)
<1>1. DOMAIN rows = 1..n /\ \A i \in 1..n : rows[i] \in PendingEvents(row.state)
  OBVIOUS
<1>2. \A x, y \in PendingEvents(row.state) :
        Promise!Precedes(TableOf(row), x, y) <=> Before(row.state, x, y)
  BY TableOrder
<1> QED
  BY <1>1, <1>2 DEF Promise!InTurn

\* A step that commits executes the batch of its branch, at once: whatever it took
\* to get there, nothing of it was in the branch before and all of it is now.
LEMMA CommitMaps ==
  ASSUME StepInv, StepInv', CommitStep
  PROVE  /\ tx.on \in Branches
         /\ Batch(branch[tx.on].state) \in SUBSET DOMAIN Timetables[tx.on].pending
         /\ Promise!Step(tx.on, Batch(branch[tx.on].state))
<1> DEFINE b == tx.on
           old == branch[b]
           new == branch'[b]
           S == Batch(old.state)
           n == tx.row.calls - old.calls
           log == audit[b]
           more == tx.audit
           rows == Callers(log, more, n)
<1>1. HistoryInv /\ HistoryInv' /\ StoreInv /\ StoreTypeOK /\ StepFollows
  BY DEF StepInv, HistoryInv, StoreInv
<1>2. /\ b \in Branches /\ branch \in [Branches -> Row] /\ old \in Row /\ tx.row \in Row
      /\ audit \in [Branches -> Seq(AuditRows)] /\ log \in Seq(AuditRows)
      /\ more \in Seq(AuditRows)
      /\ old.state \in State /\ old.calls \in Nat /\ tx.row.calls \in Nat
      /\ Lived(old.state, old.clock) /\ old.calls <= Len(log)
  <2>1. b \in Branches /\ tx.row \in Row /\ more \in Seq(AuditRows)
    BY <1>1, StepTypes DEF CommitStep, StoreTypeOK
  <2>2. /\ branch \in [Branches -> Row] /\ audit \in [Branches -> Seq(AuditRows)]
        /\ old \in Row /\ log \in Seq(AuditRows)
    BY <1>1, <2>1 DEF StoreTypeOK
  <2>3. Lived(old.state, old.clock) /\ old.calls <= Len(log)
    BY <1>1, <2>1 DEF HistoryInv, RowsLived, Audited
  <2> QED
    BY <2>1, <2>2, <2>3 DEF Row
<1>3. /\ tx.todo = {} /\ UNCHANGED snapshot
      /\ branch' = [branch EXCEPT ![b] = [tx.row EXCEPT !.head = @ + 1]]
      /\ audit' = [audit EXCEPT ![b] = more]
  BY DEF CommitStep
<1>4. /\ new = [tx.row EXCEPT !.head = @ + 1] /\ audit'[b] = more
      /\ \A o \in Branches : o # b => branch'[o] = branch[o] /\ audit'[o] = audit[o]
  BY <1>2, <1>3
<1>5. new.state = tx.row.state /\ new.calls = tx.row.calls /\ new.clock = tx.row.clock
      /\ new \in Row
  <2>1. StoreTypeOK'
    BY <1>1 DEF HistoryInv, StoreInv
  <2>2. new \in Row
    BY <1>2, <2>1 DEF StoreTypeOK
  <2>3. /\ new.state = tx.row.state /\ new.calls = tx.row.calls
        /\ new.clock = tx.row.clock
    BY <1>2, <1>4 DEF Row
  <2> QED
    BY <2>2, <2>3
<1>6. /\ PendingEvents(old.state) # {}
      /\ \A x \in S : old.state.events[x].due = new.clock
      /\ Processing(old.state, new.state, S, {})
      /\ new.calls >= old.calls
      /\ Logged(old.state, S, log, more, n)
  <2>1. S \ {} = S
    OBVIOUS
  <2> QED
    BY <1>1, <1>3, <1>5, <2>1 DEF StepFollows, CommitStep
<1> HIDE DEF b, old, new, S, n, log, more
<1>7. S # {} /\ S \subseteq PendingEvents(old.state)
  <2>1. old.clock \in Nat
    BY <1>2 DEF Row
  <2>2. S # {} /\ WithinBudgets(old.state, S)
    BY <1>2, <1>6, <2>1, BatchIsLongest DEF S
  <2> QED
    BY <2>2 DEF WithinBudgets
<1>8. TableOf(new) = Promise!Past(TableOf(old), new.clock, S)
  BY <1>6, <1>7, ProcessedEnds, EndedTable
<1>9. Promise!Selected(TableOf(old), S)
  BY <1>2, <1>6, BatchSelected DEF S
<1>10. /\ n \in Nat /\ n = Cardinality(S \cap Actions) /\ rows \in [1..n -> S \cap Actions]
       /\ \A x \in S \cap Actions : \E i \in 1..n : rows[i] = x
       /\ \A i, j \in 1..n : i < j => Before(old.state, rows[i], rows[j])
  <2>1. S \subseteq EventIds
    BY <1>7 DEF PendingEvents
  <2>2. n \in Nat
    BY <1>6 DEF Logged
  <2>3. EachInTurn(old.state, S, rows, n)
    BY <1>2, <1>6, <2>1, LoggedRows
  <2> HIDE DEF rows
  <2> QED
    BY <2>2, <2>3 DEF EachInTurn
<1>11. MadeBy(new.calls, more) = MadeBy(old.calls, log) \o rows
  <2>1. old.calls + n = new.calls /\ old.calls \in Nat
    BY <1>2, <1>5 DEF n
  <2>2. Len(more) = Len(log) + n /\ \A i \in 1..Len(log) : more[i] = log[i]
    BY <1>6 DEF Logged
  <2>3. MadeBy(old.calls + n, more) = MadeBy(old.calls, log) \o rows
    <3>1. old.calls <= Len(log) /\ log \in Seq(AuditRows) /\ more \in Seq(AuditRows)
      BY <1>2
    <3> QED
      BY <1>10, <2>1, <2>2, <3>1, MadeByMore
  <2> QED
    BY <2>1, <2>3
<1> HIDE DEF rows
<1>12. Promise!InTurn(TableOf(old), S, rows)
  BY <1>7, <1>10, RowsInTurn
<1>13. /\ Timetables[b] = TableOf(old)
       /\ Timetables' = [Timetables EXCEPT ![b] = TableOf(new)]
       /\ CallLogs[b] = MadeBy(old.calls, log)
       /\ CallLogs' = [CallLogs EXCEPT ![b] = MadeBy(new.calls, more)]
  BY <1>1, <1>2, <1>4, OneMapped DEF old, new, log
<1>14. SavedTables' = SavedTables
  BY <1>3 DEF SavedTables
<1>15. /\ DOMAIN TableOf(old).pending = PendingEvents(old.state)
       /\ \A x \in S : TableOf(old).pending[x].due = new.clock
  <2>1. /\ DOMAIN TableOf(old).pending = PendingEvents(old.state)
        /\ \A x \in PendingEvents(old.state) :
             TableOf(old).pending[x].due = old.state.events[x].due
    BY TableFields
  <2> QED
    BY <1>6, <1>7, <2>1
<1>16. \E x \in S : Timetables' =
         [Timetables EXCEPT ![b] = Promise!Past(Timetables[b], Timetables[b].pending[x].due, S)]
  <2>1. PICK x \in S : TRUE
    BY <1>7
  <2> QED
    BY <1>8, <1>13, <1>15, <2>1
<1>17. \E r \in [1..Promise!Cardinality(S \cap Actions) -> S \cap Actions] :
         /\ Promise!InTurn(Timetables[b], S, r)
         /\ CallLogs' = [CallLogs EXCEPT ![b] = @ \o r]
  <2>1. rows \in [1..Promise!Cardinality(S \cap Actions) -> S \cap Actions]
    BY <1>10, PromiseCounts
  <2>2. CallLogs' = [CallLogs EXCEPT ![b] = @ \o rows]
    BY <1>11, <1>13
  <2> QED
    BY <1>12, <1>13, <2>1, <2>2
<1>18. Promise!Step(b, S)
  BY <1>9, <1>13, <1>14, <1>16, <1>17 DEF Promise!Step
<1>19. S \in SUBSET DOMAIN Timetables[b].pending
  BY <1>7, <1>13, <1>15
<1> QED
  BY <1>2, <1>18, <1>19 DEF b, old, S

\* A store without branches and snapshots promises nothing yet.
LEMMA PromiseInit ==
  ASSUME StoreInit
  PROVE  Promise!Init
<1>1. /\ branch = [b \in Branches |-> NoBranch] /\ snapshot = [s \in Names |-> NoSnapshot]
      /\ audit = [b \in Branches |-> <<>>]
  BY DEF StoreInit
<1>2. Present(FreshState) = {} /\ PendingEvents(FreshState) = {}
  BY DEF Present, PendingEvents, FreshState, NoEvent, Pending
<1>3. \A row : row.clock = 0 /\ row.state = FreshState => TableOf(row) = Promise!Blank
  <2> TAKE row
  <2> HAVE row.clock = 0 /\ row.state = FreshState
  <2>1. TableOf(row) = [clock |-> 0, next |-> 0, used |-> {},
          pending |-> [x \in {} |->
            [due |-> row.state.events[x].due, priority |-> row.state.events[x].priority,
             seq |-> row.state.events[x].seq]]]
    <3>1. row.state.next = 0
      BY DEF FreshState
    <3> QED
      BY <1>2, <3>1 DEF TableOf
  <2>2. [x \in {} |->
           [due |-> row.state.events[x].due, priority |-> row.state.events[x].priority,
            seq |-> row.state.events[x].seq]] = [x \in {} |-> x]
    OBVIOUS
  <2> QED
    BY <2>1, <2>2 DEF Promise!Blank
<1>4. TableOf(NoBranch) = Promise!Blank /\ TableOf(NoSnapshot) = Promise!Blank
  <2>1. /\ NoBranch.clock = 0 /\ NoBranch.state = FreshState /\ NoBranch.calls = 0
        /\ NoSnapshot.clock = 0 /\ NoSnapshot.state = FreshState
    BY DEF NoBranch, NoSnapshot
  <2> QED
    BY <1>3, <2>1
<1>5. Timetables = [b \in Branches |-> Promise!Blank]
  <2>1. \A b \in Branches : branch[b] = NoBranch
    BY <1>1
  <2> QED
    BY <1>4, <2>1 DEF Timetables
<1>6. CallLogs = [b \in Branches |-> <<>>]
  <2>1. \A b \in Branches : branch[b].calls = 0
    BY <1>1 DEF NoBranch
  <2>2. \A b \in Branches : [i \in 1..branch[b].calls |-> Since(b)[i].by] = <<>>
    BY <2>1
  <2> QED
    BY <2>2 DEF CallLogs
<1>7. SavedTables = {Promise!Blank}
  <2>1. \A s \in Names : snapshot[s] = NoSnapshot
    BY <1>1
  <2> QED
    BY <1>4, <2>1 DEF SavedTables
<1> QED
  BY <1>5, <1>6, <1>7 DEF Promise!Init

\* Every step of the store is one of the promise, or leaves what it speaks of.
LEMMA PromiseStep ==
  ASSUME StepInv, StepInv', [StoreNext]_storeVars
  PROVE  [Promise!Next]_(Promise!promiseVars)
<1>1. HistoryInv /\ HistoryInv' /\ StoreTypeOK
  BY DEF StepInv, HistoryInv, StoreInv
<1>2. ASSUME UNCHANGED <<Timetables, CallLogs, SavedTables>>
      PROVE  [Promise!Next]_(Promise!promiseVars)
  BY <1>2 DEF Promise!promiseVars
<1>3. ASSUME UNCHANGED snapshot,
             \A b \in Branches :
               /\ branch'[b].clock = branch[b].clock
               /\ branch'[b].state.next = branch[b].state.next
               /\ branch'[b].state.events = branch[b].state.events
               /\ branch'[b].calls = branch[b].calls /\ audit'[b] = audit[b]
      PROVE  [Promise!Next]_(Promise!promiseVars)
  <2>1. Timetables' = Timetables /\ CallLogs' = CallLogs
    BY <1>1, <1>3, NothingMapped
  <2>2. SavedTables' = SavedTables
    BY <1>3 DEF SavedTables
  <2> QED
    BY <1>2, <2>1, <2>2
<1>4. CASE UNCHANGED <<branch, snapshot, audit>>
  BY <1>3, <1>4
<1>5. ASSUME NEW d \in Specs, NEW b \in Branches, Start(d, b)
      PROVE  [Promise!Next]_(Promise!promiseVars)
  BY <1>2, <1>5, StartMaps
<1>6. ASSUME NEW s \in Names, NEW b \in Branches, CreateSnapshot(s, b)
      PROVE  Promise!Next
  BY <1>6, SaveMaps DEF Promise!Next
<1>7. ASSUME NEW s \in Names, NEW b \in Branches, Fork(s, b) \/ Reset(s, b)
      PROVE  Promise!Next
  BY <1>7, LoadMaps DEF Promise!Next
<1>8. ASSUME NEW b \in Branches, NEW f \in FaultIds,
             \/ \E tool \in Tools, phase \in Phases,
                   n \in 1..MaxFaultRepeats : InstallFault(b, f, tool, phase, n)
             \/ RemoveFault(b, f)
      PROVE  [Promise!Next]_(Promise!promiseVars)
  <2>1. branch' = [branch EXCEPT ![b].head = @ + 1] /\ UNCHANGED <<snapshot, audit>>
    BY <1>8 DEF InstallFault, RemoveFault
  <2>2. branch \in [Branches -> Row]
    BY <1>1 DEF StoreTypeOK
  <2>3. /\ branch'[b].clock = branch[b].clock /\ branch'[b].state = branch[b].state
        /\ branch'[b].calls = branch[b].calls
        /\ \A o \in Branches : o # b => branch'[o] = branch[o]
    BY <2>1, <2>2 DEF Row
  <2> QED
    BY <1>3, <2>1, <2>3
<1>9. ASSUME NEW b \in Branches, NEW tool \in Tools, NEW ok \in BOOLEAN,
             ApplyCall(b, tool, ok)
      PROVE  Promise!Next
  BY <1>9, CallMaps DEF Promise!Next
<1>10. ASSUME NEW b \in Branches, NEW x \in EventIds, NEW due \in 0..MaxClock,
              NEW priority \in Priorities, NEW tool \in Tools,
              ScheduleEvent(b, x, due, priority, tool)
       PROVE  Promise!Next
  BY <1>10, ScheduleMaps DEF Promise!Next
<1>11. ASSUME NEW b \in Branches, NEW x \in EventIds, CancelScheduledEvent(b, x)
       PROVE  Promise!Next
  BY <1>11, CancelMaps DEF Promise!Next
<1>12. ASSUME NEW b \in Branches, NEW target \in 0..MaxClock, AdvanceClock(b, target)
       PROVE  Promise!Next
  <2>1. target \in Nat
    OBVIOUS
  <2>2. Promise!Advance(b, target)
    BY <1>12, <2>1, AdvanceMaps
  <2> QED
    BY <2>2 DEF Promise!Next
<1>13. ASSUME NEW c \in Clients, NEW d \in 1..MaxClock, NEW checked \in BOOLEAN,
              AdvanceBy(c, d, checked)
       PROVE  Promise!Next
  <2>1. view[c].on \in Branches /\ view[c].row.clock \in Nat
    BY <1>1, <1>13 DEF AdvanceBy, StoreTypeOK, Row
  <2>2. view[c].row.clock + d \in 0..MaxClock
    <3>1. MaxClock \in Nat /\ view[c].row.clock + d <= MaxClock
      BY <1>13, StoreAssumption DEF AdvanceBy
    <3> QED
      BY <2>1, <3>1
  <2> QED
    BY <1>12, <1>13, <2>1, <2>2 DEF AdvanceBy
<1>14. CASE CommitStep
  BY <1>14, CommitMaps DEF Promise!Next
<1>15. CASE \/ UNCHANGED storeVars \/ AbortStep
            \/ \E c \in Clients, b \in Branches : Read(c, b)
            \/ \E b \in Branches, backed \in BOOLEAN : BeginStep(b, backed)
            \/ \E x \in EventIds, ok \in BOOLEAN : StepSignal(x) \/ StepAction(x, ok)
  BY <1>4, <1>15 DEF storeVars, rowVars, AbortStep, Read, BeginStep, StepSignal, StepAction
<1> QED
  BY <1>5, <1>6, <1>7, <1>8, <1>9, <1>10, <1>11, <1>12, <1>13, <1>14, <1>15 DEF StoreNext

\* The store keeps the promise of its scheduler: whatever server starts and aborts,
\* faults, forks and resets come between, each branch sees whole steps only, each of
\* the longest batch the budgets allow, its actions once and in turn
\* (advanceClockToNext, AdvanceClock, ScheduleEvent, Fork, Reset).
THEOREM ScheduleIsKept == StoreSpec => KeepsSchedule
<1>1. StoreInit => Promise!Init
  BY PromiseInit
<1>2. StepInv /\ StepInv' /\ [StoreNext]_storeVars => [Promise!Next]_(Promise!promiseVars)
  BY PromiseStep
<1> QED
  BY <1>1, <1>2, StepsFollowTheirBatch, PTL DEF StoreSpec, KeepsSchedule, Promise!Spec

-----------------------------------------------------------------------------
(***************************************************************************)
(* Pages of a branch that changes: the listing of one state.               *)
(***************************************************************************)

\* The events a query lists are finitely many and distinct.
LEMMA FilteredDistinct ==
  ASSUME NEW state \in State, NEW clock, Lived(state, clock), NEW filter
  PROVE  /\ Distinct(state, Filtered(state, filter))
         /\ ScheduledEvents(state, filter) \in Sorted(state, Filtered(state, filter))
<1>1. Filtered(state, filter) \subseteq Present(state)
  BY DEF Filtered
<1>2. Distinct(state, Filtered(state, filter))
  BY <1>1, PartsAreDistinct
<1>3. Sorted(state, Filtered(state, filter)) # {}
  BY <1>2, SortedExists
<1> QED
  BY <1>2, <1>3 DEF ScheduledEvents

\* A listing has no event twice: an event of it has one index.
LEMMA ListedOnce ==
  ASSUME NEW state \in State, NEW clock, Lived(state, clock), NEW filter
  PROVE  LET all == ScheduledEvents(state, filter)
         IN /\ all \in Seq(EventIds)
            /\ \A i, j \in 1..Len(all) : all[i] = all[j] => i = j
<1> DEFINE set == Filtered(state, filter)
           all == ScheduledEvents(state, filter)
<1>1. Distinct(state, set) /\ all \in Sorted(state, set)
  BY FilteredDistinct
<1> HIDE DEF set, all
<1>2. /\ all \in Seq(set) /\ DOMAIN all = 1..Len(all)
      /\ \A i \in DOMAIN all : all[i] \in set /\ Rank(state, set, all[i]) = i
  BY <1>1, SortedRanks
<1>3. set \subseteq EventIds
  BY <1>1 DEF Distinct
<1>4. all \in Seq(EventIds)
  BY <1>2, <1>3
<1>5. \A i, j \in 1..Len(all) : all[i] = all[j] => i = j
  BY <1>2
<1> QED
  BY <1>4, <1>5 DEF all

\* States with the same scheduler have the same listing.
LEMMA SameListing ==
  ASSUME NEW state, NEW other, Scheduler(state) = Scheduler(other), NEW filter
  PROVE  ScheduledEvents(state, filter) = ScheduledEvents(other, filter)
<1>1. state.events = other.events
  BY DEF Scheduler
<1>2. /\ Filtered(state, filter) = Filtered(other, filter)
      /\ \A x, y : Before(state, x, y) <=> Before(other, x, y)
  BY <1>1 DEF Filtered, Present, Before
<1>3. Sorted(state, Filtered(state, filter)) = Sorted(other, Filtered(other, filter))
  BY <1>2 DEF Sorted
<1> QED
  BY <1>3 DEF ScheduledEvents

\* What a client has put together is the front of the listing all, and its cursor
\* names where that ends and the scheduler of the state.
Fronts(got, all, cursor, state) ==
  /\ got \in Seq(EventIds) /\ Len(got) <= Len(all)
  /\ \A i \in 1..Len(got) : got[i] = all[i]
  /\ Len(got) = Len(all) => cursor = NoCursor
  /\ Len(got) # Len(all) => /\ Len(got) > 0 /\ cursor.after = got[Len(got)]
                            /\ cursor.after # None
                            /\ cursor.scheduler = Scheduler(state)

ListingInv ==
  IF listing.on = None THEN listing = NoListing ELSE
    /\ DOMAIN listing = {"on", "filter", "state", "got", "cursor"}
    /\ listing.state \in State
    /\ \E clock \in Nat : Lived(listing.state, clock)
    /\ Fronts(listing.got, ScheduledEvents(listing.state, listing.filter),
              listing.cursor, listing.state)

\* A page takes the next size events, or what is left.
LEMMA PageOf ==
  ASSUME NEW all \in Seq(EventIds), NEW n \in Nat, n <= Len(all), NEW size \in Nat \ {0}
  PROVE  LET page == Page(all, n + 1, size)
         IN /\ page \in Seq(EventIds) /\ n + Len(page) <= Len(all)
            /\ n < Len(all) => Len(page) > 0
            /\ \A i \in 1..Len(page) : page[i] = all[n + i]
<1> DEFINE end == IF n + size < Len(all) THEN n + size ELSE Len(all)
           page == SubSeq(all, n + 1, end)
<1>1. Len(all) \in Nat /\ size \in Nat /\ size >= 1
  OBVIOUS
<1>2. n + 1 + size - 1 = n + size
  BY <1>1
<1>3. Page(all, n + 1, size) = page
  BY <1>2 DEF Page
<1>4. end \in Nat /\ n <= end /\ end <= Len(all) /\ (n < Len(all) => n < end)
  BY <1>1
<1> HIDE DEF end
<1>5. /\ page \in Seq(EventIds) /\ Len(page) = end - n
      /\ \A i \in 1..(end - n) : page[i] = all[n + i]
  <2>1. \A i \in (n + 1)..end : all[i] \in EventIds
    BY <1>4
  <2>2. Len(page) = end - n
    BY <1>4, SubSeqProperties
  <2>3. \A i \in 1..(end - n) : page[i] = all[n + i]
    BY <1>4, SubSeqProperties
  <2>4. page \in Seq(EventIds)
    BY <1>4, SubSeqProperties
  <2> QED
    BY <2>2, <2>3, <2>4
<1> HIDE DEF page
<1>6. n + Len(page) <= Len(all) /\ (n < Len(all) => Len(page) > 0)
  BY <1>4, <1>5
<1> QED
  BY <1>3, <1>5, <1>6

\* A front with a page of what follows is a front, with the cursor the page has.
LEMMA FrontGrows ==
  ASSUME NEW b, NEW state, Scheduler(branch[b].state) = Scheduler(state), NEW filter,
         NEW all \in Seq(EventIds), NEW got \in Seq(EventIds), Len(got) <= Len(all),
         \A i \in 1..Len(got) : got[i] = all[i], NEW size \in Nat \ {0},
         NEW more, more = got \o Page(all, Len(got) + 1, size)
  PROVE  Fronts(more, all, CursorAfter(b, filter, all, more), state)
<1> DEFINE page == Page(all, Len(got) + 1, size)
           n == Len(got)
           cursor == CursorAfter(b, filter, all, more)
<1>1. n \in Nat /\ Len(all) \in Nat /\ n <= Len(all)
  OBVIOUS
<1>2. /\ page \in Seq(EventIds) /\ n + Len(page) <= Len(all)
      /\ n < Len(all) => Len(page) > 0
      /\ \A i \in 1..Len(page) : page[i] = all[n + i]
  BY <1>1, PageOf
<1> HIDE DEF page
<1>3. more \in Seq(EventIds) /\ Len(more) = n + Len(page) /\ Len(page) \in Nat
  BY <1>2, ConcatProperties DEF page
<1>4. \A i \in 1..Len(more) : more[i] = all[i]
  <2> TAKE i \in 1..Len(more)
  <2>1. /\ \A k \in 1..Len(got) : more[k] = got[k]
        /\ \A k \in (Len(got) + 1)..(Len(got) + Len(page)) : more[k] = page[k - Len(got)]
    BY <1>2, Joined DEF page
  <2>2. CASE i <= n
    <3>1. i \in 1..Len(got)
      BY <1>1, <2>2
    <3> QED
      BY <2>1, <3>1
  <2>3. CASE n < i
    <3>1. /\ i \in (Len(got) + 1)..(Len(got) + Len(page)) /\ i - n \in 1..Len(page)
          /\ n + (i - n) = i
      BY <1>1, <1>3, <2>3
    <3> QED
      BY <1>2, <2>1, <3>1
  <2> QED
    BY <1>1, <2>2, <2>3
<1>5. Len(more) # Len(all) => Len(more) > 0 /\ more[Len(more)] \in EventIds
  BY <1>1, <1>2, <1>3
<1>6. Len(more) = Len(all) => cursor = NoCursor
  BY DEF CursorAfter
<1>7. Len(more) # Len(all) => /\ cursor.after = more[Len(more)] /\ cursor.after # None
                              /\ cursor.scheduler = Scheduler(state)
  <2> HAVE Len(more) # Len(all)
  <2>1. cursor = [head |-> branch[b].head, scheduler |-> Scheduler(branch[b].state),
                  filter |-> filter, after |-> more[Len(more)]]
    BY DEF CursorAfter
  <2>2. more[Len(more)] # None
    BY <1>5, StoreAssumption
  <2> HIDE DEF cursor
  <2> QED
    BY <2>1, <2>2
<1> HIDE DEF cursor, n
<1>8. Len(more) <= Len(all)
  BY <1>2, <1>3
<1> QED
  BY <1>3, <1>4, <1>5, <1>6, <1>7, <1>8 DEF Fronts, cursor

\* The first page is the front of the state the client finds.
LEMMA FirstPageLists ==
  ASSUME HistoryInv, NEW b \in Branches, NEW filter, NEW size \in PageSizes,
         FirstPage(b, filter, size)
  PROVE  ListingInv'
<1> DEFINE state == branch[b].state
           all == ScheduledEvents(state, filter)
           got == Page(all, 1, size)
           cursor == CursorAfter(b, filter, all, got)
<1>1. /\ listing' = [on |-> b, filter |-> filter, state |-> state, got |-> got,
                     cursor |-> cursor]
  BY DEF FirstPage
<1>2. state \in State /\ branch[b].clock \in Nat /\ Lived(state, branch[b].clock)
  BY ColumnTypes DEF HistoryInv, StoreInv, StoreTypeOK, RowsLived
<1>3. all \in Seq(EventIds)
  BY <1>2, ListedOnce
<1>4. size \in Nat \ {0}
  BY PageAssumption
<1> HIDE DEF all
<1>5. PICK none \in Seq(EventIds) : none = <<>>
  <2>1. <<>> \in Seq(EventIds)
    BY EmptySeq
  <2> QED
    BY <2>1, Zenon
<1>6. Fronts(got, all, cursor, state)
  <2>1. Len(none) = 0 /\ Len(none) <= Len(all) /\ Len(none) + 1 = 1
    BY <1>3, <1>5
  <2>2. Len(none) \in Nat
    OBVIOUS
  <2>3. got = Page(all, Len(none) + 1, size)
    BY <2>1
  <2> HIDE DEF got, state
  <2>4. got \in Seq(EventIds)
    BY <1>3, <1>4, <2>1, <2>2, <2>3, PageOf
  <2>5. got = none \o Page(all, Len(none) + 1, size)
    BY <1>5, <2>3, <2>4
  <2>6. \A k \in 1..Len(none) : none[k] = all[k]
    BY <2>1
  <2> QED
    BY <1>3, <1>4, <2>1, <2>5, <2>6, FrontGrows DEF state
<1> HIDE DEF got
<1> HIDE DEF cursor, state
<1>7. /\ listing'.state = state /\ listing'.filter = filter /\ listing'.got = got
      /\ listing'.cursor = cursor
      /\ DOMAIN listing' = {"on", "filter", "state", "got", "cursor"} /\ listing'.on = b
  BY <1>1
<1>8. b # None
  BY StoreAssumption
<1> QED
  BY <1>2, <1>6, <1>7, <1>8 DEF ListingInv, all

\* The next page continues the front: a cursor that is admitted finds the scheduler
\* it was made for, hence the same listing, and its event at the end of the front.
LEMMA NextPageLists ==
  ASSUME ListingInv, NEW size \in PageSizes, NextPage(size), listing.on # None
  PROVE  ListingInv'
<1> DEFINE b == listing.on
           state == listing.state
           filter == listing.filter
           events == ScheduledEvents(branch[b].state, filter)
           all == ScheduledEvents(state, filter)
           got == listing.got
           more == got \o Page(events, NextStart(events), size)
           cursor == CursorAfter(b, filter, events, more)
<1>1. /\ state \in State /\ listing.cursor # NoCursor
      /\ Fronts(got, all, listing.cursor, state)
  BY DEF ListingInv, NextPage
<1>2. PICK clock \in Nat : Lived(state, clock)
  BY DEF ListingInv
<1>3. listing' = IF CursorAdmitted(b, events)
                 THEN [listing EXCEPT !.got = more, !.cursor = cursor] ELSE NoListing
  BY DEF NextPage
<1>4. CASE ~CursorAdmitted(b, events)
  <2>1. listing' = NoListing /\ NoListing.on = None
    BY <1>3, <1>4 DEF NoListing
  <2> QED
    BY <2>1 DEF ListingInv
<1>5. CASE CursorAdmitted(b, events)
  <2>1. /\ got \in Seq(EventIds) /\ Len(got) <= Len(all) /\ Len(got) > 0
        /\ \A i \in 1..Len(got) : got[i] = all[i]
        /\ listing.cursor.after = got[Len(got)]
        /\ listing.cursor.scheduler = Scheduler(state)
    BY <1>1 DEF Fronts
  <2>2. Scheduler(branch[b].state) = Scheduler(state)
    BY <1>5, <2>1 DEF CursorAdmitted
  <2>3. events = all
    BY <2>2, SameListing
  <2>4. all \in Seq(EventIds) /\ \A i, j \in 1..Len(all) : all[i] = all[j] => i = j
    BY <1>1, <1>2, ListedOnce
  <2> HIDE DEF events, all, got, state
  <2>5. NextStart(events) = Len(got) + 1
    <3>1. Len(got) \in 1..Len(all) /\ all[Len(got)] = listing.cursor.after
      BY <2>1, <2>4
    <3>2. DOMAIN all = 1..Len(all)
      BY <2>4
    <3>3. \A i \in DOMAIN all : all[i] = listing.cursor.after => i = Len(got)
      BY <2>4, <3>1, <3>2
    <3> DEFINE at == CHOOSE i \in DOMAIN all : all[i] = listing.cursor.after
    <3>4. at = Len(got)
      BY <3>1, <3>2, <3>3
    <3>5. NextStart(all) = 1 + at
      BY Zenon DEF NextStart
    <3> HIDE DEF at
    <3>6. NextStart(all) = Len(got) + 1
      BY <2>1, <3>4, <3>5
    <3> QED
      BY <2>3, <3>6
  <2>6. more = got \o Page(all, Len(got) + 1, size)
    BY <2>3, <2>5
  <2>7. size \in Nat \ {0}
    BY PageAssumption
  <2> HIDE DEF more, b, filter
  <2>8. Fronts(more, all, cursor, state)
    BY <2>1, <2>2, <2>3, <2>4, <2>6, <2>7, FrontGrows
  <2>9. DOMAIN listing = {"on", "filter", "state", "got", "cursor"}
    BY DEF ListingInv
  <2>10. /\ DOMAIN listing' = DOMAIN listing /\ listing'.on = listing.on
         /\ listing'.got = more /\ listing'.cursor = cursor
         /\ listing'.state = listing.state /\ listing'.filter = listing.filter
    <3> HIDE DEF cursor
    <3> QED
      BY <1>3, <1>5, <2>9
  <2> QED
    BY <1>1, <1>2, <2>8, <2>9, <2>10 DEF ListingInv, all, state, filter, got
<1> QED
  BY <1>4, <1>5

\* What clients list and preview is no step of the store.
LEMMA PagesLeaveStore ==
  ASSUME [PageNext]_<<storeVars, pageVars>>
  PROVE  [StoreNext]_storeVars
<1>1. ASSUME NEW b \in Branches, NEW filter \in Filters, NEW size \in PageSizes,
             FirstPage(b, filter, size)
      PROVE  UNCHANGED storeVars
  BY <1>1, Zenon DEF FirstPage
<1>2. ASSUME NEW b \in Branches, NextDueBatch(b)
      PROVE  UNCHANGED storeVars
  BY <1>2, Zenon DEF NextDueBatch
<1>3. ASSUME NEW size \in PageSizes, NextPage(size)
      PROVE  UNCHANGED storeVars
  <2>1. UNCHANGED <<storeVars, preview>>
    BY <1>3, Zenon DEF NextPage
  <2> QED
    BY <2>1
<1>4. PageNext => StoreNext \/ UNCHANGED storeVars
  BY <1>1, <1>2, <1>3, Zenon DEF PageNext
<1>5. UNCHANGED <<storeVars, pageVars>> => UNCHANGED storeVars
  OBVIOUS
<1> QED
  BY <1>4, <1>5

\* Each request leaves the pages a front of one state, or gives them up.
LEMMA PagesList ==
  ASSUME HistoryInv, ListingInv, [PageNext]_<<storeVars, pageVars>>
  PROVE  ListingInv'
<1>1. CASE UNCHANGED listing
  BY <1>1 DEF ListingInv
<1>2. ASSUME NEW b \in Branches, NEW filter \in Filters, NEW size \in PageSizes,
             FirstPage(b, filter, size)
      PROVE  ListingInv'
  BY <1>2, FirstPageLists
<1>3. ASSUME NEW size \in PageSizes, NextPage(size)
      PROVE  ListingInv'
  <2>1. listing.on # None
    BY <1>3 DEF ListingInv, NextPage, NoListing
  <2> QED
    BY <1>3, <2>1, NextPageLists
<1>4. ASSUME NEW b \in Branches, NextDueBatch(b)
      PROVE  ListingInv'
  <2>1. listing' = NoListing
    BY <1>4 DEF NextDueBatch
  <2> QED
    BY <2>1 DEF ListingInv, NoListing
<1> QED
  BY <1>1, <1>2, <1>3, <1>4 DEF PageNext, pageVars

\* Reads do not disturb the store: its invariant holds while clients page.
THEOREM PagesKeepInvariant == PageSpec => [](StepInv /\ ListingInv)
<1>1. PageInit => StoreInit /\ ListingInv
  BY DEF PageInit, ListingInv, NoListing
<1>2. [PageNext]_<<storeVars, pageVars>> => [StoreNext]_storeVars
  BY PagesLeaveStore
<1>3. StepInv /\ ListingInv /\ [PageNext]_<<storeVars, pageVars>> => ListingInv'
  BY PagesList DEF StepInv
<1> QED
  BY <1>1, <1>2, <1>3, StepsFollowTheirBatch, PTL DEF StoreSpec, PageSpec

\* Pages put together are the schedule of one state, each event once and in order,
\* whatever the branch did between two requests: the cursor is admitted for the
\* scheduler it was made for, and continues behind its event (ScheduledEventPage).
THEOREM PagesAreOneListing == PageSpec => []ListingIsOneState
<1>1. ListingInv => ListingIsOneState
  <2> SUFFICES ASSUME ListingInv, listing.on # None
               PROVE  LET all == ScheduledEvents(listing.state, listing.filter)
                      IN /\ IsPrefix(listing.got, all)
                         /\ listing.cursor = NoCursor <=> listing.got = all
    BY DEF ListingIsOneState
  <2> DEFINE all == ScheduledEvents(listing.state, listing.filter)
             got == listing.got
  <2>1. /\ listing.state \in State /\ \E clock \in Nat : Lived(listing.state, clock)
        /\ Fronts(got, all, listing.cursor, listing.state)
    BY DEF ListingInv
  <2>2. all \in Seq(EventIds)
    BY <2>1, ListedOnce
  <2> HIDE DEF all, got
  <2>3. /\ got \in Seq(EventIds) /\ Len(got) <= Len(all)
        /\ \A i \in 1..Len(got) : got[i] = all[i]
    BY <2>1 DEF Fronts
  <2>4. IsPrefix(got, all)
    <3>1. SubSeq(got, 1, Len(got)) = got
      BY <2>3
    <3>2. SubSeq(all, 1, Len(got)) = got
      BY <2>2, <2>3
    <3> QED
      BY <2>3, <3>1, <3>2 DEF IsPrefix
  <2>5. got = all <=> Len(got) = Len(all)
    BY <2>2, <2>3
  <2>6. Len(got) # Len(all) => listing.cursor # NoCursor
    BY <2>1 DEF Fronts, NoCursor
  <2>7. Len(got) = Len(all) => listing.cursor = NoCursor
    BY <2>1 DEF Fronts
  <2> QED
    BY <2>4, <2>5, <2>6, <2>7 DEF all, got
<1> QED
  BY <1>1, PagesKeepInvariant, PTL

-----------------------------------------------------------------------------
(***************************************************************************)
(* The previewed batch, counted along the pending events.                  *)
(***************************************************************************)

\* The places of a listing that hold a member of the set, and the first n it lists.
Places(f, n, set) == {k \in 1..n : f[k] \in set}
FirstOf(f, n) == {f[k] : k \in 1..n}

\* Counting the places of a listing that hold a member of the set counts the
\* listed members.
LEMMA CountListed ==
  ASSUME NEW n \in Nat, NEW f, \A i, j \in 1..n : f[i] = f[j] => i = j, NEW set
  PROVE  /\ IsFiniteSet(Places(f, n, set)) /\ Cardinality(Places(f, n, set)) \in Nat
         /\ Cardinality(Places(f, n, set)) = Cardinality(FirstOf(f, n) \cap set)
<1> DEFINE places == {k \in 1..n : f[k] \in set}
           listed == {f[k] : k \in 1..n} \cap set
           at == [k \in places |-> f[k]]
<1>1. IsFiniteSet(places) /\ Cardinality(places) \in Nat
  <2>1. IsFiniteSet(1..n)
    BY FS_Interval
  <2>2. IsFiniteSet(places)
    BY <2>1, FS_Subset
  <2> QED
    BY <2>2, FS_CardinalityType
<1>2. at \in [places -> listed] /\ \A i, j \in places : at[i] = at[j] => i = j
  OBVIOUS
<1>3. \A x \in listed : \E k \in places : at[k] = x
  OBVIOUS
<1>4. at \in Bijection(places, listed)
  <2> HIDE DEF places, listed, at
  <2>1. at \in Injection(places, listed)
    BY <1>2 DEF Injection, IsInjective
  <2>2. at \in Surjection(places, listed)
    BY <1>2, <1>3 DEF Surjection
  <2> QED
    BY <2>1, <2>2 DEF Bijection
<1>5. ExistsBijection(places, listed)
  BY <1>4 DEF ExistsBijection
<1> HIDE DEF places, listed
<1>6. Cardinality(places) = Cardinality(listed)
  BY <1>1, <1>5, FS_Bijection
<1> QED
  BY <1>1, <1>6 DEF places, listed, Places, FirstOf

\* The sequence p has the pending events of the state, each once and in order.
ListsPending(p, state) ==
  /\ p \in Seq(PendingEvents(state)) /\ DOMAIN p = 1..Len(p)
  /\ \A x \in PendingEvents(state) : \E i \in 1..Len(p) : p[i] = x
  /\ \A i, j \in 1..Len(p) : i < j => Before(state, p[i], p[j])
  /\ \A i, j \in 1..Len(p) : p[i] = p[j] => i = j
  /\ \A i \in 1..Len(p) : /\ UpTo(state, PendingEvents(state), p[i]) = FirstOf(p, i)
                          /\ Cardinality(FirstOf(p, i)) = i

\* The pending events, as NextDueBatch lists them.
LEMMA PendingListed ==
  ASSUME NEW state \in State, NEW clock, Lived(state, clock)
  PROVE  ListsPending(ScheduledEvents(state, Pending), state)
<1> DEFINE set == PendingEvents(state)
           p == ScheduledEvents(state, Pending)
<1>1. Filtered(state, Pending) = set
  BY PageAssumption, StatusesDiffer DEF Filtered, Present, PendingEvents
<1>2. Distinct(state, set) /\ p \in Sorted(state, set)
  BY <1>1, FilteredDistinct
<1> HIDE DEF set, p
<1>3. /\ DOMAIN p = 1..Cardinality(set) /\ p \in Seq(set) /\ Len(p) = Cardinality(set)
      /\ \A i \in DOMAIN p : /\ Rank(state, set, p[i]) = i
                             /\ UpTo(state, set, p[i]) = FirstOf(p, i)
      /\ \A x \in set : \E i \in DOMAIN p : p[i] = x
  BY <1>2, SortedRanks DEF FirstOf
<1>4. \A i, j \in DOMAIN p : i < j => Before(state, p[i], p[j])
  BY <1>2 DEF Sorted
<1>5. \A i, j \in DOMAIN p : p[i] = p[j] => i = j
  BY <1>3
<1>6. \A i \in DOMAIN p : Cardinality(FirstOf(p, i)) = i
  BY <1>3 DEF Rank
<1>7. DOMAIN p = 1..Len(p)
  BY <1>3
<1> QED
  BY <1>3, <1>4, <1>5, <1>6, <1>7 DEF set, p, ListsPending

\* The actions among the first i pending events.
ActionsAmong(p, i) == Cardinality(Places(p, i, Actions))

\* One more event is one more action, or none.
LEMMA ActionsGrow ==
  ASSUME NEW p, NEW i \in Nat
  PROVE  /\ ActionsAmong(p, i) \in Nat
         /\ ActionsAmong(p, i + 1) =
              ActionsAmong(p, i) + (IF p[i + 1] \in Actions THEN 1 ELSE 0)
<1> DEFINE places == Places(p, i, Actions)
           more == Places(p, i + 1, Actions)
<1>1. IsFiniteSet(places)
  <2>1. IsFiniteSet(1..i)
    BY FS_Interval
  <2>2. places \subseteq 1..i
    BY DEF Places
  <2> QED
    BY <2>1, <2>2, FS_Subset
<1>2. Cardinality(places) \in Nat
  BY <1>1, FS_CardinalityType
<1>3. i + 1 \notin places
  BY DEF Places
<1>4. more = places \cup (IF p[i + 1] \in Actions THEN {i + 1} ELSE {})
  <2>1. \A k \in Nat : k \in 1..(i + 1) <=> (k \in 1..i \/ k = i + 1)
    OBVIOUS
  <2>2. 1..i \subseteq Nat /\ 1..(i + 1) \subseteq Nat /\ i + 1 \in Nat
    OBVIOUS
  <2> QED
    BY <2>1, <2>2 DEF Places
<1> HIDE DEF places, more
<1>5. CASE p[i + 1] \in Actions
  <2>1. Cardinality(more) = Cardinality(places) + 1
    BY <1>1, <1>3, <1>4, <1>5, FS_AddElement
  <2> QED
    BY <1>2, <1>5, <2>1 DEF ActionsAmong, places, more
<1>6. CASE p[i + 1] \notin Actions
  <2>1. more = places
    BY <1>4, <1>6
  <2> QED
    BY <1>2, <1>6, <2>1 DEF ActionsAmong, places, more
<1> QED
  BY <1>5, <1>6

\* Which of the pending events the batch has: those of the first instant, up to
\* the budgets.
LEMMA BatchPlaces ==
  ASSUME NEW state \in State, NEW clock, Lived(state, clock),
         NEW p, p = ScheduledEvents(state, Pending), NEW i \in 1..Len(p)
  PROVE  /\ p[i] \in EarliestDue(state) <=> state.events[p[i]].due = state.events[p[1]].due
         /\ p[i] \in Batch(state) <=> /\ state.events[p[i]].due = state.events[p[1]].due
                                      /\ i <= MaxScheduledDelivery
                                      /\ ActionsAmong(p, i) <= MaxScheduledActions
<1> DEFINE set == PendingEvents(state)
           instant == EarliestDue(state)
<1>1. ListsPending(p, state)
  BY PendingListed
<1>2. /\ Len(p) \in Nat /\ i \in 1..Len(p) /\ 1 \in 1..Len(p)
      /\ p[i] \in set /\ p[1] \in set /\ set \subseteq EventIds
  BY <1>1 DEF PendingEvents, ListsPending
<1>3. \A x \in set : state.events[x].due \in Nat /\ state.events[p[1]].due <= state.events[x].due
  <2> TAKE x \in set
  <2>1. PICK k \in 1..Len(p) : p[k] = x
    BY <1>1 DEF ListsPending
  <2>2. k = 1 \/ 1 < k
    BY <1>2
  <2>3. x = p[1] \/ Before(state, p[1], x)
    BY <1>1, <1>2, <2>1, <2>2 DEF ListsPending
  <2>4. state.events[x].due \in Nat /\ state.events[p[1]].due \in Nat
    BY <1>2, EventTypes
  <2> QED
    BY <2>3, <2>4 DEF Before
<1>4. p[i] \in instant <=> state.events[p[i]].due = state.events[p[1]].due
  <2>1. p[i] \in instant <=> \A y \in set : state.events[p[i]].due <= state.events[y].due
    BY <1>2 DEF EarliestDue
  <2> QED
    BY <1>2, <1>3, <2>1
<1>5. ASSUME p[i] \in instant
      PROVE  UpTo(state, instant, p[i]) = FirstOf(p, i)
  <2>1. instant \subseteq set
    BY DEF EarliestDue
  <2>2. ASSUME NEW y \in set, y = p[i] \/ Before(state, y, p[i])
        PROVE  y \in instant
    <3>1. state.events[y].due \in Nat /\ state.events[p[i]].due \in Nat
      BY <1>2, <1>3
    <3>2. state.events[y].due <= state.events[p[i]].due
      BY <2>2, <3>1 DEF Before
    <3> QED
      BY <1>3, <1>5, <3>1, <3>2 DEF EarliestDue
  <2>3. UpTo(state, instant, p[i]) = UpTo(state, set, p[i])
    BY <2>1, <2>2 DEF UpTo
  <2> QED
    BY <1>1, <2>3 DEF ListsPending
<1>6. Cardinality(FirstOf(p, i) \cap Actions) = ActionsAmong(p, i)
  <2>1. \A k, j \in 1..i : p[k] = p[j] => k = j
    BY <1>1, <1>2 DEF ListsPending
  <2>2. i \in Nat
    BY <1>2
  <2> QED
    BY <2>1, <2>2, CountListed DEF ActionsAmong
<1> HIDE DEF instant, set
<1>7. p[i] \in Batch(state) <=>
        /\ p[i] \in instant
        /\ Cardinality(UpTo(state, instant, p[i])) <= MaxScheduledDelivery
        /\ Cardinality(UpTo(state, instant, p[i]) \cap Actions) <= MaxScheduledActions
  BY DEF Batch, instant
<1>8. p[i] \in instant =>
        /\ Cardinality(UpTo(state, instant, p[i])) = i
        /\ Cardinality(UpTo(state, instant, p[i]) \cap Actions) = ActionsAmong(p, i)
  <2>1. Cardinality(FirstOf(p, i)) = i
    BY <1>1 DEF ListsPending
  <2> QED
    BY <1>5, <1>6, <2>1
<1> QED
  BY <1>4, <1>7, <1>8 DEF instant

\* One of the tests of scheduledBatchSize: the batch goes on behind n events.
Fits(p, due, n) ==
  /\ n < Len(p) /\ due[n + 1] = due[1] /\ n < MaxScheduledDelivery
  /\ ~(p[n + 1] \in Actions /\ ActionsAmong(p, n) >= MaxScheduledActions)

\* What scheduledBatchSize counts is the batch.
LEMMA BatchCounted ==
  ASSUME NEW state \in State, NEW clock \in Nat, Lived(state, clock),
         PendingEvents(state) # {},
         NEW p, p = ScheduledEvents(state, Pending),
         NEW due, due = [i \in DOMAIN p |-> state.events[p[i]].due]
  PROVE  /\ BatchSize(p, due) \in 1..Len(p)
         /\ Batch(state) = FirstOf(p, BatchSize(p, due))
<1> DEFINE set == PendingEvents(state)
           batch == Batch(state)
<1>1. ListsPending(p, state)
  BY PendingListed
<1>2. /\ p \in Seq(set) /\ DOMAIN p = 1..Len(p) /\ Len(p) \in Nat
      /\ \A x \in set : \E i \in 1..Len(p) : p[i] = x
      /\ \A i, j \in 1..Len(p) : i < j => Before(state, p[i], p[j])
      /\ \A i \in 1..Len(p) : p[i] \in EventIds
  BY <1>1 DEF ListsPending, PendingEvents
<1>3. \A i \in 1..Len(p) : due[i] = state.events[p[i]].due
  BY <1>2
<1>4. /\ MaxScheduledDelivery \in Nat /\ MaxScheduledActions \in Nat
  BY StoreAssumption
<1>5. batch # {} /\ batch \subseteq set
      /\ \A x \in batch, y \in set \ batch : Before(state, x, y)
  BY BatchIsLongest DEF WithinBudgets
<1>6. \A i \in 1..Len(p) : p[i] \in batch <=> /\ due[i] = due[1] /\ i <= MaxScheduledDelivery
                                             /\ ActionsAmong(p, i) <= MaxScheduledActions
  <2> TAKE i \in 1..Len(p)
  <2>1. 1 \in 1..Len(p)
    BY <1>2
  <2> QED
    BY <1>3, <2>1, BatchPlaces
<1> HIDE DEF batch, set
<1>7. PICK m \in 1..Len(p) : p[m] \in batch /\ \A i \in 1..Len(p) : p[i] \in batch => i <= m
  <2>1. Distinct(state, batch)
    BY <1>5, PendingDistinct DEF set
  <2>2. PICK x \in batch : \A y \in batch : y = x \/ Before(state, y, x)
    BY <1>5, <2>1, EndsExist
  <2>3. PICK m \in 1..Len(p) : p[m] = x
    BY <1>2, <1>5, <2>2
  <2>4. ASSUME NEW i \in 1..Len(p), p[i] \in batch, m < i
        PROVE  FALSE
    <3>1. Before(state, x, p[i]) /\ x \in EventIds /\ p[i] \in EventIds
      BY <1>2, <2>3, <2>4
    <3>2. p[i] = x \/ Before(state, p[i], x)
      BY <2>2, <2>4
    <3> QED
      BY <3>1, <3>2, BeforeStrict
  <2>5. \A i \in 1..Len(p) : p[i] \in batch => i <= m
    BY <1>2, <2>4
  <2> QED
    BY <2>2, <2>3, <2>5
<1>8. \A i \in 1..m : p[i] \in batch
  <2> TAKE i \in 1..m
  <2> SUFFICES ASSUME p[i] \notin batch PROVE FALSE
    OBVIOUS
  <2>1. i \in 1..Len(p) /\ i < m
    BY <1>2, <1>7
  <2>2. Before(state, p[i], p[m]) /\ Before(state, p[m], p[i])
    BY <1>2, <1>5, <1>7, <2>1
  <2> QED
    BY <1>2, <1>7, <2>1, <2>2, BeforeStrict
<1>9. batch = FirstOf(p, m)
  <2>1. \A x \in batch : \E i \in 1..m : p[i] = x
    <3> TAKE x \in batch
    <3>1. PICK i \in 1..Len(p) : p[i] = x
      BY <1>2, <1>5
    <3>2. i \in 1..m
      BY <1>2, <1>7, <3>1
    <3> QED
      BY <3>1, <3>2
  <2> QED
    BY <1>8, <2>1 DEF FirstOf
<1>10. \A k \in 0..(m - 1) : Fits(p, due, k)
  <2> TAKE k \in 0..(m - 1)
  <2>1. k \in Nat /\ k + 1 \in 1..m /\ k + 1 \in 1..Len(p) /\ k < Len(p)
    BY <1>2, <1>7
  <2>2. /\ due[k + 1] = due[1] /\ k + 1 <= MaxScheduledDelivery
        /\ ActionsAmong(p, k + 1) <= MaxScheduledActions
    BY <1>6, <1>8, <2>1
  <2>3. /\ ActionsAmong(p, k) \in Nat
        /\ ActionsAmong(p, k + 1) = ActionsAmong(p, k) + (IF p[k + 1] \in Actions THEN 1 ELSE 0)
    BY <2>1, ActionsGrow
  <2>4. k < MaxScheduledDelivery
    BY <1>4, <2>1, <2>2
  <2>5. ~(p[k + 1] \in Actions /\ ActionsAmong(p, k) >= MaxScheduledActions)
    BY <1>4, <2>2, <2>3
  <2> QED
    BY <2>1, <2>2, <2>4, <2>5 DEF Fits
<1>11. ~Fits(p, due, m)
  <2> SUFFICES ASSUME Fits(p, due, m) PROVE FALSE
    OBVIOUS
  <2>1. m \in Nat /\ m < Len(p) /\ m + 1 \in 1..Len(p) /\ m < MaxScheduledDelivery
        /\ due[m + 1] = due[1]
        /\ ~(p[m + 1] \in Actions /\ ActionsAmong(p, m) >= MaxScheduledActions)
    BY <1>2 DEF Fits
  <2>2. ActionsAmong(p, m) <= MaxScheduledActions
    BY <1>6, <1>7
  <2>3. /\ ActionsAmong(p, m) \in Nat
        /\ ActionsAmong(p, m + 1) = ActionsAmong(p, m) + (IF p[m + 1] \in Actions THEN 1 ELSE 0)
    BY <2>1, ActionsGrow
  <2>4. m + 1 <= MaxScheduledDelivery /\ ActionsAmong(p, m + 1) <= MaxScheduledActions
    BY <1>4, <2>1, <2>2, <2>3
  <2>5. p[m + 1] \in batch
    BY <1>6, <2>1, <2>4
  <2> QED
    BY <1>7, <2>1, <2>5
<1>12. BatchSize(p, due) = m
  <2> DEFINE Stops(n) == ~Fits(p, due, n) /\ \A k \in 0..(n - 1) : Fits(p, due, k)
  <2>1. BatchSize(p, due) = CHOOSE n \in 0..Len(p) : Stops(n)
    BY Zenon DEF BatchSize, Fits, ActionsAmong, Places
  <2>2. m \in 0..Len(p) /\ Stops(m)
    BY <1>2, <1>10, <1>11
  <2>3. ASSUME NEW n \in 0..Len(p), Stops(n)
        PROVE  n = m
    <3>1. n < m => n \in 0..(m - 1)
      BY <1>2
    <3>2. m < n => m \in 0..(n - 1)
      BY <1>2
    <3> QED
      BY <1>2, <1>10, <1>11, <2>3, <3>1, <3>2
  <2> HIDE DEF Stops
  <2> QED
    BY <2>1, <2>2, <2>3
<1> QED
  BY <1>9, <1>12 DEF batch

\* What a preview says of the state that was read: the earliest instant, how many
\* events it holds, and the size of the batch.
Previews(p, state) ==
  /\ \A x \in EarliestDue(state) : state.events[x].due = p.due
  /\ p.pending = Cardinality(EarliestDue(state))
  /\ p.size = Cardinality(Batch(state))
  /\ p.actions = Cardinality(Batch(state) \cap Actions)

\* A preview was read of an existing branch; while the head it names is current,
\* it speaks of the state of the branch.
PreviewInv ==
  preview.on # None =>
    /\ preview.on \in Branches /\ Known(preview.on)
    /\ preview.head \in Nat /\ preview.head <= branch[preview.on].head
    /\ preview.head = branch[preview.on].head => Previews(preview, branch[preview.on].state)

\* NextDueBatch previews the batch.
LEMMA BatchPreviewed ==
  ASSUME HistoryInv, NEW b \in Branches, NextDueBatch(b)
  PROVE  PreviewInv'
<1> DEFINE state == branch[b].state
           p == ScheduledEvents(state, Pending)
           due == [i \in DOMAIN p |-> state.events[p[i]].due]
           size == BatchSize(p, due)
           instant == EarliestDue(state)
           held == Cardinality({i \in DOMAIN due : due[i] = due[1]})
           acts == Cardinality({i \in 1..size : p[i] \in Actions})
<1>1. /\ p # <<>> /\ UNCHANGED branch /\ Known(b)
      /\ preview' = [on |-> b, head |-> branch[b].head, due |-> due[1], pending |-> held,
                     size |-> size, actions |-> acts]
  BY DEF NextDueBatch, Readable, storeVars
<1>2. /\ state \in State /\ branch[b].clock \in Nat /\ branch[b].head \in Nat
      /\ Lived(state, branch[b].clock)
  BY ColumnTypes DEF HistoryInv, StoreInv, StoreTypeOK, RowsLived, Row
<1>3. ListsPending(p, state)
  BY <1>2, PendingListed
<1> HIDE DEF p
<1>4. /\ p \in Seq(PendingEvents(state)) /\ DOMAIN p = 1..Len(p) /\ Len(p) \in Nat
      /\ \A x \in PendingEvents(state) : \E i \in 1..Len(p) : p[i] = x
      /\ \A i, j \in 1..Len(p) : p[i] = p[j] => i = j
      /\ \A i \in 1..Len(p) : Cardinality(FirstOf(p, i)) = i
  BY <1>3 DEF ListsPending
<1>5. 1 \in 1..Len(p) /\ PendingEvents(state) # {}
  <2>1. p # <<>>
    BY <1>1
  <2>2. 1 \in 1..Len(p)
    BY <1>4, <2>1
  <2>3. p[1] \in PendingEvents(state)
    BY <1>4, <2>2
  <2> QED
    BY <2>2, <2>3
<1>6. DOMAIN due = 1..Len(p) /\ \A i \in 1..Len(p) : due[i] = state.events[p[i]].due
  BY <1>4
<1>7. size \in 1..Len(p) /\ Batch(state) = FirstOf(p, size)
  BY <1>2, <1>5, BatchCounted DEF p
<1>8. \A i \in 1..Len(p) : p[i] \in instant <=> due[i] = due[1]
  <2> TAKE i \in 1..Len(p)
  <2>1. p[i] \in instant <=> state.events[p[i]].due = state.events[p[1]].due
    BY <1>2, BatchPlaces DEF p
  <2> QED
    BY <1>5, <1>6, <2>1
<1> HIDE DEF due, state
<1>9. \A x \in instant : state.events[x].due = due[1]
  <2> TAKE x \in instant
  <2>1. x \in PendingEvents(state)
    BY DEF EarliestDue
  <2>2. PICK i \in 1..Len(p) : p[i] = x
    BY <1>4, <2>1
  <2> QED
    BY <1>6, <1>8, <2>2
<1> HIDE DEF instant, size
<1>10. held = Cardinality(instant)
  <2>1. {i \in DOMAIN due : due[i] = due[1]} = Places(p, Len(p), instant)
    BY <1>6, <1>8 DEF Places
  <2>2. FirstOf(p, Len(p)) \cap instant = instant
    <3>1. instant \subseteq PendingEvents(state)
      BY DEF EarliestDue, instant
    <3> QED
      BY <1>4, <3>1 DEF FirstOf
  <2>3. Cardinality(Places(p, Len(p), instant)) = Cardinality(FirstOf(p, Len(p)) \cap instant)
    BY <1>4, CountListed
  <2> QED
    BY <2>1, <2>2, <2>3
<1>11. acts = Cardinality(Batch(state) \cap Actions)
  <2>1. {i \in 1..size : p[i] \in Actions} = Places(p, size, Actions)
    BY DEF Places
  <2>2. size \in Nat /\ \A i, j \in 1..size : p[i] = p[j] => i = j
    BY <1>4, <1>7
  <2>3. Cardinality(Places(p, size, Actions)) = Cardinality(FirstOf(p, size) \cap Actions)
    BY <2>2, CountListed
  <2> QED
    BY <1>7, <2>1, <2>3
<1>12. size = Cardinality(Batch(state))
  BY <1>4, <1>7
<1> HIDE DEF held, acts
<1>13. /\ preview'.on = b /\ preview'.head = branch[b].head /\ preview'.due = due[1]
       /\ preview'.pending = held /\ preview'.size = size /\ preview'.actions = acts
  BY <1>1
<1>14. Previews(preview', state)
  BY <1>9, <1>10, <1>11, <1>12, <1>13 DEF Previews, instant
<1>15. branch'[b] = branch[b] /\ preview'.head <= branch[b].head
  BY <1>1, <1>2, <1>13
<1> QED
  BY <1>1, <1>2, <1>13, <1>14, <1>15 DEF PreviewInv, Known, state

\* A branch that exists is kept, and what changes it moves its head.
LEMMA HeadMoves ==
  ASSUME StoreInv, StoreInv', [StoreNext]_storeVars, NEW b \in Branches, Known(b)
  PROVE  /\ Known(b)' /\ branch[b].head \in Nat /\ branch'[b].head \in Nat
         /\ branch'[b] = branch[b] \/ branch'[b].head > branch[b].head
<1>1. /\ StoreTypeOK /\ StoreTypeOK' /\ branch \in [Branches -> Row]
      /\ branch' \in [Branches -> Row]
  BY DEF StoreInv, StoreTypeOK
<1>2. \A o \in Branches : branch[o].head \in Nat /\ branch'[o].head \in Nat
  BY <1>1 DEF Row
<1>3. CASE branch'[b] = branch[b]
  BY <1>2, <1>3 DEF Known
<1>4. ASSUME NEW o \in Branches, branch'[o].spec # None,
             branch'[o].head = branch[o].head + 1,
             \A q \in Branches : q # o => branch'[q] = branch[q]
      PROVE  /\ Known(b)' /\ branch[b].head \in Nat /\ branch'[b].head \in Nat
             /\ branch'[b] = branch[b] \/ branch'[b].head > branch[b].head
  BY <1>2, <1>3, <1>4 DEF Known
<1>5. ASSUME NEW d \in Specs, NEW o \in Branches, Start(d, o)
      PROVE  branch'[b] = branch[b]
  <2>1. o = b => UNCHANGED branch
    BY <1>5 DEF Start, InitializeBranch
  <2>2. o # b => branch'[b] = branch[b]
    BY <1>1, <1>5 DEF Start, InitializeBranch
  <2> QED
    BY <2>1, <2>2
<1>6. ASSUME NEW s \in Names, NEW o \in Branches, Fork(s, o)
      PROVE  branch'[b] = branch[b]
  BY <1>1, <1>6 DEF Fork
<1>7. ASSUME NEW s \in Names, NEW o \in Branches, Reset(s, o)
      PROVE  /\ branch'[o].spec # None /\ branch'[o].head = branch[o].head + 1
             /\ \A q \in Branches : q # o => branch'[q] = branch[q]
  <2>1. snapshot[s].spec # None /\ branch' = [branch EXCEPT ![o] = ResetRow(s, o)]
    BY <1>7 DEF Reset
  <2>2. /\ branch'[o] = ResetRow(s, o)
        /\ \A q \in Branches : q # o => branch'[q] = branch[q]
    BY <1>1, <2>1
  <2> QED
    BY <2>1, <2>2 DEF ResetRow
<1>8. ASSUME NEW o \in Branches, NEW f \in FaultIds,
             \/ \E tool \in Tools, phase \in Phases,
                   n \in 1..MaxFaultRepeats : InstallFault(o, f, tool, phase, n)
             \/ RemoveFault(o, f)
      PROVE  /\ branch'[o].spec # None /\ branch'[o].head = branch[o].head + 1
             /\ \A q \in Branches : q # o => branch'[q] = branch[q]
  <2>1. /\ Known(o)
        /\ branch' = [branch EXCEPT ![o].head = @ + 1]
    BY <1>8 DEF InstallFault, RemoveFault, Open
  <2>2. /\ branch'[o].spec = branch[o].spec /\ branch'[o].head = branch[o].head + 1
        /\ \A q \in Branches : q # o => branch'[q] = branch[q]
    BY <1>1, <2>1 DEF Row
  <2> QED
    BY <2>1, <2>2 DEF Known
<1>9. ASSUME NEW o \in Branches, NEW tool \in Tools, NEW ok \in BOOLEAN,
             ApplyCall(o, tool, ok)
      PROVE  /\ branch'[o].spec # None /\ branch'[o].head = branch[o].head + 1
             /\ \A q \in Branches : q # o => branch'[q] = branch[q]
  <2>1. /\ Known(o)
        /\ \E e, n : branch' = [branch EXCEPT ![o].state.world = @ + e, ![o].calls = n,
                                              ![o].head = @ + 1]
    BY <1>9 DEF ApplyCall, Open
  <2>2. /\ branch'[o].spec = branch[o].spec /\ branch'[o].head = branch[o].head + 1
        /\ \A q \in Branches : q # o => branch'[q] = branch[q]
    BY <1>1, <2>1 DEF Row
  <2> QED
    BY <2>1, <2>2 DEF Known
<1>10. ASSUME NEW o \in Branches, NEW x \in EventIds, NEW due, NEW priority, NEW tool,
             ScheduleEvent(o, x, due, priority, tool) \/ CancelScheduledEvent(o, x)
      PROVE  /\ branch'[o].spec # None /\ branch'[o].head = branch[o].head + 1
             /\ \A q \in Branches : q # o => branch'[q] = branch[q]
  <2>1. /\ Known(o)
        /\ \E e : \/ branch' = [branch EXCEPT ![o].state.next = @ + 1,
                                       ![o].state.events[x] = e, ![o].head = @ + 1]
                  \/ branch' = [branch EXCEPT ![o].state.events[x].status = e,
                                       ![o].head = @ + 1]
    BY <1>10 DEF ScheduleEvent, CancelScheduledEvent, Open
  <2>2. /\ branch'[o].spec = branch[o].spec /\ branch'[o].head = branch[o].head + 1
        /\ \A q \in Branches : q # o => branch'[q] = branch[q]
    BY <1>1, <2>1 DEF Row
  <2> QED
    BY <2>1, <2>2 DEF Known
<1>11. ASSUME NEW o \in Branches, NEW target,
             AdvanceClock(o, target)
      PROVE  /\ branch'[o].spec # None /\ branch'[o].head = branch[o].head + 1
             /\ \A q \in Branches : q # o => branch'[q] = branch[q]
  <2>1. /\ Known(o)
        /\ \E f : branch' = [branch EXCEPT ![o].clock = target, ![o].state.events = f,
                                           ![o].head = @ + 1]
    BY <1>11 DEF AdvanceClock, Open
  <2>2. /\ branch'[o].spec = branch[o].spec /\ branch'[o].head = branch[o].head + 1
        /\ \A q \in Branches : q # o => branch'[q] = branch[q]
    BY <1>1, <2>1 DEF Row
  <2> QED
    BY <2>1, <2>2 DEF Known
<1>12. ASSUME NEW c \in Clients, NEW d, NEW checked, AdvanceBy(c, d, checked)
       PROVE  \E o \in Branches : \E target : AdvanceClock(o, target)
  <2>1. view[c].on \in Branches
    BY <1>1, <1>12 DEF AdvanceBy, StoreTypeOK
  <2> QED
    BY <1>12, <2>1 DEF AdvanceBy
<1>13. CASE CommitStep
  <2>1. /\ tx.on \in Branches /\ tx.row \in Row /\ Known(tx.on)
        /\ tx.row.spec = branch[tx.on].spec /\ tx.row.head = branch[tx.on].head
    BY <1>1, <1>13, StepTypes DEF CommitStep, StoreInv, StepSound, StoreTypeOK
  <2>2. branch' = [branch EXCEPT ![tx.on] = [tx.row EXCEPT !.head = @ + 1]]
    BY <1>13 DEF CommitStep
  <2>3. /\ branch'[tx.on].spec = branch[tx.on].spec
        /\ branch'[tx.on].head = branch[tx.on].head + 1
        /\ \A q \in Branches : q # tx.on => branch'[q] = branch[q]
    BY <1>1, <2>1, <2>2 DEF Row
  <2> QED
    BY <1>4, <2>1, <2>3 DEF Known
<1>14. CASE \/ UNCHANGED storeVars \/ AbortStep
            \/ \E s \in Names, o \in Branches : CreateSnapshot(s, o)
            \/ \E c \in Clients, o \in Branches : Read(c, o)
            \/ \E o \in Branches, backed \in BOOLEAN : BeginStep(o, backed)
            \/ \E x \in EventIds, ok \in BOOLEAN : StepSignal(x) \/ StepAction(x, ok)
  <2>1. UNCHANGED branch
    BY <1>14 DEF storeVars, rowVars, AbortStep, CreateSnapshot, Read, BeginStep, StepSignal,
                 StepAction
  <2> QED
    BY <1>3, <2>1
<1> QED
  BY <1>3, <1>4, <1>5, <1>6, <1>7, <1>8, <1>9, <1>10, <1>11, <1>12, <1>13, <1>14 DEF StoreNext

\* A preview stays true of its head, or its head is past.
LEMMA PreviewLasts ==
  ASSUME StepInv, StoreInv', PreviewInv, [PageNext]_<<storeVars, pageVars>>
  PROVE  PreviewInv'
<1>1. HistoryInv /\ StoreInv
  BY DEF StepInv, HistoryInv
<1>2. CASE UNCHANGED preview
  <2> SUFFICES ASSUME preview.on # None PROVE PreviewInv'
    BY <1>2 DEF PreviewInv
  <2> DEFINE b == preview.on
  <2>1. /\ b \in Branches /\ Known(b) /\ preview.head \in Nat
        /\ preview.head <= branch[b].head
        /\ preview.head = branch[b].head => Previews(preview, branch[b].state)
    BY DEF PreviewInv
  <2>2. [StoreNext]_storeVars
    BY PagesLeaveStore
  <2>3. /\ branch'[b].spec # None /\ branch[b].head \in Nat /\ branch'[b].head \in Nat
        /\ branch'[b] = branch[b] \/ branch'[b].head > branch[b].head
    BY <1>1, <2>1, <2>2, HeadMoves DEF Known
  <2>4. preview'.on = b /\ preview'.head = preview.head
    BY <1>2
  <2>5. preview.head <= branch'[b].head
    BY <2>1, <2>3
  <2>6. preview.head = branch'[b].head => Previews(preview', branch'[b].state)
    <3> HAVE preview.head = branch'[b].head
    <3>1. branch'[b] = branch[b]
      BY <2>1, <2>3
    <3> QED
      BY <1>2, <2>1, <3>1
  <2> HIDE DEF b
  <2> QED
    BY <2>1, <2>3, <2>4, <2>5, <2>6 DEF PreviewInv, Known
<1>3. CASE preview' = NoPreview
  BY <1>3 DEF PreviewInv, NoPreview
<1>4. ASSUME NEW b \in Branches, NextDueBatch(b)
      PROVE  PreviewInv'
  BY <1>1, <1>4, BatchPreviewed
<1> QED
  BY <1>2, <1>3, <1>4 DEF PageNext, pageVars, FirstPage, NextPage

\* What a step that commits has done to its branch: it ended the batch, all due at
\* one instant, and its clock stands there.
LEMMA CommitEndsBatch ==
  ASSUME StepInv, CommitStep
  PROVE  LET old == branch[tx.on]
             new == branch'[tx.on]
         IN /\ old.state \in State /\ Lived(old.state, old.clock) /\ old.clock \in Nat
            /\ PendingEvents(old.state) # {}
            /\ \A x \in Batch(old.state) : old.state.events[x].due = new.clock
            /\ PendingEvents(new.state) = PendingEvents(old.state) \ Batch(old.state)
            /\ \A x \in PendingEvents(new.state) : new.state.events[x] = old.state.events[x]
<1> DEFINE old == branch[tx.on]
           new == branch'[tx.on]
           batch == Batch(old.state)
<1>1. HistoryInv /\ StoreInv /\ StoreTypeOK /\ StepFollows
  BY DEF StepInv, HistoryInv, StoreInv
<1>2. /\ tx.on \in Branches /\ branch \in [Branches -> Row] /\ tx.row \in Row
      /\ old.state \in State /\ Lived(old.state, old.clock) /\ old.clock \in Nat
  <2>1. tx.on \in Branches /\ tx.row \in Row
    BY <1>1, StepTypes DEF CommitStep, StoreTypeOK
  <2>2. branch \in [Branches -> Row] /\ old \in Row
    BY <1>1, <2>1 DEF StoreTypeOK
  <2>3. Lived(old.state, old.clock)
    BY <1>1, <2>1 DEF HistoryInv, RowsLived
  <2> QED
    BY <2>1, <2>2, <2>3 DEF Row
<1>3. new.state = tx.row.state /\ new.clock = tx.row.clock
  <2>1. new = [tx.row EXCEPT !.head = @ + 1]
    BY <1>2 DEF CommitStep
  <2> QED
    BY <1>2, <2>1 DEF Row
<1>4. /\ PendingEvents(old.state) # {}
      /\ \A x \in batch : old.state.events[x].due = new.clock
      /\ Processing(old.state, new.state, batch, {})
  BY <1>1, <1>3 DEF StepFollows, CommitStep
<1> HIDE DEF old, new, batch
<1>5. batch \subseteq PendingEvents(old.state)
  <2>1. WithinBudgets(old.state, batch)
    BY <1>2, <1>4, BatchIsLongest DEF batch
  <2> QED
    BY <2>1 DEF WithinBudgets
<1>6. RowLoses(old, new, batch)
  BY <1>4, <1>5, ProcessedEnds
<1>7. /\ PendingEvents(new.state) = PendingEvents(old.state) \ batch
      /\ \A x \in PendingEvents(new.state) : new.state.events[x] = old.state.events[x]
  BY <1>6, PendingEnds
<1> QED
  BY <1>2, <1>4, <1>7 DEF old, new, batch

\* So it has done what was previewed.
LEMMA CommitIsPreviewed ==
  ASSUME StepInv, PreviewInv, CommitStep, preview.on # None, tx.on = preview.on,
         branch[preview.on].head = preview.head
  PROVE  LET b == preview.on
             before == PendingEvents(branch[b].state)
             after == PendingEvents(branch'[b].state)
         IN /\ Cardinality(before \ after) = preview.size
            /\ Cardinality((before \ after) \cap Actions) = preview.actions
            /\ \A x \in before \ after : branch[b].state.events[x].due = preview.due
            /\ branch'[b].clock = preview.due
            /\ RequiresDrain(preview) <=>
                 \E x \in after : branch'[b].state.events[x].due = preview.due
<1> DEFINE old == branch[preview.on]
           new == branch'[preview.on]
           before == PendingEvents(old.state)
           after == PendingEvents(new.state)
           instant == EarliestDue(old.state)
           batch == Batch(old.state)
<1>1. /\ old.state \in State /\ Lived(old.state, old.clock) /\ old.clock \in Nat
      /\ before # {} /\ \A x \in batch : old.state.events[x].due = new.clock
      /\ after = before \ batch
      /\ \A x \in after : new.state.events[x] = old.state.events[x]
  BY CommitEndsBatch
<1>2. /\ \A x \in instant : old.state.events[x].due = preview.due
      /\ preview.pending = Cardinality(instant) /\ preview.size = Cardinality(batch)
      /\ preview.actions = Cardinality(batch \cap Actions)
  <2>1. Previews(preview, old.state)
    BY DEF PreviewInv
  <2> QED
    BY <2>1 DEF Previews
<1>3. batch # {} /\ batch \subseteq instant /\ instant \subseteq before
  BY <1>1, BatchIsLongest, BatchIsPrefix DEF EarliestDue
<1>4. /\ \A x \in instant : \A y \in before : old.state.events[x].due <= old.state.events[y].due
      /\ \A x \in before : (\A y \in before : old.state.events[x].due <= old.state.events[y].due)
                           => x \in instant
  BY DEF EarliestDue
<1>5. IsFiniteSet(instant)
  BY <1>1, <1>3, PendingDistinct
<1> HIDE DEF old, new, before, after, instant, batch
<1>6. before \ after = batch
  BY <1>1, <1>3
<1>7. new.clock = preview.due
  BY <1>1, <1>2, <1>3
<1>8. preview.pending > preview.size <=> instant \ batch # {}
  <2>1. /\ IsFiniteSet(batch) /\ Cardinality(batch) <= Cardinality(instant)
        /\ Cardinality(batch) = Cardinality(instant) => batch = instant
    BY <1>3, <1>5, FS_Subset
  <2>2. Cardinality(batch) \in Nat /\ Cardinality(instant) \in Nat
    BY <1>5, <2>1, FS_CardinalityType
  <2>3. batch = instant <=> instant \ batch = {}
    BY <1>3
  <2> QED
    BY <1>2, <2>1, <2>2, <2>3
<1>9. instant \ batch # {} <=> \E x \in after : new.state.events[x].due = preview.due
  <2>1. ASSUME NEW x \in instant, x \notin batch
        PROVE  \E y \in after : new.state.events[y].due = preview.due
    <3>1. x \in after /\ new.state.events[x].due = preview.due
      BY <1>1, <1>2, <1>3, <2>1
    <3> QED
      BY <3>1
  <2>2. ASSUME NEW x \in after, new.state.events[x].due = preview.due
        PROVE  x \in instant \ batch
    <3>1. x \in before /\ x \notin batch /\ old.state.events[x].due = preview.due
      BY <1>1, <2>2
    <3>2. PICK z \in instant : TRUE
      BY <1>3
    <3>3. \A y \in before : old.state.events[x].due <= old.state.events[y].due
      BY <1>2, <1>4, <3>1, <3>2
    <3> QED
      BY <1>4, <3>1, <3>3
  <2> QED
    BY <2>1, <2>2
<1>10. /\ Cardinality(before \ after) = preview.size
       /\ Cardinality((before \ after) \cap Actions) = preview.actions
       /\ \A x \in before \ after : old.state.events[x].due = preview.due
  BY <1>2, <1>3, <1>6
<1>11. RequiresDrain(preview) <=> \E x \in after : new.state.events[x].due = preview.due
  BY <1>8, <1>9 DEF RequiresDrain
<1> QED
  BY <1>7, <1>10, <1>11 DEF old, new, before, after

\* While a client holds a preview, it is one of the state its head stands for.
THEOREM PreviewsAreCurrent == PageSpec => [](StepInv /\ PreviewInv)
<1>1. PageInit => PreviewInv
  BY DEF PageInit, PreviewInv, NoPreview
<1>2. StepInv /\ StepInv' /\ PreviewInv /\ [PageNext]_<<storeVars, pageVars>> => PreviewInv'
  BY PreviewLasts DEF StepInv, HistoryInv
<1> QED
  BY <1>1, <1>2, PagesKeepInvariant, PTL DEF PageSpec

\* A step that commits over the head a client previewed does what NextDueBatch said,
\* however often it was begun, aborted and begun again in between: that many events
\* and actions, all of one instant, and what is left of it was announced
\* (scheduledBatchSize, advanceClockToNext).
THEOREM PreviewsComeTrue == PageSpec => PreviewComesTrue
<1> DEFINE Comes ==
      LET b == preview.on
          before == PendingEvents(branch[b].state)
          after == PendingEvents(branch'[b].state)
      IN b # None /\ CommitStep /\ tx.on = b /\ branch[b].head = preview.head =>
           /\ Cardinality(before \ after) = preview.size
           /\ Cardinality((before \ after) \cap Actions) = preview.actions
           /\ \A x \in before \ after : branch[b].state.events[x].due = preview.due
           /\ branch'[b].clock = preview.due
           /\ RequiresDrain(preview) <=>
                \E x \in after : branch'[b].state.events[x].due = preview.due
<1>1. StepInv /\ PreviewInv => Comes
  BY CommitIsPreviewed
<1>2. PreviewComesTrue <=> [][Comes]_<<storeVars, pageVars>>
  BY DEF PreviewComesTrue
<1> HIDE DEF Comes
<1>3. PageSpec => [][Comes]_<<storeVars, pageVars>>
  BY <1>1, PreviewsAreCurrent, PTL DEF PageSpec
<1> QED
  BY <1>2, <1>3
=============================================================================
