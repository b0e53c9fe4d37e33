--------------------------- MODULE BaselineProofs ---------------------------
(* Theorems about BaselineRun, for any plan, any number of processes and any *)
(* order of their failures: no trial is executed twice, an abandoned lease   *)
(* is final, and a pass is the word of the whole experiment.                 *)
EXTENDS BaselineRun, TLAPS

Working == {"plans", "trial", "executing", "inspect", "report"}

\* A trial that will never change again.
Stands(t) == executed[t] = 1 /\ session[t] \in Sealed

-----------------------------------------------------------------------------
(* The inductive invariant.                                                  *)

Typed ==
  /\ lock \in BOOLEAN
  /\ DOMAIN run = Runners
  /\ \A p \in Runners :
       /\ DOMAIN run[p] = {"pc", "shard", "at", "failed", "rows"}
       /\ run[p].at \in Int
       /\ Holds(p) => run[p].shard \in Shards
  /\ executed \in [Trials -> Nat]
  /\ session \in [Trials -> Leftovers]
  /\ DOMAIN seal = Shards
  /\ DOMAIN assess = {"pc", "at", "cut", "recorded", "seen"}
  /\ assess.at \in Int
  /\ DOMAIN verdict = {"decision", "shards"}
  /\ DOMAIN verdict.shards = Shards

\* The lease: a process that runs a shard holds it, alone.
Leased ==
  \A p \in Runners : Holds(p) => lock /\ \A q \in Runners : Holds(q) => p = q

\* A shard is claimed before any of its trials is executed, and for ever.
ClaimedFirst ==
  /\ \A t \in Trials : executed[t] > 0 => ShardOf(t) \in claimed
  /\ \A p \in Runners : run[p].pc \in Working => run[p].shard \in claimed

\* A process executes the trials of its shard in order: those before the one
\* it is at stand, those after it have not been executed.  A report without a
\* failure is that of a shard whose trials all stand, and torn until written.
InOrder(p) ==
  LET mine == TrialsOf(run[p].shard)
      at == run[p].at
  IN /\ run[p].pc = "plans" => \A t \in mine : executed[t] = 0
     /\ run[p].pc \in {"trial", "executing", "inspect"} =>
          \A t \in mine : (t < at => Stands(t)) /\ (t > at => executed[t] = 0)
     /\ run[p].pc = "trial" =>
          IF at \in mine THEN executed[at] = 0 ELSE \A t \in mine : t < at
     /\ run[p].pc \in {"executing", "inspect"} => at \in mine /\ executed[at] = 1
     /\ run[p].pc = "inspect" => session[at] \in Sealed
     /\ run[p].pc \in {"report", "writing"} => run[p].failed \/ \A t \in mine : Stands(t)
     /\ run[p].pc = "writing" => seal[run[p].shard].state = "torn"

\* What a trial left comes from its one execution, which is over.
SessionsStand ==
  \A t \in Trials :
    /\ executed[t] \in {0, 1}
    /\ session[t] # NoTerminal =>
         /\ executed[t] = 1
         /\ \A p \in Runners : ~(At(p, "executing") /\ run[p].at = t)

\* A shard that has a report is nobody's work any more; behind a complete one
\* every trial stands.
SealsStand ==
  \A s \in Shards :
    /\ seal[s].state # "absent" =>
         s \in claimed /\ \A p \in Runners : run[p].shard = s => run[p].pc \notin Working
    /\ seal[s].state = "complete" => \A t \in TrialsOf(s) : Stands(t)

\* What an assessment has read so far is so.
ReadStands ==
  /\ \A s \in Shards : verdict.shards[s] = "complete" => seal[s].state = "complete"
  /\ \A u \in DOMAIN assess.seen \cap Trials : assess.seen[u].verified =>
       session[u] \in Sealed /\ assess.seen[u].grade = session[u].grade
  /\ assess.pc = "trials" =>
       /\ assess.at >= 1
       /\ \A u \in Trials : u < assess.at => u \in DOMAIN assess.seen

BaselineInv ==
  /\ Typed
  /\ Leased
  /\ ClaimedFirst
  /\ \A p \in Runners : InOrder(p)
  /\ SessionsStand
  /\ SealsStand
  /\ ReadStands
  /\ PassIsWhole

-----------------------------------------------------------------------------
(* The plan's arithmetic.                                                    *)

\* The plan has a natural number of trials, and shards are not empty.
LEMMA Counts == Total \in Nat /\ TrialsPerShard \in Nat \ {0} /\ Trials \subseteq Nat \ {0}
<1>1. Len(Entry) \in Nat /\ Repeats \in Nat /\ TrialsPerShard \in Nat \ {0}
  BY BaselineAssumption
<1>2. 2 * Len(Entry) * Repeats \in Nat
  BY <1>1
<1> QED
  BY <1>1, <1>2 DEF Total, Trials

\* What integer division by a positive number bounds.
LEMMA Quotient ==
  ASSUME NEW x \in Nat, NEW d \in Nat \ {0}
  PROVE  /\ x \div d \in Nat
         /\ (x \div d) * d <= x
         /\ x < ((x \div d) + 1) * d
  BY SMT

\* Division undoes multiplication.
LEMMA Multiple ==
  ASSUME NEW q \in Nat, NEW d \in Nat \ {0}
  PROVE  (q * d) \div d = q
  BY SMT

\* Division is monotone.
LEMMA Monotone ==
  ASSUME NEW x \in Nat, NEW y \in Nat, x <= y, NEW d \in Nat \ {0}
  PROVE  x \div d <= y \div d
  BY SMT

\* First(s) is the smallest trial of a shard.
LEMMA FirstIsFirst ==
  ASSUME NEW s \in Shards
  PROVE  /\ First(s) \in TrialsOf(s)
         /\ \A t \in TrialsOf(s) : First(s) <= t
<1>1. PICK u \in Trials : s = ShardOf(u)
  BY DEF Shards
<1>2. u \in Nat \ {0} /\ TrialsPerShard \in Nat \ {0}
  BY Counts
<1> DEFINE q == (u - 1) \div TrialsPerShard
<1>3. q \in Nat /\ q * TrialsPerShard <= u - 1 /\ s = q + 1
  <2>1. u - 1 \in Nat
    BY <1>2
  <2> QED
    BY <1>1, <1>2, <2>1, Quotient DEF ShardOf
<1> HIDE DEF q
<1>4. First(s) = q * TrialsPerShard + 1 /\ q * TrialsPerShard \in Nat
  <2>1. q * TrialsPerShard \in Nat
    BY <1>2, <1>3
  <2>2. s - 1 = q
    BY <1>3
  <2> QED
    BY <2>1, <2>2 DEF First
<1>5. First(s) \in Trials
  BY <1>2, <1>3, <1>4, Counts DEF Trials
<1>6. ShardOf(First(s)) = s
  <2>1. First(s) - 1 = q * TrialsPerShard
    BY <1>4
  <2> QED
    BY <2>1, <1>2, <1>3, Multiple DEF ShardOf
<1>7. ASSUME NEW t \in TrialsOf(s), ~(First(s) <= t)
      PROVE  FALSE
  <2>1. t \in Nat \ {0} /\ ShardOf(t) = s
    BY <1>7, Counts DEF TrialsOf
  <2>2. t - 1 \in Nat /\ (t - 1) \div TrialsPerShard = q
    BY <2>1, <1>3, <1>2, Quotient DEF ShardOf
  <2>3. q * TrialsPerShard <= t - 1
    BY <2>2, <1>2, Quotient
  <2> QED
    BY <2>1, <2>3, <1>4, <1>7
<1> QED
  BY <1>5, <1>6, <1>7 DEF TrialsOf

\* A shard has no gap: a trial whose successor is not in it is its last.
LEMMA Convex ==
  ASSUME NEW s \in Shards, NEW a \in TrialsOf(s), a + 1 \notin TrialsOf(s),
         NEW t \in TrialsOf(s)
  PROVE  t <= a
<1> SUFFICES ASSUME t > a
             PROVE  FALSE
  BY Counts DEF TrialsOf
<1>1. /\ a \in Nat \ {0} /\ t \in Nat \ {0}
      /\ a - 1 \in Nat /\ t - 1 \in Nat /\ a + 1 - 1 \in Nat
      /\ ShardOf(a) = s /\ ShardOf(t) = s
      /\ TrialsPerShard \in Nat \ {0}
  BY Counts DEF TrialsOf
<1>2. a + 1 \in Trials
  BY <1>1, Counts DEF TrialsOf, Trials
<1>3. /\ (a - 1) \div TrialsPerShard <= (a + 1 - 1) \div TrialsPerShard
      /\ (a + 1 - 1) \div TrialsPerShard <= (t - 1) \div TrialsPerShard
  <2>1. a - 1 <= a + 1 - 1 /\ a + 1 - 1 <= t - 1
    BY <1>1
  <2> QED
    BY <1>1, <2>1, Monotone
<1>4. ShardOf(a + 1) = s
  <2>1. /\ (a - 1) \div TrialsPerShard \in Nat
        /\ (a + 1 - 1) \div TrialsPerShard \in Nat
        /\ (t - 1) \div TrialsPerShard \in Nat
    BY <1>1, Quotient
  <2> QED
    BY <2>1, <1>1, <1>3 DEF ShardOf
<1> QED
  BY <1>2, <1>4 DEF TrialsOf

-----------------------------------------------------------------------------
(* Judgement.                                                                *)

\* A decision "pass" rests on evidence for every trial and on no failure of
\* the policy.
LEMMA DecidePass ==
  ASSUME NEW obs, "pass" \in Decide(obs)
  PROVE  (\A t \in Trials : Scorable(obs[t])) /\ ~HardFail(obs)
BY DEF Decide

-----------------------------------------------------------------------------
(* Steps of a process.                                                       *)

\* The part of the invariant that speaks of the processes and their trials.
WorkInv ==
  Typed /\ Leased /\ ClaimedFirst /\ (\A p \in Runners : InOrder(p))
  /\ SessionsStand /\ SealsStand

\* A complete report and a session that left something outlive every step.
Keeps ==
  /\ \A s \in Shards : seal[s].state = "complete" => seal'[s] = seal[s]
  /\ \A t \in Trials : session[t] # NoTerminal =>
       session'[t] = session[t] /\ executed'[t] = executed[t]

\* A process without a shard satisfies what is said of the others.
LEMMA IdleInOrder ==
  ASSUME NEW p \in Runners, run[p].pc \in {"idle", "claim", "unlock"}
  PROVE  InOrder(p)
BY DEF InOrder

\* A sealed session has left something.
LEMMA SealedIsLeft ==
  ASSUME NEW x \in Sealed
  PROVE  x # NoTerminal /\ x \in Leftovers /\ x.kind = "sealed"
BY DEF Sealed, NoTerminal, Leftovers

\* A trial belongs to one shard.
LEMMA OneShard ==
  ASSUME NEW s, NEW u, NEW t \in TrialsOf(s), t \in TrialsOf(u)
  PROVE  s = u
BY DEF TrialsOf

\* While a process runs a shard, every other one is idle.
LEMMA Alone ==
  ASSUME WorkInv, NEW p \in Runners, Holds(p)
  PROVE  /\ lock = TRUE
         /\ run[p].shard \in Shards
         /\ \A q \in Runners \ {p} : run[q].pc = "idle"
BY DEF WorkInv, Typed, Leased, Holds

\* Taking the lease begins no work.
LEMMA StartWork ==
  ASSUME WorkInv, NEW p \in Runners, NEW s \in Shards, Start(p, s)
  PROVE  WorkInv' /\ Keeps
<1> USE DEF WorkInv
<1>1. \A q \in Runners : run[q].pc = "idle"
  BY DEF Start, Leased, Holds
<1>2. /\ DOMAIN run' = Runners
      /\ \A q \in Runners \ {p} : run'[q] = run[q]
      /\ \/ run'[p] = run[p]
         \/ /\ DOMAIN run'[p] = {"pc", "shard", "at", "failed", "rows"}
            /\ run'[p].pc = "claim"
            /\ run'[p].shard = s
            /\ run'[p].at = 0
  BY ZenonT(60) DEF Start, Starts, Typed, NoRun
<1>3. \A q \in Runners : run'[q].pc \in {"idle", "claim"}
  BY <1>1, <1>2
<1>4. Typed'
  BY <1>1, <1>2 DEF Start, Typed, Holds, reader
<1>5. Leased'
  BY <1>1, <1>2 DEF Start, Leased, Holds
<1>6. ClaimedFirst'
  BY <1>3 DEF Start, ClaimedFirst, Working
<1>7. \A q \in Runners : InOrder(q)'
  BY <1>3 DEF InOrder
<1>8. SessionsStand'
  BY <1>3 DEF Start, SessionsStand, At
<1>9. SealsStand'
  BY <1>3 DEF Start, SealsStand, Working, Stands
<1> QED
  BY <1>4, <1>5, <1>6, <1>7, <1>8, <1>9 DEF Start, Keeps

\* The shape of every later step of a process: it holds the lease, and either
\* goes on with the same shard or stops.
Moves(p) ==
  /\ Holds(p)
  /\ DOMAIN run' = Runners
  /\ DOMAIN run'[p] = {"pc", "shard", "at", "failed", "rows"}
  /\ run'[p].at \in Int
  /\ \A q \in Runners \ {p} : run'[q] = run[q]
  /\ run'[p].pc # "idle" => run'[p].shard = run[p].shard

\* A step of the one process that holds the lease leaves the lease and every
\* other process right.
LEMMA MovesShared ==
  ASSUME WorkInv, NEW p \in Runners, Moves(p),
         lock' \in BOOLEAN, run'[p].pc # "idle" => lock' = lock
  PROVE  /\ Leased'
         /\ \A q \in Runners \ {p} : run'[q].pc = "idle" /\ InOrder(q)'
         /\ \A q \in Runners :
              /\ DOMAIN run'[q] = {"pc", "shard", "at", "failed", "rows"}
              /\ run'[q].at \in Int
              /\ Holds(q)' => run'[q].shard \in Shards
<1>1. \A q \in Runners \ {p} : run[q].pc = "idle" /\ run'[q] = run[q]
  BY Alone DEF Moves
<1>2. lock = TRUE /\ run[p].shard \in Shards
  BY Alone DEF Moves
<1>3. Leased'
  <2> SUFFICES ASSUME NEW a \in Runners, run'[a].pc # "idle"
               PROVE  lock' /\ \A q \in Runners : run'[q].pc # "idle" => a = q
    BY DEF Leased, Holds
  <2>1. a = p
    BY <1>1
  <2>2. lock' = lock
    BY <2>1
  <2> QED
    BY <1>1, <1>2, <2>1, <2>2
<1>4. \A q \in Runners \ {p} : InOrder(q)'
  BY <1>1 DEF InOrder
<1>5. \A q \in Runners :
        /\ DOMAIN run'[q] = {"pc", "shard", "at", "failed", "rows"}
        /\ run'[q].at \in Int
        /\ Holds(q)' => run'[q].shard \in Shards
  BY <1>1, <1>2 DEF Moves, WorkInv, Typed, Holds
<1> QED
  BY <1>1, <1>3, <1>4, <1>5

\* A step that executes nothing and reports nothing.
LEMMA Quiet ==
  ASSUME WorkInv, NEW p \in Runners, Moves(p),
         lock' \in BOOLEAN, run'[p].pc # "idle" => lock' = lock,
         claimed \subseteq claimed',
         UNCHANGED <<session, seal, executed, reader>>,
         run'[p].pc \in Working =>
           /\ run[p].shard \in claimed'
           /\ seal[run[p].shard].state = "absent",
         run'[p].pc = "executing" => session[run'[p].at] = NoTerminal,
         InOrder(p)'
  PROVE  WorkInv' /\ Keeps
<1> USE DEF WorkInv
<1>1. /\ Leased'
      /\ \A q \in Runners \ {p} : run'[q].pc = "idle" /\ InOrder(q)'
      /\ \A q \in Runners :
           /\ DOMAIN run'[q] = {"pc", "shard", "at", "failed", "rows"}
           /\ run'[q].at \in Int
           /\ Holds(q)' => run'[q].shard \in Shards
  BY MovesShared
<1>2. Typed'
  BY <1>1 DEF Typed, Moves, reader
<1>3. ClaimedFirst'
  BY <1>1 DEF ClaimedFirst, Moves, Working
<1>4. \A q \in Runners : InOrder(q)'
  BY <1>1
<1>5. SessionsStand'
  BY <1>1 DEF SessionsStand, At
<1>6. SealsStand'
  <2> SUFFICES ASSUME NEW s \in Shards
               PROVE  /\ seal[s].state # "absent" =>
                            /\ s \in claimed'
                            /\ \A q \in Runners : run'[q].shard = s =>
                                 run'[q].pc \notin Working
                      /\ seal[s].state = "complete" =>
                            \A t \in TrialsOf(s) : Stands(t)'
    BY DEF SealsStand
  <2>1. ASSUME NEW q \in Runners, run'[q].shard = s, run'[q].pc \in Working
        PROVE  seal[s].state = "absent"
    BY <2>1, <1>1 DEF Working, Moves
  <2> QED
    BY <2>1 DEF SealsStand, Stands
<1> QED
  BY <1>1, <1>2, <1>3, <1>4, <1>5, <1>6 DEF Keeps

\* The end of a run touches no trial.
LEMMA UnlockWork ==
  ASSUME WorkInv, NEW p \in Runners, Unlock(p)
  PROVE  WorkInv' /\ Keeps
<1>1. /\ Moves(p)
      /\ run'[p].pc = "idle"
  BY DEF Unlock, Ends, At, NoRun, Moves, Holds, WorkInv, Typed
<1>2. InOrder(p)'
  BY <1>1 DEF InOrder
<1> QED
  BY <1>1, <1>2, Quiet DEF Unlock, Working

\* A claimed shard was nobody's before: none of its trials has been executed.
LEMMA ClaimWork ==
  ASSUME WorkInv, NEW p \in Runners, Claim(p)
  PROVE  WorkInv' /\ Keeps
<1>1. /\ Moves(p)
      /\ \/ run'[p].pc = "unlock"
         \/ run'[p].pc = "plans" /\ run[p].shard \notin claimed
                                 /\ run[p].shard \in claimed'
      /\ claimed \subseteq claimed'
  BY DEF Claim, Goes, At, Moves, Holds, WorkInv, Typed
<1>2. run[p].shard \in Shards /\ lock = TRUE
  BY <1>1, Alone DEF Moves
<1>3. run[p].shard \notin claimed => seal[run[p].shard].state = "absent"
  BY <1>2 DEF WorkInv, SealsStand
<1>4. InOrder(p)'
  <2>1. CASE run'[p].pc = "unlock"
    BY <2>1 DEF InOrder
  <2>2. CASE run'[p].pc = "plans" /\ run[p].shard \notin claimed
    <3>1. run'[p].shard = run[p].shard
      BY <1>1, <2>2 DEF Moves
    <3>2. \A t \in TrialsOf(run[p].shard) : executed[t] = 0
      BY <2>2 DEF WorkInv, Typed, ClaimedFirst, TrialsOf
    <3> QED
      BY <2>2, <3>1, <3>2 DEF InOrder, Claim
  <2> QED
    BY <1>1, <2>1, <2>2
<1> QED
  BY <1>1, <1>2, <1>3, <1>4, Quiet DEF Claim, Working

\* The trials begin with the first one, none of them executed.
LEMMA WritePlansWork ==
  ASSUME WorkInv, NEW p \in Runners, WritePlans(p)
  PROVE  WorkInv' /\ Keeps
<1>1. run[p].pc = "plans" /\ Holds(p) /\ run[p].shard \in Shards /\ lock = TRUE
  BY Alone DEF WritePlans, At, Holds
<1>2. /\ First(run[p].shard) \in TrialsOf(run[p].shard)
      /\ \A t \in TrialsOf(run[p].shard) : First(run[p].shard) <= t
  BY <1>1, FirstIsFirst
<1>3. First(run[p].shard) \in Int
  <2>1. First(run[p].shard) \in Trials
    BY <1>2 DEF TrialsOf
  <2>2. First(run[p].shard) \in Nat
    BY <2>1, Counts
  <2> QED
    BY <2>2
<1>4. /\ Moves(p)
      /\ \/ run'[p].pc = "unlock"
         \/ run'[p].pc = "trial" /\ run'[p].at = First(run[p].shard)
  BY <1>1, <1>3 DEF WritePlans, Goes, Moves, WorkInv, Typed
<1>5. run[p].shard \in claimed /\ seal[run[p].shard].state = "absent"
  BY <1>1 DEF WorkInv, ClaimedFirst, SealsStand, Working
<1>6. InOrder(p)'
  <2>1. CASE run'[p].pc = "unlock"
    BY <2>1 DEF InOrder
  <2>2. CASE run'[p].pc = "trial" /\ run'[p].at = First(run[p].shard)
    <3>1. run'[p].shard = run[p].shard
      BY <1>4, <2>2 DEF Moves
    <3>2. \A t \in TrialsOf(run[p].shard) : executed'[t] = 0
      BY <1>1 DEF WorkInv, InOrder, WritePlans
    <3>3. \A t \in TrialsOf(run[p].shard) : ~(t < First(run[p].shard))
      BY <1>2, <1>3, Counts DEF TrialsOf
    <3> QED
      BY <1>2, <2>2, <3>1, <3>2, <3>3 DEF InOrder
  <2> QED
    BY <1>4, <2>1, <2>2
<1> QED
  BY <1>1, <1>4, <1>5, <1>6, Quiet DEF WritePlans, Working

\* After an inspection the process is at the next trial, or past the last.
LEMMA InspectTrialWork ==
  ASSUME WorkInv, NEW p \in Runners, InspectTrial(p)
  PROVE  WorkInv' /\ Keeps
<1> DEFINE s == run[p].shard
           a == run[p].at
<1>1. run[p].pc = "inspect" /\ Holds(p) /\ s \in Shards /\ lock = TRUE /\ a \in Int
  BY Alone DEF InspectTrial, At, Holds, WorkInv, Typed
<1>2. /\ Moves(p)
      /\ \/ run'[p].pc = "report" /\ run'[p].failed
         \/ run'[p].pc = "trial" /\ run'[p].at = a + 1
  BY <1>1 DEF InspectTrial, Moves, WorkInv, Typed
<1>3. s \in claimed /\ seal[s].state = "absent"
  BY <1>1 DEF WorkInv, ClaimedFirst, SealsStand, Working
<1>4. InOrder(p)'
  <2>1. CASE run'[p].pc = "report" /\ run'[p].failed
    BY <2>1 DEF InOrder
  <2>2. CASE run'[p].pc = "trial" /\ run'[p].at = a + 1
    <3>1. run'[p].shard = s
      BY <1>2, <2>2 DEF Moves
    <3>2. /\ a \in TrialsOf(s) /\ Stands(a)
          /\ \A t \in TrialsOf(s) : (t < a => Stands(t)) /\ (t > a => executed[t] = 0)
      BY <1>1 DEF WorkInv, InOrder, Stands
    <3>3. \A t \in TrialsOf(s) : t \in Int /\ Stands(t)' = Stands(t)
      BY Counts DEF TrialsOf, Stands, InspectTrial
    <3>4. \A t \in TrialsOf(s) : (t < a + 1 => Stands(t)) /\ (t > a + 1 => executed[t] = 0)
      BY <1>1, <3>2, <3>3
    <3>5. IF a + 1 \in TrialsOf(s) THEN executed[a + 1] = 0
          ELSE \A t \in TrialsOf(s) : t < a + 1
      <4>1. CASE a + 1 \in TrialsOf(s)
        BY <1>1, <3>2, <4>1
      <4>2. CASE a + 1 \notin TrialsOf(s)
        BY <1>1, <3>2, <3>3, <4>2, Convex
      <4> QED
        BY <4>1, <4>2
    <3> HIDE DEF s, a
    <3> QED
      BY <2>2, <3>1, <3>3, <3>4, <3>5 DEF InOrder, InspectTrial
  <2> QED
    BY <1>2, <2>1, <2>2
<1> QED
  BY <1>1, <1>2, <1>3, <1>4, Quiet DEF InspectTrial, Working

\* The trial a process is executing belongs to its own shard, has been begun
\* once, and has left nothing yet.
LEMMA Executing ==
  ASSUME WorkInv, NEW p \in Runners, run[p].pc = "executing"
  PROVE  /\ Holds(p)
         /\ run[p].shard \in Shards
         /\ run[p].at \in TrialsOf(run[p].shard)
         /\ run[p].at \in Trials
         /\ executed[run[p].at] = 1
         /\ session[run[p].at] = NoTerminal
         /\ run[p].shard \in claimed
         /\ seal[run[p].shard].state = "absent"
         /\ \A s \in Shards : seal[s].state = "complete" =>
              run[p].at \notin TrialsOf(s)
<1>1. Holds(p) /\ run[p].shard \in Shards
  BY Alone DEF Holds
<1>2. run[p].at \in TrialsOf(run[p].shard) /\ executed[run[p].at] = 1
  BY DEF WorkInv, InOrder
<1>3. run[p].at \in Trials
  BY <1>2 DEF TrialsOf
<1>4. session[run[p].at] = NoTerminal
  BY <1>3 DEF WorkInv, SessionsStand, At
<1>5. run[p].shard \in claimed /\ seal[run[p].shard].state = "absent"
  BY <1>1 DEF WorkInv, ClaimedFirst, SealsStand, Working
<1>6. \A s \in Shards : seal[s].state = "complete" => run[p].at \notin TrialsOf(s)
  BY <1>2, <1>5, OneShard
<1> QED
  BY <1>1, <1>2, <1>3, <1>4, <1>5, <1>6

\* The end of the session a process is executing, whatever becomes of the
\* process.
LEMMA SessionEnds ==
  ASSUME WorkInv, NEW p \in Runners, run[p].pc = "executing", Moves(p),
         NEW left \in Leftovers,
         session' = [session EXCEPT ![run[p].at] = left],
         UNCHANGED <<lock, claimed, seal, executed, reader>>,
         run'[p].pc \in {"idle", "inspect", "report"},
         InOrder(p)'
  PROVE  WorkInv' /\ Keeps
<1> USE DEF WorkInv
<1>1. /\ Leased'
      /\ \A q \in Runners \ {p} : run'[q].pc = "idle" /\ InOrder(q)'
      /\ \A q \in Runners :
           /\ DOMAIN run'[q] = {"pc", "shard", "at", "failed", "rows"}
           /\ run'[q].at \in Int
           /\ Holds(q)' => run'[q].shard \in Shards
  BY MovesShared DEF Typed
<1>2. /\ Holds(p)
      /\ run[p].shard \in Shards
      /\ run[p].at \in Trials
      /\ executed[run[p].at] = 1
      /\ session[run[p].at] = NoTerminal
      /\ run[p].shard \in claimed
      /\ seal[run[p].shard].state = "absent"
      /\ \A s \in Shards : seal[s].state = "complete" =>
           run[p].at \notin TrialsOf(s)
  BY Executing
<1>3. /\ session'[run[p].at] = left
      /\ \A t \in Trials \ {run[p].at} : session'[t] = session[t]
  BY <1>2 DEF Typed
<1>4. Typed'
  BY <1>1 DEF Typed, Moves, reader
<1>5. ClaimedFirst'
  BY <1>1, <1>2 DEF ClaimedFirst, Moves, Working
<1>6. \A q \in Runners : InOrder(q)'
  BY <1>1
<1>7. SessionsStand'
  BY <1>1, <1>2, <1>3 DEF SessionsStand, At
<1>8. SealsStand'
  <2> SUFFICES ASSUME NEW s \in Shards
               PROVE  /\ seal[s].state # "absent" =>
                            /\ s \in claimed
                            /\ \A q \in Runners : run'[q].shard = s =>
                                 run'[q].pc \notin Working
                      /\ seal[s].state = "complete" =>
                            \A t \in TrialsOf(s) : Stands(t)'
    BY DEF SealsStand
  <2>1. ASSUME NEW q \in Runners, run'[q].shard = s, run'[q].pc \in Working
        PROVE  seal[s].state = "absent"
    BY <2>1, <1>1, <1>2 DEF Working, Moves
  <2>2. ASSUME seal[s].state = "complete", NEW t \in TrialsOf(s)
        PROVE  Stands(t)'
    BY <2>2, <1>2, <1>3 DEF SealsStand, Stands, TrialsOf
  <2> QED
    BY <2>1, <2>2 DEF SealsStand
<1>9. Keeps
  BY <1>2, <1>3 DEF Keeps
<1> QED
  BY <1>1, <1>4, <1>5, <1>6, <1>7, <1>8, <1>9

\* A session that is sealed stands; one that is not ends the loop.
LEMMA ExecuteWork ==
  ASSUME WorkInv, NEW p \in Runners, Execute(p)
  PROVE  WorkInv' /\ Keeps
<1>1. run[p].pc = "executing"
  BY DEF Execute, At
<1>2. /\ Holds(p)
      /\ run[p].at \in TrialsOf(run[p].shard)
      /\ run[p].at \in Trials
      /\ executed[run[p].at] = 1
  BY <1>1, Executing
<1>3. PICK left \in Leftovers :
        /\ session' = [session EXCEPT ![run[p].at] = left]
        /\ \/ left \in Sealed /\ Goes(p, "inspect")
           \/ run' = [run EXCEPT ![p].pc = "report", ![p].failed = TRUE]
  BY DEF Execute
<1>4. /\ Moves(p)
      /\ run'[p].at = run[p].at /\ run'[p].shard = run[p].shard
      /\ \/ run'[p].pc = "inspect" /\ left \in Sealed
         \/ run'[p].pc = "report" /\ run'[p].failed
  BY <1>2, <1>3 DEF Goes, Moves, WorkInv, Typed
<1>5. InOrder(p)'
  <2>1. CASE run'[p].pc = "report" /\ run'[p].failed
    BY <2>1 DEF InOrder
  <2>2. CASE run'[p].pc = "inspect" /\ left \in Sealed
    <3>1. \A t \in TrialsOf(run[p].shard) :
            (t < run[p].at => Stands(t)) /\ (t > run[p].at => executed[t] = 0)
      BY <1>1 DEF WorkInv, InOrder
    <3>2. session'[run[p].at] = left
      BY <1>2, <1>3 DEF WorkInv, Typed
    <3>3. \A t \in TrialsOf(run[p].shard) : t < run[p].at => Stands(t)'
      <4> SUFFICES ASSUME NEW t \in TrialsOf(run[p].shard), t < run[p].at
                   PROVE  Stands(t)'
        OBVIOUS
      <4>1. t # run[p].at /\ t \in Trials
        BY <1>2, Counts DEF TrialsOf
      <4> QED
        BY <4>1, <3>1, <1>2, <1>3 DEF Stands, Execute, WorkInv, Typed
    <3> QED
      BY <2>2, <1>2, <1>4, <3>1, <3>2, <3>3 DEF InOrder, Execute
  <2> QED
    BY <1>4, <2>1, <2>2
<1> QED
  BY <1>1, <1>3, <1>4, <1>5, SessionEnds DEF Execute

\* Beginning a trial counts its execution; the end of the loop does not.
LEMMA NextTrialWork ==
  ASSUME WorkInv, NEW p \in Runners, NextTrial(p)
  PROVE  WorkInv' /\ Keeps
<1> DEFINE s == run[p].shard
           a == run[p].at
<1>1. run[p].pc = "trial" /\ Holds(p) /\ s \in Shards /\ lock = TRUE /\ a \in Int
  BY Alone DEF NextTrial, At, Holds, WorkInv, Typed
<1>2. s \in claimed /\ seal[s].state = "absent"
  BY <1>1 DEF WorkInv, ClaimedFirst, SealsStand, Working
<1>3. \A t \in TrialsOf(s) :
        t \in Int /\ (t < a => Stands(t)) /\ (t > a => executed[t] = 0)
  <2>1. \A t \in TrialsOf(s) : t \in Nat
    BY Counts DEF TrialsOf
  <2>2. \A t \in TrialsOf(s) : (t < a => Stands(t)) /\ (t > a => executed[t] = 0)
    BY <1>1 DEF WorkInv, InOrder
  <2> QED
    BY <2>1, <2>2
<1>4. CASE /\ run' = [run EXCEPT ![p].pc = "report", ![p].failed = a \in TrialsOf(s)]
           /\ UNCHANGED executed
  <2>1. /\ Moves(p)
        /\ run'[p].pc = "report" /\ run'[p].shard = s
        /\ run'[p].failed = (a \in TrialsOf(s))
    BY <1>1, <1>4 DEF Moves, WorkInv, Typed
  <2>2. a \notin TrialsOf(s) => \A t \in TrialsOf(s) : Stands(t)
    BY <1>1, <1>3 DEF WorkInv, InOrder
  <2>3. InOrder(p)'
    <3> HIDE DEF s, a
    <3> QED
      BY <2>1, <2>2, <1>4 DEF InOrder, NextTrial, Stands
  <2> QED
    BY <1>1, <1>2, <1>4, <2>1, <2>3, Quiet DEF NextTrial, Working
<1>5. CASE /\ a \in TrialsOf(s)
           /\ Goes(p, "executing")
           /\ executed' = [executed EXCEPT ![a] = @ + 1]
  <2>1. /\ Moves(p)
        /\ run'[p].pc = "executing" /\ run'[p].shard = s /\ run'[p].at = a
    BY <1>1, <1>5 DEF Goes, Moves, WorkInv, Typed
  <2>2. /\ Leased'
        /\ \A q \in Runners \ {p} : run'[q].pc = "idle" /\ InOrder(q)'
        /\ \A q \in Runners :
             /\ DOMAIN run'[q] = {"pc", "shard", "at", "failed", "rows"}
             /\ run'[q].at \in Int
             /\ Holds(q)' => run'[q].shard \in Shards
    BY <1>1, <2>1, MovesShared DEF NextTrial
  <2>3. a \in Trials /\ ShardOf(a) = s
    BY <1>5 DEF TrialsOf
  <2>4. executed[a] = 0
    BY <1>1, <1>5 DEF WorkInv, InOrder
  <2>5. /\ executed' \in [Trials -> Nat]
        /\ executed'[a] = 1
        /\ \A t \in Trials \ {a} : executed'[t] = executed[t]
    BY <1>5, <2>3, <2>4 DEF WorkInv, Typed
  <2>6. session[a] = NoTerminal
    BY <2>3, <2>4 DEF WorkInv, SessionsStand
  <2> HIDE DEF s, a
  <2>7. Typed'
    BY <2>1, <2>2, <2>5 DEF WorkInv, Typed, Moves, NextTrial, reader
  <2>8. ClaimedFirst'
    BY <1>2, <2>1, <2>2, <2>3, <2>5 DEF WorkInv, ClaimedFirst, NextTrial, Working
  <2>9. \A t \in TrialsOf(s) :
          /\ t < a => Stands(t)'
          /\ t > a => executed'[t] = 0
    <3> SUFFICES ASSUME NEW t \in TrialsOf(s), t # a
                 PROVE  (t < a => Stands(t)') /\ (t > a => executed'[t] = 0)
      BY <1>1, <1>3 DEF a
    <3> QED
      BY <1>3, <2>5 DEF Stands, NextTrial, TrialsOf
  <2>10. InOrder(p)'
    BY <1>5, <2>1, <2>5, <2>9 DEF InOrder
  <2>11. \A q \in Runners : InOrder(q)'
    BY <2>2, <2>10
  <2>12. SessionsStand'
    BY <2>1, <2>2, <2>5, <2>6 DEF WorkInv, SessionsStand, NextTrial, At
  <2>13. SealsStand'
    <3> SUFFICES ASSUME NEW u \in Shards
                 PROVE  /\ seal[u].state # "absent" =>
                              /\ u \in claimed
                              /\ \A q \in Runners : run'[q].shard = u =>
                                   run'[q].pc \notin Working
                        /\ seal[u].state = "complete" =>
                              \A t \in TrialsOf(u) : Stands(t)'
      BY DEF SealsStand, NextTrial
    <3>1. ASSUME NEW q \in Runners, run'[q].shard = u, run'[q].pc \in Working
          PROVE  seal[u].state = "absent"
      BY <3>1, <1>2, <2>1, <2>2 DEF Working
    <3>2. ASSUME seal[u].state = "complete", NEW t \in TrialsOf(u)
          PROVE  Stands(t)'
      <4>1. t # a /\ t \in Trials
        BY <3>2, <1>2, <2>3 DEF TrialsOf
      <4> QED
        BY <3>2, <4>1, <2>5 DEF WorkInv, SealsStand, Stands, NextTrial
    <3> QED
      BY <3>1, <3>2 DEF WorkInv, SealsStand
  <2>14. Keeps
    BY <2>5, <2>6 DEF Keeps, NextTrial
  <2> QED
    BY <2>2, <2>7, <2>8, <2>11, <2>12, <2>13, <2>14 DEF WorkInv
<1> QED
  BY <1>4, <1>5 DEF NextTrial

\* A report, whole or not, of a shard nobody works on any more: it is made
\* torn, and written over by the process that made it.
LEMMA ReportEnds ==
  ASSUME WorkInv, NEW p \in Runners, Moves(p), NEW left,
         \/ run[p].pc = "report" /\ run'[p].pc = "writing" /\ left.state = "torn"
         \/ /\ run[p].pc = "writing" /\ run'[p].pc = "unlock"
            /\ left.state # "absent"
            /\ left.state = "complete" => ~run[p].failed,
         run'[p].failed = run[p].failed,
         seal' = [seal EXCEPT ![run[p].shard] = left],
         UNCHANGED <<lock, claimed, session, executed, reader>>
  PROVE  WorkInv' /\ Keeps
<1> USE DEF WorkInv
<1>1. /\ Leased'
      /\ \A q \in Runners \ {p} : run'[q].pc = "idle" /\ InOrder(q)'
      /\ \A q \in Runners :
           /\ DOMAIN run'[q] = {"pc", "shard", "at", "failed", "rows"}
           /\ run'[q].at \in Int
           /\ Holds(q)' => run'[q].shard \in Shards
  BY MovesShared DEF Typed
<1>2. run[p].shard \in Shards /\ Holds(p) /\ run'[p].shard = run[p].shard
  BY Alone DEF Holds, Moves
<1>3. run[p].shard \in claimed /\ seal[run[p].shard].state \in {"absent", "torn"}
  BY <1>2 DEF ClaimedFirst, SealsStand, InOrder, Working
<1>4. /\ DOMAIN seal' = Shards
      /\ seal'[run[p].shard] = left
      /\ \A s \in Shards \ {run[p].shard} : seal'[s] = seal[s]
  BY <1>2 DEF Typed
<1>5. run[p].failed \/ \A t \in TrialsOf(run[p].shard) : Stands(t)
  BY DEF InOrder
<1>6. \A q \in Runners : run'[q].pc \in {"idle", "writing", "unlock"}
  BY <1>1
<1>7. Typed'
  BY <1>1, <1>4 DEF Typed, Moves, reader
<1>8. ClaimedFirst'
  BY <1>6 DEF ClaimedFirst, Working
<1>9. InOrder(p)'
  BY <1>2, <1>4, <1>5 DEF InOrder, Stands
<1>10. SessionsStand'
  BY <1>6 DEF SessionsStand, At
<1>11. SealsStand'
  BY <1>3, <1>4, <1>5, <1>6 DEF SealsStand, Working, Stands
<1>12. Keeps
  BY <1>3, <1>4 DEF Keeps
<1> QED
  BY <1>1, <1>7, <1>8, <1>9, <1>10, <1>11, <1>12

\* A report is made for a shard that has none, torn, or not at all.
LEMMA ReportWork ==
  ASSUME WorkInv, NEW p \in Runners, Report(p)
  PROVE  WorkInv' /\ Keeps
<1>1. CASE seal' = [seal EXCEPT ![run[p].shard] = Torn] /\ Goes(p, "writing")
  <2>1. /\ run[p].pc = "report" /\ Moves(p)
        /\ run'[p].pc = "writing" /\ run'[p].failed = run[p].failed
    BY <1>1 DEF Report, At, Goes, Moves, Holds, WorkInv, Typed
  <2>2. Torn.state = "torn"
    BY DEF Torn
  <2> QED
    BY <1>1, <2>1, <2>2, ReportEnds DEF Report
<1>2. CASE Goes(p, "unlock") /\ UNCHANGED seal
  <2>1. run[p].pc = "report" /\ Moves(p) /\ run'[p].pc = "unlock"
    BY <1>2 DEF Report, At, Goes, Moves, Holds, WorkInv, Typed
  <2>2. InOrder(p)'
    BY <2>1 DEF InOrder
  <2> QED
    BY <1>2, <2>1, <2>2, Quiet DEF Report, WorkInv, Typed, Working
<1> QED
  BY <1>1, <1>2 DEF Report

\* A report that is written is complete only when all its trials stand.
LEMMA WriteReportWork ==
  ASSUME WorkInv, NEW p \in Runners, WriteReport(p)
  PROVE  WorkInv' /\ Keeps
<1>1. /\ run[p].pc = "writing" /\ Moves(p)
      /\ run'[p].pc = "unlock" /\ run'[p].failed = run[p].failed
  BY DEF WriteReport, At, Goes, Moves, Holds, WorkInv, Typed
<1>2. PICK left \in {Torn,
                    [state |-> IF run[p].failed THEN "interrupted" ELSE "complete",
                     rows |-> run[p].rows]} :
        seal' = [seal EXCEPT ![run[p].shard] = left]
  BY DEF WriteReport
<1>3. left.state # "absent" /\ (left.state = "complete" => ~run[p].failed)
  BY DEF Torn
<1> QED
  BY <1>1, <1>2, <1>3, ReportEnds DEF WriteReport

\* A process that dies rewrites nothing that stands.
LEMMA DieWork ==
  ASSUME WorkInv, NEW p \in Runners, Die(p)
  PROVE  WorkInv' /\ Keeps
<1>1. Moves(p) /\ run'[p].pc = "idle" /\ InOrder(p)'
  BY DEF Die, At, Ends, NoRun, Moves, Holds, WorkInv, Typed, InOrder
<1>2. CASE UNCHANGED session
  BY <1>1, <1>2, Quiet DEF Die, WorkInv, Typed, Working
<1>3. CASE /\ At(p, "executing")
           /\ \E left \in Leftovers : session' = [session EXCEPT ![run[p].at] = left]
  BY <1>1, <1>3, SessionEnds DEF Die, At
<1> QED
  BY <1>2, <1>3 DEF Die

\* Every step of a process keeps the invariant of the work and everything an
\* assessment rests on, and no step of it touches an assessment.
LEMMA RunnerWork ==
  ASSUME WorkInv, NEW p \in Runners, RunnerNext(p)
  PROVE  WorkInv' /\ Keeps /\ UNCHANGED reader
<1>1. CASE \E s \in Shards : Start(p, s)
  BY <1>1, StartWork DEF Start
<1>2. CASE Claim(p)
  BY <1>2, ClaimWork DEF Claim
<1>3. CASE WritePlans(p)
  BY <1>3, WritePlansWork DEF WritePlans
<1>4. CASE NextTrial(p)
  BY <1>4, NextTrialWork DEF NextTrial
<1>5. CASE Execute(p)
  BY <1>5, ExecuteWork DEF Execute
<1>6. CASE InspectTrial(p)
  BY <1>6, InspectTrialWork DEF InspectTrial
<1>7. CASE Report(p)
  BY <1>7, ReportWork DEF Report
<1>8. CASE Unlock(p)
  BY <1>8, UnlockWork DEF Unlock
<1>9. CASE Die(p)
  BY <1>9, DieWork DEF Die
<1>10. CASE WriteReport(p)
  BY <1>10, WriteReportWork DEF WriteReport
<1> QED
  BY <1>1, <1>2, <1>3, <1>4, <1>5, <1>6, <1>7, <1>8, <1>9, <1>10 DEF RunnerNext

-----------------------------------------------------------------------------
(* Steps of an assessment.                                                   *)

\* Whatever keeps the evidence keeps what was read of it and a pass.
LEMMA ReadingKept ==
  ASSUME WorkInv, ReadStands, PassIsWhole, Keeps, UNCHANGED reader
  PROVE  ReadStands' /\ PassIsWhole'
<1>1. \A t \in Trials : session[t] \in Sealed =>
        session'[t] = session[t] /\ executed'[t] = executed[t]
  BY SealedIsLeft DEF Keeps
<1>2. assess' = assess /\ verdict' = verdict
  BY DEF reader
<1>3. ReadStands'
  BY <1>1, <1>2 DEF ReadStands, Keeps
<1>4. PassIsWhole'
  BY <1>1, <1>2 DEF PassIsWhole, Keeps
<1> QED
  BY <1>3, <1>4

\* An assessment touches nothing of the work.
LEMMA AssessIdle ==
  ASSUME WorkInv, UNCHANGED experiment,
         DOMAIN assess' = {"pc", "at", "cut", "recorded", "seen"},
         assess'.at \in Int,
         DOMAIN verdict' = {"decision", "shards"},
         DOMAIN verdict'.shards = Shards
  PROVE  WorkInv'
<1>1. Typed'
  BY DEF experiment, WorkInv, Typed, Holds
<1>2. Leased' /\ ClaimedFirst' /\ (\A p \in Runners : InOrder(p)')
  BY DEF experiment, WorkInv, Leased, ClaimedFirst, InOrder, Holds, Stands
<1>3. SessionsStand' /\ SealsStand'
  BY DEF experiment, WorkInv, SessionsStand, SealsStand, At, Stands
<1> QED
  BY <1>1, <1>2, <1>3 DEF WorkInv

\* An assessment that begins has read nothing.
LEMMA BeginRead ==
  ASSUME WorkInv, ReadStands, PassIsWhole, Begin
  PROVE  WorkInv' /\ ReadStands' /\ PassIsWhole'
<1>1. /\ DOMAIN assess' = {"pc", "at", "cut", "recorded", "seen"}
      /\ assess'.pc = "seals" /\ assess'.at = 1 /\ assess'.seen = assess.seen
      /\ UNCHANGED <<experiment, verdict>>
  BY DEF Begin, WorkInv, Typed
<1>2. WorkInv'
  BY <1>1, AssessIdle DEF WorkInv, Typed
<1> QED
  BY <1>1, <1>2 DEF ReadStands, PassIsWhole, experiment

\* A shard is called complete only for a complete report.
LEMMA ReadSealRead ==
  ASSUME WorkInv, ReadStands, PassIsWhole, ReadSeal
  PROVE  WorkInv' /\ ReadStands' /\ PassIsWhole'
<1>1. /\ DOMAIN assess' = {"pc", "at", "cut", "recorded", "seen"}
      /\ assess'.pc = "trials" => assess'.at = 1
      /\ assess'.at \in Int
      /\ assess'.seen = assess.seen
      /\ UNCHANGED experiment
  BY DEF ReadSeal, WorkInv, Typed
<1>2. /\ DOMAIN verdict' = {"decision", "shards"}
      /\ DOMAIN verdict'.shards = Shards
      /\ verdict'.decision = verdict.decision
      /\ \A s \in Shards : \/ verdict'.shards[s] = verdict.shards[s]
                           \/ verdict'.shards[s] = "missing"
                           \/ verdict'.shards[s] = "invalid"
                           \/ verdict'.shards[s] = seal[s].state
  BY DEF ReadSeal, WorkInv, Typed
<1>3. WorkInv'
  BY <1>1, <1>2, AssessIdle
<1>4. ReadStands'
  BY <1>1, <1>2, Counts DEF ReadStands, experiment
<1>5. PassIsWhole'
  BY <1>1, <1>2 DEF PassIsWhole, experiment
<1> QED
  BY <1>3, <1>4, <1>5

\* A verified observation is that of a sealed session, with its grade.
LEMMA InspectAgainRead ==
  ASSUME WorkInv, ReadStands, PassIsWhole, InspectAgain
  PROVE  WorkInv' /\ ReadStands' /\ PassIsWhole'
<1> DEFINE t == assess.at
<1>1. PICK cut \in BOOLEAN :
        LET o == IF cut THEN Abandoned(t) ELSE Inspected(t)
        IN /\ assess' = [assess EXCEPT !.at = t + 1, !.cut = cut,
                           !.seen = [u \in DOMAIN @ \cup {t} |->
                                       IF u = t THEN o ELSE @[u]]]
           /\ verdict' = IF t \in DOMAIN assess.recorded /\ assess.recorded[t] # o
                         THEN [verdict EXCEPT !.shards[ShardOf(t)] = "invalid"]
                         ELSE verdict
  BY DEF InspectAgain
<1> DEFINE o == IF cut THEN Abandoned(t) ELSE Inspected(t)
<1>2. t \in Trials /\ t \in Nat \ {0} /\ assess.pc = "trials" /\ UNCHANGED experiment
  BY Counts DEF InspectAgain
<1>3. o.verified => session[t] \in Sealed /\ o.grade = session[t].grade
  <2>1. session[t] \in Leftovers
    BY <1>2 DEF WorkInv, Typed
  <2>2. session[t].kind = "sealed" => session[t] \in Sealed
    BY <2>1 DEF Leftovers, NoTerminal, Interrupted
  <2>3. Inspected(t).verified => session[t].kind = "sealed"
                                   /\ Inspected(t).grade = session[t].grade
    BY DEF Inspected, Missing, Seen
  <2>4. ~Abandoned(t).verified
    <3>1. DOMAIN Inspected(t) = {"state", "verified", "cleanup", "grade"}
      BY DEF Inspected, Missing, Seen
    <3> QED
      BY <3>1 DEF Abandoned, Missing, Seen
  <2> QED
    BY <2>2, <2>3, <2>4
<1> HIDE DEF o
<1>4. /\ DOMAIN assess' = {"pc", "at", "cut", "recorded", "seen"}
      /\ assess'.pc = "trials" /\ assess'.at = t + 1
      /\ DOMAIN assess'.seen = DOMAIN assess.seen \cup {t}
      /\ assess'.seen[t] = o
      /\ \A u \in DOMAIN assess.seen \ {t} : assess'.seen[u] = assess.seen[u]
  BY <1>1, <1>2 DEF o, WorkInv, Typed
<1>5. /\ DOMAIN verdict' = {"decision", "shards"}
      /\ DOMAIN verdict'.shards = Shards
      /\ verdict'.decision = verdict.decision
      /\ \A s \in Shards : \/ verdict'.shards[s] = verdict.shards[s]
                           \/ verdict'.shards[s] = "invalid"
  BY <1>1 DEF WorkInv, Typed
<1>6. WorkInv'
  BY <1>2, <1>4, <1>5, AssessIdle
<1>7. UNCHANGED <<session, seal, executed>>
  BY <1>2 DEF experiment
<1>8. ReadStands'
  <2>1. \A s \in Shards : verdict'.shards[s] = "complete" => seal'[s].state = "complete"
    BY <1>5, <1>7 DEF ReadStands
  <2>2. \A u \in DOMAIN assess'.seen \cap Trials : assess'.seen[u].verified =>
          session'[u] \in Sealed /\ assess'.seen[u].grade = session'[u].grade
    BY <1>3, <1>4, <1>7 DEF ReadStands
  <2>3. assess'.at >= 1 /\ \A u \in Trials : u < assess'.at => u \in DOMAIN assess'.seen
    <3> SUFFICES ASSUME NEW u \in Trials, u < t + 1, u # t
                 PROVE  u \in DOMAIN assess.seen
      BY <1>2, <1>4
    <3>1. u \in Nat /\ u < t
      BY <1>2, Counts
    <3> QED
      BY <3>1, <1>2 DEF ReadStands
  <2> QED
    BY <2>1, <2>2, <2>3 DEF ReadStands
<1>9. PassIsWhole'
  BY <1>5, <1>7 DEF PassIsWhole
<1> QED
  BY <1>6, <1>8, <1>9

\* An assessment that gives up says nothing.
LEMMA GiveUpRead ==
  ASSUME WorkInv, GiveUp
  PROVE  WorkInv' /\ ReadStands' /\ PassIsWhole'
<1>1. /\ DOMAIN assess' = {"pc", "at", "cut", "recorded", "seen"}
      /\ assess'.pc = "done" /\ assess'.at = 0 /\ DOMAIN assess'.seen = {}
      /\ UNCHANGED experiment
  BY DEF GiveUp, NoAssess, NoRecord
<1>2. /\ DOMAIN verdict' = {"decision", "shards"}
      /\ verdict'.shards = [s \in Shards |-> "missing"]
      /\ verdict'.decision # "pass"
  BY BaselineAssumption DEF GiveUp, NoVerdict
<1>3. WorkInv'
  BY <1>1, <1>2, AssessIdle
<1>4. ReadStands'
  BY <1>1, <1>2 DEF ReadStands
<1>5. PassIsWhole'
  BY <1>2 DEF PassIsWhole
<1> QED
  BY <1>3, <1>4, <1>5

\* What an assessment that judges has seen of every trial is so.
LEMMA JudgeRead ==
  ASSUME WorkInv, ReadStands, PassIsWhole, Judge
  PROVE  WorkInv' /\ ReadStands' /\ PassIsWhole'
<1>1. /\ DOMAIN assess' = {"pc", "at", "cut", "recorded", "seen"}
      /\ assess'.pc = "done" /\ assess'.at = 0 /\ DOMAIN assess'.seen = {}
      /\ UNCHANGED experiment
  BY DEF Judge, NoAssess, NoRecord
<1>2. PICK d \in Decide(assess.seen) :
        verdict' = [verdict EXCEPT !.decision =
             IF \A s \in Shards : verdict.shards[s] = "complete" THEN d ELSE "invalid"]
  BY DEF Judge
<1>3. /\ DOMAIN verdict' = {"decision", "shards"}
      /\ verdict'.shards = verdict.shards
      /\ verdict'.decision =
           IF \A s \in Shards : verdict.shards[s] = "complete" THEN d ELSE "invalid"
  BY <1>2 DEF WorkInv, Typed
<1>4. WorkInv'
  BY <1>1, <1>3, AssessIdle DEF WorkInv, Typed
<1>5. ReadStands'
  BY <1>1, <1>3 DEF ReadStands, experiment
<1>6. UNCHANGED <<session, seal, executed>>
  BY <1>1 DEF experiment
<1>7. PassIsWhole'
  <2> SUFFICES ASSUME verdict'.decision = "pass"
               PROVE  PassIsWhole'
    BY DEF PassIsWhole
  <2>1. "pass" \in Decide(assess.seen) /\ \A s \in Shards : seal[s].state = "complete"
    BY <1>2, <1>3 DEF ReadStands
  <2>2. (\A t \in Trials : Scorable(assess.seen[t])) /\ ~HardFail(assess.seen)
    BY <2>1, DecidePass
  <2>3. assess.pc = "trials" /\ assess.at \notin Trials /\ assess.at \in Int
    BY DEF Judge, WorkInv, Typed
  <2>4. \A t \in Trials : t \in DOMAIN assess.seen
    <3>1. assess.at >= 1
      BY <2>3 DEF ReadStands
    <3>2. assess.at > Total
      BY <2>3, <3>1, Counts DEF Trials
    <3>3. \A t \in Trials : t < assess.at
      BY <2>3, <3>2, Counts DEF Trials
    <3> QED
      BY <2>3, <3>3 DEF ReadStands
  <2>5. \A t \in Trials : session[t] \in Sealed /\ assess.seen[t].grade = session[t].grade
    BY <2>2, <2>4 DEF Scorable, ReadStands
  <2>6. \A t \in Trials : session[t].grade \in Grades
    BY <2>5 DEF Sealed
  <2>7. \A t \in Trials : /\ session[t].grade.policy \in Nat
                          /\ session[t].grade.effects \in Nat
    BY <2>6, BaselineAssumption
  <2>8. \A t \in Trials : executed[t] = 1
    <3>1. \A t \in Trials : ShardOf(t) \in Shards /\ t \in TrialsOf(ShardOf(t))
      BY DEF Shards, TrialsOf
    <3> QED
      BY <2>1, <3>1 DEF WorkInv, SealsStand, Stands
  <2>9. ASSUME NEW t \in Trials, Candidate(t)
        PROVE  /\ session[t].grade.effects = 0
               /\ Entry[EntryOf(t)].required => session[t].grade.success
               /\ \A b \in Trials : PairOf(b) = PairOf(t) /\ ~Candidate(b) =>
                    session[t].grade.policy <= session[b].grade.policy
    <3>1. session[t].grade.effects = 0
      BY <2>2, <2>5, <2>7, <2>9 DEF HardFail
    <3>2. Entry[EntryOf(t)].required => session[t].grade.success
      BY <2>2, <2>5, <2>9 DEF HardFail, Succeeds
    <3>3. ASSUME NEW b \in Trials, PairOf(b) = PairOf(t), ~Candidate(b)
          PROVE  session[t].grade.policy <= session[b].grade.policy
      <4>1. ~(assess.seen[t].grade.policy > assess.seen[b].grade.policy)
        BY <2>2, <2>9, <3>3 DEF HardFail
      <4> QED
        BY <4>1, <2>5, <2>7
    <3> QED
      BY <3>1, <3>2, <3>3
  <2> QED
    BY <2>1, <2>5, <2>8, <2>9, <1>6 DEF PassIsWhole
<1> QED
  BY <1>4, <1>5, <1>7

-----------------------------------------------------------------------------
(* The theorems.                                                             *)

\* The initial states satisfy the invariant.
LEMMA BaselineInit == Init => BaselineInv
<1> SUFFICES ASSUME Init
             PROVE  BaselineInv
  OBVIOUS
<1>1. \A p \in Runners : run[p].pc = "idle"
  BY DEF Init, NoRun
<1>2. Typed
  <2>1. \A p \in Runners : /\ DOMAIN run[p] = {"pc", "shard", "at", "failed", "rows"}
                           /\ run[p].at \in Int
                           /\ ~Holds(p)
    BY DEF Init, NoRun, Holds
  <2>2. lock \in BOOLEAN /\ DOMAIN run = Runners /\ DOMAIN seal = Shards
    BY DEF Init
  <2>3. executed \in [Trials -> Nat] /\ session \in [Trials -> Leftovers]
    BY DEF Init, Leftovers
  <2>4. DOMAIN assess = {"pc", "at", "cut", "recorded", "seen"} /\ assess.at \in Int
    BY DEF Init, NoAssess
  <2>5. DOMAIN verdict = {"decision", "shards"} /\ DOMAIN verdict.shards = Shards
    BY DEF Init, NoVerdict
  <2> QED
    BY <2>1, <2>2, <2>3, <2>4, <2>5 DEF Typed
<1>3. Leased /\ ClaimedFirst /\ \A p \in Runners : InOrder(p)
  BY <1>1 DEF Init, Leased, ClaimedFirst, InOrder, Holds, Working
<1>4. SessionsStand /\ SealsStand
  BY <1>1 DEF Init, SessionsStand, SealsStand, NoSeal
<1>5. ReadStands
  BY DEF Init, ReadStands, NoVerdict, NoAssess, NoRecord
<1>6. PassIsWhole
  BY BaselineAssumption DEF Init, PassIsWhole, NoVerdict
<1> QED
  BY <1>2, <1>3, <1>4, <1>5, <1>6 DEF BaselineInv

\* Every step of the processes and of the assessment keeps the invariant.
LEMMA BaselineStep == BaselineInv /\ [Next]_vars => BaselineInv'
<1> SUFFICES ASSUME WorkInv, ReadStands, PassIsWhole, [Next]_vars
             PROVE  WorkInv' /\ ReadStands' /\ PassIsWhole'
  BY DEF BaselineInv, WorkInv
<1>1. CASE FreezeInputs \/ FreezePlan \/ UNCHANGED vars
  <2>1. UNCHANGED <<lock, claimed, planned, session, seal, run, executed, reader>>
    BY <1>1 DEF FreezeInputs, FreezePlan, vars, reader
  <2>2. Typed' /\ Leased' /\ ClaimedFirst' /\ (\A p \in Runners : InOrder(p)')
    BY <2>1 DEF reader, WorkInv, Typed, Leased, ClaimedFirst, InOrder, Holds, Stands
  <2>3. SessionsStand' /\ SealsStand'
    BY <2>1 DEF WorkInv, SessionsStand, SealsStand, At, Stands
  <2>4. ReadStands' /\ PassIsWhole'
    BY <2>1 DEF ReadStands, PassIsWhole, reader
  <2> QED
    BY <2>2, <2>3, <2>4 DEF WorkInv
<1>2. CASE \E p \in Runners : RunnerNext(p)
  BY <1>2, RunnerWork, ReadingKept
<1>3. CASE AssessNext
  BY <1>3, BeginRead, ReadSealRead, InspectAgainRead, GiveUpRead, JudgeRead DEF AssessNext
<1> QED
  BY <1>1, <1>2, <1>3 DEF Next

\* The inductive invariant holds in every reachable state.
THEOREM BaselineInvariant == Spec => []BaselineInv
<1>1. Init => BaselineInv
  BY BaselineInit
<1>2. BaselineInv /\ [Next]_vars => BaselineInv'
  BY BaselineStep
<1> QED
  BY <1>1, <1>2, PTL DEF Spec

\* No trial is executed twice and no two processes run shards of one
\* experiment at a time (shard.go RunShard: the lease and the exclusive
\* directory of a shard).
THEOREM TrialsExecutedOnce == Spec => []ExecutedOnce
<1>1. BaselineInv => ExecutedOnce
  BY DEF BaselineInv, Leased, SessionsStand, ExecutedOnce
<1> QED
  BY <1>1, BaselineInvariant, PTL

\* A verdict "pass" rests on every planned trial (shard.go Assess,
\* decision.go Decide).
THEOREM PassesAreWhole == Spec => []PassIsWhole
<1>1. BaselineInv => PassIsWhole
  BY DEF BaselineInv
<1> QED
  BY <1>1, BaselineInvariant, PTL

\* A lease nobody holds is final (shard.go RunShard: O_EXCL, and no step that
\* removes a lease of another process).
THEOREM AbandonedStaysFinal == Spec => AbandonedIsFinal
<1>1. [Next]_vars => (lock /\ (\A p \in Runners : ~Holds(p)) =>
                        lock' /\ \A p \in Runners : ~Holds(p)')
  <2> SUFFICES ASSUME [Next]_vars, lock, \A p \in Runners : ~Holds(p)
               PROVE  lock' /\ \A p \in Runners : ~Holds(p)'
    OBVIOUS
  <2>1. \A p \in Runners : run[p].pc = "idle"
    BY DEF Holds
  <2>2. ~ \E p \in Runners : RunnerNext(p)
    BY <2>1 DEF RunnerNext, Start, Claim, WritePlans, NextTrial, Execute,
                InspectTrial, Report, WriteReport, Unlock, Die, At
  <2>3. UNCHANGED <<lock, run>>
    BY <2>2 DEF Next, vars, FreezeInputs, FreezePlan, AssessNext, Begin, ReadSeal,
                InspectAgain, GiveUp, Judge, experiment
  <2> QED
    BY <2>3 DEF Holds
<1> QED
  BY <1>1, PTL DEF Spec, AbandonedIsFinal

-----------------------------------------------------------------------------
(* What the reports recorded: the rows of a run, of a report and of an        *)
(* assessment are what every later inspection of their trials finds.          *)

\* The rows a process has filled in, of the trials before the one it is at.
RowsOf(p) ==
  LET mine == TrialsOf(run[p].shard)
  IN /\ run[p].pc \in Working \cup {"writing"} => DOMAIN run[p].rows = mine
     /\ run[p].pc \in {"trial", "executing", "inspect"} =>
          /\ mine \subseteq planned
          /\ \A t \in mine : t < run[p].at => run[p].rows[t] = Inspected(t)
     /\ run[p].pc \in {"report", "writing"} /\ ~run[p].failed =>
          /\ mine \subseteq planned
          /\ \A t \in mine : run[p].rows[t] = Inspected(t)

\* The rows of a report are those of its shard, and right in a complete one.
SealRow(s) ==
  /\ DOMAIN seal[s].rows \subseteq TrialsOf(s)
  /\ seal[s].state \in {"absent", "torn"} => DOMAIN seal[s].rows = {}
  /\ seal[s].state = "complete" =>
       /\ TrialsOf(s) \subseteq planned
       /\ \A t \in DOMAIN seal[s].rows : seal[s].rows[t] = Inspected(t)

\* An assessment has recorded rows of written reports only, and what it has
\* recorded of a complete one is right.
ReadRows ==
  /\ DOMAIN assess = {"pc", "at", "cut", "recorded", "seen"}
  /\ assess.pc = "seals" => assess.at \in Shards
  /\ \A t \in DOMAIN assess.recorded :
       /\ t \in Trials
       /\ seal[ShardOf(t)].state \notin {"absent", "torn"}
       /\ seal[ShardOf(t)].state = "complete" => assess.recorded[t] = Inspected(t)

RecordInv ==
  /\ BaselineInv
  /\ \A p \in Runners : RowsOf(p)
  /\ \A s \in Shards : SealRow(s)
  /\ ReadRows

\* A planned trial that stands is inspected the same after every step.
LEMMA InspectedStands ==
  ASSUME NEW t \in Trials, Stands(t), Keeps, t \in planned, planned \subseteq planned',
         live' = live
  PROVE  Inspected(t)' = Inspected(t)
<1>1. session'[t] = session[t]
  BY SealedIsLeft DEF Keeps, Stands
<1> QED
  BY <1>1 DEF Inspected

\* What a trial is inspected as depends on the plan files, its session and the
\* mode alone.
LEMMA InspectedSame ==
  ASSUME NEW t, planned' = planned, session' = session, live' = live
  PROVE  Inspected(t)' = Inspected(t)
BY DEF Inspected

\* A process that runs no shard has filled in nothing that matters.
LEMMA IdleRows ==
  ASSUME NEW p \in Runners, run[p].pc \in {"idle", "claim", "unlock"}
  PROVE  RowsOf(p)
BY DEF RowsOf, Working

\* A step of a process keeps what reports and assessments recorded when the
\* report it writes, if any, is right.
LEMMA RecordKept ==
  ASSUME WorkInv, Keeps, \A s \in Shards : SealRow(s), ReadRows,
         planned \subseteq planned', live' = live, UNCHANGED reader,
         \A s \in Shards : \/ seal'[s] = seal[s]
                           \/ seal[s].state \in {"absent", "torn"} /\ SealRow(s)'
  PROVE  (\A s \in Shards : SealRow(s)') /\ ReadRows'
<1>1. assess' = assess /\ verdict' = verdict
  BY DEF reader
<1>2. ASSUME NEW s \in Shards, seal'[s] = seal[s]
      PROVE  SealRow(s)'
  <2>1. /\ DOMAIN seal'[s].rows \subseteq TrialsOf(s)
        /\ seal'[s].state \in {"absent", "torn"} => DOMAIN seal'[s].rows = {}
    BY <1>2 DEF SealRow
  <2>2. ASSUME seal'[s].state = "complete"
        PROVE  /\ TrialsOf(s) \subseteq planned'
               /\ \A t \in DOMAIN seal'[s].rows : seal'[s].rows[t] = Inspected(t)'
    <3>1. /\ TrialsOf(s) \subseteq planned
          /\ \A t \in DOMAIN seal[s].rows : t \in TrialsOf(s)
                                            /\ seal[s].rows[t] = Inspected(t)
          /\ \A t \in TrialsOf(s) : Stands(t)
      BY <1>2, <2>2 DEF SealRow, WorkInv, SealsStand
    <3>2. \A t \in TrialsOf(s) : t \in Trials
      BY DEF TrialsOf
    <3>3. \A t \in TrialsOf(s) : Inspected(t)' = Inspected(t)
      BY <3>1, <3>2, InspectedStands
    <3> QED
      BY <1>2, <3>1, <3>3
  <2> QED
    BY <2>1, <2>2 DEF SealRow
<1>3. ASSUME NEW t \in DOMAIN assess.recorded
      PROVE  /\ t \in Trials
             /\ seal'[ShardOf(t)].state \notin {"absent", "torn"}
             /\ seal'[ShardOf(t)].state = "complete" => assess.recorded[t] = Inspected(t)'
  <2>1. /\ t \in Trials /\ ShardOf(t) \in Shards
        /\ seal[ShardOf(t)].state \notin {"absent", "torn"}
        /\ seal[ShardOf(t)].state = "complete" => assess.recorded[t] = Inspected(t)
    BY DEF ReadRows, Shards
  <2>2. seal'[ShardOf(t)] = seal[ShardOf(t)]
    BY <2>1
  <2>3. ASSUME seal[ShardOf(t)].state = "complete"
        PROVE  Inspected(t)' = Inspected(t)
    <3>1. t \in TrialsOf(ShardOf(t))
      BY <2>1 DEF TrialsOf
    <3>2. t \in planned /\ Stands(t)
      BY <2>1, <2>3, <3>1 DEF SealRow, WorkInv, SealsStand
    <3> QED
      BY <2>1, <3>2, InspectedStands
  <2> QED
    BY <2>1, <2>2, <2>3 DEF ReadRows
<1>4. \A s \in Shards : SealRow(s)'
  BY <1>2
<1>5. ReadRows'
  BY <1>1, <1>3 DEF ReadRows
<1> QED
  BY <1>4, <1>5

\* While a process takes a step, the others have no rows that matter.
LEMMA OthersRows ==
  ASSUME WorkInv, NEW p \in Runners, Moves(p)
  PROVE  \A q \in Runners \ {p} : RowsOf(q)'
<1>1. \A q \in Runners \ {p} : run'[q] = run[q] /\ run[q].pc = "idle"
  BY Alone DEF Moves
<1> QED
  BY <1>1 DEF RowsOf, Working

\* The lease, the claim of a shard and the end of a run.
LEMMA BoundaryRows ==
  ASSUME WorkInv, \A q \in Runners : RowsOf(q), NEW p \in Runners,
         (\E s \in Shards : Start(p, s)) \/ Claim(p) \/ Unlock(p)
  PROVE  /\ \A q \in Runners : RowsOf(q)'
         /\ seal' = seal /\ planned' = planned /\ live' = live
<1>1. CASE \E s \in Shards : Start(p, s)
  <2>1. PICK s \in Shards : Start(p, s)
    BY <1>1
  <2>2. \A q \in Runners : run[q].pc = "idle"
    BY <2>1 DEF Start, WorkInv, Leased, Holds
  <2>3. \A q \in Runners : run'[q].pc \in {"idle", "claim"}
    BY <2>1, <2>2 DEF Start, Starts, WorkInv, Typed, NoRun
  <2> QED
    BY <2>1, <2>3 DEF RowsOf, Working, Start
<1>2. CASE Claim(p)
  <2>1. /\ Moves(p)
        /\ \/ run'[p].pc = "unlock"
           \/ /\ run'[p].pc = "plans" /\ run'[p].shard = run[p].shard
              /\ DOMAIN run'[p].rows = TrialsOf(run[p].shard)
        /\ seal' = seal /\ planned' = planned /\ live' = live
    BY <1>2 DEF Claim, Goes, At, Moves, Holds, WorkInv, Typed
  <2>2. RowsOf(p)'
    BY <2>1 DEF RowsOf, Working
  <2> QED
    BY <2>1, <2>2, OthersRows
<1>3. CASE Unlock(p)
  <2>1. /\ Moves(p) /\ run'[p].pc = "idle"
        /\ seal' = seal /\ planned' = planned /\ live' = live
    BY <1>3 DEF Unlock, Ends, At, NoRun, Moves, Holds, WorkInv, Typed
  <2>2. RowsOf(p)'
    BY <2>1 DEF RowsOf, Working
  <2> QED
    BY <2>1, <2>2, OthersRows
<1> QED
  BY <1>1, <1>2, <1>3

\* The last trial of a shard is its last.
LEMMA LastIsLast ==
  ASSUME NEW s \in Shards, NEW t \in TrialsOf(s)
  PROVE  t <= Last(s) /\ Last(s) \in Int
<1>1. t \in Trials /\ t \in Nat \ {0} /\ t <= Total /\ Total \in Nat
      /\ ShardOf(t) = s /\ TrialsPerShard \in Nat \ {0}
  BY Counts DEF TrialsOf, Trials
<1>2. t - 1 \in Nat /\ s = (t - 1) \div TrialsPerShard + 1
  BY <1>1 DEF ShardOf
<1>3. t - 1 < s * TrialsPerShard /\ s \in Nat
  BY <1>1, <1>2, Quotient
<1>4. s * TrialsPerShard \in Nat
  BY <1>1, <1>3
<1> QED
  BY <1>1, <1>3, <1>4 DEF Last

\* A run goes on to its trials only when every plan file is written.
LEMMA WritePlansRows ==
  ASSUME WorkInv, \A q \in Runners : RowsOf(q), NEW p \in Runners, WritePlans(p)
  PROVE  /\ \A q \in Runners : RowsOf(q)'
         /\ seal' = seal /\ planned \subseteq planned' /\ live' = live
<1>1. run[p].pc = "plans" /\ Holds(p) /\ run[p].shard \in Shards
  BY Alone DEF WritePlans, At, Holds
<1>2. PICK last \in (First(run[p].shard) - 1)..Last(run[p].shard) :
        /\ planned' = planned \cup {t \in TrialsOf(run[p].shard) : t <= last}
        /\ IF last = Last(run[p].shard)
           THEN run' = [run EXCEPT ![p].pc = "trial", ![p].at = First(run[p].shard)]
           ELSE Goes(p, "unlock")
  BY DEF WritePlans
<1>3. First(run[p].shard) \in Int /\ First(run[p].shard) \in TrialsOf(run[p].shard)
      /\ \A t \in TrialsOf(run[p].shard) : First(run[p].shard) <= t /\ t \in Int
  <2>1. /\ First(run[p].shard) \in TrialsOf(run[p].shard)
        /\ \A t \in TrialsOf(run[p].shard) : First(run[p].shard) <= t
    BY <1>1, FirstIsFirst
  <2>2. \A t \in TrialsOf(run[p].shard) : t \in Nat
    BY Counts DEF TrialsOf
  <2> QED
    BY <2>1, <2>2
<1>4. /\ Moves(p)
      /\ \/ run'[p].pc = "unlock"
         \/ /\ last = Last(run[p].shard)
            /\ run'[p].pc = "trial" /\ run'[p].at = First(run[p].shard)
            /\ run'[p].shard = run[p].shard /\ run'[p].rows = run[p].rows
  BY <1>1, <1>2, <1>3 DEF Goes, Moves, WorkInv, Typed
<1>5. RowsOf(p)'
  <2>1. CASE run'[p].pc = "unlock"
    BY <2>1 DEF RowsOf, Working
  <2>2. CASE /\ last = Last(run[p].shard)
             /\ run'[p].pc = "trial" /\ run'[p].at = First(run[p].shard)
             /\ run'[p].shard = run[p].shard /\ run'[p].rows = run[p].rows
    <3>1. \A t \in TrialsOf(run[p].shard) : t <= last
      BY <1>1, <2>2, LastIsLast
    <3>2. TrialsOf(run[p].shard) \subseteq planned'
      BY <1>2, <3>1
    <3>3. \A t \in TrialsOf(run[p].shard) : ~(t < First(run[p].shard))
      BY <1>3
    <3>4. DOMAIN run[p].rows = TrialsOf(run[p].shard)
      BY <1>1 DEF RowsOf, Working
    <3> QED
      BY <2>2, <3>2, <3>3, <3>4 DEF RowsOf, Working
  <2> QED
    BY <1>4, <2>1, <2>2
<1> QED
  BY <1>2, <1>4, <1>5, OthersRows DEF WritePlans

\* The next trial begins, or the loop ends with a row for every trial or a
\* failure.
LEMMA NextTrialRows ==
  ASSUME WorkInv, \A q \in Runners : RowsOf(q), NEW p \in Runners, NextTrial(p)
  PROVE  /\ \A q \in Runners : RowsOf(q)'
         /\ seal' = seal /\ planned' = planned /\ live' = live
<1> DEFINE mine == TrialsOf(run[p].shard)
<1>1. run[p].pc = "trial" /\ Holds(p) /\ run[p].at \in Int
  BY DEF NextTrial, At, Holds, WorkInv, Typed
<1>2. /\ DOMAIN run[p].rows = mine /\ mine \subseteq planned
      /\ \A t \in mine : t < run[p].at => run[p].rows[t] = Inspected(t)
      /\ run[p].at \notin mine => \A t \in mine : t < run[p].at
  BY <1>1 DEF RowsOf, Working, WorkInv, InOrder
<1>3. UNCHANGED <<live, planned, session, seal>>
  BY DEF NextTrial
<1>4. /\ Moves(p)
      /\ run'[p].shard = run[p].shard /\ run'[p].rows = run[p].rows
      /\ run'[p].at = run[p].at
      /\ \/ run'[p].pc = "executing"
         \/ run'[p].pc = "report" /\ run'[p].failed = (run[p].at \in mine)
  BY <1>1 DEF NextTrial, Goes, Moves, WorkInv, Typed
<1>5. \A t \in mine : Inspected(t)' = Inspected(t)
  BY <1>3, InspectedSame
<1> HIDE DEF mine
<1>6. RowsOf(p)'
  <2>1. TrialsOf(run'[p].shard) = mine
    BY <1>4 DEF mine
  <2> QED
    BY <1>2, <1>3, <1>4, <1>5, <2>1 DEF RowsOf, Working
<1> QED
  BY <1>3, <1>4, <1>6, OthersRows

\* A session ends: the rows are those of earlier trials, which stand.
LEMMA ExecuteRows ==
  ASSUME WorkInv, \A q \in Runners : RowsOf(q), NEW p \in Runners, Execute(p)
  PROVE  /\ \A q \in Runners : RowsOf(q)'
         /\ seal' = seal /\ planned' = planned /\ live' = live
<1> DEFINE mine == TrialsOf(run[p].shard)
<1>1. run[p].pc = "executing" /\ Holds(p) /\ run[p].at \in Int
  BY DEF Execute, At, Holds, WorkInv, Typed
<1>2. /\ DOMAIN run[p].rows = mine /\ mine \subseteq planned
      /\ \A t \in mine : t < run[p].at => run[p].rows[t] = Inspected(t) /\ Stands(t)
  BY <1>1 DEF RowsOf, Working, WorkInv, InOrder
<1>3. UNCHANGED <<live, planned, seal>> /\ Keeps
  BY ExecuteWork DEF Execute
<1>4. /\ Moves(p)
      /\ run'[p].shard = run[p].shard /\ run'[p].rows = run[p].rows
      /\ run'[p].at = run[p].at
      /\ run'[p].pc = "inspect" \/ (run'[p].pc = "report" /\ run'[p].failed)
  BY <1>1 DEF Execute, Goes, Moves, WorkInv, Typed
<1>5. \A t \in mine : t < run[p].at => Inspected(t)' = Inspected(t)
  <2>1. \A t \in mine : t \in Trials
    BY DEF TrialsOf
  <2> HIDE DEF mine
  <2> QED
    BY <1>2, <1>3, <2>1, InspectedStands
<1> HIDE DEF mine
<1>6. RowsOf(p)'
  <2>1. TrialsOf(run'[p].shard) = mine
    BY <1>4 DEF mine
  <2> QED
    BY <1>2, <1>3, <1>4, <1>5, <2>1 DEF RowsOf, Working
<1> QED
  BY <1>3, <1>4, <1>6, OthersRows

\* The trial that was executed is inspected and its row recorded.
LEMMA InspectTrialRows ==
  ASSUME WorkInv, \A q \in Runners : RowsOf(q), NEW p \in Runners, InspectTrial(p)
  PROVE  /\ \A q \in Runners : RowsOf(q)'
         /\ seal' = seal /\ planned' = planned /\ live' = live
<1> DEFINE mine == TrialsOf(run[p].shard)
           a == run[p].at
<1>1. run[p].pc = "inspect" /\ Holds(p) /\ a \in Int
  BY DEF InspectTrial, At, Holds, WorkInv, Typed
<1>2. /\ DOMAIN run[p].rows = mine /\ mine \subseteq planned /\ a \in mine
      /\ \A t \in mine : t < a => run[p].rows[t] = Inspected(t)
  BY <1>1 DEF RowsOf, Working, WorkInv, InOrder
<1>3. UNCHANGED <<live, planned, session, seal>>
  BY DEF InspectTrial
<1>4. \A t \in mine : Inspected(t)' = Inspected(t) /\ t \in Int
  BY <1>3, InspectedSame, Counts DEF TrialsOf
<1>5. CASE run' = [run EXCEPT ![p].pc = "report", ![p].failed = TRUE]
  <2>1. /\ Moves(p) /\ run'[p].pc = "report" /\ run'[p].failed
        /\ run'[p].shard = run[p].shard /\ run'[p].rows = run[p].rows
    BY <1>1, <1>5 DEF Moves, WorkInv, Typed
  <2>2. RowsOf(p)'
    BY <1>2, <2>1 DEF RowsOf, Working
  <2> QED
    BY <1>3, <2>1, <2>2, OthersRows
<1>6. CASE run' = [run EXCEPT ![p].pc = "trial", ![p].at = @ + 1,
                     ![p].rows[run[p].at] = Inspected(run[p].at)]
  <2>1. /\ Moves(p) /\ run'[p].pc = "trial" /\ run'[p].at = a + 1
        /\ run'[p].shard = run[p].shard
        /\ run'[p].rows = [run[p].rows EXCEPT ![a] = Inspected(a)]
    BY <1>1, <1>6 DEF Moves, WorkInv, Typed
  <2> HIDE DEF a, mine
  <2>2. /\ DOMAIN run'[p].rows = mine
        /\ \A t \in mine : run'[p].rows[t] = IF t = a THEN Inspected(a) ELSE run[p].rows[t]
    BY <1>2, <2>1
  <2>3. \A t \in mine : t < a + 1 => run'[p].rows[t] = Inspected(t)'
    <3>1. \A t \in mine : t < a + 1 => t < a \/ t = a
      BY <1>1, <1>4
    <3> QED
      BY <1>2, <1>4, <2>2, <3>1
  <2>4. TrialsOf(run'[p].shard) = mine
    BY <2>1 DEF mine
  <2>5. RowsOf(p)'
    BY <1>2, <1>3, <2>1, <2>2, <2>3, <2>4 DEF RowsOf, Working
  <2> QED
    BY <1>3, <2>1, <2>5, OthersRows
<1> QED
  BY <1>5, <1>6 DEF InspectTrial

\* A report that is made has no rows yet.
LEMMA ReportRows ==
  ASSUME WorkInv, \A q \in Runners : RowsOf(q), NEW p \in Runners, Report(p)
  PROVE  /\ \A q \in Runners : RowsOf(q)'
         /\ planned' = planned /\ live' = live
         /\ \A s \in Shards : \/ seal'[s] = seal[s]
                              \/ seal[s].state \in {"absent", "torn"} /\ SealRow(s)'
<1>1. /\ run[p].pc = "report" /\ Holds(p) /\ run[p].shard \in Shards
      /\ UNCHANGED <<live, planned, session>>
  BY Alone DEF Report, At, Holds
<1>2. /\ Moves(p) /\ run'[p].pc \in {"writing", "unlock"}
      /\ run'[p].shard = run[p].shard /\ run'[p].failed = run[p].failed
      /\ run'[p].rows = run[p].rows
  BY <1>1 DEF Report, Goes, Moves, WorkInv, Typed
<1>3. RowsOf(p)'
  <2>1. \A t \in TrialsOf(run[p].shard) : Inspected(t)' = Inspected(t)
    BY <1>1, InspectedSame
  <2> QED
    BY <1>1, <1>2, <2>1 DEF RowsOf, Working
<1>4. CASE UNCHANGED seal
  BY <1>1, <1>2, <1>3, <1>4, OthersRows
<1>5. CASE /\ seal[run[p].shard].state = "absent"
           /\ seal' = [seal EXCEPT ![run[p].shard] = Torn]
  <2> PICK s \in Shards : s = run[p].shard
    BY <1>1
  <2>1. /\ seal'[s] = Torn
        /\ \A u \in Shards \ {s} : seal'[u] = seal[u]
    BY <1>5 DEF WorkInv, Typed
  <2>2. DOMAIN Torn.rows = {} /\ Torn.state # "complete"
    BY DEF Torn, NoRecord
  <2>3. SealRow(s)'
    BY <2>1, <2>2 DEF SealRow
  <2> QED
    BY <1>1, <1>2, <1>3, <1>5, <2>1, <2>3, OthersRows
<1> QED
  BY <1>4, <1>5 DEF Report

\* A report that is written records the rows of its shard, all of them when the
\* run has not failed.
LEMMA WriteReportRows ==
  ASSUME WorkInv, \A q \in Runners : RowsOf(q), NEW p \in Runners, WriteReport(p)
  PROVE  /\ \A q \in Runners : RowsOf(q)'
         /\ planned' = planned /\ live' = live
         /\ \A s \in Shards : \/ seal'[s] = seal[s]
                              \/ seal[s].state \in {"absent", "torn"} /\ SealRow(s)'
<1>0. run[p].pc = "writing" /\ Holds(p) /\ run[p].shard \in Shards
  BY Alone DEF WriteReport, At, Holds
<1> PICK s \in Shards : s = run[p].shard
  BY <1>0
<1>1. seal[s].state = "torn"
  BY <1>0 DEF WorkInv, InOrder
<1>2. PICK left \in {Torn,
                    [state |-> IF run[p].failed THEN "interrupted" ELSE "complete",
                     rows |-> run[p].rows]} :
        seal' = [seal EXCEPT ![s] = left]
  BY DEF WriteReport
<1>3. UNCHANGED <<live, planned, session>> /\ Moves(p) /\ run'[p].pc = "unlock"
  BY <1>0 DEF WriteReport, Goes, Moves, WorkInv, Typed
<1>4. RowsOf(p)'
  BY <1>3 DEF RowsOf, Working
<1>5. /\ DOMAIN run[p].rows = TrialsOf(s)
      /\ ~run[p].failed => /\ TrialsOf(s) \subseteq planned
                           /\ \A t \in TrialsOf(s) : run[p].rows[t] = Inspected(t)
  BY <1>0 DEF RowsOf
<1>6. \A t \in TrialsOf(s) : Inspected(t)' = Inspected(t)
  BY <1>3, InspectedSame
<1>7. /\ seal'[s] = left
      /\ \A u \in Shards \ {s} : seal'[u] = seal[u]
  BY <1>2 DEF WorkInv, Typed
<1>8. SealRow(s)'
  <2>1. CASE left = Torn
    <3>1. DOMAIN left.rows = {} /\ left.state # "complete"
      BY <2>1 DEF Torn, NoRecord
    <3> QED
      BY <1>7, <3>1 DEF SealRow
  <2>2. CASE left = [state |-> IF run[p].failed THEN "interrupted" ELSE "complete",
                     rows |-> run[p].rows]
    <3>1. /\ left.rows = run[p].rows /\ left.state \notin {"absent", "torn"}
          /\ left.state = "complete" => ~run[p].failed
      BY <2>2
    <3> QED
      BY <1>3, <1>5, <1>6, <1>7, <3>1 DEF SealRow
  <2> QED
    BY <1>2, <2>1, <2>2
<1> QED
  BY <1>1, <1>3, <1>4, <1>7, <1>8, OthersRows

\* A process that dies leaves the reports as they are.
LEMMA DieRows ==
  ASSUME WorkInv, \A q \in Runners : RowsOf(q), NEW p \in Runners, Die(p)
  PROVE  /\ \A q \in Runners : RowsOf(q)'
         /\ seal' = seal /\ planned' = planned /\ live' = live
<1>1. /\ Moves(p) /\ run'[p].pc = "idle"
      /\ seal' = seal /\ planned' = planned /\ live' = live
  BY DEF Die, At, Ends, NoRun, Moves, Holds, WorkInv, Typed
<1>2. RowsOf(p)'
  BY <1>1 DEF RowsOf, Working
<1> QED
  BY <1>1, <1>2, OthersRows

\* Every step of a process keeps the rows, the reports and what was read of them.
LEMMA RunnerRecords ==
  ASSUME WorkInv, \A q \in Runners : RowsOf(q), \A s \in Shards : SealRow(s), ReadRows,
         NEW p \in Runners, RunnerNext(p)
  PROVE  (\A q \in Runners : RowsOf(q)') /\ (\A s \in Shards : SealRow(s)') /\ ReadRows'
<1>1. Keeps /\ UNCHANGED reader
  BY RunnerWork
<1>2. /\ \A q \in Runners : RowsOf(q)'
      /\ planned \subseteq planned' /\ live' = live
      /\ \A s \in Shards : \/ seal'[s] = seal[s]
                           \/ seal[s].state \in {"absent", "torn"} /\ SealRow(s)'
  <2>1. CASE (\E s \in Shards : Start(p, s)) \/ Claim(p) \/ Unlock(p)
    BY <2>1, BoundaryRows
  <2>2. CASE WritePlans(p)
    BY <2>2, WritePlansRows
  <2>3. CASE NextTrial(p)
    BY <2>3, NextTrialRows
  <2>4. CASE Execute(p)
    BY <2>4, ExecuteRows
  <2>5. CASE InspectTrial(p)
    BY <2>5, InspectTrialRows
  <2>6. CASE Report(p)
    BY <2>6, ReportRows
  <2>7. CASE Die(p)
    BY <2>7, DieRows
  <2>8. CASE WriteReport(p)
    BY <2>8, WriteReportRows
  <2> QED
    BY <2>1, <2>2, <2>3, <2>4, <2>5, <2>6, <2>7, <2>8 DEF RunnerNext
<1> QED
  BY <1>1, <1>2, RecordKept

\* The first trial is in the first shard.
LEMMA FirstShard == 1 \in Shards
<1>1. /\ Len(Entry) \in Nat /\ Len(Entry) > 0 /\ Repeats \in Nat \ {0}
      /\ TrialsPerShard \in Nat \ {0}
  BY BaselineAssumption
<1>2. Len(Entry) * Repeats >= 1
  BY <1>1
<1>3. Total >= 1 /\ Total \in Nat
  BY <1>1, <1>2, Counts DEF Total
<1>4. 1 \in Trials
  BY <1>3 DEF Trials
<1>5. ShardOf(1) = 1
  <2>1. (0 * TrialsPerShard) \div TrialsPerShard = 0
    BY <1>1, Multiple
  <2>2. 0 * TrialsPerShard = 0 /\ 1 - 1 = 0
    BY <1>1
  <2> QED
    BY <2>1, <2>2 DEF ShardOf
<1> QED
  BY <1>4, <1>5 DEF Shards

\* What an assessment leaves alone.
LEMMA ExperimentRecords ==
  ASSUME \A q \in Runners : RowsOf(q), \A s \in Shards : SealRow(s), UNCHANGED <<live, experiment>>
  PROVE  /\ \A q \in Runners : RowsOf(q)'
         /\ \A s \in Shards : SealRow(s)'
         /\ \A t : Inspected(t)' = Inspected(t)
<1>1. UNCHANGED <<live, planned, session, seal, run>>
  BY DEF experiment
<1>2. \A t : Inspected(t)' = Inspected(t)
  BY <1>1, InspectedSame
<1> QED
  BY <1>1, <1>2 DEF RowsOf, SealRow

\* Reading a report: a torn one has no rows, and those of a complete one are
\* right.
LEMMA ReadSealRecords ==
  ASSUME WorkInv, \A s \in Shards : SealRow(s), ReadRows, ReadSeal,
         \A t : Inspected(t)' = Inspected(t)
  PROVE  ReadRows'
<1> DEFINE s == assess.at
<1>1. s \in Shards /\ UNCHANGED experiment
  BY DEF ReadSeal, ReadRows
<1>2. seal' = seal
  BY <1>1 DEF experiment
<1>3. /\ DOMAIN assess' = {"pc", "at", "cut", "recorded", "seen"}
      /\ assess'.pc = "seals" => assess'.at \in Shards
      /\ assess'.cut = assess.cut
      /\ assess'.recorded = [t \in DOMAIN assess.recorded \cup DOMAIN seal[s].rows |->
                    IF t \in DOMAIN seal[s].rows THEN seal[s].rows[t]
                    ELSE assess.recorded[t]]
  BY DEF ReadSeal, WorkInv, Typed
<1> HIDE DEF s
<1>4. ASSUME NEW t \in DOMAIN assess'.recorded
      PROVE  /\ t \in Trials
             /\ seal[ShardOf(t)].state \notin {"absent", "torn"}
             /\ seal[ShardOf(t)].state = "complete" => assess'.recorded[t] = Inspected(t)
  <2>1. CASE t \in DOMAIN seal[s].rows
    <3>1. t \in TrialsOf(s) /\ assess'.recorded[t] = seal[s].rows[t]
      BY <1>1, <1>3, <2>1 DEF SealRow
    <3>2. t \in Trials /\ ShardOf(t) = s
      BY <3>1 DEF TrialsOf
    <3>3. seal[s].state = "complete" => seal[s].rows[t] = Inspected(t)
      BY <1>1, <2>1 DEF SealRow
    <3>4. seal[s].state \notin {"absent", "torn"}
      BY <1>1, <2>1 DEF SealRow
    <3> QED
      BY <3>1, <3>2, <3>3, <3>4
  <2>2. CASE t \notin DOMAIN seal[s].rows
    <3>1. t \in DOMAIN assess.recorded /\ assess'.recorded[t] = assess.recorded[t]
      BY <1>3, <2>2
    <3> QED
      BY <3>1 DEF ReadRows
  <2> QED
    BY <2>1, <2>2
<1> QED
  BY <1>2, <1>3, <1>4 DEF ReadRows

\* Inspecting again records nothing.
LEMMA InspectAgainRecords ==
  ASSUME WorkInv, ReadRows, InspectAgain, \A t : Inspected(t)' = Inspected(t)
  PROVE  ReadRows'
<1>1. /\ DOMAIN assess' = {"pc", "at", "cut", "recorded", "seen"}
      /\ assess'.pc = "trials" /\ assess'.recorded = assess.recorded
      /\ UNCHANGED experiment
  BY DEF InspectAgain, WorkInv, Typed
<1>2. seal' = seal
  BY <1>1 DEF experiment
<1> QED
  BY <1>1, <1>2 DEF ReadRows

\* The steps of an assessment keep what was recorded and read.
LEMMA AssessRecords ==
  ASSUME WorkInv, \A s \in Shards : SealRow(s), ReadRows, AssessNext,
         \A t : Inspected(t)' = Inspected(t)
  PROVE  ReadRows'
<1>1. CASE Begin
  <2>1. /\ DOMAIN assess' = {"pc", "at", "cut", "recorded", "seen"}
        /\ assess'.at = 1 /\ assess'.cut = assess.cut
        /\ assess'.recorded = assess.recorded
        /\ UNCHANGED <<experiment, verdict>>
    BY <1>1 DEF Begin, WorkInv, Typed
  <2>2. seal' = seal /\ verdict' = verdict
    BY <2>1 DEF experiment
  <2> QED
    BY <2>1, <2>2, FirstShard DEF ReadRows
<1>2. CASE ReadSeal
  BY <1>2, ReadSealRecords
<1>3. CASE InspectAgain
  BY <1>3, InspectAgainRecords
<1>4. CASE GiveUp
  <2>1. /\ DOMAIN assess' = {"pc", "at", "cut", "recorded", "seen"}
        /\ assess'.pc = "done" /\ DOMAIN assess'.recorded = {}
    BY <1>4 DEF GiveUp, NoAssess, NoRecord
  <2>2. verdict'.shards = [s \in Shards |-> "missing"]
    BY <1>4 DEF GiveUp, NoVerdict
  <2> QED
    BY <2>1, <2>2 DEF ReadRows
<1>5. CASE Judge
  <2>1. /\ DOMAIN assess' = {"pc", "at", "cut", "recorded", "seen"}
        /\ assess'.pc = "done" /\ assess'.cut = assess.cut
        /\ DOMAIN assess'.recorded = {}
        /\ UNCHANGED experiment
    BY <1>5 DEF Judge, NoAssess, NoRecord
  <2>2. verdict'.shards = verdict.shards
    BY <1>5 DEF Judge, WorkInv, Typed
  <2>3. seal' = seal
    BY <2>1 DEF experiment
  <2> QED
    BY <2>1, <2>2, <2>3 DEF ReadRows
<1> QED
  BY <1>1, <1>2, <1>3, <1>4, <1>5 DEF AssessNext

\* At first nothing is recorded.
LEMMA RecordInit == Init => RecordInv
<1> SUFFICES ASSUME Init PROVE RecordInv
  OBVIOUS
<1>1. BaselineInv
  BY BaselineInit
<1>2. \A p \in Runners : RowsOf(p)
  BY DEF Init, NoRun, RowsOf, Working
<1>3. \A s \in Shards : SealRow(s)
  BY DEF Init, NoSeal, NoRecord, SealRow
<1>4. ReadRows
  BY DEF Init, NoAssess, NoVerdict, NoRecord, ReadRows
<1> QED
  BY <1>1, <1>2, <1>3, <1>4 DEF RecordInv

\* Every step keeps the records.
LEMMA RecordStep == RecordInv /\ [Next]_vars => RecordInv'
<1> SUFFICES ASSUME RecordInv, [Next]_vars
             PROVE  RecordInv'
  OBVIOUS
<1>1. BaselineInv'
  BY BaselineStep DEF RecordInv
<1>2. /\ WorkInv /\ ReadRows
      /\ \A q \in Runners : RowsOf(q)
      /\ \A s \in Shards : SealRow(s)
  BY DEF RecordInv, BaselineInv, WorkInv
<1>3. (\A q \in Runners : RowsOf(q)') /\ (\A s \in Shards : SealRow(s)') /\ ReadRows'
  <2>1. CASE FreezeInputs \/ FreezePlan \/ UNCHANGED vars
    <3>1. UNCHANGED <<live, lock, claimed, planned, session, seal, run, executed, reader>>
      BY <2>1 DEF FreezeInputs, FreezePlan, vars, reader
    <3>2. UNCHANGED <<live, planned, session, seal, run, assess, verdict>>
      BY <3>1 DEF reader
    <3>3. \A t : Inspected(t)' = Inspected(t)
      BY <3>2, InspectedSame
    <3>4. (\A q \in Runners : RowsOf(q)') /\ (\A s \in Shards : SealRow(s)')
      BY <1>2, <3>2, <3>3 DEF RowsOf, SealRow
    <3>5. ReadRows'
      BY <1>2, <3>2, <3>3 DEF ReadRows
    <3> QED
      BY <3>4, <3>5
  <2>2. CASE \E p \in Runners : RunnerNext(p)
    BY <1>2, <2>2, RunnerRecords
  <2>3. CASE AssessNext
    <3>1. UNCHANGED <<live, experiment>>
      BY <2>3 DEF AssessNext, Begin, ReadSeal, InspectAgain, GiveUp, Judge
    <3> QED
      BY <1>2, <2>3, <3>1, ExperimentRecords, AssessRecords
  <2> QED
    BY <2>1, <2>2, <2>3 DEF Next
<1> QED
  BY <1>1, <1>3 DEF RecordInv

\* The second inductive invariant: the rows of runs, reports and assessments.
THEOREM RecordInvariant == Spec => []RecordInv
<1>1. Init => RecordInv
  BY RecordInit
<1>2. RecordInv /\ [Next]_vars => RecordInv'
  BY RecordStep
<1> QED
  BY <1>1, <1>2, PTL DEF Spec

\* A shard becomes invalid when its report is read and is torn.
LEMMA ReadSealStands ==
  ASSUME WorkInv, ReadRows, ReadSeal, NEW s \in Shards,
         verdict.shards[s] # "invalid", verdict'.shards[s] = "invalid"
  PROVE  seal[s].state # "complete"
<1>1. assess.at \in Shards
  BY DEF ReadSeal, ReadRows
<1>2. /\ \A u \in Shards \ {assess.at} : verdict'.shards[u] = verdict.shards[u]
      /\ verdict'.shards[assess.at] =
           CASE seal[assess.at].state = "absent" -> "missing"
             [] seal[assess.at].state = "torn" -> "invalid"
             [] OTHER -> seal[assess.at].state
  BY <1>1 DEF ReadSeal, WorkInv, Typed
<1> QED
  BY <1>1, <1>2

\* Or when a trial is inspected again and a row is not what is found, which no
\* row of a complete report is.
LEMMA InspectAgainStands ==
  ASSUME WorkInv, ReadRows, InspectAgain, ~assess'.cut, NEW s \in Shards,
         verdict.shards[s] # "invalid", verdict'.shards[s] = "invalid"
  PROVE  seal[s].state # "complete"
<1> DEFINE t == assess.at
<1>1. PICK cut \in BOOLEAN :
        LET o == IF cut THEN Abandoned(t) ELSE Inspected(t)
        IN /\ assess' = [assess EXCEPT !.at = t + 1, !.cut = cut,
                           !.seen = [u \in DOMAIN @ \cup {t} |->
                                       IF u = t THEN o ELSE @[u]]]
           /\ verdict' = IF t \in DOMAIN assess.recorded /\ assess.recorded[t] # o
                         THEN [verdict EXCEPT !.shards[ShardOf(t)] = "invalid"]
                         ELSE verdict
  BY DEF InspectAgain
<1>2. ~cut
  BY <1>1 DEF WorkInv, Typed
<1>3. /\ t \in DOMAIN assess.recorded /\ assess.recorded[t] # Inspected(t)
      /\ verdict' = [verdict EXCEPT !.shards[ShardOf(t)] = "invalid"]
  BY <1>1, <1>2
<1>4. s # ShardOf(t) => verdict'.shards[s] = verdict.shards[s]
  BY <1>3 DEF WorkInv, Typed
<1> QED
  BY <1>3, <1>4 DEF ReadRows

\* An assessment whose context lives declares no shard invalid that has a
\* complete report at that moment (shard.go Assess: the comparison of the
\* recorded rows; shard.go RunShard, plan.go writeExclusive: a report is torn
\* while it is written).
THEOREM CompletedShardsStand == Spec => CompleteStands
<1> DEFINE Step == \A s \in Shards :
                     verdict.shards[s] # "invalid" /\ verdict'.shards[s] = "invalid"
                       /\ ~assess'.cut => seal[s].state # "complete"
<1>1. RecordInv /\ [Next]_vars => [Step]_vars
  <2> SUFFICES ASSUME RecordInv, [Next]_vars, NEW s \in Shards,
                      verdict.shards[s] # "invalid", verdict'.shards[s] = "invalid",
                      ~assess'.cut
               PROVE  seal[s].state # "complete"
    OBVIOUS
  <2>1. WorkInv /\ ReadRows
    BY DEF RecordInv, BaselineInv, WorkInv
  <2>2. ReadSeal \/ InspectAgain
    <3>1. verdict' # verdict
      OBVIOUS
    <3>2. ~(\E p \in Runners : RunnerNext(p))
      BY <2>1, <3>1, RunnerWork DEF reader
    <3>3. ~FreezeInputs /\ ~FreezePlan /\ ~UNCHANGED vars /\ ~Begin
      BY <3>1 DEF FreezeInputs, FreezePlan, vars, reader, Begin
    <3>4. ~GiveUp
      BY DEF GiveUp, NoVerdict
    <3>5. ~Judge
      BY <2>1 DEF Judge, WorkInv, Typed
    <3> QED
      BY <3>2, <3>3, <3>4, <3>5 DEF Next, AssessNext
  <2> QED
    BY <2>1, <2>2, ReadSealStands, InspectAgainStands
<1> QED
  BY <1>1, RecordInvariant, PTL DEF Spec, CompleteStands
=============================================================================
