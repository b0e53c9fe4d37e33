-------------------------- MODULE AgentTrialProofs --------------------------
(***************************************************************************)
(* What holds of a recorded trial for any budgets, batches, approval and   *)
(* number of recordings on its directory, whatever fails, is cancelled or  *)
(* dies, with the clock set back and an InspectDirectory beside it.        *)
(***************************************************************************)
EXTENDS AgentTrial, FiniteSetTheorems, TLAPS

-----------------------------------------------------------------------------
(***************************************************************************)
(* The inductive invariant.                                                *)
(***************************************************************************)
\* Places of the turn loop, those between a request and its answer, and those
\* of the publication.
Loop == {"request", "script", "exchange", "boundary", "posted", "accept", "dispatch",
         "call", "deliver"}
Asked == {"script", "exchange", "boundary", "posted", "accept"}
Before == {"start", "claim", "provision"}
After == {"closure", "close", "pending", "link", "unlink"}

IsHost(h) ==
  DOMAIN h = {"waiting", "admitted", "stopped", "pending", "seen", "model", "tool",
              "content", "halted"}
IsEpisode(e) ==
  DOMAIN e = {"status", "failure", "terminalFailure", "cleanupFailure", "evidence",
              "cleanup", "graded", "replayable", "model", "tool", "content",
              "frontiers", "events", "after"}
Event == [sequence : Nat, committed : BOOLEAN, delivered : BOOLEAN]
Receipt == [sequence : Nat, at : Nat,
            outcome : {"acceptance_unknown", "http_error", "response_received"}]

TypeOK ==
  /\ lane \in {"mock", "live"}
  /\ pc \in Before \cup Loop \cup {"settle", "stage", "done"} \cup After
  /\ clock \in Nat
  /\ IsHost(host)
  /\ host.model \in Nat /\ host.tool \in Nat /\ host.content \in Nat
  /\ DOMAIN client = {"sent", "stopped"} /\ client.sent \in Nat
  /\ started \in Nat
  /\ receipts \in Seq(Receipt)
  /\ effects \in Nat
  /\ IsEpisode(ep) /\ ep.frontiers \in Seq(Nat) /\ ep.events \in Seq(Event)
  /\ closed \in BOOLEAN
  /\ DOMAIN files = Names
  /\ answer \in {"none", "ok", "error"}

\* The trial goes on, or has completed.
Completed == pc = "settle" /\ ep.status = "completed"
Going == pc \in Before \cup Loop \/ Completed

\* Until it ends an episode has neither failed nor been judged.
StatusOK ==
  /\ pc \in Before \cup Loop => ep.status = "running" /\ ep.failure = ""
  /\ pc = "settle" => (ep.status = "completed" <=> ep.failure = "")
  /\ pc \in Before \cup Loop \cup {"settle"} =>
       ep.terminalFailure = "" /\ ep.cleanupFailure = ""
  /\ pc \in Before \cup Loop \cup {"settle", "stage"} => closed = FALSE

\* No budget is exceeded.
BudgetOK ==
  host.model <= ModelRequests /\ host.tool <= ToolAttempts /\ host.content <= ContentBudget

\* One frontier per request: the number of events that request showed.
FrontiersOK ==
  pc \in Before \cup Loop \cup {"settle"} =>
    /\ host.model = Len(ep.frontiers) /\ Len(ep.frontiers) <= Steps
    /\ \A i \in DOMAIN ep.frontiers : ep.frontiers[i] <= Len(ep.events)
    /\ \A i \in 2..Len(ep.frontiers) : ep.frontiers[i] >= ep.frontiers[i - 1]
    /\ ep.frontiers # <<>> => ep.frontiers[1] = 0
    /\ ep.frontiers = <<>> => ep.events = <<>>
    /\ pc \in Loop \ {"request"} \/ Completed => ep.frontiers # <<>>
    /\ pc \in Asked \/ Completed => ep.frontiers[Len(ep.frontiers)] = Len(ep.events)
    /\ pc \in Before => ep.frontiers = <<>>

\* One event per admitted call, and one effect per event that committed.
EventsOK ==
  /\ Going => /\ host.tool = Len(ep.events) + (IF pc = "call" THEN 1 ELSE 0)
              /\ effects = ReplayedEffects(ep)
  /\ \A i \in DOMAIN ep.events : ep.events[i].sequence = i
  /\ Completed => \A i \in DOMAIN ep.events : ep.events[i].delivered

\* One receipt per POST, and one POST per request that was answered.
Received(rec) == rec.outcome = "response_received"
ReceiptsOK ==
  /\ EveryPostAccounted
  /\ \A i \in DOMAIN receipts : Authorized(receipts[i].at)
  /\ lane = "mock" => receipts = <<>> /\ pc \notin {"exchange", "boundary", "posted"}
  /\ lane = "live" => pc # "script"
  /\ lane = "live" /\ Going =>
       /\ Len(receipts) = Len(ep.frontiers) - (IF pc \in {"exchange", "boundary"} THEN 1 ELSE 0)
       /\ pc # "posted" => \A i \in DOMAIN receipts : Received(receipts[i])
       /\ pc # "start" => Authorized(started)

\* A clock that is not set back orders them.
TimesOK ==
  pc \in Before \cup Loop \cup {"settle"} /\ ~setBack =>
    /\ pc # "start" => started <= clock
    /\ \A i \in DOMAIN receipts : started <= receipts[i].at /\ receipts[i].at <= clock
    /\ \A i \in 2..Len(receipts) : receipts[i - 1].at <= receipts[i].at

\* The verifier of lane l finds nothing wrong (VerifyError).
Verifies(l, d, terminal) ==
  /\ l = "live" => d.ep.status = "completed" /\ d.ep.failure = "" /\ ReceiptsMatch(d)
  /\ ReplayError(d.ep, terminal) = ""

\* What was verified before the world was closed verifies when it is sealed.
ClosedOK ==
  /\ (pc = "stage" /\ ep.status = "completed" /\ ep.failure = "" /\ ~setBack)
       => Verifies(lane, Doc(ep), FALSE)
  /\ pc \in {"closure", "close"} /\ closed => Verifies(lane, Doc(ep), FALSE)
  /\ pc \in {"pending", "link", "unlink"} /\ Sealed(ep) => Verifies(lane, Doc(ep), TRUE)

\* The members by the place of the recorder that made the directory; and a
\* terminal document is of the run that holds the claim, and verifies if sealed.
Claims == files["claim"].state = "whole"
FilesOK ==
  /\ ~made => pc \in {"start", "done"} /\ \A n \in Names : files[n] = Absent
  /\ pc \in {"claim", "provision", "settle", "stage"} \cup Loop => files["terminal"] = Absent
  /\ pc \in {"provision", "settle", "stage"} \cup Loop \cup After =>
       Claims /\ files["claim"].doc.run = runs
  /\ pc \in After \ {"unlink"} => files["terminal"] = Absent
  /\ pc = "link" => files["pending"] = Whole(Doc(ep))
  /\ pc = "unlink" => files["terminal"] = Whole(Doc(ep))
  /\ \/ files["terminal"] = Absent
     \/ /\ files["terminal"] = Whole(files["terminal"].doc) /\ Claims
        /\ files["claim"].doc.run = files["terminal"].doc.run
        /\ Sealed(files["terminal"].doc.ep) =>
             Verifies(lane, files["terminal"].doc, TRUE)

AnswerOK ==
  /\ pc # "done" => answer = "none"
  /\ answer = "ok" => /\ made /\ files["terminal"] = Whole(Doc(ep))
                      /\ \A n \in Staged : files[n] = Absent

\* The directory of a recording that ended well.
AtRest ==
  /\ made /\ pc \in {"start", "done"}
  /\ Claims /\ files["terminal"].state = "whole"

Positive == {"published", "published_with_residue"}

\* What an inspection has made of the members it has read.
InspectorOK ==
  /\ DOMAIN insp = {"at", "present", "previous", "last", "bad", "complete", "quiet", "verdict"}
  /\ insp.complete \in BOOLEAN /\ insp.bad \in BOOLEAN /\ insp.quiet \in BOOLEAN
  /\ insp.present \subseteq Names
  /\ insp.at = "idle" => ~insp.bad /\ ~insp.complete /\ insp.last = ""
  /\ insp.complete \/ insp.verdict \in Positive =>
       /\ files["terminal"].state = "whole" /\ Sealed(files["terminal"].doc.ep)
       /\ Verifies(lane, files["terminal"].doc, TRUE)
  /\ insp.quiet /\ insp.at \in Names =>
       /\ AtRest /\ insp.present = {"claim", "terminal"} /\ insp.at \in insp.present
       /\ ~insp.bad /\ insp.last = ""
  /\ insp.quiet /\ insp.at = "done" =>
       AtRest /\ (Sealed(files["terminal"].doc.ep) => insp.verdict \in Positive)

TrialInv ==
  /\ TypeOK
  /\ StatusOK
  /\ BudgetOK
  /\ FrontiersOK
  /\ EventsOK
  /\ ReceiptsOK
  /\ TimesOK
  /\ ClosedOK
  /\ FilesOK
  /\ AnswerOK
  /\ InspectorOK

-----------------------------------------------------------------------------
(***************************************************************************)
(* The session, the episode and its events.                                *)
(***************************************************************************)
\* What the work that is admitted uses up, and nothing else.
LEMMA UsedIs ==
  ASSUME NEW h, IsHost(h), NEW kind, NEW size
  PROVE  LET g == Used(h, kind, size)
         IN  /\ IsHost(g) /\ g.content = h.content + size
             /\ g.model = h.model + (IF kind = "model" THEN 1 ELSE 0)
             /\ g.tool = h.tool + (IF kind = "tool" THEN 1 ELSE 0)
BY DEF Used, IsHost

\* A session that stops keeps what it has used.
LEMMA StopIs ==
  ASSUME NEW h, IsHost(h)
  PROVE  LET g == Stop(h)
         IN  IsHost(g) /\ g.content = h.content /\ g.model = h.model /\ g.tool = h.tool
BY DEF Stop, IsHost

\* A new session has used nothing.
LEMMA NewHostIs ==
  IsHost(NewHost) /\ NewHost.content = 0 /\ NewHost.model = 0 /\ NewHost.tool = 0
BY DEF NewHost, IsHost

\* A new episode.
LEMMA NewEpisodeIs ==
  LET e == NewEpisode
  IN  /\ IsEpisode(e) /\ e.status = "running" /\ e.failure = "" /\ e.terminalFailure = ""
      /\ e.cleanupFailure = "" /\ e.frontiers = <<>> /\ e.events = <<>> /\ e.cleanup = "pending"
BY DEF NewEpisode, IsEpisode

\* What an accepted response uses up.
LEMMA AcceptedIs ==
  ASSUME NEW h, IsHost(h), h.model \in Nat, h.tool \in Nat, NEW r
  PROVE  LET g == Accepted(h, r)
         IN  IsHost(g) /\ g.content = h.content + 1 /\ g.model = h.model /\ g.tool = h.tool
<1> DEFINE u == Used(h, "content", 1)
           g == [u EXCEPT !.seen = @ \cup {r.calls[i] : i \in DOMAIN r.calls},
                          !.pending = r.calls, !.waiting = FALSE]
<1>1. IsHost(u) /\ u.content = h.content + 1 /\ u.model = h.model /\ u.tool = h.tool
  BY UsedIs
<1> HIDE DEF u
<1>2. IsHost(g) /\ g.content = u.content /\ g.model = u.model /\ g.tool = u.tool
  BY <1>1 DEF IsHost
<1> HIDE DEF g
<1>3. Accepted(h, r) = IF r.kind = "final" THEN Stop(g) ELSE g
  BY DEF Accepted, g, u
<1> QED
  BY <1>1, <1>2, <1>3, StopIs

\* Nothing is admitted beyond a budget.
LEMMA AdmittedFits ==
  ASSUME TrialAssumption, NEW h, h.content \in Nat, h.model \in Nat, h.tool \in Nat,
         NEW kind, NEW size \in Nat, AdmitError(h, kind, size) = ""
  PROVE  /\ h.content + size <= ContentBudget
         /\ kind = "model" => h.model + 1 <= ModelRequests
         /\ kind = "tool" => h.tool + 1 <= ToolAttempts
BY DEF AdmitError, TrialAssumption

\* The outcome of an error is not that of a completed trial.
LEMMA ErrorStatus ==
  ASSUME NEW code
  PROVE  StatusOf(code) \notin {"completed", "running"}
BY DEF StatusOf

\* What becomes of an episode: its outcome, one more request, other events.
Outcome(e, status, failure) == [e EXCEPT !.status = status, !.failure = failure]
Asking(e, frontiers) == [e EXCEPT !.frontiers = frontiers]
Recording(e, events) == [e EXCEPT !.events = events]

\* An outcome joins the episode.
LEMMA Ended ==
  ASSUME NEW e, IsEpisode(e), NEW status, NEW failure
  PROVE  LET g == Outcome(e, status, failure)
         IN  /\ IsEpisode(g) /\ g.status = status /\ g.failure = failure
             /\ g.terminalFailure = e.terminalFailure /\ g.cleanupFailure = e.cleanupFailure
             /\ g.frontiers = e.frontiers /\ g.events = e.events
BY DEF IsEpisode, Outcome

\* The episode's next outcome, and nothing else.
LEMMA EpisodeEnds ==
  ASSUME IsEpisode(ep), NEW s, NEW f, ep' = Outcome(ep, s, f)
  PROVE  /\ IsEpisode(ep') /\ ep'.status = s /\ ep'.failure = f
         /\ ep'.terminalFailure = ep.terminalFailure /\ ep'.cleanupFailure = ep.cleanupFailure
         /\ ep'.frontiers = ep.frontiers /\ ep'.events = ep.events
<1> DEFINE g == Outcome(ep, s, f)
<1>1. /\ IsEpisode(g) /\ g.status = s /\ g.failure = f
      /\ g.terminalFailure = ep.terminalFailure /\ g.cleanupFailure = ep.cleanupFailure
      /\ g.frontiers = ep.frontiers /\ g.events = ep.events
  BY Ended
<1> HIDE DEF g
<1> QED
  BY <1>1 DEF g

\* A request joins the episode.
LEMMA Asks ==
  ASSUME NEW e, IsEpisode(e), NEW frontiers
  PROVE  LET g == Asking(e, frontiers)
         IN  /\ IsEpisode(g) /\ g.status = e.status /\ g.failure = e.failure
             /\ g.terminalFailure = e.terminalFailure /\ g.cleanupFailure = e.cleanupFailure
             /\ g.frontiers = frontiers /\ g.events = e.events
BY DEF IsEpisode, Asking

\* The episode's next request, and nothing else.
LEMMA EpisodeAsks ==
  ASSUME IsEpisode(ep), NEW f, ep' = Asking(ep, f)
  PROVE  /\ IsEpisode(ep') /\ ep'.status = ep.status /\ ep'.failure = ep.failure
         /\ ep'.terminalFailure = ep.terminalFailure /\ ep'.cleanupFailure = ep.cleanupFailure
         /\ ep'.frontiers = f /\ ep'.events = ep.events
<1> DEFINE g == Asking(ep, f)
<1>1. /\ IsEpisode(g) /\ g.status = ep.status /\ g.failure = ep.failure
      /\ g.terminalFailure = ep.terminalFailure /\ g.cleanupFailure = ep.cleanupFailure
      /\ g.frontiers = f /\ g.events = ep.events
  BY Asks
<1> HIDE DEF g
<1> QED
  BY <1>1 DEF g

\* An answer to a call joins the episode.
LEMMA Records ==
  ASSUME NEW e, IsEpisode(e), NEW events
  PROVE  LET g == Recording(e, events)
         IN  /\ IsEpisode(g) /\ g.status = e.status /\ g.failure = e.failure
             /\ g.terminalFailure = e.terminalFailure /\ g.cleanupFailure = e.cleanupFailure
             /\ g.frontiers = e.frontiers /\ g.events = events
BY DEF IsEpisode, Recording

\* The episode's next events, and nothing else.
LEMMA EpisodeRecords ==
  ASSUME IsEpisode(ep), NEW s, ep' = Recording(ep, s)
  PROVE  /\ IsEpisode(ep') /\ ep'.status = ep.status /\ ep'.failure = ep.failure
         /\ ep'.terminalFailure = ep.terminalFailure /\ ep'.cleanupFailure = ep.cleanupFailure
         /\ ep'.frontiers = ep.frontiers /\ ep'.events = s
<1> DEFINE g == Recording(ep, s)
<1>1. /\ IsEpisode(g) /\ g.status = ep.status /\ g.failure = ep.failure
      /\ g.terminalFailure = ep.terminalFailure /\ g.cleanupFailure = ep.cleanupFailure
      /\ g.frontiers = ep.frontiers /\ g.events = s
  BY Records
<1> HIDE DEF g
<1> QED
  BY <1>1 DEF g

\* The events that were shown to the model are delivered, and otherwise the same.
LEMMA ShownEvents ==
  ASSUME NEW s \in Seq(Event)
  PROVE  LET t == [i \in DOMAIN s |-> [s[i] EXCEPT !.delivered = TRUE]]
         IN  /\ t \in Seq(Event) /\ Len(t) = Len(s) /\ DOMAIN t = DOMAIN s
             /\ \A i \in DOMAIN s : t[i].sequence = s[i].sequence
             /\ \A i \in DOMAIN s : t[i].committed = s[i].committed
             /\ \A i \in DOMAIN s : t[i].delivered
<1> DEFINE t == [i \in DOMAIN s |-> [s[i] EXCEPT !.delivered = TRUE]]
<1>1. ASSUME NEW i \in DOMAIN s
      PROVE  /\ t[i] \in Event /\ t[i].sequence = s[i].sequence
             /\ t[i].committed = s[i].committed /\ t[i].delivered
  <2>1. s[i] \in Event
    OBVIOUS
  <2>2. t[i] = [s[i] EXCEPT !.delivered = TRUE]
    OBVIOUS
  <2>3. ASSUME NEW x \in Event
        PROVE  LET y == [x EXCEPT !.delivered = TRUE]
               IN  y \in Event /\ y.sequence = x.sequence /\ y.committed = x.committed
                   /\ y.delivered
    BY DEF Event
  <2> QED
    BY <2>1, <2>2, <2>3
<1>2. DOMAIN t = 1..Len(s) /\ Len(s) \in Nat /\ DOMAIN s = 1..Len(s)
  OBVIOUS
<1> HIDE DEF t
<1>3. t = [i \in 1..Len(s) |-> t[i]]
  BY <1>2 DEF t
<1>4. t \in [1..Len(s) -> Event]
  BY <1>1, <1>2, <1>3
<1>5. t \in Seq(Event) /\ Len(t) = Len(s)
  BY <1>2, <1>4
<1> QED
  BY <1>1, <1>2, <1>5 DEF t

\* How many of some events committed.
CountOf(s) == Cardinality({i \in DOMAIN s : s[i].committed})

\* The effects of a replay are the events that committed.
LEMMA CountIs ==
  ASSUME NEW e
  PROVE  ReplayedEffects(e) = CountOf(e.events)
BY DEF ReplayedEffects, CountOf

\* It depends on nothing else of them.
LEMMA SameCount ==
  ASSUME NEW s, NEW t, DOMAIN s = DOMAIN t, \A i \in DOMAIN s : t[i].committed = s[i].committed
  PROVE  CountOf(t) = CountOf(s)
<1>1. {i \in DOMAIN t : t[i].committed} = {i \in DOMAIN s : s[i].committed}
  OBVIOUS
<1> QED
  BY <1>1 DEF CountOf

\* No event, no effect; and one more for one that committed.
LEMMA AppendCount ==
  /\ CountOf(<<>>) = 0
  /\ \A s \in Seq(Event) : \A e \in Event :
       CountOf(Append(s, e)) = CountOf(s) + (IF e.committed THEN 1 ELSE 0)
<1>1. CountOf(<<>>) = 0
  <2>1. {i \in DOMAIN <<>> : <<>>[i].committed} = {}
    OBVIOUS
  <2> QED
    BY <2>1, FS_EmptySet DEF CountOf
<1>2. ASSUME NEW s \in Seq(Event), NEW e \in Event
      PROVE  CountOf(Append(s, e)) = CountOf(s) + (IF e.committed THEN 1 ELSE 0)
  <2> DEFINE n == Len(s)
             t == Append(s, e)
             S == {i \in DOMAIN s : s[i].committed}
             T == {i \in DOMAIN t : t[i].committed}
  <2>1. n \in Nat /\ DOMAIN s = 1..n /\ DOMAIN t = 1..(n + 1)
        /\ (\A i \in 1..n : t[i] = s[i]) /\ t[n + 1] = e
    OBVIOUS
  <2>2. S \subseteq 1..n /\ n + 1 \notin S
    BY <2>1
  <2>3. IsFiniteSet(S) /\ Cardinality(S) \in Nat
    <3>1. IsFiniteSet(1..n)
      BY <2>1, FS_Interval
    <3>2. IsFiniteSet(S)
      BY <2>2, <3>1, FS_Subset
    <3> QED
      BY <3>2, FS_CardinalityType
  <2>4. CASE e.committed
    <3>1. T = S \cup {n + 1}
      BY <2>1, <2>4
    <3>2. Cardinality(S \cup {n + 1}) = Cardinality(S) + 1
      BY <2>2, <2>3, FS_AddElement
    <3>3. CountOf(t) = Cardinality(T) /\ CountOf(s) = Cardinality(S)
      BY DEF CountOf
    <3> QED
      BY <2>4, <3>1, <3>2, <3>3
  <2>5. CASE ~e.committed
    <3>1. T = S
      BY <2>1, <2>5
    <3>2. CountOf(t) = Cardinality(T) /\ CountOf(s) = Cardinality(S)
      BY DEF CountOf
    <3> HIDE DEF S, T
    <3> QED
      BY <2>3, <2>5, <3>1, <3>2
  <2> QED
    BY <2>4, <2>5
<1> QED
  BY <1>1, <1>2

\* What a verifier that finds nothing wrong has found.
LEMMA VerifyIs ==
  ASSUME NEW d, NEW terminal
  PROVE  VerifyError(d, terminal) = "" <=> Verifies(lane, d, terminal)
BY DEF VerifyError, Verifies

-----------------------------------------------------------------------------
(***************************************************************************)
(* The turn loop.                                                          *)
(***************************************************************************)
\* Its steps leave the directory and the inspector alone.
LEMMA LoopStep ==
  ASSUME TrialInv, pc \in {"provision"} \cup Loop, pc' \in Loop \cup {"settle"},
         UNCHANGED <<lane, setBack, runs, insp, made, files, answer, closed>>,
         TypeOK', StatusOK', BudgetOK', FrontiersOK', EventsOK', ReceiptsOK', TimesOK'
  PROVE  TrialInv'
<1>1. ClosedOK'
  BY DEF ClosedOK, Loop
<1>2. FilesOK'
  BY DEF TrialInv, FilesOK, Loop, Before, After, Claims
<1>3. AnswerOK'
  BY DEF TrialInv, AnswerOK, Loop
<1>4. InspectorOK'
  BY DEF TrialInv, InspectorOK, AtRest, Loop, Claims
<1> QED
  BY <1>1, <1>2, <1>3, <1>4 DEF TrialInv

\* Receipts of which at most the last one's outcome differs.
Kept(old, new) ==
  /\ new \in Seq(Receipt) /\ Len(new) = Len(old)
  /\ \A i \in DOMAIN old : new[i].sequence = old[i].sequence /\ new[i].at = old[i].at
  /\ \A i \in 1..(Len(old) - 1) : new[i].outcome = old[i].outcome

\* What holds of all receipts whatever became of the last one.
LEMMA ReceiptsKept ==
  ASSUME TypeOK, ReceiptsOK, TimesOK, Kept(receipts, receipts'),
         client'.sent = client.sent
  PROVE  /\ EveryPostAccounted'
         /\ \A i \in DOMAIN receipts' : Authorized(receipts'[i].at)
         /\ receipts = <<>> => receipts' = <<>>
         /\ pc \in Before \cup Loop /\ ~setBack =>
              /\ \A i \in DOMAIN receipts' : started <= receipts'[i].at /\ receipts'[i].at <= clock
              /\ \A i \in 2..Len(receipts') : receipts'[i - 1].at <= receipts'[i].at
<1>1. /\ receipts \in Seq(Receipt) /\ receipts' \in Seq(Receipt)
      /\ Len(receipts') = Len(receipts) /\ Len(receipts) \in Nat
      /\ DOMAIN receipts = 1..Len(receipts) /\ DOMAIN receipts' = 1..Len(receipts)
  BY DEF TypeOK, Kept
<1>2. EveryPostAccounted'
  BY <1>1 DEF ReceiptsOK, EveryPostAccounted, Kept
<1>3. \A i \in DOMAIN receipts' : Authorized(receipts'[i].at)
  BY <1>1 DEF ReceiptsOK, Kept
<1>4. receipts = <<>> => receipts' = <<>>
  BY <1>1
<1>5. ASSUME pc \in Before \cup Loop, ~setBack
      PROVE  /\ \A i \in DOMAIN receipts' : started <= receipts'[i].at /\ receipts'[i].at <= clock
             /\ \A i \in 2..Len(receipts') : receipts'[i - 1].at <= receipts'[i].at
  <2>1. /\ \A i \in DOMAIN receipts : started <= receipts[i].at /\ receipts[i].at <= clock
        /\ \A i \in 2..Len(receipts) : receipts[i - 1].at <= receipts[i].at
    BY <1>5 DEF TimesOK
  <2>2. \A i \in DOMAIN receipts : receipts'[i].at = receipts[i].at
    BY DEF Kept
  <2>3. \A i \in DOMAIN receipts' : started <= receipts'[i].at /\ receipts'[i].at <= clock
    BY <1>1, <2>1, <2>2
  <2>4. ASSUME NEW i \in 2..Len(receipts')
        PROVE  receipts'[i - 1].at <= receipts'[i].at
    <3>1. i \in DOMAIN receipts /\ i - 1 \in DOMAIN receipts /\ i \in 2..Len(receipts)
      BY <1>1
    <3> QED
      BY <2>1, <2>2, <3>1
  <2> QED
    BY <2>3, <2>4
<1> QED
  BY <1>2, <1>3, <1>4, <1>5

\* An error ends the loop, whatever became of the last receipt and of the effects.
LEMMA BreakKeeps ==
  ASSUME TrialInv, pc \in Loop, NEW code, code # "", Break(host, code),
         UNCHANGED <<untouched, made, files, started, closed>>, effects' \in Nat,
         DOMAIN client' = {"sent", "stopped"}, client'.sent = client.sent,
         Kept(receipts, receipts')
  PROVE  TrialInv'
<1>1. /\ TypeOK /\ StatusOK /\ BudgetOK /\ FrontiersOK /\ EventsOK /\ ReceiptsOK /\ TimesOK
  BY DEF TrialInv
<1>2. /\ host' = Stop(host) /\ pc' = "settle"
      /\ UNCHANGED <<lane, clock, setBack, runs, insp, made, files, answer, started, closed>>
  BY DEF Break, Goto, untouched
<1>3. /\ IsHost(host') /\ host'.content = host.content /\ host'.model = host.model
      /\ host'.tool = host.tool
  BY <1>1, <1>2, StopIs DEF TypeOK
<1>4. PICK status : status \notin {"completed", "running"} /\ ep' = Outcome(ep, status, code)
  BY ErrorStatus DEF Break, Outcome
<1>5. /\ IsEpisode(ep') /\ ep'.status = status /\ ep'.failure = code
      /\ ep'.terminalFailure = ep.terminalFailure /\ ep'.cleanupFailure = ep.cleanupFailure
      /\ ep'.frontiers = ep.frontiers /\ ep'.events = ep.events
  BY <1>1, <1>4, EpisodeEnds DEF TypeOK
<1>6. TypeOK'
  BY <1>1, <1>2, <1>3, <1>5 DEF TypeOK, Kept
<1>7. StatusOK'
  <2>1. ep.terminalFailure = "" /\ ep.cleanupFailure = "" /\ closed = FALSE
    BY <1>1 DEF StatusOK, Loop
  <2>2. closed' = FALSE
    BY <1>2, <2>1
  <2>3. ep'.status # "completed" /\ ep'.failure # ""
    BY <1>4, <1>5
  <2>4. pc' = "settle" /\ ep'.terminalFailure = "" /\ ep'.cleanupFailure = ""
    BY <1>2, <1>5, <2>1
  <2> QED
    BY <2>2, <2>3, <2>4 DEF StatusOK, Before, Loop
<1>8. BudgetOK'
  BY <1>1, <1>3 DEF BudgetOK
<1>9. ~Completed' /\ ~Going'
  BY <1>2, <1>4, <1>5 DEF Completed, Going, Before, Loop
<1>10. FrontiersOK'
  <2>1. Steps' = Steps
    BY <1>2 DEF Steps
  <2>2. pc' \notin Before \cup Loop
    BY <1>2 DEF Before, Loop
  <2> QED
    BY <1>1, <1>2, <1>3, <1>5, <1>9, <2>1, <2>2 DEF FrontiersOK, Asked, Before, Loop
<1>11. EventsOK'
  BY <1>1, <1>5, <1>9 DEF EventsOK
<1>12. ReceiptsOK'
  BY <1>1, <1>2, <1>9, ReceiptsKept DEF ReceiptsOK
<1>13. TimesOK'
  <2>1. pc # "start"
    BY DEF Loop
  <2> QED
    BY <1>1, <1>2, <2>1, ReceiptsKept DEF TimesOK
<1> QED
  BY <1>2, <1>6, <1>7, <1>8, <1>10, <1>11, <1>12, <1>13, LoopStep

\* An error that ends the loop and leaves the requests and the world as they are.
LEMMA BreakHere ==
  ASSUME TrialInv, pc \in Loop, NEW code, code # "", Break(host, code),
         UNCHANGED <<untouched, made, files, started, closed, receipts, effects>>,
         DOMAIN client' = {"sent", "stopped"}, client'.sent = client.sent
  PROVE  TrialInv'
<1>1. effects' \in Nat /\ Kept(receipts, receipts')
  BY DEF TrialInv, TypeOK, Kept
<1> QED
  BY <1>1, BreakKeeps

\* A recorder that returns an error, with the directory as it is by then.
LEMMA Returns ==
  ASSUME TrialInv, pc' = "done", answer' = "error", clock' \in Nat, effects' \in Nat,
         UNCHANGED <<lane, runs, insp, host, client, started, receipts, ep, closed, made, files>>
  PROVE  TrialInv'
<1>1. TypeOK'
  BY DEF TrialInv, TypeOK
<1>2. StatusOK' /\ BudgetOK' /\ FrontiersOK' /\ TimesOK' /\ ClosedOK'
  BY DEF TrialInv, StatusOK, BudgetOK, FrontiersOK, TimesOK, ClosedOK, Before, Loop
<1>3. EventsOK'
  BY DEF TrialInv, EventsOK, Going, Completed, Before, Loop
<1>4. ReceiptsOK'
  BY DEF TrialInv, ReceiptsOK, EveryPostAccounted, Going, Completed, Before, Loop
<1>5. FilesOK'
  BY DEF TrialInv, FilesOK, Before, Loop, After, Claims
<1>6. AnswerOK'
  BY DEF AnswerOK
<1>7. InspectorOK'
  BY DEF TrialInv, InspectorOK, AtRest, Claims
<1> QED
  BY <1>1, <1>2, <1>3, <1>4, <1>5, <1>6, <1>7 DEF TrialInv

\* A private world is provisioned.
LEMMA ProvisionKeeps ==
  ASSUME TrialInv, Provision
  PROVE  TrialInv'
<1>1. /\ pc = "provision" /\ UNCHANGED <<lane, setBack, clock, runs, insp, made, files>>
      /\ UNCHANGED <<host, client, started, receipts, effects, ep, closed>>
  BY DEF Provision, untouched, memory
<1>2. CASE Return("error")
  <2>1. clock' \in Nat /\ effects' \in Nat
    BY <1>1 DEF TrialInv, TypeOK
  <2> QED
    BY <1>1, <1>2, <2>1, Returns DEF Return
<1>3. CASE pc' = "request" /\ UNCHANGED answer
  <2>1. TypeOK'
    BY <1>1, <1>3 DEF TrialInv, TypeOK, Loop
  <2>2. StatusOK' /\ BudgetOK'
    BY <1>1, <1>3 DEF TrialInv, StatusOK, BudgetOK, Loop, Before
  <2>3. FrontiersOK'
    BY <1>1, <1>3 DEF TrialInv, FrontiersOK, Loop, Before, Asked, Completed, Steps
  <2>4. EventsOK'
    BY <1>1, <1>3 DEF TrialInv, EventsOK, Going, Completed, Loop, Before
  <2>5. ReceiptsOK'
    BY <1>1, <1>3 DEF TrialInv, ReceiptsOK, EveryPostAccounted, Going, Completed, Loop, Before
  <2>6. TimesOK'
    BY <1>1, <1>3 DEF TrialInv, TimesOK, Loop, Before
  <2> QED
    BY <1>1, <1>3, <2>1, <2>2, <2>3, <2>4, <2>5, <2>6, LoopStep DEF Loop
<1> QED
  BY <1>2, <1>3 DEF Provision, Goto

\* A place is passed: nothing that the budgets, the requests, the events and the
\* receipts are about changes.
LEMMA PassesOn ==
  ASSUME TrialInv, pc \in Loop, pc' \in Loop,
         UNCHANGED <<untouched, made, files, answer, client, started, receipts, effects, ep>>,
         closed' = closed, IsHost(host'), host'.model = host.model, host'.tool = host.tool,
         host'.content \in Nat, host'.content <= ContentBudget,
         pc' \in Asked => pc \in Asked,
         pc' # "request" => pc # "request", pc = "call" <=> pc' = "call",
         pc \in {"exchange", "boundary"} <=> pc' \in {"exchange", "boundary"},
         lane = "mock" => pc' \notin {"exchange", "boundary", "posted"},
         lane = "live" => pc' # "script", pc = "posted" <=> pc' = "posted"
  PROVE  TrialInv'
<1>1. TypeOK'
  BY DEF TrialInv, TypeOK, untouched
<1>2. StatusOK' /\ BudgetOK'
  BY DEF TrialInv, StatusOK, BudgetOK, Loop, Before
<1>3. FrontiersOK'
  BY DEF TrialInv, FrontiersOK, Loop, Before, Completed, Steps, untouched
<1>4. EventsOK'
  BY DEF TrialInv, EventsOK, Going, Completed, Loop, Before
<1>5. ReceiptsOK'
  BY DEF TrialInv, ReceiptsOK, EveryPostAccounted, Going, Completed, Loop, Before, untouched
<1>6. TimesOK'
  BY DEF TrialInv, TimesOK, Loop, Before, untouched
<1> QED
  BY <1>1, <1>2, <1>3, <1>4, <1>5, <1>6, LoopStep DEF untouched

\* A scripted response.
LEMMA ScriptedReplyKeeps ==
  ASSUME TrialInv, ScriptedReply
  PROVE  TrialInv'
<1>1. IsHost(host) /\ host.content \in Nat /\ host.content <= ContentBudget
  BY DEF TrialInv, TypeOK, BudgetOK
<1>2. /\ pc = "script" /\ pc' = "accept"
      /\ UNCHANGED <<untouched, made, files, answer, client, started, receipts, effects, ep, closed,
                     host>>
  BY DEF ScriptedReply, Goto
<1> QED
  BY <1>1, <1>2, PassesOn DEF Loop, Asked

\* The POST is prepared.
LEMMA ExchangeKeeps ==
  ASSUME TrialInv, Exchange
  PROVE  TrialInv'
<1>1. /\ pc = "exchange"
      /\ UNCHANGED <<untouched, made, files, started, receipts, effects, closed>>
  BY DEF Exchange
<1>2. pc \in Loop /\ DOMAIN client = {"sent", "stopped"} /\ IsHost(host)
      /\ host.content \in Nat /\ host.content <= ContentBudget
  BY <1>1 DEF Loop, TrialInv, TypeOK, BudgetOK
<1>3. ASSUME NEW code, code # "", Break(host, code),
             client' = client \/ client' = [client EXCEPT !.stopped = TRUE]
      PROVE  TrialInv'
  <2>1. DOMAIN client' = {"sent", "stopped"} /\ client'.sent = client.sent
    BY <1>2, <1>3
  <2> QED
    BY <1>1, <1>2, <1>3, <2>1, BreakHere
<1>4. CASE Goto("boundary") /\ UNCHANGED <<host, ep, client>>
  <2>1. lane # "mock"
    BY <1>1 DEF TrialInv, TypeOK, ReceiptsOK
  <2> QED
    BY <1>1, <1>2, <1>4, <2>1, PassesOn DEF Loop, Asked, Goto
<1> QED
  BY <1>3, <1>4 DEF Exchange

\* The bounds of the turn loop are positive numbers.
LEMMA StepsIsNat ==
  ASSUME TypeOK
  PROVE  Steps \in Nat \ {0} /\ (lane = "live" => Steps = MaxRequests)
BY TrialAssumption DEF TypeOK, Steps, TrialAssumption

\* A number joins some numbers.
LEMMA AppendNumber ==
  ASSUME NEW S, NEW s \in Seq(S), NEW x \in S
  PROVE  LET t == Append(s, x)
         IN  /\ t \in Seq(S) /\ Len(t) = Len(s) + 1 /\ Len(s) \in Nat /\ t # <<>>
             /\ DOMAIN s = 1..Len(s) /\ DOMAIN t = 1..(Len(s) + 1)
             /\ \A i \in 1..Len(s) : t[i] = s[i]
             /\ t[Len(s) + 1] = x
OBVIOUS

\* A request is admitted: its frontier is what it shows.
LEMMA RequestKeeps ==
  ASSUME TrialInv, Request
  PROVE  TrialInv'
<1>1. /\ pc = "request"
      /\ UNCHANGED <<untouched, made, files, client, started, receipts, effects, closed>>
  BY DEF Request
<1>2. TypeOK /\ StatusOK /\ BudgetOK /\ FrontiersOK /\ EventsOK /\ ReceiptsOK /\ TimesOK
  BY DEF TrialInv
<1>3. pc \in Loop /\ DOMAIN client = {"sent", "stopped"} /\ IsHost(host)
  BY <1>1, <1>2 DEF Loop, TypeOK
<1>4. ASSUME NEW code, code # "", Break(host, code)
      PROVE  TrialInv'
  BY <1>1, <1>3, <1>4, BreakHere
<1>5. CASE /\ Len(ep.frontiers) < Steps /\ AdmitError(host, "model", 0) = ""
           /\ host' = [Used(host, "model", 0) EXCEPT !.waiting = TRUE]
           /\ ep' = [ep EXCEPT !.frontiers = Append(@, Len(ep.events))]
           /\ Goto(IF lane = "live" THEN "exchange" ELSE "script")
  <2> DEFINE n == Len(ep.events)
             f == ep.frontiers
             g == Append(f, n)
  <2>1. f \in Seq(Nat) /\ ep.events \in Seq(Event) /\ n \in Nat
    BY <1>2 DEF TypeOK
  <2>2. /\ IsHost(host') /\ host'.model = host.model + 1 /\ host'.tool = host.tool
        /\ host'.content = host.content
    <3> DEFINE u == Used(host, "model", 0)
    <3>1. /\ IsHost(u) /\ u.model = host.model + 1 /\ u.tool = host.tool + 0
          /\ u.content = host.content + 0
      BY <1>3, UsedIs
    <3>2. host.tool \in Nat /\ host.content \in Nat
      BY <1>2 DEF TypeOK
    <3>3. host' = [u EXCEPT !.waiting = TRUE]
      BY <1>5
    <3> HIDE DEF u
    <3>4. /\ IsHost(host') /\ host'.model = u.model /\ host'.tool = u.tool
          /\ host'.content = u.content
      BY <3>1, <3>3 DEF IsHost
    <3> QED
      BY <3>1, <3>2, <3>4
  <2>3. host.model + 1 <= ModelRequests
    BY <1>2, <1>5, AdmittedFits, TrialAssumption DEF TypeOK
  <2>4. /\ IsEpisode(ep') /\ ep'.status = ep.status /\ ep'.failure = ep.failure
        /\ ep'.terminalFailure = ep.terminalFailure /\ ep'.cleanupFailure = ep.cleanupFailure
        /\ ep'.frontiers = g /\ ep'.events = ep.events
    <3>1. IsEpisode(ep)
      BY <1>2 DEF TypeOK
    <3>2. ep' = Asking(ep, g)
      BY <1>5 DEF Asking
    <3> HIDE DEF g
    <3> QED
      BY <3>1, <3>2, EpisodeAsks
  <2>5. /\ pc' = (IF lane = "live" THEN "exchange" ELSE "script")
        /\ UNCHANGED <<lane, clock, setBack, runs, insp, made, files, answer, started, closed>>
    BY <1>1, <1>5 DEF Goto, untouched
  <2>6. pc' \in Loop /\ pc' \in Asked /\ pc' # "call" /\ pc' # "posted"
        /\ (lane = "live" <=> pc' \in {"exchange", "boundary"})
    BY <2>5 DEF Loop, Asked
  <2>7. /\ g \in Seq(Nat) /\ Len(g) = Len(f) + 1 /\ Len(f) \in Nat /\ g # <<>>
        /\ DOMAIN f = 1..Len(f) /\ DOMAIN g = 1..(Len(f) + 1)
        /\ \A i \in 1..Len(f) : g[i] = f[i]
        /\ g[Len(f) + 1] = n
    BY <2>1, AppendNumber
  <2> HIDE DEF g
  <2>8. TypeOK'
    BY <1>1, <1>2, <2>2, <2>4, <2>5, <2>6, <2>7 DEF TypeOK
  <2>9. StatusOK' /\ BudgetOK'
    <3>1. StatusOK'
      BY <1>1, <1>2, <2>4, <2>5, <2>6 DEF StatusOK, Loop, Before
    <3> QED
      BY <1>2, <2>2, <2>3, <3>1 DEF BudgetOK
  <2>10. FrontiersOK'
    <3>1. /\ host.model = Len(f) /\ Len(f) < Steps
          /\ \A i \in DOMAIN f : f[i] <= n
          /\ \A i \in 2..Len(f) : f[i] >= f[i - 1]
          /\ f # <<>> => f[1] = 0
          /\ f = <<>> => n = 0
      BY <1>1, <1>2, <1>5 DEF FrontiersOK, Loop
    <3>2. Steps' = Steps /\ Steps \in Nat
      BY <1>2, <2>5, StepsIsNat DEF Steps
    <3>3. host'.model = Len(g) /\ Len(g) <= Steps'
      BY <2>2, <2>7, <3>1, <3>2
    <3>4. ASSUME NEW i \in DOMAIN g PROVE g[i] <= n
      <4>1. CASE i \in 1..Len(f)
        <5>1. i \in DOMAIN f /\ g[i] = f[i]
          BY <2>7, <4>1
        <5> QED
          BY <3>1, <5>1
      <4>2. CASE i = Len(f) + 1
        BY <2>1, <2>7, <4>2
      <4> QED
        BY <2>7, <4>1, <4>2
    <3>5. ASSUME NEW i \in 2..Len(g) PROVE g[i] >= g[i - 1]
      <4>1. CASE i \in 2..Len(f)
        <5>1. i \in 1..Len(f) /\ i - 1 \in 1..Len(f)
          BY <2>7, <4>1
        <5>2. f[i] >= f[i - 1]
          BY <3>1, <4>1
        <5>3. g[i] = f[i] /\ g[i - 1] = f[i - 1]
          BY <2>7, <5>1
        <5> QED
          BY <5>2, <5>3
      <4>2. CASE i = Len(f) + 1
        <5>1. i - 1 \in 1..Len(f) /\ i - 1 \in DOMAIN f
          BY <2>7, <4>2
        <5>2. f[i - 1] <= n
          BY <3>1, <5>1
        <5>3. f[i - 1] \in Nat
          BY <2>1, <5>1
        <5> QED
          BY <2>1, <2>7, <4>2, <5>1, <5>2, <5>3
      <4> QED
        BY <2>7, <4>1, <4>2
    <3>6. g[1] = 0
      <4>1. CASE f = <<>>
        BY <2>7, <3>1, <4>1
      <4>2. CASE f # <<>>
        <5>1. 1 \in 1..Len(f)
          BY <2>1, <4>2
        <5> QED
          BY <2>7, <3>1, <4>2, <5>1
      <4> QED
        BY <4>1, <4>2
    <3>7. g[Len(g)] = n /\ g # <<>>
      BY <2>7
    <3>8. pc' \notin Before /\ pc' # "settle"
      BY <2>6 DEF Loop, Before
    <3> QED
      BY <2>4, <3>3, <3>4, <3>5, <3>6, <3>7, <3>8 DEF FrontiersOK
  <2>11. EventsOK'
    BY <1>1, <1>2, <2>2, <2>4, <2>6 DEF EventsOK, Going, Completed, Loop, Before, ReplayedEffects
  <2>12. ReceiptsOK'
    <3>1. lane = "live" => /\ Len(receipts) = Len(f)
                           /\ \A i \in DOMAIN receipts : Received(receipts[i])
                           /\ Authorized(started)
      BY <1>1, <1>2 DEF ReceiptsOK, Going, Loop
    <3>2. EveryPostAccounted'
      BY <1>1, <1>2 DEF ReceiptsOK, EveryPostAccounted
    <3>3. receipts' = receipts
      BY <1>1
    <3>4. lane = "live" => Len(receipts') = Len(ep'.frontiers) - 1
      BY <2>4, <2>7, <3>1, <3>3
    <3> QED
      BY <1>2, <2>5, <2>6, <3>1, <3>2, <3>3, <3>4 DEF ReceiptsOK
  <2>13. TimesOK'
    BY <1>1, <1>2, <2>5, <2>6 DEF TimesOK, Loop, Before
  <2> QED
    BY <1>1, <1>3, <2>5, <2>6, <2>8, <2>9, <2>10, <2>11, <2>12, <2>13, LoopStep
<1>6. Exhausted # ""
  BY DEF Exhausted
<1> QED
  BY <1>4, <1>5, <1>6 DEF Request

\* A POST leaves the process, and has its receipt.
LEMMA PostKeeps ==
  ASSUME TrialInv, Post
  PROVE  TrialInv'
<1>1. /\ pc = "boundary"
      /\ UNCHANGED <<untouched, made, files, started, reply, effects, closed>>
  BY DEF Post
<1>2. TypeOK /\ StatusOK /\ BudgetOK /\ FrontiersOK /\ EventsOK /\ ReceiptsOK /\ TimesOK
  BY DEF TrialInv
<1>3. pc \in Loop /\ DOMAIN client = {"sent", "stopped"}
  BY <1>1, <1>2 DEF Loop, TypeOK
<1>4. ASSUME NEW code, code # "", Break(host, code), UNCHANGED <<client, receipts>>
      PROVE  TrialInv'
  BY <1>1, <1>3, <1>4, BreakHere
<1>5. CASE /\ Authorized(clock)
           /\ client' = [client EXCEPT !.sent = @ + 1]
           /\ receipts' = Append(receipts, [sequence |-> client.sent + 1, at |-> clock,
                                            outcome |-> "acceptance_unknown"])
           /\ Goto("posted") /\ UNCHANGED <<host, ep>>
  <2> DEFINE r == [sequence |-> client.sent + 1, at |-> clock, outcome |-> "acceptance_unknown"]
             n == Len(receipts)
  <2>1. /\ pc' = "posted"
        /\ UNCHANGED <<lane, clock, setBack, runs, insp, made, files, answer, started, closed,
                       host, ep, effects>>
    BY <1>1, <1>5 DEF Goto, untouched
  <2>2. /\ client.sent \in Nat /\ clock \in Nat /\ receipts \in Seq(Receipt)
        /\ lane \in {"mock", "live"}
    BY <1>2 DEF TypeOK
  <2>3. DOMAIN client' = {"sent", "stopped"} /\ client'.sent = client.sent + 1
    BY <1>3, <1>5
  <2>4. /\ r \in Receipt /\ r.sequence = client.sent + 1 /\ r.at = clock
    BY <2>2 DEF Receipt
  <2>5. receipts' = Append(receipts, r)
    BY <1>5
  <2> HIDE DEF r
  <2>6. /\ receipts' \in Seq(Receipt) /\ Len(receipts') = n + 1 /\ n \in Nat
        /\ DOMAIN receipts = 1..n /\ DOMAIN receipts' = 1..(n + 1)
        /\ \A i \in 1..n : receipts'[i] = receipts[i]
        /\ receipts'[n + 1] = r
    BY <2>2, <2>4, <2>5, AppendNumber
  <2>7. lane = "live"
    BY <1>1, <1>2, <2>2 DEF ReceiptsOK
  <2>8. /\ n = Len(ep.frontiers) - 1 /\ Len(ep.frontiers) <= MaxRequests
        /\ \A i \in DOMAIN receipts : Received(receipts[i])
        /\ Authorized(started) /\ Len(ep.frontiers) \in Nat
    BY <1>1, <1>2, <2>7, StepsIsNat DEF ReceiptsOK, FrontiersOK, Going, Loop, TypeOK
  <2>9. TypeOK'
    BY <1>2, <2>1, <2>2, <2>3, <2>6 DEF TypeOK, Loop
  <2>10. StatusOK' /\ BudgetOK'
    BY <1>1, <1>2, <2>1 DEF StatusOK, BudgetOK, Loop, Before
  <2>11. FrontiersOK'
    BY <1>1, <1>2, <2>1 DEF FrontiersOK, Loop, Before, Asked, Completed, Steps
  <2>12. EventsOK'
    BY <1>1, <1>2, <2>1 DEF EventsOK, Going, Loop, Before, Completed, ReplayedEffects
  <2>13. EveryPostAccounted'
    <3>1. client.sent = n /\ \A i \in DOMAIN receipts : receipts[i].sequence = i
      BY <1>2 DEF ReceiptsOK, EveryPostAccounted
    <3>2. client'.sent = Len(receipts') /\ client'.sent <= MaxRequests
      BY <2>3, <2>6, <2>8, <3>1
    <3>3. ASSUME NEW i \in DOMAIN receipts' PROVE receipts'[i].sequence = i
      <4>1. CASE i \in 1..n
        BY <2>6, <3>1, <4>1
      <4>2. CASE i = n + 1
        BY <2>4, <2>6, <3>1, <4>2
      <4> QED
        BY <2>6, <4>1, <4>2
    <3>4. ASSUME NEW i \in 1..(Len(receipts') - 1)
          PROVE  receipts'[i].outcome = "response_received"
      <4>1. i \in 1..n
        BY <2>6
      <4> QED
        BY <2>6, <2>8, <4>1 DEF Received
    <3> QED
      BY <3>2, <3>3, <3>4 DEF EveryPostAccounted
  <2>14. ReceiptsOK'
    <3>1. ASSUME NEW i \in DOMAIN receipts' PROVE Authorized(receipts'[i].at)
      <4>1. CASE i \in 1..n
        BY <1>2, <2>6, <4>1 DEF ReceiptsOK
      <4>2. CASE i = n + 1
        BY <1>5, <2>4, <2>6, <4>2
      <4> QED
        BY <2>6, <4>1, <4>2
    <3>2. Len(receipts') = Len(ep'.frontiers)
      BY <2>1, <2>6, <2>8
    <3>3. Len(ep'.frontiers) \in Nat
      BY <2>1, <2>8
    <3> QED
      BY <2>1, <2>7, <2>8, <2>13, <3>1, <3>2, <3>3 DEF ReceiptsOK
  <2>15. TimesOK'
    <3> SUFFICES ASSUME ~setBack
                 PROVE  /\ started <= clock
                        /\ \A i \in DOMAIN receipts' :
                             started <= receipts'[i].at /\ receipts'[i].at <= clock
                        /\ \A i \in 2..Len(receipts') : receipts'[i - 1].at <= receipts'[i].at
      BY <2>1 DEF TimesOK
    <3>1. /\ started <= clock
          /\ \A i \in DOMAIN receipts : started <= receipts[i].at /\ receipts[i].at <= clock
          /\ \A i \in 2..Len(receipts) : receipts[i - 1].at <= receipts[i].at
      BY <1>1, <1>2 DEF TimesOK, Loop
    <3>2. ASSUME NEW i \in DOMAIN receipts'
          PROVE  started <= receipts'[i].at /\ receipts'[i].at <= clock
      <4>1. CASE i \in 1..n
        BY <2>6, <3>1, <4>1
      <4>2. CASE i = n + 1
        BY <2>2, <2>4, <2>6, <3>1, <4>2
      <4> QED
        BY <2>6, <4>1, <4>2
    <3>3. ASSUME NEW i \in 2..Len(receipts')
          PROVE  receipts'[i - 1].at <= receipts'[i].at
      <4>1. CASE i \in 2..n
        <5>1. i \in 1..n /\ i - 1 \in 1..n
          BY <2>6, <4>1
        <5>2. receipts'[i] = receipts[i] /\ receipts'[i - 1] = receipts[i - 1]
          BY <2>6, <5>1
        <5> QED
          BY <3>1, <4>1, <5>2
      <4>2. CASE i = n + 1
        <5>1. i - 1 \in 1..n
          BY <2>6, <4>2
        <5>2. receipts'[i - 1] = receipts[i - 1] /\ receipts[i - 1].at <= clock
          BY <2>6, <3>1, <5>1
        <5> QED
          BY <2>4, <2>6, <4>2, <5>2
      <4> QED
        BY <2>6, <4>1, <4>2
    <3> QED
      BY <3>1, <3>2, <3>3
  <2> QED
    BY <1>1, <1>3, <2>1, <2>9, <2>10, <2>11, <2>12, <2>14, <2>15, LoopStep DEF Loop
<1> QED
  BY <1>4, <1>5 DEF Post

\* The last receipt takes an outcome.
LEMMA OutcomeKept ==
  ASSUME NEW s \in Seq(Receipt), s # <<>>,
         NEW o \in {"acceptance_unknown", "http_error", "response_received"}
  PROVE  LET t == [s EXCEPT ![Len(s)].outcome = o]
         IN  Kept(s, t) /\ t[Len(s)].outcome = o /\ DOMAIN t = 1..Len(s)
             /\ Len(s) \in Nat \ {0} /\ DOMAIN s = 1..Len(s)
<1> DEFINE n == Len(s)
           r == [s[n] EXCEPT !.outcome = o]
           t == [s EXCEPT ![n] = r]
<1>1. n \in Nat \ {0} /\ DOMAIN s = 1..n /\ s[n] \in Receipt
  OBVIOUS
<1>2. r \in Receipt /\ r.sequence = s[n].sequence /\ r.at = s[n].at /\ r.outcome = o
  BY <1>1 DEF Receipt
<1>3. [s EXCEPT ![Len(s)].outcome = o] = t
  OBVIOUS
<1>4. n = Len(s)
  OBVIOUS
<1> HIDE DEF r, n
<1>5. /\ t \in Seq(Receipt) /\ Len(t) = n /\ t[n] = r /\ DOMAIN t = 1..n
      /\ \A i \in 1..(n - 1) : t[i] = s[i]
  <2>1. DOMAIN t = 1..n /\ t[n] = r /\ \A i \in 1..(n - 1) : t[i] = s[i]
    BY <1>1
  <2>2. \A i \in 1..(n - 1) : s[i] \in Receipt
    BY <1>1
  <2>3. ASSUME NEW i \in 1..n PROVE t[i] \in Receipt
    <3>1. i = n \/ i \in 1..(n - 1)
      BY <1>1
    <3> QED
      BY <1>2, <2>1, <2>2, <3>1
  <2>4. t = [i \in 1..n |-> t[i]]
    BY <2>1
  <2> HIDE DEF t
  <2>5. t \in [1..n -> Receipt]
    BY <2>3, <2>4
  <2> QED
    BY <1>1, <2>1, <2>5
<1> HIDE DEF t
<1>6. Kept(s, t)
  <2>1. ASSUME NEW i \in DOMAIN s PROVE t[i].sequence = s[i].sequence /\ t[i].at = s[i].at
    <3>1. CASE i = n
      BY <1>2, <1>5, <3>1
    <3>2. CASE i \in 1..(n - 1)
      BY <1>5, <3>2
    <3> QED
      BY <1>1, <3>1, <3>2
  <2> QED
    BY <1>5, <1>4, <2>1 DEF Kept
<1> QED
  BY <1>1, <1>2, <1>3, <1>4, <1>5, <1>6

\* The answer to a POST, or what stands for it.
LEMMA ProviderAnswerKeeps ==
  ASSUME TrialInv, ProviderAnswer
  PROVE  TrialInv'
<1>1. /\ pc = "posted"
      /\ UNCHANGED <<untouched, made, files, started, effects, closed>>
  BY DEF ProviderAnswer
<1>2. TypeOK /\ StatusOK /\ BudgetOK /\ FrontiersOK /\ EventsOK /\ ReceiptsOK /\ TimesOK
  BY DEF TrialInv
<1>3. pc \in Loop /\ DOMAIN client = {"sent", "stopped"} /\ receipts \in Seq(Receipt)
      /\ effects \in Nat /\ lane \in {"mock", "live"}
  BY <1>1, <1>2 DEF Loop, TypeOK
<1>4. lane = "live"
  BY <1>1, <1>2, <1>3 DEF ReceiptsOK
<1>5. ep.frontiers # <<>> /\ ep.frontiers \in Seq(Nat) /\ Len(receipts) = Len(ep.frontiers)
      /\ Authorized(started)
  BY <1>1, <1>2, <1>4 DEF FrontiersOK, ReceiptsOK, Asked, Going, Loop, TypeOK
<1>6. receipts # <<>>
  BY <1>3, <1>5
<1>7. ASSUME NEW o \in {"acceptance_unknown", "http_error"},
             receipts' = [receipts EXCEPT ![Len(receipts)].outcome = o],
             client' = [client EXCEPT !.stopped = TRUE], Break(host, "HOST_ERROR")
      PROVE  TrialInv'
  <2>1. Kept(receipts, receipts')
    BY <1>3, <1>6, <1>7, OutcomeKept
  <2>2. DOMAIN client' = {"sent", "stopped"} /\ client'.sent = client.sent
    BY <1>3, <1>7
  <2>3. effects' \in Nat
    BY <1>1, <1>3
  <2> QED
    BY <1>1, <1>3, <1>7, <2>1, <2>2, <2>3, BreakKeeps
<1>8. CASE /\ receipts' = [receipts EXCEPT ![Len(receipts)].outcome = "response_received"]
           /\ Goto("accept") /\ UNCHANGED <<host, ep, client>>
  <2>1. /\ pc' = "accept"
        /\ UNCHANGED <<lane, clock, setBack, runs, insp, made, files, answer, started, closed,
                       host, ep, effects, client>>
    BY <1>1, <1>8 DEF Goto, untouched
  <2>2. /\ Kept(receipts, receipts') /\ receipts'[Len(receipts)].outcome = "response_received"
        /\ DOMAIN receipts' = 1..Len(receipts) /\ Len(receipts) \in Nat \ {0}
    BY <1>3, <1>6, <1>8, OutcomeKept
  <2>3. TypeOK'
    BY <1>2, <2>1, <2>2 DEF TypeOK, Loop, Kept
  <2>4. StatusOK' /\ BudgetOK'
    BY <1>1, <1>2, <2>1 DEF StatusOK, BudgetOK, Loop, Before
  <2>5. FrontiersOK'
    BY <1>1, <1>2, <2>1 DEF FrontiersOK, Loop, Before, Asked, Completed, Steps
  <2>6. EventsOK'
    BY <1>1, <1>2, <2>1 DEF EventsOK, Going, Loop, Before, Completed, ReplayedEffects
  <2>7. /\ EveryPostAccounted'
        /\ \A i \in DOMAIN receipts' : Authorized(receipts'[i].at)
        /\ pc \in Before \cup Loop /\ ~setBack =>
             /\ \A i \in DOMAIN receipts' : started <= receipts'[i].at /\ receipts'[i].at <= clock
             /\ \A i \in 2..Len(receipts') : receipts'[i - 1].at <= receipts'[i].at
    BY <1>2, <2>1, <2>2, ReceiptsKept
  <2>8. ReceiptsOK'
    <3>1. \A i \in 1..(Len(receipts) - 1) : receipts'[i].outcome = "response_received"
      BY <2>2, <2>7 DEF EveryPostAccounted, Kept
    <3>2. \A i \in DOMAIN receipts' : Received(receipts'[i])
      BY <2>2, <3>1 DEF Received
    <3>3. Len(receipts') = Len(ep'.frontiers) /\ Len(ep'.frontiers) \in Nat
      BY <1>5, <2>1, <2>2 DEF Kept
    <3> QED
      BY <1>4, <1>5, <2>1, <2>7, <3>2, <3>3 DEF ReceiptsOK
  <2>9. TimesOK'
    BY <1>1, <1>2, <1>3, <2>1, <2>7 DEF TimesOK, Loop, Before
  <2> QED
    BY <1>1, <1>3, <2>1, <2>3, <2>4, <2>5, <2>6, <2>8, <2>9, LoopStep DEF Loop
<1> QED
  BY <1>7, <1>8 DEF ProviderAnswer

\* An answer to a request shows which calls were delivered, and may end the trial.
LEMMA EpisodeAnswered ==
  ASSUME IsEpisode(ep), NEW events, NEW s, NEW f, ep' = Outcome(Recording(ep, events), s, f)
  PROVE  /\ IsEpisode(ep') /\ ep'.status = s /\ ep'.failure = f
         /\ ep'.terminalFailure = ep.terminalFailure /\ ep'.cleanupFailure = ep.cleanupFailure
         /\ ep'.frontiers = ep.frontiers /\ ep'.events = events
<1> DEFINE r == Recording(ep, events)
           g == Outcome(r, s, f)
<1>1. /\ IsEpisode(r) /\ r.terminalFailure = ep.terminalFailure
      /\ r.cleanupFailure = ep.cleanupFailure /\ r.frontiers = ep.frontiers /\ r.events = events
  BY Records
<1> HIDE DEF r
<1>2. /\ IsEpisode(g) /\ g.status = s /\ g.failure = f
      /\ g.terminalFailure = r.terminalFailure /\ g.cleanupFailure = r.cleanupFailure
      /\ g.frontiers = r.frontiers /\ g.events = r.events
  BY <1>1, Ended
<1> HIDE DEF g
<1> QED
  BY <1>1, <1>2 DEF g, r

\* A response is accepted, or ends the trial.
LEMMA AcceptKeeps ==
  ASSUME TrialInv, Accept
  PROVE  TrialInv'
<1> DEFINE shown == [i \in DOMAIN ep.events |-> [ep.events[i] EXCEPT !.delivered = TRUE]]
           e == AcceptError(host, reply)
           status == IF e # "" THEN StatusOf(e)
                     ELSE IF reply.kind = "final" THEN "completed" ELSE ep.status
           failure == IF e # "" THEN e ELSE ep.failure
<1>1. /\ pc = "accept"
      /\ UNCHANGED <<lane, clock, setBack, runs, insp, made, files, answer, client, started,
                     receipts, effects, closed>>
  BY DEF Accept, untouched, Goto
<1>2. TypeOK /\ StatusOK /\ BudgetOK /\ FrontiersOK /\ EventsOK /\ ReceiptsOK /\ TimesOK
  BY DEF TrialInv
<1>3. /\ host' = (IF e = "" THEN Accepted(host, reply) ELSE Stop(host))
      /\ pc' = (IF e # "" \/ reply.kind = "final" THEN "settle" ELSE "dispatch")
  BY DEF Accept, Goto
<1>4. ep' = Outcome(Recording(ep, shown), status, failure)
  BY <1>2 DEF Accept, Outcome, Recording, TypeOK, IsEpisode
<1>5. /\ shown \in Seq(Event) /\ Len(shown) = Len(ep.events) /\ DOMAIN shown = DOMAIN ep.events
      /\ \A i \in DOMAIN ep.events : shown[i].sequence = ep.events[i].sequence
      /\ \A i \in DOMAIN ep.events : shown[i].committed = ep.events[i].committed
      /\ \A i \in DOMAIN ep.events : shown[i].delivered
  BY <1>2, ShownEvents DEF TypeOK
<1> HIDE DEF shown
<1>6. /\ IsEpisode(ep') /\ ep'.status = status /\ ep'.failure = failure
      /\ ep'.terminalFailure = ep.terminalFailure /\ ep'.cleanupFailure = ep.cleanupFailure
      /\ ep'.frontiers = ep.frontiers /\ ep'.events = shown
  BY <1>2, <1>4, EpisodeAnswered DEF TypeOK
<1>7. e = "" => host.content + 1 <= ContentBudget
  <2> SUFFICES ASSUME e = "" PROVE host.content + 1 <= ContentBudget
    OBVIOUS
  <2>1. AdmitError(host, "content", 1) = ""
    BY DEF AcceptError
  <2> QED
    BY <1>2, <2>1, AdmittedFits, TrialAssumption DEF TypeOK
<1>8. /\ IsHost(host') /\ host'.model = host.model /\ host'.tool = host.tool
      /\ host'.content \in Nat /\ host'.content <= ContentBudget
  <2>1. /\ IsHost(host) /\ host.model \in Nat /\ host.tool \in Nat /\ host.content \in Nat
        /\ host.content <= ContentBudget
    BY <1>2 DEF TypeOK, BudgetOK
  <2>2. CASE e = ""
    <3>1. host' = Accepted(host, reply)
      BY <1>3, <2>2
    <3>2. /\ IsHost(host') /\ host'.model = host.model /\ host'.tool = host.tool
          /\ host'.content = host.content + 1
      BY <2>1, <3>1, AcceptedIs
    <3>3. host.content + 1 <= ContentBudget
      BY <1>7, <2>2
    <3> QED
      BY <2>1, <3>2, <3>3
  <2>3. CASE e # ""
    <3>1. host' = Stop(host)
      BY <1>3, <2>3
    <3>2. /\ IsHost(host') /\ host'.model = host.model /\ host'.tool = host.tool
          /\ host'.content = host.content
      BY <2>1, <3>1, StopIs
    <3> QED
      BY <2>1, <3>2
  <2> QED
    BY <2>2, <2>3
<1>9. /\ e # "" => status # "completed" /\ status # "running" /\ failure # ""
      /\ e = "" => failure = ep.failure
      /\ e = "" /\ reply.kind = "final" => status = "completed"
      /\ e = "" /\ reply.kind # "final" => status = ep.status
  BY ErrorStatus
<1> HIDE DEF e, status, failure
<1>10. pc' = "settle" \/ pc' = "dispatch"
  BY <1>3
<1>11. Completed' => e = ""
  BY <1>3, <1>6, <1>9 DEF Completed
<1>12. TypeOK'
  BY <1>1, <1>2, <1>5, <1>6, <1>8, <1>10 DEF TypeOK, Loop
<1>13. ep.status = "running" /\ ep.failure = "" /\ closed = FALSE
       /\ ep.terminalFailure = "" /\ ep.cleanupFailure = ""
  BY <1>1, <1>2 DEF StatusOK, Loop
<1>14. StatusOK'
  <2>1. pc' = "settle" => (ep'.status = "completed" <=> ep'.failure = "")
    BY <1>3, <1>6, <1>9, <1>13
  <2>2. pc' = "dispatch" => ep'.status = "running" /\ ep'.failure = ""
    BY <1>3, <1>6, <1>9, <1>13
  <2>3. closed' = FALSE
    BY <1>1, <1>13
  <2> QED
    BY <1>6, <1>10, <1>13, <2>1, <2>2, <2>3 DEF StatusOK, Loop, Before
<1>15. BudgetOK'
  BY <1>2, <1>8 DEF BudgetOK
<1>16. FrontiersOK'
  <2>1. Steps' = Steps
    BY <1>1 DEF Steps
  <2>2. /\ host.model = Len(ep.frontiers) /\ Len(ep.frontiers) <= Steps
        /\ \A i \in DOMAIN ep.frontiers : ep.frontiers[i] <= Len(ep.events)
        /\ \A i \in 2..Len(ep.frontiers) : ep.frontiers[i] >= ep.frontiers[i - 1]
        /\ ep.frontiers # <<>> /\ ep.frontiers[1] = 0
        /\ ep.frontiers[Len(ep.frontiers)] = Len(ep.events)
    BY <1>1, <1>2 DEF FrontiersOK, Loop, Asked
  <2> QED
    BY <1>5, <1>6, <1>8, <1>10, <2>1, <2>2 DEF FrontiersOK, Before
<1>17. EventsOK'
  <2>1. host.tool = Len(ep.events) /\ effects = ReplayedEffects(ep)
    <3>1. Going /\ pc # "call"
      BY <1>1 DEF Going, Loop
    <3>2. ep.events \in Seq(Event)
      BY <1>2 DEF TypeOK
    <3> QED
      BY <1>2, <3>1, <3>2 DEF EventsOK
  <2>2. ReplayedEffects(ep)' = ReplayedEffects(ep)
    <3>1. ReplayedEffects(ep') = CountOf(shown)
      BY <1>6, CountIs
    <3>2. ReplayedEffects(ep) = CountOf(ep.events)
      BY CountIs
    <3>3. CountOf(shown) = CountOf(ep.events)
      BY <1>5, SameCount
    <3> QED
      BY <3>1, <3>2, <3>3
  <2>3. \A i \in DOMAIN ep'.events : ep'.events[i].sequence = i
    BY <1>2, <1>5, <1>6 DEF EventsOK
  <2>4. \A i \in DOMAIN ep'.events : ep'.events[i].delivered
    BY <1>5, <1>6
  <2>5. host'.tool = Len(ep'.events) + 0 /\ pc' # "call"
    BY <1>2, <1>5, <1>6, <1>8, <1>10, <2>1 DEF TypeOK
  <2> QED
    BY <1>1, <2>1, <2>2, <2>3, <2>4, <2>5 DEF EventsOK
<1>18. ReceiptsOK'
  <2>1. lane = "live" => /\ Len(receipts) = Len(ep.frontiers) - 0
                         /\ \A i \in DOMAIN receipts : Received(receipts[i])
                         /\ Authorized(started)
    BY <1>1, <1>2 DEF ReceiptsOK, Going, Loop
  <2>2. EveryPostAccounted'
    BY <1>1, <1>2 DEF ReceiptsOK, EveryPostAccounted
  <2> QED
    BY <1>1, <1>2, <1>6, <1>10, <2>1, <2>2 DEF ReceiptsOK
<1>19. TimesOK'
  BY <1>1, <1>2, <1>10 DEF TimesOK, Loop, Before
<1> QED
  BY <1>1, <1>10, <1>12, <1>14, <1>15, <1>16, <1>17, <1>18, <1>19, LoopStep DEF Loop

\* A tool call is admitted: an attempt is used up.
LEMMA AdmitToolKeeps ==
  ASSUME TrialInv, AdmitTool
  PROVE  TrialInv'
<1> DEFINE e == IF host.stopped \/ host.admitted \/ host.pending = <<>>
                THEN "HOST_ERROR" ELSE AdmitError(host, "tool", 0)
<1>1. /\ pc = "dispatch"
      /\ UNCHANGED <<untouched, made, files, client, started, receipts, effects, closed>>
  BY DEF AdmitTool
<1>2. TypeOK /\ StatusOK /\ BudgetOK /\ FrontiersOK /\ EventsOK /\ ReceiptsOK /\ TimesOK
  BY DEF TrialInv
<1>3. pc \in Loop /\ DOMAIN client = {"sent", "stopped"} /\ IsHost(host)
  BY <1>1, <1>2 DEF Loop, TypeOK
<1>4. ASSUME NEW code, code # "", Break(host, code)
      PROVE  TrialInv'
  BY <1>1, <1>3, <1>4, BreakHere
<1>5. CASE /\ e = "" /\ host' = [Used(host, "tool", 0) EXCEPT !.admitted = TRUE]
           /\ Goto("call") /\ UNCHANGED ep
  <2>1. /\ IsHost(host') /\ host'.model = host.model /\ host'.tool = host.tool + 1
        /\ host'.content = host.content
    <3> DEFINE u == Used(host, "tool", 0)
    <3>1. /\ IsHost(u) /\ u.model = host.model + 0 /\ u.tool = host.tool + 1
          /\ u.content = host.content + 0
      BY <1>3, UsedIs
    <3>2. host.model \in Nat /\ host.content \in Nat
      BY <1>2 DEF TypeOK
    <3>3. host' = [u EXCEPT !.admitted = TRUE]
      BY <1>5
    <3> HIDE DEF u
    <3>4. /\ IsHost(host') /\ host'.model = u.model /\ host'.tool = u.tool
          /\ host'.content = u.content
      BY <3>1, <3>3 DEF IsHost
    <3> QED
      BY <3>1, <3>2, <3>4
  <2>2. host.tool + 1 <= ToolAttempts
    <3>1. AdmitError(host, "tool", 0) = ""
      BY <1>5
    <3> QED
      BY <1>2, <3>1, AdmittedFits, TrialAssumption DEF TypeOK
  <2>3. /\ pc' = "call"
        /\ UNCHANGED <<lane, clock, setBack, runs, insp, made, files, answer, client, started,
                       receipts, effects, ep, closed>>
    BY <1>1, <1>5 DEF Goto, untouched
  <2>4. TypeOK'
    BY <1>2, <2>1, <2>3 DEF TypeOK, Loop
  <2>5. StatusOK'
    BY <1>1, <1>2, <2>3 DEF StatusOK, Loop, Before
  <2>6. BudgetOK'
    BY <1>2, <2>1, <2>2 DEF BudgetOK
  <2>7. FrontiersOK'
    BY <1>1, <1>2, <2>1, <2>3 DEF FrontiersOK, Loop, Before, Asked, Completed, Steps
  <2>8. EventsOK'
    <3>1. host.tool = Len(ep.events) + 0 /\ effects = ReplayedEffects(ep)
      BY <1>1, <1>2 DEF EventsOK, Going, Loop
    <3>2. Len(ep.events) \in Nat
      BY <1>2 DEF TypeOK
    <3> QED
      BY <1>2, <2>1, <2>3, <3>1, <3>2 DEF EventsOK, Completed, ReplayedEffects
  <2>9. ReceiptsOK'
    BY <1>1, <1>2, <2>3 DEF ReceiptsOK, EveryPostAccounted, Going, Loop, Before
  <2>10. TimesOK'
    BY <1>1, <1>2, <2>3 DEF TimesOK, Loop, Before
  <2> QED
    BY <1>1, <1>3, <2>3, <2>4, <2>5, <2>6, <2>7, <2>8, <2>9, <2>10, LoopStep DEF Loop
<1> QED
  BY <1>4, <1>5 DEF AdmitTool

\* An answer to a call is one more event.
LEMMA AppendEvent ==
  ASSUME NEW s \in Seq(Event), NEW n \in Nat, NEW c \in BOOLEAN
  PROVE  LET e == [sequence |-> n, committed |-> c, delivered |-> FALSE]
             t == Append(s, e)
         IN  /\ t \in Seq(Event) /\ Len(t) = Len(s) + 1 /\ Len(s) \in Nat
             /\ DOMAIN s = 1..Len(s) /\ DOMAIN t = 1..(Len(s) + 1)
             /\ \A i \in 1..Len(s) : t[i] = s[i]
             /\ t[Len(s) + 1].sequence = n
             /\ CountOf(t) = CountOf(s) + (IF c THEN 1 ELSE 0)
<1> DEFINE e == [sequence |-> n, committed |-> c, delivered |-> FALSE]
<1>1. e \in Event /\ e.sequence = n /\ e.committed = c
  BY DEF Event
<1> HIDE DEF e
<1>2. CountOf(Append(s, e)) = CountOf(s) + (IF e.committed THEN 1 ELSE 0)
  BY <1>1, AppendCount
<1>3. CountOf(Append(s, e)) = CountOf(s) + (IF c THEN 1 ELSE 0)
  BY <1>1, <1>2, Zenon
<1> QED
  BY <1>1, <1>3, AppendNumber DEF e

\* A call is answered, refused, or fails with or without its effect.
LEMMA CallToolKeeps ==
  ASSUME TrialInv, CallTool
  PROVE  TrialInv'
<1>1. /\ pc = "call"
      /\ UNCHANGED <<untouched, made, files, client, started, receipts, closed>>
  BY DEF CallTool
<1>2. TypeOK /\ StatusOK /\ BudgetOK /\ FrontiersOK /\ EventsOK /\ ReceiptsOK /\ TimesOK
  BY DEF TrialInv
<1>3. pc \in Loop /\ DOMAIN client = {"sent", "stopped"} /\ effects \in Nat
      /\ receipts \in Seq(Receipt)
  BY <1>1, <1>2 DEF Loop, TypeOK
<1>4. ASSUME NEW code, code # "", Break(host, code), effects' \in {effects, effects + 1}
      PROVE  TrialInv'
  <2>1. effects' \in Nat
    <3>1. effects' = effects \/ effects' = effects + 1
      BY <1>4
    <3> QED
      BY <1>3, <3>1
  <2>2. DOMAIN client' = {"sent", "stopped"} /\ client'.sent = client.sent /\ receipts' = receipts
    BY <1>1, <1>3
  <2>3. Kept(receipts, receipts')
    BY <1>3, <2>2 DEF Kept
  <2> QED
    BY <1>1, <1>3, <1>4, <2>1, <2>2, <2>3, BreakKeeps
<1>5. ASSUME NEW c \in BOOLEAN,
             effects' = effects + (IF c THEN 1 ELSE 0),
             ep' = [ep EXCEPT !.events = Append(@, [sequence |-> host.tool, committed |-> c,
                                                    delivered |-> FALSE])],
             Goto("deliver"), UNCHANGED host
      PROVE  TrialInv'
  <2> DEFINE r == [sequence |-> host.tool, committed |-> c, delivered |-> FALSE]
             s == ep.events
             t == Append(s, r)
  <2>1. /\ pc' = "deliver"
        /\ UNCHANGED <<lane, clock, setBack, runs, insp, made, files, answer, client, started,
                       receipts, host, closed>>
    BY <1>1, <1>5 DEF Goto, untouched
  <2>2. s \in Seq(Event) /\ host.tool \in Nat /\ IsEpisode(ep)
    BY <1>2 DEF TypeOK
  <2>3. /\ t \in Seq(Event) /\ Len(t) = Len(s) + 1 /\ Len(s) \in Nat
        /\ DOMAIN s = 1..Len(s) /\ DOMAIN t = 1..(Len(s) + 1)
        /\ \A i \in 1..Len(s) : t[i] = s[i]
        /\ t[Len(s) + 1].sequence = host.tool
        /\ CountOf(t) = CountOf(s) + (IF c THEN 1 ELSE 0)
    BY <2>2, AppendEvent
  <2>4. ep' = Recording(ep, t)
    BY <1>5 DEF Recording
  <2> HIDE DEF t
  <2>5. /\ IsEpisode(ep') /\ ep'.status = ep.status /\ ep'.failure = ep.failure
        /\ ep'.terminalFailure = ep.terminalFailure /\ ep'.cleanupFailure = ep.cleanupFailure
        /\ ep'.frontiers = ep.frontiers /\ ep'.events = t
    BY <2>2, <2>4, EpisodeRecords
  <2>6. effects' \in Nat
    BY <1>3, <1>5
  <2>7. TypeOK'
    BY <1>2, <2>1, <2>3, <2>5, <2>6 DEF TypeOK, Loop
  <2>8. StatusOK' /\ BudgetOK'
    BY <1>1, <1>2, <2>1, <2>5 DEF StatusOK, BudgetOK, Loop, Before
  <2>9. FrontiersOK'
    <3> DEFINE f == ep.frontiers
    <3>1. /\ host.model = Len(f) /\ Len(f) <= Steps
          /\ \A i \in DOMAIN f : f[i] <= Len(s)
          /\ \A i \in 2..Len(f) : f[i] >= f[i - 1]
          /\ f # <<>> => f[1] = 0
          /\ f = <<>> => s = <<>>
      BY <1>1, <1>2 DEF FrontiersOK, Loop
    <3>2. f # <<>>
      BY <1>1, <1>2 DEF FrontiersOK, Loop
    <3>3. Steps' = Steps /\ f \in Seq(Nat)
      BY <1>2, <2>1 DEF Steps, TypeOK
    <3>4. ASSUME NEW i \in DOMAIN f PROVE f[i] <= Len(t)
      <4>1. f[i] \in Nat /\ f[i] <= Len(s)
        BY <3>1, <3>3
      <4> QED
        BY <2>3, <4>1
    <3>5. pc' \notin Before /\ pc' \notin Asked /\ ~Completed'
      BY <2>1 DEF Before, Asked, Completed
    <3> QED
      BY <2>1, <2>5, <3>1, <3>2, <3>3, <3>4, <3>5 DEF FrontiersOK
  <2>10. EventsOK'
    <3>1. /\ host.tool = Len(s) + 1 /\ effects = ReplayedEffects(ep)
          /\ \A i \in DOMAIN s : s[i].sequence = i
      BY <1>1, <1>2 DEF EventsOK, Going, Loop
    <3>2. ReplayedEffects(ep') = CountOf(t) /\ ReplayedEffects(ep) = CountOf(s)
      BY <2>5, CountIs
    <3>3. ASSUME NEW i \in DOMAIN t PROVE t[i].sequence = i
      <4>1. CASE i \in 1..Len(s)
        BY <2>3, <3>1, <4>1
      <4>2. CASE i = Len(s) + 1
        BY <2>3, <3>1, <4>2
      <4> QED
        BY <2>3, <4>1, <4>2
    <3>4. effects' = ReplayedEffects(ep')
      BY <1>5, <2>3, <3>1, <3>2
    <3>5. ~Completed' /\ pc' # "call"
      BY <2>1 DEF Completed
    <3> QED
      BY <2>1, <2>3, <2>5, <3>1, <3>3, <3>4, <3>5 DEF EventsOK
  <2>11. ReceiptsOK'
    BY <1>1, <1>2, <2>1, <2>5 DEF ReceiptsOK, EveryPostAccounted, Going, Loop, Before
  <2>12. TimesOK'
    BY <1>1, <1>2, <2>1 DEF TimesOK, Loop, Before
  <2> QED
    BY <1>1, <1>3, <2>1, <2>7, <2>8, <2>9, <2>10, <2>11, <2>12, LoopStep DEF Loop
<1> QED
  BY <1>4, <1>5 DEF CallTool

\* The result of a call is delivered to the session.
LEMMA DeliverKeeps ==
  ASSUME TrialInv, Deliver
  PROVE  TrialInv'
<1>1. /\ pc = "deliver"
      /\ UNCHANGED <<untouched, made, files, client, started, receipts, effects, closed>>
  BY DEF Deliver
<1>2. /\ pc \in Loop /\ DOMAIN client = {"sent", "stopped"} /\ IsHost(host)
      /\ host.model \in Nat /\ host.tool \in Nat /\ host.content \in Nat
  BY <1>1 DEF Loop, TrialInv, TypeOK
<1>3. ASSUME NEW code, code # "", Break(host, code)
      PROVE  TrialInv'
  BY <1>1, <1>2, <1>3, BreakHere
<1>4. CASE /\ AdmitError(host, "content", 1) = ""
           /\ host' = [Used(host, "content", 1) EXCEPT !.pending = Tail(@), !.admitted = FALSE]
           /\ Goto(IF Len(host.pending) = 1 THEN "request" ELSE "dispatch")
           /\ UNCHANGED ep
  <2> DEFINE u == Used(host, "content", 1)
  <2>1. /\ IsHost(u) /\ u.model = host.model + 0 /\ u.tool = host.tool + 0
        /\ u.content = host.content + 1
    BY <1>2, UsedIs
  <2>2. host' = [u EXCEPT !.pending = Tail(@), !.admitted = FALSE]
    BY <1>4
  <2> HIDE DEF u
  <2>3. /\ IsHost(host') /\ host'.model = u.model /\ host'.tool = u.tool
        /\ host'.content = u.content
    BY <2>1, <2>2 DEF IsHost
  <2>4. host.content + 1 <= ContentBudget
    BY <1>2, <1>4, AdmittedFits, TrialAssumption
  <2>5. /\ IsHost(host') /\ host'.model = host.model /\ host'.tool = host.tool
        /\ host'.content \in Nat /\ host'.content <= ContentBudget
    BY <1>2, <2>1, <2>3, <2>4
  <2>6. pc' \in {"request", "dispatch"} /\ UNCHANGED <<ep, answer>>
    BY <1>4 DEF Goto
  <2> QED
    BY <1>1, <1>2, <2>5, <2>6, PassesOn DEF Loop, Asked
<1> QED
  BY <1>3, <1>4 DEF Deliver

-----------------------------------------------------------------------------
(***************************************************************************)
(* The end of the trial, its evidence and its publication.                 *)
(***************************************************************************)
\* While a recorder is at work no inspection rests on an acknowledged directory.
LEMMA InspectorApart ==
  ASSUME TrialInv, pc \notin {"start", "done"}, UNCHANGED <<lane, insp>>,
         files'["terminal"] = files["terminal"]
  PROVE  InspectorOK'
BY DEF TrialInv, InspectorOK, AtRest

\* What the turn loop leaves is judged, or cannot be read.
Judging(e, m, t, c, a) ==
  [e EXCEPT !.model = m, !.tool = t, !.content = c, !.after = a, !.graded = TRUE]
Unread(e, m, t, c, f) ==
  [e EXCEPT !.model = m, !.tool = t, !.content = c,
            !.terminalFailure = "TERMINAL_INSPECTION_FAILED", !.failure = f]

\* A judged episode keeps its outcome, its requests and its events.
LEMMA JudgingIs ==
  ASSUME NEW e, IsEpisode(e), NEW m, NEW t, NEW c, NEW a
  PROVE  LET g == Judging(e, m, t, c, a)
         IN  /\ IsEpisode(g) /\ g.status = e.status /\ g.failure = e.failure
             /\ g.terminalFailure = e.terminalFailure /\ g.cleanupFailure = e.cleanupFailure
             /\ g.frontiers = e.frontiers /\ g.events = e.events
             /\ g.model = m /\ g.tool = t /\ g.content = c /\ g.after = a /\ g.graded = TRUE
BY DEF IsEpisode, Judging

\* One whose world cannot be read keeps its requests and its events, and fails.
LEMMA UnreadIs ==
  ASSUME NEW e, IsEpisode(e), NEW m, NEW t, NEW c, NEW f
  PROVE  LET g == Unread(e, m, t, c, f)
         IN  /\ IsEpisode(g) /\ g.status = e.status /\ g.failure = f
             /\ g.frontiers = e.frontiers /\ g.events = e.events
BY DEF IsEpisode, Unread

\* The episode is judged.
LEMMA EpisodeJudged ==
  ASSUME IsEpisode(ep), NEW m, NEW t, NEW c, NEW a, ep' = Judging(ep, m, t, c, a)
  PROVE  /\ IsEpisode(ep') /\ ep'.status = ep.status /\ ep'.failure = ep.failure
         /\ ep'.terminalFailure = ep.terminalFailure /\ ep'.cleanupFailure = ep.cleanupFailure
         /\ ep'.frontiers = ep.frontiers /\ ep'.events = ep.events
         /\ ep'.model = m /\ ep'.tool = t /\ ep'.content = c /\ ep'.after = a /\ ep'.graded = TRUE
<1> DEFINE g == Judging(ep, m, t, c, a)
<1>1. /\ IsEpisode(g) /\ g.status = ep.status /\ g.failure = ep.failure
      /\ g.terminalFailure = ep.terminalFailure /\ g.cleanupFailure = ep.cleanupFailure
      /\ g.frontiers = ep.frontiers /\ g.events = ep.events
      /\ g.model = m /\ g.tool = t /\ g.content = c /\ g.after = a /\ g.graded = TRUE
  BY JudgingIs
<1> HIDE DEF g
<1> QED
  BY <1>1 DEF g

\* The episode's world cannot be read.
LEMMA EpisodeUnread ==
  ASSUME IsEpisode(ep), NEW m, NEW t, NEW c, NEW f, ep' = Unread(ep, m, t, c, f)
  PROVE  /\ IsEpisode(ep') /\ ep'.status = ep.status /\ ep'.failure = f
         /\ ep'.frontiers = ep.frontiers /\ ep'.events = ep.events
<1> DEFINE g == Unread(ep, m, t, c, f)
<1>1. /\ IsEpisode(g) /\ g.status = ep.status /\ g.failure = f
      /\ g.frontiers = ep.frontiers /\ g.events = ep.events
  BY UnreadIs
<1> HIDE DEF g
<1> QED
  BY <1>1 DEF g

\* The document d of this run, whose usage is that of the session.
Freezes(d) ==
  /\ d.receipts = receipts /\ d.started = started
  /\ d.ep.status = "completed" /\ d.ep.failure = ""
  /\ d.ep.frontiers = ep.frontiers /\ d.ep.events = ep.events
  /\ d.ep.model = host.model /\ d.ep.tool = host.tool /\ d.ep.content = host.content
  /\ d.ep.after = effects

\* A completed run whose clock was not set back verifies.
LEMMA CompletedVerifies ==
  ASSUME TrialInv, Completed, ~setBack, NEW d, Freezes(d), ~Ungraded(d.ep)
  PROVE  Verifies(lane, d, FALSE)
<1>1. TypeOK /\ BudgetOK /\ FrontiersOK /\ EventsOK /\ ReceiptsOK /\ TimesOK
  BY DEF TrialInv
<1>2. pc = "settle" /\ Going
  BY DEF Completed, Going
<1> DEFINE f == ep.frontiers
           s == ep.events
<1>3. f \in Seq(Nat) /\ s \in Seq(Event) /\ receipts \in Seq(Receipt)
  BY <1>1 DEF TypeOK
<1>4. /\ host.model = Len(f) /\ Len(f) <= Steps /\ f # <<>> /\ f[1] = 0 /\ f[Len(f)] = Len(s)
      /\ \A i \in 2..Len(f) : f[i] >= f[i - 1]
  BY <1>1, <1>2 DEF FrontiersOK
<1>5. /\ host.tool = Len(s) + 0 /\ effects = ReplayedEffects(ep)
      /\ \A i \in DOMAIN s : s[i].sequence = i /\ s[i].delivered
  BY <1>1, <1>2 DEF EventsOK
<1>6. host.model <= ModelRequests /\ host.tool <= ToolAttempts /\ host.content <= ContentBudget
  BY <1>1 DEF BudgetOK
<1>7. ReplayError(d.ep, FALSE) = ""
  <2>2. d.ep.after = ReplayedEffects(d.ep)
    BY <1>5 DEF ReplayedEffects, Freezes
  <2>3. Len(f) \in Nat \ {0} /\ Len(s) \in Nat /\ ModelRequests \in Nat
    <3>1. ModelRequests \in Nat
      BY TrialAssumption DEF TrialAssumption
    <3> QED
      BY <1>3, <1>4, <3>1
  <2>4. host.model \in 1..ModelRequests /\ host.tool = Len(s) /\ ~(Len(s) > ToolAttempts)
    <3>1. ToolAttempts \in Nat
      BY TrialAssumption DEF TrialAssumption
    <3> QED
      BY <1>4, <1>5, <1>6, <2>3, <3>1
  <2>5. ~(host.content > ContentBudget)
    <3>1. ContentBudget \in Nat /\ host.content \in Nat
      BY <1>1, TrialAssumption DEF TrialAssumption, TypeOK
    <3> QED
      BY <1>6, <3>1
  <2>6. ~ \E i \in 2..Len(f) : f[i] < f[i - 1]
    <3>1. ASSUME NEW i \in 2..Len(f) PROVE ~(f[i] < f[i - 1])
      <4>1. i \in 1..Len(f) /\ i - 1 \in 1..Len(f)
        BY <2>3
      <4>2. f[i] \in Nat /\ f[i - 1] \in Nat
        BY <1>3, <4>1
      <4> QED
        BY <1>4, <4>2
    <3> QED
      BY <3>1
  <2>7. ~ \E i \in DOMAIN s : ~s[i].delivered \/ s[i].sequence # i
    BY <1>5
  <2> QED
    BY <1>4, <2>2, <2>4, <2>5, <2>6, <2>7 DEF ReplayError, Freezes
<1>8. ASSUME lane = "live" PROVE ReceiptsMatch(d)
  <2>1. /\ Len(receipts) = Len(f) - 0 /\ (\A i \in DOMAIN receipts : Received(receipts[i]))
        /\ Authorized(started)
    BY <1>1, <1>2, <1>8 DEF ReceiptsOK
  <2>2. Steps = MaxRequests /\ MaxRequests \in Nat
    BY <1>1, <1>8, StepsIsNat, TrialAssumption DEF TrialAssumption
  <2>3. Len(f) \in Nat \ {0} /\ Len(receipts) \in Nat
    BY <1>3, <1>4
  <2>4. Len(receipts) = host.model /\ Len(receipts) \in 1..MaxRequests
    BY <1>4, <2>1, <2>2, <2>3
  <2>5. ASSUME NEW i \in DOMAIN receipts
        PROVE  /\ receipts[i].sequence = i /\ receipts[i].outcome = "response_received"
               /\ Authorized(receipts[i].at)
               /\ receipts[i].at >= (IF i = 1 THEN started ELSE receipts[i - 1].at)
    <3>1. receipts[i].sequence = i /\ Authorized(receipts[i].at)
      BY <1>1 DEF ReceiptsOK, EveryPostAccounted
    <3>2. receipts[i].outcome = "response_received"
      BY <2>1 DEF Received
    <3>3. /\ \A k \in DOMAIN receipts : started <= receipts[k].at
          /\ \A k \in 2..Len(receipts) : receipts[k - 1].at <= receipts[k].at
      BY <1>1, <1>2 DEF TimesOK
    <3>4. CASE i = 1
      BY <3>1, <3>2, <3>3, <3>4
    <3>5. CASE i # 1
      <4>1. i \in 2..Len(receipts)
        BY <1>3, <3>5
      <4> QED
        BY <3>1, <3>2, <3>3, <3>5, <4>1
    <3> QED
      BY <3>4, <3>5
  <2> QED
    BY <2>1, <2>4, <2>5 DEF ReceiptsMatch, Freezes
<1> QED
  BY <1>7, <1>8 DEF Verifies, Freezes

\* The usage is frozen and the terminal world judged.
LEMMA SettleKeeps ==
  ASSUME TrialInv, Settle
  PROVE  TrialInv'
<1>1. /\ pc = "settle" /\ pc' = "stage" /\ host' = Stop(NewHost)
      /\ UNCHANGED <<lane, clock, setBack, runs, insp, made, files, client, started, receipts,
                     effects, closed, answer>>
  BY DEF Settle, Goto
<1>2. TypeOK /\ StatusOK /\ BudgetOK /\ FrontiersOK /\ EventsOK /\ ReceiptsOK /\ FilesOK /\ AnswerOK
  BY DEF TrialInv
<1>3. /\ IsHost(host') /\ host'.content = 0 /\ host'.model = 0 /\ host'.tool = 0
  BY <1>1, NewHostIs, StopIs
<1>4. \/ ep' = Judging(ep, host.model, host.tool, host.content, effects)
      \/ \E f : f # "" /\ ep' = Unread(ep, host.model, host.tool, host.content, f)
  <2> DEFINE m == host.model
             t == host.tool
             c == host.content
             e == [ep EXCEPT !.model = m, !.tool = t, !.content = c]
  <2>1. CASE ep' = [e EXCEPT !.after = effects, !.graded = TRUE]
    BY <2>1 DEF Judging
  <2>2. CASE ep' = [e EXCEPT !.terminalFailure = "TERMINAL_INSPECTION_FAILED",
                             !.failure = IF @ = "" THEN "TERMINAL_INSPECTION_FAILED" ELSE @]
    <3> DEFINE f == IF ep.failure = "" THEN "TERMINAL_INSPECTION_FAILED" ELSE ep.failure
    <3>1. f # ""
      OBVIOUS
    <3>2. ep' = Unread(ep, m, t, c, f)
      BY <1>2, <2>2 DEF Unread, TypeOK, IsEpisode
    <3> QED
      BY <3>1, <3>2
  <2> QED
    BY <2>1, <2>2 DEF Settle
<1>5. IsEpisode(ep') /\ ep'.frontiers = ep.frontiers /\ ep'.events = ep.events
      /\ ep'.status = ep.status
  BY <1>2, <1>4, EpisodeJudged, EpisodeUnread DEF TypeOK
<1>6. TypeOK'
  BY <1>1, <1>2, <1>3, <1>5 DEF TypeOK
<1>7. StatusOK' /\ FrontiersOK' /\ TimesOK'
  BY <1>1, <1>2 DEF StatusOK, FrontiersOK, TimesOK, Before, Loop
<1>8. BudgetOK'
  BY <1>3, TrialAssumption DEF BudgetOK, TrialAssumption
<1>9. ~Going' /\ ~Completed'
  BY <1>1 DEF Going, Completed, Before, Loop
<1>10. EventsOK' /\ ReceiptsOK'
  BY <1>1, <1>2, <1>5, <1>9 DEF EventsOK, ReceiptsOK, EveryPostAccounted
<1>11. ClosedOK'
  <2> SUFFICES ASSUME ep'.status = "completed", ep'.failure = "", ~setBack'
               PROVE  Verifies(lane', Doc(ep)', FALSE)
    BY <1>1 DEF ClosedOK
  <2>0. IsEpisode(ep)
    BY <1>2 DEF TypeOK
  <2>1. ep' = Judging(ep, host.model, host.tool, host.content, effects)
    <3>1. ASSUME NEW f, f # "", ep' = Unread(ep, host.model, host.tool, host.content, f)
          PROVE  FALSE
      <4>1. ep'.failure = f
        BY <2>0, <3>1, EpisodeUnread
      <4> QED
        BY <3>1, <4>1
    <3> QED
      BY <1>4, <3>1
  <2>2. /\ ep'.failure = ep.failure
        /\ ep'.terminalFailure = ep.terminalFailure /\ ep'.cleanupFailure = ep.cleanupFailure
        /\ ep'.model = host.model /\ ep'.tool = host.tool /\ ep'.content = host.content
        /\ ep'.after = effects /\ ep'.graded = TRUE
    <3> DEFINE m == host.model
               t == host.tool
               c == host.content
    <3>1. ep' = Judging(ep, m, t, c, effects)
      BY <2>1
    <3> HIDE DEF m, t, c
    <3>2. /\ ep'.failure = ep.failure
          /\ ep'.terminalFailure = ep.terminalFailure
          /\ ep'.cleanupFailure = ep.cleanupFailure
      BY <2>0, <3>1, EpisodeJudged
    <3>3. ep'.model = m /\ ep'.tool = t /\ ep'.content = c /\ ep'.after = effects /\ ep'.graded = TRUE
      BY <2>0, <3>1, EpisodeJudged
    <3> QED
      BY <3>2, <3>3 DEF m, t, c
  <2>3. ep.terminalFailure = "" /\ ep.cleanupFailure = ""
    BY <1>1, <1>2 DEF StatusOK
  <2>4. Completed
    BY <1>1, <1>5 DEF Completed
  <2>5. Doc(ep)'.ep = ep' /\ Doc(ep)'.receipts = receipts /\ Doc(ep)'.started = started
    BY <1>1 DEF Doc
  <2>8. Freezes(Doc(ep)')
    BY <1>5, <2>2, <2>5 DEF Freezes
  <2>7. ~Ungraded(Doc(ep)'.ep)
    BY <1>5, <2>2, <2>3, <2>5 DEF Ungraded
  <2>6. Verifies(lane, Doc(ep)', FALSE)
    BY <1>1, <2>4, <2>7, <2>8, CompletedVerifies
  <2> QED
    BY <1>1, <2>6
<1>12. FilesOK' /\ AnswerOK'
  BY <1>1, <1>2 DEF FilesOK, AnswerOK, Loop, After, Claims
<1>13. InspectorOK'
  BY <1>1, InspectorApart
<1> QED
  BY <1>6, <1>7, <1>8, <1>10, <1>11, <1>12, <1>13 DEF TrialInv

\* The stage: a completed run must replay before its world is closed.
LEMMA StageKeeps ==
  ASSUME TrialInv, Stage
  PROVE  TrialInv'
<1>1. /\ pc = "stage" /\ clock' = 0
      /\ UNCHANGED <<lane, runs, insp, made, files, host, client, started, receipts, effects, ep>>
  BY DEF Stage
<1>2. TypeOK /\ StatusOK /\ BudgetOK /\ EventsOK /\ ReceiptsOK /\ FilesOK /\ AnswerOK
  BY DEF TrialInv
<1>3. CASE Return("error") /\ UNCHANGED closed
  <2>1. clock' \in Nat /\ effects' \in Nat
    BY <1>1, <1>2 DEF TypeOK
  <2> QED
    BY <1>1, <1>3, <2>1, Returns DEF Return
<1>4. CASE Goto("closure") /\ closed' \in BOOLEAN /\ (closed' => VerifyError(Doc(ep), FALSE) = "")
  <2>1. pc' = "closure" /\ answer' = answer /\ closed' \in BOOLEAN
    BY <1>4 DEF Goto
  <2>2. TypeOK'
    BY <1>1, <1>2, <2>1 DEF TypeOK, After
  <2>3. StatusOK' /\ BudgetOK' /\ FrontiersOK' /\ TimesOK'
    BY <1>1, <1>2, <2>1 DEF StatusOK, BudgetOK, FrontiersOK, TimesOK, Before, Loop
  <2>4. ~Going' /\ ~Completed'
    BY <2>1 DEF Going, Completed, Before, Loop
  <2>5. EventsOK' /\ ReceiptsOK'
    BY <1>1, <1>2, <2>1, <2>4 DEF EventsOK, ReceiptsOK, EveryPostAccounted
  <2>6. ClosedOK'
    <3>1. closed' => Verifies(lane, Doc(ep), FALSE)
      BY <1>4, VerifyIs
    <3>2. Doc(ep)' = Doc(ep)
      BY <1>1 DEF Doc
    <3> QED
      BY <1>1, <2>1, <3>1, <3>2 DEF ClosedOK
  <2>7. FilesOK' /\ AnswerOK'
    BY <1>1, <1>2, <2>1 DEF FilesOK, AnswerOK, Loop, After, Claims
  <2>8. InspectorOK'
    BY <1>1, InspectorApart
  <2> QED
    BY <2>2, <2>3, <2>5, <2>6, <2>7, <2>8 DEF TrialInv
<1>5. closed = FALSE
  BY <1>1, <1>2 DEF StatusOK
<1> QED
  BY <1>3, <1>4, <1>5 DEF Stage

\* A member other than the terminal document is being written.
LEMMA WrittenKeeps ==
  ASSUME TrialInv, pc \in {"claim", "closure", "pending"}, NEW name \in Names \ {"terminal"}, NEW f,
         files' = [files EXCEPT ![name] = f],
         \/ pc' = pc
         \/ pc = "claim" /\ pc' = "provision"
         \/ pc = "closure" /\ pc' = "close"
         \/ pc = "pending" /\ pc' = "link",
         UNCHANGED <<untouched, made, memory, answer>>
  PROVE  /\ TypeOK' /\ StatusOK' /\ BudgetOK' /\ FrontiersOK' /\ EventsOK' /\ ReceiptsOK'
         /\ TimesOK' /\ ClosedOK' /\ AnswerOK' /\ InspectorOK'
         /\ DOMAIN files' = Names /\ files'[name] = f
         /\ \A n \in Names \ {name} : files'[n] = files[n]
<1>1. UNCHANGED <<lane, clock, setBack, runs, insp, host, client, started, receipts, effects, ep,
                  closed>>
  BY DEF untouched, memory
<1>2. /\ TypeOK /\ StatusOK /\ BudgetOK /\ FrontiersOK /\ EventsOK /\ ReceiptsOK /\ TimesOK
      /\ ClosedOK /\ AnswerOK
  BY DEF TrialInv
<1>3. /\ DOMAIN files' = Names /\ files'[name] = f
      /\ \A n \in Names \ {name} : files'[n] = files[n]
  BY <1>2 DEF TypeOK
<1>4. files'["terminal"] = files["terminal"]
  BY <1>3 DEF Names
<1>5. TypeOK'
  BY <1>1, <1>2, <1>3 DEF TypeOK, Before, After
<1>6. pc' \in {"claim", "provision", "closure", "close", "pending", "link"}
  OBVIOUS
<1>7. StatusOK' /\ BudgetOK'
  BY <1>1, <1>2, <1>6 DEF StatusOK, BudgetOK, Before, Loop
<1>8. FrontiersOK'
  BY <1>1, <1>2, <1>6 DEF FrontiersOK, Before, Loop, Asked, Completed, Steps
<1>9. EventsOK'
  BY <1>1, <1>2, <1>6 DEF EventsOK, Before, Loop, Going, Completed, ReplayedEffects
<1>10. ReceiptsOK'
  BY <1>1, <1>2, <1>6 DEF ReceiptsOK, EveryPostAccounted, Before, Loop, Going, Completed
<1>11. TimesOK'
  BY <1>1, <1>2, <1>6 DEF TimesOK, Before, Loop
<1>12. ClosedOK'
  <2>1. Doc(ep)' = Doc(ep) /\ Sealed(ep)' = Sealed(ep)
    BY <1>1 DEF Doc, Sealed
  <2> QED
    BY <1>1, <1>2, <1>6, <2>1 DEF ClosedOK
<1>13. AnswerOK'
  BY <1>2, <1>6 DEF AnswerOK
<1>14. InspectorOK'
  BY <1>1, <1>4, InspectorApart
<1> QED
  BY <1>3, <1>5, <1>7, <1>8, <1>9, <1>10, <1>11, <1>12, <1>13, <1>14

\* What a write does when it does not fail.
LEMMA WriteIs ==
  ASSUME TrialInv, NEW name, NEW at, NEW next, NEW d, Write(name, at, next, d)
  PROVE  \/ TrialInv'
         \/ /\ pc = at /\ UNCHANGED <<untouched, made, memory, answer>>
            /\ \/ pc' = at /\ files' = [files EXCEPT ![name] = Partial]
               \/ pc' = next /\ files' = [files EXCEPT ![name] = Whole(d)]
<1>1. CASE Return("error") /\ UNCHANGED files
  <2>1. UNCHANGED <<lane, clock, runs, insp, host, client, started, receipts, effects, ep,
                    closed, made>>
    BY DEF Write, untouched, memory
  <2>2. clock' \in Nat /\ effects' \in Nat
    BY <2>1 DEF TrialInv, TypeOK
  <2> QED
    BY <1>1, <2>1, <2>2, Returns DEF Return
<1> QED
  BY <1>1 DEF Write, Goto

\* A whole document, a torn one and none.
LEMMA States ==
  /\ Absent.state # "whole" /\ Absent.state = "absent" /\ Partial.state = "partial"
  /\ \A d : Whole(d).state = "whole" /\ Whole(d).doc = d /\ Whole(d) # Absent
BY DEF Absent, Partial, Whole

\* The claim is written before anything else.
LEMMA WriteClaimKeeps ==
  ASSUME TrialInv, WriteClaim
  PROVE  TrialInv'
<1> SUFFICES ASSUME /\ pc = "claim" /\ UNCHANGED <<untouched, made, memory, answer>>
                    /\ \/ pc' = "claim" /\ files' = [files EXCEPT !["claim"] = Partial]
                       \/ /\ pc' = "provision"
                          /\ files' = [files EXCEPT !["claim"] = Whole(Doc(NewEpisode))]
             PROVE  TrialInv'
  BY WriteIs DEF WriteClaim
<1>1. \E f : /\ files' = [files EXCEPT !["claim"] = f]
             /\ pc' = "claim" \/ (pc' = "provision" /\ f = Whole(Doc(NewEpisode)))
  OBVIOUS
<1>2. PICK f : /\ files' = [files EXCEPT !["claim"] = f]
               /\ pc' = "claim" \/ (pc' = "provision" /\ f = Whole(Doc(NewEpisode)))
  BY <1>1
<1>3. "claim" \in Names \ {"terminal"}
  BY DEF Names
<1>4. /\ TypeOK' /\ StatusOK' /\ BudgetOK' /\ FrontiersOK' /\ EventsOK' /\ ReceiptsOK'
      /\ TimesOK' /\ ClosedOK' /\ AnswerOK' /\ InspectorOK'
      /\ files'["claim"] = f
      /\ \A n \in Names \ {"claim"} : files'[n] = files[n]
  BY <1>2, <1>3, WrittenKeeps
<1>5. FilesOK'
  <2>1. files["terminal"] = Absent /\ made
    BY DEF TrialInv, FilesOK
  <2>2. files'["terminal"] = Absent /\ made' /\ runs' = runs
    BY <1>4, <2>1 DEF Names, untouched
  <2>3. pc' = "provision" => Claims' /\ files'["claim"].doc.run = runs'
    <3> SUFFICES ASSUME pc' = "provision" PROVE Claims' /\ files'["claim"].doc.run = runs'
      OBVIOUS
    <3>1. files'["claim"] = Whole(Doc(NewEpisode))
      BY <1>2, <1>4
    <3>2. Whole(Doc(NewEpisode)).state = "whole" /\ Whole(Doc(NewEpisode)).doc.run = runs
      BY DEF Whole, Doc
    <3> QED
      BY <2>2, <3>1, <3>2 DEF Claims
  <2> QED
    BY <1>2, <2>2, <2>3 DEF FilesOK, Loop, After
<1> QED
  BY <1>4, <1>5 DEF TrialInv

\* The closure of the replay is staged.
LEMMA WriteClosureKeeps ==
  ASSUME TrialInv, WriteClosure
  PROVE  TrialInv'
<1> SUFFICES ASSUME /\ pc = "closure" /\ UNCHANGED <<untouched, made, memory, answer>>
                    /\ \/ pc' = "closure" /\ files' = [files EXCEPT !["closure"] = Partial]
                       \/ pc' = "close" /\ files' = [files EXCEPT !["closure"] = Whole(Doc(ep))]
             PROVE  TrialInv'
  BY WriteIs DEF WriteClosure
<1>1. PICK f : files' = [files EXCEPT !["closure"] = f] /\ pc' \in {"closure", "close"}
  OBVIOUS
<1>2. "closure" \in Names \ {"terminal"}
  BY DEF Names, Staged
<1>3. /\ TypeOK' /\ StatusOK' /\ BudgetOK' /\ FrontiersOK' /\ EventsOK' /\ ReceiptsOK'
      /\ TimesOK' /\ ClosedOK' /\ AnswerOK' /\ InspectorOK'
      /\ \A n \in Names \ {"closure"} : files'[n] = files[n]
  BY <1>1, <1>2, WrittenKeeps
<1>4. FilesOK'
  <2>1. files["terminal"] = Absent /\ made /\ Claims /\ files["claim"].doc.run = runs
    BY DEF TrialInv, FilesOK, After
  <2>2. files'["terminal"] = Absent /\ files'["claim"] = files["claim"] /\ made' /\ runs' = runs
    BY <1>3, <2>1 DEF Names, untouched
  <2>3. Claims' /\ files'["claim"].doc.run = runs'
    BY <2>1, <2>2 DEF Claims
  <2> QED
    BY <1>1, <2>2, <2>3 DEF FilesOK, Loop, After
<1> QED
  BY <1>3, <1>4 DEF TrialInv

\* The terminal document is staged.
LEMMA WritePendingKeeps ==
  ASSUME TrialInv, WritePending
  PROVE  TrialInv'
<1> SUFFICES ASSUME /\ pc = "pending" /\ UNCHANGED <<untouched, made, memory, answer>>
                    /\ \/ pc' = "pending" /\ files' = [files EXCEPT !["pending"] = Partial]
                       \/ pc' = "link" /\ files' = [files EXCEPT !["pending"] = Whole(Doc(ep))]
             PROVE  TrialInv'
  BY WriteIs DEF WritePending
<1>1. PICK f : /\ files' = [files EXCEPT !["pending"] = f]
               /\ pc' = "pending" \/ (pc' = "link" /\ f = Whole(Doc(ep)))
  OBVIOUS
<1>2. "pending" \in Names \ {"terminal"}
  BY DEF Names, Staged
<1>3. /\ TypeOK' /\ StatusOK' /\ BudgetOK' /\ FrontiersOK' /\ EventsOK' /\ ReceiptsOK'
      /\ TimesOK' /\ ClosedOK' /\ AnswerOK' /\ InspectorOK'
      /\ files'["pending"] = f
      /\ \A n \in Names \ {"pending"} : files'[n] = files[n]
  BY <1>1, <1>2, WrittenKeeps
<1>4. FilesOK'
  <2>1. files["terminal"] = Absent /\ made /\ Claims /\ files["claim"].doc.run = runs
    BY DEF TrialInv, FilesOK, After
  <2>2. files'["terminal"] = Absent /\ files'["claim"] = files["claim"] /\ made' /\ runs' = runs
    BY <1>3, <2>1 DEF Names, untouched
  <2>3. Claims' /\ files'["claim"].doc.run = runs'
    BY <2>1, <2>2 DEF Claims
  <2>4. Whole(Doc(ep))' = Whole(Doc(ep))
    BY DEF Whole, Doc, untouched, memory
  <2>5. pc' = "link" => files'["pending"] = Whole(Doc(ep))'
    BY <1>1, <1>3, <2>4
  <2> QED
    BY <1>1, <2>2, <2>3, <2>5 DEF FilesOK, Loop, After
<1> QED
  BY <1>3, <1>4 DEF TrialInv

\* A world that is closed seals the episode, or fails it.
Sealing(e, replayable, evidence) ==
  [e EXCEPT !.cleanup = "complete", !.replayable = replayable, !.evidence = evidence]
Spoiling(e, f) ==
  [e EXCEPT !.cleanup = "failed", !.cleanupFailure = "CLEANUP_FAILED", !.failure = f]

\* A seal changes nothing of what was verified.
LEMMA SealingIs ==
  ASSUME NEW e, IsEpisode(e), NEW r, NEW v
  PROVE  LET g == Sealing(e, r, v)
         IN  /\ IsEpisode(g) /\ g.status = e.status /\ g.failure = e.failure
             /\ g.terminalFailure = e.terminalFailure /\ g.cleanupFailure = e.cleanupFailure
             /\ g.frontiers = e.frontiers /\ g.events = e.events
             /\ g.model = e.model /\ g.tool = e.tool /\ g.content = e.content
             /\ g.after = e.after /\ g.graded = e.graded
             /\ g.cleanup = "complete" /\ g.replayable = r /\ g.evidence = v
BY DEF IsEpisode, Sealing

\* An episode whose world is not closed is not sealed.
LEMMA SpoilingIs ==
  ASSUME NEW e, IsEpisode(e), NEW f
  PROVE  LET g == Spoiling(e, f)
         IN  /\ IsEpisode(g) /\ g.frontiers = e.frontiers /\ g.events = e.events
             /\ g.cleanup = "failed"
BY DEF IsEpisode, Spoiling

\* A verified episode verifies when it is sealed with its verification.
LEMMA SealedVerifies ==
  ASSUME NEW l, NEW d, NEW g, IsEpisode(d.ep), NEW v, NEW r, g.ep = Sealing(d.ep, r, v),
         g.receipts = d.receipts, g.started = d.started,
         Sealed(g.ep), Verifies(l, d, FALSE)
  PROVE  Verifies(l, g, TRUE)
<1> DEFINE e == d.ep
           h == Sealing(e, r, v)
<1>1. /\ h.status = e.status /\ h.failure = e.failure
      /\ h.terminalFailure = e.terminalFailure /\ h.cleanupFailure = e.cleanupFailure
      /\ h.frontiers = e.frontiers /\ h.events = e.events
      /\ h.model = e.model /\ h.tool = e.tool /\ h.content = e.content
      /\ h.after = e.after /\ h.graded = e.graded
  BY SealingIs
<1>2. g.ep = h
  OBVIOUS
<1> HIDE DEF h, e
<1>3. Ungraded(h) = Ungraded(e)
  BY <1>1 DEF Ungraded
<1>4. ReplayedEffects(h) = ReplayedEffects(e)
  BY <1>1 DEF ReplayedEffects
<1>5. ReplayError(e, FALSE) = ""
  BY DEF Verifies, e
<1>6. Sealed(h)
  BY <1>2
<1>7. ReplayError(h, TRUE) = ""
  BY <1>1, <1>3, <1>4, <1>5, <1>6 DEF ReplayError
<1>8. l = "live" => h.status = "completed" /\ h.failure = "" /\ ReceiptsMatch(g)
  <2> SUFFICES ASSUME l = "live"
               PROVE  h.status = "completed" /\ h.failure = "" /\ ReceiptsMatch(g)
    OBVIOUS
  <2>1. e.status = "completed" /\ e.failure = "" /\ ReceiptsMatch(d)
    BY DEF Verifies, e
  <2>2. g.ep.model = d.ep.model
    BY <1>1, <1>2 DEF e
  <2>3. ReceiptsMatch(g)
    BY <2>1, <2>2 DEF ReceiptsMatch
  <2> QED
    BY <1>1, <2>1, <2>3
<1> QED
  BY <1>2, <1>7, <1>8 DEF Verifies

\* The private world is closed.
LEMMA CloseWorldKeeps ==
  ASSUME TrialInv, CloseWorld
  PROVE  TrialInv'
<1>1. /\ pc = "close" /\ effects' = 0
      /\ UNCHANGED <<lane, clock, setBack, runs, insp, made, files, host, client, started,
                     receipts, closed>>
  BY DEF CloseWorld, untouched
<1>2. /\ TypeOK /\ StatusOK /\ BudgetOK /\ EventsOK /\ ReceiptsOK /\ ClosedOK /\ FilesOK
      /\ AnswerOK
  BY DEF TrialInv
<1>3. CASE Return("error") /\ UNCHANGED ep
  <2>1. clock' \in Nat /\ effects' \in Nat
    BY <1>1, <1>2 DEF TypeOK
  <2> QED
    BY <1>1, <1>3, <2>1, Returns DEF Return
<1>4. CASE /\ pc' = "pending" /\ answer' = answer
           /\ \/ \E f : ep' = Spoiling(ep, f)
              \/ ep' = Sealing(ep, closed, IF closed THEN "complete" ELSE ep.evidence)
  <2>1. IsEpisode(ep) /\ closed \in BOOLEAN
    BY <1>2 DEF TypeOK
  <2>2. /\ IsEpisode(ep') /\ ep'.frontiers = ep.frontiers /\ ep'.events = ep.events
        /\ Sealed(ep') =>
             closed /\ ep' = Sealing(ep, closed, IF closed THEN "complete" ELSE ep.evidence)
    <3>1. ASSUME NEW f, ep' = Spoiling(ep, f)
          PROVE  /\ IsEpisode(ep') /\ ep'.frontiers = ep.frontiers /\ ep'.events = ep.events
                 /\ ~Sealed(ep')
      <4> DEFINE g == Spoiling(ep, f)
      <4>1. /\ IsEpisode(g) /\ g.frontiers = ep.frontiers /\ g.events = ep.events
            /\ g.cleanup = "failed"
        BY <2>1, SpoilingIs
      <4> HIDE DEF g
      <4>2. ep' = g
        BY <3>1 DEF g
      <4> QED
        BY <4>1, <4>2 DEF Sealed
    <3>2. ASSUME NEW v, ep' = Sealing(ep, closed, v)
          PROVE  /\ IsEpisode(ep') /\ ep'.frontiers = ep.frontiers /\ ep'.events = ep.events
                 /\ Sealed(ep') => closed
      <4> DEFINE g == Sealing(ep, closed, v)
      <4>1. /\ IsEpisode(g) /\ g.frontiers = ep.frontiers /\ g.events = ep.events
            /\ g.replayable = closed
        BY <2>1, SealingIs
      <4> HIDE DEF g
      <4>2. ep' = g
        BY <3>2 DEF g
      <4>3. Sealed(g) => g.replayable
        BY DEF Sealed
      <4> QED
        BY <4>1, <4>2, <4>3
    <3> QED
      BY <1>4, <3>1, <3>2
  <2>3. TypeOK'
    BY <1>1, <1>2, <1>4, <2>2 DEF TypeOK, After
  <2>4. StatusOK' /\ BudgetOK' /\ FrontiersOK' /\ TimesOK'
    BY <1>1, <1>2, <1>4 DEF StatusOK, BudgetOK, FrontiersOK, TimesOK, Before, Loop
  <2>5. ~Going' /\ ~Completed'
    BY <1>4 DEF Going, Completed, Before, Loop
  <2>6. EventsOK' /\ ReceiptsOK'
    BY <1>1, <1>2, <1>4, <2>2, <2>5 DEF EventsOK, ReceiptsOK, EveryPostAccounted
  <2>7. ClosedOK'
    <3> SUFFICES ASSUME Sealed(ep') PROVE Verifies(lane', Doc(ep)', TRUE)
      BY <1>4 DEF ClosedOK
    <3>1. closed /\ ep' = Sealing(ep, closed, IF closed THEN "complete" ELSE ep.evidence)
      BY <2>2
    <3>2. Verifies(lane, Doc(ep), FALSE)
      BY <1>1, <1>2, <3>1 DEF ClosedOK
    <3>3. /\ Doc(ep).ep = ep /\ Doc(ep)'.ep = ep' /\ Doc(ep)'.receipts = Doc(ep).receipts
          /\ Doc(ep)'.started = Doc(ep).started
      BY <1>1 DEF Doc
    <3>4. Verifies(lane, Doc(ep)', TRUE)
      <4> DEFINE v == IF closed THEN "complete" ELSE ep.evidence
      <4>1. Doc(ep)'.ep = Sealing(Doc(ep).ep, closed, v) /\ Sealed(Doc(ep)'.ep)
            /\ IsEpisode(Doc(ep).ep)
        BY <2>1, <3>1, <3>3
      <4> HIDE DEF v
      <4> QED
        BY <3>2, <3>3, <4>1, SealedVerifies
    <3> QED
      BY <1>1, <3>4
  <2>8. FilesOK' /\ AnswerOK'
    BY <1>1, <1>2, <1>4 DEF FilesOK, AnswerOK, Loop, After, Claims
  <2>9. InspectorOK'
    BY <1>1, InspectorApart
  <2> QED
    BY <2>3, <2>4, <2>6, <2>7, <2>8, <2>9 DEF TrialInv
<1>5. CASE /\ Goto("pending")
           /\ ep' = [ep EXCEPT !.cleanup = "failed", !.cleanupFailure = "CLEANUP_FAILED",
                               !.failure = IF @ = "" THEN "CLEANUP_FAILED" ELSE @]
  <2>1. ep' = Spoiling(ep, IF ep.failure = "" THEN "CLEANUP_FAILED" ELSE ep.failure)
    BY <1>2, <1>5 DEF Spoiling, TypeOK, IsEpisode
  <2> QED
    BY <1>4, <1>5, <2>1 DEF Goto
<1>6. CASE /\ Goto("pending")
           /\ ep' = [ep EXCEPT !.cleanup = "complete", !.replayable = closed,
                               !.evidence = IF closed THEN "complete" ELSE @]
  <2>1. ep' = Sealing(ep, closed, IF closed THEN "complete" ELSE ep.evidence)
    BY <1>2, <1>6 DEF Sealing, TypeOK, IsEpisode
  <2> QED
    BY <1>4, <1>6, <2>1 DEF Goto
<1> QED
  BY <1>3, <1>5, <1>6 DEF CloseWorld

\* What the directory and the answer are about, once the evidence is there.
LEMMA RestKeeps ==
  ASSUME TrialInv, pc \in {"link", "unlink"}, pc' \in {"unlink", "done"}, DOMAIN files' = Names,
         answer' \in {"none", "ok", "error"}, UNCHANGED <<untouched, made, memory>>
  PROVE  /\ TypeOK' /\ StatusOK' /\ BudgetOK' /\ FrontiersOK' /\ EventsOK' /\ ReceiptsOK'
         /\ TimesOK' /\ ClosedOK'
<1>1. UNCHANGED <<lane, clock, setBack, runs, insp, host, client, started, receipts, effects, ep,
                  closed>>
  BY DEF untouched, memory
<1>2. TypeOK'
  BY <1>1 DEF TrialInv, TypeOK, After
<1>3. StatusOK' /\ BudgetOK' /\ FrontiersOK' /\ TimesOK'
  BY <1>1 DEF TrialInv, StatusOK, BudgetOK, FrontiersOK, TimesOK, Before, Loop
<1>4. ~Going' /\ ~Completed'
  BY DEF Going, Completed, Before, Loop
<1>5. EventsOK' /\ ReceiptsOK'
  BY <1>1, <1>4 DEF TrialInv, EventsOK, ReceiptsOK, EveryPostAccounted
<1>6. ClosedOK'
  <2>1. Doc(ep)' = Doc(ep) /\ Sealed(ep)' = Sealed(ep)
    BY <1>1 DEF Doc, Sealed
  <2> QED
    BY <1>1, <2>1 DEF TrialInv, ClosedOK
<1> QED
  BY <1>2, <1>3, <1>5, <1>6

\* The terminal document is linked, and the staging files go.
LEMMA PublishKeeps ==
  ASSUME TrialInv, Publish
  PROVE  TrialInv'
<1>1. /\ pc \in {"link", "unlink"} /\ UNCHANGED <<untouched, made, memory>>
      /\ UNCHANGED <<lane, clock, runs, insp, host, client, started, receipts, effects, ep,
                     closed, made>>
  BY DEF Publish, untouched, memory
<1>2. TypeOK /\ FilesOK /\ AnswerOK /\ InspectorOK /\ ClosedOK
  BY DEF TrialInv
<1>3. Whole(Doc(ep))' = Whole(Doc(ep))
  BY <1>1 DEF Whole, Doc
<1>4. /\ made /\ Claims /\ files["claim"].doc.run = runs
      /\ answer = "none"
  BY <1>1, <1>2 DEF FilesOK, After, AnswerOK
<1>5. DOMAIN files = Names /\ {"claim", "terminal", "closure", "pending"} = Names
  BY <1>2 DEF TypeOK, Names, Staged
<1>6. CASE Return("error") /\ UNCHANGED files
  <2>1. clock' \in Nat /\ effects' \in Nat
    BY <1>1, <1>2 DEF TypeOK
  <2> QED
    BY <1>1, <1>6, <2>1, Returns DEF Return
<1>7. CASE /\ pc = "link" /\ files' = [files EXCEPT !["terminal"] = files["pending"]]
           /\ Goto("unlink")
  <2>1. /\ DOMAIN files' = Names /\ files'["terminal"] = Whole(Doc(ep))
        /\ files'["claim"] = files["claim"] /\ pc' = "unlink" /\ answer' = "none"
    BY <1>2, <1>4, <1>5, <1>7 DEF FilesOK, Goto
  <2>2. /\ TypeOK' /\ StatusOK' /\ BudgetOK' /\ FrontiersOK' /\ EventsOK' /\ ReceiptsOK'
        /\ TimesOK' /\ ClosedOK'
    BY <1>1, <2>1, RestKeeps
  <2>3. FilesOK'
    <3>1. Whole(Doc(ep)).doc = Doc(ep) /\ Doc(ep).run = runs /\ Doc(ep).ep = ep
      BY DEF Whole, Doc
    <3>2. Claims' /\ files'["claim"].doc.run = runs' /\ made'
      BY <1>1, <1>4, <2>1 DEF Claims
    <3>3. Sealed(ep) => Verifies(lane, Doc(ep), TRUE)
      BY <1>2, <1>7 DEF ClosedOK
    <3>4. /\ files'["terminal"] = Whole(files'["terminal"].doc) /\ Claims'
          /\ files'["claim"].doc.run = files'["terminal"].doc.run
          /\ Sealed(files'["terminal"].doc.ep) => Verifies(lane', files'["terminal"].doc, TRUE)
      BY <1>1, <2>1, <3>1, <3>2, <3>3
    <3>5. files'["terminal"] = Whole(Doc(ep))'
      BY <1>3, <2>1
    <3> QED
      BY <2>1, <3>2, <3>4, <3>5 DEF FilesOK, Loop, After
  <2>4. AnswerOK'
    BY <2>1 DEF AnswerOK
  <2>5. InspectorOK'
    <3>1. files["terminal"] = Absent
      BY <1>2, <1>7 DEF FilesOK, After
    <3>2. files["terminal"].state # "whole"
      BY <3>1, States
    <3> QED
      BY <1>1, <1>2, <1>7, <3>2 DEF InspectorOK, AtRest
  <2> QED
    BY <2>2, <2>3, <2>4, <2>5 DEF TrialInv
<1>8. ASSUME pc = "unlink", NEW name \in Staged, files' = [files EXCEPT ![name] = Absent],
             \/ Goto("unlink")
             \/ files["pending"] = Absent /\ name = "closure" /\ Return("ok")
      PROVE  TrialInv'
  <2>1. /\ DOMAIN files' = Names /\ files'["terminal"] = files["terminal"]
        /\ files'["claim"] = files["claim"] /\ files'[name] = Absent
        /\ \A n \in Staged \ {name} : files'[n] = files[n]
    BY <1>5, <1>8 DEF Staged
  <2>2. pc' \in {"unlink", "done"} /\ answer' \in {"none", "ok", "error"}
        /\ (pc' = "unlink" => answer' = "none")
    BY <1>4, <1>8 DEF Goto, Return
  <2>3. /\ TypeOK' /\ StatusOK' /\ BudgetOK' /\ FrontiersOK' /\ EventsOK' /\ ReceiptsOK'
        /\ TimesOK' /\ ClosedOK'
    BY <1>1, <2>1, <2>2, RestKeeps
  <2>4. files["terminal"] = Whole(Doc(ep))
    BY <1>2, <1>8 DEF FilesOK
  <2>5. FilesOK'
    BY <1>1, <1>2, <1>3, <1>4, <2>1, <2>2, <2>4 DEF FilesOK, Loop, After, Claims
  <2>6. AnswerOK'
    <3> SUFFICES ASSUME answer' = "ok"
                 PROVE  files'["terminal"] = Whole(Doc(ep))' /\ \A n \in Staged : files'[n] = Absent
      BY <1>1, <1>4, <2>2 DEF AnswerOK
    <3>1. files["pending"] = Absent /\ name = "closure"
      BY <1>4, <1>8 DEF Goto
    <3>2. \A n \in Staged : files'[n] = Absent
      BY <2>1, <3>1 DEF Staged
    <3> QED
      BY <1>3, <2>1, <2>4, <3>2
  <2>7. InspectorOK'
    BY <1>1, <2>1, InspectorApart
  <2> QED
    BY <2>3, <2>5, <2>6, <2>7 DEF TrialInv
<1> QED
  <2>1. "pending" \in Staged /\ "closure" \in Staged
    BY DEF Staged
  <2> QED
    BY <1>6, <1>7, <1>8, <2>1 DEF Publish

-----------------------------------------------------------------------------
(***************************************************************************)
(* The directory is claimed, time passes, the process dies.                *)
(***************************************************************************)
\* The evidence directory is made, or the recording refused.
LEMMA ClaimKeeps ==
  ASSUME TrialInv, Claim
  PROVE  TrialInv'
<1>1. /\ pc = "start"
      /\ UNCHANGED <<lane, clock, setBack, runs, insp, files, host, client, receipts, effects, ep,
                     closed>>
  BY DEF Claim, untouched
<1>2. /\ TypeOK /\ StatusOK /\ BudgetOK /\ FrontiersOK /\ EventsOK /\ ReceiptsOK /\ FilesOK
      /\ AnswerOK /\ InspectorOK
  BY DEF TrialInv
<1>3. CASE Return("error") /\ UNCHANGED <<made, started>>
  <2>1. clock' \in Nat /\ effects' \in Nat
    BY <1>1, <1>2 DEF TypeOK
  <2> QED
    BY <1>1, <1>3, <2>1, Returns DEF Return
<1>4. CASE /\ (lane = "live" => Authorized(clock)) /\ ~made
           /\ made' = TRUE /\ started' = clock /\ Goto("claim")
  <2>1. pc' = "claim" /\ answer' = answer /\ clock \in Nat
    BY <1>2, <1>4 DEF Goto, TypeOK
  <2>2. ep.frontiers = <<>> /\ Len(ep.frontiers) = 0
    BY <1>1, <1>2 DEF FrontiersOK, Before
  <2>3. receipts = <<>>
    <3>1. lane = "live" => Len(receipts) = Len(ep.frontiers) - 0
      BY <1>1, <1>2 DEF ReceiptsOK, Going, Before
    <3> QED
      BY <1>2, <2>2, <3>1 DEF ReceiptsOK, TypeOK
  <2>4. TypeOK'
    BY <1>1, <1>2, <1>4, <2>1 DEF TypeOK, Before
  <2>5. StatusOK' /\ BudgetOK'
    BY <1>1, <1>2, <2>1 DEF StatusOK, BudgetOK, Before, Loop
  <2>6. FrontiersOK'
    BY <1>1, <1>2, <2>1 DEF FrontiersOK, Before, Loop, Asked, Completed, Steps
  <2>7. EventsOK'
    BY <1>1, <1>2, <2>1 DEF EventsOK, Before, Loop, Going, Completed, ReplayedEffects
  <2>8. ReceiptsOK'
    BY <1>1, <1>2, <1>4, <2>1 DEF ReceiptsOK, EveryPostAccounted, Before, Loop, Going, Completed
  <2>9. TimesOK'
    <3>1. receipts' = <<>> /\ started' = clock'
      BY <1>1, <1>4, <2>3
    <3> QED
      BY <1>1, <2>1, <3>1 DEF TimesOK
  <2>10. ClosedOK'
    BY <2>1 DEF ClosedOK
  <2>11. \A n \in Names : files[n] = Absent
    BY <1>2, <1>4 DEF FilesOK
  <2>12. files["terminal"] = Absent
    BY <2>11 DEF Names
  <2>13. FilesOK'
    BY <1>1, <1>4, <2>1, <2>12 DEF FilesOK, Loop, After
  <2>14. AnswerOK'
    BY <1>1, <1>2, <2>1 DEF AnswerOK
  <2>15. InspectorOK'
    <3>1. files["terminal"].state # "whole"
      BY <2>12, States
    <3> QED
      BY <1>1, <1>2, <3>1 DEF InspectorOK, AtRest
  <2> QED
    BY <2>4, <2>5, <2>6, <2>7, <2>8, <2>9, <2>10, <2>13, <2>14, <2>15 DEF TrialInv
<1> QED
  BY <1>3, <1>4 DEF Claim

\* Nothing but the context or the clock changes.
LEMMA TimeKeeps ==
  ASSUME TrialInv, UNCHANGED <<lane, pc, runs, memory, made, files, answer, insp>>,
         clock' \in Nat, setBack' \/ (setBack' = setBack /\ clock <= clock')
  PROVE  TrialInv'
<1>1. /\ TypeOK /\ StatusOK /\ BudgetOK /\ FrontiersOK /\ EventsOK /\ ReceiptsOK /\ TimesOK
      /\ ClosedOK /\ FilesOK /\ AnswerOK /\ InspectorOK
  BY DEF TrialInv
<1>2. UNCHANGED <<host, client, started, receipts, effects, ep, closed>>
  BY DEF memory
<1>3. TypeOK'
  BY <1>1, <1>2 DEF TypeOK
<1>4. StatusOK' /\ BudgetOK'
  BY <1>1, <1>2 DEF StatusOK, BudgetOK
<1>5. FrontiersOK' /\ EventsOK'
  BY <1>1, <1>2 DEF FrontiersOK, EventsOK, Going, Completed, Steps, ReplayedEffects
<1>6. ReceiptsOK'
  BY <1>1, <1>2 DEF ReceiptsOK, EveryPostAccounted, Going, Completed
<1>7. TimesOK'
  <2> SUFFICES ASSUME pc \in Before \cup Loop \cup {"settle"}, ~setBack'
               PROVE  /\ pc # "start" => started <= clock'
                      /\ \A i \in DOMAIN receipts :
                           started <= receipts[i].at /\ receipts[i].at <= clock'
                      /\ \A i \in 2..Len(receipts) : receipts[i - 1].at <= receipts[i].at
    BY <1>2 DEF TimesOK
  <2>1. ~setBack /\ clock <= clock' /\ clock \in Nat /\ started \in Nat
    BY <1>1 DEF TypeOK
  <2>2. /\ pc # "start" => started <= clock
        /\ \A i \in DOMAIN receipts : started <= receipts[i].at /\ receipts[i].at <= clock
        /\ \A i \in 2..Len(receipts) : receipts[i - 1].at <= receipts[i].at
    BY <1>1, <2>1 DEF TimesOK
  <2>3. ASSUME NEW i \in DOMAIN receipts PROVE receipts[i].at \in Nat
    <3>1. receipts[i] \in Receipt
      BY <1>1 DEF TypeOK
    <3> QED
      BY <3>1 DEF Receipt
  <2>4. ASSUME NEW i \in DOMAIN receipts PROVE receipts[i].at <= clock'
    BY <2>1, <2>2, <2>3
  <2> QED
    BY <2>1, <2>2, <2>4
<1>8. ClosedOK'
  <2>1. Doc(ep)' = Doc(ep) /\ Sealed(ep)' = Sealed(ep)
    BY <1>2 DEF Doc, Sealed
  <2>2. ~setBack' => ~setBack
    OBVIOUS
  <2> QED
    BY <1>1, <1>2, <2>1, <2>2 DEF ClosedOK
<1>9. FilesOK' /\ AnswerOK'
  <2>1. Whole(Doc(ep))' = Whole(Doc(ep))
    BY <1>2 DEF Doc, Whole
  <2> QED
    BY <1>1, <2>1 DEF FilesOK, AnswerOK, Claims
<1>10. InspectorOK'
  BY <1>1 DEF InspectorOK, AtRest, Claims
<1> QED
  BY <1>3, <1>4, <1>5, <1>6, <1>7, <1>8, <1>9, <1>10 DEF TrialInv

\* The context ends, the clock goes on or is set back.
LEMMA ClockKeeps ==
  ASSUME TrialInv, ContextEnds \/ Tick \/ ClockSetBack
  PROVE  TrialInv'
<1>1. clock \in Nat
  BY DEF TrialInv, TypeOK
<1>2. CASE ContextEnds
  BY <1>1, <1>2, TimeKeeps DEF ContextEnds
<1>3. CASE Tick
  BY <1>1, <1>3, TimeKeeps DEF Tick
<1>4. CASE ClockSetBack
  BY <1>1, <1>4, TimeKeeps DEF ClockSetBack
<1> QED
  BY <1>2, <1>3, <1>4

\* A recorder that has nothing in memory.
Fresh ==
  /\ lane \in {"mock", "live"} /\ pc \in {"start", "done"} /\ clock = 0 /\ answer = "none"
  /\ host = NewHost /\ client = [sent |-> 0, stopped |-> FALSE]
  /\ started = 0 /\ receipts = <<>> /\ effects = 0 /\ ep = NewEpisode /\ closed = FALSE
  /\ DOMAIN files = Names

\* The invariant holds of it, whatever the directory holds.
LEMMA FreshIs ==
  Fresh => /\ TypeOK /\ StatusOK /\ BudgetOK /\ FrontiersOK /\ EventsOK /\ ReceiptsOK /\ TimesOK
           /\ ClosedOK /\ AnswerOK
<1> SUFFICES ASSUME Fresh
             PROVE  /\ TypeOK /\ StatusOK /\ BudgetOK /\ FrontiersOK /\ EventsOK /\ ReceiptsOK
                    /\ TimesOK /\ ClosedOK /\ AnswerOK
  OBVIOUS
<1>1. IsHost(host) /\ host.content = 0 /\ host.model = 0 /\ host.tool = 0
  BY NewHostIs DEF Fresh
<1>2. /\ IsEpisode(ep) /\ ep.status = "running" /\ ep.failure = "" /\ ep.terminalFailure = ""
      /\ ep.cleanupFailure = "" /\ ep.frontiers = <<>> /\ ep.events = <<>>
  BY NewEpisodeIs DEF Fresh
<1>3. DOMAIN client = {"sent", "stopped"} /\ client.sent = 0 /\ receipts = <<>>
  BY DEF Fresh
<1>12. /\ lane \in {"mock", "live"} /\ pc \in {"start", "done"} /\ clock = 0 /\ answer = "none"
       /\ started = 0 /\ effects = 0 /\ closed = FALSE /\ DOMAIN files = Names
  BY DEF Fresh
<1>4. TypeOK
  <2>3. \A S : <<>> \in Seq(S)
    OBVIOUS
  <2>4. receipts \in Seq(Receipt)
    BY <1>3, <2>3
  <2>5. ep.frontiers \in Seq(Nat)
    BY <1>2, <2>3
  <2>6. ep.events \in Seq(Event)
    BY <1>2, <2>3
  <2>1. receipts \in Seq(Receipt) /\ ep.frontiers \in Seq(Nat) /\ ep.events \in Seq(Event)
    BY <2>4, <2>5, <2>6
  <2>2. pc \in Before \cup Loop \cup {"settle", "stage", "done"} \cup After
    BY <1>12 DEF Before
  <2>7. clock \in Nat /\ started \in Nat /\ effects \in Nat /\ closed \in BOOLEAN
    BY <1>12
  <2>8. host.model \in Nat /\ host.tool \in Nat /\ host.content \in Nat
    BY <1>1
  <2>9. client.sent \in Nat
    BY <1>3
  <2> QED
    BY <1>1, <1>2, <1>3, <1>12, <2>1, <2>2, <2>7, <2>8, <2>9 DEF TypeOK
<1>5. StatusOK
  BY <1>2 DEF StatusOK, Fresh, Before, Loop
<1>6. BudgetOK
  BY <1>1, TrialAssumption DEF BudgetOK, TrialAssumption
<1>7. FrontiersOK
  <2>1. Steps \in Nat \ {0}
    BY <1>4, StepsIsNat
  <2>2. Len(<<>>) = 0 /\ DOMAIN <<>> = {} /\ 2..0 = {}
    OBVIOUS
  <2>3. pc \notin Asked /\ pc \notin Loop /\ ~Completed
    BY <1>12 DEF Loop, Asked, Completed
  <2>4. Len(ep.frontiers) = 0 /\ DOMAIN ep.frontiers = {} /\ 2..Len(ep.frontiers) = {}
    BY <1>2, <2>2
  <2>5. host.model = Len(ep.frontiers) /\ Len(ep.frontiers) <= Steps
    BY <1>1, <2>1, <2>4
  <2>6. (ep.frontiers # <<>> => ep.frontiers[1] = 0) /\ (ep.frontiers = <<>> => ep.events = <<>>)
    BY <1>2, Zenon
  <2>7. ep.frontiers = <<>>
    BY <1>2
  <2> QED
    BY <2>3, <2>4, <2>5, <2>6, <2>7, Zenon DEF FrontiersOK
<1>8. EventsOK
  <2>1. ReplayedEffects(ep) = 0
    BY <1>2, CountIs, AppendCount
  <2>2. Len(<<>>) = 0 /\ DOMAIN <<>> = {}
    OBVIOUS
  <2>3. Len(ep.events) = 0 /\ DOMAIN ep.events = {} /\ pc # "call" /\ ~Completed
    BY <1>2, <1>12, <2>2 DEF Completed
  <2>4. host.tool = Len(ep.events) + (IF pc = "call" THEN 1 ELSE 0) /\ effects = ReplayedEffects(ep)
    BY <1>1, <1>12, <2>1, <2>3
  <2> QED
    BY <2>3, <2>4, Zenon DEF EventsOK
<1>9. ReceiptsOK
  <2>1. EveryPostAccounted
    BY <1>3, TrialAssumption DEF EveryPostAccounted, TrialAssumption
  <2>2. Len(<<>>) = 0 /\ DOMAIN <<>> = {}
    OBVIOUS
  <2>3. pc = "start" \/ ~Going
    BY <1>12 DEF Going, Completed, Before, Loop
  <2>4. Len(receipts) = 0 /\ DOMAIN receipts = {} /\ Len(ep.frontiers) = 0
    BY <1>2, <1>3, <2>2
  <2>5. pc \notin {"exchange", "boundary", "posted", "script"}
    BY <1>12
  <2>6. Len(receipts) = Len(ep.frontiers) - (IF pc \in {"exchange", "boundary"} THEN 1 ELSE 0)
    <3>1. (IF pc \in {"exchange", "boundary"} THEN 1 ELSE 0) = 0
      BY <2>5
    <3>2. 0 = 0 - 0
      OBVIOUS
    <3> QED
      BY <2>4, <3>1, <3>2, Zenon
  <2> QED
    BY <1>3, <2>1, <2>3, <2>4, <2>5, <2>6, Zenon DEF ReceiptsOK
<1>10. TimesOK
  BY <1>3 DEF TimesOK, Fresh, Before, Loop
<1>11. ClosedOK /\ AnswerOK
  BY DEF ClosedOK, AnswerOK, Fresh
<1> QED
  BY <1>4, <1>5, <1>6, <1>7, <1>8, <1>9, <1>10, <1>11

\* The process dies, or another recording starts.
LEMMA RestartKeeps ==
  ASSUME TrialInv, Crash \/ RecordAgain
  PROVE  TrialInv'
<1>1. /\ pc' \in {"start", "done"} /\ answer' = "none" /\ clock' = 0
      /\ UNCHANGED <<lane, made, files, insp>>
      /\ host' = NewHost /\ client' = [sent |-> 0, stopped |-> FALSE]
      /\ started' = 0 /\ receipts' = <<>> /\ effects' = 0 /\ ep' = NewEpisode /\ closed' = FALSE
  BY DEF Crash, RecordAgain, Forget, ResetMemory
<1>2. TypeOK /\ FilesOK /\ InspectorOK
  BY DEF TrialInv
<1>3. Fresh'
  BY <1>1, <1>2 DEF Fresh, TypeOK
<1>4. /\ TypeOK' /\ StatusOK' /\ BudgetOK' /\ FrontiersOK' /\ EventsOK' /\ ReceiptsOK' /\ TimesOK'
      /\ ClosedOK' /\ AnswerOK'
  BY <1>3, FreshIs, PTL
<1>5. FilesOK'
  BY <1>1, <1>2 DEF FilesOK, Claims, Loop, After
<1>6. InspectorOK'
  BY <1>1, <1>2 DEF InspectorOK, AtRest, Claims
<1> QED
  BY <1>4, <1>5, <1>6 DEF TrialInv

\* Every trial starts fresh.
LEMMA InitHolds == Init => TrialInv
<1> SUFFICES ASSUME Init PROVE TrialInv
  OBVIOUS
<1>1. Fresh
  BY TrialAssumption DEF Init, Fresh, TrialAssumption
<1>2. files["terminal"] = Absent /\ \A n \in Names : files[n] = Absent
  BY DEF Init, Names
<1>3. FilesOK
  BY <1>2 DEF Init, FilesOK, Loop, After
<1>4. InspectorOK
  <2>1. insp = NotInspected /\ files["terminal"].state # "whole"
    BY <1>2, States DEF Init
  <2> QED
    BY <2>1 DEF InspectorOK, NotInspected, Names, Staged, Positive
<1> QED
  BY <1>1, <1>3, <1>4, FreshIs DEF TrialInv

-----------------------------------------------------------------------------
(***************************************************************************)
(* The inspection.                                                         *)
(***************************************************************************)
IsInspection(i) ==
  DOMAIN i = {"at", "present", "previous", "last", "bad", "complete", "quiet", "verdict"}

\* The member, of some that were listed, that is read first.
FirstOf(R) ==
  CHOOSE m \in R : \A o \in R : \E i, j \in DOMAIN Order : i <= j /\ Order[i] = m /\ Order[j] = o

\* It is one of them.
LEMMA FirstListed ==
  ASSUME NEW R \in SUBSET Names, R # {}
  PROVE  FirstOf(R) \in R
<1> DEFINE Leads(m, o) == \E i, j \in DOMAIN Order : i <= j /\ Order[i] = m /\ Order[j] = o
<1>1. /\ DOMAIN Order = 1..4 /\ Order[1] = "claim" /\ Order[2] = "closure"
      /\ Order[3] = "pending" /\ Order[4] = "terminal"
  BY DEF Order
<1>2. R \subseteq {"claim", "closure", "pending", "terminal"}
  BY DEF Names, Staged
<1>3. /\ Leads("claim", "claim") /\ Leads("claim", "closure") /\ Leads("claim", "pending")
      /\ Leads("claim", "terminal")
  BY <1>1
<1>4. /\ Leads("closure", "closure") /\ Leads("closure", "pending") /\ Leads("closure", "terminal")
  BY <1>1
<1>5. /\ Leads("pending", "pending") /\ Leads("pending", "terminal")
      /\ Leads("terminal", "terminal")
  BY <1>1
<1>6. \E m \in R : \A o \in R : Leads(m, o)
  <2> HIDE DEF Leads
  <2>1. CASE "claim" \in R
    BY <1>2, <1>3, <2>1
  <2>2. CASE "claim" \notin R /\ "closure" \in R
    BY <1>2, <1>4, <2>2
  <2>3. CASE "claim" \notin R /\ "closure" \notin R /\ "pending" \in R
    BY <1>2, <1>5, <2>3
  <2>4. CASE "claim" \notin R /\ "closure" \notin R /\ "pending" \notin R
    BY <1>2, <1>5, <2>4
  <2> QED
    BY <2>1, <2>2, <2>3, <2>4
<1> QED
  BY <1>6 DEF FirstOf

\* The judgement that closes an inspection.
LEMMA VerdictIs ==
  \A i, v : LET g == Verdict(i, v)
            IN  /\ IsInspection(g) /\ g.at = "done" /\ g.present = {} /\ g.quiet = i.quiet
                /\ g.complete \in BOOLEAN /\ ~g.complete /\ g.bad \in BOOLEAN /\ g.verdict = v
BY DEF Verdict, NotInspected, IsInspection

\* What a member adds to the judgement.
Adds(i, n, f, bad, complete) ==
  [i EXCEPT !.bad = bad, !.previous = IF f.state = "whole" THEN f.doc ELSE @,
            !.last = IF f.state = "whole" THEN n ELSE @, !.complete = complete]
Conflicts(i, n, f) ==
  /\ i.last # ""
  /\ \/ Core(i.previous) # Core(f.doc)
     \/ i.last = "pending" /\ n = "terminal" /\ i.previous # f.doc
Spoils(i, n, f) ==
  \/ i.bad \/ f.state # "whole" \/ Conflicts(i, n, f)
  \/ VerifyError(f.doc, n # "closure") \notin {"", "EVIDENCE_PARTIAL"}
Completes(i, n, f) ==
  \/ i.complete
  \/ /\ f.state = "whole" /\ n = "terminal"
     /\ VerifyError(f.doc, n # "closure") = "" /\ Sealed(f.doc.ep)

\* A member adds to nothing else of an inspection.
LEMMA AddsIs ==
  ASSUME NEW i, IsInspection(i), NEW n, NEW f, NEW bad, NEW complete
  PROVE  LET g == Adds(i, n, f, bad, complete)
         IN  /\ IsInspection(g) /\ g.at = i.at /\ g.present = i.present
             /\ g.quiet = i.quiet /\ g.verdict = i.verdict
             /\ g.bad = bad /\ g.complete = complete
BY DEF IsInspection, Adds

\* Which is what Judged does.
LEMMA JudgedIs ==
  ASSUME NEW i, IsInspection(i), NEW n, NEW f
  PROVE  LET g == Judged(i, n, f)
         IN  /\ IsInspection(g) /\ g.present = i.present /\ g.quiet = i.quiet
             /\ g.verdict = i.verdict /\ g.bad = Spoils(i, n, f) /\ g.complete = Completes(i, n, f)
<1>1. Judged(i, n, f) = Adds(i, n, f, Spoils(i, n, f), Completes(i, n, f))
  BY DEF Judged, Adds, Spoils, Completes, Conflicts, IsInspection
<1> QED
  BY <1>1, AddsIs

\* The directory is listed.
LEMMA InspectListKeeps ==
  ASSUME TrialInv, InspectList
  PROVE  InspectorOK'
<1> DEFINE present == {n \in Names : files[n].state # "absent"}
           begun == [insp EXCEPT !.present = present, !.quiet = answer = "ok"]
<1>1. /\ insp.at = "idle"
      /\ UNCHANGED <<lane, pc, made, files, answer>>
  BY DEF InspectList
<1>2. FilesOK /\ AnswerOK /\ InspectorOK /\ TypeOK
  BY DEF TrialInv
<1>3. insp' = IF ~made THEN Verdict(begun, "not_started")
              ELSE IF present = {} THEN Verdict(begun, "incomplete_or_running")
              ELSE IF "claim" \notin present THEN Verdict(begun, "invalid")
              ELSE [begun EXCEPT !.at = "claim"]
  BY DEF InspectList
<1>4. IsInspection(insp) /\ insp.bad \in BOOLEAN /\ insp.complete \in BOOLEAN
      /\ ~insp.bad /\ ~insp.complete /\ insp.last = ""
  BY <1>1, <1>2 DEF InspectorOK, IsInspection
<1>5. /\ IsInspection(begun) /\ begun.present = present /\ begun.quiet = (answer = "ok")
      /\ begun.bad = insp.bad /\ begun.complete = insp.complete /\ begun.last = insp.last
      /\ begun.verdict = insp.verdict
  BY <1>4 DEF IsInspection
<1>6. present \subseteq Names
  OBVIOUS
<1>7. answer = "ok" => AtRest /\ present = {"claim", "terminal"}
  <2> SUFFICES ASSUME answer = "ok" PROVE AtRest /\ present = {"claim", "terminal"}
    OBVIOUS
  <2>1. /\ made /\ pc = "done" /\ files["terminal"] = Whole(Doc(ep))
        /\ \A n \in Staged : files[n] = Absent
    BY <1>2 DEF AnswerOK
  <2>2. Claims
    BY <1>2, <2>1, States DEF FilesOK
  <2>3. files["terminal"].state = "whole"
    BY <2>1, States
  <2>4. files["closure"].state = "absent" /\ files["pending"].state = "absent"
    BY <2>1, States DEF Staged
  <2> QED
    BY <2>1, <2>2, <2>3, <2>4 DEF AtRest, Claims, Names, Staged
<1>8. AtRest' = AtRest
  BY <1>1 DEF AtRest, Claims
<1> HIDE DEF begun, present
<1>9. ASSUME NEW v, v \notin Positive, answer # "ok", insp' = Verdict(begun, v)
      PROVE  InspectorOK'
  <2> DEFINE g == Verdict(begun, v)
  <2>1. /\ IsInspection(g) /\ g.at = "done" /\ g.present = {} /\ g.quiet = begun.quiet
        /\ g.complete \in BOOLEAN /\ ~g.complete /\ g.bad \in BOOLEAN /\ g.verdict = v
    BY VerdictIs, Zenon
  <2>2. insp' = g
    BY <1>9
  <2> HIDE DEF g
  <2>3. g.quiet = FALSE
    BY <1>5, <1>9, <2>1
  <2> QED
    BY <1>9, <2>1, <2>2, <2>3 DEF InspectorOK, IsInspection, Names, Staged
<1>10. ASSUME made, "claim" \in present, insp' = [begun EXCEPT !.at = "claim"]
       PROVE  InspectorOK'
  <2> DEFINE g == [begun EXCEPT !.at = "claim"]
  <2>1. /\ IsInspection(g) /\ g.at = "claim" /\ g.present = present /\ g.quiet = begun.quiet
        /\ g.bad = insp.bad /\ g.complete = insp.complete /\ g.last = insp.last
        /\ g.verdict = insp.verdict
    BY <1>5 DEF IsInspection
  <2>2. insp' = g
    BY <1>10
  <2> HIDE DEF g
  <2> QED
    BY <1>1, <1>2, <1>4, <1>5, <1>6, <1>7, <1>8, <1>10, <2>1, <2>2 DEF InspectorOK, IsInspection
<1>11. answer = "ok" => made /\ "claim" \in present /\ present # {}
  BY <1>7 DEF AtRest
<1> QED
  BY <1>3, <1>9, <1>10, <1>11 DEF Positive

\* A member of the listing is read.
LEMMA InspectReadKeeps ==
  ASSUME TrialInv, InspectRead
  PROVE  InspectorOK'
<1> DEFINE n == insp.at
           rest == {m \in insp.present : \E i, j \in DOMAIN Order :
                      i < j /\ Order[i] = n /\ Order[j] = m}
           read == IF n = "claim" THEN insp ELSE Judged(insp, n, files[n])
           verdict == IF read.bad THEN "invalid"
                      ELSE IF ~read.complete THEN "incomplete_or_running"
                      ELSE IF insp.present \cap Staged # {}
                      THEN "published_with_residue" ELSE "published"
           Found == /\ files["terminal"].state = "whole" /\ Sealed(files["terminal"].doc.ep)
                    /\ Verifies(lane, files["terminal"].doc, TRUE)
<1>1. n \in Names /\ UNCHANGED <<lane, pc, made, files, answer>>
  BY DEF InspectRead
<1>2. FilesOK /\ InspectorOK /\ TypeOK
  BY DEF TrialInv
<1>3. insp' = IF n = "claim" /\ files[n].state # "whole"
              THEN Verdict(insp, "invalid")
              ELSE IF rest # {} THEN [read EXCEPT !.at = FirstOf(rest)]
              ELSE Verdict(insp, verdict)
  BY DEF InspectRead, FirstOf
<1>4. /\ IsInspection(insp) /\ insp.bad \in BOOLEAN /\ insp.complete \in BOOLEAN
      /\ insp.quiet \in BOOLEAN /\ insp.present \subseteq Names
      /\ insp.complete \/ insp.verdict \in Positive => Found
  BY <1>2 DEF InspectorOK, IsInspection
<1>5. insp.quiet => /\ AtRest /\ insp.present = {"claim", "terminal"} /\ n \in insp.present
                    /\ ~insp.bad /\ insp.last = ""
  BY <1>1, <1>2 DEF InspectorOK
<1>6. rest \subseteq insp.present
  OBVIOUS
<1>7. insp.quiet => (n = "claim" => rest # {}) /\ (n = "terminal" => rest = {})
  <2>1. /\ DOMAIN Order = 1..4 /\ Order[1] = "claim" /\ Order[2] = "closure"
        /\ Order[3] = "pending" /\ Order[4] = "terminal"
    BY DEF Order
  <2>2. ASSUME insp.quiet, n = "claim" PROVE "terminal" \in rest
    <3>1. 1 \in DOMAIN Order /\ 4 \in DOMAIN Order /\ 1 < 4
      BY <2>1
    <3>2. \E i, j \in DOMAIN Order : i < j /\ Order[i] = "claim" /\ Order[j] = "terminal"
      BY <2>1, <3>1
    <3>3. "terminal" \in insp.present
      BY <1>5, <2>2
    <3> QED
      BY <2>2, <3>2, <3>3
  <2>3. ASSUME n = "terminal" PROVE rest = {}
    BY <2>1, <2>3
  <2> QED
    BY <2>2, <2>3
<1>8. insp.quiet /\ rest # {} => n = "claim"
  BY <1>5, <1>7
<1> HIDE DEF rest
<1>9. /\ IsInspection(read) /\ read.present = insp.present /\ read.quiet = insp.quiet
      /\ read.verdict = insp.verdict /\ read.bad \in BOOLEAN /\ read.complete \in BOOLEAN
      /\ read.complete => Found
  <2>1. CASE n = "claim"
    BY <1>4, <2>1
  <2>2. CASE n # "claim"
    <3> DEFINE g == Judged(insp, n, files[n])
    <3>1. /\ IsInspection(g) /\ g.present = insp.present /\ g.quiet = insp.quiet
          /\ g.verdict = insp.verdict /\ g.bad = Spoils(insp, n, files[n])
          /\ g.complete = Completes(insp, n, files[n])
      BY <1>4, JudgedIs
    <3>2. read = g
      BY <2>2
    <3> HIDE DEF g, read
    <3>3. Spoils(insp, n, files[n]) \in BOOLEAN /\ Completes(insp, n, files[n]) \in BOOLEAN
      BY <1>4 DEF Spoils, Completes
    <3>4. Completes(insp, n, files[n]) => Found
      BY <1>4, VerifyIs DEF Completes
    <3> QED
      BY <3>1, <3>2, <3>3, <3>4
  <2> QED
    BY <2>1, <2>2
<1>10. insp.quiet /\ n = "terminal" /\ Sealed(files["terminal"].doc.ep)
         => ~read.bad /\ read.complete
  <2> SUFFICES ASSUME insp.quiet, n = "terminal", Sealed(files["terminal"].doc.ep)
               PROVE  ~read.bad /\ read.complete
    OBVIOUS
  <2> DEFINE g == Judged(insp, n, files[n])
  <2>1. g.bad = Spoils(insp, n, files[n]) /\ g.complete = Completes(insp, n, files[n])
    BY <1>4, JudgedIs
  <2>2. read = g
    OBVIOUS
  <2> HIDE DEF g, read
  <2>3. files[n].state = "whole"
    BY <1>5 DEF AtRest
  <2>4. Verifies(lane, files[n].doc, TRUE)
    <3>1. files["terminal"] # Absent
      BY <2>3, States
    <3> QED
      BY <1>2, <3>1 DEF FilesOK
  <2>5. VerifyError(files[n].doc, n # "closure") = ""
    <3>1. (n # "closure") = TRUE
      OBVIOUS
    <3>2. VerifyError(files[n].doc, TRUE) = ""
      BY <2>4, VerifyIs
    <3> QED
      BY <3>1, <3>2
  <2>6. ~Spoils(insp, n, files[n])
    BY <1>5, <2>3, <2>5 DEF Spoils, Conflicts
  <2>7. Completes(insp, n, files[n])
    BY <2>3, <2>5 DEF Completes
  <2> QED
    BY <2>1, <2>2, <2>6, <2>7
<1>11. AtRest' = AtRest /\ Found' = Found
  BY <1>1 DEF AtRest, Claims
<1>12. ASSUME NEW v, insp' = Verdict(insp, v), v \in Positive => Found,
              insp.quiet => AtRest /\ (Sealed(files["terminal"].doc.ep) => v \in Positive)
       PROVE  InspectorOK'
  <2> DEFINE g == Verdict(insp, v)
  <2>1. /\ IsInspection(g) /\ g.at = "done" /\ g.present = {} /\ g.quiet = insp.quiet
        /\ g.complete \in BOOLEAN /\ ~g.complete /\ g.bad \in BOOLEAN /\ g.verdict = v
    BY VerdictIs, Zenon
  <2>2. insp' = g
    BY <1>12
  <2> HIDE DEF g
  <2>3. "done" \notin Names /\ "done" # "idle"
    BY DEF Names, Staged
  <2> QED
    BY <1>1, <1>4, <1>11, <1>12, <2>1, <2>2, <2>3 DEF InspectorOK, IsInspection
<1>13. CASE n = "claim" /\ files[n].state # "whole"
  <2>1. ~insp.quiet
    BY <1>5, <1>13 DEF AtRest, Claims
  <2>2. "invalid" \notin Positive
    BY DEF Positive
  <2>3. insp' = Verdict(insp, "invalid")
    BY <1>3, <1>13
  <2> QED
    BY <1>12, <2>1, <2>2, <2>3
<1>14. CASE ~(n = "claim" /\ files[n].state # "whole") /\ rest = {}
  <2>1. insp' = Verdict(insp, verdict)
    BY <1>3, <1>14
  <2>2. verdict \in Positive => read.complete
    BY DEF Positive
  <2>3. ~read.bad /\ read.complete => verdict \in Positive
    BY DEF Positive
  <2>4. insp.quiet => n = "terminal"
    BY <1>5, <1>7, <1>14
  <2> HIDE DEF verdict, read
  <2> QED
    BY <1>5, <1>9, <1>10, <1>12, <2>1, <2>2, <2>3, <2>4
<1>15. CASE ~(n = "claim" /\ files[n].state # "whole") /\ rest # {}
  <2> DEFINE first == FirstOf(rest)
             g == [read EXCEPT !.at = first]
  <2>1. first \in rest
    BY <1>4, <1>6, <1>15, FirstListed
  <2> HIDE DEF first
  <2>2. insp' = g
    BY <1>3, <1>15 DEF first
  <2>3. insp.quiet => read = insp
    BY <1>8, <1>15
  <2> HIDE DEF read
  <2>4. /\ IsInspection(g) /\ g.at = first /\ g.present = read.present /\ g.quiet = read.quiet
        /\ g.bad = read.bad /\ g.complete = read.complete /\ g.last = read.last
        /\ g.verdict = read.verdict
    BY <1>9 DEF IsInspection
  <2> HIDE DEF g
  <2>5. first \in Names /\ first \in insp.present /\ first # "idle" /\ first # "done"
    BY <1>4, <1>6, <2>1 DEF Names, Staged
  <2>6. insp.quiet => g.bad = insp.bad /\ g.last = insp.last
    BY <2>3, <2>4
  <2> QED
    BY <1>1, <1>4, <1>5, <1>9, <1>11, <2>2, <2>4, <2>5, <2>6 DEF InspectorOK, IsInspection
<1> QED
  BY <1>13, <1>14, <1>15

\* An inspection changes nothing else.
LEMMA InspectorKeeps ==
  ASSUME TrialInv, Inspector
  PROVE  TrialInv'
<1>1. UNCHANGED <<lane, pc, ended, clock, setBack, runs, memory, made, files, answer>>
  BY DEF Inspector, InspectList, InspectRead
<1>2. UNCHANGED <<host, client, started, receipts, effects, ep, closed>>
  BY <1>1 DEF memory
<1>3. /\ TypeOK /\ StatusOK /\ BudgetOK /\ FrontiersOK /\ EventsOK /\ ReceiptsOK /\ TimesOK
      /\ ClosedOK /\ FilesOK /\ AnswerOK
  BY DEF TrialInv
<1>4. TypeOK' /\ StatusOK' /\ BudgetOK'
  BY <1>1, <1>2, <1>3 DEF TypeOK, StatusOK, BudgetOK
<1>5. FrontiersOK' /\ EventsOK'
  BY <1>1, <1>2, <1>3 DEF FrontiersOK, EventsOK, Going, Completed, Steps, ReplayedEffects
<1>6. ReceiptsOK' /\ TimesOK'
  BY <1>1, <1>2, <1>3 DEF ReceiptsOK, TimesOK, EveryPostAccounted, Going, Completed
<1>7. ClosedOK'
  <2>1. Doc(ep)' = Doc(ep) /\ Sealed(ep)' = Sealed(ep)
    BY <1>1, <1>2 DEF Doc, Sealed
  <2> QED
    BY <1>1, <1>2, <1>3, <2>1 DEF ClosedOK
<1>8. FilesOK' /\ AnswerOK'
  <2>1. Whole(Doc(ep))' = Whole(Doc(ep))
    BY <1>1, <1>2 DEF Doc, Whole
  <2> QED
    BY <1>1, <1>3, <2>1 DEF FilesOK, AnswerOK, Claims
<1>9. InspectorOK'
  BY InspectListKeeps, InspectReadKeeps DEF Inspector
<1> QED
  BY <1>4, <1>5, <1>6, <1>7, <1>8, <1>9 DEF TrialInv

-----------------------------------------------------------------------------
(***************************************************************************)
(* The theorems.                                                           *)
(***************************************************************************)
\* Every step keeps the invariant.
LEMMA NextKeeps == TrialInv /\ [Next]_vars => TrialInv'
<1> SUFFICES ASSUME TrialInv, [Next]_vars PROVE TrialInv'
  OBVIOUS
<1>1. CASE Recorder
  BY <1>1, ClaimKeeps, WriteClaimKeeps, ProvisionKeeps, RequestKeeps, ScriptedReplyKeeps,
     ExchangeKeeps, PostKeeps, ProviderAnswerKeeps, AcceptKeeps, AdmitToolKeeps, CallToolKeeps,
     DeliverKeeps, SettleKeeps, StageKeeps, WriteClosureKeeps, CloseWorldKeeps,
     WritePendingKeeps, PublishKeeps DEF Recorder
<1>2. CASE ContextEnds \/ Tick \/ ClockSetBack
  BY <1>2, ClockKeeps
<1>3. CASE Crash \/ RecordAgain
  BY <1>3, RestartKeeps
<1>4. CASE Inspector
  BY <1>4, InspectorKeeps
<1>5. CASE UNCHANGED vars
  <2>1. UNCHANGED <<lane, pc, runs, memory, made, files, answer, insp, clock, setBack>>
    BY <1>5 DEF vars
  <2>2. clock' \in Nat /\ setBack' = setBack /\ clock <= clock'
    BY <2>1 DEF TrialInv, TypeOK
  <2> QED
    BY <2>1, <2>2, TimeKeeps
<1> QED
  BY <1>1, <1>2, <1>3, <1>4, <1>5 DEF Next

\* The invariant holds of every trial.
THEOREM TrialInvariant == Spec => []TrialInv
BY InitHolds, NextKeeps, PTL DEF Spec

\* A completed run produces evidence the verifier accepts, unless its clock was
\* set back.
THEOREM CompletedRunsVerify == Spec => []CompletedRunVerifies
<1>1. TrialInv => CompletedRunVerifies
  <2> SUFFICES ASSUME TrialInv, pc = "stage", ep.status = "completed", ep.failure = "", ~setBack
               PROVE  VerifyError(Doc(ep), FALSE) = ""
    BY DEF CompletedRunVerifies
  <2>1. Verifies(lane, Doc(ep), FALSE)
    BY DEF TrialInv, ClosedOK
  <2> QED
    BY <2>1, VerifyIs
<1> QED
  BY <1>1, TrialInvariant, PTL

\* Every POST that left the process has its receipt, only the last one may lack a
\* usable answer, and there are no more of them than was approved.
THEOREM PostsAccounted == Spec => []EveryPostAccounted
<1>1. TrialInv => EveryPostAccounted
  BY DEF TrialInv, ReceiptsOK
<1> QED
  BY <1>1, TrialInvariant, PTL

\* What an inspection finds published is whole, sealed, verified and of the run
\* that holds the claim, and what was acknowledged is found.
THEOREM InspectionsHold == Spec => []InspectionHolds
<1>1. TrialInv => InspectionHolds
  <2> SUFFICES ASSUME TrialInv PROVE PositiveIsSealed /\ AcknowledgedIsPublished
    BY DEF InspectionHolds
  <2>1. FilesOK /\ AnswerOK /\ InspectorOK
    BY DEF TrialInv
  <2>2. PositiveIsSealed
    <3> SUFFICES ASSUME insp.verdict \in Positive
                 PROVE  /\ files["terminal"].state = "whole"
                        /\ Sealed(files["terminal"].doc.ep)
                        /\ VerifyError(files["terminal"].doc, TRUE) = ""
                        /\ files["claim"].doc.run = files["terminal"].doc.run
      BY DEF PositiveIsSealed, Positive
    <3>1. /\ files["terminal"].state = "whole" /\ Sealed(files["terminal"].doc.ep)
          /\ Verifies(lane, files["terminal"].doc, TRUE)
      BY <2>1 DEF InspectorOK
    <3>2. files["terminal"] # Absent
      BY <3>1, States
    <3>3. files["claim"].doc.run = files["terminal"].doc.run
      BY <2>1, <3>2 DEF FilesOK
    <3> QED
      BY <3>1, <3>3, VerifyIs
  <2>3. AcknowledgedIsPublished
    BY <2>1 DEF AcknowledgedIsPublished, AnswerOK, InspectorOK, Positive
  <2> QED
    BY <2>2, <2>3
<1> QED
  BY <1>1, TrialInvariant, PTL
=============================================================================
