--------------------------- MODULE EpisodePromise ---------------------------
(***************************************************************************)
(* What the coordinator promises of one Episode (SPEC-0018 section 4): it  *)
(* accepts at most one terminal Evidence, from the holder of the latest    *)
(* term, and nothing follows acceptance, withdrawal, exhaustion or doubt.  *)
(* No leases, clocks, rows or retries: those are how it keeps the promise. *)
(***************************************************************************)
EXTENDS Integers

CONSTANTS Episodes, Evidence, None

VARIABLES
  phase,     \* where each Episode stands
  term,      \* how many times it was granted
  verdict    \* the Evidence accepted for it

promiseVars == <<phase, term, verdict>>

Init ==
  /\ phase = [e \in Episodes |-> "absent"]
  /\ term = [e \in Episodes |-> 0]
  /\ verdict = [e \in Episodes |-> None]

Moves(e, from, to) == phase[e] \in from /\ phase'[e] = to

\* Granting, alone or right after the previous holder's lease ran out.
Grant(e) ==
  /\ Moves(e, {"open", "held"}, "held")
  /\ term'[e] = term[e] + 1
  /\ verdict'[e] = verdict[e]

Accept(e) ==
  /\ Moves(e, {"held"}, "accepted")
  /\ verdict'[e] \in Evidence
  /\ term'[e] = term[e]

\* Offered, released for another try, or closed without Evidence.
Move(e) ==
  /\ \/ Moves(e, {"absent", "held"}, "open")
     \/ Moves(e, {"open", "held"}, "withdrawn")
     \/ Moves(e, {"held"}, "exhausted")
     \/ Moves(e, {"held"}, "doubtful")
  /\ term'[e] = term[e]
  /\ verdict'[e] = verdict[e]

Keep(e) ==
  phase'[e] = phase[e] /\ term'[e] = term[e] /\ verdict'[e] = verdict[e]

\* One step of the coordinator may move several Episodes: a recovery does.
Next == \A e \in Episodes : Grant(e) \/ Accept(e) \/ Move(e) \/ Keep(e)

Spec == Init /\ [][Next]_promiseVars
=============================================================================
