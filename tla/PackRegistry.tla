---------------------------- MODULE PackRegistry ----------------------------
(***************************************************************************)
(* One revision of a baseline pack in a local registry: processes that     *)
(* register it, deprecate or revoke it, and ask for its state.  Its        *)
(* directory holds revision.json and at most one marker per event, each    *)
(* created exclusively and then written in place, without a lock or a      *)
(* rename: every system call is a step, and a process may die at any.      *)
(***************************************************************************)
EXTENDS Naturals

CONSTANTS
  Callers,       \* processes
  Definitions,   \* contents of a pack under the one id and revision
  Depth,         \* parts of the path registry/pack/revision
  None           \* absence of a value

Kinds == {"deprecated", "revoked"}
Rank == [frozen |-> 0, deprecated |-> 1, revoked |-> 2]

ASSUME RegistryAssumption ==
  Depth \in Nat \ {0} /\ None \notin Definitions /\ None \notin DOMAIN Rank

VARIABLES
  dirs,      \* how many parts of the path exist
  file,      \* revision.json
  marker,    \* deprecated.json and revoked.json
  call,      \* what each process does
  told       \* history: definitions told registered, the state told

vars == <<dirs, file, marker, call, told>>

Absent == "absent"
Torn == "torn"        \* created, not or not wholly written
Whole == "whole"

NoCall == [op |-> None, pc |-> "idle", def |-> None, at |-> 0, floor |-> 0, answer |-> None]

Init ==
  /\ dirs = 0
  /\ file = [state |-> Absent, def |-> None]
  /\ marker = [k \in Kinds |-> Absent]
  /\ call = [c \in Callers |-> NoCall]
  /\ told = [registered |-> {}, state |-> "frozen"]

At(c, pc) == call[c].pc = pc
Goes(c, pc) == call' = [call EXCEPT ![c].pc = pc]
\* A call returns; its answer is kept until the process calls again.
Answers(c, answer) == call' = [call EXCEPT ![c].pc = "idle", ![c].answer = answer]
Refused(c, error) == Answers(c, error) /\ UNCHANGED told
\* A call answers with a state of the revision.
Tells(c, state) ==
  /\ Answers(c, state)
  /\ told' = [told EXCEPT !.state = IF Rank[state] > Rank[@] THEN state ELSE @]

\* A process begins a call; floor is the state anyone was told before.
Begin(c, op, pc, def) ==
  /\ At(c, "idle")
  /\ call' = [call EXCEPT ![c] = [NoCall EXCEPT !.op = op, !.pc = pc, !.def = def,
                                                !.floor = Rank[told.state]]]
  /\ UNCHANGED <<dirs, file, marker, told>>

\* A process dies and is forgotten, wherever it stands.
Die(c) ==
  /\ ~At(c, "idle")
  /\ call' = [call EXCEPT ![c] = NoCall]
  /\ UNCHANGED <<dirs, file, marker, told>>

-----------------------------------------------------------------------------
(***************************************************************************)
(* Register.                                                               *)
(***************************************************************************)
\* The next part of the path, or, behind the last, revision.json.
NextPart(c) ==
  call' = [call EXCEPT ![c].at = @ + 1, ![c].pc = IF call[c].at + 1 = Depth THEN "read" ELSE "look"]

\* Lstat of one part of the path.
Look(c) ==
  /\ At(c, "look")
  /\ IF dirs > call[c].at THEN NextPart(c) ELSE Goes(c, "make")
  /\ UNCHANGED <<dirs, file, marker, told>>

\* Mkdir of a part that was missing: it fails if another process made it.
Make(c) ==
  /\ At(c, "make")
  /\ IF dirs > call[c].at
     THEN Refused(c, "exists") /\ UNCHANGED dirs
     ELSE NextPart(c) /\ dirs' = call[c].at + 1 /\ UNCHANGED told
  /\ UNCHANGED <<file, marker>>

Registers(c) ==
  /\ Answers(c, "registered")
  /\ told' = [told EXCEPT !.registered = @ \cup {call[c].def}]

\* Fault: any readable revision is taken for the one to register.
SameRevisionByName(c) == file.state = Whole

\* The frozen revision is the one to register.
SameRevision(c) == file = [state |-> Whole, def |-> call[c].def]

\* An existing revision is the answer if it is the same, a conflict otherwise.
ReadOld(c) ==
  /\ At(c, "read")
  /\ IF file.state = Absent THEN Goes(c, "stat") /\ UNCHANGED told
     ELSE IF SameRevision(c) THEN Registers(c) ELSE Refused(c, "conflict")
  /\ UNCHANGED <<dirs, file, marker>>

\* Stat once more, since the error of the read does not say why.
StatOld(c) ==
  /\ At(c, "stat")
  /\ IF file.state = Absent THEN Goes(c, "open") /\ UNCHANGED told ELSE Refused(c, "conflict")
  /\ UNCHANGED <<dirs, file, marker>>

\* Fault: the revision is opened for writing whether or not it exists.
OpenNewAnyway(c) ==
  /\ At(c, "open")
  /\ file' = [state |-> Torn, def |-> None] /\ Goes(c, "write") /\ UNCHANGED told
  /\ UNCHANGED <<dirs, marker>>

\* O_CREATE with O_EXCL.
OpenNew(c) ==
  /\ At(c, "open")
  /\ IF file.state = Absent
     THEN file' = [state |-> Torn, def |-> None] /\ Goes(c, "write") /\ UNCHANGED told
     ELSE Refused(c, "conflict") /\ UNCHANGED file
  /\ UNCHANGED <<dirs, marker>>

\* Write, sync and close: an error may come before or after the bytes are there.
WriteNew(c, written, ok) ==
  /\ At(c, "write")
  /\ ok => written
  /\ file' = IF written THEN [state |-> Whole, def |-> call[c].def] ELSE file
  /\ IF ok THEN Registers(c) ELSE Refused(c, "failed")
  /\ UNCHANGED <<dirs, marker>>

-----------------------------------------------------------------------------
(***************************************************************************)
(* Transition and RevisionState.                                           *)
(***************************************************************************)
\* readRevision: only a whole, consistent revision has events or a state.
ReadRevision(c) ==
  /\ At(c, "revision")
  /\ IF file.state # Whole THEN Refused(c, "conflict")
     ELSE /\ Goes(c, CASE call[c].op = "deprecated" -> "statRevoked"
                       [] call[c].op = "revoked" -> "openMarker"
                       [] OTHER -> "lookRevoked")
          /\ UNCHANGED told
  /\ UNCHANGED <<dirs, file, marker>>

\* Fault: a revoked revision may still be deprecated.
StatNothing(c) ==
  /\ At(c, "statRevoked")
  /\ Goes(c, "openMarker")
  /\ UNCHANGED <<dirs, file, marker, told>>

\* A revoked revision is not deprecated any more.
StatRevoked(c) ==
  /\ At(c, "statRevoked")
  /\ IF marker["revoked"] = Absent THEN Goes(c, "openMarker") /\ UNCHANGED told
     ELSE Refused(c, "revoked already")
  /\ UNCHANGED <<dirs, file, marker>>

\* A marker is created once.
OpenMarker(c) ==
  /\ At(c, "openMarker")
  /\ IF marker[call[c].op] = Absent
     THEN marker' = [marker EXCEPT ![call[c].op] = Torn] /\ Goes(c, "writeMarker") /\ UNCHANGED told
     ELSE Refused(c, "conflict") /\ UNCHANGED marker
  /\ UNCHANGED <<dirs, file>>

\* Fault: a marker whose writing failed is reported as made.
WriteMarkerUnchecked(c, written, ok) ==
  /\ At(c, "writeMarker")
  /\ marker' = IF written THEN [marker EXCEPT ![call[c].op] = Whole] ELSE marker
  /\ IF ok THEN Tells(c, call[c].op) ELSE Refused(c, "failed")
  /\ UNCHANGED <<dirs, file>>

\* Write, sync and close of a marker.
WriteMarker(c, written, ok) ==
  /\ At(c, "writeMarker")
  /\ ok => written
  /\ marker' = IF written THEN [marker EXCEPT ![call[c].op] = Whole] ELSE marker
  /\ IF ok THEN Tells(c, call[c].op) ELSE Refused(c, "failed")
  /\ UNCHANGED <<dirs, file>>

\* RevisionState looks at the markers, revoked first: the first one there is the
\* answer, or, if it cannot be read, an error.
LookAtMarker(c, k, next) ==
  /\ At(c, next.from)
  /\ IF marker[k] = Absent
     THEN IF next.to = "frozen" THEN Tells(c, "frozen") ELSE Goes(c, next.to) /\ UNCHANGED told
     ELSE IF marker[k] = Whole THEN Tells(c, k) ELSE Refused(c, "invalid event")
  /\ UNCHANGED <<dirs, file, marker>>

\* Fault: deprecated.json is looked at first.
LookDeprecatedFirst(c) ==
  \/ LookAtMarker(c, "deprecated", [from |-> "lookRevoked", to |-> "lookDeprecated"])
  \/ LookAtMarker(c, "revoked", [from |-> "lookDeprecated", to |-> "frozen"])

LookForState(c) ==
  \/ LookAtMarker(c, "revoked", [from |-> "lookRevoked", to |-> "lookDeprecated"])
  \/ LookAtMarker(c, "deprecated", [from |-> "lookDeprecated", to |-> "frozen"])

-----------------------------------------------------------------------------
Next ==
  \E c \in Callers :
    \/ \E d \in Definitions : Begin(c, "register", "look", d)
    \/ \E op \in Kinds \cup {"state"} : Begin(c, op, "revision", None)
    \/ Die(c)
    \/ Look(c) \/ Make(c) \/ ReadOld(c) \/ StatOld(c) \/ OpenNew(c)
    \/ ReadRevision(c) \/ StatRevoked(c) \/ OpenMarker(c) \/ LookForState(c)
    \/ \E written, ok \in BOOLEAN : WriteNew(c, written, ok) \/ WriteMarker(c, written, ok)

Spec == Init /\ [][Next]_vars

-----------------------------------------------------------------------------
(***************************************************************************)
(* Properties.                                                             *)
(***************************************************************************)
\* A registration is final: what any process was told is registered is what
\* revision.json holds from then on, so two definitions of one revision are never
\* both accepted, however registrations overlap or die ("a changed definition
\* under the same id/revision fails", Register).
RegistrationIsFinal ==
  \A d \in told.registered : file = [state |-> Whole, def |-> d]

\* The state of a revision only advances: no call that begins after somebody was
\* told deprecated or revoked answers with less, and none deprecates what was
\* revoked ("Revocation always dominates deprecation", Transition); and the marker
\* of what anyone was told is there, whole.
StateOnlyAdvances ==
  /\ \A c \in Callers : call[c].answer \in DOMAIN Rank => Rank[call[c].answer] >= call[c].floor
  /\ told.state \in Kinds => marker[told.state] = Whole
=============================================================================
