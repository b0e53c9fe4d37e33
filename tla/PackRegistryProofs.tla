-------------------------- MODULE PackRegistryProofs --------------------------
(***************************************************************************)
(* For any number of processes and definitions and any depth of the        *)
(* registry path: a registration is final, and the state of a revision     *)
(* only advances.                                                          *)
(***************************************************************************)
EXTENDS PackRegistry, TLAPS

States == {"frozen", "deprecated", "revoked"}

\* What is in the directory, and what has been told of it.
Disk ==
  /\ dirs \in Nat
  /\ DOMAIN file = {"state", "def"} /\ file.state \in {Absent, Torn, Whole}
  /\ marker \in [Kinds -> {Absent, Torn, Whole}]
  /\ told.registered \subseteq Definitions
  /\ DOMAIN told = {"registered", "state"}
  /\ told.state \in States

Says == {"frozen", "deprecated", "revoked", "registered", "exists", "conflict", "failed",
         "revoked already", "invalid event", None}

Calls ==
  /\ DOMAIN call = Callers
  /\ \A c \in Callers :
       /\ DOMAIN call[c] = {"op", "pc", "def", "at", "floor", "answer"}
       /\ call[c].at \in Nat
       /\ call[c].floor \in {0, 1, 2}
       /\ call[c].answer \in Says

\* Where a call stands says what it is, that the file it writes is not whole yet,
\* and what it cannot have been told before it began.
OnCourse(c) ==
  /\ call[c].pc \in {"look", "make", "read", "stat", "open", "write"} =>
       call[c].def \in Definitions
  /\ call[c].pc \in {"statRevoked", "openMarker", "writeMarker"} => call[c].op \in Kinds
  /\ At(c, "write") => file.state = Torn
  /\ At(c, "writeMarker") => marker[call[c].op] = Torn
  /\ call[c].pc \in {"openMarker", "writeMarker"} /\ call[c].op = "deprecated" => call[c].floor # 2
  /\ At(c, "lookDeprecated") => call[c].floor # 2
  /\ ~At(c, "idle") => call[c].answer = None

\* A process that writes revision.json is the only one that does.
OneWriter == \A c, o \in Callers : At(c, "write") /\ At(o, "write") => c = o

\* And so is one that writes a marker.
OneMarkerWriter ==
  \A c, o \in Callers :
    At(c, "writeMarker") /\ At(o, "writeMarker") /\ call[c].op = call[o].op => c = o

\* What a call was told before it began is there.
FloorStands(c) ==
  /\ call[c].floor = 1 => marker["deprecated"] = Whole
  /\ call[c].floor = 2 => marker["revoked"] = Whole

RegistryInv ==
  /\ Disk
  /\ Calls
  /\ \A c \in Callers : OnCourse(c) /\ FloorStands(c)
  /\ OneWriter
  /\ OneMarkerWriter
  /\ RegistrationIsFinal
  /\ StateOnlyAdvances

-----------------------------------------------------------------------------
(***************************************************************************)
(* The steps of a call.                                                    *)
(***************************************************************************)
LEMMA RankIs ==
  /\ DOMAIN Rank = States
  /\ Rank["frozen"] = 0 /\ Rank["deprecated"] = 1 /\ Rank["revoked"] = 2
BY DEF Rank, States

\* An empty registry satisfies the invariant.
LEMMA InitEstablishes == Init => RegistryInv
<1> SUFFICES ASSUME Init PROVE RegistryInv
  OBVIOUS
<1> USE RegistryAssumption, RankIs DEF Init, NoCall, At
<1>1. Disk /\ Calls
  BY DEF Disk, Calls, Says, States, Kinds, Absent, Torn, Whole
<1>2. \A c \in Callers : OnCourse(c) /\ FloorStands(c)
  <2> TAKE c \in Callers
  <2>1. call[c].pc = "idle" /\ call[c].floor = 0
    OBVIOUS
  <2> QED
    BY <2>1 DEF OnCourse, FloorStands
<1>3. OneWriter /\ OneMarkerWriter /\ RegistrationIsFinal
  BY DEF OneWriter, OneMarkerWriter, RegistrationIsFinal
<1>4. StateOnlyAdvances
  BY DEF StateOnlyAdvances, Kinds, States
<1> QED
  BY <1>1, <1>2, <1>3, <1>4 DEF RegistryInv

\* A call stands at pc with an answer, and nothing else of any call is new.
Moved(c, pc, answer) ==
  /\ Calls'
  /\ \A o \in Callers \ {c} : call'[o] = call[o]
  /\ call'[c].pc = pc /\ call'[c].answer = answer
  /\ call'[c].op = call[c].op /\ call'[c].def = call[c].def /\ call'[c].floor = call[c].floor

\* A call that goes on moves alone and keeps its answer.
LEMMA GoesMoves ==
  ASSUME Calls, NEW c \in Callers, NEW pc, Goes(c, pc)
  PROVE  Moved(c, pc, call[c].answer)
BY DEF Goes, Moved, Calls

\* A call that answers moves alone, to rest.
LEMMA AnswersMoves ==
  ASSUME Calls, NEW c \in Callers, NEW answer \in Says, Answers(c, answer)
  PROVE  Moved(c, "idle", answer)
BY DEF Answers, Moved, Calls

\* A call that goes up the path moves alone and keeps its answer.
LEMMA NextPartMoves ==
  ASSUME Calls, NEW c \in Callers, NextPart(c)
  PROVE  \E pc \in {"read", "look"} : Moved(c, pc, call[c].answer)
<1> DEFINE pc == IF call[c].at + 1 = Depth THEN "read" ELSE "look"
<1>1. Calls'
  BY DEF NextPart, Calls
<1>2. Moved(c, pc, call[c].answer)
  BY <1>1 DEF NextPart, Moved, Calls
<1> QED
  BY <1>2

\* A call that moves on, and neither changes a file nor tells anything new.
LEMMA MoveKeeps ==
  ASSUME RegistryInv, NEW c \in Callers, NEW pc, NEW answer, Moved(c, pc, answer),
         dirs' \in Nat, UNCHANGED <<file, marker, told>>,
         pc \notin {"write", "writeMarker"}, OnCourse(c)',
         answer \in DOMAIN Rank => Rank[answer] >= call[c].floor
  PROVE  RegistryInv'
<1>1. Disk' /\ Calls'
  BY DEF RegistryInv, Disk, Moved
<1>2. \A o \in Callers : OnCourse(o)' /\ FloorStands(o)'
  BY DEF RegistryInv, OnCourse, FloorStands, Moved, At
<1>3. OneWriter' /\ OneMarkerWriter'
  BY DEF RegistryInv, OneWriter, OneMarkerWriter, Moved, At
<1>4. RegistrationIsFinal'
  BY DEF RegistryInv, RegistrationIsFinal
<1>5. StateOnlyAdvances'
  BY DEF RegistryInv, StateOnlyAdvances, Moved
<1> QED
  BY <1>1, <1>2, <1>3, <1>4, <1>5 DEF RegistryInv

\* And one that is refused.
LEMMA RefusalKeeps ==
  ASSUME RegistryInv, NEW c \in Callers,
         NEW error \in {"exists", "conflict", "failed", "revoked already", "invalid event"},
         Refused(c, error), dirs' \in Nat, UNCHANGED <<file, marker>>
  PROVE  RegistryInv'
<1>1. Moved(c, "idle", error)
  BY AnswersMoves DEF Refused, Says, RegistryInv
<1>2. OnCourse(c)'
  BY <1>1 DEF Moved, OnCourse, At
<1> QED
  BY <1>1, <1>2, MoveKeeps, RankIs DEF Refused, States

\* What RegistryInv says of one call.
LEMMA CallStands ==
  ASSUME RegistryInv, NEW c \in Callers
  PROVE  Disk /\ Calls /\ OnCourse(c) /\ FloorStands(c) /\ (~At(c, "idle") => call[c].answer = None)
BY DEF RegistryInv, OnCourse

\* Looking at the path of the registry changes nothing on disk.
LEMMA LookKeeps ==
  ASSUME RegistryInv, NEW c \in Callers, Look(c)
  PROVE  RegistryInv'
<1>1. \E pc \in {"read", "look", "make"} : Moved(c, pc, None)
  BY CallStands, GoesMoves, NextPartMoves DEF Look, At
<1>2. PICK pc \in {"read", "look", "make"} : Moved(c, pc, None)
  BY <1>1
<1>3. OnCourse(c)'
  BY <1>2, CallStands DEF OnCourse, Moved, At, Look
<1> QED
  BY <1>2, <1>3, MoveKeeps, CallStands, RegistryAssumption DEF Look, Disk

\* A directory made, or made by another.
LEMMA MakeKeeps ==
  ASSUME RegistryInv, NEW c \in Callers, Make(c)
  PROVE  RegistryInv'
<1>1. CASE dirs > call[c].at
  BY <1>1, RefusalKeeps, CallStands DEF Make, Disk
<1>2. CASE ~(dirs > call[c].at)
  <2>1. PICK pc \in {"read", "look"} : Moved(c, pc, None)
    BY <1>2, CallStands, NextPartMoves DEF Make, At
  <2>2. OnCourse(c)'
    BY <2>1, CallStands DEF OnCourse, Moved, At, Make
  <2>3. dirs' \in Nat
    BY <1>2, CallStands DEF Make, Calls
  <2> QED
    BY <1>2, <2>1, <2>2, <2>3, MoveKeeps, RegistryAssumption DEF Make
<1> QED
  BY <1>1, <1>2

\* There is a file that could not be read.
LEMMA StatOldKeeps ==
  ASSUME RegistryInv, NEW c \in Callers, StatOld(c)
  PROVE  RegistryInv'
<1>1. CASE file.state = Absent
  <2>1. Moved(c, "open", None)
    BY <1>1, CallStands, GoesMoves DEF StatOld, At
  <2>2. OnCourse(c)'
    BY <2>1, CallStands DEF OnCourse, Moved, At, StatOld
  <2> QED
    BY <1>1, <2>1, <2>2, MoveKeeps, CallStands, RegistryAssumption DEF StatOld, Disk
<1>2. CASE file.state # Absent
  BY <1>2, RefusalKeeps, CallStands DEF StatOld, Disk
<1> QED
  BY <1>1, <1>2

\* A duplicate is registered already.
LEMMA ReadOldKeeps ==
  ASSUME RegistryInv, NEW c \in Callers, ReadOld(c)
  PROVE  RegistryInv'
<1>1. CASE file.state = Absent
  <2>1. Moved(c, "stat", None)
    BY <1>1, CallStands, GoesMoves DEF ReadOld, At
  <2>2. OnCourse(c)'
    BY <2>1, CallStands DEF OnCourse, Moved, At, ReadOld
  <2> QED
    BY <1>1, <2>1, <2>2, MoveKeeps, CallStands, RegistryAssumption DEF ReadOld, Disk
<1>2. CASE file.state # Absent /\ ~SameRevision(c)
  BY <1>2, RefusalKeeps, CallStands DEF ReadOld, Disk
<1>3. CASE file.state # Absent /\ SameRevision(c)
  <2>1. Moved(c, "idle", "registered")
    BY <1>3, CallStands, AnswersMoves DEF ReadOld, Registers, Says
  <2>2. told' = [told EXCEPT !.registered = @ \cup {call[c].def}] /\ call[c].def \in Definitions
    BY <1>3, CallStands DEF ReadOld, Registers, OnCourse, At
  <2>3. Disk' /\ Calls'
    BY <2>1, <2>2, CallStands DEF Disk, Moved, ReadOld
  <2>4. \A o \in Callers : OnCourse(o)' /\ FloorStands(o)'
    BY <2>1 DEF RegistryInv, OnCourse, FloorStands, Moved, At, ReadOld
  <2>5. OneWriter' /\ OneMarkerWriter'
    BY <2>1 DEF RegistryInv, OneWriter, OneMarkerWriter, Moved, At
  <2>6. RegistrationIsFinal'
    BY <1>3, <2>2 DEF RegistryInv, Disk, RegistrationIsFinal, SameRevision, ReadOld
  <2>7. StateOnlyAdvances'
    BY <2>1, <2>2, RankIs DEF RegistryInv, Disk, StateOnlyAdvances, Moved, ReadOld, States
  <2> QED
    BY <2>3, <2>4, <2>5, <2>6, <2>7 DEF RegistryInv
<1> QED
  BY <1>1, <1>2, <1>3

\* Nobody else can be writing the file that is created, and nothing was registered.
LEMMA OpenNewKeeps ==
  ASSUME RegistryInv, NEW c \in Callers, OpenNew(c)
  PROVE  RegistryInv'
<1>1. CASE file.state # Absent
  BY <1>1, RefusalKeeps, CallStands DEF OpenNew, Disk
<1>2. CASE file.state = Absent
  <2>1. Moved(c, "write", None)
    BY <1>2, CallStands, GoesMoves DEF OpenNew, At
  <2>2. file' = [state |-> Torn, def |-> None] /\ UNCHANGED <<dirs, marker, told>>
    BY <1>2 DEF OpenNew
  <2>3. Disk' /\ Calls'
    BY <2>1, <2>2, CallStands DEF Disk, Moved
  <2>4. \A o \in Callers : ~At(o, "write")
    BY <1>2 DEF RegistryInv, OnCourse, Absent, Torn
  <2>5. \A o \in Callers : OnCourse(o)' /\ FloorStands(o)'
    BY <2>1, <2>2, <2>4 DEF RegistryInv, OnCourse, FloorStands, Moved, At, OpenNew
  <2>6. OneWriter' /\ OneMarkerWriter'
    BY <2>1, <2>4 DEF RegistryInv, OneWriter, OneMarkerWriter, Moved, At
  <2>7. RegistrationIsFinal'
    BY <1>2, <2>2 DEF RegistryInv, RegistrationIsFinal, Absent, Whole
  <2>8. StateOnlyAdvances'
    BY <2>1, <2>2, RankIs, RegistryAssumption DEF RegistryInv, StateOnlyAdvances, Moved
  <2> QED
    BY <2>3, <2>5, <2>6, <2>7, <2>8 DEF RegistryInv
<1> QED
  BY <1>1, <1>2

\* The file was not whole, so that nothing had been registered.
LEMMA WriteNewKeeps ==
  ASSUME RegistryInv, NEW c \in Callers, NEW written \in BOOLEAN, NEW ok \in BOOLEAN,
         WriteNew(c, written, ok)
  PROVE  RegistryInv'
<1>1. file.state = Torn /\ call[c].def \in Definitions /\ UNCHANGED <<dirs, marker>>
  BY CallStands DEF OnCourse, At, WriteNew
<1>2. told.registered = {}
  BY <1>1 DEF RegistryInv, RegistrationIsFinal, Torn, Whole
<1>3. \E answer \in {"registered", "failed"} : Moved(c, "idle", answer)
  BY CallStands, AnswersMoves DEF WriteNew, Registers, Refused, Says
<1>4. PICK answer \in {"registered", "failed"} : Moved(c, "idle", answer)
  BY <1>3
<1>5. file' = (IF written THEN [state |-> Whole, def |-> call[c].def] ELSE file)
  BY DEF WriteNew
<1>6. told' = (IF ok THEN [told EXCEPT !.registered = @ \cup {call[c].def}] ELSE told)
  BY DEF WriteNew, Registers, Refused
<1>7. Disk' /\ Calls'
  <2>1. DOMAIN file' = {"state", "def"} /\ file'.state \in {Absent, Torn, Whole}
    BY <1>5, CallStands DEF Disk
  <2> QED
    BY <1>1, <1>4, <1>6, <2>1, CallStands DEF Disk, Moved
<1>8. \A o \in Callers : OnCourse(o)' /\ FloorStands(o)'
  <2>1. \A o \in Callers : ~At(o, "write")'
    BY <1>4 DEF RegistryInv, OneWriter, Moved, At, WriteNew
  <2> QED
    BY <1>1, <1>4, <2>1 DEF RegistryInv, OnCourse, FloorStands, Moved, At
<1>9. OneWriter' /\ OneMarkerWriter'
  BY <1>4 DEF RegistryInv, OneWriter, OneMarkerWriter, Moved, At
<1>10. RegistrationIsFinal'
  BY <1>2, <1>5, <1>6 DEF RegistrationIsFinal, WriteNew, RegistryInv, Disk
<1>11. StateOnlyAdvances'
  BY <1>1, <1>4, <1>6, RankIs DEF RegistryInv, Disk, StateOnlyAdvances, Moved, States
<1> QED
  BY <1>7, <1>8, <1>9, <1>10, <1>11 DEF RegistryInv

\* A revision that can be read has events and a state.
LEMMA ReadRevisionKeeps ==
  ASSUME RegistryInv, NEW c \in Callers, ReadRevision(c)
  PROVE  RegistryInv'
<1>1. CASE file.state # Whole
  BY <1>1, RefusalKeeps, CallStands DEF ReadRevision, Disk
<1>2. CASE file.state = Whole
  <2>1. PICK pc \in {"statRevoked", "openMarker", "lookRevoked"} :
          /\ Moved(c, pc, None)
          /\ pc = "statRevoked" => call[c].op = "deprecated"
          /\ pc = "openMarker" => call[c].op = "revoked"
    BY <1>2, CallStands, GoesMoves DEF ReadRevision, At
  <2>2. OnCourse(c)'
    BY <2>1, CallStands DEF OnCourse, Moved, At, ReadRevision, Kinds
  <2> QED
    BY <1>2, <2>1, <2>2, MoveKeeps, CallStands, RegistryAssumption DEF ReadRevision, Disk
<1> QED
  BY <1>1, <1>2

\* What is not revoked now was not when the call began.
LEMMA StatRevokedKeeps ==
  ASSUME RegistryInv, NEW c \in Callers, StatRevoked(c)
  PROVE  RegistryInv'
<1>1. CASE marker["revoked"] # Absent
  BY <1>1, RefusalKeeps, CallStands DEF StatRevoked, Disk
<1>2. CASE marker["revoked"] = Absent
  <2>1. Moved(c, "openMarker", None)
    BY <1>2, CallStands, GoesMoves DEF StatRevoked, At
  <2>2. call[c].floor # 2
    BY <1>2, CallStands DEF FloorStands, Absent, Whole
  <2>3. OnCourse(c)'
    BY <2>1, <2>2, CallStands DEF OnCourse, Moved, At, StatRevoked
  <2> QED
    BY <1>2, <2>1, <2>3, MoveKeeps, CallStands, RegistryAssumption DEF StatRevoked, Disk
<1> QED
  BY <1>1, <1>2

\* Nobody else can be writing the marker that is created, and nobody was told of it.
LEMMA OpenMarkerKeeps ==
  ASSUME RegistryInv, NEW c \in Callers, OpenMarker(c)
  PROVE  RegistryInv'
<1>1. CASE marker[call[c].op] # Absent
  BY <1>1, RefusalKeeps, CallStands DEF OpenMarker, Disk
<1>2. CASE marker[call[c].op] = Absent
  <2> DEFINE k == call[c].op
  <2>1. Moved(c, "writeMarker", None) /\ k \in Kinds
    BY <1>2, CallStands, GoesMoves DEF OpenMarker, At, OnCourse
  <2>2. marker' = [marker EXCEPT ![k] = Torn] /\ UNCHANGED <<dirs, file, told>>
    BY <1>2 DEF OpenMarker
  <2>3. Disk' /\ Calls'
    BY <2>1, <2>2, CallStands DEF Disk, Moved
  <2>4. \A o \in Callers : ~(At(o, "writeMarker") /\ call[o].op = k)
    BY <1>2 DEF RegistryInv, OnCourse, Absent, Torn
  <2>5. \A m \in Kinds : marker'[m] = IF m = k THEN Torn ELSE marker[m]
    BY <2>1, <2>2, CallStands DEF Disk
  <2>6. \A o \in Callers : OnCourse(o)'
    <3>1. OnCourse(c)'
      BY <2>1, <2>2, <2>5, CallStands DEF OnCourse, Moved, At, OpenMarker
    <3>2. \A o \in Callers \ {c} : OnCourse(o)'
      BY <2>1, <2>2, <2>4, <2>5 DEF RegistryInv, OnCourse, Moved, At
    <3> QED
      BY <3>1, <3>2
  <2>7. \A o \in Callers : FloorStands(o)'
    BY <1>2, <2>1, <2>5 DEF RegistryInv, FloorStands, Moved, Kinds, Absent, Whole
  <2>8. OneWriter' /\ OneMarkerWriter'
    BY <2>1, <2>4 DEF RegistryInv, OneWriter, OneMarkerWriter, Moved, At
  <2>9. RegistrationIsFinal'
    BY <2>2 DEF RegistryInv, RegistrationIsFinal
  <2>10. StateOnlyAdvances'
    BY <1>2, <2>1, <2>2, <2>5, RankIs, RegistryAssumption
    DEF RegistryInv, StateOnlyAdvances, Moved, Absent, Whole
  <2> QED
    BY <2>3, <2>6, <2>7, <2>8, <2>9, <2>10 DEF RegistryInv
<1> QED
  BY <1>1, <1>2

\* What a call that tells a state does to what has been told.
LEMMA TellingAdvances ==
  ASSUME Disk, NEW c \in Callers, NEW state \in States, Tells(c, state)
  PROVE  /\ told'.registered = told.registered
         /\ DOMAIN told' = {"registered", "state"}
         /\ told'.state \in {told.state, state}
BY DEF Tells, Disk

\* A marker that is told is whole.
LEMMA WriteMarkerKeeps ==
  ASSUME RegistryInv, NEW c \in Callers, NEW written \in BOOLEAN, NEW ok \in BOOLEAN,
         WriteMarker(c, written, ok)
  PROVE  RegistryInv'
<1> DEFINE k == call[c].op
<1>1. k \in Kinds /\ k \in States /\ marker[k] = Torn /\ UNCHANGED <<dirs, file>>
  BY CallStands DEF OnCourse, At, WriteMarker, Kinds, States
<1>2. PICK answer \in {k, "failed"} : Moved(c, "idle", answer)
  BY <1>1, CallStands, AnswersMoves DEF WriteMarker, Tells, Refused, Says, States
<1>3. \A m \in Kinds : marker'[m] = IF m = k /\ written THEN Whole ELSE marker[m]
  BY <1>1, CallStands DEF WriteMarker, Disk
<1>4. /\ told'.registered = told.registered
      /\ DOMAIN told' = {"registered", "state"}
      /\ told'.state = told.state \/ (ok /\ told'.state = k)
  BY <1>1, CallStands, TellingAdvances DEF WriteMarker, Refused, Disk
<1>5. Disk' /\ Calls'
  <2>1. marker' \in [Kinds -> {Absent, Torn, Whole}]
    BY <1>1, CallStands DEF WriteMarker, Disk
  <2> QED
    BY <1>1, <1>2, <1>4, <2>1, CallStands DEF Disk, Moved
<1>6. \A o \in Callers : ~(At(o, "writeMarker") /\ call[o].op = k)'
  BY <1>2 DEF RegistryInv, OneMarkerWriter, Moved, At, WriteMarker
<1>7. \A o \in Callers : OnCourse(o)'
  <2>1. OnCourse(c)'
    BY <1>2 DEF OnCourse, Moved, At
  <2>2. \A o \in Callers \ {c} : OnCourse(o)'
    BY <1>1, <1>2, <1>3, <1>6 DEF RegistryInv, OnCourse, Moved, At
  <2> QED
    BY <2>1, <2>2
<1>8. \A o \in Callers : FloorStands(o)'
  BY <1>1, <1>2, <1>3 DEF RegistryInv, FloorStands, Moved, Kinds
<1>9. OneWriter' /\ OneMarkerWriter'
  BY <1>2 DEF RegistryInv, OneWriter, OneMarkerWriter, Moved, At
<1>10. RegistrationIsFinal'
  BY <1>1, <1>4 DEF RegistryInv, RegistrationIsFinal
<1>11. StateOnlyAdvances'
  <2>1. told'.state \in Kinds => marker'[told'.state] = Whole
    BY <1>1, <1>3, <1>4, CallStands DEF RegistryInv, StateOnlyAdvances, WriteMarker
  <2>2. answer \in DOMAIN Rank => Rank[answer] >= call[c].floor
    BY <1>1, <1>2, CallStands, RankIs
    DEF FloorStands, Calls, Kinds, States, Torn, Whole, OnCourse, At, WriteMarker
  <2> QED
    BY <1>2, <2>1, <2>2 DEF RegistryInv, StateOnlyAdvances, Moved
<1> QED
  BY <1>5, <1>7, <1>8, <1>9, <1>10, <1>11 DEF RegistryInv

\* A call that tells a state which stands.
LEMMA TellKeeps ==
  ASSUME RegistryInv, NEW c \in Callers, NEW state \in States, Tells(c, state),
         state \in Kinds => marker[state] = Whole, Rank[state] >= call[c].floor,
         UNCHANGED <<dirs, file, marker>>
  PROVE  RegistryInv'
<1>1. Moved(c, "idle", state)
  BY AnswersMoves, CallStands DEF Tells, States, Says
<1>2. /\ told'.registered = told.registered
      /\ DOMAIN told' = {"registered", "state"}
      /\ told'.state \in {told.state, state}
  BY TellingAdvances, CallStands
<1>3. Disk' /\ Calls'
  BY <1>1, <1>2, CallStands DEF Disk, Moved
<1>4. \A o \in Callers : OnCourse(o)' /\ FloorStands(o)'
  BY <1>1 DEF RegistryInv, OnCourse, FloorStands, Moved, At
<1>5. OneWriter' /\ OneMarkerWriter'
  BY <1>1 DEF RegistryInv, OneWriter, OneMarkerWriter, Moved, At
<1>6. RegistrationIsFinal'
  BY <1>2 DEF RegistryInv, RegistrationIsFinal
<1>7. StateOnlyAdvances'
  BY <1>1, <1>2, RankIs DEF RegistryInv, StateOnlyAdvances, Moved
<1> QED
  BY <1>3, <1>4, <1>5, <1>6, <1>7 DEF RegistryInv

\* A marker that was told is found, the stronger one first.
LEMMA LookForStateKeeps ==
  ASSUME RegistryInv, NEW c \in Callers, LookForState(c)
  PROVE  RegistryInv'
<1> USE CallStands DEF FloorStands, Absent, Whole
<1>0. call[c].floor \in {0, 1, 2}
  BY DEF Calls
<1>1. CASE LookAtMarker(c, "revoked", [from |-> "lookRevoked", to |-> "lookDeprecated"])
  <2>1. CASE marker["revoked"] = Absent
    <3>1. Moved(c, "lookDeprecated", None)
      <4>1. Goes(c, "lookDeprecated") /\ call[c].answer = None
        BY <1>1, <2>1 DEF LookAtMarker, At
      <4> QED
        BY <4>1, GoesMoves
    <3>2. call[c].floor # 2
      BY <2>1
    <3>3. OnCourse(c)'
      BY <3>1, <3>2 DEF OnCourse, Moved, At
    <3> QED
      BY <1>1, <2>1, <3>1, <3>3, MoveKeeps, RegistryAssumption DEF LookAtMarker, Disk
  <2>2. CASE marker["revoked"] = Whole
    BY <1>0, <1>1, <2>2, TellKeeps, RankIs DEF LookAtMarker, States
  <2>3. CASE marker["revoked"] \notin {Absent, Whole}
    BY <1>1, <2>3, RefusalKeeps DEF LookAtMarker, Disk
  <2> QED
    BY <2>1, <2>2, <2>3
<1>2. CASE LookAtMarker(c, "deprecated", [from |-> "lookDeprecated", to |-> "frozen"])
  <2>0. call[c].floor # 2
    BY <1>2 DEF LookAtMarker, OnCourse
  <2>1. CASE marker["deprecated"] = Absent
    BY <1>0, <1>2, <2>0, <2>1, TellKeeps, RankIs DEF LookAtMarker, States, Kinds
  <2>2. CASE marker["deprecated"] = Whole
    BY <1>0, <1>2, <2>0, <2>2, TellKeeps, RankIs DEF LookAtMarker, States
  <2>3. CASE marker["deprecated"] \notin {Absent, Whole}
    BY <1>2, <2>3, RefusalKeeps DEF LookAtMarker, Disk
  <2> QED
    BY <2>1, <2>2, <2>3
<1> QED
  BY <1>1, <1>2 DEF LookForState

\* A call begins: its floor is the state that stands.
LEMMA BeginKeeps ==
  ASSUME RegistryInv, NEW c \in Callers, NEW op, NEW pc \in {"look", "revision"}, NEW def,
         pc = "look" => def \in Definitions, Begin(c, op, pc, def)
  PROVE  RegistryInv'
<1>1. /\ Calls'
      /\ \A o \in Callers \ {c} : call'[o] = call[o]
      /\ call'[c].pc = pc /\ call'[c].def = def /\ call'[c].answer = None
      /\ call'[c].floor = Rank[told.state]
  <2>1. Rank[told.state] \in {0, 1, 2}
    BY CallStands, RankIs DEF Disk, States
  <2>2. DEFINE new == [NoCall EXCEPT !.op = op, !.pc = pc, !.def = def, !.floor = Rank[told.state]]
  <2>3. /\ DOMAIN new = {"op", "pc", "def", "at", "floor", "answer"}
        /\ new.pc = pc /\ new.def = def /\ new.at = 0 /\ new.answer = None
        /\ new.floor = Rank[told.state]
    BY DEF NoCall
  <2>4. call' = [call EXCEPT ![c] = new]
    BY DEF Begin
  <2> HIDE DEF new
  <2>5. /\ DOMAIN call' = Callers
        /\ \A o \in Callers : call'[o] = IF o = c THEN new ELSE call[o]
    BY <2>4, CallStands DEF Calls
  <2>6. \A o \in Callers :
          /\ DOMAIN call'[o] = {"op", "pc", "def", "at", "floor", "answer"}
          /\ call'[o].at \in Nat /\ call'[o].floor \in {0, 1, 2} /\ call'[o].answer \in Says
    <3>1. Calls
      BY CallStands
    <3>2. /\ new.at \in Nat /\ new.floor \in {0, 1, 2} /\ new.answer \in Says
      BY <2>1, <2>3 DEF Says
    <3>3. TAKE o \in Callers
    <3>4. CASE o = c
      BY <2>3, <2>5, <3>2, <3>4
    <3>5. CASE o # c
      BY <2>5, <3>1, <3>5 DEF Calls
    <3> QED
      BY <3>4, <3>5
  <2>7. Calls'
    BY <2>5, <2>6 DEF Calls
  <2> QED
    BY <2>3, <2>5, <2>7
<1>2. /\ told'.registered = told.registered /\ told'.state = told.state
      /\ DOMAIN told' = {"registered", "state"}
  BY CallStands DEF Begin, Disk
<1>3. UNCHANGED <<dirs, file, marker>>
  BY DEF Begin
<1>4. Disk'
  BY <1>2, <1>3, CallStands DEF Disk
<1>5. \A o \in Callers : OnCourse(o)' /\ FloorStands(o)'
  <2>1. OnCourse(c)'
    BY <1>1, <1>3 DEF OnCourse, At
  <2>2. FloorStands(c)'
    BY <1>1, <1>3, CallStands, RankIs DEF FloorStands, RegistryInv, StateOnlyAdvances, Disk, States, Kinds
  <2> QED
    BY <1>1, <1>3, <2>1, <2>2 DEF RegistryInv, OnCourse, FloorStands, At
<1>6. OneWriter' /\ OneMarkerWriter'
  BY <1>1 DEF RegistryInv, OneWriter, OneMarkerWriter, At
<1>7. RegistrationIsFinal' /\ StateOnlyAdvances'
  BY <1>1, <1>2, <1>3, RankIs, RegistryAssumption DEF RegistryInv, RegistrationIsFinal, StateOnlyAdvances
<1> QED
  BY <1>1, <1>4, <1>5, <1>6, <1>7 DEF RegistryInv

\* A process dies.
LEMMA DieKeeps ==
  ASSUME RegistryInv, NEW c \in Callers, Die(c)
  PROVE  RegistryInv'
<1>1. /\ Calls'
      /\ \A o \in Callers \ {c} : call'[o] = call[o]
      /\ call'[c] = NoCall
  BY CallStands DEF Die, Calls, NoCall, Says
<1>2. call'[c].pc = "idle" /\ call'[c].answer = None /\ call'[c].floor = 0
  BY <1>1 DEF NoCall
<1>3. UNCHANGED <<dirs, file, marker, told>>
  BY DEF Die
<1>4. \A o \in Callers : OnCourse(o)' /\ FloorStands(o)'
  BY <1>1, <1>2, <1>3 DEF RegistryInv, OnCourse, FloorStands, At
<1>5. OneWriter' /\ OneMarkerWriter'
  BY <1>1, <1>2 DEF RegistryInv, OneWriter, OneMarkerWriter, At
<1>6. Disk' /\ RegistrationIsFinal' /\ StateOnlyAdvances'
  BY <1>1, <1>2, <1>3, RankIs, RegistryAssumption
  DEF RegistryInv, Disk, RegistrationIsFinal, StateOnlyAdvances
<1> QED
  BY <1>1, <1>4, <1>5, <1>6 DEF RegistryInv

\* Every step of every call keeps the invariant.
LEMMA NextKeeps == RegistryInv /\ [Next]_vars => RegistryInv'
<1> SUFFICES ASSUME RegistryInv, [Next]_vars PROVE RegistryInv'
  OBVIOUS
<1>1. CASE UNCHANGED vars
  BY <1>1 DEF vars, RegistryInv, Disk, Calls, OnCourse, FloorStands, OneWriter, OneMarkerWriter,
     RegistrationIsFinal, StateOnlyAdvances, At
<1>2. ASSUME NEW c \in Callers, NEW d \in Definitions, Begin(c, "register", "look", d)
      PROVE  RegistryInv'
  BY <1>2, BeginKeeps
<1>3. ASSUME NEW c \in Callers, NEW op \in Kinds \cup {"state"}, Begin(c, op, "revision", None)
      PROVE  RegistryInv'
  BY <1>3, BeginKeeps
<1>4. ASSUME NEW c \in Callers, NEW written \in BOOLEAN, NEW ok \in BOOLEAN,
             WriteNew(c, written, ok) \/ WriteMarker(c, written, ok)
      PROVE  RegistryInv'
  BY <1>4, WriteNewKeeps, WriteMarkerKeeps
<1>5. ASSUME NEW c \in Callers,
             \/ Die(c) \/ Look(c) \/ Make(c) \/ ReadOld(c) \/ StatOld(c) \/ OpenNew(c)
             \/ ReadRevision(c) \/ StatRevoked(c) \/ OpenMarker(c) \/ LookForState(c)
      PROVE  RegistryInv'
  BY <1>5, DieKeeps, LookKeeps, MakeKeeps, ReadOldKeeps, StatOldKeeps, OpenNewKeeps,
     ReadRevisionKeeps, StatRevokedKeeps, OpenMarkerKeeps, LookForStateKeeps
<1> QED
  BY <1>1, <1>2, <1>3, <1>4, <1>5 DEF Next

-----------------------------------------------------------------------------
\* The registry as a whole: who writes a file, and what stands of what was told.
THEOREM RegistryInvariant == Spec => []RegistryInv
BY InitEstablishes, NextKeeps, PTL DEF Spec

\* No two definitions of one revision are ever both registered: what a process
\* was told is registered stays in revision.json, whoever registers, or dies in
\* the middle of it, at the same time (Register).
THEOREM RegistrationsAreFinal == Spec => []RegistrationIsFinal
<1>1. RegistryInv => RegistrationIsFinal
  BY DEF RegistryInv
<1> QED
  BY <1>1, RegistryInvariant, PTL

\* No call answers with less than what anyone was told before it began, and what
\* was told of a revision is on the disk (Transition, RevisionState).
THEOREM StatesOnlyAdvance == Spec => []StateOnlyAdvances
<1>1. RegistryInv => StateOnlyAdvances
  BY DEF RegistryInv
<1> QED
  BY <1>1, RegistryInvariant, PTL

=============================================================================
