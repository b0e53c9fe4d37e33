SPECIFICATION Spec
CONSTANTS
  Episodes = {e1}
  Requests = {q1}
  Evidence = {d1, d2}
  Passed = {d1}
  Runners = {r1}
  MaxRecords = 1
  None = None
  Workers = {w1, w2}
  Submitters = {s1}
  MaxAttempts = 2
  Leases = {2}
  TicksPerSecond = 2
  Places = {2}
  MaxSetBack = 1
  MaxTime = 2
SYMMETRY Symmetry
INVARIANTS
  EveryTaskAdmitted
  RetriesAreSafe
  OneLiveAttemptPerSecond
PROPERTIES
  EndedStaysEnded
  KeepsPromise
