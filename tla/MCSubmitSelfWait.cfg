SPECIFICATION Spec
CONSTANTS
  Episodes = {e1}
  Requests = {q1}
  Evidence = {d1}
  Passed = {d1}
  Runners = {}
  MaxRecords = 1
  None = None
  Workers = {w1}
  Submitters = {s1}
  MaxAttempts = 1
  Leases = {1}
  TicksPerSecond = 1
  Places = {1}
  MaxSetBack = 0
  MaxTime = 2
INVARIANT SubmitNeverWaitsForItself
