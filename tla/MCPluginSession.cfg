SPECIFICATION LiveSessionSpec
CONSTANTS
  Calls = {c1, c2}
  None = None
  MaxInflight = 2
  MaxAttempts = 1
  MaxRequests = 2
CHECK_DEADLOCK FALSE
INVARIANTS
  EvidenceIsComplete
  ToldIsPublished
  AcceptedWasSealed
PROPERTIES
  AcceptedIsFinal
  SessionEnds
