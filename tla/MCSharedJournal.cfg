SPECIFICATION InspectionSpec
CONSTANTS
  Episodes = {e1}
  Requests = {q1, q2}
  Evidence = {d1, d2}
  Passed = {d1}
  Runners = {r1, r2}
  MaxRecords = 2
  None = None
  Workers = {w1}
  Submitters = {s1}
  Readers = {i1}
  MaxAttempts = 2
  Leases = {1}
  TicksPerSecond = 1
  Places = {1}
  MaxSetBack = 1
  MaxTime = 1
SYMMETRY Symmetry
INVARIANTS
  AcceptedViewHolds
  ParentAgrees
  EveryRecordAdmitted
  RunnerMirrorsJournal
  AnswersAgree
PROPERTY TerminalIsFinal
