SPECIFICATION Spec
CONSTANTS
  Runners = {p1, p2}
  Entry <- MCEntry
  Repeats = 1
  TrialsPerShard = 3
  Grades <- MCGrades
  Floors <- MCFloors
  Delta = 20
  MinRepeats = 1
  MinFamilies = 2
  Strata = 1
  MinPerDomain = 1
  None = None
SYMMETRY Symmetry
INVARIANTS
  ExecutedOnce
  PassIsWhole
PROPERTIES
  CompleteStands
  AbandonedIsFinal
CHECK_DEADLOCK FALSE
