SPECIFICATION Spec
CONSTANTS
  Callers = {p1, p2, p3}
  Definitions = {d1, d2}
  Depth = 2
  None = None
SYMMETRY Symmetry
INVARIANTS
  RegistrationIsFinal
  StateOnlyAdvances
