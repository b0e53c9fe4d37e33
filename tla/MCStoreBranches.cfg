SPECIFICATION PageSpec
CONSTANTS
  Branches = {main, b1}
  Names = {s1}
  EventIds = {x1, x2}
  Actions = {x1, x2}
  Tools = {t1}
  FaultIds = {}
  Specs = {d1, d2}
  Clients = {c1}
  Priorities = {0}
  None = None
  MaxForks = 2
  MaxSnapshots = 1
  MaxFaultPlans = 1
  MaxFaultRepeats = 1
  MaxScheduledEvents = 2
  MaxScheduledAtInstant = 2
  MaxScheduledDelivery = 2
  MaxScheduledActions = 1
  MaxClockAdvance = 2
  MaxClock = 1
  MaxHead <- MCMaxHead
  PageSizes = {1}
  Filters = {None, "pending"}
SYMMETRY Symmetry
INVARIANTS
  HeadIdentifiesState
  PendingActionsBound
  ListingIsOneState
PROPERTY PreviewComesTrue
