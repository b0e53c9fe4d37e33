SPECIFICATION StoreSpec
CONSTANTS
  Branches = {main, b1}
  main = main
  b1 = b1
  Names = {s1}
  EventIds = {x1, x2, x3}
  Actions = {x1, x2}
  Tools = {t1}
  FaultIds = {1}
  Specs = {d1}
  Clients = {}
  Priorities = {0, 1}
  None = None
  MaxForks = 2
  MaxSnapshots = 1
  MaxFaultPlans = 2
  MaxFaultRepeats = 1
  MaxScheduledEvents = 4
  MaxScheduledAtInstant = 4
  MaxScheduledDelivery = 2
  MaxScheduledActions = 2
  MaxClockAdvance = 2
  MaxClock = 2
  MaxHead <- MCMaxHead
SYMMETRY Symmetry
INVARIANTS
  EveryStateAdmitted
  AuditExplainsWorld
  ScheduleIsHistory
PROPERTIES
  FaultsAccounted
  KeepsSchedule
