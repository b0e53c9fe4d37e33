SPECIFICATION Spec
CONSTANTS
    Lanes = {"mock", "live"}
    Batches <- MCBatches
    Script = 3
    ModelRequests = 3
    ToolAttempts = 2
    ContentBudget = 4
    MaxRequests = 2
    Expires = 2
    MaxTime = 2
    MaxRuns = 2
INVARIANTS
    CompletedRunVerifies
    EveryPostAccounted
    InspectionHolds
CHECK_DEADLOCK FALSE
