SPECIFICATION ArchiveSpec
CONSTANTS
    Pairs = 2
    Evaluations <- MCEvaluations
    Allowances = {7, 9, 23}
    MaxRuns = 2
INVARIANTS
    SuiteReportHolds
    ArchivesAreWhole
CHECK_DEADLOCK FALSE
