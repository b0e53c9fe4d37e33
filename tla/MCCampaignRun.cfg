SPECIFICATION Spec
CONSTANTS
    Projects = 2
    Checks = {"c1"}
    Manifests <- MCManifests
INVARIANTS
    CampaignReportHolds
CHECK_DEADLOCK FALSE
