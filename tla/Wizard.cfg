SPECIFICATION WizardSpec
CONSTANTS
    Programs = {"hub", "manage"}
    Ops = {"resize", "remove"}
    HubOps = {"remove"}
    HubAsks = {1}
    Asks = {1, 2}
    Markers = {TRUE}
    Drafts = {0, 1}
    MaxSessions = 2
    MaxWorld = 1
    Gates = 2
    Capacity = 2
    MayCrash = TRUE
INVARIANTS ConsentedPlan SessionsClosed TruthfulOutcome
PROPERTIES Concludes
CHECK_DEADLOCK FALSE
