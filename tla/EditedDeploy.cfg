SPECIFICATION WizardSpec
CONSTANTS
    Programs = {"hub"}
    Ops = {"resize"}
    Asks = {1}
    HubOps = {}
    HubAsks = {}
    Markers = {FALSE}
    Drafts = {0, 1}
    MaxSessions = 1
    MaxWorld = 0
    Gates = 2
    Capacity = 2
    MayCrash = FALSE
PROPERTY DeploysSaved
CHECK_DEADLOCK FALSE
