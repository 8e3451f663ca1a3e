SPECIFICATION FairSpec
CONSTANTS
    MasterCount = 1
    WorkerCount = 1
    MaxWorkers = 3
    Memory = {1,2}
    Disk = {1,2}
    Verbs = {"add", "remove", "resize"}
    Acks = {FALSE}
    PromptStatus = FALSE
    MaxFaults = 2
    ResizeRequests <- Bundled
    AddCounts = {1, 2}
    RemoveRequests = {TRUE, FALSE}
INVARIANTS NothingLeftBehind AddedExactly
PROPERTIES RetryConverges
CHECK_DEADLOCK FALSE
