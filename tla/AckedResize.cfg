SPECIFICATION Spec
CONSTANTS
    MasterCount = 3
    WorkerCount = 0
    MaxWorkers = 0
    Memory = {1, 2}
    Disk = {1}
    Verbs = {"resize"}
    Acks = {FALSE, TRUE}
    PromptStatus = TRUE
    MaxFaults = 2
    ResizeRequests <- MasterRequests
    AddCounts = {}
    RemoveRequests = {}
INVARIANTS ResizeRealized
CHECK_DEADLOCK FALSE
