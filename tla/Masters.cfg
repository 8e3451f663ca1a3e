SPECIFICATION FairSpec
CONSTANTS
    MasterCount = 3
    WorkerCount = 1
    MaxWorkers = 1
    Memory = {1, 2}
    Disk = {1}
    Verbs = {"resize", "stop", "start"}
    Acks = {FALSE}
    PromptStatus = FALSE
    MaxFaults = 2
    ResizeRequests <- MasterRoll
    AddCounts = {}
    RemoveRequests = {}
INVARIANTS ResizeRealized PowerSettled
PROPERTIES MastersSpared StartCompletes
CHECK_DEADLOCK FALSE
