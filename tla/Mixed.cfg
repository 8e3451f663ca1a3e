SPECIFICATION Spec
CONSTANTS
    MasterCount = 1
    WorkerCount = 1
    MaxWorkers = 2
    Memory = {1, 2}
    Disk = {1}
    Verbs = {"resize", "add", "remove", "stop", "start"}
    Acks = {FALSE, TRUE}
    PromptStatus = TRUE
    MaxFaults = 2
    ResizeRequests <- WorkerMemory
    AddCounts = {1}
    RemoveRequests = {FALSE}
INVARIANTS TypeOK LeftCordoned
PROPERTIES DrainedBeforeDisruption
CHECK_DEADLOCK FALSE
