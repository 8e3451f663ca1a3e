SPECIFICATION FairSpec
CONSTANTS
    Procs = {p1, p2}
    Retain = 2
    Limit = 1
    Outputs = {1, 3}
    PipeRoom = 1
    MaxFaults = 1
    Commands = {"install", "add", "add-resumed", "remove", "destroy", "destroy-preview", "plan"}
INVARIANTS TypeOK GuardHolds
PROPERTIES BacksUpFirst AppliesAsGated CommandsEnd
