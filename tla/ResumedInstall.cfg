SPECIFICATION Spec
CONSTANTS
    Verbs = {"deploy"}
    StartLive = FALSE
    AmbientAccess = {0}
    AccessOutcomes = {TRUE}
    MaxFaults = 1
INVARIANT CompletedRuns
