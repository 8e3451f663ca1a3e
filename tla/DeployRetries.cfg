SPECIFICATION FairSpec
CONSTANTS
    Verbs = {"deploy"}
    StartLive = FALSE
    AmbientAccess = {0}
    AccessOutcomes = {FALSE}
    MaxFaults = 2
INVARIANT IdentityAgrees
INVARIANT BootstrapStaysGone
INVARIANT CompletedRuns
PROPERTY DeployConverges
