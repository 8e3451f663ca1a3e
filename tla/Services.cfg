SPECIFICATION ServicesSpec
CONSTANTS
    AddonFaults = 1
    IngressFaults = 3
    Expected = {"n1"}
    Outsiders = {"evil"}
    Fishy <- MCFishy
    MonitorFaults = 2
    HostNodes = {"n1"}
    HostFaults = 1
    Edits = 1
    Newest = 2
    DownloadFaults = 3
    Machines <- MCMachines
    ISOConfig <- MCISOConfig
    MaxTurns = 2
    Projects <- MCProjects
    Entries <- MCEntries
    Minimal = TRUE
    TagSeries <- MCTagSeries
    perPage = 2
    maxPages = 2
    Hosts <- MCHosts
    Releases <- MCReleases
    MaxEdits = 2
    MaxSessions = 1
INVARIANTS ServicesTypeOK Recoverable OnlyExpected DeploysAsReviewed BuildsFromRelease
PROPERTIES ForeignKept NoDebris ImplementsConversion SetupServes IsoCurrent
    ServiceCommandsEnd MonitorConcludes
CHECK_DEADLOCK FALSE
