SPECIFICATION BastionSpec
CONSTANTS
    HostNodes = {"n1"}
    HostFaults = 0
    Edits = 2
PROPERTY SetupRegenerates
