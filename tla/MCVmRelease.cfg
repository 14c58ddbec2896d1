SPECIFICATION Spec
CONSTANTS
    Builds <- MCBuilds
    Ids = {"a", "b"}
    IdOf <- VersionIds
    Mgs = {"m1", "m2"}
    Passes <- MCPasses
    KeepReleases = 1
    Modes = {"ops"}
    None = None
INVARIANTS
    TypeOK
    LiveReleaseWorks
PROPERTIES
    OnlyTestedCodeRuns
    DiskBound
    FinishedPlayDelivers
    ImplementsLive
