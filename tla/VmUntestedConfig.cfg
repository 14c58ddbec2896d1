SPECIFICATION Spec
CONSTANTS
    Builds <- MCBuilds
    Ids <- MCBuilds
    IdOf <- CommitIds
    Mgs = {"m1", "m2"}
    Passes <- MCPasses
    KeepReleases = 1
    Modes = {"ops"}
    None = None
INVARIANTS
    LoadedConfigWasTested
