SPECIFICATION FairSpec
CONSTANTS
    Configured <- MCConfigured
    Unconfigured <- MCUnconfigured
    Resources <- MCResources
    IgnoredRgs <- MCIgnoredRgs
    Monitored <- MCMonitored
    Recommended <- MCRecommended
    OpsMetrics <- MCOpsMetrics
    FinopsMetrics <- MCFinopsMetrics
    BatchSize = 1
INVARIANTS
    TypeOK
    Accounting
    CountedOnce
    FindingsPerType
    WriteOutcome
PROPERTIES
    ImplementsContract
    Termination
