SPECIFICATION Advice
CONSTANTS
    Keys = {1, 2, 3}
    InvertedKeys = {2}
    FinopsCold <- MCFinopsCold
    Limits = {2, 3}
    Points <- MCPoints
    Tags <- MCTags
    Expected = 4
    Coverages = {0, 50}
    Percentile = 75
    Missing = Missing
    NoTag = NoTag
    Malformed = Malformed
    Skus <- MCSkus
    Catalog <- MCCatalog
    Family <- MCFamily
    Vcpu <- MCVcpu
    Memory <- MCMemory
    Number <- MCNumber
    Ladder <- MCLadder
    Resources <- MCResources
    Loads <- MCLoads
    Threshold <- MCThreshold
    Headroom = 130
    MinCount <- MCMinCount
    MinVcpu <- MCMinVcpu
    NoTarget = NoTarget
    Delete = Delete
INVARIANTS
    ColdTypeOK
    Verdict
    Evidence
    AssertionHolds
    TypeOK
    Covers
    Smallest
    Stable
