SPECIFICATION FactsSpec
CONSTANTS
    Rows <- NamespaceRows
    Loads = {0, 1, 2, 3, 5, 7, 11, 13, 29, 90}
    Missing = Missing
    Null = Null
    BytesPerMb = 7
    MbPerTu = 1
    MbPerPu = 5
    CuPerInstance = 10
    MinInstances = 1
    MinPlan = 1
    MinNodes = 1
    Vcores = {2, 4}
    MinVcores = 2
    Headroom = 130
    Hot = 9000
    HotSubnet = 8000
    Cold = 3000
    Dtu = {"basic", "standard", "premium"}
    Objectives = {"s3"}
    Bare = {"gp"}
    Catalog = {"listed"}
INVARIANTS
    AlwaysSaid
