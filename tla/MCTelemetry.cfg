SPECIFICATION Spec
CONSTANTS
    r1 = r1
    r2 = r2
    x = x
    used = used
    total = total
    Requested <- MCRequested
    Strangers = {x}
    Names = {used, total}
    Aggregations = {"Average", "Total"}
    Filters = {0, 1}
    NoFilter = 0
    Configs <- MCConfigs
    Applies <- MCApplies
    Sized = {r1}
    Times = {1, 2}
    Orders <- MCOrders
    Bodies <- MCBodies
    Nobody = Nobody
INVARIANTS
    TypeOK
    OwnReadings
    EveryInterval
