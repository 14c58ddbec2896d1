SPECIFICATION Spec
CONSTANTS
    g1 = g1
    g2 = g2
    lower = lower
    upper = upper
    r1 = r1
    r2 = r2
    s1 = s1
    s2 = s2
    nothing = nothing
    None = nothing
    Absent = absent
    Groups <- MCGroups
    Spellings <- MCSpellings
    Routes <- MCRoutes
    CatchAll = r1
    Claims <- MCClaims
    Sums <- MCSums
    Limits <- MCLimits
    Skus <- MCSkus
    Units <- MCUnits
    Catalogs <- MCCatalogs
    Advice <- MCAdvice
    MaxPoints = 3
    MaxHot = 1
    MaxAdvice = 3
INVARIANTS
    BreachShown
    CostsHonest
    OneTeam
CHECK_DEADLOCK FALSE
