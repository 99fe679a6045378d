SPECIFICATION Spec
CONSTANTS
    r1 = r1
    r2 = r2
    r3 = r3
    a = a
    b = b
    c1 = c1
    c2 = c2
    None = None
    Runs <- ThreeRuns
    Tags <- MCTags
    Configs <- MCConfigs
    TagOf <- TwoTags
    ConfigOf <- OneConfig
    Excludes <- ByTag
    Awaits <- NoPairs
INVARIANTS
    TagIsolation
CHECK_DEADLOCK FALSE
