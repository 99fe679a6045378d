SPECIFICATION FairSpec
CONSTANTS
    r1 = r1
    r2 = r2
    r3 = r3
    a = a
    b = b
    c1 = c1
    c2 = c2
    None = None
    Runs <- ThreeRuns
    Tags <- MCTags
    Configs <- MCConfigs
    TagOf <- OneTag
    ConfigOf <- TwoConfigs
    Excludes <- ByTag
    Awaits <- ByTag
INVARIANTS NoMixedDump PassedResultsAreOwn OneRunPerThermalRun Inv LoadsWholeBinary
PROPERTIES ImplementsTaggedResults EveryRunEnds
CHECK_DEADLOCK FALSE
