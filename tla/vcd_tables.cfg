SPECIFICATION Spec
CONSTANTS
    ca = ca
    cab = cab
    Codes <- TwoCodes
    WidthOf <- Mixed
    ValuesOf <- FourState
    CutTo <- CutCodes
    Occurs <- Words
    ScopeNames <- InstanceNames
    SignalNames <- NetNames
    ClockWords = {"clock"}
    Maps <- AllMaps
    TopSignals = 1
    ExcludeClocks = TRUE
    Scale = 2
    MaxHeader = 5
    MaxBody = 6
CONSTRAINT RichInOnePart
INVARIANTS PathsMatchHeader MapMovesForward WaveformCounted ActivityBounded TotalsMatchDump BusiestListed
CHECK_DEADLOCK FALSE
