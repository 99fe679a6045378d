SPECIFICATION FairSpec
CONSTANTS
    Taps <- FourTaps
    Rise <- Shift
    Tdo <- HighBit
    ReplyBuffer = 1
    MaxCommands = 3
INVARIANTS Settled
PROPERTIES ImplementsJtagCommands CommandsExecuted
CHECK_DEADLOCK FALSE
