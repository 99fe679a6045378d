SPECIFICATION FairSpec
CONSTANTS
    Taps <- FourTaps
    Rise <- Shift
    Tdo <- HighBit
    ReplyBuffer = 1
    MaxCommands = 2
PROPERTIES CallsReturn
CHECK_DEADLOCK FALSE
