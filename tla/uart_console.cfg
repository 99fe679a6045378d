SPECIFICATION FairSpec
CONSTANTS
    Depth = 3
    OutputRoom = 1
    MaxTyped = 4
    MaxSent = 2
    MaxPresses = 2
INVARIANTS Inv TypedInOrder PrintedOnce
PROPERTIES InterruptDelivered
CHECK_DEADLOCK FALSE
