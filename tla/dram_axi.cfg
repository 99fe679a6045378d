SPECIFICATION FairSpec
CONSTANTS
    Ids = {i1, i2}
    Words <- TwoWords
    Values <- Bits
    Loaded <- Zeroes
    MaxLen = 2
    Depth = 2
    MaxReads = 3
    MaxWrites = 2
    MaxRequests = 3
    Idle = Idle
INVARIANTS CallbacksFindRequests BusyMeansIssued
PROPERTIES ImplementsAxiMemory EveryReadAnswered EveryWriteAcknowledged
