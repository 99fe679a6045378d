SPECIFICATION Spec
CONSTANTS
    Ids = {i1, i2}
    Bytes <- Bits
    word_size = 2
    NumWords = 2
    Sizes = {1, 2}
    MaxLen = 2
    MaxReads = 1
    MaxWrites = 2
    Idle = Idle
INVARIANTS BytesAsWritten SidesAgree
PROPERTIES ImplementsAxiMemory
