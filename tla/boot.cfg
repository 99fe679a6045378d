SPECIFICATION FairSpec
CONSTANTS
    c1 = c1
    c2 = c2
    c3 = c3
    c4 = c4
    c5 = c5
    Channels <- FiveChannels
    chip_id <- Chips
    mem_base <- Bases
    mem_size <- Sizes
    addr_bits = 4
    ChannelOf <- Striped
    Gaps <- SomeGaps
    cblock_bytes = 2
    Program <- TwoChunks
    Accesses <- SomeAccesses
    Tohost = 14
    Msip = 15
INVARIANTS Inv AccessesFlushed WokenReady StoresKept
PROPERTIES ExitReported
CHECK_DEADLOCK FALSE
