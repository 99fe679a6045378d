SPECIFICATION JobsSpec
CONSTANTS
    Cap = 4
    MaxInt = 20
    Unset = Unset
    Word = Word
    UserValues <- Fitting
    NprocValues <- Cpus
INVARIANTS JobsLimited
PROPERTIES SourcingSettles
