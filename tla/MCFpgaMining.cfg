SPECIFICATION Spec
CONSTANTS
    NonceCount = 5
    Cores = 2
    MaxTicks = 3
    Outcomes <- MCOutcomes
    MaxRounds = 2
    MaxRuns = 2
INVARIANTS
    EveryNonceOnce
    SavedBlocksAreValid
PROPERTIES
    ScanEnds
CHECK_DEADLOCK FALSE
