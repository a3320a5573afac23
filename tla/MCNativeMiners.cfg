SPECIFICATION MinersSpec
CONSTANTS
    NonceCount = 8
    Cores = 3
INVARIANTS
    HeaderIsFirstHit
    SpansShareTheSpace
PROPERTIES
    RoundEnds
CHECK_DEADLOCK FALSE
