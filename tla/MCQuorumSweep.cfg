SPECIFICATION Spec
CONSTANTS
    Witness = {w1, w2, w3, w4}
    F = 1
    Instant <- MCInstant
    None = None
    Undecided = Undecided
INVARIANTS
    TypeOK
    SweepIsExact
    RegionsSeparated
    TrueTimeAccepted
    RegionsVouched
PROPERTY ImplementsQuorumTime
CHECK_DEADLOCK FALSE
