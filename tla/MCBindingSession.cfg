SPECIFICATION Spec
CONSTANTS
    Dirs = {d1, d2}
    d1 = d1
    d2 = d2
    MaxWitnesses = 2
    Needed = 1
    MaxRecords = 2
    MaxClosings = 2
    MaxBlocks = 4
SYMMETRY Symmetric
INVARIANTS
    RecordsBetween
    Reproducible
CHECK_DEADLOCK FALSE
