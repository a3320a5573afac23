SPECIFICATION Spec
CONSTANTS
    w1 = w1
    w2 = w2
    Witness = {w1, w2}
    Genesis = {g1, g2}
    g1 = g1
    g2 = g2
    Claims <- MCClaims
    Instants <- MCInstants
    F = 0
    MaxRecords <- MCMaxRecords
    MaxRuns = 2
    MaxEdits = 1
INVARIANTS
    PassingIsTheRecord
    PublishedPasses
    UnableNeverDecides
CHECK_DEADLOCK FALSE
