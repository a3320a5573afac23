SPECIFICATION Spec
CONSTANTS
    MaxRounds = 4
    MaxLab = 2
    MaxTrouble = 2
INVARIANTS
    DuplicateNeedsCause
PROPERTIES
    SuccessIsTheTip
    LostOnlyToRivals
CHECK_DEADLOCK FALSE
