SPECIFICATION Spec
CONSTANTS
    b1 = b1
    b2 = b2
    Block = {b1, b2}
    FragCount <- MCFragCount
    Repeat = 2
    MaxSends = 3
    MaxDamage = 1
    MaxSessions = 2
    MaxChanges = 1
INVARIANTS
    DamageStaysInItsSession
    QuietVerdictIsTrue
    StatesBoundTheBlocks
CHECK_DEADLOCK FALSE
