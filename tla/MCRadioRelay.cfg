SPECIFICATION RadioSpec
CONSTANTS
    b1 = b1
    b2 = b2
    Block = {b1, b2}
    FragCount <- MCFragCount
    Order <- MCOrder
    MaxDamage = 2
    MaxRestarts = 1
INVARIANTS
    WrittenOnce
    CleanAirCleanFile
PROPERTIES
    EveryBlockArrives
