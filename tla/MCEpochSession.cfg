SPECIFICATION Spec
CONSTANTS
    Scripts = {"sandwich", "g2b", "g5", "g6", "satroot", "pm", "galileo", "naxytra"}
    Demanded = 1
    Sound = 2
    Series <- MCSeries
    Bounds <- MCBounds
    SlotLen = 2
    MinFrames = 2
    MinSpan = 4
    MinSlots = 2
    MaxBlocks = 4
INVARIANTS
    TypeOK
    CausalBound
    OneRun
    CleanRunPasses
    AnchoredStaysOnDisk
    StrongSeriesLasts
CHECK_DEADLOCK FALSE
