SPECIFICATION FetchSpec
CONSTANTS
    TailLen = 2
    RetargetEvery = 5
    PageSizes = {1, 9}
    MaxStart = 3
    MaxBlocks = 5
INVARIANTS
    QuietFetchIsTrue
    FileIsOneBranch
CHECK_DEADLOCK FALSE
