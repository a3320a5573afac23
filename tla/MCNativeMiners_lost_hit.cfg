SPECIFICATION MinersSpec
CONSTANTS
    NonceCount = 6
    Cores = 2
INVARIANT ExhaustedMeansNoSolution
CHECK_DEADLOCK FALSE
