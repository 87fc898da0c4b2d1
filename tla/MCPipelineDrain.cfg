CONSTANTS
    Values = {1}
    MaxBatch = 3
    MaxSent = 3
SPECIFICATION FairSpec
PROPERTY DrainReturns
CHECK_DEADLOCK FALSE
