CONSTANTS
    Values = {a, b}
    MaxBatch = 2
    MaxSent = 5
    MaxDrains = 4
    LogLimit = 2
SPECIFICATION Spec
CHECK_DEADLOCK FALSE
INVARIANTS
    LinesShown
    NeverPanics
PROPERTY ImplementsWorker
