CONSTANTS
    Modules    <- MCModules
    Signatures <- MCSignatures
    Types      <- MCTypes
    ArgTypes   <- MCArgTypes
    Size       <- MCSize
    Estimate   <- MCEstimate
    Names = {f, g}
    None = None
    MaxFunctions = 3
    MaxPartials = 2
SPECIFICATION Spec
CHECK_DEADLOCK FALSE
INVARIANT SameNumberOnBothTargets
