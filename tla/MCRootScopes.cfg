CONSTANTS
    Names = {x, y}
    Objects = {o1}
    NoObject = NoObject
    FeatureSets <- MCFeatureSets
    MaxBlocks = 3
    MaxVars = 1
    MaxTable = 3
SPECIFICATION CodeSpec
INVARIANTS
    RootsInScope
    CodeForgetFinds
    VariablesAlive
CHECK_DEADLOCK FALSE
SYMMETRY Symmetry
