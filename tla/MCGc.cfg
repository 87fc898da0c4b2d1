CONSTANTS
    Pages = {p1, p2, p3}
    Null = Null
    Addresses = {v1, v2}
    NoAddress = NoAddress
    InitialSlots = 1
    Sizes = {1, 2}
    MaxRoots = 1
    MaxRefs = 3
SPECIFICATION HeapSpec
INVARIANTS
    RootsAreLive
    ForgetFinds
    HeapIsSound
PROPERTY CollectionIsExact
SYMMETRY Symmetry
