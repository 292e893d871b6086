SPECIFICATION Spec
CONSTANTS
    Arena = {a1, a2}
    DataNPages = 5
    MetadataNPages = 2
    NPageClasses = 3
    ClassSize <- MCClassSize
    AllocClass <- MCAllocClass
    FreeClass <- MCFreeClass
    MaxNPages = 3
    PageAligns = {1, 2}
    Accounted = FALSE
    Capacity = 0
    MaxCapacity = 0
    NullLink = null
SYMMETRY ArenaSymmetry
INVARIANTS
    IInv
    Tiled
    ListsExact
    ServedRunFits
PROPERTIES
    HandsOutAsAsked
    NeverFallsIdle
    MapsOnlyWhenNeeded
    ImplementsHeap
