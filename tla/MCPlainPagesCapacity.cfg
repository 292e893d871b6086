SPECIFICATION Spec
CONSTANTS
    Arena = {a1}
    DataNPages = 5
    MetadataNPages = 2
    NPageClasses = 3
    ClassSize <- MCClassSize
    AllocClass <- MCAllocClass
    FreeClass <- MCFreeClass
    MaxNPages = 3
    PageAligns = {1, 2}
    Accounted = TRUE
    Capacity = 4
    MaxCapacity = 8
    NullLink = null
INVARIANT CapacityWithinOriginal
