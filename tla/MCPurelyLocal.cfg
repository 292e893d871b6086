SPECIFICATION SpecAll
CONSTANTS
    Arena = {a1, a2}
    DataNPages = 4
    MetadataNPages = 2
    NPageClasses = 3
    ClassSize <- MCClassSize
    AllocClass <- MCAllocClass
    FreeClass <- MCFreeClass
    MaxNPages = 3
    PageAligns = {1}
    Accounted = TRUE
    Capacity = 5
    MaxCapacity = 7
    NullLink = null
    NAllocClasses = 2
    SlotSize <- SplitSlotSize
    SlabNPages <- SplitSlabNPages
    NSlots <- SplitNSlots
    WordBits = 3
    PageUnits = 2
    TwoPageClass = 99
    MinMediumNPages = 3
    LargeNPages = 2
    MaxLarge = 1
    MaxLive = 3
    SizeModulus = 64
    MapMayFail = TRUE
    Garbage = garbage
VIEW View
SYMMETRY ArenaSymmetry
INVARIANTS
    BitmapsExact
    CapacityNotExceeded
PROPERTIES
    ImplementsObjectHeap
