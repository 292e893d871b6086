SPECIFICATION SpecAll
CONSTANTS
    Arena = {a1}
    DataNPages = 6
    MetadataNPages = 2
    NPageClasses = 3
    ClassSize <- MCClassSize
    AllocClass <- MCAllocClass
    FreeClass <- MCFreeClass
    MaxNPages = 3
    PageAligns = {1, 2}
    Accounted = FALSE
    Capacity = 0
    MaxCapacity = 0
    NullLink = null
    NAllocClasses = 2
    SlotSize <- AlignSlotSize
    SlabNPages <- AlignSlabNPages
    NSlots <- AlignNSlots
    WordBits = 2
    PageUnits = 2
    TwoPageClass = 1
    MinMediumNPages = 3
    LargeNPages = 1
    MaxLarge = 0
    MaxLive = 5
    SizeModulus = 64
    MapMayFail = TRUE
    Garbage = garbage
VIEW View
INVARIANTS
    RunsOwned
    NonFullListsExact
    OnlySpareLeft
PROPERTIES
    CallsPagesProperly
