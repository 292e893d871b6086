SPECIFICATION Spec
CONSTANTS
    PageSize = 4096
    SmallestAllocSize = 16
    NAllocClassesInDoublingSize = 4
    ArenaNPages = 256
    DataNPages = 252
    NHeaders = 10
    head_addr = 20
    DataAlignment = 2
    Aligns = {1, 2, 4}
    SizeModulus = 64
    MaxLive = 3
    Data = data
    Arena = {a1, a2, a3}
    NBlocks = 3
    MapMayFail = TRUE
    NullLink = null_link
    Garbage = garbage
    W = 3
    NInteger = 2
    SwappableArena = {r1}
    Large = {l1}
    Value = {0, 1}
    Absent = absent
    Impl = {i1, i2}
    Handle = {h1, h2}
    NoHandle = no_handle
    nullptr = null
    MapPageSize = 1
    BlockSize = 2
    ArenaSize = 4
    SpaceSize = 64
    MMapHeads = {1, 9, 14, 20}
    LargeSize = 6
    MaxArenas = 2
    MaxObjects = 2
    NParts = 3
    Addr = {1, 2, 3, 4, 5, 6, 7, 8, 9}
    MaxLeaks = 3
INVARIANTS
    Circular
    Partition
    ArenasExact
    NoIdleArena
    SlotsFit
    PageClassesFit
    BitsExact
    ContentsKept
    UmapExact
    RefsExact
    MappingsExact
    DispatchExact
    AllOrNothing
PROPERTIES
    ThrowsOnlyWhenFull
    CallsReturn
    ImplementsHeap
