SPECIFICATION Spec
CONSTANTS
    BTreeKey = {1, 2, 3, 4, 5, 6, 7}
    PageTreeKey = {1, 2, 3, 4, 5, 6, 7}
    MaxNElemsSet = {2, 3}
    LocalRooms = {1, 3, 4}
    NodeSizes = {3, 6}
    BlockSize = 10
    SkiplistKey = {1, 2, 3, 4}
    PageListKey = {1, 2, 3, 4}
    MaxLevel = 2
    LocalUnits = {4, 6, 9, 13}
    BlockUnits = 6
    Arena = {a1, a2, a3}
    NBlocks = 2
    BlockCap = 2
    MaxObjects = 4
    NullLink = null
VIEW View
PROPERTY InsertReturnsElement
