SPECIFICATION HintSpec
CONSTANTS
    Arena = {a1, a2}
    NBlocks = 2
    BlockCap = 2
    MaxObjects = 4
    NullLink = null
INVARIANT NonFullArenasHaveBlocks
