SPECIFICATION FSpec
CONSTANTS
    ChunkCells = 2
    PerCell = 2
    Chains <- MCChains
    Size <- MCSize
    Modes <- MCModes
    Olds <- MCOlds
INVARIANTS FTypeOK Backpressure CompressedNeverJunk
PROPERTIES ImplementsSnapshot UnreadableKeepsArchive
CHECK_DEADLOCK FALSE
