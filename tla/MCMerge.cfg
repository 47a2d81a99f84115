CONSTANTS
    SeqMax = 2
    Guids = {g1, g2, g3}
    LogGuids = {}
    Nil = Nil
    Tools = {"fsck", "merge"}
    BlockCount = 2
    Sectors = {1, 2}
    MaxLen = 3
    ChildReads <- MCChildReads
    Entries <- MCEntries
SYMMETRY GuidSymmetry
SPECIFICATION MCSpec
INVARIANTS MTypeOK NothingLost RemovedOnlyWhenDurable NoSharedBlock
\* Reruns are bounded by SeqMax and Guids.
CHECK_DEADLOCK FALSE
