CONSTANTS
    SeqMax = 3
    Guids = {g1, g2, g3}
    LogGuids = {l1}
    Nil = Nil
    Tools = {"fsck", "merge"}
SPECIFICATION Spec
INVARIANTS CleanedLogStaysClean
\* The number of updates is bounded by SeqMax and Guids: behaviours end there.
CHECK_DEADLOCK FALSE
