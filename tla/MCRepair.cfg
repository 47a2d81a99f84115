CONSTANTS
    SeqMax = 3
    Guids = {g1}
    LogGuids = {l1}
    Nil = Nil
    Tools = {"fsck"}
    Pages = {"bat", "meta"}
    Vals = {0, 1, 2}
    Garbage = Garbage
    LogChoices <- MCLogChoices
SPECIFICATION RSpec
INVARIANTS RTypeOK CleanOnlyWhenReplayed RepairsBoth
\* Runs of fsck are bounded by SeqMax.
CHECK_DEADLOCK FALSE
