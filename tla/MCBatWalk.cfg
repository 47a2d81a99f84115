CONSTANTS
    Ratios = {1, 2, 3}
    Counts = {0, 1, 2, 3, 4, 5}
    MaxEntries = 6
    BatEntries <- MCBatEntries
SPECIFICATION BSpec
INVARIANTS BTypeOK IssuesExact TableFits VerdictMatchesRead
\* fsck ends with the last entry.
CHECK_DEADLOCK FALSE
