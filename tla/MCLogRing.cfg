CONSTANTS
    RingLen = 5
    Shapes <- MCShapes
    LogGuids <- MCLogGuids
    MaxAppends = 5
    Damages = {"junk", "length"}
SPECIFICATION Spec
INVARIANTS ReplayRestoresPages ReplaysOnlyWritten
\* Appends are bounded, and a damaged ring is final.
CHECK_DEADLOCK FALSE
