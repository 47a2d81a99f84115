CONSTANTS
    RingLen = 5
    Shapes <- MCShapes
    LogGuids <- MCLogGuids
    MaxAppends = 5
    Damages = {"payload"}
SPECIFICATION Spec
INVARIANTS ReplaysWrittenValues
\* Appends are bounded, and a damaged ring is final.
CHECK_DEADLOCK FALSE
