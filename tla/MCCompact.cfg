SPECIFICATION CSpec
CONSTANTS
    ChunkCells = 2
    PerCell = 2
    p1 = p1
    p2 = p2
    Procs = {p1, p2}
    Nobody = Nobody
    Size <- MCSize
    Inputs <- MCInputs
    Options <- MCOptions
INVARIANTS CTypeOK InputIntact OutputWhole Packed
CHECK_DEADLOCK FALSE
