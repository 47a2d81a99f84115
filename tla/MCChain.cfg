CONSTANTS
    Dirs = {"d1", "d2"}
    Names = {"a", "b"}
    f1 = f1
    f2 = f2
    f3 = f3
    Files = {f1, f2, f3}
    Guids = {"g1", "g2", "g3"}
    Nil = Nil
    Here = "here"
    Disks <- MCDisks
SPECIFICATION MCSpec
INVARIANTS ChTypeOK WalksLineage LeafParentVerified BoundedWalk
PROPERTIES FailsWithCause Terminates
\* The commands end.
CHECK_DEADLOCK FALSE
