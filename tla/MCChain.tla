------------------------------ MODULE MCChain ------------------------------
(* Three files, four paths, any of which may be missing or a link.         *)
EXTENDS Chain

CONSTANTS f1, f2, f3

MCLoc(entries, linkage) == [vhdx |-> TRUE, entries |-> entries, linkage |-> linkage]
MCEntry(dir, name) == [dir |-> dir, name |-> name]

MCLocs ==
    {MCLoc(<<MCEntry(Here, "b")>>, "g2"),
     MCLoc(<<MCEntry("d2", "a"), MCEntry(Here, "b")>>, Nil),
     MCLoc(<<MCEntry("d2", "b")>>, "g3")}
MCUntyped == [MCLoc(<<MCEntry(Here, "b")>>, Nil) EXCEPT !.vhdx = FALSE]

MCRoot(guid, size) ==
    [opens |-> TRUE, has_parent |-> FALSE, locator |-> Nil, logged |-> Nil,
     guid |-> guid, size |-> size]
MCChild(loc, logged, guid) ==
    [opens |-> TRUE, has_parent |-> TRUE, locator |-> loc, logged |-> logged,
     guid |-> guid, size |-> 1]

MCDisksOf(guid) ==
    {MCRoot(guid, 1), MCRoot(guid, 2), [MCRoot(guid, 1) EXCEPT !.opens = FALSE],
     MCChild(Nil, Nil, guid), MCChild(MCUntyped, Nil, guid)}
      \cup {MCChild(loc, Nil, guid) : loc \in MCLocs}
      \cup {MCChild(loc, MCLoc(<<MCEntry("d2", "b")>>, "g3"), guid) : loc \in MCLocs}
MCDisks == UNION {MCDisksOf(g) : g \in {"g1", "g2", "g3", Nil}}

\* Each file has a guid of its own; the third may have none.  At most one has
\* something in its log.  The leaf is the first file.
MCInit ==
    /\ leaf = MCEntry("d1", "a") /\ skip_fsck \in BOOLEAN
    /\ at \in [Paths -> Files \cup {Nil}] /\ at[leaf] = f1
    /\ disk \in {[f \in Files |-> IF f = f1 THEN x ELSE IF f = f2 THEN y ELSE z] :
                  x \in MCDisksOf("g1"), y \in MCDisksOf("g2"),
                  z \in MCDisksOf("g3") \cup {MCRoot(Nil, 1)}}
    /\ Cardinality({f \in Files : disk[f].logged # Nil}) <= 1
    /\ pc = IF skip_fsck THEN "walk" ELSE "fsck_leaf"
    /\ current = leaf /\ visited = {} /\ nodes = <<>> /\ links = <<>> /\ next = 1
MCSpec == MCInit /\ [][ChNext]_cvars /\ WF_cvars(Advance)
============================================================================
