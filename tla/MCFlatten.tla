----------------------------- MODULE MCFlatten -----------------------------
EXTENDS Flatten

MCSize == 3

\* A link whose cells all differ from each other and from every other link's.
Block(i, bs, b, kind) ==
    [kind |-> IF kind = "zero" THEN "full" ELSE IF kind \in {"head", "tail"} THEN "partial" ELSE kind,
     bits |-> IF kind = "head" THEN {0} ELSE IF kind = "tail" THEN 1..(bs - 1) ELSE {},
     data |-> [k \in 0..(bs - 1) |-> IF kind = "zero" THEN Zero ELSE <<"data", i, b * bs + k>>]]
Link(i, bs, kinds) == [bs |-> bs, blocks |-> [b \in 1..Len(kinds) |-> Block(i, bs, b - 1, kinds[b])]]

Seqs(S, n) == [1..n -> S]
Kinds == {"absent", "full", "zero", "head", "tail"}

\* Larger, smaller and equal blocks below the leaf; a block whose end lies
\* past the end of the disk; blocks that cannot be read.
MCChains ==
    {<<Link(1, 2, l), Link(2, 4, p)>> : l \in Seqs(Kinds, 2), p \in Seqs({"absent", "full", "tail"}, 1)}
    \cup {<<Link(1, 2, l), Link(2, 1, p), Link(3, 2, <<"full", "zero">>)>> :
             l \in Seqs({"absent", "tail"}, 2), p \in Seqs({"absent", "full"}, 3)}
    \cup {<<Link(1, 1, l), Link(2, 2, <<"full", "full">>)>> :
             l \in Seqs({"absent", "full", "zero"}, 3)}
    \cup {<<Link(1, 2, l), Link(2, 4, <<"error">>)>> : l \in Seqs({"full", "head"}, 2)}
    \cup {<<Link(1, 2, <<"full", "error">>)>>}

MCModes ==
    {m \in [fixed : BOOLEAN, elide : BOOLEAN, ntfs : BOOLEAN, zst : BOOLEAN] :
        (m.fixed \/ m.zst) => m.elide}

MCOlds == {EmptyFile, [cells |-> <<<<"old">>>>, dirty |-> {}]}
=============================================================================
