------------------------------ MODULE Overlay ------------------------------
(***************************************************************************)
(* How flatten composes a block of the leaf from the links of a chain      *)
(* (fill_from_link and merge_block, flatten.rs).                           *)
(*                                                                         *)
(* The unit of every size and offset is the cell: 1 MiB, the smallest      *)
(* block, whose sectors are taken to be alike.  A link has its own block   *)
(* size bs; blocks is what read_block returns for each of its blocks, bits *)
(* the cells whose sector bits are set in a partial one.                   *)
(***************************************************************************)
EXTENDS Naturals, Sequences

Zero == <<"zero">>
Unreadable == <<"unreadable">>  \* a reader gets an error
Unfilled == <<"unfilled">>      \* sector_filled[s] is false

BlockKinds == {"absent", "full", "partial", "error"}

\* VhdxDisk::block_count
block_count(size, bs) == (size + bs - 1) \div bs

\* What block r has to say about its cell k.
CellOf(r, k) ==
    IF r.kind = "error" THEN Unreadable
    ELSE IF r.kind = "full" \/ (r.kind = "partial" /\ k \in r.bits) THEN r.data[k]
    ELSE Unfilled

\* Mutant: a bit is looked up by its place in the leaf's block.
fill_from_link_leafbit(link, v_start, acc) ==
    [s \in DOMAIN acc |->
       LET b == (v_start + s) \div link.bs
       IN  IF acc[s] # Unfilled \/ b >= Len(link.blocks) THEN acc[s]
           ELSE CellOf(link.blocks[b + 1], s % link.bs)]

\* Every cell of the leaf's block that is still unfilled lies in one block of
\* the link.  (An error in any of these blocks fails the whole call; here it
\* is the value of the cells concerned.)
fill_from_link(link, v_start, acc) ==
    [s \in DOMAIN acc |->
       LET b == (v_start + s) \div link.bs
       IN  IF acc[s] # Unfilled \/ b >= Len(link.blocks) THEN acc[s]
           ELSE CellOf(link.blocks[b + 1], (v_start + s) % link.bs)]

\* merge_block's loop: the links are asked in turn, leaf first.  The i-th value
\* is the composite after i of them.
Asked(links, blk) ==
    LET bs == links[1].bs
        filled[i \in 0..Len(links)] ==
            IF i = 0 THEN [s \in 0..(bs - 1) |-> Unfilled]
            ELSE fill_from_link(links[i], blk * bs, filled[i - 1])
    IN  filled

\* What no link holds is zero.
merge_block(links, blk) ==
    LET filled == Asked(links, blk)[Len(links)]
    IN  [s \in 0..(links[1].bs - 1) |-> IF filled[s] = Unfilled THEN Zero ELSE filled[s]]

\* The `?` on fill_from_link
Failed(composite) == \E s \in DOMAIN composite : composite[s] = Unreadable

is_all_zero(composite) == \A s \in DOMAIN composite : composite[s] = Zero

-----------------------------------------------------------------------------
\* What a virtual machine on top of the chain reads at address v: the answer
\* of the link nearest to the leaf that has one.
VirtualCell(links, v) ==
    LET answer(i) == CellOf(links[i].blocks[(v \div links[i].bs) + 1], v % links[i].bs)
        having == {i \in 1..Len(links) : answer(i) # Unfilled}
    IN  IF having = {} THEN Zero ELSE answer(CHOOSE i \in having : \A j \in having : i <= j)
=============================================================================
