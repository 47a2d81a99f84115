------------------------------ MODULE MCRepair ------------------------------
(* Repair with three logs: one that cannot be replayed, one whose second   *)
(* write of a page undoes the first, and a single zero descriptor.         *)
EXTENDS Repair

W(p, v) == [page |-> p, val |-> v]
MCLogChoices == {<<>>, <<W("bat", 1), W("meta", 1), W("bat", 2)>>, <<W("bat", 0)>>}
=============================================================================
