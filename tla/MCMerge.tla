------------------------------ MODULE MCMerge ------------------------------
(* Merge of two blocks of two sectors.                                     *)
EXTENDS Merge, TLC

MCRead(kind, bits, zero) == [kind |-> kind, bits |-> bits, zero |-> zero]
MCChildReads == {MCRead("absent", {}, FALSE), MCRead("full", {}, FALSE),
                 MCRead("full", {}, TRUE), MCRead("partial", {1}, FALSE)}
MCEntries == {[state |-> "absent", bits |-> {}], [state |-> "full", bits |-> {}],
              [state |-> "partial", bits |-> {2}]}
\* The order of the two headers is of no interest here, and nothing is claimed
\* after a power loss that merge does not survive: behaviours end there.
MCInit == MInit /\ slot[0].seq > slot[1].seq
MCNext == ~hit /\ MNext
MCSpec == MCInit /\ [][MCNext]_mvars

GuidSymmetry == Permutations(Guids)
============================================================================
