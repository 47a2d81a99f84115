----------------------------- MODULE MCBatWalk -----------------------------
(* BatWalk on tables of up to three chunks.                                *)
EXTENDS BatWalk

MCBatEntries == {[state |-> "none", at |-> "zero"], [state |-> "full", at |-> "inside"],
                 [state |-> "full", at |-> "past"], [state |-> "partial", at |-> "inside"],
                 [state |-> "other", at |-> "zero"], [state |-> "full", at |-> "zero"]}
============================================================================
