------------------------------ MODULE Snapshot ------------------------------
(***************************************************************************)
(* What flatten promises about its output: a copy of the disk `source`     *)
(* that appears cell by cell and, once reported as done, is complete and   *)
(* stays.                                                                  *)
(***************************************************************************)
EXTENDS Naturals

CONSTANTS Blank \* what a reader may find in place of a cell: zeros, an error

VARIABLES status, \* "running", "done", "failed" or "lost" (power was lost)
          source, \* the disk to copy
          image   \* what a reader of the output finds

svars == <<status, source, image>>

SInit == status = "running" /\ DOMAIN image = DOMAIN source

\* A cell is left alone, copied or blanked: never another cell's contents.
Copying ==
    /\ status = "running"
    /\ status' \in {"running", "failed"}
    /\ DOMAIN image' = DOMAIN source
    /\ \A v \in DOMAIN source : image'[v] \in Blank \cup {image[v], source[v]}
    /\ UNCHANGED source

Commit ==
    /\ status = "running"
    /\ status' = "done" /\ image' = source
    /\ UNCHANGED source

\* A power loss spoils a copy that is not done.
Lose ==
    /\ status \in {"running", "failed"}
    /\ status' = "lost"
    /\ DOMAIN image' = DOMAIN source
    /\ UNCHANGED source

SNext == Copying \/ Commit \/ Lose

SSpec == SInit /\ [][SNext]_svars
=============================================================================
