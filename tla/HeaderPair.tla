----------------------------- MODULE HeaderPair -----------------------------
(***************************************************************************)
(* Every sequence of header updates the program performs on one file:      *)
(* fsck's repair of a torn header and its mark_log_clean, merge's two      *)
(* updates with a new DataWriteGuid, and force_clean_log.  All of them     *)
(* read the pair once and keep that copy (`cur`) for all their writes.     *)
(* Between and inside these writes the process may be killed and the       *)
(* machine may lose power.                                                 *)
(*                                                                         *)
(* slot[i] is what a read of slot i returns.  may[i] is the set of         *)
(* contents slot i can hold after a power loss: everything written to it   *)
(* since the last sync_all, half-written, or not yet written at all.       *)
(***************************************************************************)
EXTENDS HeaderOps

CONSTANT Tools        \* which of "fsck", "merge", "force" are used on the file

ASSUME ToolsAssumption == Tools \subseteq {"fsck", "merge", "force"}

VARIABLES slot,       \* the two header slots as the running process sees them
          may,        \* the contents each slot can have after a power loss
          pc,         \* next step of the running tool, "idle" between tools
          cur,        \* the tool's copy of the active header, read at its start
          new,        \* new_data_guid of a running merge
          used,       \* history: DataWriteGuids that were ever generated
          retired,    \* history: those superseded by a merge that returned Ok
          cleaned,    \* history: LogGuids that fsck reported replayed/discarded
          exposed     \* history: a power loss, or a kill inside a write of
                      \* force_clean_log, which are not crash-safe

vars == <<slot, may, pc, cur, new, used, retired, cleaned, exposed>>

PCs == {"idle", "repair1", "repair2", "log", "clean", "fsck_ok",
        "merge1", "merge2", "merge_sync", "merge_ok",
        "force0", "force1", "force_sync"}

\* Type invariant: only well-formed headers are ever on disk, pending or copied,
\* and a cleaned log is one that existed.
TypeOK ==
    /\ slot \in [Slots -> Header]
    /\ may \in [Slots -> SUBSET Header]
    /\ pc \in PCs
    /\ cur \in Header
    /\ new \in Guids \cup {Nil}
    /\ used \subseteq Guids
    /\ retired \subseteq Guids
    /\ cleaned \subseteq LogGuids
    /\ exposed \in BOOLEAN

\* A file as another program leaves it: two headers with consecutive sequence
\* numbers (one of them possibly torn by a crash of that program), same
\* DataWriteGuid, each with or without a log.  That the numbers are consecutive
\* and the guid is the same is assumed of that program, not checked by read.
Init ==
    \E g \in Guids, l0, l1 \in LogGuids \cup {Nil}, first \in Slots, tear \in {0, 1, 2} :
        /\ SeqMax >= 1
        /\ slot = [i \in Slots |->
                     IF i = tear THEN Torn
                     ELSE [ok |-> TRUE, seq |-> IF i = first THEN 0 ELSE 1,
                           guid |-> g, log |-> IF i = 0 THEN l0 ELSE l1]]
        /\ may = [i \in Slots |-> {slot[i]}]
        /\ pc = "idle" /\ cur = Torn /\ new = Nil
        /\ used = {g} /\ retired = {} /\ cleaned = {} /\ exposed = FALSE

-----------------------------------------------------------------------------
(* The two outcomes of a write_all_at of one header: completed, or cut     *)
(* short by a kill, which also ends the tool.                              *)

\* The tool returns or dies; its local variables are gone.
End == pc' = "idle" /\ cur' = Torn /\ new' = Nil

Continue(next) == pc' = next /\ UNCHANGED <<cur, new>>

Put(i, h, next) ==
    /\ slot' = [slot EXCEPT ![i] = h]
    /\ may' = [may EXCEPT ![i] = @ \cup {h, Torn}]
    /\ Continue(next)

Tear(i) ==
    /\ slot' = [slot EXCEPT ![i] = Torn]
    /\ may' = [may EXCEPT ![i] = @ \cup {Torn}]
    /\ End

\* HeaderPair::write_new(file, cur, mutate)
WriteNew(guid, log, next) ==
    \/ Put(TargetIndex(slot), Successor(cur, guid, log), next)
    \/ Tear(TargetIndex(slot))

\* file.sync_all()
Synced == may' = [i \in Slots |-> {slot[i]}]

History == <<used, retired, cleaned, exposed>>

-----------------------------------------------------------------------------
(* fsck --fix: the header part of repair.rs.                                *)

\* HeaderPair::read; a file without a valid header is refused (no step).
\* The guard on the sequence number bounds the number of updates: the u64
\* counter does not wrap.
FsckOpen ==
    /\ pc = "idle" /\ "fsck" \in Tools
    /\ Readable(slot) /\ Active(slot).seq < SeqMax
    /\ cur' = Active(slot)
    /\ pc' = IF BothValid(slot) THEN "log" ELSE "repair1"
    /\ UNCHANGED <<slot, may, new, History>>

\* Rewrite both headers from the active one, from the same stale copy.
FsckRepair1 ==
    /\ pc = "repair1"
    /\ WriteNew(cur.guid, cur.log, "repair2")
    /\ UNCHANGED History

FsckRepair2 ==
    /\ pc = "repair2"
    /\ WriteNew(cur.guid, cur.log, "log")
    /\ UNCHANGED History

\* The log has a replayable sequence: apply_replay ends with sync_all.
FsckReplay ==
    /\ pc = "log" /\ cur.log # Nil
    /\ Synced
    /\ Continue("clean")
    /\ UNCHANGED <<slot, History>>

\* Mutant: the emptiness of the log is not looked at.
FsckDiscardUnguarded ==
    /\ pc = "log"
    /\ Continue("clean") \/ End
    /\ UNCHANGED <<slot, may, History>>

\* It has none: the log is discarded, or (without allow_log_discard) kept.
FsckDiscard ==
    /\ pc = "log" /\ cur.log # Nil
    /\ Continue("clean") \/ End
    /\ UNCHANGED <<slot, may, History>>

FsckNoLog ==
    /\ pc = "log" /\ cur.log = Nil
    /\ End
    /\ UNCHANGED <<slot, may, History>>

\* mark_log_clean(file, pair), with the pair read before the repair.
FsckMarkClean ==
    /\ pc = "clean"
    /\ WriteNew(cur.guid, Nil, "fsck_ok")
    /\ UNCHANGED History

\* fsck returns Ok with LogStatus::Replayed or Discarded (no sync).
FsckReturn ==
    /\ pc = "fsck_ok"
    /\ End
    /\ cleaned' = cleaned \cup {cur.log}
    /\ UNCHANGED <<slot, may, used, retired, exposed>>

-----------------------------------------------------------------------------
(* merge: the header part of merge_with_progress (parent file).             *)

\* HeaderPair::read, and later new_data_guid = Uuid::new_v4().
MergeOpen ==
    /\ pc = "idle" /\ "merge" \in Tools
    /\ Readable(slot) /\ Active(slot).seq < SeqMax
    /\ cur' = Active(slot)
    /\ \E g \in Guids \ used : new' = g /\ used' = used \cup {g}
    /\ pc' = "merge1"
    /\ UNCHANGED <<slot, may, retired, cleaned, exposed>>

MergeWrite1 ==
    /\ pc = "merge1"
    /\ WriteNew(new, Nil, "merge2")
    /\ UNCHANGED History

MergeWrite2 ==
    /\ pc = "merge2"
    /\ WriteNew(new, Nil, "merge_sync")
    /\ UNCHANGED History

\* Mutant: merge returns without parent_file.sync_all().
MergeNoSync ==
    /\ pc = "merge_sync"
    /\ Continue("merge_ok")
    /\ UNCHANGED <<slot, may, History>>

MergeSync ==
    /\ pc = "merge_sync"
    /\ Synced
    /\ Continue("merge_ok")
    /\ UNCHANGED <<slot, History>>

MergeReturn ==
    /\ pc = "merge_ok"
    /\ End
    /\ retired' = used \ {new}
    /\ UNCHANGED <<slot, may, used, cleaned, exposed>>

-----------------------------------------------------------------------------
(* force_clean_log: both slots unconditionally, slot 0 first, then sync.    *)

ForceOpen ==
    /\ pc = "idle" /\ "force" \in Tools
    /\ Readable(slot) /\ Active(slot).seq < SeqMax
    /\ cur' = Active(slot)
    /\ pc' = "force0"
    /\ UNCHANGED <<slot, may, new, History>>

ForceWrite0 ==
    /\ pc = "force0"
    /\ \/ Put(0, Successor(cur, cur.guid, Nil), "force1") /\ UNCHANGED exposed
       \/ Tear(0) /\ exposed' = TRUE
    /\ UNCHANGED <<used, retired, cleaned>>

ForceWrite1 ==
    /\ pc = "force1"
    /\ \/ Put(1, Successor(cur, cur.guid, Nil), "force_sync") /\ UNCHANGED exposed
       \/ Tear(1) /\ exposed' = TRUE
    /\ UNCHANGED <<used, retired, cleaned>>

ForceSync ==
    /\ pc = "force_sync"
    /\ Synced
    /\ End
    /\ UNCHANGED <<slot, History>>

-----------------------------------------------------------------------------
(* Failures.                                                                *)

\* The process is killed, or returns early with an I/O error, between writes.
Kill ==
    /\ pc # "idle"
    /\ End
    /\ UNCHANGED <<slot, may, History>>

\* The kernel has written its cached pages to the device, as it does by itself.
Writeback ==
    /\ Synced
    /\ UNCHANGED <<slot, pc, cur, new, History>>

\* Each slot independently keeps any of its contents since the last sync.
Outcomes == {o \in [Slots -> may[0] \cup may[1]] : \A i \in Slots : o[i] \in may[i]}

PowerLoss ==
    /\ slot' \in Outcomes
    /\ may' = [i \in Slots |-> {slot'[i]}]
    /\ End
    /\ exposed' = TRUE
    /\ UNCHANGED <<used, retired, cleaned>>

Next ==
    \/ FsckOpen \/ FsckRepair1 \/ FsckRepair2 \/ FsckReplay \/ FsckDiscard
    \/ FsckNoLog \/ FsckMarkClean \/ FsckReturn
    \/ MergeOpen \/ MergeWrite1 \/ MergeWrite2 \/ MergeSync \/ MergeReturn
    \/ ForceOpen \/ ForceWrite0 \/ ForceWrite1 \/ ForceSync
    \/ Kill \/ Writeback \/ PowerLoss

Spec == Init /\ [][Next]_vars

-----------------------------------------------------------------------------
(* Properties.                                                              *)

\* No kill of fsck or merge, at any point of their header updates, leaves the
\* file without a valid header, i.e. with HeaderPair::read failing for ever.
AlwaysReadable == ~exposed => Readable(slot)

\* When fsck reports the log replayed or discarded, the file has two valid
\* headers and the one a reader picks has an empty log and the DataWriteGuid
\* the file had when fsck opened it.  After a repair this rests on read and
\* write_new breaking the tie of sequence numbers the same way.
FsckLeavesClean ==
    pc = "fsck_ok" => /\ BothValid(slot)
                      /\ Active(slot).log = Nil
                      /\ Active(slot).guid = cur.guid

\* Once a merge has returned Ok, no kill and no power loss brings back a
\* DataWriteGuid from before that merge: children of the old contents can
\* never again be attached to the merged parent.
CommittedGuidSurvives ==
    \A o \in Outcomes : Readable(o) => Active(o).guid \notin retired

\* The DataWriteGuid a reader sees changes in one way only, also across kills
\* and repairs: at merge's first header write, to the guid of that merge.
GuidChange ==
    ~exposed' /\ Active(slot').guid # Active(slot).guid
        => pc = "merge1" /\ Active(slot').guid = new
GuidChangesOnlyByMerge == [][GuidChange]_vars

\* What mark_log_clean promises: a log that fsck reported replayed or
\* discarded is never the log of the active header again (kills only).
CleanedLogStaysClean == ~exposed /\ Readable(slot) => Active(slot).log \notin cleaned
=============================================================================
