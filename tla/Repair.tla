------------------------------- MODULE Repair -------------------------------
(***************************************************************************)
(* fsck --fix on one file (repair.rs): the header updates of HeaderPair    *)
(* composed with the repair of the region tables and the replay of the     *)
(* log onto the file's pages (apply_replay), with kills and power losses   *)
(* anywhere, and as many further runs of fsck as it takes, at once or      *)
(* after the kernel has written back what the last one left.               *)
(*                                                                         *)
(* page[p] and reg[i] are what a read returns; pmay[p] and rmay[i] are the *)
(* contents they can have after a power loss, as may is for the headers.   *)
(* A run without --fix, or with --dry-run, opens the file read-only and    *)
(* only reports: it is a stuttering step.  So is the BAT check at the end  *)
(* of fsck.  The file's length, which apply_replay may extend before its   *)
(* first write, is not represented.                                        *)
(***************************************************************************)
EXTENDS HeaderPair, Sequences

CONSTANTS Pages,      \* 4 KiB pages the log can target
          Vals,       \* their contents
          Garbage,    \* a page half-written by a kill or a power loss
          LogChoices  \* the write sequences scan_log can find in the log

ASSUME PagesAssumption ==
    /\ Garbage \notin Vals
    /\ LogChoices \subseteq Seq([page : Pages, val : Vals])

VARIABLES log,        \* descriptors of scan.active_sequence, in replay order
          page, pmay, \* the pages, and what a power loss can make of them
          reg, rmay,  \* checksum_ok of the two region tables, likewise
          step,       \* where fsck stands while pc = "log"
          idx,        \* number of descriptors applied by this run
          discard,    \* opts.allow_log_discard of this run
          dirty,      \* history: the file came with a non-empty log
          allowed,    \* history: some run was allowed to discard the log
          rushed      \* history: some run began with a header write of an
                      \* earlier one still only in the kernel's cache

fileVars == <<page, pmay, reg, rmay>>
runVars == <<step, idx, discard>>
past == <<dirty, allowed, rushed>>
rvars == <<vars, log, fileVars, runVars, past>>

Steps == {"region0", "region1", "scan"}

\* Type invariant: fsck goes through its steps in order and applies no more
\* descriptors than the log holds.
RTypeOK ==
    /\ TypeOK
    /\ log \in LogChoices
    /\ page \in [Pages -> Vals \cup {Garbage}]
    /\ pmay \in [Pages -> SUBSET (Vals \cup {Garbage})]
    /\ reg \in [Slots -> BOOLEAN] /\ rmay \in [Slots -> SUBSET BOOLEAN]
    /\ step \in Steps /\ idx \in 0..Len(log)
    /\ discard \in BOOLEAN /\ dirty \in BOOLEAN /\ allowed \in BOOLEAN /\ rushed \in BOOLEAN

RInit ==
    /\ Init
    /\ log \in LogChoices
    /\ page \in [Pages -> Vals] /\ pmay = [p \in Pages |-> {page[p]}]
    /\ reg \in {r \in [Slots -> BOOLEAN] : r[0] \/ r[1]}
    /\ rmay = [i \in Slots |-> {reg[i]}]
    /\ step = "scan" /\ idx = 0 /\ discard = FALSE
    /\ dirty = (Active(slot).log # Nil) /\ allowed = FALSE /\ rushed = FALSE

-----------------------------------------------------------------------------
\* The kernel writes back what it holds in its cache.
Settle ==
    /\ Writeback
    /\ pmay' = [p \in Pages |-> {page[p]}]
    /\ rmay' = [i \in Slots |-> {reg[i]}]
    /\ UNCHANGED <<log, page, reg, runVars, past>>

\* The file is opened for writing and both header and region pairs are read;
\* fsck fails, changing nothing, if either pair has no valid member.  Nothing
\* keeps a run from following an interrupted one at once.
OpenFix ==
    /\ FsckOpen
    /\ reg[0] \/ reg[1]
    /\ step' = IF reg[0] /\ reg[1] THEN "scan" ELSE "region0"
    /\ idx' = 0 /\ discard' \in BOOLEAN
    /\ rushed' = (rushed \/ \E i \in Slots : may[i] # {slot[i]})
    /\ UNCHANGED <<log, fileVars, dirty, allowed>>

RepairHeaders ==
    /\ FsckRepair1 \/ FsckRepair2
    /\ UNCHANGED <<log, fileVars, runVars, past>>

\* RegionTablePair::write_both: table 0, then table 1.  Writing over a valid
\* table stores the bytes it holds already, so only the write of the invalid
\* one can be seen, complete or cut short.
WriteRegion(i, next) ==
    /\ \/ /\ reg' = [reg EXCEPT ![i] = TRUE]
          /\ rmay' = [rmay EXCEPT ![i] = @ \cup {TRUE}]
          /\ step' = next /\ UNCHANGED <<pc, cur, new>>
       \/ /\ End
          /\ UNCHANGED <<reg, rmay, step>>
    /\ UNCHANGED <<slot, may, History, log, page, pmay, idx, discard, past>>

\* Mutant: only the first table is written.
RepairRegionFirstOnly == pc = "log" /\ step = "region0" /\ WriteRegion(0, "scan")

RepairRegion0 == pc = "log" /\ step = "region0" /\ WriteRegion(0, "region1")
RepairRegion1 == pc = "log" /\ step = "region1" /\ WriteRegion(1, "scan")

\* The next descriptor apply_replay executes after i of them.
ReplayNext(i) == i + 1

\* One zero_range or write_all_at of apply_replay.
ReplayWrite ==
    LET k == ReplayNext(idx) IN
    /\ pc = "log" /\ step = "scan" /\ cur.log # Nil
    /\ k <= Len(log)
    /\ \/ /\ page' = [page EXCEPT ![log[k].page] = log[k].val]
          /\ idx' = k /\ UNCHANGED <<pc, cur, new>>
       \/ /\ page' = [page EXCEPT ![log[k].page] = Garbage]
          /\ End /\ UNCHANGED idx
    /\ pmay' = [pmay EXCEPT ![log[k].page] = @ \cup {log[k].val, Garbage}]
    /\ UNCHANGED <<slot, may, History, log, reg, rmay, step, discard, past>>

\* Mutant: apply_replay returns without file.sync_all().
ReplayNoSync ==
    /\ step = "scan" /\ log # <<>> /\ ReplayNext(idx) > Len(log)
    /\ pc = "log" /\ cur.log # Nil /\ Continue("clean")
    /\ UNCHANGED <<slot, may, History, log, fileVars, runVars, past>>

\* apply_replay ends with file.sync_all(), which covers the whole file.
ReplayDone ==
    /\ step = "scan" /\ log # <<>> /\ ReplayNext(idx) > Len(log)
    /\ FsckReplay
    /\ pmay' = [p \in Pages |-> {page[p]}]
    /\ rmay' = [i \in Slots |-> {reg[i]}]
    /\ UNCHANGED <<log, page, reg, runVars, past>>

\* Mutant: the log counts as unreplayable although its GUID is zero.
DiscardEmptyLog ==
    /\ step = "scan" /\ log = <<>>
    /\ FsckDiscardUnguarded
    /\ pc' = IF discard THEN "clean" ELSE "idle"
    /\ allowed' = (allowed \/ discard)
    /\ UNCHANGED <<log, fileVars, runVars, dirty, rushed>>

\* No valid sequence: the log is discarded if the caller allows it.
Discard ==
    /\ step = "scan" /\ log = <<>>
    /\ FsckDiscard
    /\ pc' = IF discard THEN "clean" ELSE "idle"
    /\ allowed' = (allowed \/ discard)
    /\ UNCHANGED <<log, fileVars, runVars, dirty, rushed>>

NoLog ==
    /\ step = "scan" /\ FsckNoLog
    /\ UNCHANGED <<log, fileVars, runVars, past>>

MarkClean ==
    /\ FsckMarkClean
    /\ UNCHANGED <<log, fileVars, runVars, past>>

Return ==
    /\ FsckReturn
    /\ UNCHANGED <<log, fileVars, runVars, past>>

\* Killed, or stopped by an I/O error, between two writes.
Stop ==
    /\ Kill
    /\ UNCHANGED <<log, fileVars, runVars, past>>

\* Headers, pages and region tables each keep what the device chooses.
Blackout ==
    /\ PowerLoss
    /\ page' \in {f \in [Pages -> Vals \cup {Garbage}] : \A p \in Pages : f[p] \in pmay[p]}
    /\ pmay' = [p \in Pages |-> {page'[p]}]
    /\ reg' \in {r \in [Slots -> BOOLEAN] : \A i \in Slots : r[i] \in rmay[i]}
    /\ rmay' = [i \in Slots |-> {reg'[i]}]
    /\ UNCHANGED <<log, runVars, past>>

RNext ==
    \/ OpenFix \/ RepairHeaders \/ RepairRegion0 \/ RepairRegion1
    \/ ReplayWrite \/ ReplayDone \/ Discard \/ NoLog \/ MarkClean \/ Return
    \/ Stop \/ Settle \/ Blackout

RSpec == RInit /\ [][RNext]_rvars

-----------------------------------------------------------------------------
(* Properties.                                                             *)

\* Descriptor i is the last one to write its page.
LastWrite(i) ==
    /\ i \in 1..Len(log)
    /\ \A j \in (i + 1)..Len(log) : log[j].page # log[i].page

\* A power loss now can leave the file with an empty log.
MayBeClean == \E o \in Outcomes : Readable(o) /\ Active(o).log = Nil

\* The log of a file that came with one is only ever empty, now or after a
\* power loss, when its contents are safe: either every page has the value
\* the log gives it, on disk for good, or the log held nothing that can be
\* replayed and a caller allowed to discard it.  This covers torn headers,
\* partial replays, crashes and reruns, with one condition: no run has begun
\* while a header written by an earlier one was still only in the kernel's
\* cache (~rushed).  Without it the code does not keep the promise: fsck is
\* killed in mark_log_clean, the next run at once repairs the torn slot and
\* rewrites the other, none of it synced, and a power loss during its replay
\* can bring back the clean header over half-written pages.
CleanOnlyWhenReplayed ==
    dirty /\ ~rushed /\ MayBeClean =>
        \/ log # <<>> /\ \A i \in 1..Len(log) :
               LastWrite(i) => pmay[log[i].page] = {log[i].val}
        \/ log = <<>> /\ allowed

\* When fsck has finished repairing, both copies of both structures are valid.
RepairsBoth ==
    pc \in {"clean", "fsck_ok"} => BothValid(slot) /\ reg[0] /\ reg[1]
=============================================================================
