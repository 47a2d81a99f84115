------------------------------- MODULE Merge -------------------------------
(***************************************************************************)
(* merge_with_progress (merge.rs): a child is copied block by block into   *)
(* its parent, then the parent's BAT is written, its two headers get a new *)
(* DataWriteGuid, the parent is synced and the child is removed.  The      *)
(* headers are those of HeaderPair, whose merge actions this module        *)
(* refines; the process may be killed and the machine may lose power at    *)
(* any point, and the merge is then run again.                             *)
(*                                                                         *)
(* A block is a function from sectors to values; a value says whose data   *)
(* it is, and of which block.  Payload offsets and the file's length count *)
(* blocks; offset 0 is "no offset".  As in HeaderPair, each on-disk        *)
(* variable x comes with the contents xmay a power loss can leave.         *)
(* Sectors are written atomically.  The parent's log is empty: Repair is   *)
(* about replaying it.                                                     *)
(***************************************************************************)
EXTENDS HeaderPair, FiniteSets

CONSTANTS BlockCount, \* blocks of the virtual disk
          Sectors,    \* sectors of a block
          MaxLen,     \* bound on the parent's length: the device is full
          ChildReads, \* what read_block can return for a block of the child
          Entries     \* BAT entries of the parent before the merge (no offset)

Blocks == 0..(BlockCount - 1)
Offsets == 1..MaxLen

Zero == <<"zero">>
Owned(who, b) == <<who, b>>
Values == {Zero} \cup {Owned(w, b) : w \in {"child", "parent", "grand"}, b \in Blocks}
ZeroBlock == [s \in Sectors |-> Zero]

\* A BAT entry with, for PartiallyPresent, the bits of its sector bitmap.
Entry == [state : {"absent", "zero", "full", "partial"}, bits : SUBSET Sectors,
          off : 0..MaxLen]

\* BlockRead; Zero blocks of the child are read as Full.
BlockRead == [kind : {"absent", "full", "partial"}, bits : SUBSET Sectors,
              zero : BOOLEAN]

ASSUME MergeAssumption ==
    /\ BlockCount \in Nat \ {0} /\ MaxLen \in Nat /\ BlockCount <= MaxLen
    /\ ChildReads \subseteq BlockRead
    /\ Entries \subseteq [state : {"absent", "zero", "full", "partial"},
                          bits : SUBSET Sectors]

VARIABLES child,      \* what child_disk.read_block returns for each block
          diff,       \* the parent is itself a differencing disk
          linkage,    \* parent_linkage of the child's locator, Nil if none
          bat, bmay,  \* the parent's BAT on disk
          data, dmay, \* its payload blocks, by offset
          len, lmay,  \* its length (payload_cursor while a merge runs)
          here, cmay, \* the child exists
          step,       \* where merge stands while pc = "merge1"
          blk, mbat,  \* loop index and in-memory BAT (parent_bat)
          want,       \* history: what the chain read like before the merge
          holes,      \* history: blocks merge cannot reproduce (see Hole)
          hit         \* history: a power loss while a BAT or header
                      \* write was not synced

files == <<bat, bmay, data, dmay, len, lmay, here, cmay>>
local == <<step, blk, mbat>>
fixed == <<child, diff, linkage, want, holes>>
mvars == <<vars, files, local, fixed, hit>>

-----------------------------------------------------------------------------
(* What a reader of the chain sees.                                        *)

\* The sector below the parent: its own parent's, or zeros.
Below(b) == IF diff THEN Owned("grand", b) ELSE Zero

\* VhdxDisk::read_block on the parent and, for what it does not hold, below.
ParentSector(e, d, b, s) ==
    IF e.state = "full" \/ (e.state = "partial" /\ s \in e.bits)
    THEN d[e.off][s]
    ELSE IF e.state = "zero" THEN Zero ELSE Below(b)

ChildSector(b) == IF child[b].zero THEN Zero ELSE Owned("child", b)

InChild(b, s) == \/ child[b].kind = "full"
                 \/ child[b].kind = "partial" /\ s \in child[b].bits

ChainSector(e, d, b, s) ==
    IF InChild(b, s) THEN ChildSector(b) ELSE ParentSector(e, d, b, s)

\* A partial block of the child over a block that the parent does not hold
\* completely itself, in a chain of three or more: merge fills the rest of
\* the new block with zeros instead of what lies below.
Hole(b, e) == /\ diff /\ child[b].kind = "partial"
              /\ e.state \in {"absent", "partial"}

-----------------------------------------------------------------------------
\* The k-th stored block of the parent gets offset k.
Stored(b, kind) == kind[b].state \in {"full", "partial"}
OffsetOf(b, kind) ==
    IF Stored(b, kind) THEN Cardinality({a \in 0..b : Stored(a, kind)}) ELSE 0

MInit ==
    /\ Init /\ BothValid(slot) /\ \A i \in Slots : slot[i].log = Nil
    /\ child \in [Blocks -> ChildReads]
    /\ diff \in BOOLEAN
    /\ linkage \in {Active(slot).guid, Nil}
    /\ \E kind \in [Blocks -> Entries] :
          /\ diff \/ \A b \in Blocks : kind[b].state # "partial"
          /\ bat = [b \in Blocks |-> [state |-> kind[b].state, bits |-> kind[b].bits,
                                      off |-> OffsetOf(b, kind)]]
          /\ len = Cardinality({b \in Blocks : Stored(b, kind)})
          /\ data = [o \in Offsets |->
                       IF o <= len
                       THEN [s \in Sectors |->
                               Owned("parent", CHOOSE b \in Blocks : OffsetOf(b, kind) = o)]
                       ELSE ZeroBlock]
    /\ bmay = [b \in Blocks |-> {bat[b]}]
    /\ dmay = [o \in Offsets |-> {data[o]}]
    /\ lmay = {len}
    /\ here = TRUE /\ cmay = {TRUE}
    /\ step = "loop" /\ blk = 0 /\ mbat = bat
    /\ want = [b \in Blocks |-> [s \in Sectors |-> ChainSector(bat[b], data, b, s)]]
    /\ holes = {b \in Blocks : Hole(b, bat[b])}
    /\ hit = FALSE

\* Type invariant: merge's loop stays within the blocks of the disk, and the
\* BAT, in memory and on disk, within the places of the file.
MTypeOK ==
    /\ TypeOK
    /\ child \in [Blocks -> BlockRead] /\ diff \in BOOLEAN
    /\ linkage \in Guids \cup {Nil}
    /\ bat \in [Blocks -> Entry] /\ bmay \in [Blocks -> SUBSET Entry]
    /\ data \in [Offsets -> [Sectors -> Values]]
    /\ dmay \in [Offsets -> SUBSET [Sectors -> Values]]
    /\ len \in 0..MaxLen /\ lmay \subseteq 0..MaxLen
    /\ here \in BOOLEAN /\ cmay \subseteq BOOLEAN
    /\ step \in {"loop", "bat", "headers"}
    /\ blk \in 0..BlockCount /\ mbat \in [Blocks -> Entry]
    /\ want \in [Blocks -> [Sectors -> Values]] /\ hit \in BOOLEAN
    /\ holes \subseteq Blocks

-----------------------------------------------------------------------------
(* The merge.                                                              *)

\* merge returned or died: its local variables are gone.
Reset(b) == step' = "loop" /\ blk' = 0 /\ mbat' = b

\* fsck --fix on a parent with an empty log: its headers only.
Fsck ==
    /\ FsckOpen \/ FsckRepair1 \/ FsckRepair2 \/ FsckNoLog
    /\ UNCHANGED <<files, local, fixed, hit>>

\* Open the child and the parent, compare the linkage with the parent's
\* DataWriteGuid, and read the parent's headers, BAT and length.  A mismatch
\* (Error::ParentGuidMismatch) or a missing child changes nothing.
OpenChain ==
    /\ here
    /\ linkage # Nil => Active(slot).guid = linkage
    /\ MergeOpen
    /\ step' = "loop" /\ blk' = 0 /\ mbat' = bat
    /\ UNCHANGED <<files, fixed, hit>>

Looping == pc = "merge1" /\ step = "loop" /\ blk < BlockCount

\* Mutant: the loop index is advanced twice for an absent block.
SkipTwoBlocks ==
    /\ Looping /\ child[blk].kind = "absent"
    /\ blk' = blk + 2
    /\ UNCHANGED <<vars, files, step, mbat, fixed, hit>>

\* BlockRead::Absent
SkipBlock ==
    /\ Looping /\ child[blk].kind = "absent"
    /\ blk' = blk + 1
    /\ UNCHANGED <<vars, files, step, mbat, fixed, hit>>

\* The entry's own block is overwritten; any other kind of block, a
\* PartiallyPresent one included, is given a new block at the end of the file.
InPlace(e) == e.state = "full" /\ e.off # 0

\* Mutant: the sectors the child lacks are not read from the parent's block.
NewBlockFromZeros(b) ==
    [s \in Sectors |-> IF InChild(b, s) THEN ChildSector(b) ELSE Zero]

\* The buffer that is written: the child's sectors over what the parent's
\* block holds, or over zeros when the block is new.
NewBlock(b) ==
    [s \in Sectors |-> IF InChild(b, s) THEN ChildSector(b)
                       ELSE IF InPlace(mbat[b]) THEN data[mbat[b].off][s]
                       ELSE Zero]

\* Mutant: the cursor is the start of the last block, not the end of the file.
BlockOffsetSkewed(b) ==
    IF InPlace(mbat[b]) THEN mbat[b].off ELSE IF len = 0 THEN 1 ELSE len

\* The offset merge writes block b to.
BlockOffset(b) == IF InPlace(mbat[b]) THEN mbat[b].off ELSE len + 1

\* BlockRead::Full and BlockRead::Partial: set_len for a new block, one
\* write_all_at of the whole block, which a kill cuts short after some
\* sectors, and the update of the in-memory BAT.  A block past the end of
\* the file can be overwritten (Full) but not read (Partial).  The cursor and
\* the file's length are one variable, `len`: they differ only where a parent's
\* entry lies past the end of its file, which MInit leaves out.  Aligning the
\* length is left out too, and so is a BAT too short for the block, which
\* set_payload_entry would pass over.
CopyBlock ==
    LET off == BlockOffset(blk)
        mixed(old, w) == [s \in Sectors |-> IF s \in w THEN NewBlock(blk)[s] ELSE old[s]]
    IN
    /\ Looping /\ child[blk].kind # "absent"
    /\ off <= MaxLen
    /\ (child[blk].kind = "partial" /\ InPlace(mbat[blk])) => off <= len
    /\ dmay' = [dmay EXCEPT ![off] = {mixed(old, w) : old \in @, w \in SUBSET Sectors}]
    /\ len' = IF off > len THEN off ELSE len
    /\ lmay' = lmay \cup {len'}
    /\ \/ /\ data' = [data EXCEPT ![off] = NewBlock(blk)]
          /\ mbat' = [mbat EXCEPT ![blk] = [state |-> "full", bits |-> {}, off |-> off]]
          /\ blk' = blk + 1
          /\ UNCHANGED <<vars, step>>
       \/ /\ \E w \in SUBSET Sectors : data' = [data EXCEPT ![off] = mixed(@, w)]
          /\ Kill /\ Reset(bat)
    /\ UNCHANGED <<bat, bmay, here, cmay, fixed, hit>>

EndLoop ==
    /\ pc = "merge1" /\ step = "loop" /\ blk = BlockCount
    /\ step' = "bat"
    /\ UNCHANGED <<vars, files, blk, mbat, fixed, hit>>

\* One write_all_at of the encoded BAT; a kill cuts it short after some
\* entries.
WriteBat ==
    /\ pc = "merge1" /\ step = "bat"
    /\ \E n \in 0..BlockCount :
          /\ bat' = [b \in Blocks |-> IF b < n THEN mbat[b] ELSE bat[b]]
          /\ \/ n = BlockCount /\ step' = "headers" /\ UNCHANGED <<vars, blk, mbat>>
             \/ n < BlockCount /\ Kill /\ Reset(bat')
    /\ bmay' = [b \in Blocks |-> bmay[b] \cup {bat'[b]}]
    /\ UNCHANGED <<data, dmay, len, lmay, here, cmay, fixed, hit>>

WriteHeaders ==
    /\ pc = "merge1" => step = "headers"
    /\ MergeWrite1 \/ MergeWrite2
    /\ IF pc' = "idle" THEN Reset(bat) ELSE UNCHANGED local
    /\ UNCHANGED <<files, fixed, hit>>

\* The whole parent file is on disk.
ParentSynced ==
    /\ bmay' = [b \in Blocks |-> {bat[b]}]
    /\ dmay' = [o \in Offsets |-> {data[o]}]
    /\ lmay' = {len}

\* Mutant: no parent_file.sync_all() before the child is removed.
SyncParentSkipped ==
    /\ pc = "merge_sync" /\ Continue("merge_ok")
    /\ UNCHANGED <<slot, may, History, files, local, fixed, hit>>

\* parent_file.sync_all()
SyncParent ==
    /\ MergeSync
    /\ ParentSynced
    /\ UNCHANGED <<bat, data, len, here, cmay, local, fixed, hit>>

\* remove_file(child), unless keep_child; the directory is not synced.
RemoveChild ==
    /\ pc = "merge_ok" /\ here
    /\ here' = FALSE /\ cmay' = {TRUE, FALSE}
    /\ UNCHANGED <<vars, bat, bmay, data, dmay, len, lmay, local, fixed, hit>>

\* Chain::discover only reads; merge returns.
Return ==
    /\ MergeReturn /\ Reset(bat)
    /\ UNCHANGED <<files, fixed, hit>>

-----------------------------------------------------------------------------
(* Failures.                                                               *)

\* Killed, or an error of a read, of set_len or of a write.
Stop ==
    /\ Kill /\ Reset(bat)
    /\ UNCHANGED <<files, fixed, hit>>

\* The kernel writes everything back between two runs.  Doing so earlier
\* would only take outcomes away from a power loss.
Settle ==
    /\ pc = "idle" /\ Writeback
    /\ ParentSynced /\ cmay' = {here}
    /\ UNCHANGED <<bat, data, len, here, local, fixed, hit>>

\* A BAT or header write is not on disk for certain.
Unsynced == \/ \E b \in Blocks : bmay[b] # {bat[b]}
            \/ \E i \in Slots : may[i] # {slot[i]}

\* Every BAT entry, sector, header and the length keep one of their contents;
\* what is past the new end of the file is gone.
Blackout ==
    /\ PowerLoss
    /\ bat' \in {f \in [Blocks -> UNION {bmay[b] : b \in Blocks}] :
                   \A b \in Blocks : f[b] \in bmay[b]}
    /\ len' \in lmay
    /\ data' \in {f \in [Offsets -> UNION {dmay[o] : o \in Offsets} \cup {ZeroBlock}] :
                   \A o \in Offsets :
                      IF o <= len' THEN f[o] \in dmay[o] ELSE f[o] = ZeroBlock}
    /\ here' \in cmay
    /\ bmay' = [b \in Blocks |-> {bat'[b]}]
    /\ dmay' = [o \in Offsets |-> {data'[o]}]
    /\ lmay' = {len'} /\ cmay' = {here'}
    /\ hit' = (hit \/ Unsynced)
    /\ Reset(bat')
    /\ UNCHANGED fixed

MNext ==
    \/ Fsck \/ OpenChain \/ SkipBlock \/ CopyBlock \/ EndLoop \/ WriteBat
    \/ WriteHeaders \/ SyncParent \/ RemoveChild \/ Return
    \/ Stop \/ Settle \/ Blackout

MSpec == MInit /\ [][MNext]_mvars

-----------------------------------------------------------------------------
(* Properties.                                                             *)

\* A reader of the chain is sent to the child: it exists and its linkage, if
\* it has one, is the parent's DataWriteGuid.
Attached == here /\ (linkage = Nil \/ linkage = Active(slot).guid)

\* No kill and no power loss, while blocks are copied, headers updated or the
\* child removed, and no number of reruns, loses a sector: through the child
\* as long as it is attached, and in the parent alone from then on, every
\* block reads as it did before the merge.  Excepted are Holes (see
\* MergeKeepsEveryBlock) and what follows a power loss between the BAT write
\* and sync_all, which merge does not survive.
Preserved(B) ==
    ~hit /\ Readable(slot) => \A b \in B, s \in Sectors :
        IF Attached THEN ChainSector(bat[b], data, b, s) = want[b][s]
                    ELSE ParentSector(bat[b], data, b, s) = want[b][s]
NothingLost == Preserved(Blocks \ holes)

\* The comment on merge's partial copy says the block written already holds
\* the parent's data: then no block is lost, whatever the parent's state.
MergeKeepsEveryBlock == Preserved(Blocks)

\* Whenever a power loss can leave the directory without the child, every
\* outcome of that power loss has the child's data in the parent, inside the
\* file.
RemovedOnlyWhenDurable ==
    ~hit /\ FALSE \in cmay => \A b \in Blocks \ holes, s \in Sectors :
        \A e \in bmay[b] :
            IF e.off = 0 THEN ParentSector(e, data, b, s) = want[b][s]
            ELSE /\ \A l \in lmay : e.off <= l
                 /\ \A d \in dmay[e.off] :
                       ParentSector(e, [data EXCEPT ![e.off] = d], b, s) = want[b][s]

\* The parent's BAT never sends two blocks to the same place, nor one past
\* the end of the file, also while crashes leave allocated blocks behind.
NoSharedBlock ==
    ~hit => \A a \in Blocks : bat[a].off # 0 =>
        /\ bat[a].off <= len
        /\ \A b \in Blocks \ {a} : bat[b].off # bat[a].off
=============================================================================
