------------------------------ MODULE Compact ------------------------------
(***************************************************************************)
(* compact (compact.rs): a disk is copied without its zero blocks into a   *)
(* temporary file next to it, which is then renamed over the input or to   *)
(* `<stem>.compacted.vhdx`.  Several processes may do so on one input.     *)
(*                                                                         *)
(* A directory maps names to inodes; compact never syncs it, so a power    *)
(* loss may take it back to any earlier state.  fsck, which the real one   *)
(* runs first, is the subject of Repair.                                   *)
(***************************************************************************)
EXTENDS Writer

CONSTANTS Procs,   \* running instances; p is also p's temporary name and inode
          Size,    \* virtual size of the input
          Inputs,  \* [diff, cells]: has_parent, and the input's contents
          Options, \* [in_place, sparse]: in_place, and sparse_size > 0
          Nobody   \* no inode

\* A file that VhdxDisk::open accepts.  Its blocks may lie anywhere, past its
\* end too; whatever the bytes of its BAT, they are given as entries.
Sound(f) ==
    /\ Listed(f) /\ Openable(f)
    /\ f[1][2] \in Nat /\ f[1][3] \in Nat /\ f[1][4] \in Nat
    /\ SizeOf(f) = Size /\ BlockSizeOf(f) \in 1..ChunkCells
    /\ \A b \in 0..(block_count(Size, BlockSizeOf(f)) - 1) :
          EntryIndex(f, b) < f[1][4] * PerCell =>
             BatCellFor(f, b)[1] = "bat" /\ PayloadEntry(f, b).off \in Nat

ASSUME CompactAssumption ==
    /\ Size \in Nat
    /\ Procs \cap {"input", "compacted", "other"} = {}
    /\ Nobody \notin {"input", "compacted", "other"} \cup Procs
    /\ \A x \in Inputs : Sound(x.cells)
    /\ Options \subseteq [in_place : BOOLEAN, sparse : BOOLEAN]

VARIABLES dir,    \* name -> inode
          past,   \* the directory's states up to now
          inodes, \* inode -> file
          diff,   \* has_parent() of the input
          opts, pc, fd, todo, w, blk \* of each process

cvars == <<dir, past, inodes, diff, opts, pc, fd, todo, w, blk>>

\* The two names that people know: the input and the default output.
Names == {"input", "compacted"} \cup Procs
Inodes == {"input", "other"} \cup Procs

CInit ==
    /\ \E input \in Inputs :
          /\ diff = input.diff
          /\ inodes = [i \in Inodes |-> IF i = "input" THEN [cells |-> input.cells, dirty |-> {}]
                                        ELSE EmptyFile]
    /\ \E out \in {Nobody, "other"} :
          dir = [n \in Names |-> IF n = "input" THEN "input"
                                 ELSE IF n = "compacted" THEN out ELSE Nobody]
    /\ past = {dir}
    /\ opts \in [Procs -> Options]
    /\ pc = [p \in Procs |-> "start"] /\ fd = [p \in Procs |-> Nobody]
    /\ todo = [p \in Procs |-> <<>>] /\ blk = [p \in Procs |-> 0]
    /\ w = [p \in Procs |-> [bs |-> 0]]

At(p, label) == pc[p] = label /\ todo[p] = <<>>
Goto(p, label) == pc' = [pc EXCEPT ![p] = label]
Relink(d) == dir' = d /\ past' = past \cup {d}
In(p) == inodes[fd[p]].cells

Open(p) ==
    /\ At(p, "start")
    /\ fd' = [fd EXCEPT ![p] = dir["input"]]
    /\ Goto(p, IF diff THEN "failed" ELSE "temp")
    /\ UNCHANGED <<dir, past, inodes, diff, opts, todo, w, blk>>

\* tempfile_in finds a free name by creating the file
MakeTemp(p) ==
    /\ At(p, "temp")
    /\ Relink([dir EXCEPT ![p] = p])
    /\ Goto(p, "create")
    /\ UNCHANGED <<inodes, diff, opts, fd, todo, w, blk>>

\* drop(tmp) removes it and VhdxWriter::create makes it again
CreateOutput(p) ==
    /\ At(p, "create")
    /\ w' = [w EXCEPT ![p] = NewWriter(SizeOf(In(p)), BlockSizeOf(In(p)), FALSE)]
    /\ todo' = [todo EXCEPT ![p] = create(w'[p])]
    /\ past' = past \cup {[dir EXCEPT ![p] = Nobody]}
    /\ Goto(p, "blocks")
    /\ UNCHANGED <<dir, inodes, diff, opts, fd, blk>>

Call(p) ==
    /\ todo[p] # <<>>
    /\ inodes' = [inodes EXCEPT ![p] = After(Head(todo[p]), @)]
    /\ todo' = [todo EXCEPT ![p] = Tail(@)]
    /\ UNCHANGED <<dir, past, diff, opts, pc, fd, w, blk>>

\* is_all_zero_aligned: with a granularity of 0 nothing is sparse
is_all_zero_aligned(data, sparse) == sparse /\ is_all_zero(data)

\* Mutant: only blocks the input does not have are left out.
Elided_absent(read, sparse) == read.kind = "absent"

\* Blocks for which no payload is written
Elided(read, sparse) == read.kind = "absent" \/ is_all_zero_aligned(read.data, sparse)

\* Mutant: one block too many.
CopyBlock_past(p) ==
    /\ At(p, "blocks") /\ blk[p] <= block_count(w[p].size, w[p].bs)
    /\ blk' = [blk EXCEPT ![p] = @ + 1]
    /\ UNCHANGED <<dir, past, inodes, diff, opts, pc, fd, todo, w>>

CopyBlock(p) ==
    /\ At(p, "blocks") /\ blk[p] < block_count(w[p].size, w[p].bs)
    /\ LET read == ReadBlock(In(p), blk[p])
           buf == [i \in 1..w[p].bs |-> read.data[i - 1]]
       IN  IF read.kind = "error" THEN Goto(p, "failed") /\ UNCHANGED <<todo, w, blk>>
           ELSE /\ blk' = [blk EXCEPT ![p] = @ + 1]
                /\ IF Elided(read, opts[p].sparse)
                   THEN w' = [w EXCEPT ![p] = write_zero(@, blk[p])] /\ UNCHANGED todo
                   ELSE /\ w' = [w EXCEPT ![p] = write_buf(@, blk[p])]
                        /\ todo' = [todo EXCEPT ![p] =
                                      write_payload_buf(slot_of(w[p], blk[p]), buf, 0)]
                /\ UNCHANGED pc
    /\ UNCHANGED <<dir, past, inodes, diff, opts, fd>>

Finish(p) ==
    /\ At(p, "blocks") /\ blk[p] = block_count(w[p].size, w[p].bs)
    /\ todo' = [todo EXCEPT ![p] = finish(w[p])]
    /\ Goto(p, "rename")
    /\ UNCHANGED <<dir, past, inodes, diff, opts, fd, w, blk>>

Dest(p) == IF opts[p].in_place THEN "input" ELSE "compacted"

\* Mutant: the file takes its final name before it is finished.
Rename_early(p) ==
    /\ pc[p] = "rename"
    /\ Relink([dir EXCEPT ![Dest(p)] = p, ![p] = Nobody])
    /\ Goto(p, "done")
    /\ UNCHANGED <<inodes, diff, opts, fd, todo, w, blk>>

Rename(p) ==
    /\ At(p, "rename")
    /\ Relink([dir EXCEPT ![Dest(p)] = p, ![p] = Nobody])
    /\ Goto(p, "done")
    /\ UNCHANGED <<inodes, diff, opts, fd, todo, w, blk>>

-----------------------------------------------------------------------------
\* A kill, or an error returned by any call: the temporary file stays.
Kill(p) ==
    /\ pc[p] \notin {"done", "failed", "off"}
    /\ Goto(p, "failed") /\ todo' = [todo EXCEPT ![p] = <<>>]
    /\ UNCHANGED <<dir, past, inodes, diff, opts, fd, w, blk>>

\* Some earlier directory, and unsynced cells lost from the files in it.
PowerLoss ==
    /\ \E p \in Procs : pc[p] # "off"
    /\ \E d \in past :
       \E i \in Losses(inodes[d["input"]]) :
       \E o \in IF d["compacted"] = Nobody THEN {EmptyFile} ELSE Losses(inodes[d["compacted"]]) :
          /\ dir' = d /\ past' = {d}
          /\ inodes' = [n \in Inodes |-> IF n = d["input"] THEN i
                                         ELSE IF n = d["compacted"] THEN o ELSE inodes[n]]
    /\ pc' = [p \in Procs |-> "off"] /\ todo' = [p \in Procs |-> <<>>]
    /\ UNCHANGED <<diff, opts, fd, w, blk>>

Step(p) ==
    \/ Open(p) \/ MakeTemp(p) \/ CreateOutput(p) \/ Call(p) \/ CopyBlock(p) \/ Finish(p)
    \/ Rename(p)

CNext == (\E p \in Procs : Step(p) \/ Kill(p)) \/ PowerLoss

CSpec == CInit /\ [][CNext]_cvars

-----------------------------------------------------------------------------
(* Properties                                                              *)

Original == ReadImage(inodes["input"].cells, Size)
ReadsAsOriginal(i) == ReadImage(inodes[i].cells, Size) = Original

\* Names lead to files there are, the loops end at the last block.
CTypeOK ==
    /\ dir \in [Names -> Inodes \cup {Nobody}] /\ dir \in past
    /\ \A p \in Procs :
          /\ pc[p] \in {"start", "temp", "create", "blocks", "rename", "done", "failed", "off"}
          /\ w[p].bs # 0 => blk[p] <= block_count(w[p].size, w[p].bs)
          /\ inodes[p].dirty \subseteq 1..Len(inodes[p].cells)

\* compact --in-place: the input's name leads at all times, after any kill or
\* power loss and with any number of instances, to a file that reads like the
\* original.
InputIntact == dir["input"] # Nobody /\ ReadsAsOriginal(dir["input"])

\* compact: the output's name leads to nothing, to what was there before, or to
\* a complete copy of the input.
OutputWhole == dir["compacted"] \in {Nobody, "other"} \/ ReadsAsOriginal(dir["compacted"])

\* compact: once a file has its final name, its payload is exactly the blocks
\* of the original that are not zero, even when its source was itself replaced
\* by another instance meanwhile.
Packed ==
    \A p \in Procs : (pc[p] = "done" /\ opts[p].sparse) =>
        LET bs == w[p].bs
            full == {b \in 0..(block_count(Size, bs) - 1) :
                       ~is_all_zero(ReadBlock(inodes["input"].cells, b).data)}
        IN  Len(inodes[p].cells) = payload_start(Size, bs) + bs * Cardinality(full)
=============================================================================
