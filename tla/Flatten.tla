------------------------------ MODULE Flatten ------------------------------
(***************************************************************************)
(* flatten (flatten.rs): a chain becomes one image, written by VhdxWriter, *)
(* or by ZstStreamWriter into a compressed tar archive.  The steps up to   *)
(* and including the size checks are those of module Chain.                *)
(*                                                                         *)
(* The archive is kept uncompressed: its tar header, the cells of the      *)
(* image, the tar end marker, the end of the zstd frame.                   *)
(***************************************************************************)
EXTENDS Writer, SequencesExt

CONSTANTS Chains, \* sequences of links, leaf first, of the same virtual size
          Size,   \* that size
          Modes,  \* combinations of FlattenOptions
          Olds    \* what may be in the place of the output before

\* Every block the virtual size calls for is in the link's BAT.
IsLink(link) == link.bs \in Nat \ {0} /\ Len(link.blocks) = block_count(Size, link.bs)

\* The contents of an old file do not matter, only that they are not the new.
ASSUME FlattenAssumption ==
    /\ Size \in Nat
    /\ \A c \in Chains :
          /\ Listed(c) /\ c # <<>> /\ c[1].bs \in 1..ChunkCells
          /\ \A i \in 1..Len(c) : IsLink(c[i])
    /\ Modes \subseteq [fixed : BOOLEAN, elide : BOOLEAN, ntfs : BOOLEAN, zst : BOOLEAN]
    /\ \A f \in Olds : f = EmptyFile \/
          /\ f = [cells |-> f.cells, dirty |-> {}]
          /\ Listed(f.cells) /\ f.cells # <<>> /\ f.cells[1] = <<"old">>

VARIABLES links, \* the chain, opened read-only
          mode,  \* opts
          file,  \* the output
          todo,  \* calls that the function under way has yet to make
          pc,
          w,     \* the writer
          blk,   \* loop variable
          is_zero, \* result of the pre-scan
          sent   \* what the encoder has been given

fvars == <<links, mode, file, todo, pc, w, blk, is_zero, sent>>

Bs == links[1].bs
Count == block_count(Size, Bs)
NoWriter == [bs |-> 0]

Tar(size) == <<"tar", size>>
Eof == <<"eof">>
FrameEnd == <<"frame">>

FInit ==
    /\ links \in Chains /\ mode \in Modes /\ file \in Olds
    /\ pc = "start" /\ todo = <<>> /\ w = NoWriter
    /\ blk = 0 /\ is_zero = <<>> /\ sent = <<>>

\* The composite as a buffer
Buf(composite) == [i \in 1..Bs |-> composite[i - 1]]

-----------------------------------------------------------------------------
(* Calls on the output, in order.                                          *)

Call ==
    /\ todo # <<>>
    /\ file' = After(Head(todo), file)
    /\ todo' = Tail(todo)
    /\ UNCHANGED <<links, mode, pc, w, blk, is_zero, sent>>

At(label) == pc = label /\ todo = <<>>

Fail == pc' = "failed"

-----------------------------------------------------------------------------
(* flatten_with_progress, once the links are open.                         *)

\* set_ntfs_compression: creates or truncates the file, then compact.exe
StampNtfs ==
    /\ At("start") /\ ~mode.zst /\ mode.ntfs
    /\ todo' = <<Truncate>> /\ pc' = "create"
    /\ UNCHANGED <<links, mode, file, w, blk, is_zero, sent>>

\* ... on a host that is not Windows
NtfsUnsupported ==
    /\ At("start") /\ ~mode.zst /\ mode.ntfs
    /\ Fail
    /\ UNCHANGED <<links, mode, file, todo, w, blk, is_zero, sent>>

CreateOutput ==
    /\ ~mode.zst
    /\ At("create") \/ (At("start") /\ ~mode.ntfs)
    /\ w' = NewWriter(Size, Bs, mode.fixed)
    /\ todo' = create(w')
    /\ pc' = "blocks"
    /\ UNCHANGED <<links, mode, file, blk, is_zero, sent>>

\* Mutant: one block too many.
WriteBlock_past ==
    /\ At("blocks") /\ blk <= Count
    /\ blk' = blk + 1
    /\ UNCHANGED <<links, mode, file, todo, pc, w, is_zero, sent>>

\* One round of the loop: a composite that is all zero is only noted in the
\* BAT; on a compressed destination every block is synced and the file opened
\* anew.
WriteBlock ==
    /\ At("blocks") /\ blk < Count
    /\ LET composite == merge_block(links, blk)
           chunked == IF mode.ntfs THEN 1 ELSE 0
       IN  IF Failed(composite) THEN Fail /\ UNCHANGED <<todo, w, blk>>
           ELSE /\ blk' = blk + 1
                /\ IF mode.elide /\ ~mode.fixed /\ is_all_zero(composite)
                   THEN w' = write_zero(w, blk) /\ UNCHANGED todo
                   ELSE /\ w' = write_buf(w, blk)
                        /\ todo' = write_payload_buf(slot_of(w, blk), Buf(composite), chunked)
                                     \o (IF mode.ntfs THEN <<Sync>> ELSE <<>>)
                /\ UNCHANGED pc
    /\ UNCHANGED <<links, mode, file, is_zero, sent>>

FinishOutput ==
    /\ At("blocks") /\ blk = Count
    /\ todo' = finish(w) /\ pc' = "finish"
    /\ UNCHANGED <<links, mode, file, w, blk, is_zero, sent>>

ReturnOutput ==
    /\ At("finish")
    /\ pc' = "done"
    /\ UNCHANGED <<links, mode, file, todo, w, blk, is_zero, sent>>

-----------------------------------------------------------------------------
(* flatten_to_zst                                                          *)

Reject ==
    /\ At("start") /\ mode.zst /\ (mode.ntfs \/ mode.fixed)
    /\ Fail
    /\ UNCHANGED <<links, mode, file, todo, w, blk, is_zero, sent>>

\* Mutant: a block that cannot be read passes for one that is not zero.
Scan_lenient ==
    /\ At("start") /\ mode.zst /\ ~mode.ntfs /\ ~mode.fixed /\ blk < Count
    /\ is_zero' = Append(is_zero, is_all_zero(merge_block(links, blk)))
    /\ blk' = blk + 1
    /\ UNCHANGED <<links, mode, file, todo, pc, w, sent>>

\* analyze_chain_zero_blocks, one round
Scan ==
    /\ At("start") /\ mode.zst /\ ~mode.ntfs /\ ~mode.fixed /\ blk < Count
    /\ LET composite == merge_block(links, blk)
       IN  IF Failed(composite) THEN Fail /\ UNCHANGED <<is_zero, blk>>
           ELSE /\ is_zero' = Append(is_zero, is_all_zero(composite))
                /\ blk' = blk + 1
                /\ UNCHANGED pc
    /\ UNCHANGED <<links, mode, file, todo, w, sent>>

\* Layout and BAT, then the destination, the tar header and the preamble.
OpenArchive ==
    /\ At("start") /\ mode.zst /\ ~mode.ntfs /\ ~mode.fixed /\ blk = Count
    /\ LET lay == compute(Size, Bs, NonZero(is_zero, Count))
       IN  /\ w' = [lay |-> lay, bat |-> build_bat_for_layout(Size, Bs, is_zero), written |-> 0]
           /\ sent' = <<Tar(lay.total_size)>> \o begin(Size, Bs, lay)
    /\ file' = After(Truncate, file)
    /\ blk' = 0 /\ pc' = "stream"
    /\ UNCHANGED <<links, mode, todo, is_zero>>

\* Pass 2; write_payload_block refuses a block that is not in the layout.
StreamBlock ==
    /\ At("stream") /\ blk < Count
    /\ LET composite == merge_block(links, blk)
       IN  IF is_zero[blk + 1] THEN blk' = blk + 1 /\ UNCHANGED <<pc, w, sent>>
           ELSE IF Failed(composite) \/ w.written >= w.lay.non_zero_blocks
           THEN Fail /\ UNCHANGED <<blk, w, sent>>
           ELSE /\ sent' = sent \o Buf(composite)
                /\ w' = [w EXCEPT !.written = @ + 1]
                /\ blk' = blk + 1
                /\ UNCHANGED pc
    /\ UNCHANGED <<links, mode, file, todo, is_zero>>

\* ZstStreamWriter::finish and write_ustar_eof
FinishStream ==
    /\ At("stream") /\ blk = Count
    /\ IF w.written # w.lay.non_zero_blocks THEN Fail /\ UNCHANGED sent
       ELSE /\ sent' = sent \o finish_stream(w.bat, w.lay, Len(sent) - 1) \o <<Eof>>
            /\ pc' = "encoder"
    /\ UNCHANGED <<links, mode, file, todo, w, blk, is_zero>>

\* encoder.finish() and BufWriter::into_inner: everything is in the file.
FinishEncoder ==
    /\ At("encoder")
    /\ sent' = Append(sent, FrameEnd)
    /\ file' = [cells |-> sent', dirty |-> 1..Len(sent')]
    /\ todo' = <<Sync>> /\ pc' = "finish"
    /\ UNCHANGED <<links, mode, w, blk, is_zero>>

-----------------------------------------------------------------------------
(* Interruption.  An error returned anywhere else has the effect of a kill.*)

\* What the encoder and the BufWriter have let through is any prefix.
Streaming == pc \in {"stream", "encoder"}
OnDisk ==
    IF Streaming THEN {[cells |-> c, dirty |-> 1..Len(c)] : c \in Prefixes(sent)} ELSE {file}

Kill ==
    /\ pc \notin {"done", "failed", "lost"}
    /\ file' \in OnDisk
    /\ Fail /\ todo' = <<>>
    /\ UNCHANGED <<links, mode, w, blk, is_zero, sent>>

PowerLoss ==
    /\ pc # "lost"
    /\ \E f \in OnDisk : file' \in Losses(f)
    /\ pc' = IF pc = "done" THEN "done" ELSE "lost"
    /\ todo' = <<>>
    /\ UNCHANGED <<links, mode, w, blk, is_zero, sent>>

Step ==
    \/ Call \/ StampNtfs \/ NtfsUnsupported \/ CreateOutput \/ WriteBlock \/ FinishOutput
    \/ ReturnOutput \/ Reject \/ Scan \/ OpenArchive \/ StreamBlock \/ FinishStream
    \/ FinishEncoder

FNext == Step \/ Kill \/ PowerLoss

FSpec == FInit /\ [][FNext]_fvars

-----------------------------------------------------------------------------
(* What a reader of the output finds.                                      *)

Status == IF pc \in {"done", "failed", "lost"} THEN pc ELSE "running"

Source == [v \in 0..(Size - 1) |-> VirtualCell(links, v)]

Unpackable(f) ==
    /\ Len(f) > 3 /\ f[Len(f)] = FrameEnd /\ f[Len(f) - 1] = Eof
    /\ f[1] = Tar(Len(f) - 3)

Image ==
    LET f == file.cells
    IN  IF file \in Olds \ {EmptyFile} THEN [v \in 0..(Size - 1) |-> <<"old", v>>]
        ELSE IF ~mode.zst THEN ReadImage(f, Size)
        ELSE IF Unpackable(f) THEN ReadImage(SubSeq(f, 2, Len(f) - 2), Size)
        ELSE [v \in 0..(Size - 1) |-> Unreadable]

Promise == INSTANCE Snapshot WITH
    Blank <- {Zero, Unreadable}, status <- Status, source <- Source, image <- Image

-----------------------------------------------------------------------------
(* Properties                                                              *)

\* The loops stay within the leaf's blocks and the file within its layout.
FTypeOK ==
    /\ pc \in {"start", "create", "blocks", "finish", "stream", "encoder",
               "done", "failed", "lost"}
    /\ blk \in 0..Count /\ Len(is_zero) <= Count
    /\ file.dirty \subseteq 1..Len(file.cells)
    /\ (~mode.zst /\ file \notin Olds) => Len(file.cells) <= payload_start(Size, Bs) + Count * Bs

\* flatten_with_progress and flatten_to_zst: what is read from the output is at
\* any time, killed or not, the chain's contents, zeros or an error, and once
\* success is reported it is the whole of the chain's contents, for good.
ImplementsSnapshot == Promise!SSpec

\* write_payload_buf: on a compressed destination the payload waiting to be
\* written by the file system never exceeds one chunk (of one cell).
Backpressure ==
    mode.ntfs =>
        \A i, j \in file.dirty :
            (i > payload_start(Size, Bs) /\ j > payload_start(Size, Bs)) => i = j

\* flatten_with_progress: on a compressed destination payload is on disk before
\* the BAT refers to it, so where the BAT survives a power loss the reader never
\* finds payload that was lost, or another block's: a cell is the chain's, zero,
\* an error or still the old file's.  Two things are not promised.  The BAT is
\* itself written without a sync before it, so entries of it that a power loss
\* destroys may lead anywhere (Stray); and a fixed image, all of whose blocks
\* are in the BAT before any payload is written, is left out.
CompressedNeverJunk ==
    (mode.ntfs /\ ~mode.fixed) =>
        LET image == Image
        IN  \A v \in 0..(Size - 1) :
               image[v] \in {Zero, Unreadable, <<"old", v>>, VirtualCell(links, v), Stray}

\* flatten_to_zst: the pre-scan reads everything before the destination is
\* opened; a chain that cannot be read costs nobody an existing archive.
UnreadableKeepsArchive ==
    [][(mode.zst /\ \E v \in DOMAIN Source : Source[v] = Unreadable) => UNCHANGED file]_fvars
=============================================================================
