------------------------------- MODULE Writer -------------------------------
(***************************************************************************)
(* The files VhdxWriter (writer.rs) and ZstStreamWriter (zst_writer.rs)    *)
(* produce, and how VhdxDisk (disk.rs) reads them back.                    *)
(*                                                                         *)
(* A file is a sequence of cells of 1 MiB.  The first holds the file type  *)
(* identifier, the headers and the region tables: "fti" until the headers  *)
(* are written, then where the metadata and the BAT are.                   *)
(***************************************************************************)
EXTENDS BatIndex, Overlay, FiniteSets

CONSTANTS ChunkCells, \* cells of payload that one sector bitmap covers
          PerCell     \* BAT entries that fit into a cell

ASSUME WriterAssumption == ChunkCells \in Nat \ {0} /\ PerCell \in Nat \ {0}

Fti == <<"fti">>
HeadCell(metadata, bat, length) == <<"head", metadata, bat, length>>
MetaCell(size, bs) == <<"meta", size, bs>>
BatCell(entries) == <<"bat", entries>>
Junk == <<"junk">>  \* what a power loss leaves of an unsynced cell
Stray == <<"stray">> \* what is found through BAT entries that nobody wrote

Empty == [state |-> "absent", off |-> 0]
ZeroEntry == [state |-> "zero", off |-> 0]
FullEntry(off) == [state |-> "full", off |-> off]

Zeros(n) == [i \in 1..n |-> Zero]

\* A sequence of known length
Listed(s) == s \in Seq({s[i] : i \in DOMAIN s})

chunk_ratio(bs) == ChunkCells \div bs
bat_entries(size, bs) ==
    total_bat_entries(block_count(size, bs), chunk_ratio(bs), FALSE)

bat_length(size, bs) ==
    LET n == (bat_entries(size, bs) + PerCell - 1) \div PerCell
    IN  IF n = 0 THEN 1 ELSE n

\* Bat::encode, padded to the region's length.
encode(bat, cells) ==
    [c \in 1..cells |->
       BatCell([j \in 1..PerCell |-> LET i == (c - 1) * PerCell + j
                                     IN  IF i <= Len(bat) THEN bat[i] ELSE Empty])]

set_payload_entry(bat, ratio, blk, e) ==
    LET i == payload_index(blk, ratio) + 1
    IN  IF i <= Len(bat) THEN [bat EXCEPT ![i] = e] ELSE bat

-----------------------------------------------------------------------------
(* Files: the cells a read returns and which of them are not yet on disk.  *)
(* The functions below list the calls they make on a file; a caller makes  *)
(* them one by one, so it can be killed between any two.  A write of many  *)
(* cells is as many calls, as it may be torn.                              *)

EmptyFile == [cells |-> <<>>, dirty |-> {}]

Truncate == <<"truncate">>
Sync == <<"sync">>
SetLen(n) == <<"set_len", n>>
Write(off, cell) == <<"write", off, cell>>

write_all_at(off, cells) == [i \in 1..Len(cells) |-> Write(off + i - 1, cells[i])]

Resized(f, n) ==
    [cells |-> [i \in 1..n |-> IF i <= Len(f.cells) THEN f.cells[i] ELSE Zero],
     dirty |-> {i \in f.dirty : i <= n}]

\* Mutant: File::flush, which does nothing, in the place of a sync.
Synced_flush(f) == f

Synced(f) == [f EXCEPT !.dirty = {}]

\* The file after a call.  Its length is taken to be durable at once.
After(call, f) ==
    IF call = Sync THEN Synced(f)
    ELSE IF call = Truncate THEN EmptyFile
    ELSE IF call[1] = "set_len" THEN Resized(f, call[2])
    ELSE LET g == Resized(f, IF call[2] < Len(f.cells) THEN Len(f.cells) ELSE call[2] + 1)
         IN  [cells |-> [g.cells EXCEPT ![call[2] + 1] = call[3]],
              dirty |-> g.dirty \cup {call[2] + 1}]

\* What a power loss may make of a file: it keeps all, or loses one or all of
\* its unsynced cells.
Losses(f) ==
    {[cells |-> [i \in 1..Len(f.cells) |-> IF i \in lost THEN Junk ELSE f.cells[i]],
      dirty |-> {}] : lost \in {{}, f.dirty} \cup {{i} : i \in f.dirty}}

-----------------------------------------------------------------------------
(* VhdxWriter: header section, log, metadata, BAT, payload.                *)

LogSize == 1 \* log_size: all callers pass 1 MiB
metadata_offset == 1 + LogSize
bat_offset == metadata_offset + 1
payload_start(size, bs) == bat_offset + bat_length(size, bs)

EmptyBat(size, bs) == [i \in 1..bat_entries(size, bs) |-> Empty]

\* The BAT after set_payload_entry(b, e[b]) for each block b of e.
BatOf(size, bs, e) ==
    LET blocks(i) == {b \in DOMAIN e : payload_index(b, chunk_ratio(bs)) = i - 1}
    IN  [i \in 1..bat_entries(size, bs) |->
           IF blocks(i) = {} THEN Empty ELSE e[CHOOSE b \in blocks(i) : TRUE]]

write_bat(w) == write_all_at(bat_offset, encode(w.bat, bat_length(w.size, w.bs)))

\* The writer in memory.  A fixed image has all its blocks allocated.
NewWriter(size, bs, fixed) ==
    LET start == payload_start(size, bs)
        slots == [b \in 0..(block_count(size, bs) - 1) |-> FullEntry(start + b * bs)]
    IN  [size |-> size, bs |-> bs, fixed |-> fixed, cursor |-> start,
         bat |-> IF fixed THEN BatOf(size, bs, slots) ELSE EmptyBat(size, bs)]

\* create: file type identifier, empty log, metadata and empty BAT; then the
\* region tables and headers, which make the file one that opens.
create(w) ==
    LET length == bat_length(w.size, w.bs)
    IN  <<Truncate>>
        \o write_all_at(0, <<Fti>> \o Zeros(LogSize) \o <<MetaCell(w.size, w.bs)>>
                              \o encode(EmptyBat(w.size, w.bs), length))
        \o <<Write(0, HeadCell(metadata_offset, bat_offset, length))>>
        \o (IF w.fixed
            THEN write_bat(w) \o <<SetLen(w.cursor + block_count(w.size, w.bs) * w.bs)>>
            ELSE <<SetLen(w.cursor)>>)

\* write_block with BlockSource::Zero
write_zero(w, blk) ==
    [w EXCEPT !.bat = set_payload_entry(@, chunk_ratio(w.bs), blk, ZeroEntry)]

mark_not_present(w, blk) ==
    [w EXCEPT !.bat = set_payload_entry(@, chunk_ratio(w.bs), blk, Empty)]

\* write_block with BlockSource::Buf: where the payload goes, ...
slot_of(w, blk) ==
    IF w.fixed THEN w.bat[payload_index(blk, chunk_ratio(w.bs)) + 1].off ELSE w.cursor

\* Mutant: the cursor stays where it is.
write_buf_stuck(w, blk) ==
    [w EXCEPT !.bat = set_payload_entry(@, chunk_ratio(w.bs), blk, FullEntry(w.cursor))]

\* ... and the writer after it.
write_buf(w, blk) ==
    IF w.fixed THEN w
    ELSE [w EXCEPT !.bat = set_payload_entry(@, chunk_ratio(w.bs), blk, FullEntry(w.cursor)),
                   !.cursor = @ + w.bs]

\* Mutant: chunks are written one after the other without a sync.
write_payload_buf_unsynced(off, buf, chunked) == write_all_at(off, buf)

\* write_payload_buf; chunked is chunked_write_size in cells, 0 for none.  Every
\* chunk, the last and perhaps shorter one too, is followed by a sync.
write_payload_buf(off, buf, chunked) ==
    IF chunked = 0 \/ Len(buf) <= chunked THEN write_all_at(off, buf)
    ELSE LET calls == Len(buf) + block_count(Len(buf), chunked)
             cell(n) == n - (n \div (chunked + 1))
         IN  [n \in 1..calls |->
                IF n % (chunked + 1) = 0 \/ n = calls THEN Sync
                ELSE Write(off + cell(n) - 1, buf[cell(n)])]

\* Mutant: nothing is synced.
finish_unsynced(w) == write_bat(w) \o (IF w.fixed THEN <<>> ELSE <<SetLen(w.cursor)>>)

finish(w) == write_bat(w) \o (IF w.fixed THEN <<>> ELSE <<SetLen(w.cursor)>>) \o <<Sync>>

-----------------------------------------------------------------------------
(* ZstStreamWriter: the same, with the BAT behind the payload.             *)

\* Layout::compute
compute(size, bs, non_zero_blocks) ==
    LET payload == metadata_offset + 1
        bat == payload + non_zero_blocks * bs
    IN  [bs |-> bs, payload_start |-> payload, bat_offset |-> bat,
         bat_length |-> bat_length(size, bs), non_zero_blocks |-> non_zero_blocks,
         total_size |-> bat + bat_length(size, bs)]

\* How many of the first b blocks are not zero.
NonZero(is_zero, b) == Cardinality({i \in 1..b : ~is_zero[i]})

\* build_bat_for_layout: the k-th block that is not zero is the k-th in the
\* stream.
build_bat_for_layout(size, bs, is_zero) ==
    BatOf(size, bs, [b \in 0..(Len(is_zero) - 1) |->
        IF is_zero[b + 1] THEN ZeroEntry
        ELSE FullEntry(metadata_offset + 1 + NonZero(is_zero, b) * bs)])

\* begin: what is streamed first, ...
begin(size, bs, lay) ==
    <<HeadCell(metadata_offset, lay.bat_offset, lay.bat_length)>>
       \o Zeros(LogSize) \o <<MetaCell(size, bs)>>

\* ... and what finish adds to a stream whose cursor is at `cursor`.
finish_stream(bat, lay, cursor) ==
    Zeros(lay.bat_offset - cursor) \o encode(bat, lay.bat_length)

-----------------------------------------------------------------------------
(* VhdxDisk::open and read_block of a file with no parent.                 *)

\* Header and metadata are valid, and the BAT region is within the file.
\* Bat::parse takes any bytes, so the BAT itself is not checked.
Openable(f) ==
    /\ Len(f) > 0 /\ f[1][1] = "head"
    /\ f[1][2] < Len(f) /\ f[f[1][2] + 1][1] = "meta"
    /\ f[1][3] + f[1][4] <= Len(f)

SizeOf(f) == f[f[1][2] + 1][2]
BlockSizeOf(f) == f[f[1][2] + 1][3]
EntryIndex(f, blk) == payload_index(blk, chunk_ratio(BlockSizeOf(f)))
BatCellFor(f, blk) == f[f[1][3] + (EntryIndex(f, blk) \div PerCell) + 1]
PayloadEntry(f, blk) == BatCellFor(f, blk)[2][(EntryIndex(f, blk) % PerCell) + 1]

\* BlockRead for one block, as in Overlay; an error for a block without an
\* entry and for one that ends past the file.  Where the BAT is not one, its
\* bytes are taken for entries all the same: these may lead anywhere.
ReadBlock(f, blk) ==
    LET e == PayloadEntry(f, blk)
        bs == BlockSizeOf(f)
        zeros == [k \in 0..(bs - 1) |-> Zero]
        payload == [k \in 0..(bs - 1) |-> f[e.off + k + 1]]
        read(kind, data) == [kind |-> kind, bits |-> {}, data |-> data]
    IN  IF EntryIndex(f, blk) >= f[1][4] * PerCell THEN read("error", zeros)
        ELSE IF BatCellFor(f, blk)[1] # "bat" THEN read("full", [k \in 0..(bs - 1) |-> Stray])
        ELSE IF e.state = "absent" THEN read("absent", zeros)
        ELSE IF e.state = "zero" THEN read("full", zeros)
        ELSE IF e.off + bs > Len(f) THEN read("error", zeros)
        ELSE read("full", payload)

\* The whole disk as its user sees it.
ReadImage(f, size) ==
    LET cell(v) == CellOf(ReadBlock(f, v \div BlockSizeOf(f)), v % BlockSizeOf(f))
    IN  [v \in 0..(size - 1) |->
           IF ~Openable(f) \/ SizeOf(f) # size THEN Unreadable
           ELSE IF cell(v) = Unfilled THEN Zero ELSE cell(v)]
=============================================================================
