--------------------------- MODULE CompactProofs ---------------------------
(***************************************************************************)
(* Proofs about compact, for any number of instances, any disk and block   *)
(* size and any contents, under kills and power losses.                    *)
(*                                                                         *)
(* The invariant follows one instance through its calls.  While its file   *)
(* is created (Creating), while a block is put into it (Putting), between  *)
(* blocks (Resting) and while it is finished (Finishing) it says which     *)
(* calls are still to come and what the earlier ones have left: a block    *)
(* that was copied reads from the new file as it does from the source, as  *)
(* soon as the BAT is there.  The source is the input or a file another    *)
(* instance has finished (Settled), which nobody writes to any more; every *)
(* directory that a power loss may bring back leads to such files only.    *)
(***************************************************************************)
EXTENDS Compact, WriterProofs

Orig == inodes["input"].cells
Bs == BlockSizeOf(Orig)
Count == block_count(Size, Bs)
Ratio == chunk_ratio(Bs)
BatLen == bat_length(Size, Bs)
Start == payload_start(Size, Bs)

-----------------------------------------------------------------------------
(* Files.                                                                  *)

\* A block of f that can be read is a block of the original that can be
\* read, with the same contents.
Faithful(f) ==
    /\ Sound(f) /\ BlockSizeOf(f) = Bs
    /\ \A b \in 0..(Count - 1) : ReadBlock(f, b).kind # "error" =>
          /\ ReadBlock(Orig, b).kind # "error"
          /\ ReadBlock(f, b).data = ReadBlock(Orig, b).data

\* ... and all of them can be read, also after a power loss.
Whole(i) ==
    /\ Faithful(inodes[i].cells) /\ inodes[i].dirty = {}
    /\ \A b \in 0..(Count - 1) : ReadBlock(inodes[i].cells, b).kind # "error"

\* The instance i has finished its file and will not touch it again.
Settled(i) == i \in Procs /\ pc[i] \in {"done", "off"} /\ todo[i] = <<>> /\ Whole(i)

OldFiles ==
    /\ DOMAIN inodes = Inodes
    /\ Sound(Orig) /\ inodes["input"].dirty = {} /\ inodes["other"] = EmptyFile

NewFiles == \A p \in Procs : Tidy(inodes[p])

GoodDir(d) ==
    /\ d \in [Names -> Inodes \cup {Nobody}]
    /\ d["input"] = "input" \/ Settled(d["input"])
    /\ d["compacted"] \in {Nobody, "other"} \/ Settled(d["compacted"])

Directories == dir \in past /\ \A d \in past : GoodDir(d)

-----------------------------------------------------------------------------
(* An instance.                                                            *)

Labels == {"start", "temp", "create", "blocks", "rename", "done", "failed", "off"}
Working == {"blocks", "rename", "done"}


Entry(p, b) == w[p].bat[payload_index(b, Ratio) + 1]
File(p) == inodes[p].cells

\* The file opens, but for its BAT.
Framed(p) == /\ File(p)[1] = HeadCell(metadata_offset, bat_offset, BatLen)
             /\ File(p)[3] = MetaCell(Size, Bs)

\* Block b is copied, its payload below limit.
Copied(p, b, limit) ==
    LET e == Entry(p, b)
        read == ReadBlock(In(p), b)
    IN  /\ read.kind # "error"
        /\ \/ e = ZeroEntry /\ is_all_zero(read.data)
           \/ /\ e.state = "full" /\ e.off \in Nat
              /\ Start <= e.off /\ e.off + Bs <= limit
              /\ \A k \in 0..(Bs - 1) : File(p)[e.off + k + 1] = read.data[k]

Creating(p, j) ==
    /\ Rest(todo[p], create(w[p]), j) /\ blk[p] = 0
    /\ w[p].cursor = Start
    /\ j > 0 => Len(File(p)) = IF j <= Start + 1 THEN j - 1 ELSE Start
    /\ j > 3 => File(p)[3] = MetaCell(Size, Bs)
    /\ j > Start + 1 => Framed(p)

Resting(p) ==
    /\ todo[p] = <<>> /\ Framed(p) /\ Len(File(p)) = w[p].cursor
    /\ \A b \in 0..(blk[p] - 1) : Copied(p, b, w[p].cursor)

Putting(p, j) ==
    LET off == w[p].cursor - Bs
        read == ReadBlock(In(p), blk[p] - 1)
    IN  /\ blk[p] > 0 /\ Start <= off
        /\ Rest(todo[p], write_all_at(off, [i \in 1..Bs |-> read.data[i - 1]]), j)
        /\ Framed(p) /\ Len(File(p)) = off + j
        /\ \A b \in 0..(blk[p] - 2) : Copied(p, b, off)
        /\ read.kind # "error" /\ Entry(p, blk[p] - 1) = FullEntry(off)
        /\ \A k \in 0..(j - 1) : File(p)[off + k + 1] = read.data[k]

Finishing(p, j) ==
    /\ Rest(todo[p], finish(w[p]), j) /\ blk[p] = Count
    /\ Framed(p) /\ Len(File(p)) = w[p].cursor
    /\ \A b \in 0..(Count - 1) : Copied(p, b, w[p].cursor)
    /\ \A c \in 1..BatLen : c <= j => File(p)[bat_offset + c] = encode(w[p].bat, BatLen)[c]
    /\ j = BatLen + 2 => inodes[p].dirty = {}

\* Where the instance stands in its calls.
Stage(p) ==
    /\ pc[p] = "blocks" => \/ \E j \in 0..(Start + 2) : Creating(p, j)
                           \/ \E j \in 0..(Bs - 1) : Putting(p, j)
                           \/ Resting(p)
    /\ pc[p] = "rename" => \E j \in 0..(BatLen + 2) : Finishing(p, j)
    /\ pc[p] = "done" => Whole(p) /\ Len(File(p)) = w[p].cursor /\ blk[p] = Count

\* The blocks below n that take space in a compacted file.
Full(n) == {b \in 0..(n - 1) : ~is_all_zero(ReadBlock(Orig, b).data)}

WriterOK(p) ==
    /\ pc[p] \in {"start", "temp", "create"} => w[p].bs = 0 /\ blk[p] = 0
    /\ pc[p] \in Working => w[p].bs # 0
    /\ w[p].bs # 0 =>
          /\ w[p] = [size |-> Size, bs |-> Bs, fixed |-> w[p].fixed, cursor |-> w[p].cursor, bat |-> w[p].bat]
          /\ ~w[p].fixed /\ Listed(w[p].bat) /\ Len(w[p].bat) = bat_entries(Size, Bs)
          /\ w[p].cursor \in Nat /\ Start <= w[p].cursor
          /\ blk[p] \in 0..Count
          /\ opts[p].sparse => w[p].cursor = Start + Bs * Cardinality(Full(blk[p]))

\* What the instance reads from.
Reads(p) == pc[p] \in {"temp", "create"} \cup Working => fd[p] = "input" \/ Settled(fd[p])

Instance(p) ==
    /\ pc[p] \in Labels /\ (pc[p] \notin {"blocks", "rename"} => todo[p] = <<>>)
    /\ Reads(p) /\ WriterOK(p) /\ Stage(p)

Domains == /\ DOMAIN pc = Procs /\ DOMAIN fd = Procs /\ DOMAIN todo = Procs
           /\ DOMAIN w = Procs /\ DOMAIN blk = Procs

CInv == /\ OldFiles /\ NewFiles /\ Directories /\ Domains
        /\ \A p \in Procs : Instance(p)

-----------------------------------------------------------------------------
(* Reading a file back.                                                    *)

\* A whole file reads like the original.
LEMMA ReadsSame ==
    ASSUME OldFiles, NEW i, Whole(i)
    PROVE  ReadsAsOriginal(i)
<1> DEFINE f == inodes[i].cells
           cell(g, v) == CellOf(ReadBlock(g, v \div Bs), v % Bs)
           seen(g, v) == IF cell(g, v) = Unfilled THEN Zero ELSE cell(g, v)
<1>1. /\ Openable(f) /\ SizeOf(f) = Size /\ BlockSizeOf(f) = Bs /\ Openable(Orig) /\ SizeOf(Orig) = Size
      /\ Bs \in 1..ChunkCells
  BY DEF Whole, Faithful, Sound, OldFiles, Bs
<1>2. Bs \in Nat \ {0}
  BY <1>1, Geometry, CompactAssumption
<1>3. ASSUME NEW v \in 0..(Size - 1) PROVE seen(f, v) = seen(Orig, v)
  <2> DEFINE b == v \div Bs
             k == v % Bs
  <2>1. b \in 0..(Count - 1) /\ k \in 0..(Bs - 1)
    BY <1>2, AddressBlock, CompactAssumption DEF Count
  <2>2. /\ ReadBlock(f, b).kind # "error" /\ ReadBlock(Orig, b).kind # "error"
        /\ ReadBlock(f, b).data = ReadBlock(Orig, b).data
    BY <2>1 DEF Whole, Faithful
  <2> HIDE DEF b, k
  <2> DEFINE see(g) == LET c == CellOf(ReadBlock(g, b), k) IN IF c = Unfilled THEN Zero ELSE c
             d == ReadBlock(Orig, b).data[k]
  <2>3. see(f) = IF d = Unfilled THEN Zero ELSE d
    BY <1>1, <2>1, <2>2, SeenCell
  <2>4. see(Orig) = IF d = Unfilled THEN Zero ELSE d
    BY <2>1, <2>2, SeenCell DEF Bs
  <2>5. see(f) = see(Orig)
    BY <2>3, <2>4
  <2> QED BY <2>5 DEF b, k
<1>4. ReadImage(f, Size) = [v \in 0..(Size - 1) |-> seen(f, v)]
  BY <1>1 DEF ReadImage
<1>5. ReadImage(Orig, Size) = [v \in 0..(Size - 1) |-> seen(Orig, v)]
  BY <1>1 DEF ReadImage, Bs
<1>6. [v \in 0..(Size - 1) |-> seen(f, v)] = [v \in 0..(Size - 1) |-> seen(Orig, v)]
  BY <1>3
<1> QED BY <1>4, <1>5, <1>6 DEF ReadsAsOriginal, Original, Orig

\* The source of an instance is faithful.
LEMMA SourceFaithful ==
    ASSUME OldFiles, NEW p, fd[p] = "input" \/ Settled(fd[p])
    PROVE  Faithful(In(p))
<1>1. Faithful(Orig)
  BY DEF Faithful, OldFiles, Bs
<1> QED BY <1>1 DEF In, Orig, Settled, Whole

\* Sizes of the disk at hand.
LEMMA Sizes ==
    ASSUME OldFiles
    PROVE  /\ Bs \in 1..ChunkCells /\ Bs \in Nat \ {0} /\ Ratio \in Nat \ {0} /\ Count \in Nat
           /\ BatLen \in Nat \ {0} /\ Start = 3 + BatLen /\ bat_entries(Size, Bs) \in Nat
           /\ PerCell \in Nat \ {0}
           /\ metadata_offset = 2 /\ bat_offset = 3
           /\ \A b \in 0..(Count - 1) :
                 payload_index(b, Ratio) \in Nat /\ payload_index(b, Ratio) < bat_entries(Size, Bs)
           /\ \A a, b \in 0..(Count - 1) :
                 payload_index(a, Ratio) = payload_index(b, Ratio) => a = b
<1>1. Bs \in 1..ChunkCells
  BY DEF OldFiles, Sound, Bs
<1>2. metadata_offset = 2 /\ bat_offset = 3
  BY DEF metadata_offset, bat_offset, LogSize
<1> QED BY <1>1, <1>2, Geometry, CompactAssumption, WriterAssumption DEF Count, Ratio, BatLen, Start

\* A finished file reads as its source does.
LEMMA FinishedWhole ==
    ASSUME OldFiles, NewFiles, NEW p \in Procs, fd[p] = "input" \/ Settled(fd[p]),
           WriterOK(p), w[p].bs # 0, Finishing(p, BatLen + 2)
    PROVE  Whole(p)
<1> DEFINE f == File(p)
           table == encode(w[p].bat, BatLen)
<1>1. /\ Bs \in 1..ChunkCells /\ Bs \in Nat \ {0} /\ BatLen \in Nat \ {0} /\ Start = 3 + BatLen
      /\ metadata_offset = 2 /\ bat_offset = 3 /\ PerCell \in Nat \ {0} /\ Count \in Nat
  BY Sizes
<1>2. /\ Listed(f) /\ Len(f) = w[p].cursor /\ w[p].cursor \in Nat /\ Start <= w[p].cursor
      /\ Len(w[p].bat) = bat_entries(Size, Bs)
      /\ inodes[p].dirty = {}
  BY DEF NewFiles, Tidy, Finishing, WriterOK, File
<1>3. f[1] = <<"head", 2, 3, BatLen>> /\ f[3] = <<"meta", Size, Bs>>
  BY <1>1 DEF Finishing, Framed, HeadCell, MetaCell
<1>4. \A c \in 1..BatLen : f[3 + c] = table[c]
  <2>1. \A c \in 1..BatLen : c <= BatLen + 2
    BY <1>1
  <2> QED BY <1>1, <2>1 DEF Finishing
<1>5. \A c \in 1..BatLen :
         table[c] = <<"bat", [j \in 1..PerCell |-> LET i == (c - 1) * PerCell + j
                                                   IN  IF i <= Len(w[p].bat) THEN w[p].bat[i] ELSE Empty]>>
  BY DEF encode, BatCell
<1> HIDE DEF f, table
<1>6. f[1][1] = "head" /\ f[1][2] = 2 /\ f[1][3] = 3 /\ f[1][4] = BatLen
  BY <1>3
<1>7. f[f[1][2] + 1] = <<"meta", Size, Bs>>
  BY <1>3, <1>6
<1>8. SizeOf(f) = Size /\ BlockSizeOf(f) = Bs /\ f[f[1][2] + 1][1] = "meta"
  BY <1>7 DEF SizeOf, BlockSizeOf
<1>9. Openable(f)
  <2>1. Len(f) > 0 /\ 2 < Len(f) /\ 3 + BatLen <= Len(f)
    BY <1>1, <1>2
  <2> QED BY <1>6, <1>8, <2>1 DEF Openable
<1>10. ASSUME NEW b \in 0..(Count - 1)
       PROVE  /\ EntryIndex(f, b) < f[1][4] * PerCell
              /\ BatCellFor(f, b)[1] = "bat" /\ PayloadEntry(f, b) = Entry(p, b)
  <2> DEFINE i == payload_index(b, Ratio)
             q == i \div PerCell
             m == i % PerCell
  <2>1. i \in Nat /\ i < bat_entries(Size, Bs) /\ EntryIndex(f, b) = i
    BY <1>8, Sizes DEF EntryIndex, Ratio
  <2>2. i < BatLen * PerCell /\ q \in 0..(BatLen - 1) /\ m \in 0..(PerCell - 1) /\ i = q * PerCell + m
    <3> HIDE DEF i
    <3> QED BY <1>1, <2>1, Geometry, CompactAssumption DEF BatLen
  <2>3. BatCellFor(f, b) = f[3 + q + 1] /\ PayloadEntry(f, b) = f[3 + q + 1][2][m + 1]
    BY <1>6, <2>1 DEF PayloadEntry, BatCellFor
  <2>4. Entry(p, b) = w[p].bat[i + 1]
    BY DEF Entry
  <2> HIDE DEF i, q, m
  <2>5. q + 1 \in 1..BatLen /\ 3 + (q + 1) = 3 + q + 1 /\ (q + 1) - 1 = q /\ m + 1 \in 1..PerCell
    BY <1>1, <2>2
  <2>10. f[3 + q + 1] = table[q + 1]
    BY <1>4, <2>5
  <2>11. f[3 + q + 1][1] = "bat"
    <3>1. PICK x : table[q + 1] = <<"bat", x>>
      BY <1>5, <2>5
    <3> QED BY <2>10, <3>1
  <2>6. f[3 + q + 1][2] = [j \in 1..PerCell |-> LET n == ((q + 1) - 1) * PerCell + j
                                               IN  IF n <= Len(w[p].bat) THEN w[p].bat[n] ELSE Empty]
    BY <1>5, <2>5, <2>10
  <2>7. ((q + 1) - 1) * PerCell + (m + 1) = i + 1
    <3>1. ((q + 1) - 1) * PerCell = q * PerCell /\ q * PerCell \in Nat
      BY <1>1, <2>2, <2>5
    <3> QED BY <2>2, <3>1
  <2>8. i + 1 <= Len(w[p].bat)
    BY <1>1, <1>2, <2>1, Sizes
  <2>9. f[3 + q + 1][2][m + 1] = w[p].bat[i + 1]
    BY <2>5, <2>6, <2>7, <2>8
  <2> QED BY <1>6, <2>1, <2>2, <2>3, <2>4, <2>9, <2>11
<1>11. ASSUME NEW b \in 0..(Count - 1)
       PROVE  /\ Entry(p, b).off \in Nat
              /\ ReadBlock(f, b).kind = "full" /\ ReadBlock(In(p), b).kind # "error"
              /\ ReadBlock(f, b).data = ReadBlock(In(p), b).data
  <2> DEFINE e == Entry(p, b)
             r == ReadBlock(f, b)
             d == ReadBlock(In(p), b).data
             D == 0..(Bs - 1)
  <2>1. Copied(p, b, w[p].cursor)
    BY DEF Finishing
  <2>2. PayloadEntry(f, b) = e /\ ~(EntryIndex(f, b) >= f[1][4] * PerCell) /\ BatCellFor(f, b)[1] = "bat"
    <3>1. EntryIndex(f, b) < f[1][4] * PerCell /\ BatCellFor(f, b)[1] = "bat" /\ PayloadEntry(f, b) = e
      BY <1>10
    <3>2. EntryIndex(f, b) \in Nat /\ f[1][4] * PerCell \in Nat
      BY <1>1, <1>6, <1>8, Sizes DEF EntryIndex, Ratio
    <3> QED BY <3>1, <3>2
  <2>3. d = [k \in D |-> d[k]]
    <3>1. BlockSizeOf(In(p)) = Bs
      BY SourceFaithful DEF Faithful
    <3> QED BY <3>1, BlockShape
  <2>4. /\ e.state = "zero" => r.kind = "full" /\ r.data = [k \in D |-> Zero]
        /\ e.state \notin {"absent", "zero"} /\ ~(e.off + Bs > Len(f)) =>
              r.kind = "full" /\ r.data = [k \in D |-> f[e.off + k + 1]]
    BY <1>8, <2>2, FoundRead
  <2> HIDE DEF e, r, d
  <2>5. CASE e = ZeroEntry /\ is_all_zero(d)
    <3>1. e.state = "zero" /\ e.off = 0
      BY <2>5 DEF ZeroEntry
    <3>2. \A k \in D : d[k] = Zero
      <4>1. DOMAIN d = D
        BY <2>3
      <4> QED BY <2>5, <4>1 DEF is_all_zero
    <3>3. r.kind = "full" /\ r.data = d
      BY <2>3, <2>4, <3>1, <3>2
    <3> QED BY <2>1, <3>1, <3>3 DEF Copied, e, r, d
  <2>6. CASE /\ e.state = "full" /\ e.off \in Nat /\ e.off + Bs <= w[p].cursor
             /\ \A k \in D : f[e.off + k + 1] = d[k]
    <3>1. ~(e.off + Bs > Len(f))
      BY <1>1, <1>2, <2>6
    <3>2. r.kind = "full" /\ r.data = d
      BY <2>3, <2>4, <2>6, <3>1
    <3> QED BY <2>1, <2>6, <3>2 DEF Copied, e, r, d
  <2>7. \/ e = ZeroEntry /\ is_all_zero(d)
        \/ /\ e.state = "full" /\ e.off \in Nat /\ e.off + Bs <= w[p].cursor
           /\ \A k \in D : f[e.off + k + 1] = d[k]
    BY <2>1 DEF Copied, e, d, f
  <2> QED BY <2>5, <2>6, <2>7
<1>12. Sound(f)
  BY <1>1, <1>2, <1>6, <1>8, <1>9, <1>10, <1>11 DEF Sound, Count
<1>13. Faithful(f)
  <2>1. Faithful(In(p))
    BY SourceFaithful
  <2> QED BY <1>8, <1>11, <1>12, <2>1 DEF Faithful
<1>14. \A b \in 0..(Count - 1) : ReadBlock(f, b).kind # "error"
  BY <1>11
<1> QED BY <1>2, <1>13, <1>14 DEF Whole, f, File

-----------------------------------------------------------------------------
(* What a step leaves alone.                                               *)

\* The input's contents say what every size is.
LEMMA SameSizes ==
    ASSUME Orig' = Orig
    PROVE  Bs' = Bs /\ Count' = Count /\ Ratio' = Ratio /\ BatLen' = BatLen /\ Start' = Start
<1>1. Bs' = Bs
  BY DEF Bs
<1> QED BY <1>1 DEF Count, Ratio, BatLen, Start

\* A whole file that is not written to stays whole.
LEMMA WholeStays ==
    ASSUME Orig' = Orig, NEW i, Whole(i),
           inodes'[i].cells = inodes[i].cells, inodes'[i].dirty = inodes[i].dirty
    PROVE  Whole(i)'
<1>1. Bs' = Bs /\ Count' = Count
  BY SameSizes
<1>2. Faithful(inodes[i].cells)'
  BY <1>1 DEF Whole, Faithful
<1> QED BY <1>1, <1>2 DEF Whole

\* A block that is copied stays so while neither its entry nor its payload is
\* touched.
LEMMA CopiedStays ==
    ASSUME Orig' = Orig, NEW p, NEW b, NEW limit \in Nat, NEW more \in Nat, limit <= more,
           Bs \in Nat, Start \in Nat, Copied(p, b, limit), Entry(p, b)' = Entry(p, b), In(p)' = In(p),
           \A i \in (Start + 1)..limit : File(p)'[i] = File(p)[i]
    PROVE  Copied(p, b, more)'
<1> DEFINE e == Entry(p, b)
           d == ReadBlock(In(p), b).data
<1>1. Bs' = Bs /\ Start' = Start
  BY SameSizes
<1>2. ReadBlock(In(p), b)' = ReadBlock(In(p), b)
  OBVIOUS
<1>3. ReadBlock(In(p), b).kind # "error"
  BY DEF Copied
<1>4. CASE e = ZeroEntry /\ is_all_zero(d)
  BY <1>2, <1>3, <1>4 DEF Copied
<1>5. CASE /\ e.state = "full" /\ e.off \in Nat /\ Start <= e.off /\ e.off + Bs <= limit
           /\ \A k \in 0..(Bs - 1) : File(p)[e.off + k + 1] = d[k]
  <2>1. ASSUME NEW k \in 0..(Bs - 1) PROVE File(p)'[e.off + k + 1] = d[k]
    <3>1. e.off + k + 1 \in (Start + 1)..limit
      BY <1>5
    <3> QED BY <1>5, <3>1
  <2>2. e.off + Bs <= more
    BY <1>5
  <2> QED BY <1>1, <1>2, <1>3, <1>5, <2>1, <2>2 DEF Copied
<1> QED BY <1>4, <1>5 DEF Copied

\* All that an instance has of its own.
Own(p) == <<pc[p], fd[p], todo[p], w[p], blk[p], opts[p], inodes[p]>>

\* The writer's state is about the original and the instance alone.
LEMMA WriterStays ==
    ASSUME Orig' = Orig, NEW p, WriterOK(p),
           pc'[p] = pc[p] \/ pc'[p] \in {"failed", "off"} \/ (pc[p] \in Working /\ pc'[p] \in Working),
           w'[p] = w[p], blk'[p] = blk[p], opts'[p] = opts[p]
    PROVE  WriterOK(p)'
<1>1. Bs' = Bs /\ Count' = Count /\ Start' = Start
  BY SameSizes
<1>2. Full(blk[p])' = Full(blk[p])
  BY DEF Full
<1>3. WriterOK(p)' <=>
        /\ pc'[p] \in {"start", "temp", "create"} => w[p].bs = 0 /\ blk[p] = 0
        /\ pc'[p] \in Working => w[p].bs # 0
        /\ w[p].bs # 0 =>
              /\ w[p] = [size |-> Size, bs |-> Bs, fixed |-> w[p].fixed, cursor |-> w[p].cursor, bat |-> w[p].bat]
              /\ ~w[p].fixed /\ Listed(w[p].bat) /\ Len(w[p].bat) = bat_entries(Size, Bs)
              /\ w[p].cursor \in Nat /\ Start <= w[p].cursor
              /\ blk[p] \in 0..Count
              /\ opts[p].sparse => w[p].cursor = Start + Bs * Cardinality(Full(blk[p]))
  BY <1>1, <1>2 DEF WriterOK, Working
<1> QED BY <1>3 DEF WriterOK, Working

\* An instance that does nothing, and whose source is left alone, stays where
\* it is.
LEMMA InstanceStays ==
    ASSUME OldFiles, Orig' = Orig, NEW p, Instance(p), Own(p)' = Own(p),
           fd[p] = "input" \/ Settled(fd[p]) =>
              In(p)' = In(p) /\ (Settled(fd[p]) => Settled(fd[p])')
    PROVE  Instance(p)'
<1>1. Bs' = Bs /\ Count' = Count /\ Ratio' = Ratio /\ BatLen' = BatLen /\ Start' = Start
  BY SameSizes
<1>2. /\ pc'[p] = pc[p] /\ fd'[p] = fd[p] /\ todo'[p] = todo[p] /\ w'[p] = w[p] /\ blk'[p] = blk[p]
      /\ opts'[p] = opts[p] /\ inodes'[p] = inodes[p]
  BY DEF Own
<1>3. WriterOK(p)'
  BY <1>2, WriterStays DEF Instance
<1>4. Reads(p)'
  BY <1>2 DEF Instance, Reads, Settled, Working
<1>5. Stage(p)'
  <2>1. CASE pc[p] \in Working
    <3>1. In(p)' = In(p)
      BY <2>1 DEF Instance, Reads
    <3>2. \A b, limit : Copied(p, b, limit)' <=> Copied(p, b, limit)
      BY <1>1, <1>2, <3>1 DEF Copied, Entry, File
    <3>3. Framed(p)' <=> Framed(p)
      BY <1>1, <1>2 DEF Framed, File
    <3>4. \A j : Creating(p, j)' <=> Creating(p, j)
      BY <1>1, <1>2, <3>3 DEF Creating, File
    <3>5. Resting(p)' <=> Resting(p)
      BY <1>1, <1>2, <3>2, <3>3 DEF Resting, File
    <3>6. \A j : Putting(p, j)' <=> Putting(p, j)
      BY <1>1, <1>2, <3>1, <3>2, <3>3 DEF Putting, File, Entry
    <3>7. \A j : Finishing(p, j)' <=> Finishing(p, j)
      BY <1>1, <1>2, <3>2, <3>3 DEF Finishing, File
    <3>8. pc[p] = "done" => Whole(p)'
      BY <1>2, WholeStays DEF Instance, Stage
    <3> QED BY <1>1, <1>2, <3>4, <3>5, <3>6, <3>7, <3>8 DEF Instance, Stage, File
  <2>2. CASE pc[p] \notin Working
    BY <1>2, <2>2 DEF Stage, Working
  <2> QED BY <2>1, <2>2
<1> QED BY <1>2, <1>3, <1>4, <1>5 DEF Instance

\* A step of p may write to what is p's, and to no more than that.
OnlyOf(p) ==
    /\ DOMAIN inodes' = Inodes /\ Domains'
    /\ \A i \in Inodes \ {p} : inodes'[i] = inodes[i]
    /\ \A q \in Procs \ {p} : Own(q)' = Own(q)

\* ... which nobody reads from before p has finished: all the others, and the
\* files that are settled, stay as they are.
LEMMA OthersStay ==
    ASSUME CInv, NEW p \in Procs, OnlyOf(p), pc[p] \notin {"done", "off"}, Tidy(inodes'[p])
    PROVE  /\ OldFiles' /\ NewFiles' /\ Domains' /\ Orig' = Orig
           /\ \A i : Settled(i) => Settled(i)'
           /\ fd[p] = "input" \/ Settled(fd[p]) => inodes'[fd[p]] = inodes[fd[p]]
           /\ \A q \in Procs \ {p} : Instance(q)'
<1>1. "input" \notin Procs /\ "other" \notin Procs /\ DOMAIN inodes = Inodes /\ Procs \subseteq Inodes
  BY CompactAssumption DEF CInv, OldFiles, Inodes
<1>2. \A i \in Inodes \ {p} : inodes'[i] = inodes[i]
  BY DEF OnlyOf
<1>3. Orig' = Orig
  BY <1>1, <1>2 DEF Orig, Inodes
<1>4. OldFiles'
  <2>1. inodes'["input"] = inodes["input"] /\ inodes'["other"] = inodes["other"]
    BY <1>1, <1>2 DEF Inodes
  <2>2. DOMAIN inodes' = Inodes
    BY DEF OnlyOf
  <2> QED BY <1>3, <2>1, <2>2 DEF CInv, OldFiles, Inodes
<1>5. NewFiles'
  BY <1>1, <1>2 DEF CInv, NewFiles
<1>6. Domains'
  BY DEF OnlyOf
<1>7. ASSUME NEW i, Settled(i) PROVE Settled(i)'
  <2>1. i \in Procs \ {p}
    BY <1>7 DEF Settled
  <2>2. pc'[i] = pc[i] /\ todo'[i] = todo[i] /\ inodes'[i] = inodes[i]
    BY <2>1 DEF OnlyOf, Own
  <2>3. Whole(i)'
    BY <1>3, <1>7, <2>2, WholeStays DEF Settled
  <2> QED BY <1>7, <2>2, <2>3 DEF Settled
<1>8. ASSUME NEW i, i = "input" \/ Settled(i) PROVE inodes'[i] = inodes[i]
  <2>1. i \in Inodes \ {p}
    BY <1>1, <1>8 DEF Settled, Inodes
  <2> QED BY <1>2, <2>1
<1>9. ASSUME NEW q \in Procs \ {p} PROVE Instance(q)'
  <2>1. Own(q)' = Own(q)
    BY DEF OnlyOf
  <2>2. fd'[q] = fd[q]
    BY <2>1 DEF Own
  <2>3. fd[q] = "input" \/ Settled(fd[q]) => In(q)' = In(q)
    BY <1>8, <2>2 DEF In
  <2>4. Settled(fd[q]) => Settled(fd[q])'
    <3>1. PICK i : i = fd[q]
      OBVIOUS
    <3>2. Settled(i) => Settled(i)'
      BY <1>7
    <3> QED BY <2>2, <3>1, <3>2 DEF Settled, Whole
  <2> QED BY <1>3, <2>1, <2>3, <2>4, InstanceStays DEF CInv
<1> QED BY <1>3, <1>4, <1>5, <1>6, <1>7, <1>8, <1>9

\* A directory that was good stays good.
LEMMA DirStays ==
    ASSUME \A i : Settled(i) => Settled(i)', NEW d, GoodDir(d)
    PROVE  GoodDir(d)'
<1>1. Settled(d["input"]) => Settled(d["input"])'
  OBVIOUS
<1>2. Settled(d["compacted"]) => Settled(d["compacted"])'
  OBVIOUS
<1> QED BY <1>1, <1>2 DEF GoodDir

\* So a step keeps the invariant if it keeps p's part of it and makes good
\* directories only.
LEMMA StepInv ==
    ASSUME CInv, NEW p \in Procs, OnlyOf(p), pc[p] \notin {"done", "off"}, Tidy(inodes'[p]),
           Instance(p)', dir' \in past', \A d \in past' : d \in past \/ GoodDir(d)'
    PROVE  CInv'
<1>1. /\ OldFiles' /\ NewFiles' /\ Domains'
      /\ \A i : Settled(i) => Settled(i)'
      /\ \A q \in Procs \ {p} : Instance(q)'
  BY OthersStay
<1>2. Directories'
  <2>1. ASSUME NEW d \in past' PROVE GoodDir(d)'
    BY <1>1, DirStays DEF CInv, Directories
  <2> QED BY <2>1 DEF Directories
<1> QED BY <1>1, <1>2 DEF CInv

\* Directories that differ from the current one in p's temporary name only.
LEMMA TempName ==
    ASSUME CInv, NEW p \in Procs, NEW x \in Inodes \cup {Nobody},
           \A i : Settled(i) => Settled(i)', NEW d, d = [dir EXCEPT ![p] = x]
    PROVE  GoodDir(d)'
<1>1. GoodDir(dir)
  BY DEF CInv, Directories
<1>2. dir \in [Names -> Inodes \cup {Nobody}] /\ "input" # p /\ "compacted" # p
      /\ "input" \in Names /\ "compacted" \in Names /\ p \in Names
  BY <1>1, CompactAssumption DEF GoodDir, Names
<1>3. d["input"] = dir["input"] /\ d["compacted"] = dir["compacted"]
      /\ d \in [Names -> Inodes \cup {Nobody}]
  BY <1>2
<1>4. GoodDir(d)
  BY <1>1, <1>3 DEF GoodDir, Settled, Whole
<1> QED BY <1>4, DirStays

\* The parameters of the writer.
LEMMA WriterFields ==
    ASSUME NEW p, WriterOK(p), w[p].bs # 0
    PROVE  w[p].size = Size /\ w[p].bs = Bs /\ ~w[p].fixed
<1>1. w[p] = [size |-> Size, bs |-> Bs, fixed |-> w[p].fixed, cursor |-> w[p].cursor, bat |-> w[p].bat] /\ ~w[p].fixed
  BY DEF WriterOK
<1> QED BY <1>1

-----------------------------------------------------------------------------
(* The steps, one by one.                                                  *)

\* At first nothing has been done.
LEMMA InitInv == CInit => CInv
<1> SUFFICES ASSUME CInit PROVE CInv
  OBVIOUS
<1>1. PICK input \in Inputs :
         inodes = [i \in Inodes |-> IF i = "input" THEN [cells |-> input.cells, dirty |-> {}]
                                    ELSE EmptyFile]
  BY DEF CInit
<1>2. "input" \notin Procs /\ "compacted" \notin Procs /\ "other" \notin Procs /\ Sound(input.cells)
  BY CompactAssumption
<1>3. OldFiles
  <2>1. inodes["input"] = [cells |-> input.cells, dirty |-> {}] /\ inodes["other"] = EmptyFile
    BY <1>1 DEF Inodes
  <2> QED BY <1>1, <1>2, <2>1 DEF OldFiles, Orig
<1>4. NewFiles
  <2>1. ASSUME NEW p \in Procs PROVE inodes[p] = EmptyFile
    BY <1>1, <1>2 DEF Inodes
  <2>2. Tidy(EmptyFile)
    <3>1. Listed(<<>>) /\ Len(<<>>) = 0
      BY EmptySeq DEF Listed
    <3> QED BY <3>1 DEF EmptyFile, Tidy
  <2> QED BY <2>1, <2>2 DEF NewFiles
<1>5. Directories
  <2>1. PICK out \in {Nobody, "other"} :
           dir = [n \in Names |-> IF n = "input" THEN "input"
                                  ELSE IF n = "compacted" THEN out ELSE Nobody]
    BY DEF CInit
  <2>2. /\ dir \in [Names -> Inodes \cup {Nobody}]
        /\ dir["input"] = "input" /\ dir["compacted"] \in {Nobody, "other"}
    BY <2>1 DEF Names, Inodes
  <2>3. past = {dir}
    BY DEF CInit
  <2> QED BY <2>2, <2>3 DEF Directories, GoodDir
<1>6. Domains
  BY DEF CInit, Domains
<1>7. ASSUME NEW p \in Procs PROVE Instance(p)
  <2>1. pc[p] = "start" /\ todo[p] = <<>> /\ blk[p] = 0 /\ w[p] = [bs |-> 0]
    BY DEF CInit
  <2>2. w[p].bs = 0
    BY <2>1
  <2> QED BY <2>1, <2>2 DEF Instance, Labels, Reads, WriterOK, Stage, Working
<1> QED BY <1>3, <1>4, <1>5, <1>6, <1>7 DEF CInv

\* The input is opened by its name.
LEMMA OpenInv == ASSUME CInv, NEW p \in Procs, Open(p) PROVE CInv'
<1>1. /\ pc[p] = "start" /\ todo[p] = <<>> /\ dir' = dir /\ past' = past /\ inodes' = inodes
      /\ opts' = opts /\ todo' = todo /\ w' = w /\ blk' = blk
      /\ pc' = [pc EXCEPT ![p] = IF diff THEN "failed" ELSE "temp"]
      /\ fd' = [fd EXCEPT ![p] = dir["input"]]
  BY DEF Open, At, Goto
<1>2. /\ DOMAIN inodes = Inodes /\ p \in Inodes /\ DOMAIN pc = Procs /\ DOMAIN fd = Procs
      /\ DOMAIN todo = Procs /\ DOMAIN w = Procs /\ DOMAIN blk = Procs
  BY DEF CInv, OldFiles, Domains, Inodes
<1>3. OnlyOf(p) /\ Tidy(inodes'[p])
  <2>1. Tidy(inodes[p])
    BY DEF CInv, NewFiles
  <2> QED BY <1>1, <1>2, <2>1 DEF OnlyOf, Own, Domains
<1>4. Orig' = Orig /\ \A i : Settled(i) => Settled(i)'
  BY <1>1, <1>3, OthersStay
<1>5. Instance(p)'
  <2>1. pc'[p] \in {"failed", "temp"} /\ todo'[p] = <<>> /\ fd'[p] = dir["input"]
    BY <1>1, <1>2
  <2>2. WriterOK(p)'
    <3>1. w[p].bs = 0 /\ blk[p] = 0
      BY <1>1 DEF CInv, Instance, WriterOK
    <3> QED BY <1>1, <2>1, <3>1 DEF WriterOK, Working
  <2>3. Reads(p)'
    <3>1. PICK i : i = dir["input"]
      OBVIOUS
    <3>2. i = "input" \/ Settled(i)
      BY <3>1 DEF CInv, Directories, GoodDir, Settled, Whole
    <3>3. i = "input" \/ Settled(i)'
      BY <1>4, <3>2
    <3> QED BY <2>1, <3>1, <3>3 DEF Reads, Settled, Whole
  <2> QED BY <2>1, <2>2, <2>3 DEF Instance, Labels, Stage
<1> QED BY <1>1, <1>3, <1>5, StepInv DEF CInv, Directories

\* A temporary file is made.
LEMMA MakeTempInv == ASSUME CInv, NEW p \in Procs, MakeTemp(p) PROVE CInv'
<1>1. /\ pc[p] = "temp" /\ todo[p] = <<>> /\ inodes' = inodes
      /\ opts' = opts /\ todo' = todo /\ w' = w /\ blk' = blk /\ fd' = fd
      /\ pc' = [pc EXCEPT ![p] = "create"]
      /\ dir' = [dir EXCEPT ![p] = p] /\ past' = past \cup {[dir EXCEPT ![p] = p]}
  BY DEF MakeTemp, At, Goto, Relink
<1>2. /\ DOMAIN inodes = Inodes /\ p \in Inodes /\ DOMAIN pc = Procs /\ DOMAIN fd = Procs
      /\ DOMAIN todo = Procs /\ DOMAIN w = Procs /\ DOMAIN blk = Procs
  BY DEF CInv, OldFiles, Domains, Inodes
<1>3. OnlyOf(p) /\ Tidy(inodes'[p])
  <2>1. Tidy(inodes[p])
    BY DEF CInv, NewFiles
  <2> QED BY <1>1, <1>2, <2>1 DEF OnlyOf, Own, Domains
<1>4. Orig' = Orig /\ \A i : Settled(i) => Settled(i)'
  BY <1>1, <1>3, OthersStay
<1>5. Instance(p)'
  <2>1. pc'[p] = "create" /\ todo'[p] = <<>> /\ fd'[p] = fd[p]
    BY <1>1, <1>2
  <2>2. WriterOK(p)'
    <3>1. w[p].bs = 0 /\ blk[p] = 0
      BY <1>1 DEF CInv, Instance, WriterOK
    <3> QED BY <1>1, <2>1, <3>1 DEF WriterOK, Working
  <2>3. Reads(p)'
    <3>1. PICK i : i = fd[p]
      OBVIOUS
    <3>2. i = "input" \/ Settled(i)
      BY <1>1, <3>1 DEF CInv, Instance, Reads, Settled, Whole
    <3>3. i = "input" \/ Settled(i)'
      BY <1>4, <3>2
    <3> QED BY <2>1, <3>1, <3>3 DEF Reads, Settled, Whole
  <2> QED BY <2>1, <2>2, <2>3 DEF Instance, Labels, Stage
<1>6. ASSUME NEW d \in past' PROVE d \in past \/ GoodDir(d)'
  BY <1>1, <1>2, <1>4, TempName
<1> QED BY <1>1, <1>3, <1>5, <1>6, StepInv

\* What p reads from stays as it is in a step of p.
LEMMA SourceStays ==
    ASSUME CInv, NEW p \in Procs, OnlyOf(p), Tidy(inodes'[p]), fd'[p] = fd[p],
           pc[p] \in {"temp", "create", "blocks", "rename"}
    PROVE  /\ Orig' = Orig /\ In(p)' = In(p) /\ Faithful(In(p)) /\ Reads(p)'
           /\ fd[p] = "input" \/ Settled(fd[p])
           /\ \A i : Settled(i) => Settled(i)'
<1>1. /\ Orig' = Orig /\ \A i : Settled(i) => Settled(i)'
      /\ fd[p] = "input" \/ Settled(fd[p]) => inodes'[fd[p]] = inodes[fd[p]]
  BY OthersStay
<1>2. fd[p] = "input" \/ Settled(fd[p])
  BY DEF CInv, Instance, Reads, Working
<1>3. In(p)' = In(p)
  BY <1>1, <1>2 DEF In
<1>4. Faithful(In(p))
  BY <1>2, SourceFaithful DEF CInv
<1>5. Reads(p)'
  <2>1. PICK i : i = fd[p]
    OBVIOUS
  <2>2. i = "input" \/ Settled(i)
    BY <1>2, <2>1 DEF Settled, Whole
  <2>3. i = "input" \/ Settled(i)'
    BY <1>1, <2>2
  <2> QED BY <2>1, <2>3 DEF Reads, Settled, Whole
<1> QED BY <1>1, <1>2, <1>3, <1>4, <1>5

\* A dynamic image is empty when it is created.
LEMMA NewDynamic ==
    ASSUME NEW size, NEW bs
    PROVE  NewWriter(size, bs, FALSE)
             = [size |-> size, bs |-> bs, fixed |-> FALSE, cursor |-> payload_start(size, bs),
                bat |-> EmptyBat(size, bs)]
BY DEF NewWriter

\* The temporary file is removed and made again.
LEMMA CreateOutputInv == ASSUME CInv, NEW p \in Procs, CreateOutput(p) PROVE CInv'
<1>1. /\ pc[p] = "create" /\ todo[p] = <<>> /\ inodes' = inodes /\ dir' = dir
      /\ opts' = opts /\ blk' = blk /\ fd' = fd
      /\ w' = [w EXCEPT ![p] = NewWriter(SizeOf(In(p)), BlockSizeOf(In(p)), FALSE)]
      /\ todo' = [todo EXCEPT ![p] = create(w'[p])]
      /\ pc' = [pc EXCEPT ![p] = "blocks"]
      /\ past' = past \cup {[dir EXCEPT ![p] = Nobody]}
  BY DEF CreateOutput, At, Goto
<1>2. /\ DOMAIN inodes = Inodes /\ p \in Inodes /\ DOMAIN pc = Procs /\ DOMAIN fd = Procs
      /\ DOMAIN todo = Procs /\ DOMAIN w = Procs /\ DOMAIN blk = Procs
  BY DEF CInv, OldFiles, Domains, Inodes
<1>3. OnlyOf(p) /\ Tidy(inodes'[p])
  <2>1. Tidy(inodes[p])
    BY DEF CInv, NewFiles
  <2> QED BY <1>1, <1>2, <2>1 DEF OnlyOf, Own, Domains
<1>4. /\ Orig' = Orig /\ In(p)' = In(p) /\ Faithful(In(p)) /\ Reads(p)'
      /\ \A i : Settled(i) => Settled(i)'
  BY <1>1, <1>3, SourceStays
<1>5. /\ Bs \in 1..ChunkCells /\ Bs \in Nat \ {0} /\ Count \in Nat
      /\ BatLen \in Nat \ {0} /\ Start = 3 + BatLen /\ bat_entries(Size, Bs) \in Nat
  BY Sizes DEF CInv
<1>6. Bs' = Bs /\ Count' = Count /\ Start' = Start /\ BatLen' = BatLen
  BY <1>4, SameSizes
<1>7. blk[p] = 0
  BY <1>1 DEF CInv, Instance, WriterOK
<1>8. w'[p] = [size |-> Size, bs |-> Bs, fixed |-> FALSE, cursor |-> Start, bat |-> EmptyBat(Size, Bs)]
  <2>1. SizeOf(In(p)) = Size /\ BlockSizeOf(In(p)) = Bs
    BY <1>4 DEF Faithful, Sound
  <2> QED BY <1>1, <1>2, <2>1, NewDynamic DEF Start
<1>9. /\ w'[p].size = Size /\ w'[p].bs = Bs /\ ~w'[p].fixed /\ w'[p].cursor = Start
      /\ w'[p].bat = EmptyBat(Size, Bs)
  BY <1>8
<1>10. Listed(w'[p].bat) /\ Len(w'[p].bat) = bat_entries(Size, Bs)
  <2> DEFINE bat == EmptyBat(Size, Bs)
  <2>1. bat = [i \in 1..bat_entries(Size, Bs) |-> bat[i]]
    BY DEF EmptyBat
  <2> HIDE DEF bat
  <2>2. Listed(bat) /\ Len(bat) = bat_entries(Size, Bs)
    BY <1>5, <2>1, FcnListed
  <2> QED BY <1>9, <2>2 DEF bat
<1>11. WriterOK(p)'
  <2>1. Cardinality(Full(blk[p])') = 0
    <3>1. Full(blk[p])' = {}
      BY <1>1, <1>7 DEF Full
    <3> QED BY <3>1, FS_EmptySet
  <2>2. Start = Start + Bs * 0
    BY <1>5
  <2>3. pc'[p] = "blocks" /\ blk'[p] = 0 /\ 0 \in 0..Count /\ Start \in Nat /\ Bs # 0
    BY <1>1, <1>2, <1>5, <1>7
  <2>4. w'[p] = [size |-> Size, bs |-> Bs, fixed |-> w'[p].fixed, cursor |-> w'[p].cursor, bat |-> w'[p].bat]
    BY <1>8
  <2> QED BY <1>6, <1>9, <1>10, <2>1, <2>2, <2>3, <2>4 DEF WriterOK, Working
<1>12. Creating(p, 0)'
  <2>1. todo'[p] = create(w'[p])
    BY <1>1, <1>2
  <2>2. Listed(create(w'[p]))
    BY <1>5, <1>9, CreateCalls, CompactAssumption DEF Start
  <2>3. Rest(todo'[p], create(w'[p]), 0)
    BY <2>1, <2>2, RestAll
  <2>4. ~(0 > 0) /\ ~(0 > 3) /\ ~(0 > Start' + 1)
    BY <1>5, <1>6
  <2>5. blk'[p] = 0 /\ w'[p].cursor = Start'
    BY <1>1, <1>6, <1>7, <1>9
  <2> QED BY <2>3, <2>4, <2>5 DEF Creating
<1>13. Instance(p)'
  <2>1. pc'[p] = "blocks"
    BY <1>1, <1>2
  <2>2. 0 \in 0..(Start' + 2)
    BY <1>5, <1>6
  <2>3. Stage(p)'
    BY <1>12, <2>1, <2>2 DEF Stage
  <2> QED BY <1>4, <1>11, <2>1, <2>3 DEF Instance, Labels
<1>14. ASSUME NEW d \in past' PROVE d \in past \/ GoodDir(d)'
  BY <1>1, <1>4, TempName
<1>15. dir' \in past'
  BY <1>1 DEF CInv, Directories
<1> QED BY <1>1, <1>3, <1>13, <1>14, <1>15, StepInv

\* A kill leaves the temporary file as it is.
LEMMA KillInv == ASSUME CInv, NEW p \in Procs, Kill(p) PROVE CInv'
<1>1. /\ pc[p] \notin {"done", "failed", "off"} /\ inodes' = inodes /\ dir' = dir /\ past' = past
      /\ opts' = opts /\ blk' = blk /\ fd' = fd /\ w' = w
      /\ pc' = [pc EXCEPT ![p] = "failed"] /\ todo' = [todo EXCEPT ![p] = <<>>]
  BY DEF Kill, Goto
<1>2. /\ DOMAIN inodes = Inodes /\ p \in Inodes /\ DOMAIN pc = Procs /\ DOMAIN fd = Procs
      /\ DOMAIN todo = Procs /\ DOMAIN w = Procs /\ DOMAIN blk = Procs
  BY DEF CInv, OldFiles, Domains, Inodes
<1>3. OnlyOf(p) /\ Tidy(inodes'[p])
  <2>1. Tidy(inodes[p])
    BY DEF CInv, NewFiles
  <2> QED BY <1>1, <1>2, <2>1 DEF OnlyOf, Own, Domains
<1>4. Orig' = Orig
  BY <1>1 DEF Orig
<1>5. pc'[p] = "failed" /\ todo'[p] = <<>>
  BY <1>1, <1>2
<1>6. WriterOK(p)'
  BY <1>1, <1>4, <1>5, WriterStays DEF CInv, Instance
<1>7. Instance(p)'
  BY <1>5, <1>6 DEF Instance, Labels, Reads, Stage, Working
<1> QED BY <1>1, <1>3, <1>7, StepInv DEF CInv, Directories

\* Between blocks nothing is left to do of the one before.
LEMMA AtRest == ASSUME CInv, NEW p \in Procs, At(p, "blocks") PROVE Resting(p)
<1>1. pc[p] = "blocks" /\ todo[p] = <<>>
  BY DEF At
<1>2. /\ Bs \in 1..ChunkCells /\ Bs \in Nat \ {0} /\ BatLen \in Nat \ {0} /\ Start = 3 + BatLen
  BY Sizes DEF CInv
<1>3. w[p].size = Size /\ w[p].bs = Bs /\ ~w[p].fixed
  <2>1. WriterOK(p) /\ w[p].bs # 0
    BY <1>1 DEF CInv, Instance, WriterOK, Working
  <2> QED BY <2>1, WriterFields
<1>4. ASSUME NEW j \in 0..(Start + 2), Creating(p, j) PROVE FALSE
  <2>1. w[p].cursor = payload_start(Size, Bs)
    BY <1>4 DEF Creating, Start
  <2>2. Len(create(w[p])) = Start + 3
    BY <1>2, <1>3, <2>1, CreateCalls, CompactAssumption DEF Start
  <2>3. j \in Nat /\ Len(create(w[p])) \in Nat /\ j # Start + 3
    BY <1>2, <2>2
  <2> QED BY <1>1, <1>4, <2>2, <2>3, RestNone DEF Creating
<1>5. ASSUME NEW j \in 0..(Bs - 1), Putting(p, j) PROVE FALSE
  <2> DEFINE data == ReadBlock(In(p), blk[p] - 1).data
             buf == [i \in 1..Bs |-> data[i - 1]]
             L == write_all_at(w[p].cursor - Bs, buf)
  <2>1. Rest(todo[p], L, j)
    BY <1>5 DEF Putting
  <2>2. Len(buf) = Bs
    <3>1. buf = [i \in 1..Bs |-> buf[i]]
      OBVIOUS
    <3> HIDE DEF buf
    <3> QED BY <1>2, <3>1, FcnListed
  <2> HIDE DEF buf
  <2>3. Len(L) = Bs
    BY <1>2, <2>2, WriteCalls
  <2> HIDE DEF L
  <2>4. j \in Nat /\ Len(L) \in Nat /\ j # Bs
    BY <1>2, <2>3
  <2> QED BY <1>1, <2>1, <2>3, <2>4, RestNone
<1> QED BY <1>1, <1>4, <1>5 DEF CInv, Instance, Stage

\* finish is called when the last block is done.
LEMMA FinishInv == ASSUME CInv, NEW p \in Procs, Finish(p) PROVE CInv'
<1>1. /\ pc[p] = "blocks" /\ todo[p] = <<>> /\ inodes' = inodes /\ dir' = dir /\ past' = past
      /\ opts' = opts /\ blk' = blk /\ fd' = fd /\ w' = w
      /\ blk[p] = block_count(w[p].size, w[p].bs)
      /\ todo' = [todo EXCEPT ![p] = finish(w[p])]
      /\ pc' = [pc EXCEPT ![p] = "rename"]
  BY DEF Finish, At, Goto
<1>2. /\ DOMAIN inodes = Inodes /\ p \in Inodes /\ DOMAIN pc = Procs /\ DOMAIN fd = Procs
      /\ DOMAIN todo = Procs /\ DOMAIN w = Procs /\ DOMAIN blk = Procs
  BY DEF CInv, OldFiles, Domains, Inodes
<1>3. OnlyOf(p) /\ Tidy(inodes'[p])
  <2>1. Tidy(inodes[p])
    BY DEF CInv, NewFiles
  <2> QED BY <1>1, <1>2, <2>1 DEF OnlyOf, Own, Domains
<1>4. Orig' = Orig /\ In(p)' = In(p) /\ Reads(p)'
  BY <1>1, <1>3, SourceStays
<1>5. Bs \in 1..ChunkCells /\ BatLen \in Nat \ {0}
  BY Sizes DEF CInv
<1>6. Bs' = Bs /\ Count' = Count /\ Start' = Start /\ BatLen' = BatLen /\ Ratio' = Ratio
  BY <1>4, SameSizes
<1>7. pc'[p] = "rename" /\ todo'[p] = finish(w[p])
  BY <1>1, <1>2
<1>8. w[p].bs # 0 /\ w[p].size = Size /\ w[p].bs = Bs /\ ~w[p].fixed /\ blk[p] = Count
  <2>1. WriterOK(p) /\ w[p].bs # 0
    BY <1>1 DEF CInv, Instance, WriterOK, Working
  <2> QED BY <1>1, <2>1, WriterFields DEF Count
<1>9. WriterOK(p)'
  BY <1>1, <1>4, <1>7, WriterStays DEF CInv, Instance, Working
<1>10. Finishing(p, 0)'
  <2>1. Resting(p)
    BY AtRest DEF Finish
  <2>2. Rest(todo'[p], finish(w'[p]), 0)
    <3>1. Listed(finish(w[p]))
      BY <1>5, <1>8, FinishCalls, CompactAssumption
    <3> QED BY <1>1, <1>7, <3>1, RestAll
  <2>3. Framed(p)' /\ Len(File(p))' = w'[p].cursor
    BY <1>1, <1>6, <2>1 DEF Resting, Framed, File
  <2>4. ASSUME NEW b \in 0..(Count - 1) PROVE Copied(p, b, w[p].cursor)'
    <3>1. Copied(p, b, w[p].cursor)
      BY <1>8, <2>1 DEF Resting
    <3> QED BY <1>1, <1>4, <1>6, <3>1 DEF Copied, Entry, File
  <2>5. 0 # BatLen' + 2 /\ \A c \in 1..BatLen' : ~(c <= 0)
    BY <1>5, <1>6
  <2> QED BY <1>1, <1>6, <1>8, <2>2, <2>3, <2>4, <2>5 DEF Finishing
<1>11. Instance(p)'
  <2>1. 0 \in 0..(BatLen' + 2)
    BY <1>5, <1>6
  <2>2. Stage(p)'
    BY <1>7, <1>10, <2>1 DEF Stage
  <2> QED BY <1>4, <1>7, <1>9, <2>2 DEF Instance, Labels
<1> QED BY <1>1, <1>3, <1>11, StepInv DEF CInv, Directories

\* The file gets its final name once it is whole and on disk.
LEMMA RenameInv == ASSUME CInv, NEW p \in Procs, Rename(p) PROVE CInv'
<1> DEFINE new == [dir EXCEPT ![Dest(p)] = p, ![p] = Nobody]
<1>1. /\ pc[p] = "rename" /\ todo[p] = <<>> /\ inodes' = inodes
      /\ opts' = opts /\ blk' = blk /\ fd' = fd /\ w' = w /\ todo' = todo
      /\ pc' = [pc EXCEPT ![p] = "done"]
      /\ dir' = new /\ past' = past \cup {new}
  BY DEF Rename, At, Goto, Relink
<1>2. /\ DOMAIN inodes = Inodes /\ p \in Inodes /\ DOMAIN pc = Procs /\ DOMAIN fd = Procs
      /\ DOMAIN todo = Procs /\ DOMAIN w = Procs /\ DOMAIN blk = Procs
  BY DEF CInv, OldFiles, Domains, Inodes
<1>3. OnlyOf(p) /\ Tidy(inodes'[p])
  <2>1. Tidy(inodes[p])
    BY DEF CInv, NewFiles
  <2> QED BY <1>1, <1>2, <2>1 DEF OnlyOf, Own, Domains
<1>4. /\ Orig' = Orig /\ In(p)' = In(p) /\ Reads(p)'
      /\ fd[p] = "input" \/ Settled(fd[p])
      /\ \A i : Settled(i) => Settled(i)'
  BY <1>1, <1>3, SourceStays
<1>5. Bs \in 1..ChunkCells /\ BatLen \in Nat \ {0}
  BY Sizes DEF CInv
<1>6. pc'[p] = "done" /\ todo'[p] = <<>>
  BY <1>1, <1>2
<1>7. WriterOK(p) /\ w[p].bs # 0 /\ w[p].size = Size /\ w[p].bs = Bs /\ ~w[p].fixed
  <2>1. WriterOK(p) /\ w[p].bs # 0
    BY <1>1 DEF CInv, Instance, WriterOK, Working
  <2> QED BY <2>1, WriterFields
<1>8. Finishing(p, BatLen + 2)
  <2>1. PICK j \in 0..(BatLen + 2) : Finishing(p, j)
    BY <1>1 DEF CInv, Instance, Stage
  <2>2. Len(finish(w[p])) = BatLen + 2
    BY <1>5, <1>7, FinishCalls, CompactAssumption DEF BatLen
  <2>3. j \in Nat /\ Len(finish(w[p])) \in Nat /\ Rest(todo[p], finish(w[p]), j)
    BY <1>5, <2>1, <2>2 DEF Finishing
  <2>4. j = BatLen + 2
    BY <1>1, <2>2, <2>3, RestNone
  <2> QED BY <2>1, <2>4
<1>9. Whole(p)
  BY <1>4, <1>7, <1>8, FinishedWhole DEF CInv
<1>10. Whole(p)'
  BY <1>1, <1>4, <1>9, WholeStays
<1>11. Settled(p)'
  BY <1>6, <1>10 DEF Settled
<1>12. Instance(p)'
  <2>1. WriterOK(p)'
    BY <1>1, <1>4, <1>6, <1>7, WriterStays DEF Working
  <2>2. Len(File(p))' = w'[p].cursor /\ blk'[p] = Count'
    BY <1>1, <1>4, <1>8, SameSizes DEF Finishing, File
  <2>3. Stage(p)'
    BY <1>6, <1>10, <2>2 DEF Stage
  <2> QED BY <1>4, <1>6, <2>1, <2>3 DEF Instance, Labels
<1>13. ASSUME NEW d, d = new PROVE GoodDir(d)'
  <2>1. GoodDir(dir)
    BY DEF CInv, Directories
  <2>2. dir \in [Names -> Inodes \cup {Nobody}] /\ "input" # p /\ "compacted" # p
        /\ "input" \in Names /\ "compacted" \in Names /\ p \in Names
        /\ Dest(p) \in {"input", "compacted"}
    BY <2>1, CompactAssumption DEF GoodDir, Names, Dest
  <2>3. /\ d["input"] \in {dir["input"], p} /\ d["compacted"] \in {dir["compacted"], p}
        /\ d \in [Names -> Inodes \cup {Nobody}]
    BY <1>2, <1>13, <2>2
  <2>4. PICK i, o : i = dir["input"] /\ o = dir["compacted"]
    OBVIOUS
  <2>5. (i = "input" \/ Settled(i)) /\ (o \in {Nobody, "other"} \/ Settled(o))
    BY <2>1, <2>4 DEF GoodDir, Settled, Whole
  <2>6. (i = "input" \/ Settled(i)') /\ (o \in {Nobody, "other"} \/ Settled(o)')
    BY <1>4, <2>5
  <2>7. d["input"] = "input" \/ Settled(d["input"])'
    BY <1>11, <2>3, <2>4, <2>6 DEF Settled, Whole
  <2>8. d["compacted"] \in {Nobody, "other"} \/ Settled(d["compacted"])'
    BY <1>11, <2>3, <2>4, <2>6 DEF Settled, Whole
  <2> QED BY <2>3, <2>7, <2>8 DEF GoodDir
<1>14. ASSUME NEW d \in past' PROVE d \in past \/ GoodDir(d)'
  BY <1>1, <1>13
<1> QED BY <1>1, <1>3, <1>12, <1>14, StepInv

\* A power loss stops everybody; the files that some directory leads to are on
\* disk.
LEMMA PowerLossInv == ASSUME CInv, PowerLoss PROVE CInv'
<1>1. PICK d \in past :
         /\ dir' = d /\ past' = {d}
         /\ \E i \in Losses(inodes[d["input"]]) :
            \E o \in IF d["compacted"] = Nobody THEN {EmptyFile} ELSE Losses(inodes[d["compacted"]]) :
               inodes' = [n \in Inodes |-> IF n = d["input"] THEN i
                                           ELSE IF n = d["compacted"] THEN o ELSE inodes[n]]
  BY DEF PowerLoss
<1>2. PICK i \in Losses(inodes[d["input"]]) :
         \E o \in IF d["compacted"] = Nobody THEN {EmptyFile} ELSE Losses(inodes[d["compacted"]]) :
            inodes' = [n \in Inodes |-> IF n = d["input"] THEN i
                                        ELSE IF n = d["compacted"] THEN o ELSE inodes[n]]
  BY <1>1
<1>3. PICK o \in IF d["compacted"] = Nobody THEN {EmptyFile} ELSE Losses(inodes[d["compacted"]]) :
         inodes' = [n \in Inodes |-> IF n = d["input"] THEN i
                                     ELSE IF n = d["compacted"] THEN o ELSE inodes[n]]
  BY <1>2
<1>4. /\ pc' = [p \in Procs |-> "off"] /\ todo' = [p \in Procs |-> <<>>]
      /\ opts' = opts /\ fd' = fd /\ w' = w /\ blk' = blk
  BY DEF PowerLoss
<1>5. GoodDir(d) /\ OldFiles /\ NewFiles
  BY DEF CInv, Directories
<1>6. Nobody \notin Inodes /\ "input" # "other" /\ "input" \notin Procs /\ "other" \notin Procs
  BY CompactAssumption DEF Inodes
<1>7. ASSUME NEW x, x = "input" \/ x = "other" \/ Settled(x)
      PROVE  x \in Inodes /\ Listed(inodes[x].cells) /\ inodes[x].dirty = {}
  <2>1. CASE x = "input"
    BY <1>5, <2>1 DEF OldFiles, Orig, Sound, Inodes
  <2>2. CASE x = "other"
    <3>1. Listed(<<>>)
      BY EmptySeq DEF Listed
    <3> QED BY <1>5, <2>2, <3>1 DEF OldFiles, EmptyFile, Inodes
  <2>3. CASE Settled(x)
    BY <1>5, <2>3 DEF Settled, Whole, Faithful, Sound, Inodes
  <2> QED BY <1>7, <2>1, <2>2, <2>3
<1>8. i = [cells |-> inodes[d["input"]].cells, dirty |-> {}]
  <2>1. Listed(inodes[d["input"]].cells) /\ inodes[d["input"]].dirty = {}
    BY <1>5, <1>7 DEF GoodDir
  <2> QED BY <2>1, NoLoss
<1>9. d["compacted"] # Nobody => o = [cells |-> inodes[d["compacted"]].cells, dirty |-> {}]
  <2>1. SUFFICES ASSUME d["compacted"] # Nobody
                 PROVE  o = [cells |-> inodes[d["compacted"]].cells, dirty |-> {}]
    OBVIOUS
  <2>2. Listed(inodes[d["compacted"]].cells) /\ inodes[d["compacted"]].dirty = {}
    BY <1>5, <1>7, <2>1 DEF GoodDir
  <2> QED BY <2>1, <2>2, NoLoss
<1>10. DOMAIN inodes' = Inodes
  BY <1>3
<1>11. ASSUME NEW n \in Inodes
       PROVE  inodes'[n] = inodes[n] \/ inodes'[n] = [cells |-> inodes[n].cells, dirty |-> {}]
  BY <1>3, <1>6, <1>8, <1>9
<1>12. ASSUME NEW n \in Inodes
       PROVE  /\ inodes'[n].cells = inodes[n].cells
              /\ inodes'[n].dirty = inodes[n].dirty \/ inodes'[n].dirty = {}
  <2>1. CASE inodes'[n] = inodes[n]
    BY <2>1
  <2>2. CASE inodes'[n] = [cells |-> inodes[n].cells, dirty |-> {}]
    BY <2>2
  <2> QED BY <1>11, <2>1, <2>2
<1>13. Orig' = Orig
  BY <1>12 DEF Orig, Inodes
<1>14. OldFiles'
  <2>1. inodes'["input"].dirty = {}
    BY <1>5, <1>12 DEF OldFiles, Inodes
  <2>2. inodes'["other"] = EmptyFile
    <3>1. inodes["other"] = EmptyFile /\ [cells |-> inodes["other"].cells, dirty |-> {}] = EmptyFile
      BY <1>5 DEF OldFiles, EmptyFile
    <3> QED BY <1>11, <3>1 DEF Inodes
  <2> QED BY <1>5, <1>10, <1>13, <2>1, <2>2 DEF OldFiles
<1>15. NewFiles'
  <2>1. ASSUME NEW p \in Procs PROVE Tidy(inodes'[p])
    <3>1. Tidy(inodes[p]) /\ p \in Inodes
      BY <1>5 DEF NewFiles, Inodes
    <3>2. Tidy([cells |-> inodes[p].cells, dirty |-> {}])
      BY <3>1 DEF Tidy
    <3> QED BY <1>11, <3>1, <3>2
  <2> QED BY <2>1 DEF NewFiles
<1>16. ASSUME NEW x, Settled(x) PROVE Settled(x)'
  <2>1. x \in Procs /\ x \in Inodes /\ inodes[x].dirty = {} /\ Whole(x)
    BY <1>7, <1>16 DEF Settled
  <2>2. inodes'[x].cells = inodes[x].cells /\ inodes'[x].dirty = inodes[x].dirty
    BY <1>12, <2>1
  <2>3. Whole(x)'
    BY <1>13, <2>1, <2>2, WholeStays
  <2> QED BY <1>4, <2>1, <2>3 DEF Settled
<1>17. Directories'
  <2>1. GoodDir(d)'
    BY <1>5, <1>16, DirStays
  <2> QED BY <1>1, <2>1 DEF Directories
<1>18. Domains'
  BY <1>4 DEF CInv, Domains
<1>19. ASSUME NEW p \in Procs PROVE Instance(p)'
  <2>1. pc'[p] = "off" /\ todo'[p] = <<>>
    BY <1>4
  <2>2. WriterOK(p)'
    BY <1>4, <1>13, <2>1, WriterStays DEF CInv, Instance
  <2> QED BY <2>1, <2>2 DEF Instance, Labels, Reads, Stage, Working
<1> QED BY <1>14, <1>15, <1>17, <1>18, <1>19 DEF CInv

\* An entry of the table is set; those of the other blocks stay.
LEMMA EntrySet ==
    ASSUME OldFiles, NEW bat, Listed(bat), Len(bat) = bat_entries(Size, Bs),
           NEW b \in 0..(Count - 1), NEW e, NEW new, new = set_payload_entry(bat, Ratio, b, e)
    PROVE  /\ Listed(new) /\ Len(new) = Len(bat) /\ new[payload_index(b, Ratio) + 1] = e
           /\ \A a \in 0..(Count - 1) : a # b =>
                 new[payload_index(a, Ratio) + 1] = bat[payload_index(a, Ratio) + 1]
<1> DEFINE at(a) == payload_index(a, Ratio) + 1
<1>1. /\ bat_entries(Size, Bs) \in Nat
      /\ \A a \in 0..(Count - 1) : payload_index(a, Ratio) \in Nat
                                   /\ payload_index(a, Ratio) < bat_entries(Size, Bs)
      /\ \A a \in 0..(Count - 1) : payload_index(a, Ratio) = payload_index(b, Ratio) => a = b
  BY Sizes
<1>2. Len(bat) \in Nat /\ DOMAIN bat = 1..Len(bat) /\ bat = [i \in 1..Len(bat) |-> bat[i]]
  BY ListedFcn
<1>3. \A a \in 0..(Count - 1) : at(a) \in 1..Len(bat)
  BY <1>1
<1>4. \A a \in 0..(Count - 1) : a # b => at(a) # at(b)
  BY <1>1
<1>5. at(b) <= Len(bat)
  BY <1>2, <1>3
<1>6. new = [bat EXCEPT ![at(b)] = e]
  BY <1>5 DEF set_payload_entry
<1> HIDE DEF at
<1>7. new = [i \in 1..Len(bat) |-> new[i]] /\ new[at(b)] = e
      /\ \A i \in 1..Len(bat) : i # at(b) => new[i] = bat[i]
  BY <1>2, <1>3, <1>6
<1>8. Listed(new) /\ Len(new) = Len(bat)
  BY <1>2, <1>7, FcnListed
<1> QED BY <1>3, <1>4, <1>7, <1>8 DEF at

\* The blocks that take space, counted one by one.
LEMMA FullStep ==
    ASSUME OldFiles, NEW n \in Nat
    PROVE  /\ Cardinality(Full(n)) \in Nat
           /\ is_all_zero(ReadBlock(Orig, n).data) => Full(n + 1) = Full(n)
           /\ ~is_all_zero(ReadBlock(Orig, n).data) => Cardinality(Full(n + 1)) = Cardinality(Full(n)) + 1
<1>1. IsFiniteSet(Full(n))
  <2>1. IsFiniteSet(0..(n - 1))
    BY FS_Interval
  <2>2. Full(n) \subseteq 0..(n - 1)
    BY DEF Full
  <2> QED BY <2>1, <2>2, FS_Subset
<1>2. Cardinality(Full(n)) \in Nat
  BY <1>1, FS_CardinalityType
<1>3. 0..(n + 1 - 1) = 0..(n - 1) \cup {n} /\ n \notin 0..(n - 1)
  OBVIOUS
<1>4. n \notin Full(n)
  BY <1>3 DEF Full
<1>5. is_all_zero(ReadBlock(Orig, n).data) => Full(n + 1) = Full(n)
  BY <1>3 DEF Full
<1>6. ~is_all_zero(ReadBlock(Orig, n).data) => Full(n + 1) = Full(n) \cup {n}
  BY <1>3 DEF Full
<1>7. Cardinality(Full(n) \cup {n}) = Cardinality(Full(n)) + 1
  BY <1>1, <1>4, FS_AddElement
<1> QED BY <1>2, <1>5, <1>6, <1>7

\* A step that gives block b the entry e, and moves the cursor to c if it takes
\* space.
Took(p, b, e, c) ==
    /\ pc[p] = "blocks" /\ pc'[p] = "blocks" /\ opts'[p] = opts[p]
    /\ b \in 0..(Count - 1) /\ b = blk[p] /\ blk'[p] = b + 1
    /\ w'[p] = [size |-> Size, bs |-> Bs, fixed |-> w[p].fixed, cursor |-> c,
                bat |-> set_payload_entry(w[p].bat, Ratio, b, e)]
    /\ \/ c = w[p].cursor /\ is_all_zero(ReadBlock(Orig, b).data)
       \/ c = w[p].cursor + Bs /\ (opts[p].sparse => ~is_all_zero(ReadBlock(Orig, b).data))

\* The writer after it.
LEMMA NextBlock ==
    ASSUME CInv, Orig' = Orig, NEW p \in Procs, NEW b, NEW e, NEW c, Took(p, b, e, c)
    PROVE  /\ WriterOK(p)' /\ Entry(p, b)' = e
           /\ \A a \in 0..(Count - 1) : a # b => Entry(p, a)' = Entry(p, a)
<1>0. PICK bat : bat = set_payload_entry(w[p].bat, Ratio, b, e)
  OBVIOUS
<1>1. Bs' = Bs /\ Count' = Count /\ Start' = Start /\ Ratio' = Ratio
  BY SameSizes
<1>2. Bs \in Nat \ {0} /\ Count \in Nat /\ BatLen \in Nat \ {0} /\ Start = 3 + BatLen
  BY Sizes DEF CInv
<1>3. /\ w[p].bs # 0 /\ ~w[p].fixed /\ Listed(w[p].bat) /\ Len(w[p].bat) = bat_entries(Size, Bs)
      /\ w[p].cursor \in Nat /\ Start <= w[p].cursor
      /\ opts[p].sparse => w[p].cursor = Start + Bs * Cardinality(Full(b))
  BY DEF CInv, Instance, WriterOK, Working, Took
<1>4. /\ w'[p].bs = Bs /\ w'[p].fixed = w[p].fixed /\ w'[p].cursor = c /\ w'[p].bat = bat
      /\ w'[p] = [size |-> Size, bs |-> Bs, fixed |-> w'[p].fixed, cursor |-> w'[p].cursor, bat |-> w'[p].bat]
  BY <1>0 DEF Took
<1>5. /\ Listed(bat) /\ Len(bat) = bat_entries(Size, Bs) /\ bat[payload_index(b, Ratio) + 1] = e
      /\ \A a \in 0..(Count - 1) : a # b =>
            bat[payload_index(a, Ratio) + 1] = w[p].bat[payload_index(a, Ratio) + 1]
  BY <1>0, <1>3, EntrySet DEF CInv, Took
<1>6. b \in Nat /\ b + 1 \in 0..Count
  BY <1>2 DEF Took
<1>7. c \in Nat /\ Start <= c
  BY <1>2, <1>3 DEF Took
<1>8. opts[p].sparse => c = Start + Bs * Cardinality(Full(b + 1))
  <2>1. SUFFICES ASSUME opts[p].sparse PROVE c = Start + Bs * Cardinality(Full(b + 1))
    OBVIOUS
  <2> DEFINE n == Cardinality(Full(b))
             m == Cardinality(Full(b + 1))
  <2>2. /\ n \in Nat
        /\ is_all_zero(ReadBlock(Orig, b).data) => m = n
        /\ ~is_all_zero(ReadBlock(Orig, b).data) => m = n + 1
    BY <1>6, FullStep DEF CInv
  <2>3. w[p].cursor = Start + Bs * n
    BY <1>3, <2>1
  <2> HIDE DEF n, m
  <2>4. CASE c = w[p].cursor /\ is_all_zero(ReadBlock(Orig, b).data)
    BY <2>2, <2>3, <2>4 DEF m
  <2>5. CASE c = w[p].cursor + Bs /\ ~is_all_zero(ReadBlock(Orig, b).data)
    <3>1. Bs * (n + 1) = Bs * n + Bs /\ Bs * n \in Nat
      BY <1>2, <2>2
    <3>2. c = Start + Bs * (n + 1)
      BY <1>2, <2>3, <2>5, <3>1
    <3> QED BY <2>2, <2>5, <3>2 DEF m
  <2> QED BY <2>1, <2>4, <2>5 DEF Took
<1>9. WriterOK(p)'
  <2>1. Full(blk[p])' = Full(b + 1)
    BY DEF Full, Took
  <2> QED BY <1>1, <1>2, <1>3, <1>4, <1>5, <1>6, <1>7, <1>8, <2>1 DEF WriterOK, Working, Took
<1> QED BY <1>1, <1>4, <1>5, <1>9 DEF Entry

\* One block: an error stops the copy, a block of zeros takes an entry, any
\* other also a payload behind the last.
LEMMA CopyBlockInv == ASSUME CInv, NEW p \in Procs, CopyBlock(p) PROVE CInv'
<1> DEFINE b == blk[p]
           read == ReadBlock(In(p), b)
           buf == [i \in 1..w[p].bs |-> read.data[i - 1]]
<1>1. /\ pc[p] = "blocks" /\ todo[p] = <<>> /\ inodes' = inodes /\ dir' = dir /\ past' = past
      /\ opts' = opts /\ fd' = fd /\ b < block_count(w[p].size, w[p].bs)
  BY DEF CopyBlock, At
<1>2. \/ /\ read.kind = "error" /\ pc' = [pc EXCEPT ![p] = "failed"]
         /\ todo' = todo /\ w' = w /\ blk' = blk
      \/ /\ read.kind # "error" /\ pc' = pc /\ blk' = [blk EXCEPT ![p] = b + 1]
         /\ \/ /\ Elided(read, opts[p].sparse) /\ todo' = todo
               /\ w' = [w EXCEPT ![p] = write_zero(w[p], b)]
            \/ /\ ~Elided(read, opts[p].sparse) /\ w' = [w EXCEPT ![p] = write_buf(w[p], b)]
               /\ todo' = [todo EXCEPT ![p] = write_payload_buf(slot_of(w[p], b), buf, 0)]
  BY DEF CopyBlock, Goto
<1>3. /\ DOMAIN inodes = Inodes /\ p \in Inodes /\ DOMAIN pc = Procs /\ DOMAIN fd = Procs
      /\ DOMAIN todo = Procs /\ DOMAIN w = Procs /\ DOMAIN blk = Procs
  BY DEF CInv, OldFiles, Domains, Inodes
<1> HIDE DEF read, buf
<1>4. OnlyOf(p) /\ Tidy(inodes'[p])
  <2>1. Tidy(inodes[p])
    BY DEF CInv, NewFiles
  <2> QED BY <1>1, <1>2, <1>3, <2>1 DEF OnlyOf, Own, Domains
<1>5. Orig' = Orig /\ In(p)' = In(p) /\ Faithful(In(p)) /\ Reads(p)'
  BY <1>1, <1>4, SourceStays
<1>6. /\ Bs \in 1..ChunkCells /\ Bs \in Nat \ {0} /\ Count \in Nat
      /\ BatLen \in Nat \ {0} /\ Start = 3 + BatLen
  BY Sizes DEF CInv
<1>7. Bs' = Bs /\ Count' = Count /\ Start' = Start /\ BatLen' = BatLen /\ Ratio' = Ratio
  BY <1>5, SameSizes
<1>8. WriterOK(p) /\ w[p].bs # 0
  BY <1>1 DEF CInv, Instance, WriterOK, Working
<1>9. /\ w[p] = [size |-> Size, bs |-> Bs, fixed |-> w[p].fixed, cursor |-> w[p].cursor, bat |-> w[p].bat]
      /\ w[p].cursor \in Nat /\ Start <= w[p].cursor /\ b \in 0..Count
  BY <1>8 DEF WriterOK
<1>10. w[p].size = Size /\ w[p].bs = Bs /\ ~w[p].fixed
  BY <1>8, WriterFields
<1>11. b \in 0..(Count - 1) /\ b \in Nat
  BY <1>1, <1>6, <1>9, <1>10 DEF Count
<1>12. Resting(p)
  BY AtRest DEF CopyBlock
<1>13. Framed(p)' /\ Len(File(p))' = w[p].cursor
  BY <1>1, <1>7, <1>12 DEF Resting, Framed, File
<1>14. CASE /\ read.kind = "error" /\ pc' = [pc EXCEPT ![p] = "failed"]
            /\ todo' = todo /\ w' = w /\ blk' = blk
  <2>1. pc'[p] = "failed" /\ todo'[p] = <<>>
    BY <1>1, <1>3, <1>14
  <2>2. WriterOK(p)'
    BY <1>1, <1>5, <1>8, <1>14, <2>1, WriterStays
  <2>3. Instance(p)'
    BY <2>1, <2>2 DEF Instance, Labels, Reads, Stage, Working
  <2> QED BY <1>1, <1>4, <2>3, StepInv DEF CInv, Directories
<1>15. CASE read.kind # "error" /\ pc' = pc /\ blk' = [blk EXCEPT ![p] = b + 1]
  <2>1. pc'[p] = "blocks" /\ blk'[p] = b + 1
    BY <1>1, <1>3, <1>15
  <2>2. read.data = ReadBlock(Orig, b).data
    BY <1>5, <1>11, <1>15 DEF Faithful, read
  <2>3. PICK n : n = b
    OBVIOUS
  <2>4. n \in 0..(Count - 1) /\ n = blk[p] /\ blk'[p] = n + 1 /\ read = ReadBlock(In(p), n) /\ n \in Nat
    BY <1>11, <2>1, <2>3 DEF read
  <2>5. CASE /\ Elided(read, opts[p].sparse) /\ todo' = todo
             /\ w' = [w EXCEPT ![p] = write_zero(w[p], b)]
    <3>1. is_all_zero(read.data)
      <4>1. BlockSizeOf(In(p)) = Bs
        BY <1>5 DEF Faithful
      <4>2. /\ read.data = [k \in 0..(Bs - 1) |-> read.data[k]]
            /\ read.kind = "absent" => \A k \in 0..(Bs - 1) : read.data[k] = Zero
        BY <4>1, BlockShape DEF read
      <4> QED BY <2>5, <4>2 DEF Elided, is_all_zero_aligned, is_all_zero
    <3>2. PICK bat, c : bat = set_payload_entry(w[p].bat, Ratio, b, ZeroEntry) /\ c = w[p].cursor
      OBVIOUS
    <3>3. w'[p] = [size |-> Size, bs |-> Bs, fixed |-> w[p].fixed, cursor |-> c, bat |-> bat]
      <4>1. w'[p] = [w[p] EXCEPT !.bat = bat]
        BY <1>3, <1>10, <2>5, <3>2 DEF write_zero, Ratio
      <4>2. PICK r, bs, fixed, old : r = w[p] /\ bs = Bs /\ fixed = w[p].fixed /\ old = w[p].bat
        OBVIOUS
      <4>3. r = [size |-> Size, bs |-> bs, fixed |-> fixed, cursor |-> c, bat |-> old]
        BY <1>9, <3>2, <4>2
      <4>4. [r EXCEPT !.bat = bat] = [size |-> Size, bs |-> bs, fixed |-> fixed, cursor |-> c, bat |-> bat]
        BY <4>3
      <4> QED BY <4>1, <4>2, <4>4
    <3>4. /\ WriterOK(p)' /\ Entry(p, n)' = ZeroEntry
          /\ \A a \in 0..(Count - 1) : a # n => Entry(p, a)' = Entry(p, a)
      <4>1. is_all_zero(ReadBlock(Orig, n).data)
        BY <2>2, <2>3, <3>1
      <4>2. /\ opts'[p] = opts[p] /\ bat = set_payload_entry(w[p].bat, Ratio, n, ZeroEntry)
            /\ c = w[p].cursor /\ is_all_zero(ReadBlock(Orig, n).data)
            /\ pc[p] = "blocks" /\ pc'[p] = "blocks" /\ Orig' = Orig
            /\ n \in 0..(Count - 1) /\ n = blk[p] /\ blk'[p] = n + 1
        BY <1>1, <1>5, <2>1, <2>3, <2>4, <3>2, <4>1
      <4> HIDE DEF b
      <4>3. Took(p, n, ZeroEntry, c)
        BY <3>3, <4>2 DEF Took
      <4> QED BY <1>5, <4>3, NextBlock
    <3>5. w'[p].cursor = w[p].cursor
      BY <3>2, <3>3
    <3>6. ASSUME NEW a \in 0..(blk'[p] - 1) PROVE Copied(p, a, w[p].cursor)'
      <4>1. CASE a = n
        BY <1>5, <1>15, <2>4, <3>1, <3>4, <4>1 DEF Copied
      <4>2. CASE a # n
        <5>1. a \in 0..(n - 1) /\ a \in 0..(Count - 1)
          BY <1>6, <2>4, <4>2
        <5>2. Copied(p, a, w[p].cursor)
          BY <1>12, <2>4, <5>1 DEF Resting
        <5>3. Entry(p, a)' = Entry(p, a) /\ File(p)' = File(p)
          BY <1>1, <3>4, <4>2, <5>1 DEF File
        <5> QED BY <1>5, <1>7, <3>5, <5>2, <5>3 DEF Copied
      <4> QED BY <4>1, <4>2
    <3>7. Resting(p)'
      <4>1. todo'[p] = <<>>
        BY <1>1, <2>5
      <4> QED BY <1>13, <3>5, <3>6, <4>1 DEF Resting, Copied, Entry, File
    <3>8. Instance(p)'
      BY <1>5, <2>1, <3>4, <3>7 DEF Instance, Labels, Stage
    <3> QED BY <1>1, <1>4, <3>8, StepInv DEF CInv, Directories
  <2>6. CASE /\ ~Elided(read, opts[p].sparse) /\ w' = [w EXCEPT ![p] = write_buf(w[p], b)]
             /\ todo' = [todo EXCEPT ![p] = write_payload_buf(slot_of(w[p], b), buf, 0)]
    <3>1. opts[p].sparse => ~is_all_zero(read.data)
      BY <2>6 DEF Elided, is_all_zero_aligned
    <3>2. PICK bat, c, e : /\ bat = set_payload_entry(w[p].bat, Ratio, b, FullEntry(w[p].cursor))
                           /\ c = w[p].cursor + Bs /\ e = FullEntry(w[p].cursor)
      OBVIOUS
    <3>3. w'[p] = [size |-> Size, bs |-> Bs, fixed |-> w[p].fixed, cursor |-> c, bat |-> bat]
      <4>1. w'[p] = [w[p] EXCEPT !.bat = bat, !.cursor = c]
        BY <1>3, <1>10, <2>6, <3>2 DEF write_buf, Ratio
      <4>2. PICK r, bs, fixed, old, off : /\ r = w[p] /\ bs = Bs /\ fixed = w[p].fixed
                                          /\ old = w[p].bat /\ off = w[p].cursor
        OBVIOUS
      <4>3. r = [size |-> Size, bs |-> bs, fixed |-> fixed, cursor |-> off, bat |-> old]
        BY <1>9, <4>2
      <4>4. PICK s : s = [r EXCEPT !.bat = bat]
        OBVIOUS
      <4>5. s = [size |-> Size, bs |-> bs, fixed |-> fixed, cursor |-> off, bat |-> bat]
        BY <4>3, <4>4
      <4>6. [s EXCEPT !.cursor = c] = [size |-> Size, bs |-> bs, fixed |-> fixed, cursor |-> c, bat |-> bat]
        BY <4>5
      <4>7. [r EXCEPT !.bat = bat, !.cursor = c] = [s EXCEPT !.cursor = c]
        BY <4>4
      <4> QED BY <4>1, <4>2, <4>6, <4>7
    <3>4. /\ WriterOK(p)' /\ Entry(p, n)' = e
          /\ \A a \in 0..(Count - 1) : a # n => Entry(p, a)' = Entry(p, a)
      <4>1. opts[p].sparse => ~is_all_zero(ReadBlock(Orig, n).data)
        BY <2>2, <2>3, <3>1
      <4>2. /\ opts'[p] = opts[p] /\ bat = set_payload_entry(w[p].bat, Ratio, n, e)
            /\ c = w[p].cursor + Bs
            /\ pc[p] = "blocks" /\ pc'[p] = "blocks" /\ Orig' = Orig
            /\ n \in 0..(Count - 1) /\ n = blk[p] /\ blk'[p] = n + 1
        BY <1>1, <1>5, <2>1, <2>3, <2>4, <3>2
      <4> HIDE DEF b
      <4>3. Took(p, n, e, c)
        BY <3>3, <4>1, <4>2 DEF Took
      <4> QED BY <1>5, <4>3, NextBlock
    <3>5. w'[p].cursor = w[p].cursor + Bs /\ w'[p].cursor - Bs = w[p].cursor
      BY <1>6, <1>9, <3>2, <3>3
    <3>6. Rest(todo'[p], write_all_at(w[p].cursor, buf), 0)
      <4>1. buf = [i \in 1..Bs |-> buf[i]]
        BY <1>10 DEF buf
      <4>2. Listed(write_all_at(w[p].cursor, buf))
        BY <1>6, <4>1, FcnListed, WriteCalls
      <4>3. todo'[p] = write_all_at(w[p].cursor, buf)
        BY <1>3, <1>10, <2>6 DEF write_payload_buf, slot_of
      <4> QED BY <4>2, <4>3, RestAll
    <3>7. buf = [i \in 1..Bs |-> read.data[i - 1]]
      BY <1>10 DEF buf
    <3>8. PICK l : l = w[p].cursor
      OBVIOUS
    <3>9. ASSUME NEW a \in 0..(n - 1) PROVE Copied(p, a, l)'
      <4>1. a \in 0..(Count - 1) /\ a # n
        BY <1>6, <2>4
      <4>2. Copied(p, a, l)
        BY <1>12, <2>4, <3>8 DEF Resting, Copied
      <4>3. Entry(p, a)' = Entry(p, a) /\ File(p)' = File(p)
        BY <1>1, <3>4, <4>1 DEF File
      <4> QED BY <1>5, <1>7, <4>2, <4>3 DEF Copied
    <3>10. Putting(p, 0)'
      <4>1. l \in Nat /\ w'[p].cursor - Bs' = l /\ Start' <= l /\ blk'[p] - 1 = n /\ blk'[p] - 2 = n - 1
            /\ blk'[p] > 0
        BY <1>7, <1>9, <2>4, <3>5, <3>8
      <4>2. ReadBlock(In(p), blk[p] - 1)' = read /\ read.kind # "error"
        BY <1>5, <1>15, <2>4, <4>1
      <4>3. Rest(todo[p], write_all_at(w[p].cursor - Bs,
                            [i \in 1..Bs |-> ReadBlock(In(p), blk[p] - 1).data[i - 1]]), 0)'
        <5>1. [i \in 1..Bs |-> ReadBlock(In(p), blk[p] - 1).data[i - 1]]' = buf
          BY <1>7, <3>7, <4>2
        <5> QED BY <3>6, <3>8, <4>1, <5>1
      <4>4. Framed(p)' /\ Len(File(p))' = l + 0 /\ ~\E k : k \in 0..(0 - 1)
        BY <1>13, <3>8, <4>1
      <4>5. Entry(p, blk[p] - 1)' = FullEntry(l)
        BY <3>2, <3>4, <3>8, <4>1 DEF Entry
      <4>6. \A a \in 0..(blk'[p] - 2) : Copied(p, a, w[p].cursor - Bs)'
        BY <3>9, <4>1 DEF Copied
      <4> HIDE DEF b
      <4> QED BY <4>1, <4>2, <4>3, <4>4, <4>5, <4>6 DEF Putting
    <3>11. Instance(p)'
      BY <1>5, <1>6, <1>7, <2>1, <3>4, <3>10 DEF Instance, Labels, Stage
    <3> QED BY <1>1, <1>4, <3>11, StepInv DEF CInv, Directories
  <2> QED BY <1>2, <1>15, <2>5, <2>6
<1> QED BY <1>2, <1>14, <1>15

\* A call on the file, whichever it is.
LEMMA CallStep ==
    ASSUME CInv, NEW p \in Procs, Call(p)
    PROVE  /\ todo[p] # <<>> /\ pc[p] \in {"blocks", "rename"} /\ pc'[p] = pc[p] /\ w'[p] = w[p]
           /\ blk'[p] = blk[p] /\ todo'[p] = Tail(todo[p])
           /\ inodes'[p] = After(Head(todo[p]), inodes[p]) /\ Tidy(inodes[p])
           /\ w[p].size = Size /\ w[p].bs = Bs /\ ~w[p].fixed /\ WriterOK(p) /\ w[p].bs # 0
           /\ Tidy(inodes'[p]) => /\ Orig' = Orig /\ In(p)' = In(p) /\ Faithful(In(p))
                                  /\ Bs' = Bs /\ Count' = Count /\ Start' = Start
                                  /\ BatLen' = BatLen /\ Ratio' = Ratio
                                  /\ Stage(p)' => CInv'
<1>1. /\ todo[p] # <<>> /\ inodes' = [inodes EXCEPT ![p] = After(Head(todo[p]), inodes[p])]
      /\ todo' = [todo EXCEPT ![p] = Tail(todo[p])]
      /\ dir' = dir /\ past' = past /\ opts' = opts /\ pc' = pc /\ fd' = fd /\ w' = w /\ blk' = blk
  BY DEF Call
<1>2. /\ DOMAIN inodes = Inodes /\ p \in Inodes /\ DOMAIN pc = Procs /\ DOMAIN fd = Procs
      /\ DOMAIN todo = Procs /\ DOMAIN w = Procs /\ DOMAIN blk = Procs
  BY DEF CInv, OldFiles, Domains, Inodes
<1>3. pc[p] \in {"blocks", "rename"}
  BY <1>1 DEF CInv, Instance
<1>4. WriterOK(p) /\ w[p].bs # 0 /\ Tidy(inodes[p])
  BY <1>3 DEF CInv, NewFiles, Instance, WriterOK, Working
<1>5. todo'[p] = Tail(todo[p]) /\ inodes'[p] = After(Head(todo[p]), inodes[p])
  BY <1>1, <1>2
<1>6. OnlyOf(p)
  BY <1>1, <1>2 DEF OnlyOf, Own, Domains
<1>7. ASSUME Tidy(inodes'[p])
      PROVE  /\ Orig' = Orig /\ In(p)' = In(p) /\ Faithful(In(p))
             /\ Bs' = Bs /\ Count' = Count /\ Start' = Start /\ BatLen' = BatLen /\ Ratio' = Ratio
             /\ Stage(p)' => CInv'
  <2>1. Orig' = Orig /\ In(p)' = In(p) /\ Faithful(In(p)) /\ Reads(p)'
    BY <1>1, <1>3, <1>6, <1>7, SourceStays
  <2>2. WriterOK(p)'
    BY <1>1, <1>4, <2>1, WriterStays
  <2>3. Stage(p)' => Instance(p)'
    BY <1>1, <1>3, <2>1, <2>2 DEF Instance, Labels
  <2>4. Stage(p)' => CInv'
    BY <1>1, <1>3, <1>6, <1>7, <2>3, StepInv DEF CInv, Directories
  <2> QED BY <2>1, <2>4, SameSizes
<1> QED BY <1>1, <1>3, <1>4, <1>5, <1>7, WriterFields

\* A call of create.
LEMMA CreateCallInv ==
    ASSUME CInv, NEW p \in Procs, Call(p), pc[p] = "blocks", NEW j \in 0..(Start + 2), Creating(p, j)
    PROVE  CInv'
<1> DEFINE L == create(w[p])
           f == inodes[p]
           g == inodes'[p]
           head == HeadCell(metadata_offset, bat_offset, BatLen)
           meta == MetaCell(Size, Bs)
<1>1. /\ todo[p] # <<>> /\ pc'[p] = "blocks" /\ w'[p] = w[p] /\ blk'[p] = blk[p]
      /\ todo'[p] = Tail(todo[p]) /\ g = After(Head(todo[p]), f) /\ Tidy(f)
      /\ w[p].size = Size /\ w[p].bs = Bs /\ ~w[p].fixed
  BY CallStep
<1>2. /\ Bs \in 1..ChunkCells /\ BatLen \in Nat \ {0} /\ Start = 3 + BatLen
  BY Sizes DEF CInv
<1>3. /\ Rest(todo[p], L, j) /\ blk[p] = 0 /\ w[p].cursor = Start
      /\ j > 0 => Len(f.cells) = IF j <= Start + 1 THEN j - 1 ELSE Start
      /\ j > 3 => f.cells[3] = meta
      /\ j > Start + 1 => f.cells[1] = head /\ f.cells[3] = meta
  BY DEF Creating, Framed, File
<1>4. /\ Len(L) = Start + 3 /\ L[1] = Truncate
      /\ \A k \in 1..Start : L[k + 1] = Write(k - 1, L[k + 1][3])
      /\ L[4] = Write(2, meta) /\ L[Start + 2] = Write(0, head) /\ L[Start + 3] = SetLen(Start)
  <2> DEFINE s == payload_start(Size, Bs)
  <2>1. w[p].cursor = payload_start(Size, Bs)
    BY <1>3 DEF Start
  <2>2. /\ Len(L) = s + 3 /\ L[1] = Truncate
        /\ \A k \in 1..s : L[k + 1] = Write(k - 1, L[k + 1][3])
        /\ L[4] = Write(2, MetaCell(Size, Bs))
        /\ L[s + 2] = Write(0, HeadCell(metadata_offset, bat_offset, bat_length(Size, Bs)))
        /\ L[s + 3] = SetLen(s)
    BY <1>1, <1>2, <2>1, CreateCalls, CompactAssumption
  <2> QED BY <2>2 DEF Start, BatLen
<1>5. /\ j \in Nat /\ j < Start + 3 /\ Head(todo[p]) = L[j + 1] /\ Rest(Tail(todo[p]), L, j + 1)
      /\ Tail(todo[p]) = <<>> <=> j + 1 = Start + 3
  <2>1. j \in Nat /\ Len(L) \in Nat
    BY <1>2, <1>4
  <2> HIDE DEF L
  <2>2. /\ j < Len(L) /\ Head(todo[p]) = L[j + 1] /\ Rest(Tail(todo[p]), L, j + 1)
        /\ Tail(todo[p]) = <<>> <=> j + 1 = Len(L)
    BY <1>1, <1>3, <2>1, RestStep
  <2> QED BY <1>4, <2>1, <2>2
<1> HIDE DEF L, f, g, head, meta
<1>6. CASE j = 0
  <2>1. g = EmptyFile /\ Tidy(g) /\ Len(g.cells) = 0
    BY <1>1, <1>4, <1>5, <1>6, AfterOther
  <2>2. Start' = Start /\ (Stage(p)' => CInv')
    BY <2>1, CallStep DEF g
  <2>3. Creating(p, 1)'
    <3>1. ~(1 > 3) /\ ~(1 > Start' + 1) /\ 1 <= Start' + 1 /\ Len(File(p))' = 1 - 1
      BY <1>2, <2>1, <2>2 DEF g, File
    <3>2. Rest(todo'[p], create(w'[p]), 1)
      BY <1>1, <1>5, <1>6 DEF L
    <3> QED BY <1>1, <1>3, <2>2, <3>1, <3>2 DEF Creating
  <2>4. 1 \in 0..(Start' + 2)
    BY <1>2, <2>2
  <2>5. Stage(p)'
    BY <1>1, <2>3, <2>4 DEF Stage
  <2> QED BY <2>2, <2>5
<1>7. CASE j \in 1..Start
  <2>1. PICK c : L[j + 1] = Write(j - 1, c)
    BY <1>4, <1>7
  <2>2. j - 1 = Len(f.cells) /\ j - 1 \in 0..Len(f.cells) /\ (j - 1) + 1 = j
    BY <1>3, <1>7
  <2>3. /\ Tidy(g) /\ Len(g.cells) = j /\ g.cells[j] = c
        /\ \A i \in 1..Len(f.cells) : i # j => g.cells[i] = f.cells[i]
    <3>1. g = After(Write(j - 1, c), f)
      BY <1>1, <1>5, <2>1
    <3> QED BY <1>1, <2>2, <3>1, AfterWrite
  <2>4. Start' = Start /\ Bs' = Bs /\ (Stage(p)' => CInv')
    BY <2>3, CallStep DEF g
  <2>5. j + 1 > 3 => g.cells[3] = meta
    <3>1. CASE j = 3
      <4>1. c = meta
        <5>1. L[4] = Write(2, c)
          BY <2>1, <3>1
        <5> QED BY <1>4, <5>1, Kinds
      <4> QED BY <2>3, <3>1, <4>1
    <3>2. CASE j > 3
      <4>1. 3 \in 1..Len(f.cells) /\ 3 # j
        BY <1>7, <2>2, <3>2
      <4> QED BY <1>3, <2>3, <3>2, <4>1
    <3> QED BY <1>7, <3>1, <3>2
  <2>6. Creating(p, j + 1)'
    <3>1. ~(j + 1 > Start' + 1) /\ j + 1 <= Start' + 1 /\ Len(File(p))' = (j + 1) - 1
      BY <1>2, <1>7, <2>3, <2>4 DEF g, File
    <3>2. Rest(todo'[p], create(w'[p]), j + 1)
      BY <1>1, <1>5 DEF L
    <3>3. j + 1 > 3 => File(p)'[3] = MetaCell(Size, Bs')
      BY <2>4, <2>5 DEF g, meta, File
    <3> QED BY <1>1, <1>3, <2>4, <3>1, <3>2, <3>3 DEF Creating
  <2>7. j + 1 \in 0..(Start' + 2)
    BY <1>2, <1>7, <2>4
  <2>8. Stage(p)'
    BY <1>1, <2>6, <2>7 DEF Stage
  <2> QED BY <2>4, <2>8
<1>8. CASE j = Start + 1
  <2>1. Len(f.cells) = Start /\ 0 \in 0..Len(f.cells) /\ f.cells[3] = meta /\ 0 # Len(f.cells)
    BY <1>2, <1>3, <1>8
  <2>2. /\ Tidy(g) /\ Len(g.cells) = Start /\ g.cells[1] = head /\ g.cells[3] = meta
    <3>1. g = After(Write(0, head), f)
      BY <1>1, <1>2, <1>4, <1>5, <1>8
    <3>2. /\ Tidy(g) /\ Len(g.cells) = Start /\ g.cells[0 + 1] = head
          /\ \A i \in 1..Len(f.cells) : i # 0 + 1 => g.cells[i] = f.cells[i]
      BY <1>1, <2>1, <3>1, AfterWrite
    <3>3. 3 \in 1..Len(f.cells) /\ 3 # 0 + 1
      BY <1>2, <2>1
    <3> QED BY <2>1, <3>2, <3>3
  <2>3. Start' = Start /\ Bs' = Bs /\ BatLen' = BatLen /\ (Stage(p)' => CInv')
    BY <2>2, CallStep DEF g
  <2>4. Creating(p, j + 1)'
    <3>1. ~(j + 1 <= Start' + 1) /\ Len(File(p))' = Start'
      BY <1>2, <1>8, <2>2, <2>3 DEF g, File
    <3>2. Rest(todo'[p], create(w'[p]), j + 1)
      BY <1>1, <1>5 DEF L
    <3>3. Framed(p)' /\ File(p)'[3] = MetaCell(Size, Bs')
      BY <2>2, <2>3 DEF g, head, meta, Framed, File
    <3> QED BY <1>1, <1>3, <2>3, <3>1, <3>2, <3>3 DEF Creating
  <2>5. j + 1 \in 0..(Start' + 2)
    BY <1>2, <1>8, <2>3
  <2>6. Stage(p)'
    BY <1>1, <2>4, <2>5 DEF Stage
  <2> QED BY <2>3, <2>6
<1>9. CASE j = Start + 2
  <2>1. Len(f.cells) = Start /\ f.cells[1] = head /\ f.cells[3] = meta
    BY <1>2, <1>3, <1>9
  <2>2. Tidy(g) /\ g.cells = f.cells
    <3>1. g = After(SetLen(Len(f.cells)), f)
      BY <1>1, <1>2, <1>4, <1>5, <1>9, <2>1
    <3> QED BY <1>1, <3>1, AfterOther
  <2>3. Start' = Start /\ Bs' = Bs /\ BatLen' = BatLen /\ (Stage(p)' => CInv')
    BY <2>2, CallStep DEF g
  <2>4. Resting(p)'
    <3>1. todo'[p] = <<>>
      BY <1>1, <1>2, <1>5, <1>9
    <3>2. Framed(p)' /\ Len(File(p))' = w'[p].cursor
      BY <1>1, <1>3, <2>1, <2>2, <2>3 DEF g, head, meta, Framed, File
    <3>3. ~\E b : b \in 0..(blk'[p] - 1)
      BY <1>1, <1>3
    <3> QED BY <3>1, <3>2, <3>3 DEF Resting
  <2>5. Stage(p)'
    BY <1>1, <2>4 DEF Stage
  <2> QED BY <2>3, <2>5
<1> QED BY <1>2, <1>6, <1>7, <1>8, <1>9

\* A call that writes a cell of a block.
LEMMA PutCallInv ==
    ASSUME CInv, NEW p \in Procs, Call(p), pc[p] = "blocks", NEW j \in 0..(Bs - 1), Putting(p, j)
    PROVE  CInv'
<1> DEFINE off == w[p].cursor - Bs
           read == ReadBlock(In(p), blk[p] - 1)
           buf == [i \in 1..Bs |-> read.data[i - 1]]
           L == write_all_at(off, buf)
           f == inodes[p]
           g == inodes'[p]
<1>1. /\ todo[p] # <<>> /\ pc'[p] = "blocks" /\ w'[p] = w[p] /\ blk'[p] = blk[p]
      /\ todo'[p] = Tail(todo[p]) /\ g = After(Head(todo[p]), f) /\ Tidy(f) /\ WriterOK(p) /\ w[p].bs # 0
  BY CallStep
<1>2. Bs \in Nat \ {0} /\ BatLen \in Nat \ {0} /\ Start = 3 + BatLen /\ j \in Nat /\ Count \in Nat
  BY Sizes DEF CInv
<1>3. /\ blk[p] > 0 /\ Start <= off /\ Rest(todo[p], L, j)
      /\ Framed(p) /\ Len(f.cells) = off + j
      /\ \A b \in 0..(blk[p] - 2) : Copied(p, b, off)
      /\ read.kind # "error" /\ Entry(p, blk[p] - 1) = FullEntry(off)
      /\ \A k \in 0..(j - 1) : f.cells[off + k + 1] = read.data[k]
  BY DEF Putting, File
<1>4. w[p].cursor \in Nat /\ off \in Nat /\ blk[p] \in 0..Count
  <2>1. w[p].cursor \in Nat /\ blk[p] \in 0..Count
    BY <1>1 DEF WriterOK
  <2> QED BY <1>2, <1>3, <2>1
<1>5. Len(buf) = Bs /\ buf[j + 1] = read.data[j]
  <2>1. j + 1 \in 1..Bs /\ (j + 1) - 1 = j
    BY <1>2
  <2>2. buf = [i \in 1..Bs |-> buf[i]] /\ buf[j + 1] = read.data[j]
    BY <2>1
  <2> HIDE DEF buf
  <2> QED BY <1>2, <2>2, FcnListed
<1>6. Len(L) = Bs /\ L[j + 1] = Write(off + j, read.data[j])
  <2> HIDE DEF buf, off
  <2>1. Len(L) = Bs /\ L[j + 1] = Write(off + (j + 1) - 1, buf[j + 1])
    BY <1>2, <1>5, WriteCalls
  <2>2. off + (j + 1) - 1 = off + j
    BY <1>2, <1>4
  <2> QED BY <1>5, <2>1, <2>2
<1>7. /\ Head(todo[p]) = L[j + 1] /\ Rest(Tail(todo[p]), L, j + 1)
      /\ Tail(todo[p]) = <<>> <=> j + 1 = Bs
  <2>1. Len(L) \in Nat
    BY <1>2, <1>6
  <2> HIDE DEF L
  <2>2. /\ Head(todo[p]) = L[j + 1] /\ Rest(Tail(todo[p]), L, j + 1)
        /\ Tail(todo[p]) = <<>> <=> j + 1 = Len(L)
    BY <1>1, <1>2, <1>3, <2>1, RestStep
  <2> QED BY <1>6, <2>2
<1> HIDE DEF L, f, g, read, buf, off
<1>8. /\ Tidy(g) /\ Len(g.cells) = off + j + 1 /\ g.cells[off + j + 1] = read.data[j]
      /\ \A i \in 1..(off + j) : g.cells[i] = f.cells[i]
  <2>1. off + j \in 0..Len(f.cells) /\ off + j = Len(f.cells)
    BY <1>2, <1>3, <1>4
  <2>2. g = After(Write(off + j, read.data[j]), f)
    BY <1>1, <1>6, <1>7
  <2>3. /\ Tidy(g) /\ Len(g.cells) = off + j + 1 /\ g.cells[off + j + 1] = read.data[j]
        /\ \A i \in 1..Len(f.cells) : i # off + j + 1 => g.cells[i] = f.cells[i]
    BY <1>1, <2>1, <2>2, AfterWrite
  <2> QED BY <1>2, <1>4, <2>1, <2>3
<1>9. /\ Orig' = Orig /\ In(p)' = In(p) /\ Bs' = Bs /\ Count' = Count /\ Start' = Start
      /\ BatLen' = BatLen /\ Ratio' = Ratio /\ (Stage(p)' => CInv')
  BY <1>8, CallStep DEF g
<1>10. Framed(p)'
  <2>1. 1 \in 1..(off + j) /\ 3 \in 1..(off + j)
    BY <1>2, <1>3, <1>4
  <2> QED BY <1>3, <1>8, <1>9, <2>1 DEF Framed, File, f, g
<1>11. \A b : Entry(p, b)' = Entry(p, b)
  BY <1>1, <1>9 DEF Entry
<1>12. PICK l, n : l = off /\ n = blk[p] - 1
  OBVIOUS
<1>13. ASSUME NEW b \in 0..(n - 1), NEW more \in Nat, l <= more PROVE Copied(p, b, more)'
  <2>1. Copied(p, b, l)
    <3>1. b \in 0..(blk[p] - 2)
      BY <1>4, <1>12
    <3> QED BY <1>3, <1>12, <3>1 DEF Copied
  <2>2. \A i \in (Start + 1)..l : File(p)'[i] = File(p)[i]
    <3>1. \A i \in (Start + 1)..l : i \in 1..(off + j)
      BY <1>2, <1>3, <1>4, <1>12
    <3> QED BY <1>8, <3>1 DEF File, f, g
  <2>3. Start \in Nat /\ l \in Nat /\ Bs \in Nat
    BY <1>2, <1>4, <1>12
  <2> QED BY <1>9, <1>11, <1>13, <2>1, <2>2, <2>3, CopiedStays
<1>14. \A k \in 0..j : File(p)'[off + k + 1] = read.data[k]
  <2>1. ASSUME NEW k \in 0..j PROVE g.cells[off + k + 1] = read.data[k]
    <3>1. CASE k = j
      BY <1>8, <3>1
    <3>2. CASE k # j
      <4>1. k \in 0..(j - 1) /\ off + k + 1 \in 1..(off + j)
        BY <1>2, <1>4, <3>2
      <4> QED BY <1>3, <1>8, <4>1
    <3> QED BY <3>1, <3>2
  <2> QED BY <2>1 DEF g, File
<1>15. ReadBlock(In(p), blk[p] - 1)' = read
  BY <1>1, <1>9 DEF read
<1>16. (w[p].cursor - Bs)' = off
  BY <1>1, <1>9 DEF off
<1>17. CASE j + 1 # Bs
  <2>1. Rest(todo[p], write_all_at(w[p].cursor - Bs,
               [i \in 1..Bs |-> ReadBlock(In(p), blk[p] - 1).data[i - 1]]), j + 1)'
    <3>1. [i \in 1..Bs |-> ReadBlock(In(p), blk[p] - 1).data[i - 1]]' = buf
      BY <1>9, <1>15 DEF buf
    <3> QED BY <1>1, <1>7, <1>16, <3>1 DEF L
  <2>2. Len(File(p))' = off + (j + 1) /\ blk'[p] > 0 /\ Start' <= off
    BY <1>1, <1>2, <1>3, <1>4, <1>8, <1>9 DEF g, File
  <2>3. \A b \in 0..(blk'[p] - 2) : Copied(p, b, w[p].cursor - Bs)'
    <3>1. \A b \in 0..(blk'[p] - 2) : b \in 0..(n - 1)
      BY <1>1, <1>4, <1>12
    <3>2. l \in Nat /\ l <= l
      BY <1>4, <1>12
    <3>3. \A b \in 0..(n - 1) : Copied(p, b, l)'
      BY <1>13, <3>2
    <3> QED BY <1>12, <1>16, <3>1, <3>3 DEF Copied
  <2>4. Entry(p, blk[p] - 1)' = FullEntry(off)
    BY <1>1, <1>3, <1>9 DEF Entry
  <2>5. \A k \in 0..((j + 1) - 1) : File(p)'[off + k + 1] = read.data[k]
    BY <1>2, <1>14
  <2>6. Putting(p, j + 1)'
    BY <1>3, <1>10, <1>15, <1>16, <2>1, <2>2, <2>3, <2>4, <2>5 DEF Putting
  <2>7. j + 1 \in 0..(Bs' - 1)
    BY <1>2, <1>9, <1>17
  <2>8. Stage(p)'
    BY <1>1, <2>6, <2>7 DEF Stage
  <2> QED BY <1>9, <2>8
<1>18. CASE j + 1 = Bs
  <2>1. w[p].cursor = off + Bs /\ w'[p].cursor = off + Bs /\ off <= off + Bs /\ off + Bs \in Nat
    BY <1>1, <1>2, <1>4 DEF off
  <2>2. Len(File(p))' = w'[p].cursor /\ todo'[p] = <<>>
    <3>1. off + j + 1 = off + Bs
      BY <1>2, <1>4, <1>18
    <3> QED BY <1>1, <1>7, <1>8, <1>18, <2>1, <3>1 DEF g, File
  <2>3. PICK m : m = off + Bs
    OBVIOUS
  <2>4. ASSUME NEW b \in 0..(blk'[p] - 1) PROVE Copied(p, b, m)'
    <3>1. CASE b = n
      <4>1. Entry(p, b)' = FullEntry(l) /\ ReadBlock(In(p), b)' = read /\ read.kind # "error"
        <5>1. Entry(p, b) = FullEntry(l)
          BY <1>3, <1>12, <3>1 DEF Entry
        <5> QED BY <1>3, <1>9, <1>11, <1>12, <3>1, <5>1 DEF read
      <4>2. PICK e : e = FullEntry(l)
        OBVIOUS
      <4>3. e.state = "full" /\ e.off = l /\ l \in Nat /\ Start' <= l /\ l + Bs' <= m
        BY <1>2, <1>3, <1>4, <1>9, <1>12, <2>1, <2>3, <4>2 DEF FullEntry
      <4>4. \A k \in 0..(Bs' - 1) : File(p)'[l + k + 1] = read.data[k]
        BY <1>2, <1>9, <1>12, <1>14, <1>18
      <4> QED BY <4>1, <4>2, <4>3, <4>4 DEF Copied
    <3>2. CASE b # n
      <4>1. b \in 0..(n - 1) /\ m \in Nat /\ l <= m
        BY <1>1, <1>4, <1>12, <2>1, <2>3, <3>2
      <4> QED BY <1>13, <4>1
    <3> QED BY <3>1, <3>2
  <2>5. Resting(p)'
    BY <1>10, <2>1, <2>2, <2>3, <2>4 DEF Resting, Copied
  <2>6. Stage(p)'
    BY <1>1, <2>5 DEF Stage
  <2> QED BY <1>9, <2>6
<1> QED BY <1>17, <1>18

\* A call of finish.
LEMMA FinishCallInv ==
    ASSUME CInv, NEW p \in Procs, Call(p), pc[p] = "rename", NEW j \in 0..(BatLen + 2), Finishing(p, j)
    PROVE  CInv'
<1> DEFINE L == finish(w[p])
           table == encode(w[p].bat, BatLen)
           f == inodes[p]
           g == inodes'[p]
<1>1. /\ todo[p] # <<>> /\ pc'[p] = "rename" /\ w'[p] = w[p] /\ blk'[p] = blk[p]
      /\ todo'[p] = Tail(todo[p]) /\ g = After(Head(todo[p]), f) /\ Tidy(f) /\ WriterOK(p) /\ w[p].bs # 0
      /\ w[p].size = Size /\ w[p].bs = Bs /\ ~w[p].fixed
  BY CallStep
<1>2. /\ Bs \in 1..ChunkCells /\ Bs \in Nat /\ BatLen \in Nat \ {0} /\ Start = 3 + BatLen /\ j \in Nat
      /\ Count \in Nat /\ bat_offset = 3
  BY Sizes DEF CInv
<1>3. /\ Rest(todo[p], L, j) /\ blk[p] = Count /\ Framed(p) /\ Len(f.cells) = w[p].cursor
      /\ \A b \in 0..(Count - 1) : Copied(p, b, w[p].cursor)
      /\ \A c \in 1..BatLen : c <= j => f.cells[3 + c] = table[c]
  BY <1>2 DEF Finishing, File
<1>4. w[p].cursor \in Nat /\ Start <= w[p].cursor
  BY <1>1 DEF WriterOK
<1>5. /\ Len(L) = BatLen + 2 /\ \A c \in 1..BatLen : L[c] = Write(3 + c - 1, table[c])
      /\ L[BatLen + 1] = SetLen(w[p].cursor) /\ L[BatLen + 2] = Sync
  <2>1. w[p].size = Size /\ w[p].bs = Bs /\ ~w[p].fixed /\ Bs \in 1..ChunkCells /\ Size \in Nat
    BY <1>1, <1>2, CompactAssumption
  <2>2. /\ \A c \in 1..BatLen : L[c] = Write(bat_offset + c - 1, table[c])
        /\ Len(L) = BatLen + 2 /\ L[BatLen + 1] = SetLen(w[p].cursor) /\ L[BatLen + 2] = Sync
    BY <2>1, FinishCalls DEF BatLen
  <2> QED BY <1>2, <2>2
<1>6. /\ j < BatLen + 2 /\ Head(todo[p]) = L[j + 1] /\ Rest(Tail(todo[p]), L, j + 1)
  <2>1. Len(L) \in Nat
    BY <1>2, <1>5
  <2> HIDE DEF L
  <2>2. j < Len(L) /\ Head(todo[p]) = L[j + 1] /\ Rest(Tail(todo[p]), L, j + 1)
    BY <1>1, <1>2, <1>3, <2>1, RestStep
  <2> QED BY <1>5, <2>2
<1> HIDE DEF L, table, f, g
\* Whichever call it is, it leaves the headers and the payload alone.
<1>7. ASSUME Tidy(g), Len(g.cells) = Len(f.cells),
             \A i \in 1..Len(f.cells) : i <= 3 \/ i > Start => g.cells[i] = f.cells[i],
             \A c \in 1..BatLen : c <= j + 1 => g.cells[3 + c] = table[c],
             j + 1 = BatLen + 2 => g.dirty = {}
      PROVE  CInv'
  <2>1. /\ Orig' = Orig /\ In(p)' = In(p) /\ Bs' = Bs /\ Count' = Count /\ Start' = Start
        /\ BatLen' = BatLen /\ Ratio' = Ratio /\ (Stage(p)' => CInv')
    BY <1>7, CallStep DEF g
  <2>2. Framed(p)' /\ Len(File(p))' = w'[p].cursor
    <3>1. 1 \in 1..Len(f.cells) /\ 3 \in 1..Len(f.cells)
      BY <1>2, <1>3, <1>4
    <3>2. g.cells[1] = f.cells[1] /\ g.cells[3] = f.cells[3]
      BY <1>7, <3>1
    <3> QED BY <1>1, <1>3, <1>7, <2>1, <3>2 DEF Framed, File, f, g
  <2>3. PICK l : l = w[p].cursor
    OBVIOUS
  <2>4. ASSUME NEW b \in 0..(Count - 1) PROVE Copied(p, b, l)'
    <3>1. Copied(p, b, l)
      BY <1>3, <2>3 DEF Copied
    <3>2. Entry(p, b)' = Entry(p, b)
      BY <1>1, <2>1 DEF Entry
    <3>3. \A i \in (Start + 1)..l : File(p)'[i] = File(p)[i]
      <4>1. \A i \in (Start + 1)..l : i \in 1..Len(f.cells) /\ i > Start
        BY <1>2, <1>3, <1>4, <2>3
      <4> QED BY <1>7, <4>1 DEF File, f, g
    <3>4. l \in Nat /\ l <= l /\ Start \in Nat
      BY <1>2, <1>4, <2>3
    <3> QED BY <1>2, <2>1, <3>1, <3>2, <3>3, <3>4, CopiedStays
  <2>5. \A b \in 0..(Count' - 1) : Copied(p, b, w[p].cursor)'
    BY <1>1, <2>1, <2>3, <2>4 DEF Copied
  <2>6. Rest(todo[p], finish(w[p]), j + 1)'
    BY <1>1, <1>6 DEF L
  <2>7. \A c \in 1..BatLen' : c <= j + 1 => File(p)'[bat_offset + c] = encode(w'[p].bat, BatLen')[c]
    BY <1>1, <1>2, <1>7, <2>1 DEF table, g, File
  <2>8. j + 1 = BatLen' + 2 => inodes'[p].dirty = {}
    BY <1>7, <2>1 DEF g
  <2>9. blk'[p] = Count'
    BY <1>1, <1>3, <2>1
  <2>10. Finishing(p, j + 1)'
    BY <2>2, <2>5, <2>6, <2>7, <2>8, <2>9 DEF Finishing
  <2>11. j + 1 \in 0..(BatLen' + 2)
    BY <1>2, <1>6, <2>1
  <2>12. Stage(p)'
    BY <1>1, <2>10, <2>11 DEF Stage
  <2> QED BY <2>1, <2>12
<1>8. CASE j < BatLen
  <2>1. j + 1 \in 1..BatLen /\ 3 + (j + 1) - 1 = 3 + j /\ (3 + j) + 1 = 3 + (j + 1)
    BY <1>2, <1>8
  <2>2. g = After(Write(3 + j, table[j + 1]), f)
    BY <1>1, <1>5, <1>6, <2>1
  <2>3. 3 + j \in 0..Len(f.cells) /\ 3 + j # Len(f.cells)
    BY <1>2, <1>3, <1>4, <1>8
  <2>4. /\ Tidy(g) /\ Len(g.cells) = Len(f.cells) /\ g.cells[3 + (j + 1)] = table[j + 1]
        /\ \A i \in 1..Len(f.cells) : i # 3 + (j + 1) => g.cells[i] = f.cells[i]
    <3>1. PICK at : at = 3 + j
      OBVIOUS
    <3>2. at \in 0..Len(f.cells) /\ at # Len(f.cells) /\ g = After(Write(at, table[j + 1]), f)
          /\ at + 1 = 3 + (j + 1)
      BY <2>1, <2>2, <2>3, <3>1
    <3>3. /\ Tidy(g) /\ Len(g.cells) = Len(f.cells) /\ g.cells[at + 1] = table[j + 1]
          /\ \A i \in 1..Len(f.cells) : i # at + 1 => g.cells[i] = f.cells[i]
      <4>1. Tidy(f)
        BY <1>1
      <4> HIDE DEF f, g, table
      <4> QED BY <3>2, <4>1, AfterWrite
    <3> QED BY <3>2, <3>3
  <2>5. \A i \in 1..Len(f.cells) : i <= 3 \/ i > Start => g.cells[i] = f.cells[i]
    <3>1. \A i \in 1..Len(f.cells) : i <= 3 \/ i > Start => i # 3 + (j + 1)
      BY <1>2, <1>8
    <3> QED BY <2>4, <3>1
  <2>6. ASSUME NEW c \in 1..BatLen, c <= j + 1 PROVE g.cells[3 + c] = table[c]
    <3>1. CASE c = j + 1
      BY <2>4, <3>1
    <3>2. CASE c # j + 1
      <4>1. c <= j /\ 3 + c \in 1..Len(f.cells) /\ 3 + c # 3 + (j + 1)
        BY <1>2, <1>3, <1>4, <2>6, <3>2
      <4> QED BY <1>3, <2>4, <4>1
    <3> QED BY <3>1, <3>2
  <2>7. j + 1 # BatLen + 2
    BY <1>2, <1>8
  <2> QED BY <1>7, <2>4, <2>5, <2>6, <2>7
<1>9. CASE j = BatLen
  <2>1. Tidy(g) /\ g.cells = f.cells
    <3>1. g = After(SetLen(Len(f.cells)), f)
      BY <1>1, <1>3, <1>5, <1>6, <1>9
    <3> QED BY <1>1, <3>1, AfterOther
  <2>2. j + 1 # BatLen + 2 /\ \A c \in 1..BatLen : c <= j
    BY <1>2, <1>9
  <2> QED BY <1>3, <1>7, <2>1, <2>2
<1>10. CASE j = BatLen + 1
  <2>1. Tidy(g) /\ g.cells = f.cells /\ g.dirty = {}
    <3>1. j + 1 = BatLen + 2
      BY <1>2, <1>10
    <3>2. g = After(Sync, f)
      BY <1>1, <1>5, <1>6, <3>1
    <3> QED BY <1>1, <3>2, AfterSync
  <2>2. \A c \in 1..BatLen : c <= j
    BY <1>2, <1>10
  <2> QED BY <1>3, <1>7, <2>1, <2>2
<1> QED BY <1>2, <1>6, <1>8, <1>9, <1>10

-----------------------------------------------------------------------------
(* All of it.                                                              *)

\* CInv holds of every state that compact can reach.
THEOREM CompactInvariant == CSpec => []CInv
<1>1. CInit => CInv
  BY InitInv
<1>2. CInv /\ [CNext]_cvars => CInv'
  <2> SUFFICES ASSUME CInv, [CNext]_cvars PROVE CInv'
    OBVIOUS
  <2>1. ASSUME NEW p \in Procs, Call(p) PROVE CInv'
    <3>1. todo[p] # <<>> /\ pc[p] \in {"blocks", "rename"}
      BY <2>1, CallStep
    <3>2. Stage(p) /\ ~Resting(p)
      BY <3>1 DEF CInv, Instance, Resting
    <3>3. CASE pc[p] = "blocks"
      <4>1. \/ \E j \in 0..(Start + 2) : Creating(p, j)
            \/ \E j \in 0..(Bs - 1) : Putting(p, j)
        BY <3>2, <3>3 DEF Stage
      <4> QED BY <2>1, <3>3, <4>1, CreateCallInv, PutCallInv
    <3>4. CASE pc[p] = "rename"
      <4>1. \E j \in 0..(BatLen + 2) : Finishing(p, j)
        BY <3>2, <3>4 DEF Stage
      <4> QED BY <2>1, <3>4, <4>1, FinishCallInv
    <3> QED BY <3>1, <3>3, <3>4
  <2>2. ASSUME NEW p \in Procs, Step(p) PROVE CInv'
    BY <2>1, <2>2, OpenInv, MakeTempInv, CreateOutputInv, CopyBlockInv, FinishInv, RenameInv DEF Step
  <2>3. ASSUME NEW p \in Procs, Kill(p) PROVE CInv'
    BY <2>3, KillInv
  <2>4. CASE PowerLoss
    BY <2>4, PowerLossInv
  <2>5. CASE UNCHANGED cvars
    <3>1. /\ dir' = dir /\ past' = past /\ inodes' = inodes /\ opts' = opts /\ pc' = pc /\ fd' = fd
          /\ todo' = todo /\ w' = w /\ blk' = blk
      BY <2>5 DEF cvars
    <3>2. Orig' = Orig
      BY <3>1 DEF Orig
    <3>3. ASSUME NEW i, Settled(i) PROVE Settled(i)'
      <4>1. Whole(i)'
        BY <3>1, <3>2, <3>3, WholeStays DEF Settled
      <4> QED BY <3>1, <3>3, <4>1 DEF Settled
    <3>4. ASSUME NEW p \in Procs PROVE Instance(p)'
      <4>1. Own(p)' = Own(p) /\ In(p)' = In(p)
        BY <3>1 DEF Own, In
      <4>2. Settled(fd[p]) => Settled(fd[p])'
        <5>1. PICK i : i = fd[p]
          OBVIOUS
        <5>2. Settled(i) => Settled(i)'
          BY <3>3
        <5> QED BY <3>1, <5>1, <5>2 DEF Settled, Whole
      <4> QED BY <3>2, <4>1, <4>2, InstanceStays DEF CInv
    <3>5. Directories'
      <4>1. ASSUME NEW d \in past' PROVE GoodDir(d)'
        BY <3>1, <3>3, DirStays DEF CInv, Directories
      <4> QED BY <3>1, <4>1 DEF CInv, Directories
    <3>6. OldFiles' /\ NewFiles' /\ Domains'
      BY <3>1, <3>2 DEF CInv, OldFiles, NewFiles, Domains
    <3> QED BY <3>4, <3>5, <3>6 DEF CInv
  <2> QED BY <2>2, <2>3, <2>4, <2>5 DEF CNext
<1> QED BY <1>1, <1>2, PTL DEF CSpec

\* Names lead to files there are and the copy ends at the last block.
THEOREM CTypeCorrect == CSpec => []CTypeOK
<1>1. CInv => CTypeOK
  <2> SUFFICES ASSUME CInv PROVE CTypeOK
    OBVIOUS
  <2>1. dir \in [Names -> Inodes \cup {Nobody}] /\ dir \in past
    BY DEF CInv, Directories, GoodDir
  <2>2. ASSUME NEW p \in Procs
        PROVE  /\ pc[p] \in {"start", "temp", "create", "blocks", "rename", "done", "failed", "off"}
               /\ w[p].bs # 0 => blk[p] <= block_count(w[p].size, w[p].bs)
               /\ inodes[p].dirty \subseteq 1..Len(inodes[p].cells)
    <3>1. Instance(p) /\ Tidy(inodes[p])
      BY DEF CInv, NewFiles
    <3>2. ASSUME w[p].bs # 0 PROVE blk[p] <= block_count(w[p].size, w[p].bs)
      <4>1. w[p].size = Size /\ w[p].bs = Bs
        BY <3>1, <3>2, WriterFields DEF Instance
      <4>2. blk[p] \in 0..Count
        BY <3>1, <3>2 DEF Instance, WriterOK
      <4>3. Count \in Nat
        BY Sizes DEF CInv
      <4>4. blk[p] <= Count
        BY <4>2, <4>3
      <4> QED BY <4>1, <4>4 DEF Count
    <3> QED BY <3>1, <3>2 DEF Instance, Labels, Tidy
  <2> QED BY <2>1, <2>2 DEF CTypeOK
<1> QED BY <1>1, CompactInvariant, PTL

\* The input's name always leads to a file that reads like the original: after
\* any kill, after any power loss, with any number of instances at work.
THEOREM InputNeverLost == CSpec => []InputIntact
<1>1. CInv => InputIntact
  <2> SUFFICES ASSUME CInv PROVE InputIntact
    OBVIOUS
  <2>1. dir["input"] = "input" \/ Settled(dir["input"])
    BY DEF CInv, Directories, GoodDir
  <2>2. CASE dir["input"] = "input"
    BY <2>2, CompactAssumption DEF InputIntact, ReadsAsOriginal, Original
  <2>3. CASE Settled(dir["input"])
    <3>1. PICK i : i = dir["input"]
      OBVIOUS
    <3>2. Whole(i) /\ i \in Procs
      BY <2>3, <3>1 DEF Settled, Whole
    <3>3. ReadsAsOriginal(i)
      BY <3>2, ReadsSame DEF CInv
    <3> QED BY <3>1, <3>2, <3>3, CompactAssumption DEF InputIntact, ReadsAsOriginal
  <2> QED BY <2>1, <2>2, <2>3
<1> QED BY <1>1, CompactInvariant, PTL

\* The output's name never leads to part of a copy.
THEOREM OutputNeverPartial == CSpec => []OutputWhole
<1>1. CInv => OutputWhole
  <2> SUFFICES ASSUME CInv, dir["compacted"] \notin {Nobody, "other"}
               PROVE  ReadsAsOriginal(dir["compacted"])
    BY DEF OutputWhole
  <2>1. PICK i : i = dir["compacted"]
    OBVIOUS
  <2>2. Whole(i)
    BY <2>1 DEF CInv, Directories, GoodDir, Settled, Whole
  <2>3. ReadsAsOriginal(i)
    BY <2>2, ReadsSame DEF CInv
  <2> QED BY <2>1, <2>3 DEF ReadsAsOriginal
<1> QED BY <1>1, CompactInvariant, PTL

\* A finished file is as long as its headers and the blocks of the original
\* that are not zero.
THEOREM OutputPacked == CSpec => []Packed
<1>1. CInv => Packed
  <2> SUFFICES ASSUME CInv, NEW p \in Procs, pc[p] = "done", opts[p].sparse
               PROVE  LET bs == w[p].bs
                          full == {b \in 0..(block_count(Size, bs) - 1) :
                                     ~is_all_zero(ReadBlock(inodes["input"].cells, b).data)}
                      IN  Len(inodes[p].cells) = payload_start(Size, bs) + bs * Cardinality(full)
    BY DEF Packed
  <2>1. WriterOK(p) /\ w[p].bs # 0 /\ Len(File(p)) = w[p].cursor /\ blk[p] = Count
    BY DEF CInv, Instance, WriterOK, Working, Stage
  <2>2. w[p].bs = Bs
    BY <2>1, WriterFields
  <2>3. w[p].cursor = Start + Bs * Cardinality(Full(Count))
    BY <2>1 DEF WriterOK
  <2>4. Len(File(p)) = Start + Bs * Cardinality(Full(Count))
    BY <2>1, <2>3
  <2>5. Full(Count) = {b \in 0..(block_count(Size, Bs) - 1) :
                         ~is_all_zero(ReadBlock(inodes["input"].cells, b).data)}
    BY DEF Full, Count, Orig
  <2> QED BY <2>2, <2>4, <2>5 DEF File, Start
<1> QED BY <1>1, CompactInvariant, PTL
=============================================================================
