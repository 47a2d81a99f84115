--------------------------- MODULE FlattenProofs ---------------------------
(***************************************************************************)
(* Proofs about flatten, for every chain, disk and block size and every    *)
(* combination of options, under kills and power losses.                   *)
(*                                                                         *)
(* Everything the invariant says of a file is said of a chain c, a writer  *)
(* x, the calls t still to be made and the file f, so that the lemmas about*)
(* single calls mention no variable.                                       *)
(***************************************************************************)
EXTENDS Flatten, WriterProofs

-----------------------------------------------------------------------------
(* The new image of chain c.                                               *)

Width(c) == c[1].bs
Blocks(c) == block_count(Size, Width(c))
BatLen(c) == bat_length(Size, Width(c))
Start(c) == payload_start(Size, Width(c))
Total(c) == Start(c) + Blocks(c) * Width(c)
Slot(c, b) == payload_index(b, chunk_ratio(Width(c))) + 1

\* The BAT on disk: as created, and as the writer has it.
BlankTable(c) == encode(EmptyBat(Size, Width(c)), BatLen(c))
Table(c, bat) == encode(bat, BatLen(c))

\* What a reader of the file makes of the cells f.
Seen(m, f) ==
    IF ~m.zst THEN ReadImage(f, Size)
    ELSE IF Unpackable(f) THEN ReadImage(SubSeq(f, 2, Len(f) - 2), Size)
    ELSE [v \in 0..(Size - 1) |-> Unreadable]

\* No cell is another's contents or contents nobody wrote.
Fair(c, m, f) == \A v \in 0..(Size - 1) : Seen(m, f)[v] \in {Zero, Unreadable, VirtualCell(c, v)}
\* ... except where the BAT was lost itself.
Excused(c, m, f) ==
    \A v \in 0..(Size - 1) : Seen(m, f)[v] \in {Zero, Unreadable, VirtualCell(c, v), Stray}
Exact(c, m, f) == \A v \in 0..(Size - 1) : Seen(m, f)[v] = VirtualCell(c, v)

\* A file that flatten made, told apart from what was there before.
Fresh(f) == f.cells = <<>> \/ f.cells[1] # <<"old">>

\* Payload cells that are not on disk.
Pending(c, f) == {i \in f.dirty : i > Start(c)}

\* A file that may be left behind at any time.
Safe(c, m, f) ==
    \/ f \in Olds
    \/ /\ Fresh(f) /\ Fair(c, m, f.cells)
       /\ ~m.zst => Len(f.cells) <= Total(c)
       /\ m.ntfs => \A i, j \in Pending(c, f) : i = j
       /\ (m.ntfs /\ ~m.fixed) => \A g \in Losses(f) : Excused(c, m, g.cells)

\* ... and what may be left of it after a power loss.
Lost(c, m, f) ==
    \/ f \in Olds
    \/ /\ Fresh(f) /\ f.dirty = {}
       /\ ~m.zst => Len(f.cells) <= Total(c)
       /\ (m.ntfs /\ ~m.fixed) => Excused(c, m, f.cells)

\* A complete copy, for good.
Complete(c, m, f) ==
    /\ Fresh(f) /\ f.dirty = {} /\ Exact(c, m, f.cells)
    /\ ~m.zst => Len(f.cells) <= Total(c)

-----------------------------------------------------------------------------
(* VhdxWriter at work.                                                     *)

WriterOK(c, m, x, b) ==
    /\ x = [size |-> Size, bs |-> Width(c), fixed |-> m.fixed, cursor |-> x.cursor, bat |-> x.bat]
    /\ Listed(x.bat) /\ Len(x.bat) = bat_entries(Size, Width(c))
    /\ x.cursor \in Nat /\ Start(c) <= x.cursor /\ x.cursor <= Start(c) + b * Width(c)
    /\ m.fixed => /\ x.cursor = Start(c)
                  /\ \A a \in 0..(Blocks(c) - 1) :
                        x.bat[Slot(c, a)] = FullEntry(Start(c) + a * Width(c))

\* Where the payload of the first b blocks ends.
Edge(c, x, b) == IF x.fixed THEN Start(c) + b * Width(c) ELSE x.cursor

Framed(c, f) == /\ f[1] = HeadCell(metadata_offset, bat_offset, BatLen(c))
                /\ f[3] = MetaCell(Size, Width(c))

\* Block b is in the file, its payload below limit.
Copied(c, x, f, b, limit) ==
    LET e == x.bat[Slot(c, b)]
    IN  \/ e = ZeroEntry /\ is_all_zero(merge_block(c, b))
        \/ /\ e.state = "full" /\ e.off \in Nat
           /\ Start(c) <= e.off /\ e.off + Width(c) <= limit
           /\ \A k \in 0..(Width(c) - 1) : f[e.off + k + 1] = merge_block(c, b)[k]

\* The first b blocks are in the file, and nothing behind top.
Laid(c, x, f, b, top) ==
    /\ Framed(c, f) /\ Start(c) <= top /\ top <= Total(c)
    /\ Len(f) = IF x.fixed THEN Total(c) ELSE top
    /\ \A n \in 1..BatLen(c) : f[3 + n] = IF x.fixed THEN Table(c, x.bat)[n] ELSE BlankTable(c)[n]
    /\ \A i \in 1..Len(f) : i > top => f[i] = Zero
    /\ \A a \in 0..(b - 1) : Copied(c, x, f, a, top)

\* j calls of create are made.  Once more for a fixed image: the BAT, then the
\* length.
Creating(c, m, x, t, f, j) ==
    /\ Rest(t, create(x), j) /\ x.cursor = Start(c)
    /\ j = 0 => f \in Olds \/ f = EmptyFile
    /\ j > 0 => /\ Len(f.cells) = IF j <= Start(c) + 1 THEN j - 1
                                  ELSE IF x.fixed /\ j = Start(c) + BatLen(c) + 3 THEN Total(c)
                                  ELSE Start(c)
                /\ \A i \in 1..Len(f.cells) : i > Start(c) => f.cells[i] = Zero
    /\ (1 < j /\ j <= Start(c) + 1) => f.cells[1] = Fti
    /\ 3 < j => f.cells[3] = MetaCell(Size, Width(c))
    /\ Start(c) + 1 < j => Framed(c, f.cells)
    /\ \A n \in 1..BatLen(c) : 4 + n <= j =>
          f.cells[3 + n] = IF Start(c) + 2 + n <= j /\ x.fixed THEN Table(c, x.bat)[n]
                           ELSE BlankTable(c)[n]
    /\ Pending(c, f) = {}

PutCalls(c, m, off, b) ==
    write_payload_buf(off, [i \in 1..Width(c) |-> merge_block(c, b)[i - 1]], IF m.ntfs THEN 1 ELSE 0)
      \o (IF m.ntfs THEN <<Sync>> ELSE <<>>)

\* j calls for block b - 1 are made, n of its cells written.
Putting(c, m, x, t, f, b, j, n) ==
    LET off == Edge(c, x, b) - Width(c)
    IN  /\ b > 0 /\ Start(c) <= off /\ n <= Width(c)
        /\ Rest(t, PutCalls(c, m, off, b - 1), j)
        /\ Laid(c, x, f.cells, b - 1, off + n)
        /\ x.bat[Slot(c, b - 1)] = FullEntry(off)
        /\ \A k \in 0..(n - 1) : f.cells[off + k + 1] = merge_block(c, b - 1)[k]
        /\ ~m.ntfs => j = n
        /\ m.ntfs => \/ j = 2 * n /\ Pending(c, f) = {}
                     \/ j = 2 * n - 1 /\ Pending(c, f) \subseteq {off + n}
                     \/ j >= 2 * n /\ n = Width(c) /\ Pending(c, f) = {}

Resting(c, m, x, t, f, b) ==
    /\ t = <<>> /\ Laid(c, x, f.cells, b, Edge(c, x, b))
    /\ m.ntfs => Pending(c, f) = {}

Finishing(c, m, x, t, f, j) ==
    /\ Rest(t, finish(x), j) /\ Framed(c, f.cells)
    /\ Len(f.cells) = IF x.fixed THEN Total(c) ELSE x.cursor
    /\ \A b \in 0..(Blocks(c) - 1) : Copied(c, x, f.cells, b, Len(f.cells))
    /\ \A n \in 1..BatLen(c) :
          f.cells[3 + n] = IF n <= j \/ x.fixed THEN Table(c, x.bat)[n] ELSE BlankTable(c)[n]
    /\ m.ntfs => Pending(c, f) = {}
    /\ t = <<>> => f.dirty = {}

-----------------------------------------------------------------------------
(* ZstStreamWriter at work.                                                *)

\* The pre-scan of the first b blocks.
Scanned(c, z, b) ==
    /\ Listed(z) /\ Len(z) = b
    /\ \A a \in 0..(b - 1) : /\ ~Failed(merge_block(c, a))
                             /\ z[a + 1] <=> is_all_zero(merge_block(c, a))

Layout(c, z) == compute(Size, Width(c), NonZero(z, Blocks(c)))

Streamed(c, x, z, b, s) ==
    LET lay == Layout(c, z)
    IN  /\ x = [lay |-> lay, bat |-> build_bat_for_layout(Size, Width(c), z),
                written |-> NonZero(z, b)]
        /\ Listed(s) /\ Len(s) = 4 + NonZero(z, b) * Width(c)
        /\ s[1] = Tar(lay.total_size)
        /\ s[2] = HeadCell(metadata_offset, lay.bat_offset, lay.bat_length)
        /\ s[4] = MetaCell(Size, Width(c))
        /\ \A a \in 0..(b - 1) : ~z[a + 1] =>
              \A k \in 0..(Width(c) - 1) : s[4 + NonZero(z, a) * Width(c) + k + 1] = merge_block(c, a)[k]

Packed(c, m, z, s) ==
    /\ Listed(s) /\ Len(s) = Layout(c, z).total_size + 2 /\ s[1] = Tar(Layout(c, z).total_size)
    /\ Exact(c, m, Append(s, FrameEnd))

-----------------------------------------------------------------------------
(* The invariant.                                                          *)

Labels == {"start", "create", "blocks", "finish", "stream", "encoder", "done", "failed", "lost"}

Kept == /\ links \in Chains /\ mode \in Modes /\ Tidy(file) /\ pc \in Labels
        /\ blk \in 0..Blocks(links) /\ Len(is_zero) <= Blocks(links)
        /\ pc \notin {"create", "blocks", "finish"} => todo = <<>>

\* Nothing but the pre-scan happens to a chain that cannot all be read.
Spared ==
    (mode.zst /\ \E v \in 0..(Size - 1) : VirtualCell(links, v) = Unreadable) =>
        pc \in {"start", "failed", "lost"} /\ file \in Olds

Direct ==
    /\ pc = "start" => file \in Olds /\ (~mode.zst => blk = 0)
    /\ pc = "create" => /\ ~mode.zst /\ mode.ntfs /\ blk = 0
                        /\ \/ todo = <<Truncate>> /\ file \in Olds
                           \/ todo = <<>> /\ file = EmptyFile
    /\ pc = "blocks" =>
          /\ ~mode.zst /\ WriterOK(links, mode, w, blk)
          /\ \/ blk = 0 /\ \E j \in Nat : Creating(links, mode, w, todo, file, j)
             \/ \E j, n \in Nat : Putting(links, mode, w, todo, file, blk, j, n)
             \/ Resting(links, mode, w, todo, file, blk)
    /\ (pc = "finish" /\ ~mode.zst) =>
          /\ WriterOK(links, mode, w, blk) /\ blk = Blocks(links)
          /\ \E j \in Nat : Finishing(links, mode, w, todo, file, j)

Streams ==
    /\ (pc = "start" /\ mode.zst) => Scanned(links, is_zero, blk)
    /\ pc \in {"stream", "encoder"} =>
          /\ mode.zst /\ ~mode.ntfs /\ ~mode.fixed
          /\ Scanned(links, is_zero, Blocks(links)) /\ file = EmptyFile
    /\ pc = "stream" => Streamed(links, w, is_zero, blk, sent)
    /\ pc = "encoder" => Packed(links, mode, is_zero, sent)
    /\ (pc = "finish" /\ mode.zst) =>
          /\ ~mode.ntfs /\ ~mode.fixed
          /\ Fresh(file) /\ Exact(links, mode, file.cells)
          /\ todo = <<Sync>> \/ (todo = <<>> /\ file.dirty = {})

Ended ==
    /\ pc = "failed" => Safe(links, mode, file)
    /\ pc = "lost" => Lost(links, mode, file)
    /\ pc = "done" => Complete(links, mode, file)

FInv == Kept /\ Spared /\ Direct /\ Streams /\ Ended

-----------------------------------------------------------------------------
(* merge_block composes what a virtual machine would read.                 *)

\* What the assumptions say of a chain.
LEMMA ChainFacts ==
    ASSUME NEW c \in Chains
    PROVE  /\ Size \in Nat /\ Len(c) \in Nat \ {0}
           /\ Width(c) \in 1..ChunkCells /\ Width(c) \in Nat \ {0}
           /\ \A i \in 1..Len(c) :
                 c[i].bs \in Nat \ {0} /\ Len(c[i].blocks) = block_count(Size, c[i].bs)
<1>1. /\ Size \in Nat /\ Listed(c) /\ c # <<>> /\ c[1].bs \in 1..ChunkCells
      /\ \A i \in 1..Len(c) : IsLink(c[i])
  BY FlattenAssumption
<1>2. Len(c) \in Nat \ {0}
  <2>1. Len(c) \in Nat
    BY <1>1, ListedFcn
  <2>2. Len(c) # 0
    <3>1. c \in Seq({c[i] : i \in DOMAIN c})
      BY <1>1 DEF Listed
    <3> QED BY <1>1, <3>1, EmptySeq
  <2> QED BY <2>1, <2>2
<1>3. Width(c) \in Nat \ {0} /\ Width(c) \in 1..ChunkCells
  BY <1>1, WriterAssumption DEF Width
<1> QED BY <1>1, <1>2, <1>3 DEF IsLink

Begun(c) == [s \in 0..(Width(c) - 1) |-> Unfilled]

\* h holds what merge_block's loop has after each of its first n rounds.
Rounds(c, b, n, h) ==
    h = [i \in 0..n |-> IF i = 0 THEN Begun(c) ELSE fill_from_link(c[i], b * Width(c), h[i - 1])]

\* The loop runs for any number of rounds.
LEMMA RoundsExist ==
    ASSUME NEW c, NEW b
    PROVE  \A n \in Nat : \E h : Rounds(c, b, n, h)
<1> DEFINE bad == {n \in Nat : ~\E h : Rounds(c, b, n, h)}
           fill(i, a) == fill_from_link(c[i], b * Width(c), a)
<1>1. SUFFICES ASSUME bad # {} PROVE FALSE
  OBVIOUS
<1>2. PICK x \in bad : \A y \in bad : x <= y
  <2>1. bad \in SUBSET Nat
    OBVIOUS
  <2> HIDE DEF bad
  <2> QED BY <1>1, <2>1, Smallest
<1>3. x \in Nat /\ ~\E h : Rounds(c, b, x, h)
  OBVIOUS
<1>4. CASE x = 0
  <2> DEFINE h == [i \in 0..0 |-> Begun(c)]
  <2>1. h = [i \in 0..0 |-> IF i = 0 THEN Begun(c) ELSE fill(i, h[i - 1])]
    OBVIOUS
  <2> HIDE DEF h
  <2>2. Rounds(c, b, x, h)
    BY <1>4, <2>1 DEF Rounds
  <2> QED BY <1>3, <2>2
<1>5. CASE x # 0
  <2>1. x - 1 \in Nat /\ ~(x <= x - 1)
    BY <1>3, <1>5
  <2>2. x - 1 \notin bad
    BY <1>2, <2>1
  <2>3. PICK h : Rounds(c, b, x - 1, h)
    BY <2>1, <2>2
  <2> DEFINE g == [i \in 0..x |-> IF i = x THEN fill(x, h[x - 1]) ELSE h[i]]
             step(i) == IF i = 0 THEN Begun(c) ELSE fill(i, g[i - 1])
  <2>4. \A i \in 0..(x - 1) : h[i] = IF i = 0 THEN Begun(c) ELSE fill(i, h[i - 1])
    BY <2>3 DEF Rounds
  <2>5. ASSUME NEW i \in 0..x PROVE g[i] = step(i)
    <3>1. CASE i = x
      <4>1. g[i] = fill(x, h[x - 1]) /\ g[x - 1] = h[x - 1] /\ i # 0
        BY <1>3, <1>5, <2>1, <3>1
      <4> HIDE DEF g, fill
      <4> QED BY <3>1, <4>1
    <3>2. CASE i # x
      <4>1. i \in 0..(x - 1) /\ (i # 0 => i - 1 \in 0..x /\ i - 1 # x)
        BY <1>3, <3>2
      <4>2. g[i] = h[i] /\ (i # 0 => g[i - 1] = h[i - 1])
        BY <3>2, <4>1
      <4> HIDE DEF g, fill
      <4> QED BY <2>4, <4>1, <4>2
    <3> QED BY <3>1, <3>2
  <2>6. g = [i \in 0..x |-> step(i)]
    <3>1. g = [i \in 0..x |-> g[i]]
      OBVIOUS
    <3> HIDE DEF g
    <3> QED BY <2>5, <3>1
  <2> HIDE DEF g
  <2>7. Rounds(c, b, x, g)
    BY <2>6 DEF Rounds
  <2> QED BY <1>3, <2>7
<1> QED BY <1>4, <1>5

\* merge_block's loop, round by round.
LEMMA AskedRounds ==
    ASSUME NEW c \in Chains, NEW b
    PROVE  /\ Asked(c, b)[0] = Begun(c)
           /\ \A i \in 1..Len(c) :
                 Asked(c, b)[i] = fill_from_link(c[i], b * Width(c), Asked(c, b)[i - 1])
<1> DEFINE A == Asked(c, b)
<1>1. Len(c) \in Nat \ {0}
  BY ChainFacts
<1>2. A = CHOOSE h : Rounds(c, b, Len(c), h)
  BY DEF Asked, Rounds, Begun, Width
<1>3. Rounds(c, b, Len(c), A)
  <2>1. \E h : Rounds(c, b, Len(c), h)
    BY <1>1, RoundsExist
  <2> HIDE DEF A
  <2> QED BY <1>2, <2>1
<1> HIDE DEF A
<1>4. \A i \in 0..Len(c) : A[i] = IF i = 0 THEN Begun(c) ELSE fill_from_link(c[i], b * Width(c), A[i - 1])
  BY <1>3 DEF Rounds
<1>5. 0 \in 0..Len(c) /\ \A i \in 1..Len(c) : i \in 0..Len(c) /\ i # 0
  BY <1>1
<1> QED BY <1>4, <1>5 DEF A

\* What link i of the chain has to say about address v.
Answer(c, i, v) == CellOf(c[i].blocks[(v \div c[i].bs) + 1], v % c[i].bs)

\* y is the first answer of the first n links.
FirstAnswer(c, v, n, y) ==
    \/ y = Unfilled /\ \A i \in 1..n : Answer(c, i, v) = Unfilled
    \/ \E i \in 1..n : /\ y = Answer(c, i, v) /\ y # Unfilled
                       /\ \A k \in 1..(i - 1) : Answer(c, k, v) = Unfilled

\* One link is asked about an address of the disk.
LEMMA OneAsked ==
    ASSUME NEW c \in Chains, NEW i \in 1..Len(c), NEW start \in Nat, NEW acc, NEW s \in DOMAIN acc,
           s \in Nat, start + s < Size
    PROVE  fill_from_link(c[i], start, acc)[s]
             = IF acc[s] # Unfilled THEN acc[s] ELSE Answer(c, i, start + s)
<1> DEFINE v == start + s
           b == v \div c[i].bs
<1>1. /\ Size \in Nat /\ c[i].bs \in Nat \ {0} /\ Len(c[i].blocks) = block_count(Size, c[i].bs)
  BY ChainFacts
<1>2. v \in 0..(Size - 1)
  BY <1>1
<1>3. b \in 0..(block_count(Size, c[i].bs) - 1) /\ block_count(Size, c[i].bs) \in Nat
  <2> HIDE DEF v
  <2>1. v \div c[i].bs \in 0..(block_count(Size, c[i].bs) - 1)
    BY <1>1, <1>2, AddressBlock
  <2>2. block_count(Size, c[i].bs) \in Nat
    <3>1. Size + c[i].bs - 1 \in Nat
      BY <1>1
    <3> QED BY <1>1, <3>1, DivMod DEF block_count
  <2> QED BY <2>1, <2>2
<1>4. ~(b >= Len(c[i].blocks))
  <2> HIDE DEF b
  <2> QED BY <1>1, <1>3
<1>5. fill_from_link(c[i], start, acc)[s]
        = IF acc[s] # Unfilled \/ b >= Len(c[i].blocks) THEN acc[s]
          ELSE CellOf(c[i].blocks[b + 1], v % c[i].bs)
  BY DEF fill_from_link
<1> QED BY <1>4, <1>5 DEF Answer

\* After each round every cell holds the first answer so far.
LEMMA AskedFirst ==
    ASSUME NEW c \in Chains, NEW b \in Nat, NEW s \in 0..(Width(c) - 1), b * Width(c) + s < Size
    PROVE  FirstAnswer(c, b * Width(c) + s, Len(c), Asked(c, b)[Len(c)][s])
<1> DEFINE A == Asked(c, b)
           D == 0..(Width(c) - 1)
           v == b * Width(c) + s
           good(n) == DOMAIN A[n] = D /\ FirstAnswer(c, v, n, A[n][s])
           bad == {n \in 0..Len(c) : ~good(n)}
<1>1. Len(c) \in Nat \ {0} /\ Width(c) \in Nat \ {0} /\ Size \in Nat
  BY ChainFacts
<1>2. A[0] = Begun(c) /\ \A i \in 1..Len(c) : A[i] = fill_from_link(c[i], b * Width(c), A[i - 1])
  BY AskedRounds
<1>3. b * Width(c) \in Nat /\ s \in Nat /\ v \in Nat
  BY <1>1
<1> HIDE DEF A
<1>4. good(0)
  <2>1. A[0] = [k \in D |-> Unfilled]
    BY <1>2 DEF Begun
  <2> QED BY <2>1 DEF FirstAnswer
<1>5. ASSUME NEW n \in 1..Len(c), good(n - 1) PROVE good(n)
  <2>1. A[n] = fill_from_link(c[n], b * Width(c), A[n - 1])
    BY <1>2
  <2>2. DOMAIN A[n] = D
    BY <1>5, <2>1 DEF fill_from_link
  <2> DEFINE y == A[n - 1][s]
             z == Answer(c, n, v)
  <2>3. A[n][s] = IF y # Unfilled THEN y ELSE z
    <3> DEFINE acc == A[n - 1]
               start == b * Width(c)
    <3>1. start \in Nat /\ s \in Nat /\ start + s < Size /\ s \in DOMAIN acc /\ A[n] = fill_from_link(c[n], start, acc)
      BY <1>3, <1>5, <2>1
    <3> HIDE DEF acc, start
    <3>2. fill_from_link(c[n], start, acc)[s]
            = IF acc[s] # Unfilled THEN acc[s] ELSE Answer(c, n, start + s)
      BY <3>1, OneAsked
    <3> QED BY <3>1, <3>2 DEF acc, start
  <2>4. FirstAnswer(c, v, n - 1, y)
    BY <1>5
  <2> HIDE DEF y, z, v
  <2>5. CASE y # Unfilled
    <3>1. PICK i \in 1..(n - 1) : /\ y = Answer(c, i, v)
                                  /\ \A k \in 1..(i - 1) : Answer(c, k, v) = Unfilled
      BY <2>4, <2>5 DEF FirstAnswer
    <3>2. i \in 1..n
      BY <1>1
    <3>3. FirstAnswer(c, v, n, y)
      BY <2>5, <3>1, <3>2 DEF FirstAnswer
    <3> QED BY <2>2, <2>3, <2>5, <3>3
  <2>6. CASE y = Unfilled
    <3>1. \A k \in 1..(n - 1) : Answer(c, k, v) = Unfilled
      <4>1. \A i \in 1..(n - 1) : ~(y = Answer(c, i, v) /\ y # Unfilled)
        BY <2>6
      <4> QED BY <2>4, <4>1 DEF FirstAnswer
    <3>2. FirstAnswer(c, v, n, z)
      <4>1. CASE z = Unfilled
        <5>1. \A i \in 1..n : i \in 1..(n - 1) \/ i = n
          BY <1>1
        <5>2. \A i \in 1..n : Answer(c, i, v) = Unfilled
          BY <3>1, <4>1, <5>1 DEF z
        <5> QED BY <4>1, <5>2 DEF FirstAnswer
      <4>2. CASE z # Unfilled
        <5>1. n \in 1..n
          BY <1>1
        <5> QED BY <3>1, <4>2, <5>1 DEF FirstAnswer, z
      <4> QED BY <4>1, <4>2
    <3> QED BY <2>2, <2>3, <2>6, <3>2
  <2> QED BY <2>5, <2>6
<1>6. bad = {}
  <2>1. SUFFICES ASSUME bad # {} PROVE FALSE
    OBVIOUS
  <2>2. PICK x \in bad : \A y \in bad : x <= y
    <3>1. bad \in SUBSET Nat
      BY <1>1
    <3> HIDE DEF bad
    <3> QED BY <2>1, <3>1, Smallest
  <2>3. x \in 0..Len(c) /\ ~good(x)
    OBVIOUS
  <2>4. x # 0
    BY <1>4, <2>3
  <2>5. x \in 1..Len(c) /\ x - 1 \in 0..Len(c) /\ ~(x <= x - 1)
    BY <1>1, <2>3, <2>4
  <2>6. good(x - 1)
    BY <2>2, <2>5
  <2> QED BY <1>5, <2>3, <2>5, <2>6
<1>7. Len(c) \in 0..Len(c)
  BY <1>1
<1>8. good(Len(c))
  BY <1>6, <1>7
<1> QED BY <1>8 DEF A

\* merge_block: the composite of a block holds at every address of the disk
\* what a virtual machine on top of the chain reads there.
THEOREM MergeIsVirtual ==
    ASSUME NEW c \in Chains, NEW b \in Nat, NEW s \in 0..(Width(c) - 1), b * Width(c) + s < Size
    PROVE  merge_block(c, b)[s] = VirtualCell(c, b * Width(c) + s)
<1> DEFINE v == b * Width(c) + s
           y == Asked(c, b)[Len(c)][s]
           having == {i \in 1..Len(c) : Answer(c, i, v) # Unfilled}
           least == CHOOSE i \in having : \A j \in having : i <= j
<1>1. FirstAnswer(c, v, Len(c), y)
  BY AskedFirst
<1>2. merge_block(c, b)[s] = IF y = Unfilled THEN Zero ELSE y
  BY DEF merge_block, Width
<1>3. VirtualCell(c, v) = IF having = {} THEN Zero ELSE Answer(c, least, v)
  BY DEF VirtualCell, Answer
<1>4. Len(c) \in Nat
  BY ChainFacts
<1> HIDE DEF y, v
<1>5. CASE y = Unfilled
  <2>1. having = {}
    <3>1. \A i \in 1..Len(c) : Answer(c, i, v) = Unfilled
      <4>1. \A i \in 1..Len(c) : ~(y = Answer(c, i, v) /\ y # Unfilled)
        BY <1>5
      <4> QED BY <1>1, <4>1 DEF FirstAnswer
    <3> QED BY <3>1
  <2> QED BY <1>2, <1>3, <1>5, <2>1 DEF v
<1>6. CASE y # Unfilled
  <2>1. PICK i \in 1..Len(c) : /\ y = Answer(c, i, v)
                               /\ \A k \in 1..(i - 1) : Answer(c, k, v) = Unfilled
    BY <1>1, <1>6 DEF FirstAnswer
  <2>2. i \in having /\ \A j \in having : i <= j
    <3>1. \A j \in having : ~(j \in 1..(i - 1))
      BY <2>1
    <3>2. \A j \in 1..Len(c) : ~(j \in 1..(i - 1)) => i <= j
      BY <1>4
    <3> QED BY <1>6, <2>1, <3>1, <3>2
  <2>3. \A j \in having : (\A k \in having : j <= k) => j = i
    <3>1. \A j \in having : j \in Nat
      BY <1>4
    <3>2. i \in Nat
      BY <1>4
    <3> QED BY <2>2, <3>1, <3>2
  <2>4. least = i
    <3> HIDE DEF having
    <3> QED BY <2>2, <2>3
  <2>5. having # {}
    BY <2>2
  <2> QED BY <1>2, <1>3, <1>6, <2>1, <2>4, <2>5 DEF v
<1> QED BY <1>5, <1>6

\* A composite is a block without gaps.
LEMMA Composite ==
    ASSUME NEW c, NEW b
    PROVE  /\ DOMAIN merge_block(c, b) = 0..(Width(c) - 1)
           /\ merge_block(c, b) = [k \in 0..(Width(c) - 1) |-> merge_block(c, b)[k]]
           /\ \A k \in 0..(Width(c) - 1) : merge_block(c, b)[k] # Unfilled
<1> DEFINE y == Asked(c, b)[Len(c)]
           D == 0..(Width(c) - 1)
<1>1. merge_block(c, b) = [k \in D |-> IF y[k] = Unfilled THEN Zero ELSE y[k]]
  BY DEF merge_block, Width
<1>2. Zero # Unfilled
  BY DEF Zero, Unfilled
<1> HIDE DEF y
<1> QED BY <1>1, <1>2

\* Sizes of the new image.
LEMMA FSizes ==
    ASSUME NEW c \in Chains
    PROVE  /\ Size \in Nat /\ Width(c) \in 1..ChunkCells /\ Width(c) \in Nat \ {0} /\ Blocks(c) \in Nat
           /\ BatLen(c) \in Nat \ {0} /\ Start(c) = 3 + BatLen(c) /\ Start(c) \in Nat
           /\ Blocks(c) * Width(c) \in Nat /\ Total(c) \in Nat /\ Start(c) <= Total(c)
           /\ Total(c) = Start(c) + Blocks(c) * Width(c)
           /\ metadata_offset = 2 /\ bat_offset = 3 /\ bat_entries(Size, Width(c)) \in Nat
           /\ PerCell \in Nat \ {0}
<1>1. Size \in Nat /\ Width(c) \in 1..ChunkCells
  BY ChainFacts
<1>2. /\ Width(c) \in Nat \ {0} /\ Blocks(c) \in Nat /\ BatLen(c) \in Nat \ {0}
      /\ Start(c) = 3 + BatLen(c) /\ bat_entries(Size, Width(c)) \in Nat
  BY <1>1, Geometry DEF Blocks, BatLen, Start
<1>3. metadata_offset = 2 /\ bat_offset = 3
  BY DEF metadata_offset, bat_offset, LogSize
<1>4. Blocks(c) * Width(c) \in Nat /\ Start(c) \in Nat
  BY <1>2
<1>5. Total(c) = Start(c) + Blocks(c) * Width(c)
  BY DEF Total
<1>6. Total(c) \in Nat /\ Start(c) <= Total(c)
  BY <1>4, <1>5
<1> QED BY <1>1, <1>2, <1>3, <1>4, <1>5, <1>6, WriterAssumption

\* An address of the disk lies in a block of the image.
LEMMA AddressCell ==
    ASSUME NEW c \in Chains, NEW v \in 0..(Size - 1)
    PROVE  LET b == v \div Width(c)
               k == v % Width(c)
           IN  /\ b \in 0..(Blocks(c) - 1) /\ k \in 0..(Width(c) - 1)
               /\ merge_block(c, b)[k] = VirtualCell(c, v)
<1> DEFINE b == v \div Width(c)
           k == v % Width(c)
<1>1. Size \in Nat /\ Width(c) \in Nat \ {0} /\ Blocks(c) \in Nat
  BY FSizes
<1>2. b \in 0..(Blocks(c) - 1) /\ k \in 0..(Width(c) - 1)
  BY <1>1, AddressBlock DEF Blocks
<1>3. v \in Nat /\ v = b * Width(c) + k
  <2>1. v \in Nat
    BY <1>1
  <2> QED BY <1>1, <2>1, DivMod
<1> HIDE DEF b, k
<1>4. b \in Nat /\ b * Width(c) + k < Size
  BY <1>1, <1>2, <1>3
<1>5. merge_block(c, b)[k] = VirtualCell(c, b * Width(c) + k)
  BY <1>2, <1>4, MergeIsVirtual
<1> QED BY <1>2, <1>3, <1>5 DEF b, k

\* A reader of a file that opens: zeros, an error or a cell of the payload.
LEMMA ImageCell ==
    ASSUME NEW c \in Chains, NEW f, Openable(f), NEW bo \in Nat, f[1][3] = bo, f[1][4] = BatLen(c),
           SizeOf(f) = Size, BlockSizeOf(f) = Width(c), NEW v \in 0..(Size - 1),
           BatCellFor(f, v \div Width(c))[1] = "bat"
    PROVE  LET e == PayloadEntry(f, v \div Width(c))
               cell == f[e.off + (v % Width(c)) + 1]
               seen == ReadImage(f, Size)[v]
           IN  /\ e.state \in {"absent", "zero"} => seen = Zero
               /\ e.state \notin {"absent", "zero"} =>
                     seen = IF e.off + Width(c) > Len(f) THEN Unreadable
                            ELSE IF cell = Unfilled THEN Zero ELSE cell
<1> DEFINE b == v \div Width(c)
           k == v % Width(c)
           e == PayloadEntry(f, b)
           r == ReadBlock(f, b)
           seen == ReadImage(f, Size)[v]
           D == 0..(Width(c) - 1)
           cell == f[e.off + k + 1]
<1>1. b \in 0..(Blocks(c) - 1) /\ k \in D
  BY AddressCell
<1>2. seen = IF CellOf(r, k) = Unfilled THEN Zero ELSE CellOf(r, k)
  BY DEF ReadImage
<1>3. ~(EntryIndex(f, b) >= f[1][4] * PerCell)
  <2>1. Size \in Nat /\ Width(c) \in 1..ChunkCells /\ b \in 0..(block_count(Size, Width(c)) - 1)
        /\ f[1][4] = bat_length(Size, Width(c))
    BY <1>1, FSizes DEF BatLen, Blocks
  <2> HIDE DEF b
  <2> QED BY <2>1, EntryFound
<1>4. /\ e.state = "absent" => r.kind = "absent" /\ r.data = [i \in D |-> Zero]
      /\ e.state = "zero" => r.kind = "full" /\ r.data = [i \in D |-> Zero]
      /\ e.state \notin {"absent", "zero"} =>
            IF e.off + Width(c) > Len(f) THEN r.kind = "error"
            ELSE r.kind = "full" /\ r.data = [i \in D |-> f[e.off + i + 1]]
  BY <1>3, FoundRead
<1> HIDE DEF b, k, e, r, seen
<1>5. Unreadable # Unfilled /\ Zero # Unfilled
  BY DEF Unreadable, Unfilled, Zero
<1>6. /\ r.kind = "full" => CellOf(r, k) = r.data[k]
      /\ r.kind = "error" => CellOf(r, k) = Unreadable
      /\ r.kind = "absent" => CellOf(r, k) = Unfilled
  BY DEF CellOf
<1>7. e.state \in {"absent", "zero"} => seen = Zero
  BY <1>1, <1>2, <1>4, <1>6
<1>8. ASSUME e.state \notin {"absent", "zero"}
      PROVE  seen = IF e.off + Width(c) > Len(f) THEN Unreadable ELSE IF cell = Unfilled THEN Zero ELSE cell
  <2>1. CASE e.off + Width(c) > Len(f)
    BY <1>2, <1>4, <1>5, <1>6, <1>8, <2>1
  <2>2. CASE ~(e.off + Width(c) > Len(f))
    <3>1. r.kind = "full" /\ r.data = [i \in D |-> f[e.off + i + 1]]
      BY <1>4, <1>8, <2>2
    <3>2. CellOf(r, k) = cell
      BY <1>1, <1>6, <3>1
    <3> QED BY <1>2, <2>2, <3>2
  <2> QED BY <2>1, <2>2
<1> QED BY <1>7, <1>8 DEF b, k, e, seen

\* ... and one whose entry was lost: anything.
LEMMA StrayCell ==
    ASSUME NEW c \in Chains, NEW f, Openable(f), NEW bo \in Nat, f[1][3] = bo, f[1][4] = BatLen(c),
           SizeOf(f) = Size, BlockSizeOf(f) = Width(c), NEW v \in 0..(Size - 1),
           BatCellFor(f, v \div Width(c))[1] # "bat"
    PROVE  ReadImage(f, Size)[v] = Stray
<1> DEFINE b == v \div Width(c)
           k == v % Width(c)
           r == ReadBlock(f, b)
           D == 0..(Width(c) - 1)
<1>1. b \in 0..(Blocks(c) - 1) /\ k \in D
  BY AddressCell
<1>2. ReadImage(f, Size)[v] = IF CellOf(r, k) = Unfilled THEN Zero ELSE CellOf(r, k)
  BY DEF ReadImage
<1>3. ~(EntryIndex(f, b) >= f[1][4] * PerCell)
  <2>1. Size \in Nat /\ Width(c) \in 1..ChunkCells /\ b \in 0..(block_count(Size, Width(c)) - 1)
        /\ f[1][4] = bat_length(Size, Width(c))
    BY <1>1, FSizes DEF BatLen, Blocks
  <2> HIDE DEF b
  <2> QED BY <2>1, EntryFound
<1>4. r.kind = "full" /\ r.data = [i \in D |-> Stray]
  BY <1>3, StrayRead
<1> HIDE DEF b, k, r
<1>5. CellOf(r, k) = Stray
  BY <1>1, <1>4 DEF CellOf
<1>6. Stray # Unfilled
  <2>1. Stray[1] = "stray" /\ Unfilled[1] = "unfilled"
    BY DEF Stray, Unfilled
  <2> QED BY <2>1
<1> QED BY <1>2, <1>5, <1>6

-----------------------------------------------------------------------------
(* Files that can be left behind.                                          *)

\* Payload that the table refers to is in place or still zero, as far as it is
\* in the file at all.
Payload(c, bat, f) ==
    \A b \in 0..(Blocks(c) - 1) :
        LET e == bat[Slot(c, b)]
        IN  e.state \notin {"absent", "zero"} =>
               \/ e.off + Width(c) > Len(f)
               \/ \A k \in 0..(Width(c) - 1) : f[e.off + k + 1] \in {Zero, merge_block(c, b)[k]}

\* The table is still as created, or refers to such payload.
Tables(c, bat, f) ==
    \/ \A n \in 1..BatLen(c) : f[3 + n] = BlankTable(c)[n]
    \/ /\ \A n \in 1..BatLen(c) : f[3 + n] \in {BlankTable(c)[n], Table(c, bat)[n]}
       /\ Payload(c, bat, f)

\* What a power loss leaves of such a table.
Remains(c, bat, f) ==
    \/ \A n \in 1..BatLen(c) : f[3 + n] \in {BlankTable(c)[n], Junk}
    \/ /\ \A n \in 1..BatLen(c) : f[3 + n] \in {BlankTable(c)[n], Table(c, bat)[n], Junk}
       /\ Payload(c, bat, f)

\* Cell v is the chain's, zero or an error, or some of the BAT is lost.
FairOrStray(c, m, f, v) ==
    \/ Seen(m, f)[v] \in {Zero, Unreadable, VirtualCell(c, v)}
    \/ Seen(m, f)[v] = Stray /\ Openable(f) /\ \E n \in 1..BatLen(c) : f[3 + n][1] # "bat"

\* Such a file shows nothing wrong where its table is in place.
LEMMA FileShows ==
    ASSUME NEW c \in Chains, NEW m, ~m.zst, NEW bat, Len(bat) = bat_entries(Size, Width(c)), NEW f,
           Openable(f) => Framed(c, f) /\ Remains(c, bat, f),
           NEW v \in 0..(Size - 1)
    PROVE  FairOrStray(c, m, f, v)
<1> DEFINE blank == EmptyBat(Size, Width(c))
           seen == ReadImage(f, Size)[v]
<1>1. /\ Size \in Nat /\ Width(c) \in 1..ChunkCells /\ bat_entries(Size, Width(c)) \in Nat
      /\ metadata_offset = 2 /\ bat_offset = 3
  BY FSizes
<1>2. SUFFICES \/ seen \in {Zero, Unreadable, VirtualCell(c, v)}
               \/ seen = Stray /\ Openable(f) /\ \E n \in 1..BatLen(c) : f[3 + n][1] # "bat"
  BY DEF FairOrStray, Seen
<1>3. CASE ~Openable(f)
  BY <1>3 DEF ReadImage
<1>4. CASE Openable(f)
  <2> DEFINE b == v \div Width(c)
             k == v % Width(c)
             e == PayloadEntry(f, b)
  <2>1. f[1] = <<"head", 2, 3, BatLen(c)>> /\ f[3] = <<"meta", Size, Width(c)>>
    BY <1>1, <1>4 DEF Framed, HeadCell, MetaCell
  <2>2. f[1][2] = 2 /\ f[1][3] = 3 /\ f[1][4] = BatLen(c)
    BY <2>1
  <2>3. f[f[1][2] + 1] = <<"meta", Size, Width(c)>>
    BY <2>1, <2>2
  <2>4. SizeOf(f) = Size /\ BlockSizeOf(f) = Width(c)
    BY <2>3 DEF SizeOf, BlockSizeOf
  <2>5. b \in 0..(Blocks(c) - 1) /\ k \in 0..(Width(c) - 1) /\ merge_block(c, b)[k] = VirtualCell(c, v)
    BY AddressCell
  <2>6. /\ BatCellFor(f, b)[1] # "bat" => seen = Stray
        /\ BatCellFor(f, b)[1] = "bat" /\ e.state \in {"absent", "zero"} => seen = Zero
        /\ BatCellFor(f, b)[1] = "bat" /\ e.state \notin {"absent", "zero"} =>
              seen = IF e.off + Width(c) > Len(f) THEN Unreadable
                     ELSE IF f[e.off + k + 1] = Unfilled THEN Zero ELSE f[e.off + k + 1]
    <3>1. CASE BatCellFor(f, b)[1] = "bat"
      BY <1>4, <2>2, <2>4, <3>1, ImageCell, 3 \in Nat
    <3>2. CASE BatCellFor(f, b)[1] # "bat"
      BY <1>4, <2>2, <2>4, <3>2, StrayCell, 3 \in Nat
    <3> QED BY <3>1, <3>2
  <2> HIDE DEF b, k, e
  <2>7. PICK n \in 1..BatLen(c) :
           /\ BatCellFor(f, b) = f[3 + n]
           /\ \A t : (Len(t) = bat_entries(Size, Width(c)) /\ f[3 + n] = Table(c, t)[n]) => e = t[Slot(c, b)]
    <3>1. b \in 0..(block_count(Size, Width(c)) - 1) /\ f[1][4] = bat_length(Size, Width(c))
      BY <2>2, <2>5 DEF Blocks, BatLen
    <3>2. \E n \in 1..bat_length(Size, Width(c)) :
             /\ BatCellFor(f, b) = f[3 + n]
             /\ \A t : (Len(t) = bat_entries(Size, Width(c))
                       /\ f[3 + n] = encode(t, bat_length(Size, Width(c)))[n]) =>
                PayloadEntry(f, b) = t[payload_index(b, chunk_ratio(Width(c))) + 1]
      BY <1>1, <2>2, <2>4, <3>1, EntryFound, 3 \in Nat
    <3> QED BY <3>2 DEF BatLen, Table, Slot, e
  <2>8. Len(blank) = bat_entries(Size, Width(c)) /\ blank[Slot(c, b)] = Empty /\ BlankTable(c) = Table(c, blank)
    <3>1. blank = [i \in 1..bat_entries(Size, Width(c)) |-> blank[i]]
      BY DEF EmptyBat
    <3>2. Len(blank) = bat_entries(Size, Width(c))
      BY <1>1, <3>1, FcnListed
    <3>3. Slot(c, b) \in 1..bat_entries(Size, Width(c))
      <4>1. LET i == payload_index(b, chunk_ratio(Width(c)))
            IN  i \in Nat /\ i < bat_entries(Size, Width(c))
        BY <1>1, <2>5, Geometry DEF Blocks
      <4> QED BY <1>1, <4>1 DEF Slot
    <3> QED BY <3>2, <3>3 DEF EmptyBat, BlankTable, Table
  <2>9. f[3 + n] = BlankTable(c)[n] => e.state = "absent"
    <3>1. f[3 + n] = BlankTable(c)[n] => e = Empty
      BY <2>7, <2>8
    <3> QED BY <3>1 DEF Empty
  <2>12. Table(c, bat)[n][1] = "bat" /\ BlankTable(c)[n][1] = "bat"
    BY EncodedCell DEF Table, BlankTable
  <2>10. CASE f[3 + n] = BlankTable(c)[n]
    BY <2>6, <2>7, <2>9, <2>10, <2>12
  <2>11. CASE f[3 + n] = Table(c, bat)[n] /\ Payload(c, bat, f)
    <3>1. e = bat[Slot(c, b)]
      BY <2>7, <2>11
    <3>5. BatCellFor(f, b)[1] = "bat"
      BY <2>7, <2>11, <2>12
    <3>2. CASE e.state \in {"absent", "zero"}
      BY <2>6, <3>2, <3>5
    <3>3. CASE e.state \notin {"absent", "zero"} /\ e.off + Width(c) > Len(f)
      BY <2>6, <3>3, <3>5
    <3>4. CASE e.state \notin {"absent", "zero"} /\ ~(e.off + Width(c) > Len(f))
      <4>1. f[e.off + k + 1] \in {Zero, VirtualCell(c, v)}
        BY <2>5, <2>11, <3>1, <3>4 DEF Payload
      <4>2. seen = IF f[e.off + k + 1] = Unfilled THEN Zero ELSE f[e.off + k + 1]
        BY <2>6, <3>4, <3>5
      <4> QED BY <4>1, <4>2
    <3> QED BY <3>2, <3>3, <3>4
  <2>13. CASE f[3 + n] = Junk
    <3>1. f[3 + n][1] # "bat"
      BY <2>13 DEF Junk
    <3>2. seen = Stray
      BY <2>6, <2>7, <3>1
    <3> QED BY <1>4, <3>1, <3>2
  <2> QED BY <1>4, <2>10, <2>11, <2>13 DEF Remains
<1> QED BY <1>3, <1>4

\* A table that is all in place leaves no exception.
LEMMA FairFile ==
    ASSUME NEW c \in Chains, NEW m, ~m.zst, NEW bat, Len(bat) = bat_entries(Size, Width(c)), NEW f,
           Openable(f) => Framed(c, f) /\ Tables(c, bat, f)
    PROVE  Fair(c, m, f)
<1>1. Tables(c, bat, f) => Remains(c, bat, f)
  BY DEF Tables, Remains
<1>2. ASSUME NEW v \in 0..(Size - 1) PROVE FairOrStray(c, m, f, v)
  BY <1>1, FileShows
<1>3. ASSUME Openable(f), NEW n \in 1..BatLen(c) PROVE f[3 + n][1] = "bat"
  <2>1. Table(c, bat)[n][1] = "bat" /\ BlankTable(c)[n][1] = "bat"
    BY EncodedCell DEF Table, BlankTable
  <2> QED BY <1>3, <2>1 DEF Tables
<1> QED BY <1>2, <1>3 DEF Fair, FairOrStray

\* Block b can be read back: it is zero, or its payload is in place.
Held(c, bat, f, b) ==
    LET e == bat[Slot(c, b)]
    IN  \/ e = ZeroEntry /\ is_all_zero(merge_block(c, b))
        \/ /\ e.state = "full" /\ ~(e.off + Width(c) > Len(f))
           /\ \A k \in 0..(Width(c) - 1) : f[e.off + k + 1] = merge_block(c, b)[k]

\* A file with its whole table and all its blocks is a copy of the chain.
LEMMA ExactImage ==
    ASSUME NEW c \in Chains, NEW f, Openable(f), NEW bo \in Nat, f[1][3] = bo, f[1][4] = BatLen(c),
           SizeOf(f) = Size, BlockSizeOf(f) = Width(c), NEW bat, Len(bat) = bat_entries(Size, Width(c)),
           \A n \in 1..BatLen(c) : f[bo + n] = Table(c, bat)[n],
           \A b \in 0..(Blocks(c) - 1) : Held(c, bat, f, b),
           NEW v \in 0..(Size - 1)
    PROVE  ReadImage(f, Size)[v] = VirtualCell(c, v)
<1> DEFINE b == v \div Width(c)
           k == v % Width(c)
           e == PayloadEntry(f, b)
           seen == ReadImage(f, Size)[v]
           D == 0..(Width(c) - 1)
<1>1. Size \in Nat /\ Width(c) \in 1..ChunkCells
  BY FSizes
<1>2. b \in 0..(Blocks(c) - 1) /\ k \in D /\ merge_block(c, b)[k] = VirtualCell(c, v)
  BY AddressCell
<1> HIDE DEF b, k, e, seen
<1>4. BatCellFor(f, b)[1] = "bat" /\ e = bat[Slot(c, b)]
  <2>1. b \in 0..(block_count(Size, Width(c)) - 1) /\ f[1][4] = bat_length(Size, Width(c))
    BY <1>2 DEF Blocks, BatLen
  <2>2. PICK n \in 1..bat_length(Size, Width(c)) :
           /\ BatCellFor(f, b) = f[bo + n]
           /\ \A t : (Len(t) = bat_entries(Size, Width(c))
                     /\ f[bo + n] = encode(t, bat_length(Size, Width(c)))[n]) =>
              PayloadEntry(f, b) = t[payload_index(b, chunk_ratio(Width(c))) + 1]
    BY <1>1, <2>1, EntryFound
  <2>3. f[bo + n] = encode(bat, bat_length(Size, Width(c)))[n]
    BY DEF BatLen, Table
  <2>4. encode(bat, bat_length(Size, Width(c)))[n][1] = "bat"
    BY EncodedCell
  <2> QED BY <2>2, <2>3, <2>4 DEF e, Slot
<1>3. /\ e.state \in {"absent", "zero"} => seen = Zero
      /\ e.state \notin {"absent", "zero"} =>
            seen = IF e.off + Width(c) > Len(f) THEN Unreadable
                   ELSE IF f[e.off + k + 1] = Unfilled THEN Zero ELSE f[e.off + k + 1]
  BY <1>4, ImageCell DEF b, k, e, seen
<1>5. Held(c, bat, f, b)
  BY <1>2
<1>6. CASE e = ZeroEntry /\ is_all_zero(merge_block(c, b))
  <2>1. seen = Zero
    BY <1>3, <1>6 DEF ZeroEntry
  <2>2. merge_block(c, b)[k] = Zero
    BY <1>2, <1>6, Composite DEF is_all_zero
  <2> QED BY <1>2, <2>1, <2>2 DEF seen
<1>7. CASE /\ e.state = "full" /\ ~(e.off + Width(c) > Len(f))
           /\ \A i \in D : f[e.off + i + 1] = merge_block(c, b)[i]
  <2>1. seen = IF merge_block(c, b)[k] = Unfilled THEN Zero ELSE merge_block(c, b)[k]
    BY <1>2, <1>3, <1>7
  <2>2. merge_block(c, b)[k] # Unfilled
    BY <1>2, Composite
  <2> QED BY <1>2, <2>1, <2>2 DEF seen
<1> QED BY <1>4, <1>5, <1>6, <1>7 DEF Held

\* What a power loss does to a file.
LEMMA LossCells ==
    ASSUME NEW f, Tidy(f), NEW g \in Losses(f)
    PROVE  /\ Tidy(g) /\ Len(g.cells) = Len(f.cells) /\ g.dirty = {}
           /\ \A i \in 1..Len(f.cells) : g.cells[i] = f.cells[i] \/ (g.cells[i] = Junk /\ i \in f.dirty)
<1>1. Len(f.cells) \in Nat
  BY ListedFcn DEF Tidy
<1>2. PICK lost \in {{}, f.dirty} \cup {{i} : i \in f.dirty} :
         g = [cells |-> [i \in 1..Len(f.cells) |-> IF i \in lost THEN Junk ELSE f.cells[i]],
              dirty |-> {}]
  BY DEF Losses
<1>3. lost \subseteq f.dirty
  OBVIOUS
<1>4. /\ g.cells = [i \in 1..Len(f.cells) |-> IF i \in lost THEN Junk ELSE f.cells[i]]
      /\ g.dirty = {} /\ g = [cells |-> g.cells, dirty |-> g.dirty]
  BY <1>2
<1>5. g.cells = [i \in 1..Len(f.cells) |-> g.cells[i]]
  BY <1>4
<1>6. Listed(g.cells) /\ Len(g.cells) = Len(f.cells)
  BY <1>1, <1>5, FcnListed
<1>7. Tidy(g)
  BY <1>4, <1>6 DEF Tidy
<1> QED BY <1>3, <1>4, <1>6, <1>7

\* The headers are not there yet.
Headless(f) == Len(f) = 0 \/ f[1][1] # "head"

\* On a compressed destination nothing the table refers to can be lost.
Durable(c, bat, f) ==
    /\ Pending(c, f) = {}
    /\ \A b \in 0..(Blocks(c) - 1) :
          LET e == bat[Slot(c, b)]
          IN  e.state \notin {"absent", "zero"} => e.off \in Nat /\ Start(c) <= e.off

\* A file as it is on disk at any time of a direct write.
Sketch(c, m, bat, f) ==
    \/ Headless(f.cells)
    \/ /\ Framed(c, f.cells) /\ Start(c) <= Len(f.cells)
       /\ Tables(c, bat, f.cells)
       /\ (m.ntfs /\ ~m.fixed) => \/ \A n \in 1..BatLen(c) : f.cells[3 + n] = BlankTable(c)[n]
                                  \/ Durable(c, bat, f)

\* What a power loss leaves of it shows nothing wrong either, where it leaves
\* the table.
LEMMA LossFair ==
    ASSUME NEW c \in Chains, NEW m, ~m.zst, m.ntfs, ~m.fixed,
           NEW bat, Len(bat) = bat_entries(Size, Width(c)),
           NEW f, Tidy(f), Sketch(c, m, bat, f), NEW g \in Losses(f)
    PROVE  Excused(c, m, g.cells)
<1> DEFINE F == f.cells
           G == g.cells
<1>1. /\ Len(G) = Len(F) /\ Len(F) \in Nat
      /\ \A i \in 1..Len(F) : G[i] = F[i] \/ (G[i] = Junk /\ i \in f.dirty)
  BY LossCells, ListedFcn DEF Tidy
<1>2. /\ BatLen(c) \in Nat \ {0} /\ Start(c) = 3 + BatLen(c) /\ metadata_offset = 2 /\ bat_offset = 3
      /\ Width(c) \in Nat \ {0}
  BY FSizes
<1>3. Junk[1] = "junk"
  BY DEF Junk
<1> HIDE DEF F, G
<1>4. ASSUME Openable(G) PROVE Framed(c, G) /\ Remains(c, bat, G)
  <2>1. Len(G) > 0 /\ G[1][1] = "head"
    BY <1>4 DEF Openable
  <2>2. 1 \in 1..Len(F) /\ G[1] # Junk
    BY <1>1, <1>3, <2>1
  <2>3. G[1] = F[1] /\ ~Headless(F)
    BY <1>1, <2>1, <2>2 DEF Headless
  <2>4. /\ Framed(c, F) /\ Start(c) <= Len(F) /\ Tables(c, bat, F)
        /\ (\A n \in 1..BatLen(c) : F[3 + n] = BlankTable(c)[n]) \/ Durable(c, bat, f)
    BY <2>3 DEF Sketch, F
  <2>5. G[1] = <<"head", 2, 3, BatLen(c)>>
    BY <1>2, <2>3, <2>4 DEF Framed, HeadCell
  <2>6. G[1][2] = 2 /\ G[1][3] = 3 /\ G[1][4] = BatLen(c)
    BY <2>5
  <2>7. G[3] = F[3]
    <3>1. G[3][1] = "meta"
      BY <1>4, <2>6 DEF Openable
    <3>2. 3 \in 1..Len(F) /\ G[3] # Junk
      BY <1>1, <1>2, <1>3, <2>4, <3>1
    <3> QED BY <1>1, <3>2
  <2>8. Framed(c, G)
    BY <2>3, <2>4, <2>7 DEF Framed
  <2>9. ASSUME NEW n \in 1..BatLen(c) PROVE G[3 + n] \in {F[3 + n], Junk}
    <3>1. 3 + n \in 1..Len(F)
      BY <1>1, <1>2, <2>4
    <3> QED BY <1>1, <3>1
  <2>10. CASE \A n \in 1..BatLen(c) : F[3 + n] = BlankTable(c)[n]
    BY <2>8, <2>9, <2>10 DEF Remains
  <2>11. CASE ~\A n \in 1..BatLen(c) : F[3 + n] = BlankTable(c)[n]
    <3>1. /\ \A n \in 1..BatLen(c) : F[3 + n] \in {BlankTable(c)[n], Table(c, bat)[n]}
          /\ Payload(c, bat, F) /\ Durable(c, bat, f)
      BY <2>4, <2>11 DEF Tables
    <3>2. ASSUME NEW b \in 0..(Blocks(c) - 1), bat[Slot(c, b)].state \notin {"absent", "zero"},
                 ~(bat[Slot(c, b)].off + Width(c) > Len(G)), NEW k \in 0..(Width(c) - 1)
          PROVE  G[bat[Slot(c, b)].off + k + 1] \in {Zero, merge_block(c, b)[k]}
      <4> DEFINE e == bat[Slot(c, b)]
                 i == e.off + k + 1
      <4>1. e.off \in Nat /\ Start(c) <= e.off /\ Pending(c, f) = {}
        BY <3>1, <3>2 DEF Durable
      <4>2. F[i] \in {Zero, merge_block(c, b)[k]}
        BY <1>1, <3>1, <3>2 DEF Payload
      <4>3. i \in 1..Len(F) /\ i > Start(c)
        <5>1. ~(e.off + Width(c) > Len(G))
          BY <3>2
        <5> HIDE DEF e
        <5> QED BY <1>1, <1>2, <4>1, <5>1
      <4> HIDE DEF i
      <4>4. i \notin f.dirty
        BY <4>1, <4>3 DEF Pending
      <4>5. G[i] = F[i]
        BY <1>1, <4>3, <4>4
      <4> QED BY <4>2, <4>5 DEF i
    <3>3. Payload(c, bat, G)
      BY <3>2 DEF Payload
    <3> QED BY <2>8, <2>9, <3>1, <3>3 DEF Remains
  <2> QED BY <2>10, <2>11
<1>5. ASSUME NEW v \in 0..(Size - 1) PROVE FairOrStray(c, m, G, v)
  BY <1>4, FileShows
<1>6. Excused(c, m, G)
  BY <1>5 DEF Excused, FairOrStray
<1> QED BY <1>6 DEF G

\* So it may be left behind.
LEMMA SafeFile ==
    ASSUME NEW c \in Chains, NEW m, ~m.zst, NEW bat, Len(bat) = bat_entries(Size, Width(c)),
           NEW f, Tidy(f), Fresh(f), Sketch(c, m, bat, f), Len(f.cells) <= Total(c),
           m.ntfs => \A i, j \in Pending(c, f) : i = j
    PROVE  Safe(c, m, f)
<1>1. Openable(f.cells) => Framed(c, f.cells) /\ Tables(c, bat, f.cells)
  <2>1. ASSUME Openable(f.cells) PROVE ~Headless(f.cells)
    BY <2>1 DEF Openable, Headless
  <2> QED BY <2>1 DEF Sketch
<1>2. Fair(c, m, f.cells)
  BY <1>1, FairFile
<1>3. ASSUME m.ntfs /\ ~m.fixed, NEW g \in Losses(f) PROVE Excused(c, m, g.cells)
  BY <1>3, LossFair
<1> QED BY <1>2, <1>3 DEF Safe

\* A file that begins with anything that flatten writes is not an old one.
LEMMA NewCells ==
    /\ Fti[1] = "fti" /\ Fti # <<"old">> /\ Junk # <<"old">>
    /\ \A a, b, n : HeadCell(a, b, n) # <<"old">> /\ HeadCell(a, b, n)[1] = "head"
    /\ \A n : Tar(n) # <<"old">>
<1>1. <<"old">>[1] = "old"
  OBVIOUS
<1>2. Fti[1] = "fti" /\ Junk[1] = "junk"
  BY DEF Fti, Junk
<1>3. \A a, b, n : HeadCell(a, b, n)[1] = "head"
  BY DEF HeadCell
<1>4. \A n : Tar(n)[1] = "tar"
  BY DEF Tar
<1> QED BY <1>1, <1>2, <1>3, <1>4

\* An empty file can be left behind.
LEMMA NoCells ==
    ASSUME NEW f, Tidy(f), Len(f.cells) = 0
    PROVE  Fresh(f) /\ Headless(f.cells)
<1>1. f.cells \in Seq({f.cells[i] : i \in DOMAIN f.cells})
  BY DEF Tidy, Listed
<1>2. f.cells = <<>>
  BY <1>1, EmptySeq
<1> QED BY <1>2 DEF Fresh, Headless

\* The fields of the writer.
LEMMA WriterFields ==
    ASSUME NEW c \in Chains, NEW m, NEW x, NEW b, WriterOK(c, m, x, b)
    PROVE  /\ x.size = Size /\ x.bs = Width(c) /\ x.fixed = m.fixed
           /\ Listed(x.bat) /\ Len(x.bat) = bat_entries(Size, Width(c))
           /\ x.cursor \in Nat /\ Start(c) <= x.cursor /\ x.cursor <= Start(c) + b * Width(c)
BY DEF WriterOK

\* How many calls there are to make.
LEMMA CallCounts ==
    ASSUME NEW c \in Chains, NEW m, NEW x, NEW b, WriterOK(c, m, x, b)
    PROVE  /\ Listed(finish(x)) /\ Len(finish(x)) = IF x.fixed THEN BatLen(c) + 1 ELSE BatLen(c) + 2
           /\ x.cursor = Start(c) =>
                 /\ Listed(create(x))
                 /\ Len(create(x)) = IF x.fixed THEN Start(c) + BatLen(c) + 3 ELSE Start(c) + 3
<1>1. x.size = Size /\ x.bs = Width(c) /\ Size \in Nat /\ Width(c) \in 1..ChunkCells
  BY WriterFields, FSizes
<1>2. /\ Listed(finish(x))
      /\ ~x.fixed => Len(finish(x)) = BatLen(c) + 2
      /\ x.fixed => Len(finish(x)) = BatLen(c) + 1
  BY <1>1, FinishCalls DEF BatLen
<1>3. ASSUME x.cursor = Start(c)
      PROVE  /\ Listed(create(x))
             /\ ~x.fixed => Len(create(x)) = Start(c) + 3
             /\ x.fixed => Len(create(x)) = Start(c) + BatLen(c) + 3
  <2>1. x.cursor = payload_start(Size, Width(c))
    BY <1>3 DEF Start
  <2> QED BY <1>1, <2>1, CreateCalls DEF BatLen, Start
<1>4. CASE x.fixed
  BY <1>2, <1>3, <1>4
<1>5. CASE ~x.fixed
  BY <1>2, <1>3, <1>5
<1> QED BY <1>4, <1>5

\* The fields of an entry.
LEMMA EntryFields ==
    ASSUME NEW o
    PROVE  /\ FullEntry(o).state = "full" /\ FullEntry(o).off = o
           /\ ZeroEntry.state = "zero" /\ Empty.state = "absent"
BY DEF FullEntry, ZeroEntry, Empty

\* A fixed image has a place for every block.
LEMMA FixedSlot ==
    ASSUME NEW c \in Chains, NEW m, NEW x, NEW d, WriterOK(c, m, x, d), m.fixed,
           NEW b \in 0..(Blocks(c) - 1)
    PROVE  /\ x.bat[Slot(c, b)] = FullEntry(Start(c) + b * Width(c))
           /\ x.bat[Slot(c, b)].state = "full" /\ x.bat[Slot(c, b)].off = Start(c) + b * Width(c)
           /\ Start(c) + b * Width(c) \in Nat /\ Start(c) <= Start(c) + b * Width(c)
<1>1. x.bat[Slot(c, b)] = FullEntry(Start(c) + b * Width(c))
  BY DEF WriterOK
<1>2. Start(c) \in Nat /\ b \in Nat /\ Width(c) \in Nat
  BY FSizes
<1>3. b * Width(c) \in Nat
  BY <1>2
<1> QED BY <1>1, <1>2, <1>3, EntryFields

\* Where a cell of the payload is.
LEMMA InPayload ==
    ASSUME NEW start \in Nat, NEW off \in Nat, start <= off, NEW width \in Nat \ {0}, NEW len \in Nat,
           ~(off + width > len), NEW k \in 0..(width - 1)
    PROVE  off + k + 1 \in 1..len /\ off + k + 1 > start
OBVIOUS

\* create can be interrupted.
LEMMA CreatingSafe ==
    ASSUME NEW c \in Chains, NEW m, ~m.zst, NEW x, WriterOK(c, m, x, 0), NEW t, NEW f, Tidy(f),
           NEW j \in Nat, Creating(c, m, x, t, f, j)
    PROVE  Safe(c, m, f) /\ (j > 0 => Fresh(f))
<1> DEFINE F == f.cells
<1>1. /\ BatLen(c) \in Nat \ {0} /\ Start(c) = 3 + BatLen(c) /\ metadata_offset = 2 /\ bat_offset = 3
      /\ Width(c) \in Nat \ {0} /\ Total(c) \in Nat /\ Start(c) <= Total(c) /\ Blocks(c) \in Nat
  BY FSizes
<1>2. Len(x.bat) = bat_entries(Size, Width(c)) /\ x.fixed = m.fixed
  BY WriterFields
<1>3. Pending(c, f) = {} /\ Len(F) \in Nat
  BY ListedFcn DEF Creating, Tidy
<1>4. ASSUME Fresh(f), Sketch(c, m, x.bat, f), Len(F) <= Total(c) PROVE Safe(c, m, f)
  BY <1>2, <1>3, <1>4, SafeFile
<1>5. CASE j = 0
  <2>1. CASE f \in Olds
    BY <1>5, <2>1 DEF Safe
  <2>2. CASE f = EmptyFile
    <3>1. Len(F) = 0
      BY <2>2, AfterOther
    <3>2. Fresh(f) /\ Sketch(c, m, x.bat, f)
      BY <3>1, NoCells DEF Sketch
    <3> QED BY <1>1, <1>4, <1>5, <3>1, <3>2
  <2> QED BY <1>5, <2>1, <2>2 DEF Creating
<1>6. CASE j > 0 /\ j <= Start(c) + 1
  <2>1. Len(F) = j - 1
    BY <1>6 DEF Creating
  <2>2. Len(F) <= Total(c)
    BY <1>1, <1>6, <2>1
  <2>3. CASE j = 1
    <3>1. Len(F) = 0
      BY <2>1, <2>3
    <3>2. Fresh(f) /\ Sketch(c, m, x.bat, f)
      BY <3>1, NoCells DEF Sketch
    <3> QED BY <1>4, <2>2, <3>2
  <2>4. CASE j # 1
    <3>1. F[1] = Fti
      <4>1. 1 < j
        BY <1>6, <2>4
      <4> QED BY <1>6, <4>1 DEF Creating
    <3>2. Fresh(f) /\ Sketch(c, m, x.bat, f)
      BY <3>1, NewCells DEF Fresh, Sketch, Headless
    <3> QED BY <1>4, <2>2, <3>2
  <2> QED BY <2>3, <2>4
<1>7. CASE j > Start(c) + 1
  <2>1. /\ Len(F) \in {Start(c), Total(c)} /\ Framed(c, F)
        /\ \A i \in 1..Len(F) : i > Start(c) => F[i] = Zero
    <3>1. j > 0 /\ Start(c) + 1 < j /\ ~(j <= Start(c) + 1)
      BY <1>1, <1>7
    <3> QED BY <3>1 DEF Creating
  <2>2. \A n \in 1..BatLen(c) :
           /\ F[3 + n] \in {BlankTable(c)[n], Table(c, x.bat)[n]}
           /\ ~x.fixed => F[3 + n] = BlankTable(c)[n]
    <3>1. \A n \in 1..BatLen(c) : 4 + n <= j
      BY <1>1, <1>7
    <3> QED BY <3>1 DEF Creating
  <2>3. Fresh(f)
    BY <2>1, NewCells DEF Framed, Fresh
  <2>4. Start(c) <= Len(F) /\ Len(F) <= Total(c)
    BY <1>1, <2>1
  <2>5. CASE ~m.fixed
    <3>1. \A n \in 1..BatLen(c) : F[3 + n] = BlankTable(c)[n]
      BY <1>2, <2>2, <2>5
    <3>2. Sketch(c, m, x.bat, f)
      BY <2>1, <2>4, <3>1 DEF Sketch, Tables
    <3> QED BY <1>4, <2>3, <2>4, <3>2
  <2>6. CASE m.fixed
    <3>1. ASSUME NEW b \in 0..(Blocks(c) - 1), ~(x.bat[Slot(c, b)].off + Width(c) > Len(F)),
                 NEW k \in 0..(Width(c) - 1)
          PROVE  F[x.bat[Slot(c, b)].off + k + 1] = Zero
      <4> DEFINE off == x.bat[Slot(c, b)].off
      <4>1. off \in Nat /\ Start(c) <= off /\ Start(c) \in Nat
        BY <1>1, <2>6, FixedSlot
      <4>3. ~(off + Width(c) > Len(F))
        BY <3>1
      <4> HIDE DEF off
      <4>4. off + k + 1 \in 1..Len(F) /\ off + k + 1 > Start(c)
        BY <1>1, <1>3, <4>1, <4>3, InPayload
      <4>5. F[off + k + 1] = Zero
        BY <2>1, <4>4
      <4> QED BY <4>5 DEF off
    <3>2. Payload(c, x.bat, F)
      BY <3>1 DEF Payload
    <3>3. Sketch(c, m, x.bat, f)
      BY <2>1, <2>2, <2>4, <2>6, <3>2 DEF Sketch, Tables
    <3> QED BY <1>4, <2>3, <2>4, <3>3
  <2> QED BY <2>5, <2>6
<1>8. j = 0 \/ (j > 0 /\ j <= Start(c) + 1) \/ j > Start(c) + 1
  BY <1>1
<1> QED BY <1>5, <1>6, <1>7, <1>8

\* The places of different blocks of a fixed image do not overlap.
LEMMA Apart ==
    ASSUME NEW width \in Nat \ {0}, NEW start \in Nat, NEW a \in Nat, NEW b \in Nat, b < a
    PROVE  start + b * width \in Nat /\ start + b * width + width <= start + a * width
<1>1. b * width \in Nat /\ a * width \in Nat /\ b * width + width <= a * width
  BY LaterChunk
<1> QED BY <1>1

\* The copy of the blocks can be interrupted, n cells into block b.
LEMMA LaidSafe ==
    ASSUME NEW c \in Chains, NEW m, ~m.zst, NEW x, NEW d, WriterOK(c, m, x, d), NEW f, Tidy(f),
           NEW b \in 0..Blocks(c), NEW n \in 0..Width(c), NEW top \in Nat,
           Laid(c, x, f.cells, b, top),
           m.fixed => /\ top = Start(c) + b * Width(c) + n
                      /\ \A k \in 0..(n - 1) :
                            f.cells[Start(c) + b * Width(c) + k + 1] = merge_block(c, b)[k],
           m.ntfs => \A i, j \in Pending(c, f) : i = j
    PROVE  Safe(c, m, f) /\ Fresh(f)
<1> DEFINE F == f.cells
           base == Start(c) + b * Width(c)
<1>1. /\ BatLen(c) \in Nat \ {0} /\ Start(c) = 3 + BatLen(c) /\ Start(c) \in Nat
      /\ Width(c) \in Nat \ {0} /\ Total(c) \in Nat /\ Start(c) <= Total(c) /\ Blocks(c) \in Nat
  BY FSizes
<1>2. Len(x.bat) = bat_entries(Size, Width(c)) /\ x.fixed = m.fixed
  BY WriterFields
<1>3. /\ Framed(c, F) /\ Start(c) <= top /\ top <= Total(c)
      /\ Len(F) = IF m.fixed THEN Total(c) ELSE top
      /\ \A i \in 1..BatLen(c) : F[3 + i] = IF m.fixed THEN Table(c, x.bat)[i] ELSE BlankTable(c)[i]
      /\ \A i \in 1..Len(F) : i > top => F[i] = Zero
      /\ \A a \in 0..(b - 1) : Copied(c, x, F, a, top)
  BY <1>2 DEF Laid
<1>4. Start(c) <= Len(F) /\ Len(F) <= Total(c) /\ Len(F) \in Nat
  <2>1. CASE m.fixed
    BY <1>1, <1>3, <2>1
  <2>2. CASE ~m.fixed
    BY <1>1, <1>3, <2>2
  <2> QED BY <2>1, <2>2
<1>5. Fresh(f)
  BY <1>3, NewCells DEF Framed, Fresh
<1>6. CASE ~m.fixed
  <2>1. \A i \in 1..BatLen(c) : F[3 + i] = BlankTable(c)[i]
    BY <1>3, <1>6
  <2>2. Sketch(c, m, x.bat, f)
    BY <1>3, <1>4, <2>1 DEF Sketch, Tables
  <2> QED BY <1>2, <1>4, <1>5, <2>2, SafeFile
<1>7. CASE m.fixed
  <2>0. top = base + n /\ \A k \in 0..(n - 1) : F[base + k + 1] = merge_block(c, b)[k]
    BY <1>7
  <2>1. ASSUME NEW a \in 0..(Blocks(c) - 1), ~(x.bat[Slot(c, a)].off + Width(c) > Len(F)),
               NEW k \in 0..(Width(c) - 1)
        PROVE  F[x.bat[Slot(c, a)].off + k + 1] \in {Zero, merge_block(c, a)[k]}
    <3> DEFINE off == x.bat[Slot(c, a)].off
               i == off + k + 1
    <3>1. off = Start(c) + a * Width(c) /\ off \in Nat /\ Start(c) <= off
          /\ x.bat[Slot(c, a)].state = "full"
      BY <1>7, FixedSlot
    <3>2. ~(off + Width(c) > Len(F))
      BY <2>1
    <3>3. base \in Nat /\ a \in Nat /\ b \in Nat /\ k \in Nat
      <4>1. a \in Nat /\ b \in Nat /\ k \in Nat
        BY <1>1
      <4>2. b * Width(c) \in Nat
        BY <1>1, <4>1
      <4> QED BY <1>1, <4>1, <4>2
    <3> HIDE DEF off, base
    <3>4. i \in 1..Len(F)
      BY <1>1, <1>4, <3>1, <3>2, InPayload
    <3>5. CASE a < b
      <4>1. Copied(c, x, F, a, top)
        BY <1>1, <1>3, <3>5
      <4>2. F[i] = merge_block(c, a)[k]
        BY <3>1, <4>1, EntryFields DEF Copied, off
      <4> QED BY <4>2 DEF off
    <3>6. CASE a = b
      <4>1. off = base
        BY <3>1, <3>6 DEF base
      <4>2. CASE k < n
        <5>1. k \in 0..(n - 1)
          BY <1>1, <4>2
        <5> QED BY <2>0, <3>6, <4>1, <5>1 DEF off
      <4>3. CASE ~(k < n)
        <5>1. i > top
          BY <1>1, <2>0, <3>3, <4>1, <4>3
        <5> QED BY <1>3, <3>4, <5>1 DEF off
      <4> QED BY <4>2, <4>3
    <3>7. CASE b < a
      <4>1. base + Width(c) <= off
        BY <1>1, <3>1, <3>3, <3>7, Apart DEF base
      <4>2. i > top
        BY <1>1, <2>0, <3>1, <3>3, <4>1
      <4> QED BY <1>3, <3>4, <4>2 DEF off
    <3> QED BY <3>3, <3>5, <3>6, <3>7
  <2>2. Payload(c, x.bat, F)
    BY <2>1 DEF Payload
  <2>3. Sketch(c, m, x.bat, f)
    BY <1>3, <1>4, <1>7, <2>2 DEF Sketch, Tables
  <2> QED BY <1>2, <1>4, <1>5, <2>3, SafeFile
<1> QED BY <1>6, <1>7

\* finish can be interrupted ...
LEMMA FinishingSafe ==
    ASSUME NEW c \in Chains, NEW m, ~m.zst, NEW x, WriterOK(c, m, x, Blocks(c)), NEW t, NEW f, Tidy(f),
           NEW j \in Nat, Finishing(c, m, x, t, f, j)
    PROVE  Safe(c, m, f) /\ Fresh(f) /\ Len(f.cells) <= Total(c)
<1> DEFINE F == f.cells
<1>1. /\ BatLen(c) \in Nat \ {0} /\ Start(c) = 3 + BatLen(c) /\ Start(c) \in Nat
      /\ Width(c) \in Nat \ {0} /\ Total(c) \in Nat /\ Start(c) <= Total(c) /\ Blocks(c) \in Nat
      /\ Total(c) = Start(c) + Blocks(c) * Width(c)
  BY FSizes
<1>2. /\ Len(x.bat) = bat_entries(Size, Width(c)) /\ x.fixed = m.fixed
      /\ x.cursor \in Nat /\ Start(c) <= x.cursor /\ x.cursor <= Total(c)
  BY <1>1, WriterFields
<1>3. /\ Framed(c, F) /\ Len(F) = IF x.fixed THEN Total(c) ELSE x.cursor
      /\ \A b \in 0..(Blocks(c) - 1) : Copied(c, x, F, b, Len(F))
      /\ \A n \in 1..BatLen(c) : F[3 + n] \in {BlankTable(c)[n], Table(c, x.bat)[n]}
      /\ m.ntfs => Pending(c, f) = {}
  BY DEF Finishing
<1>4. Start(c) <= Len(F) /\ Len(F) <= Total(c) /\ Len(F) \in Nat
  <2>1. CASE x.fixed
    BY <1>1, <1>3, <2>1
  <2>2. CASE ~x.fixed
    BY <1>2, <1>3, <2>2
  <2> QED BY <2>1, <2>2
<1>5. Fresh(f)
  BY <1>3, NewCells DEF Framed, Fresh
<1>6. ASSUME NEW b \in 0..(Blocks(c) - 1), x.bat[Slot(c, b)].state \notin {"absent", "zero"}
      PROVE  /\ x.bat[Slot(c, b)].off \in Nat /\ Start(c) <= x.bat[Slot(c, b)].off
             /\ \A k \in 0..(Width(c) - 1) : F[x.bat[Slot(c, b)].off + k + 1] = merge_block(c, b)[k]
  <2>1. Copied(c, x, F, b, Len(F))
    BY <1>3
  <2>2. x.bat[Slot(c, b)] # ZeroEntry
    BY <1>6, EntryFields
  <2> QED BY <2>1, <2>2 DEF Copied
<1>7. Payload(c, x.bat, F)
  BY <1>6 DEF Payload
<1>8. m.ntfs => Durable(c, x.bat, f)
  BY <1>3, <1>6 DEF Durable
<1>9. Sketch(c, m, x.bat, f)
  BY <1>3, <1>4, <1>7, <1>8 DEF Sketch, Tables
<1>10. m.ntfs => \A i, k \in Pending(c, f) : i = k
  BY <1>3
<1> QED BY <1>2, <1>4, <1>5, <1>9, <1>10, SafeFile

\* ... and leaves a complete copy.
LEMMA FinishingDone ==
    ASSUME NEW c \in Chains, NEW m, ~m.zst, NEW x, WriterOK(c, m, x, Blocks(c)), NEW f, Tidy(f),
           NEW j \in Nat, Finishing(c, m, x, <<>>, f, j)
    PROVE  Complete(c, m, f)
<1> DEFINE F == f.cells
<1>1. /\ BatLen(c) \in Nat \ {0} /\ Start(c) = 3 + BatLen(c) /\ Start(c) \in Nat
      /\ Width(c) \in Nat \ {0} /\ Total(c) \in Nat /\ metadata_offset = 2 /\ bat_offset = 3
  BY FSizes
<1>2. /\ Len(x.bat) = bat_entries(Size, Width(c)) /\ x.cursor \in Nat /\ Start(c) <= x.cursor
  BY WriterFields
<1>3. /\ Framed(c, F) /\ Len(F) = IF x.fixed THEN Total(c) ELSE x.cursor
      /\ \A b \in 0..(Blocks(c) - 1) : Copied(c, x, F, b, Len(F))
      /\ f.dirty = {} /\ Rest(<<>>, finish(x), j)
  BY DEF Finishing
<1>4. Start(c) <= Len(F) /\ Len(F) \in Nat
  <2>1. Start(c) <= Total(c)
    BY FSizes
  <2>2. CASE x.fixed
    BY <1>1, <1>3, <2>1, <2>2
  <2>3. CASE ~x.fixed
    BY <1>2, <1>3, <2>3
  <2> QED BY <2>2, <2>3
<1>5. BatLen(c) <= j
  <2>1. Listed(finish(x)) /\ Len(finish(x)) = IF x.fixed THEN BatLen(c) + 1 ELSE BatLen(c) + 2
    BY CallCounts
  <2>2. Len(finish(x)) \in Nat
    BY <2>1, ListedFcn
  <2>3. j = Len(finish(x))
    BY <1>3, <2>2, RestNone
  <2> QED BY <1>1, <2>1, <2>3
<1>6. \A n \in 1..BatLen(c) : F[3 + n] = Table(c, x.bat)[n]
  <2>1. \A n \in 1..BatLen(c) : n <= j
    BY <1>1, <1>5
  <2> QED BY <2>1 DEF Finishing
<1>7. F[1] = <<"head", 2, 3, BatLen(c)>> /\ F[3] = <<"meta", Size, Width(c)>>
  BY <1>1, <1>3 DEF Framed, HeadCell, MetaCell
<1> HIDE DEF F
<1>8. F[1][1] = "head" /\ F[1][2] = 2 /\ F[1][3] = 3 /\ F[1][4] = BatLen(c)
  BY <1>7
<1>9. F[F[1][2] + 1] = <<"meta", Size, Width(c)>>
  BY <1>7, <1>8
<1>10. SizeOf(F) = Size /\ BlockSizeOf(F) = Width(c) /\ F[F[1][2] + 1][1] = "meta"
  BY <1>9 DEF SizeOf, BlockSizeOf
<1>11. Openable(F)
  <2>1. Len(F) > 0 /\ 2 < Len(F) /\ 3 + BatLen(c) <= Len(F)
    BY <1>1, <1>4
  <2> QED BY <1>8, <1>10, <2>1 DEF Openable
<1>12. ASSUME NEW b \in 0..(Blocks(c) - 1) PROVE Held(c, x.bat, F, b)
  <2> DEFINE e == x.bat[Slot(c, b)]
  <2>1. Copied(c, x, F, b, Len(F))
    BY <1>3
  <2>2. CASE e = ZeroEntry /\ is_all_zero(merge_block(c, b))
    BY <2>2 DEF Held
  <2>3. CASE /\ e.state = "full" /\ e.off \in Nat /\ e.off + Width(c) <= Len(F)
             /\ \A k \in 0..(Width(c) - 1) : F[e.off + k + 1] = merge_block(c, b)[k]
    <3>1. ~(e.off + Width(c) > Len(F))
      <4> HIDE DEF e
      <4> QED BY <1>1, <1>4, <2>3
    <3> QED BY <2>3, <3>1 DEF Held
  <2> QED BY <2>1, <2>2, <2>3 DEF Copied
<1>13. \A v \in 0..(Size - 1) : ReadImage(F, Size)[v] = VirtualCell(c, v)
  BY <1>2, <1>6, <1>8, <1>10, <1>11, <1>12, ExactImage, 3 \in Nat
<1>14. Exact(c, m, F)
  BY <1>13 DEF Exact, Seen
<1>15. Fresh(f) /\ Len(F) <= Total(c)
  BY FinishingSafe DEF F
<1> QED BY <1>3, <1>14, <1>15 DEF Complete, F

-----------------------------------------------------------------------------
(* Putting a block into the file.                                          *)

\* write_payload_buf: on a compressed destination each cell is synced before
\* the next is written.
LEMMA PutList ==
    ASSUME NEW c \in Chains, NEW m, NEW off \in Nat, NEW b
    PROVE  LET L == PutCalls(c, m, off, b)
               W == Width(c)
               data(n) == merge_block(c, b)[n - 1]
           IN  /\ Listed(L)
               /\ ~m.ntfs => /\ Len(L) = W
                             /\ \A n \in 1..W : L[n] = Write(off + n - 1, data(n))
               /\ m.ntfs =>
                     /\ Len(L) \in {2 * W, 2 * W + 1}
                     /\ \A n \in 1..W : L[2 * n - 1] = Write(off + n - 1, data(n)) /\ L[2 * n] = Sync
                     /\ \A i \in 1..Len(L) : i > 2 * W => L[i] = Sync
<1> DEFINE W == Width(c)
           L == PutCalls(c, m, off, b)
           data(n) == merge_block(c, b)[n - 1]
           buf == [i \in 1..W |-> data(i)]
           all == write_all_at(off, buf)
<1>1. W \in Nat \ {0}
  BY FSizes
<1>2. Len(buf) = W
  <2>1. buf = [i \in 1..W |-> buf[i]]
    OBVIOUS
  <2> HIDE DEF buf
  <2> QED BY <1>1, <2>1, FcnListed
<1>3. \A n \in 1..W : buf[n] = data(n)
  OBVIOUS
<1> HIDE DEF buf
<1>4. Listed(all) /\ Len(all) = W /\ \A n \in 1..W : all[n] = Write(off + n - 1, data(n))
  <2>1. Listed(all) /\ Len(all) = Len(buf) /\ \A n \in 1..Len(buf) : all[n] = Write(off + n - 1, buf[n])
    BY <1>1, <1>2, WriteCalls
  <2> QED BY <1>2, <1>3, <2>1
<1>5. L = write_payload_buf(off, buf, IF m.ntfs THEN 1 ELSE 0) \o (IF m.ntfs THEN <<Sync>> ELSE <<>>)
  BY DEF PutCalls, buf
<1> HIDE DEF W, L, all
<1>6. CASE ~m.ntfs
  <2>1. L = all \o <<>>
    BY <1>5, <1>6 DEF write_payload_buf, all
  <2> DEFINE none == <<>>
  <2>2. Listed(none) /\ Len(none) = 0
    BY EmptySeq DEF Listed
  <2> HIDE DEF none
  <2>3. /\ Listed(all \o none) /\ Len(all \o none) = Len(all) + Len(none)
        /\ \A i \in 1..Len(all) : (all \o none)[i] = all[i]
    BY <1>4, <2>2, ConcatListed
  <2>4. L = all \o none
    BY <2>1 DEF none
  <2>5. Listed(L) /\ Len(L) = W /\ \A n \in 1..W : L[n] = Write(off + n - 1, data(n))
    BY <1>1, <1>4, <2>2, <2>3, <2>4
  <2> QED BY <1>6, <2>5 DEF L, W
<1>7. CASE m.ntfs /\ W = 1
  <2>1. L = all \o <<Sync>>
    BY <1>2, <1>5, <1>7 DEF write_payload_buf, all
  <2>2. /\ Listed(all \o <<Sync>>) /\ Len(all \o <<Sync>>) = Len(all) + 1
        /\ \A i \in 1..Len(all) : (all \o <<Sync>>)[i] = all[i]
        /\ (all \o <<Sync>>)[Len(all) + 1] = Sync
    BY <1>4, OneMore
  <2>3. Listed(L) /\ Len(L) = 2 /\ L[1] = all[1] /\ L[2] = Sync
    BY <1>4, <1>7, <2>1, <2>2
  <2>4. all[1] = Write(off + 1 - 1, data(1))
    BY <1>4, <1>7
  <2>5. \A n \in 1..W : n = 1 /\ 2 * n - 1 = 1 /\ 2 * n = 2
    BY <1>7
  <2>6. Len(L) = 2 * W /\ \A i \in 1..Len(L) : ~(i > 2 * W)
    BY <1>7, <2>3
  <2>7. \A n \in 1..W : L[2 * n - 1] = Write(off + n - 1, data(n)) /\ L[2 * n] = Sync
    BY <2>3, <2>4, <2>5
  <2> QED BY <1>7, <2>3, <2>6, <2>7 DEF L, W
<1>8. CASE m.ntfs /\ W # 1
  <2> DEFINE calls == W + block_count(W, 1)
             cell(n) == n - (n \div (1 + 1))
             P == [n \in 1..calls |-> IF n % (1 + 1) = 0 \/ n = calls THEN Sync
                                      ELSE Write(off + cell(n) - 1, buf[cell(n)])]
  <2>1. calls = 2 * W
    BY <1>1 DEF block_count
  <2>2. ~(1 = 0 \/ W <= 1)
    BY <1>1, <1>8
  <2>3. write_payload_buf(off, buf, 1) = P
    BY <1>2, <2>2 DEF write_payload_buf
  <2>4. L = P \o <<Sync>>
    BY <1>5, <1>8, <2>3
  <2> HIDE DEF calls
  <2>5. ASSUME NEW n \in 1..W
        PROVE P[2 * n - 1] = Write(off + n - 1, data(n)) /\ P[2 * n] = Sync
    <3>1. /\ 2 * n - 1 \in 1..calls /\ (2 * n - 1) % (1 + 1) # 0 /\ 2 * n - 1 # calls
          /\ cell(2 * n - 1) = n
      BY <1>1, <2>1
    <3>2. 2 * n \in 1..calls /\ (2 * n) % (1 + 1) = 0
      BY <1>1, <2>1
    <3>3. P[2 * n - 1] = Write(off + n - 1, buf[n])
      <4> DEFINE q == 2 * n - 1
      <4>1. P[q] = IF q % (1 + 1) = 0 \/ q = calls THEN Sync ELSE Write(off + cell(q) - 1, buf[cell(q)])
        BY <3>1
      <4> HIDE DEF P, cell
      <4> QED BY <3>1, <4>1
    <3> QED BY <1>3, <3>2, <3>3
  <2>6. Listed(P) /\ Len(P) = 2 * W
    <3>1. P = [n \in 1..calls |-> P[n]] /\ calls \in Nat
      BY <1>1, <2>1
    <3> HIDE DEF P
    <3> QED BY <2>1, <3>1, FcnListed
  <2> HIDE DEF P
  <2>7. /\ Listed(L) /\ Len(L) = 2 * W + 1 /\ L[2 * W + 1] = Sync
        /\ \A i \in 1..(2 * W) : L[i] = P[i]
    BY <2>4, <2>6, OneMore
  <2>8. \A n \in 1..W : 2 * n - 1 \in 1..(2 * W) /\ 2 * n \in 1..(2 * W)
    BY <1>1
  <2>9. \A n \in 1..W : L[2 * n - 1] = Write(off + n - 1, data(n)) /\ L[2 * n] = Sync
    BY <2>5, <2>7, <2>8
  <2>10. \A i \in 1..Len(L) : i > 2 * W => i = 2 * W + 1
    BY <1>1, <2>7
  <2> QED BY <1>8, <2>7, <2>9, <2>10 DEF L, W
<1> QED BY <1>6, <1>7, <1>8

\* What is copied stays when nothing below its limit is written.
LEMMA CopiedStays ==
    ASSUME NEW c \in Chains, NEW x, NEW F, NEW G, NEW b, NEW lim \in Nat, NEW top \in Nat, lim <= top,
           \A i \in 1..lim : i > Start(c) => G[i] = F[i], Copied(c, x, F, b, lim)
    PROVE  Copied(c, x, G, b, top)
<1> DEFINE e == x.bat[Slot(c, b)]
<1>1. Start(c) \in Nat /\ Width(c) \in Nat \ {0}
  BY FSizes
<1>2. CASE e = ZeroEntry /\ is_all_zero(merge_block(c, b))
  BY <1>2 DEF Copied
<1>3. CASE /\ e.state = "full" /\ e.off \in Nat /\ Start(c) <= e.off /\ e.off + Width(c) <= lim
           /\ \A k \in 0..(Width(c) - 1) : F[e.off + k + 1] = merge_block(c, b)[k]
  <2> DEFINE off == e.off
  <2>1. off \in Nat /\ Start(c) <= off /\ off + Width(c) <= lim
    BY <1>3
  <2> HIDE DEF off
  <2>2. off + Width(c) <= top
    BY <1>1, <2>1
  <2>3. \A k \in 0..(Width(c) - 1) : off + k + 1 \in 1..lim /\ off + k + 1 > Start(c)
    BY <1>1, <2>1
  <2>4. \A k \in 0..(Width(c) - 1) : G[off + k + 1] = merge_block(c, b)[k]
    BY <1>3, <2>3 DEF off
  <2> QED BY <1>3, <2>1, <2>2, <2>4 DEF Copied, off
<1> QED BY <1>2, <1>3 DEF Copied

\* The payload of the first b blocks ends within the file.
LEMMA EdgeBound ==
    ASSUME NEW c \in Chains, NEW m, NEW x, NEW b \in 0..Blocks(c), WriterOK(c, m, x, b)
    PROVE  /\ Edge(c, x, b) \in Nat /\ Start(c) <= Edge(c, x, b) /\ Edge(c, x, b) <= Total(c)
           /\ m.fixed => Edge(c, x, b) = Start(c) + b * Width(c)
           /\ ~m.fixed => Edge(c, x, b) = x.cursor
<1>1. /\ Start(c) \in Nat /\ Width(c) \in Nat /\ Blocks(c) \in Nat /\ b \in Nat
      /\ Total(c) = Start(c) + Blocks(c) * Width(c)
  BY FSizes
<1>2. x.fixed = m.fixed /\ x.cursor \in Nat /\ Start(c) <= x.cursor /\ x.cursor <= Start(c) + b * Width(c)
  BY WriterFields
<1>3. b * Width(c) \in Nat /\ Blocks(c) * Width(c) \in Nat /\ b * Width(c) <= Blocks(c) * Width(c)
  <2>1. CASE b < Blocks(c)
    <3>1. b * Width(c) \in Nat /\ Blocks(c) * Width(c) \in Nat /\ b * Width(c) + Width(c) <= Blocks(c) * Width(c)
      BY <1>1, <2>1, LaterChunk
    <3> QED BY <1>1, <3>1
  <2>2. CASE b = Blocks(c)
    <3>1. b * Width(c) \in Nat
      BY <1>1
    <3> QED BY <2>2, <3>1
  <2> QED BY <1>1, <2>1, <2>2
<1>4. CASE m.fixed
  <2>1. Edge(c, x, b) = Start(c) + b * Width(c)
    BY <1>2, <1>4 DEF Edge
  <2> QED BY <1>1, <1>3, <1>4, <2>1
<1>5. CASE ~m.fixed
  <2>1. Edge(c, x, b) = x.cursor
    BY <1>2, <1>5 DEF Edge
  <2> QED BY <1>1, <1>2, <1>3, <1>5, <2>1
<1> QED BY <1>4, <1>5

\* g is f with y right behind what is laid out.
Longer(c, x, b, top, f, y, g) ==
    /\ Tidy(g) /\ Laid(c, x, g.cells, b, top + 1) /\ g.cells[top + 1] = y
    /\ \A i \in 1..top : g.cells[i] = f.cells[i]
    /\ Pending(c, g) = Pending(c, f) \cup {top + 1}

\* A write right behind what is laid out.
LEMMA LaidWrite ==
    ASSUME NEW c \in Chains, NEW x, NEW b, NEW top \in Nat, top + 1 <= Total(c),
           NEW f, Tidy(f), Laid(c, x, f.cells, b, top), NEW y
    PROVE  Longer(c, x, b, top, f, y, After(Write(top, y), f))
<1> DEFINE g == After(Write(top, y), f)
<1> HIDE DEF g
<1> DEFINE F == f.cells
           G == g.cells
<1>1. /\ BatLen(c) \in Nat \ {0} /\ Start(c) = 3 + BatLen(c) /\ Start(c) \in Nat
      /\ Total(c) \in Nat /\ Start(c) <= Total(c)
  BY FSizes
<1>2. /\ Framed(c, F) /\ Start(c) <= top /\ top <= Total(c)
      /\ Len(F) = IF x.fixed THEN Total(c) ELSE top
      /\ \A n \in 1..BatLen(c) : F[3 + n] = IF x.fixed THEN Table(c, x.bat)[n] ELSE BlankTable(c)[n]
      /\ \A i \in 1..Len(F) : i > top => F[i] = Zero
      /\ \A a \in 0..(b - 1) : Copied(c, x, F, a, top)
  BY DEF Laid
<1>3. top \in 0..Len(F) /\ Len(F) \in Nat
  <2>1. CASE x.fixed
    BY <1>1, <1>2, <2>1
  <2>2. CASE ~x.fixed
    BY <1>1, <1>2, <2>2
  <2> QED BY <2>1, <2>2
<1>4. /\ Tidy(g) /\ Len(G) = (IF top = Len(F) THEN top + 1 ELSE Len(F))
      /\ G[top + 1] = y /\ g.dirty = f.dirty \cup {top + 1}
      /\ \A i \in 1..Len(F) : i # top + 1 => G[i] = F[i]
  <2>1. top \in 0..Len(f.cells)
    BY <1>3
  <2>2. /\ Tidy(g) /\ Len(g.cells) = (IF top = Len(f.cells) THEN top + 1 ELSE Len(f.cells))
        /\ g.cells[top + 1] = y /\ g.dirty = f.dirty \cup {top + 1}
        /\ \A i \in 1..Len(f.cells) : i # top + 1 => g.cells[i] = f.cells[i]
    <3> HIDE DEF F, G
    <3> QED BY <2>1, AfterWrite DEF g
  <2> QED BY <2>2
<1> HIDE DEF F, G
<1>5. Len(G) = IF x.fixed THEN Total(c) ELSE top + 1
  <2>1. CASE x.fixed
    <3>1. Len(F) = Total(c) /\ top # Len(F)
      BY <1>1, <1>2, <2>1
    <3> QED BY <1>4, <2>1, <3>1
  <2>2. CASE ~x.fixed
    BY <1>2, <1>4, <2>2
  <2> QED BY <2>1, <2>2
<1>6. \A i \in 1..top : G[i] = F[i]
  <2>1. \A i \in 1..top : i \in 1..Len(F) /\ i # top + 1
    BY <1>3
  <2> QED BY <1>4, <2>1
<1>7. /\ 1 \in 1..top /\ 3 \in 1..top /\ \A n \in 1..BatLen(c) : 3 + n \in 1..top
  BY <1>1, <1>2
<1>8. Framed(c, G)
  BY <1>2, <1>6, <1>7 DEF Framed
<1>9. ASSUME NEW i \in 1..Len(G), i > top + 1 PROVE G[i] = Zero
  <2>1. i \in 1..Len(F) /\ i > top /\ i # top + 1
    BY <1>3, <1>4, <1>9
  <2> QED BY <1>2, <1>4, <2>1
<1>10. ASSUME NEW a \in 0..(b - 1) PROVE Copied(c, x, G, a, top + 1)
  <2>1. top + 1 \in Nat /\ top <= top + 1
    OBVIOUS
  <2> QED BY <1>2, <1>6, <2>1, CopiedStays
<1>11. \A n \in 1..BatLen(c) : G[3 + n] = IF x.fixed THEN Table(c, x.bat)[n] ELSE BlankTable(c)[n]
  BY <1>2, <1>6, <1>7
<1>12. Start(c) <= top + 1
  BY <1>1, <1>2
<1>13. Laid(c, x, G, b, top + 1)
  BY <1>5, <1>8, <1>9, <1>10, <1>11, <1>12 DEF Laid
<1>14. Pending(c, g) = Pending(c, f) \cup {top + 1}
  <2>1. top + 1 > Start(c)
    BY <1>1, <1>2
  <2> QED BY <1>4, <2>1 DEF Pending
<1>15. Longer(c, x, b, top, f, y, g)
  BY <1>4, <1>6, <1>13, <1>14 DEF F, G, Longer
<1> QED BY <1>15 DEF g

\* The next call of write_payload_buf, or of the sync after it.
LEMMA PutStep ==
    ASSUME NEW c \in Chains, NEW m, NEW x, NEW b \in 1..Blocks(c), WriterOK(c, m, x, b),
           NEW t, t # <<>>, NEW f, Tidy(f), NEW j \in Nat, NEW n \in Nat, Putting(c, m, x, t, f, b, j, n),
           NEW g, g = After(Head(t), f)
    PROVE  Tidy(g) /\ \E n1 \in Nat : Putting(c, m, x, Tail(t), g, b, j + 1, n1)
<1> DEFINE W == Width(c)
           off == Edge(c, x, b) - W
           L == PutCalls(c, m, off, b - 1)
           data == merge_block(c, b - 1)
<1>1. /\ W \in Nat \ {0} /\ Start(c) \in Nat /\ Total(c) \in Nat /\ Blocks(c) \in Nat
  BY FSizes
<1>2. Edge(c, x, b) \in Nat /\ Edge(c, x, b) <= Total(c)
  <2>1. b \in 0..Blocks(c)
    BY <1>1
  <2> QED BY <2>1, EdgeBound
<1>3. /\ Start(c) <= off /\ n <= W /\ Rest(t, L, j) /\ Laid(c, x, f.cells, b - 1, off + n)
      /\ x.bat[Slot(c, b - 1)] = FullEntry(off)
      /\ \A k \in 0..(n - 1) : f.cells[off + k + 1] = data[k]
      /\ ~m.ntfs => j = n
      /\ m.ntfs => \/ j = 2 * n /\ Pending(c, f) = {}
                   \/ j = 2 * n - 1 /\ Pending(c, f) \subseteq {off + n}
                   \/ j >= 2 * n /\ n = W /\ Pending(c, f) = {}
  BY DEF Putting
<1>4. off \in Nat /\ off + W = Edge(c, x, b)
  BY <1>1, <1>2, <1>3
<1>5. /\ Listed(L)
      /\ ~m.ntfs => Len(L) = W /\ \A i \in 1..W : L[i] = Write(off + i - 1, data[i - 1])
      /\ m.ntfs => /\ Len(L) \in {2 * W, 2 * W + 1}
                   /\ \A i \in 1..W : L[2 * i - 1] = Write(off + i - 1, data[i - 1]) /\ L[2 * i] = Sync
                   /\ \A i \in 1..Len(L) : i > 2 * W => L[i] = Sync
  <2> HIDE DEF off
  <2> QED BY <1>4, PutList
<1> HIDE DEF off, L, data
<1>6. Len(L) \in Nat
  BY <1>5, ListedFcn
<1>7. j < Len(L) /\ Head(t) = L[j + 1] /\ Rest(Tail(t), L, j + 1)
  BY <1>3, <1>6, RestStep
<1>8. ASSUME Head(t) = Write(off + n, data[n]), n < W,
             ~m.ntfs => j + 1 = n + 1, m.ntfs => j + 1 = 2 * (n + 1) - 1 /\ Pending(c, f) = {}
      PROVE  Tidy(g) /\ Putting(c, m, x, Tail(t), g, b, j + 1, n + 1)
  <2> DEFINE top == off + n
  <2>1. top \in Nat /\ top + 1 <= Total(c) /\ top + 1 = off + (n + 1)
    BY <1>1, <1>2, <1>4, <1>8
  <2>2. Laid(c, x, f.cells, b - 1, top) /\ g = After(Write(top, data[n]), f)
    BY <1>3, <1>8
  <2> HIDE DEF top
  <2>3. /\ Tidy(g) /\ Laid(c, x, g.cells, b - 1, top + 1) /\ g.cells[top + 1] = data[n]
        /\ \A i \in 1..top : g.cells[i] = f.cells[i]
        /\ Pending(c, g) = Pending(c, f) \cup {top + 1}
    <3>1. Longer(c, x, b - 1, top, f, data[n], g)
      BY <2>1, <2>2, LaidWrite
    <3> QED BY <3>1 DEF Longer
  <2>4. ASSUME NEW k \in 0..((n + 1) - 1) PROVE g.cells[off + k + 1] = data[k]
    <3>1. CASE k = n
      BY <2>3, <3>1 DEF top
    <3>2. CASE k # n
      <4>1. k \in 0..(n - 1) /\ off + k + 1 \in 1..top
        BY <1>4, <3>2 DEF top
      <4> QED BY <1>3, <2>3, <4>1
    <3> QED BY <3>1, <3>2
  <2>5. m.ntfs => j + 1 = 2 * (n + 1) - 1 /\ Pending(c, g) \subseteq {off + (n + 1)}
    BY <1>8, <2>1, <2>3
  <2>6. n + 1 <= W
    BY <1>1, <1>8
  <2> QED BY <1>3, <1>7, <1>8, <2>1, <2>3, <2>4, <2>5, <2>6 DEF Putting, off, L, data
<1>9. ASSUME Head(t) = Sync, m.ntfs, (j + 1 = 2 * n) \/ (j + 1 >= 2 * n /\ n = W)
      PROVE  Tidy(g) /\ Putting(c, m, x, Tail(t), g, b, j + 1, n)
  <2>1. Tidy(g) /\ g.cells = f.cells /\ g.dirty = {}
    BY <1>9, AfterSync
  <2>2. Pending(c, g) = {}
    BY <2>1 DEF Pending
  <2> QED BY <1>3, <1>7, <1>9, <2>1, <2>2 DEF Putting, off, L, data
<1>10. CASE ~m.ntfs
  <2>1. j = n /\ n < W /\ L[j + 1] = Write(off + n, data[n])
    <3>1. j = n /\ n < W
      BY <1>3, <1>5, <1>7, <1>10
    <3>2. j + 1 \in 1..W /\ off + (j + 1) - 1 = off + n /\ (j + 1) - 1 = n
      BY <1>1, <1>4, <3>1
    <3>3. L[j + 1] = Write(off + (j + 1) - 1, data[(j + 1) - 1])
      BY <1>5, <1>10, <3>2
    <3> QED BY <3>1, <3>2, <3>3
  <2>2. n + 1 \in Nat
    OBVIOUS
  <2> QED BY <1>7, <1>8, <1>10, <2>1, <2>2
<1>11. CASE m.ntfs
  <2>1. CASE j = 2 * n /\ Pending(c, f) = {} /\ n < W
    <3>1. n + 1 \in 1..W /\ j + 1 = 2 * (n + 1) - 1 /\ off + (n + 1) - 1 = off + n /\ (n + 1) - 1 = n
      BY <1>1, <1>4, <2>1
    <3>2. L[2 * (n + 1) - 1] = Write(off + (n + 1) - 1, data[(n + 1) - 1])
      BY <1>5, <1>11, <3>1
    <3>3. Head(t) = Write(off + n, data[n])
      BY <1>7, <3>1, <3>2
    <3> QED BY <1>8, <1>11, <2>1, <3>1, <3>3
  <2>2. CASE j = 2 * n - 1
    <3>1. n \in 1..W /\ j + 1 = 2 * n
      BY <1>1, <1>3, <2>2
    <3>2. Head(t) = Sync
      BY <1>5, <1>7, <1>11, <3>1
    <3> QED BY <1>9, <1>11, <3>1, <3>2
  <2>3. CASE j >= 2 * n /\ n = W
    <3>1. j + 1 \in 1..Len(L) /\ j + 1 > 2 * W /\ j + 1 >= 2 * n
      BY <1>1, <1>6, <1>7, <2>3
    <3>2. Head(t) = Sync
      BY <1>5, <1>7, <1>11, <3>1
    <3> QED BY <1>9, <1>11, <2>3, <3>1, <3>2
  <2>4. CASE j = 2 * n /\ ~(n < W)
    <3>1. j >= 2 * n /\ n = W
      BY <1>1, <1>3, <2>4
    <3> QED BY <2>3, <3>1
  <2> QED BY <1>3, <1>11, <2>1, <2>2, <2>3, <2>4
<1> QED BY <1>10, <1>11

\* The next call of create.
LEMMA CreateStep ==
    ASSUME NEW c \in Chains, NEW m, NEW x, WriterOK(c, m, x, 0), NEW t, t # <<>>, NEW f, Tidy(f),
           NEW j \in Nat, Creating(c, m, x, t, f, j)
    PROVE  Tidy(After(Head(t), f)) /\ Creating(c, m, x, Tail(t), After(Head(t), f), j + 1)
<1> DEFINE g == After(Head(t), f)
           F == f.cells
           G == g.cells
           S == Start(c)
           B == BatLen(c)
           L == create(x)
<1> HIDE DEF g, F, G
<1> SUFFICES Tidy(g) /\ Creating(c, m, x, Tail(t), g, j + 1)
  BY DEF g
<1>1. /\ B \in Nat \ {0} /\ S = 3 + B /\ S \in Nat /\ Total(c) \in Nat /\ S <= Total(c)
      /\ bat_offset = 3
  BY FSizes
<1>2. /\ Rest(t, L, j) /\ x.cursor = S
      /\ j > 0 => /\ Len(F) = IF j <= S + 1 THEN j - 1
                              ELSE IF x.fixed /\ j = S + B + 3 THEN Total(c) ELSE S
                  /\ \A i \in 1..Len(F) : i > S => F[i] = Zero
      /\ (1 < j /\ j <= S + 1) => F[1] = Fti
      /\ 3 < j => F[3] = MetaCell(Size, Width(c))
      /\ S + 1 < j => Framed(c, F)
      /\ \A n \in 1..B : 4 + n <= j =>
            F[3 + n] = IF S + 2 + n <= j /\ x.fixed THEN Table(c, x.bat)[n] ELSE BlankTable(c)[n]
      /\ Pending(c, f) = {}
  BY DEF Creating, F
<1>3. /\ Listed(L) /\ L[1] = Truncate
      /\ \A k \in 1..S : L[k + 1] = Write(k - 1, L[k + 1][3])
      /\ L[2] = Write(0, Fti) /\ L[4] = Write(2, MetaCell(Size, Width(c)))
      /\ \A n \in 1..B : L[4 + n] = Write(2 + n, BlankTable(c)[n])
      /\ L[S + 2] = Write(0, HeadCell(metadata_offset, bat_offset, B))
      /\ ~x.fixed => Len(L) = S + 3 /\ L[S + 3] = SetLen(S)
      /\ x.fixed => /\ Len(L) = S + B + 3
                    /\ \A n \in 1..B : L[S + 2 + n] = Write(2 + n, Table(c, x.bat)[n])
                    /\ L[S + B + 3] = SetLen(Total(c))
  <2>1. x.size = Size /\ x.bs = Width(c) /\ Size \in Nat /\ Width(c) \in 1..ChunkCells
    BY WriterFields, FSizes
  <2>2. x.cursor = payload_start(Size, Width(c))
    BY <1>2 DEF Start
  <2> QED BY <2>1, <2>2, CreateCalls DEF Start, BatLen, Table, BlankTable, Total, Blocks
<1>4. Len(L) \in Nat /\ j < Len(L) /\ Head(t) = L[j + 1] /\ Rest(Tail(t), L, j + 1)
  <2>1. Len(L) \in Nat
    BY <1>3, ListedFcn
  <2> QED BY <1>2, <2>1, RestStep
<1> HIDE DEF L, S, B
<1> DEFINE Q(p) ==
      /\ Tidy(g) /\ Pending(c, g) = {}
      /\ Len(G) = IF p <= S + 1 THEN p - 1 ELSE IF x.fixed /\ p = S + B + 3 THEN Total(c) ELSE S
      /\ \A i \in 1..Len(G) : i > S => G[i] = Zero
      /\ (1 < p /\ p <= S + 1) => G[1] = Fti
      /\ 3 < p => G[3] = MetaCell(Size, Width(c))
      /\ S + 1 < p => Framed(c, G)
      /\ \A n \in 1..B : 4 + n <= p =>
            G[3 + n] = IF S + 2 + n <= p /\ x.fixed THEN Table(c, x.bat)[n] ELSE BlankTable(c)[n]
<1>5. ASSUME Q(j + 1) PROVE Tidy(g) /\ Creating(c, m, x, Tail(t), g, j + 1)
  BY <1>2, <1>4, <1>5 DEF Creating, L, S, B, G
<1>6. Len(F) \in Nat
  BY ListedFcn DEF Tidy, F
\* A write that adds no payload.
<1>7. ASSUME NEW off \in Nat, NEW y, off <= Len(F), off < S, Head(t) = Write(off, y)
      PROVE  /\ Tidy(g) /\ Pending(c, g) = {} /\ Len(G) = (IF off = Len(F) THEN off + 1 ELSE Len(F))
             /\ G[off + 1] = y /\ \A i \in 1..Len(F) : i # off + 1 => G[i] = F[i]
  <2>1. off \in 0..Len(f.cells)
    BY <1>6, <1>7 DEF F
  <2>2. /\ Tidy(g) /\ Len(G) = (IF off = Len(F) THEN off + 1 ELSE Len(F))
        /\ G[off + 1] = y /\ g.dirty = f.dirty \cup {off + 1}
        /\ \A i \in 1..Len(F) : i # off + 1 => G[i] = F[i]
    BY <1>7, <2>1, AfterWrite DEF g, F, G
  <2>3. ~(off + 1 > S)
    BY <1>1, <1>7
  <2>4. Pending(c, g) = {}
    BY <1>2, <2>2, <2>3 DEF Pending, S
  <2> QED BY <2>2, <2>4
<1>8. CASE j = 0
  <2>1. g = EmptyFile
    BY <1>3, <1>4, <1>8, AfterOther DEF g
  <2>2. Tidy(g) /\ Len(G) = 0 /\ Pending(c, g) = {}
    BY <2>1, AfterOther DEF G, Pending, EmptyFile
  <2>3. j + 1 = 1 /\ j + 1 <= S + 1 /\ (j + 1) - 1 = 0 /\ ~(S + 1 < j + 1) /\ \A n \in 1..B : ~(4 + n <= j + 1)
    BY <1>1, <1>8
  <2> QED BY <1>5, <2>2, <2>3
<1>9. CASE 0 < j /\ j <= S
  <2>1. j \in 1..S /\ j - 1 \in Nat /\ Len(F) = j - 1 /\ j - 1 < S /\ j <= S + 1
    BY <1>1, <1>2, <1>9
  <2> DEFINE y == L[j + 1][3]
  <2>2. Head(t) = Write(j - 1, y)
    BY <1>3, <1>4, <2>1
  <2> HIDE DEF y
  <2>3. /\ Tidy(g) /\ Pending(c, g) = {} /\ Len(G) = j /\ G[j] = y
        /\ \A i \in 1..(j - 1) : G[i] = F[i]
    <3>1. /\ Tidy(g) /\ Pending(c, g) = {} /\ Len(G) = (j - 1) + 1 /\ G[(j - 1) + 1] = y
          /\ \A i \in 1..(j - 1) : i # (j - 1) + 1 => G[i] = F[i]
      BY <1>7, <2>1, <2>2
    <3> QED BY <3>1
  <2>4. \A off, z : L[j + 1] = Write(off, z) => y = z
    <3>1. \A off, z : Write(off, z)[3] = z
      BY Kinds
    <3> QED BY <3>1 DEF y
  <2>5. (1 < j + 1 /\ j + 1 <= S + 1) => G[1] = Fti
    <3>1. CASE j = 1
      <4>1. y = Fti
        BY <1>3, <2>4, <3>1
      <4> QED BY <2>3, <3>1, <4>1
    <3>2. CASE j # 1
      <4>1. 1 \in 1..(j - 1) /\ 1 < j
        BY <1>9, <3>2
      <4> QED BY <1>2, <2>1, <2>3, <4>1
    <3> QED BY <3>1, <3>2
  <2>6. 3 < j + 1 => G[3] = MetaCell(Size, Width(c))
    <3>1. CASE j = 3
      <4>1. y = MetaCell(Size, Width(c))
        BY <1>3, <2>4, <3>1
      <4> QED BY <2>3, <3>1, <4>1
    <3>2. CASE j > 3
      <4>1. 3 \in 1..(j - 1)
        BY <3>2
      <4> QED BY <1>2, <2>3, <3>2, <4>1
    <3> QED BY <3>1, <3>2
  <2>7. ASSUME NEW n \in 1..B, 4 + n <= j + 1
        PROVE G[3 + n] = IF S + 2 + n <= j + 1 /\ x.fixed THEN Table(c, x.bat)[n] ELSE BlankTable(c)[n]
    <3>1. ~(S + 2 + n <= j + 1) /\ ~(S + 2 + n <= j)
      BY <1>1, <1>9
    <3>2. CASE 4 + n = j + 1
      <4>1. j = 3 + n /\ L[j + 1] = Write(2 + n, BlankTable(c)[n])
        BY <1>3, <3>2
      <4>2. y = BlankTable(c)[n]
        BY <2>4, <4>1
      <4> QED BY <2>3, <3>1, <4>1, <4>2
    <3>3. CASE 4 + n # j + 1
      <4>1. 4 + n <= j /\ 3 + n \in 1..(j - 1)
        BY <2>7, <3>3
      <4> QED BY <1>2, <2>3, <3>1, <4>1
    <3> QED BY <3>2, <3>3
  <2>8. j + 1 <= S + 1 /\ (j + 1) - 1 = j /\ ~(S + 1 < j + 1) /\ \A i \in 1..j : ~(i > S)
    BY <1>1, <1>9
  <2>9. Q(j + 1)
    BY <2>3, <2>5, <2>6, <2>7, <2>8
  <2> QED BY <1>5, <2>9
<1>10. CASE j = S + 1
  <2>1. Len(F) = S /\ Head(t) = Write(0, HeadCell(metadata_offset, bat_offset, B))
    <3>1. j > 0 /\ j <= S + 1 /\ j - 1 = S /\ j + 1 = S + 2
      BY <1>1, <1>10
    <3> QED BY <1>2, <1>3, <1>4, <3>1
  <2>2. /\ Tidy(g) /\ Pending(c, g) = {} /\ Len(G) = S
        /\ G[1] = HeadCell(metadata_offset, bat_offset, B)
        /\ \A i \in 1..S : i # 1 => G[i] = F[i]
    <3>1. 0 \in Nat /\ 0 <= Len(F) /\ 0 < S /\ 0 # Len(F) /\ 0 + 1 = 1
      BY <1>1, <2>1
    <3> QED BY <1>7, <2>1, <3>1
  <2>3. G[3] = MetaCell(Size, Width(c))
    <3>1. 3 < j /\ 3 \in 1..S
      BY <1>1, <1>10
    <3> QED BY <1>2, <2>2, <3>1
  <2>4. Framed(c, G)
    BY <2>2, <2>3 DEF Framed, B
  <2>5. ASSUME NEW n \in 1..B
        PROVE G[3 + n] = IF S + 2 + n <= j + 1 /\ x.fixed THEN Table(c, x.bat)[n] ELSE BlankTable(c)[n]
    <3>1. 4 + n <= j /\ 3 + n \in 1..S /\ 3 + n # 1 /\ ~(S + 2 + n <= j) /\ ~(S + 2 + n <= j + 1)
      BY <1>1, <1>10
    <3> QED BY <1>2, <2>2, <3>1
  <2>6. ~(j + 1 <= S + 1) /\ j + 1 # S + B + 3 /\ \A i \in 1..S : ~(i > S)
    BY <1>1, <1>10
  <2>7. Q(j + 1)
    BY <2>2, <2>3, <2>4, <2>5, <2>6
  <2> QED BY <1>5, <2>7
<1>11. CASE ~x.fixed /\ j > S + 1
  <2>1. j = S + 2 /\ Len(F) = S /\ Head(t) = SetLen(S)
    <3>1. j = S + 2 /\ j + 1 = S + 3 /\ ~(j <= S + 1) /\ j > 0
      BY <1>1, <1>3, <1>4, <1>11
    <3> QED BY <1>2, <1>3, <1>4, <1>11, <3>1
  <2>2. Tidy(g) /\ G = F /\ g.dirty = f.dirty
    BY <2>1, AfterOther DEF g, G, F
  <2>3. Pending(c, g) = {}
    BY <1>2, <2>2 DEF Pending
  <2>4. /\ ~(j + 1 <= S + 1) /\ j > 0 /\ 3 < j /\ S + 1 < j /\ \A n \in 1..B : 4 + n <= j
    BY <1>1, <2>1
  <2>5. Q(j + 1)
    BY <1>2, <1>11, <2>1, <2>2, <2>3, <2>4
  <2> QED BY <1>5, <2>5
<1>12. CASE x.fixed /\ j > S + 1 /\ j < S + B + 2
  <2> DEFINE a == j - S - 1
  <2>1. a \in 1..B /\ j + 1 = S + 2 + a /\ Len(F) = S /\ 2 + a \in Nat /\ 2 + a < S
    <3>1. a \in 1..B /\ j + 1 = S + 2 + a /\ 2 + a \in Nat /\ 2 + a < S /\ ~(j <= S + 1) /\ j # S + B + 3 /\ j > 0
      BY <1>1, <1>12
    <3> QED BY <1>2, <3>1
  <2> HIDE DEF a
  <2>2. Head(t) = Write(2 + a, Table(c, x.bat)[a])
    BY <1>3, <1>4, <1>12, <2>1
  <2>3. /\ Tidy(g) /\ Pending(c, g) = {} /\ Len(G) = S /\ G[3 + a] = Table(c, x.bat)[a]
        /\ \A i \in 1..S : i # 3 + a => G[i] = F[i]
    <3>1. (2 + a) + 1 = 3 + a /\ 2 + a # Len(F) /\ 2 + a <= Len(F)
      BY <1>1, <2>1
    <3> QED BY <1>7, <2>1, <2>2, <3>1
  <2>4. 1 \in 1..S /\ 3 \in 1..S /\ 1 # 3 + a /\ 3 # 3 + a /\ 3 < j /\ S + 1 < j
    BY <1>1, <1>12, <2>1
  <2>5. G[3] = MetaCell(Size, Width(c)) /\ Framed(c, G)
    BY <1>2, <2>3, <2>4 DEF Framed
  <2>6. ASSUME NEW n \in 1..B
        PROVE G[3 + n] = IF S + 2 + n <= j + 1 /\ x.fixed THEN Table(c, x.bat)[n] ELSE BlankTable(c)[n]
    <3>1. CASE n = a
      <4>1. S + 2 + n <= j + 1
        BY <1>1, <2>1, <3>1
      <4> QED BY <1>12, <2>3, <3>1, <4>1
    <3>2. CASE n # a
      <4>1. /\ 4 + n <= j /\ 3 + n \in 1..S /\ 3 + n # 3 + a
            /\ S + 2 + n <= j <=> S + 2 + n <= j + 1
        BY <1>1, <1>12, <2>1, <3>2
      <4> QED BY <1>2, <2>3, <4>1
    <3> QED BY <3>1, <3>2
  <2>7. ~(j + 1 <= S + 1) /\ j + 1 # S + B + 3 /\ \A i \in 1..S : ~(i > S)
    BY <1>1, <1>12
  <2>8. Q(j + 1)
    BY <2>3, <2>5, <2>6, <2>7
  <2> QED BY <1>5, <2>8
<1>13. CASE x.fixed /\ j > S + 1 /\ ~(j < S + B + 2)
  <2>1. j = S + B + 2 /\ Len(F) = S /\ Head(t) = SetLen(Total(c))
    <3>1. Len(L) = S + B + 3
      BY <1>3, <1>13
    <3>2. j = S + B + 2 /\ j + 1 = S + B + 3 /\ ~(j <= S + 1) /\ j # S + B + 3 /\ j > 0
      BY <1>1, <1>4, <1>13, <3>1
    <3> QED BY <1>2, <1>3, <1>4, <1>13, <3>2
  <2>2. /\ Tidy(g) /\ Len(G) = Total(c) /\ g.dirty = f.dirty
        /\ \A i \in 1..S : G[i] = F[i]
        /\ \A i \in 1..Total(c) : i > S => G[i] = Zero
    <3>1. Len(f.cells) <= Total(c) /\ Len(f.cells) = S
      BY <1>1, <2>1 DEF F
    <3> QED BY <1>1, <2>1, <3>1, AfterSetLen DEF g, G, F
  <2>3. Pending(c, g) = {}
    BY <1>2, <2>2 DEF Pending
  <2>4. /\ 1 \in 1..S /\ 3 \in 1..S /\ 3 < j /\ S + 1 < j /\ j > 0 /\ ~(j + 1 <= S + 1) /\ j + 1 = S + B + 3
        /\ \A n \in 1..B : 3 + n \in 1..S /\ 4 + n <= j /\ S + 2 + n <= j /\ S + 2 + n <= j + 1
    BY <1>1, <2>1
  <2>5. G[3] = MetaCell(Size, Width(c)) /\ Framed(c, G)
    BY <1>2, <2>2, <2>4 DEF Framed
  <2>6. \A n \in 1..B : G[3 + n] = Table(c, x.bat)[n]
    BY <1>2, <1>13, <2>2, <2>4
  <2>7. Q(j + 1)
    BY <1>13, <2>2, <2>3, <2>4, <2>5, <2>6
  <2> QED BY <1>5, <2>7
<1>14. j = 0 \/ (0 < j /\ j <= S) \/ j = S + 1 \/ j > S + 1
  BY <1>1
<1> HIDE DEF Q
<1> QED BY <1>8, <1>9, <1>10, <1>11, <1>12, <1>13, <1>14

\* The next call of finish.
LEMMA FinishStep ==
    ASSUME NEW c \in Chains, NEW m, NEW x, WriterOK(c, m, x, Blocks(c)), NEW t, t # <<>>,
           NEW f, Tidy(f), NEW j \in Nat, Finishing(c, m, x, t, f, j)
    PROVE  Tidy(After(Head(t), f)) /\ Finishing(c, m, x, Tail(t), After(Head(t), f), j + 1)
<1> DEFINE g == After(Head(t), f)
           F == f.cells
           G == g.cells
           S == Start(c)
           B == BatLen(c)
           L == finish(x)
<1> HIDE DEF g, F, G
<1> SUFFICES Tidy(g) /\ Finishing(c, m, x, Tail(t), g, j + 1)
  BY DEF g
<1>1. /\ B \in Nat \ {0} /\ S = 3 + B /\ S \in Nat /\ Total(c) \in Nat /\ S <= Total(c)
      /\ bat_offset = 3 /\ Blocks(c) \in Nat
  BY FSizes
<1>2. /\ Rest(t, L, j) /\ Framed(c, F)
      /\ Len(F) = IF x.fixed THEN Total(c) ELSE x.cursor
      /\ \A b \in 0..(Blocks(c) - 1) : Copied(c, x, F, b, Len(F))
      /\ \A n \in 1..B : F[3 + n] = IF n <= j \/ x.fixed THEN Table(c, x.bat)[n] ELSE BlankTable(c)[n]
      /\ m.ntfs => Pending(c, f) = {}
  BY DEF Finishing, F
<1>3. /\ Listed(L)
      /\ \A n \in 1..B : L[n] = Write(bat_offset + n - 1, Table(c, x.bat)[n])
      /\ ~x.fixed => Len(L) = B + 2 /\ L[B + 1] = SetLen(x.cursor) /\ L[B + 2] = Sync
      /\ x.fixed => Len(L) = B + 1 /\ L[B + 1] = Sync
  <2>1. x.size = Size /\ x.bs = Width(c) /\ Size \in Nat /\ Width(c) \in 1..ChunkCells
    BY WriterFields, FSizes
  <2> QED BY <2>1, FinishCalls DEF BatLen, Table
<1>4. /\ Len(L) \in Nat /\ j < Len(L) /\ Head(t) = L[j + 1] /\ Rest(Tail(t), L, j + 1)
      /\ Tail(t) = <<>> <=> j + 1 = Len(L)
  <2>1. Len(L) \in Nat
    BY <1>3, ListedFcn
  <2> QED BY <1>2, <2>1, RestStep
<1>5. x.cursor \in Nat /\ S <= x.cursor /\ Len(F) \in Nat /\ S <= Len(F)
  <2>1. x.cursor \in Nat /\ S <= x.cursor
    BY WriterFields
  <2>2. CASE x.fixed
    BY <1>1, <1>2, <2>1, <2>2
  <2>3. CASE ~x.fixed
    BY <1>2, <2>1, <2>3
  <2> QED BY <2>2, <2>3
<1> HIDE DEF L, S, B
<1>6. CASE j < B
  <2> DEFINE a == j + 1
             y == Table(c, x.bat)[a]
  <2>1. a \in 1..B /\ 3 + a - 1 \in 0..Len(F) /\ 3 + a - 1 # Len(F) /\ (3 + a - 1) + 1 = 3 + a /\ ~(3 + a > S)
    BY <1>1, <1>5, <1>6
  <2>2. Head(t) = Write(3 + a - 1, y)
    BY <1>1, <1>3, <1>4, <2>1
  <2> HIDE DEF a, y
  <2>3. /\ Tidy(g) /\ Len(G) = Len(F) /\ G[3 + a] = y /\ g.dirty = f.dirty \cup {3 + a}
        /\ \A i \in 1..Len(F) : i # 3 + a => G[i] = F[i]
    <3>1. ASSUME NEW off \in 0..Len(f.cells), off # Len(f.cells), NEW z, Head(t) = Write(off, z)
          PROVE  /\ Tidy(g) /\ Len(G) = Len(F) /\ G[off + 1] = z /\ g.dirty = f.dirty \cup {off + 1}
                 /\ \A i \in 1..Len(F) : i # off + 1 => G[i] = F[i]
      BY <3>1, AfterWrite DEF g, G, F
    <3>2. 3 + a - 1 \in 0..Len(f.cells) /\ 3 + a - 1 # Len(f.cells)
      BY <2>1 DEF F
    <3>3. /\ Tidy(g) /\ Len(G) = Len(F) /\ G[(3 + a - 1) + 1] = y /\ g.dirty = f.dirty \cup {(3 + a - 1) + 1}
          /\ \A i \in 1..Len(F) : i # (3 + a - 1) + 1 => G[i] = F[i]
      BY <2>2, <3>1, <3>2
    <3> QED BY <2>1, <3>3
  <2>4. Framed(c, G)
    <3>1. 1 \in 1..Len(F) /\ 3 \in 1..Len(F) /\ 1 # 3 + a /\ 3 # 3 + a
      BY <1>1, <1>5, <2>1
    <3> QED BY <1>2, <2>3, <3>1 DEF Framed
  <2>5. ASSUME NEW b \in 0..(Blocks(c) - 1) PROVE Copied(c, x, G, b, Len(G))
    <3>1. \A i \in 1..Len(F) : i > Start(c) => G[i] = F[i]
      BY <1>1, <2>1, <2>3 DEF S
    <3>2. Len(F) <= Len(F) /\ Copied(c, x, F, b, Len(F))
      BY <1>2, <1>5
    <3>3. Copied(c, x, G, b, Len(F))
      BY <1>5, <3>1, <3>2, CopiedStays
    <3> QED BY <2>3, <3>3
  <2>6. ASSUME NEW n \in 1..B
        PROVE G[3 + n] = IF n <= j + 1 \/ x.fixed THEN Table(c, x.bat)[n] ELSE BlankTable(c)[n]
    <3>1. CASE n = a
      <4>1. n <= j + 1
        BY <3>1 DEF a
      <4> QED BY <2>3, <3>1, <4>1 DEF y
    <3>2. CASE n # a
      <4>1. 3 + n \in 1..Len(F) /\ 3 + n # 3 + a /\ (n <= j <=> n <= j + 1)
        BY <1>1, <1>5, <2>1, <3>2 DEF a
      <4> QED BY <1>2, <2>3, <4>1
    <3> QED BY <3>1, <3>2
  <2>7. m.ntfs => Pending(c, g) = {}
    BY <1>2, <2>1, <2>3 DEF Pending, S
  <2>8. Tail(t) # <<>>
    <3>1. j + 1 # Len(L)
      <4>1. CASE x.fixed
        BY <1>1, <1>3, <1>6, <4>1
      <4>2. CASE ~x.fixed
        BY <1>1, <1>3, <1>6, <4>2
      <4> QED BY <4>1, <4>2
    <3> QED BY <1>4, <3>1
  <2> QED BY <1>2, <1>4, <2>3, <2>4, <2>5, <2>6, <2>7, <2>8 DEF Finishing, L, B, G
\* The tables are written.
<1>7. ASSUME ~(j < B), Tidy(g), G = F, Pending(c, g) = Pending(c, f) \/ Pending(c, g) = {},
             Tail(t) = <<>> => g.dirty = {}
      PROVE  Finishing(c, m, x, Tail(t), g, j + 1)
  <2>1. \A n \in 1..B : n <= j /\ n <= j + 1
    BY <1>1, <1>7
  <2> QED BY <1>2, <1>4, <1>7, <2>1 DEF Finishing, L, B, G
<1>8. CASE ~x.fixed /\ j = B
  <2>1. Head(t) = SetLen(Len(f.cells)) /\ j + 1 # Len(L) /\ ~(j < B)
    BY <1>1, <1>2, <1>3, <1>4, <1>8 DEF F
  <2>2. Tidy(g) /\ G = F /\ g.dirty = f.dirty
    BY <2>1, AfterOther DEF g, G, F
  <2>3. Pending(c, g) = Pending(c, f) /\ Tail(t) # <<>>
    BY <1>4, <2>1, <2>2 DEF Pending
  <2> QED BY <1>7, <2>1, <2>2, <2>3
<1>9. CASE ~(j < B) /\ ~(~x.fixed /\ j = B)
  <2>1. Head(t) = Sync
    <3>1. CASE x.fixed
      <4>1. j = B
        BY <1>1, <1>3, <1>4, <1>9, <3>1
      <4> QED BY <1>3, <1>4, <3>1, <4>1
    <3>2. CASE ~x.fixed
      <4>1. j = B + 1 /\ j + 1 = B + 2
        BY <1>1, <1>3, <1>4, <1>9, <3>2
      <4> QED BY <1>3, <1>4, <3>2, <4>1
    <3> QED BY <3>1, <3>2
  <2>2. Tidy(g) /\ G = F /\ g.dirty = {}
    BY <2>1, AfterSync DEF g, G, F
  <2>3. Pending(c, g) = {}
    BY <2>2 DEF Pending
  <2> QED BY <1>7, <1>9, <2>2, <2>3
<1> QED BY <1>6, <1>8, <1>9

\* create is over.
LEMMA CreatingRest ==
    ASSUME NEW c \in Chains, NEW m, NEW x, WriterOK(c, m, x, 0), NEW f, Tidy(f), NEW j \in Nat,
           Creating(c, m, x, <<>>, f, j)
    PROVE  Resting(c, m, x, <<>>, f, 0)
<1> DEFINE F == f.cells
           S == Start(c)
           B == BatLen(c)
<1>1. /\ B \in Nat \ {0} /\ S = 3 + B /\ S \in Nat /\ Total(c) \in Nat /\ S <= Total(c) /\ Width(c) \in Nat
  BY FSizes
<1>2. /\ Rest(<<>>, create(x), j) /\ x.cursor = S
      /\ j > 0 => /\ Len(F) = IF j <= S + 1 THEN j - 1
                              ELSE IF x.fixed /\ j = S + B + 3 THEN Total(c) ELSE S
                  /\ \A i \in 1..Len(F) : i > S => F[i] = Zero
      /\ S + 1 < j => Framed(c, F)
      /\ \A n \in 1..B : 4 + n <= j =>
            F[3 + n] = IF S + 2 + n <= j /\ x.fixed THEN Table(c, x.bat)[n] ELSE BlankTable(c)[n]
      /\ Pending(c, f) = {}
  BY DEF Creating
<1>3. /\ Listed(create(x)) /\ Len(create(x)) = IF x.fixed THEN S + B + 3 ELSE S + 3
  BY <1>2, CallCounts
<1> HIDE DEF F, S, B
<1>4. j = IF x.fixed THEN S + B + 3 ELSE S + 3
  <2>1. Len(create(x)) \in Nat
    BY <1>3, ListedFcn
  <2> QED BY <1>2, <1>3, <2>1, RestNone
<1>5. Edge(c, x, 0) = S
  <2>1. S + 0 * Width(c) = S
    BY <1>1
  <2> QED BY <1>2, <2>1 DEF Edge, S
<1>6. j > 0 /\ ~(j <= S + 1) /\ S + 1 < j /\ (~x.fixed => j = S + 3) /\ (x.fixed => j = S + B + 3)
      /\ \A n \in 1..B : 4 + n <= j /\ (x.fixed => S + 2 + n <= j)
  <2>1. CASE x.fixed
    BY <1>1, <1>4, <2>1
  <2>2. CASE ~x.fixed
    BY <1>1, <1>4, <2>2
  <2> QED BY <2>1, <2>2
<1>7. Len(F) = IF x.fixed THEN Total(c) ELSE S
  BY <1>2, <1>6
<1>8. \A n \in 1..B : F[3 + n] = IF x.fixed THEN Table(c, x.bat)[n] ELSE BlankTable(c)[n]
  BY <1>2, <1>6
<1>9. S <= S
  BY <1>1
<1>10. Laid(c, x, F, 0, S)
  BY <1>1, <1>2, <1>6, <1>7, <1>8, <1>9 DEF Laid, S, B
<1> QED BY <1>2, <1>5, <1>10 DEF Resting, F

\* A block is written.
LEMMA PuttingRest ==
    ASSUME NEW c \in Chains, NEW m, NEW x, NEW b \in 1..Blocks(c), WriterOK(c, m, x, b),
           NEW f, Tidy(f), NEW j \in Nat, NEW n \in Nat, Putting(c, m, x, <<>>, f, b, j, n)
    PROVE  Resting(c, m, x, <<>>, f, b)
<1> DEFINE W == Width(c)
           off == Edge(c, x, b) - W
           L == PutCalls(c, m, off, b - 1)
           data == merge_block(c, b - 1)
<1>1. W \in Nat \ {0} /\ Start(c) \in Nat /\ Total(c) \in Nat /\ Blocks(c) \in Nat
  BY FSizes
<1>2. Edge(c, x, b) \in Nat /\ Edge(c, x, b) <= Total(c)
  <2>1. b \in 0..Blocks(c)
    BY <1>1
  <2> QED BY <2>1, EdgeBound
<1>3. /\ Start(c) <= off /\ n <= W /\ Rest(<<>>, L, j) /\ Laid(c, x, f.cells, b - 1, off + n)
      /\ x.bat[Slot(c, b - 1)] = FullEntry(off)
      /\ \A k \in 0..(n - 1) : f.cells[off + k + 1] = data[k]
      /\ ~m.ntfs => j = n
      /\ m.ntfs => \/ j = 2 * n /\ Pending(c, f) = {}
                   \/ j = 2 * n - 1 /\ Pending(c, f) \subseteq {off + n}
                   \/ j >= 2 * n /\ n = W /\ Pending(c, f) = {}
  BY DEF Putting
<1>4. off \in Nat /\ off + W = Edge(c, x, b)
  BY <1>1, <1>2, <1>3
<1>5. Listed(L) /\ (~m.ntfs => Len(L) = W) /\ (m.ntfs => Len(L) \in {2 * W, 2 * W + 1})
  <2> HIDE DEF off
  <2> QED BY <1>4, PutList
<1> HIDE DEF off, L, data
<1>6. j = Len(L)
  <2>1. Len(L) \in Nat
    BY <1>5, ListedFcn
  <2> QED BY <1>3, <2>1, RestNone
<1>7. n = W /\ (m.ntfs => Pending(c, f) = {})
  <2>1. CASE ~m.ntfs
    BY <1>3, <1>5, <1>6, <2>1
  <2>2. CASE m.ntfs
    <3>1. j = 2 * W \/ j = 2 * W + 1
      BY <1>5, <1>6, <2>2
    <3>2. CASE j = 2 * n
      BY <1>1, <1>3, <2>2, <3>1, <3>2
    <3>3. CASE j = 2 * n - 1
      BY <1>1, <1>3, <3>1, <3>3
    <3> QED BY <1>3, <2>2, <3>2, <3>3
  <2> QED BY <2>1, <2>2
<1>8. Laid(c, x, f.cells, b - 1, Edge(c, x, b))
  BY <1>3, <1>4, <1>7
<1>9. Copied(c, x, f.cells, b - 1, Edge(c, x, b))
  <2>1. x.bat[Slot(c, b - 1)].state = "full" /\ x.bat[Slot(c, b - 1)].off = off
    BY <1>3, EntryFields
  <2>2. off + Width(c) <= Edge(c, x, b)
    BY <1>2, <1>4
  <2>3. \A k \in 0..(Width(c) - 1) : f.cells[off + k + 1] = data[k]
    BY <1>3, <1>7
  <2> QED BY <1>3, <1>4, <2>1, <2>2, <2>3 DEF Copied, data
<1>10. \A a \in 0..(b - 1) : a \in 0..((b - 1) - 1) \/ a = b - 1
  BY <1>1
<1>11. Laid(c, x, f.cells, b, Edge(c, x, b))
  BY <1>8, <1>9, <1>10 DEF Laid
<1> QED BY <1>7, <1>11 DEF Resting

-----------------------------------------------------------------------------
(* The writer in memory.                                                   *)

\* VhdxWriter::create
LEMMA NewOK ==
    ASSUME NEW c \in Chains, NEW m
    PROVE  LET x == NewWriter(Size, Width(c), m.fixed)
           IN  WriterOK(c, m, x, 0) /\ x.cursor = Start(c)
<1> DEFINE x == NewWriter(Size, Width(c), m.fixed)
           slots == [b \in 0..(Blocks(c) - 1) |-> FullEntry(Start(c) + b * Width(c))]
           T == BatOf(Size, Width(c), slots)
           E == EmptyBat(Size, Width(c))
           bat == IF m.fixed THEN T ELSE E
<1>1. /\ Size \in Nat /\ Width(c) \in 1..ChunkCells /\ Width(c) \in Nat /\ Start(c) \in Nat
      /\ bat_entries(Size, Width(c)) \in Nat
  BY FSizes
<1>2. x = [size |-> Size, bs |-> Width(c), fixed |-> m.fixed, cursor |-> Start(c), bat |-> bat]
  BY DEF NewWriter, Start, Blocks
<1>3. /\ Listed(T) /\ Len(T) = bat_entries(Size, Width(c))
      /\ \A b \in 0..(Blocks(c) - 1) : T[Slot(c, b)] = FullEntry(Start(c) + b * Width(c))
  <2>1. DOMAIN slots = 0..(block_count(Size, Width(c)) - 1)
    BY DEF Blocks
  <2>2. \A b \in 0..(Blocks(c) - 1) : slots[b] = FullEntry(Start(c) + b * Width(c))
    OBVIOUS
  <2> HIDE DEF slots
  <2>3. /\ Listed(T) /\ Len(T) = bat_entries(Size, Width(c))
        /\ \A b \in 0..(Blocks(c) - 1) : T[Slot(c, b)] = slots[b]
    BY <1>1, <2>1, BatOfEntries DEF Slot, Blocks
  <2> QED BY <2>2, <2>3
<1>4. Listed(E) /\ Len(E) = bat_entries(Size, Width(c))
  <2>1. E = [i \in 1..bat_entries(Size, Width(c)) |-> E[i]]
    BY DEF EmptyBat
  <2> HIDE DEF E
  <2> QED BY <1>1, <2>1, FcnListed
<1> HIDE DEF x, T, E
<1>5. Start(c) <= Start(c) /\ Start(c) <= Start(c) + 0 * Width(c)
  BY <1>1
<1>6. x.cursor = Start(c) /\ x.bat = bat
  BY <1>2
<1>7. Listed(bat) /\ Len(bat) = bat_entries(Size, Width(c)) /\ (m.fixed => bat = T)
  BY <1>3, <1>4
<1> HIDE DEF bat
<1>8. WriterOK(c, m, x, 0)
  BY <1>1, <1>2, <1>3, <1>5, <1>6, <1>7 DEF WriterOK
<1> QED BY <1>6, <1>8 DEF x

\* y is the BAT of x with entry e for block b.
Entered(c, x, b, e, y) ==
    /\ Listed(y) /\ Len(y) = bat_entries(Size, Width(c)) /\ y[Slot(c, b)] = e
    /\ \A a \in 0..(b - 1) : y[Slot(c, a)] = x.bat[Slot(c, a)]

\* A block's entry set in the BAT leaves the others as they are.
LEMMA EntrySet ==
    ASSUME NEW c \in Chains, NEW m, NEW x, NEW b \in 0..(Blocks(c) - 1), WriterOK(c, m, x, b), NEW e
    PROVE  Entered(c, x, b, e, set_payload_entry(x.bat, chunk_ratio(x.bs), b, e))
<1> DEFINE y == set_payload_entry(x.bat, chunk_ratio(x.bs), b, e)
<1>1. /\ x.bs = Width(c) /\ Listed(x.bat) /\ Len(x.bat) = bat_entries(Size, Width(c))
      /\ Size \in Nat /\ Width(c) \in 1..ChunkCells /\ Blocks(c) \in Nat
  BY WriterFields, FSizes
<1>2. y = set_payload_entry(x.bat, chunk_ratio(Width(c)), b, e)
  BY <1>1
<1> HIDE DEF y
<1>3. /\ Listed(y) /\ Len(y) = Len(x.bat) /\ y[Slot(c, b)] = e
      /\ \A a \in 0..(Blocks(c) - 1) : a # b => y[Slot(c, a)] = x.bat[Slot(c, a)]
  BY <1>1, <1>2, SetEntry DEF Slot, Blocks
<1>4. \A a \in 0..(b - 1) : a \in 0..(Blocks(c) - 1) /\ a # b
  BY <1>1
<1>5. Entered(c, x, b, e, y)
  BY <1>1, <1>3, <1>4 DEF Entered
<1> QED BY <1>5 DEF y

\* What is laid out by a dynamic writer stays so when its BAT grows.
LEMMA LaidStays ==
    ASSUME NEW c \in Chains, NEW x, NEW y, NEW F, NEW b, NEW top, ~x.fixed, ~y.fixed,
           \A a \in 0..(b - 1) : y.bat[Slot(c, a)] = x.bat[Slot(c, a)], Laid(c, x, F, b, top)
    PROVE  Laid(c, y, F, b, top)
<1>1. ASSUME NEW a \in 0..(b - 1) PROVE Copied(c, y, F, a, top)
  <2>1. Copied(c, x, F, a, top) /\ y.bat[Slot(c, a)] = x.bat[Slot(c, a)]
    BY DEF Laid
  <2> QED BY <2>1 DEF Copied
<1> QED BY <1>1 DEF Laid

\* One block more.
LEMMA OneFurther ==
    ASSUME NEW start \in Nat, NEW width \in Nat, NEW b \in Nat
    PROVE  /\ start + b * width \in Nat /\ start + b * width + width = start + (b + 1) * width
           /\ start <= start + b * width
<1>1. b * width \in Nat /\ (b + 1) * width = b * width + width
  OBVIOUS
<1> QED BY <1>1

\* write_block with BlockSource::Zero
LEMMA ZeroStep ==
    ASSUME NEW c \in Chains, NEW m, ~m.fixed, NEW x, NEW b \in 0..(Blocks(c) - 1), WriterOK(c, m, x, b),
           NEW f, Resting(c, m, x, <<>>, f, b), is_all_zero(merge_block(c, b))
    PROVE  WriterOK(c, m, write_zero(x, b), b + 1) /\ Resting(c, m, write_zero(x, b), <<>>, f, b + 1)
<1> DEFINE y == write_zero(x, b)
           S == Start(c)
           W == Width(c)
           bat == set_payload_entry(x.bat, chunk_ratio(x.bs), b, ZeroEntry)
<1>1. /\ x = [size |-> Size, bs |-> W, fixed |-> m.fixed, cursor |-> x.cursor, bat |-> x.bat]
      /\ x.cursor \in Nat /\ S <= x.cursor /\ x.cursor <= S + b * W
  BY DEF WriterOK
<1>2. S \in Nat /\ W \in Nat /\ b \in Nat /\ Blocks(c) \in Nat
  BY FSizes
<1>3. y = [size |-> Size, bs |-> W, fixed |-> m.fixed, cursor |-> x.cursor, bat |-> bat]
  <2>1. y = [x EXCEPT !.bat = bat]
    BY DEF write_zero
  <2> HIDE DEF y, bat, W
  <2> QED BY <1>1, <2>1
<1>4. /\ Listed(bat) /\ Len(bat) = bat_entries(Size, Width(c)) /\ bat[Slot(c, b)] = ZeroEntry
      /\ \A a \in 0..(b - 1) : bat[Slot(c, a)] = x.bat[Slot(c, a)]
  <2>1. Entered(c, x, b, ZeroEntry, bat)
    BY EntrySet
  <2> QED BY <2>1 DEF Entered
<1> HIDE DEF y, bat
<1>5. y.cursor = x.cursor /\ y.bat = bat /\ y.fixed = m.fixed /\ x.fixed = m.fixed
  BY <1>1, <1>3
<1>6. x.cursor <= S + (b + 1) * W
  <2>1. S + b * W \in Nat /\ S + b * W + W = S + (b + 1) * W
    BY <1>2, OneFurther
  <2> QED BY <1>1, <1>2, <2>1
<1>7. WriterOK(c, m, y, b + 1)
  BY <1>1, <1>3, <1>4, <1>5, <1>6 DEF WriterOK
<1>8. Edge(c, y, b + 1) = x.cursor /\ Edge(c, x, b) = x.cursor
  BY <1>5 DEF Edge
<1>9. Laid(c, x, f.cells, b, x.cursor) /\ (m.ntfs => Pending(c, f) = {})
  BY <1>8 DEF Resting
<1>10. Laid(c, y, f.cells, b, x.cursor)
  BY <1>4, <1>5, <1>9, LaidStays
<1>11. Copied(c, y, f.cells, b, x.cursor)
  BY <1>4, <1>5 DEF Copied
<1>12. \A a \in 0..((b + 1) - 1) : a \in 0..(b - 1) \/ a = b
  BY <1>2
<1>13. Laid(c, y, f.cells, b + 1, x.cursor)
  BY <1>10, <1>11, <1>12 DEF Laid
<1> QED BY <1>7, <1>8, <1>9, <1>13 DEF Resting, y

\* write_block with BlockSource::Buf, before its first call on the file
LEMMA BufStep ==
    ASSUME NEW c \in Chains, NEW m, NEW x, NEW b \in 0..(Blocks(c) - 1), WriterOK(c, m, x, b),
           NEW f, Resting(c, m, x, <<>>, f, b)
    PROVE  /\ WriterOK(c, m, write_buf(x, b), b + 1)
           /\ Putting(c, m, write_buf(x, b), PutCalls(c, m, slot_of(x, b), b), f, b + 1, 0, 0)
<1> DEFINE y == write_buf(x, b)
           off == slot_of(x, b)
           S == Start(c)
           W == Width(c)
           bat == set_payload_entry(x.bat, chunk_ratio(x.bs), b, FullEntry(x.cursor))
<1>1. /\ x = [size |-> Size, bs |-> W, fixed |-> m.fixed, cursor |-> x.cursor, bat |-> x.bat]
      /\ x.cursor \in Nat /\ S <= x.cursor /\ x.cursor <= S + b * W
      /\ m.fixed => x.cursor = S
  BY DEF WriterOK
<1>2. S \in Nat /\ W \in Nat /\ b \in Nat /\ Blocks(c) \in Nat
  BY FSizes
<1>3. x.fixed = m.fixed /\ x.bs = W
  BY <1>1
<1>4. /\ S + b * W \in Nat /\ S + b * W + W = S + (b + 1) * W /\ S <= S + b * W
      /\ (b + 1) - 1 = b
  BY <1>2, OneFurther
\* Where the payload goes, and that nothing is there yet
<1>5. ASSUME WriterOK(c, m, y, b + 1), off \in Nat, S <= off, Edge(c, y, b + 1) = off + W,
             y.bat[Slot(c, b)] = FullEntry(off), Laid(c, y, f.cells, b, off)
      PROVE  Putting(c, m, y, PutCalls(c, m, off, b), f, b + 1, 0, 0)
  <2>1. Listed(PutCalls(c, m, off, b))
    BY <1>5, PutList
  <2>2. Rest(PutCalls(c, m, off, b), PutCalls(c, m, off, b), 0)
    BY <2>1, RestAll
  <2>3. Edge(c, y, b + 1) - W = off /\ off + 0 = off /\ 0 = 2 * 0 /\ 0 <= W /\ b + 1 > 0
    BY <1>2, <1>5
  <2>4. m.ntfs => Pending(c, f) = {}
    BY DEF Resting
  <2>5. \A k \in 0..(0 - 1) : FALSE
    OBVIOUS
  <2> HIDE DEF y, off
  <2> QED BY <1>4, <1>5, <2>2, <2>3, <2>4, <2>5 DEF Putting
<1>6. CASE m.fixed
  <2>1. y = x
    BY <1>3, <1>6 DEF write_buf
  <2>2. x.bat[Slot(c, b)] = FullEntry(S + b * W) /\ x.bat[Slot(c, b)].off = S + b * W
    BY <1>6, FixedSlot
  <2>3. off = S + b * W
    BY <1>3, <1>6, <2>2 DEF slot_of, Slot
  <2> HIDE DEF y, off
  <2>4. S <= S + (b + 1) * W
    BY <1>2, <1>4
  <2>5. WriterOK(c, m, y, b + 1)
    BY <1>1, <1>6, <2>1, <2>4 DEF WriterOK
  <2>6. Edge(c, y, b + 1) = off + W /\ Edge(c, x, b) = off
    BY <1>3, <1>4, <1>6, <2>1, <2>3 DEF Edge
  <2>7. Laid(c, y, f.cells, b, off)
    BY <2>1, <2>6 DEF Resting
  <2>8. off \in Nat /\ S <= off /\ y.bat[Slot(c, b)] = FullEntry(off)
    BY <1>4, <2>1, <2>2, <2>3
  <2>9. Putting(c, m, y, PutCalls(c, m, off, b), f, b + 1, 0, 0)
    BY <1>5, <2>5, <2>6, <2>7, <2>8
  <2> QED BY <2>5, <2>9 DEF y, off
<1>7. CASE ~m.fixed
  <2>1. off = x.cursor
    BY <1>3, <1>7 DEF slot_of
  <2>2. y = [size |-> Size, bs |-> W, fixed |-> m.fixed, cursor |-> x.cursor + W, bat |-> bat]
    <3> DEFINE end == x.cursor + W
    <3>1. y = [x EXCEPT !.bat = bat, !.cursor = end]
      BY <1>3, <1>7 DEF write_buf
    <3> HIDE DEF y, bat, W, end
    <3> DEFINE r == [x EXCEPT !.bat = bat]
    <3>2. y = [r EXCEPT !.cursor = end]
      BY <3>1
    <3>3. r = [size |-> Size, bs |-> W, fixed |-> m.fixed, cursor |-> x.cursor, bat |-> bat]
      BY <1>1
    <3> HIDE DEF r
    <3>4. y = [size |-> Size, bs |-> W, fixed |-> m.fixed, cursor |-> end, bat |-> bat]
      BY <3>2, <3>3
    <3> QED BY <3>4 DEF end
  <2>3. /\ Listed(bat) /\ Len(bat) = bat_entries(Size, Width(c)) /\ bat[Slot(c, b)] = FullEntry(x.cursor)
        /\ \A a \in 0..(b - 1) : bat[Slot(c, a)] = x.bat[Slot(c, a)]
    <3>1. Entered(c, x, b, FullEntry(x.cursor), bat)
      BY EntrySet
    <3> QED BY <3>1 DEF Entered
  <2> HIDE DEF y, bat, off
  <2>4. y.cursor = x.cursor + W /\ y.bat = bat /\ y.fixed = m.fixed
    BY <2>2
  <2>5. x.cursor + W \in Nat /\ S <= x.cursor + W /\ x.cursor + W <= S + (b + 1) * W
    BY <1>1, <1>2, <1>4
  <2>6. WriterOK(c, m, y, b + 1)
    BY <1>7, <2>2, <2>3, <2>4, <2>5 DEF WriterOK
  <2>7. Edge(c, y, b + 1) = off + W /\ Edge(c, x, b) = off
    BY <1>3, <1>7, <2>1, <2>4 DEF Edge
  <2>8. Laid(c, x, f.cells, b, off)
    BY <2>7 DEF Resting
  <2>9. Laid(c, y, f.cells, b, off)
    BY <1>3, <1>7, <2>3, <2>4, <2>8, LaidStays
  <2>10. off \in Nat /\ S <= off /\ y.bat[Slot(c, b)] = FullEntry(off)
    BY <1>1, <2>1, <2>3, <2>4
  <2>11. Putting(c, m, y, PutCalls(c, m, off, b), f, b + 1, 0, 0)
    BY <1>5, <2>6, <2>7, <2>9, <2>10
  <2> QED BY <2>6, <2>11 DEF y, off
<1> QED BY <1>6, <1>7

\* write_block can be interrupted.
LEMMA PuttingSafe ==
    ASSUME NEW c \in Chains, NEW m, ~m.zst, NEW x, NEW b \in 1..Blocks(c), WriterOK(c, m, x, b), NEW t,
           NEW f, Tidy(f), NEW j \in Nat, NEW n \in Nat, Putting(c, m, x, t, f, b, j, n)
    PROVE  Safe(c, m, f) /\ Fresh(f)
<1> DEFINE W == Width(c)
           off == Edge(c, x, b) - W
           top == off + n
           a == b - 1
<1>1. W \in Nat \ {0} /\ Start(c) \in Nat /\ Blocks(c) \in Nat
  BY FSizes
<1>2. Edge(c, x, b) \in Nat /\ (m.fixed => Edge(c, x, b) = Start(c) + b * W)
  <2>1. b \in 0..Blocks(c)
    BY <1>1
  <2> QED BY <2>1, EdgeBound
<1>3. /\ Start(c) <= off /\ n <= W /\ Laid(c, x, f.cells, a, top)
      /\ \A k \in 0..(n - 1) : f.cells[off + k + 1] = merge_block(c, a)[k]
      /\ m.ntfs => Pending(c, f) \subseteq {top}
  BY DEF Putting
<1>4. off \in Nat /\ top \in Nat /\ n \in 0..W /\ a \in 0..Blocks(c) /\ a \in Nat /\ b = a + 1
  BY <1>1, <1>2, <1>3
<1>5. m.fixed => off = Start(c) + a * W
  <2>1. Start(c) + a * W \in Nat /\ Start(c) + a * W + W = Start(c) + (a + 1) * W
    BY <1>1, <1>4, OneFurther
  <2> QED BY <1>1, <1>2, <1>4, <2>1
<1>6. m.ntfs => \A i, k \in Pending(c, f) : i = k
  BY <1>3
<1> HIDE DEF a, off
<1>7. m.fixed => /\ top = Start(c) + a * Width(c) + n
                 /\ \A k \in 0..(n - 1) : f.cells[Start(c) + a * Width(c) + k + 1] = merge_block(c, a)[k]
  BY <1>3, <1>5
<1> HIDE DEF top
<1> QED BY <1>3, <1>4, <1>6, <1>7, LaidSafe

\* So can flatten between two blocks.
LEMMA RestingSafe ==
    ASSUME NEW c \in Chains, NEW m, ~m.zst, NEW x, NEW b \in 0..Blocks(c), WriterOK(c, m, x, b), NEW t,
           NEW f, Tidy(f), Resting(c, m, x, t, f, b)
    PROVE  Safe(c, m, f) /\ Fresh(f)
<1> DEFINE top == Edge(c, x, b)
<1>1. Width(c) \in Nat \ {0} /\ Start(c) \in Nat /\ Blocks(c) \in Nat
  BY FSizes
<1>2. top \in Nat /\ (m.fixed => top = Start(c) + b * Width(c))
  BY EdgeBound
<1>3. Laid(c, x, f.cells, b, top) /\ (m.ntfs => Pending(c, f) = {})
  BY DEF Resting
<1> HIDE DEF top
<1>4. 0 \in 0..Width(c) /\ \A k \in 0..(0 - 1) : FALSE
  BY <1>1
<1>5. Start(c) + b * Width(c) + 0 = Start(c) + b * Width(c)
  <2>1. Start(c) + b * Width(c) \in Nat
    BY <1>1, OneFurther
  <2> QED BY <2>1
<1>6. m.ntfs => \A i, k \in Pending(c, f) : i = k
  BY <1>3
<1>7. m.fixed => /\ top = Start(c) + b * Width(c) + 0
                 /\ \A k \in 0..(0 - 1) : f.cells[Start(c) + b * Width(c) + k + 1] = merge_block(c, b)[k]
  BY <1>2, <1>4, <1>5
<1> QED BY <1>2, <1>3, <1>4, <1>6, <1>7, LaidSafe

\* finish begins.
LEMMA FinishBegins ==
    ASSUME NEW c \in Chains, NEW m, NEW x, WriterOK(c, m, x, Blocks(c)),
           NEW f, Resting(c, m, x, <<>>, f, Blocks(c))
    PROVE  Finishing(c, m, x, finish(x), f, 0)
<1> DEFINE top == Edge(c, x, Blocks(c))
<1>1. /\ Blocks(c) \in Nat /\ BatLen(c) \in Nat /\ Total(c) = Start(c) + Blocks(c) * Width(c)
  BY FSizes
<1>2. x.fixed = m.fixed
  BY WriterFields
<1>3. Laid(c, x, f.cells, Blocks(c), top) /\ (m.ntfs => Pending(c, f) = {})
  BY DEF Resting
<1>4. top = IF x.fixed THEN Total(c) ELSE x.cursor
  BY <1>1 DEF Edge
<1>5. Len(f.cells) = top
  BY <1>3, <1>4 DEF Laid
<1>6. Listed(finish(x)) /\ Len(finish(x)) = IF x.fixed THEN BatLen(c) + 1 ELSE BatLen(c) + 2
  BY CallCounts
<1>7. Rest(finish(x), finish(x), 0) /\ finish(x) # <<>>
  <2>1. Rest(finish(x), finish(x), 0)
    BY <1>6, RestAll
  <2>2. Len(finish(x)) \in Nat /\ Len(finish(x)) # 0
    BY <1>1, <1>6
  <2> QED BY <2>1, <2>2, RestNone
<1>8. \A n \in 1..BatLen(c) : ~(n <= 0)
  BY <1>1
<1> HIDE DEF top
<1> QED BY <1>3, <1>4, <1>5, <1>7, <1>8 DEF Finishing, Laid

-----------------------------------------------------------------------------
(* ZstStreamWriter and the encoder.                                        *)

\* A sequence grown by one.
LEMMA AppendListed ==
    ASSUME NEW s, Listed(s), NEW e
    PROVE  /\ Listed(Append(s, e)) /\ Len(Append(s, e)) = Len(s) + 1 /\ Append(s, e)[Len(s) + 1] = e
           /\ \A i \in 1..Len(s) : Append(s, e)[i] = s[i]
<1> DEFINE S == {s[i] : i \in DOMAIN s} \cup {e}
           t == Append(s, e)
<1>1. s \in Seq({s[i] : i \in DOMAIN s}) /\ Len(s) \in Nat /\ s = [i \in 1..Len(s) |-> s[i]] /\ DOMAIN s = 1..Len(s)
  BY ListedFcn DEF Listed
<1>2. \A i \in 1..Len(s) : s[i] \in S
  BY <1>1
<1>3. e \in S
  OBVIOUS
<1> HIDE DEF S
<1>4. s \in Seq(S)
  <2>1. Len(s) \in Nat /\ s \in [1..Len(s) -> S]
    BY <1>1, <1>2
  <2> QED BY <2>1, SeqDef
<1>5. t \in Seq(S) /\ Len(t) = Len(s) + 1 /\ t[Len(s) + 1] = e /\ \A i \in 1..Len(s) : t[i] = s[i]
  BY <1>3, <1>4, AppendProperties
<1> HIDE DEF t
<1>6. t = [i \in 1..Len(t) |-> t[i]] /\ Len(t) \in Nat
  BY <1>5, LenProperties
<1>7. Listed(t)
  BY <1>6, FcnListed
<1> QED BY <1>5, <1>7 DEF t

\* The blocks that are not zero, counted.
LEMMA Counted ==
    ASSUME NEW z
    PROVE  /\ NonZero(z, 0) = 0
           /\ \A b \in Nat : NonZero(z, b) \in Nat
           /\ \A b \in Nat : z[b + 1] => NonZero(z, b + 1) = NonZero(z, b)
           /\ \A b \in Nat : ~z[b + 1] => NonZero(z, b + 1) = NonZero(z, b) + 1
           /\ \A a, b \in Nat : a <= b => NonZero(z, a) <= NonZero(z, b)
<1> DEFINE N(b) == {i \in 1..b : ~z[i]}
<1>1. ASSUME NEW b \in Nat PROVE IsFiniteSet(N(b)) /\ Cardinality(N(b)) \in Nat
  <2>1. IsFiniteSet(1..b)
    BY FS_Interval
  <2>2. N(b) \in SUBSET (1..b)
    OBVIOUS
  <2> HIDE DEF N
  <2>3. IsFiniteSet(N(b))
    BY <2>1, <2>2, FS_Subset
  <2> QED BY <2>3, FS_CardinalityType
<1>2. NonZero(z, 0) = 0
  <2>1. N(0) = {}
    OBVIOUS
  <2> QED BY <2>1, FS_EmptySet DEF NonZero
<1>3. ASSUME NEW b \in Nat, z[b + 1] PROVE NonZero(z, b + 1) = NonZero(z, b)
  <2>1. N(b + 1) = N(b)
    BY <1>3
  <2> QED BY <2>1 DEF NonZero
<1>4. ASSUME NEW b \in Nat, ~z[b + 1] PROVE NonZero(z, b + 1) = NonZero(z, b) + 1
  <2>1. N(b + 1) = N(b) \cup {b + 1} /\ b + 1 \notin N(b)
    BY <1>4
  <2>2. IsFiniteSet(N(b))
    BY <1>1
  <2> HIDE DEF N
  <2>3. Cardinality(N(b + 1)) = Cardinality(N(b)) + 1
    BY <2>1, <2>2, FS_AddElement
  <2> QED BY <2>3 DEF NonZero, N
<1>5. ASSUME NEW a \in Nat, NEW b \in Nat, a <= b PROVE NonZero(z, a) <= NonZero(z, b)
  <2>1. N(a) \in SUBSET N(b)
    BY <1>5
  <2>2. IsFiniteSet(N(b))
    BY <1>1
  <2> HIDE DEF N
  <2>3. Cardinality(N(a)) <= Cardinality(N(b))
    BY <2>1, <2>2, FS_Subset
  <2> QED BY <2>3 DEF NonZero, N
<1>6. \A b \in Nat : NonZero(z, b) \in Nat
  BY <1>1 DEF NonZero
<1> QED BY <1>2, <1>3, <1>4, <1>5, <1>6

\* One round of the pre-scan.
LEMMA ScanStep ==
    ASSUME NEW c \in Chains, NEW z, NEW b \in Nat, Scanned(c, z, b), ~Failed(merge_block(c, b))
    PROVE  Scanned(c, Append(z, is_all_zero(merge_block(c, b))), b + 1)
<1> DEFINE e == is_all_zero(merge_block(c, b))
           t == Append(z, e)
<1>1. Listed(z) /\ Len(z) = b
  BY DEF Scanned
<1>2. /\ Listed(t) /\ Len(t) = b + 1 /\ t[b + 1] = e /\ \A i \in 1..b : t[i] = z[i]
  <2> HIDE DEF e
  <2> QED BY <1>1, AppendListed
<1> HIDE DEF t
<1>3. ASSUME NEW a \in 0..((b + 1) - 1)
      PROVE  ~Failed(merge_block(c, a)) /\ (t[a + 1] <=> is_all_zero(merge_block(c, a)))
  <2>1. CASE a = b
    <3>1. t[a + 1] <=> is_all_zero(merge_block(c, a))
      BY <1>2, <2>1
    <3> QED BY <2>1, <3>1
  <2>2. CASE a # b
    <3>1. a \in 0..(b - 1) /\ a + 1 \in 1..b
      BY <2>2
    <3> QED BY <1>2, <3>1 DEF Scanned
  <2> QED BY <2>1, <2>2
<1>4. Scanned(c, t, b + 1)
  BY <1>2, <1>3 DEF Scanned
<1> QED BY <1>4 DEF t

\* A chain that is all scanned can all be read.
LEMMA AllReadable ==
    ASSUME NEW c \in Chains, NEW z, Scanned(c, z, Blocks(c)), NEW v \in 0..(Size - 1)
    PROVE  VirtualCell(c, v) # Unreadable
<1> DEFINE b == v \div Width(c)
           k == v % Width(c)
<1>1. b \in 0..(Blocks(c) - 1) /\ k \in 0..(Width(c) - 1) /\ merge_block(c, b)[k] = VirtualCell(c, v)
  BY AddressCell
<1>2. DOMAIN merge_block(c, b) = 0..(Width(c) - 1)
  BY DEF merge_block, Width
<1> HIDE DEF b, k
<1>3. ~Failed(merge_block(c, b))
  BY <1>1 DEF Scanned
<1> QED BY <1>1, <1>2, <1>3 DEF Failed

\* The layout of the image in the archive.
LEMMA LayoutFields ==
    ASSUME NEW c \in Chains, NEW z
    PROVE  LET lay == Layout(c, z)
               nz == NonZero(z, Blocks(c))
           IN  /\ nz \in Nat /\ nz * Width(c) \in Nat
               /\ lay.bat_offset = 3 + nz * Width(c) /\ lay.bat_length = BatLen(c)
               /\ lay.non_zero_blocks = nz /\ lay.total_size = 3 + nz * Width(c) + BatLen(c)
               /\ lay.total_size \in Nat /\ lay.bat_offset \in Nat
<1> DEFINE nz == NonZero(z, Blocks(c))
           lay == Layout(c, z)
           bat == metadata_offset + 1 + nz * Width(c)
<1>1. Blocks(c) \in Nat /\ Width(c) \in Nat /\ metadata_offset = 2 /\ BatLen(c) \in Nat
  BY FSizes
<1>2. nz \in Nat
  BY <1>1, Counted
<1>3. lay = [bs |-> Width(c), payload_start |-> metadata_offset + 1, bat_offset |-> bat,
             bat_length |-> BatLen(c), non_zero_blocks |-> nz, total_size |-> bat + BatLen(c)]
  BY DEF Layout, compute, BatLen
<1> HIDE DEF nz
<1>4. nz * Width(c) \in Nat
  BY <1>1, <1>2
<1>5. bat = 3 + nz * Width(c) /\ bat \in Nat /\ bat + BatLen(c) = 3 + nz * Width(c) + BatLen(c) /\ bat + BatLen(c) \in Nat
  BY <1>1, <1>4
<1> HIDE DEF bat, lay
<1>6. lay.bat_offset = bat /\ lay.bat_length = BatLen(c) /\ lay.non_zero_blocks = nz /\ lay.total_size = bat + BatLen(c)
  BY <1>3
<1> QED BY <1>2, <1>4, <1>5, <1>6 DEF lay, nz

\* begin
LEMMA StreamOpens ==
    ASSUME NEW c \in Chains, NEW z
    PROVE  LET lay == Layout(c, z)
           IN  Streamed(c, [lay |-> lay, bat |-> build_bat_for_layout(Size, Width(c), z), written |-> 0],
                        z, 0, <<Tar(lay.total_size)>> \o begin(Size, Width(c), lay))
<1> DEFINE lay == Layout(c, z)
           tar == Tar(lay.total_size)
           head == HeadCell(metadata_offset, lay.bat_offset, lay.bat_length)
           meta == MetaCell(Size, Width(c))
           x == [lay |-> lay, bat |-> build_bat_for_layout(Size, Width(c), z), written |-> 0]
           h == <<head>> \o Zeros(LogSize)
           t == h \o <<meta>>
           s == <<tar>> \o t
<1>1. t = begin(Size, Width(c), lay)
  BY DEF begin
<1>2. Listed(Zeros(LogSize)) /\ Len(Zeros(LogSize)) = 1
  <2> DEFINE y == Zeros(LogSize)
  <2>1. y = [i \in 1..1 |-> y[i]]
    BY DEF Zeros, LogSize
  <2> HIDE DEF y
  <2>2. Listed(y) /\ Len(y) = 1
    BY <2>1, FcnListed
  <2> QED BY <2>2 DEF y
<1> HIDE DEF lay, tar, head, meta
<1>3. Listed(h) /\ Len(h) = 2 /\ h[1] = head
  <2>1. Listed(<<head>>) /\ Len(<<head>>) = 1 /\ <<head>>[1] = head
    BY OneListed
  <2>2. 1 \in 1..1
    OBVIOUS
  <2>3. Listed(h) /\ Len(h) = 1 + 1 /\ \A i \in 1..1 : h[i] = <<head>>[i]
    BY <1>2, <2>1, ConcatListed
  <2> QED BY <2>1, <2>2, <2>3
<1> HIDE DEF h
<1>4. Listed(t) /\ Len(t) = 3 /\ t[1] = head /\ t[3] = meta
  <2>1. Listed(t) /\ Len(t) = Len(h) + 1 /\ t[Len(h) + 1] = meta /\ \A i \in 1..Len(h) : t[i] = h[i]
    <3>1. Listed(h)
      BY <1>3
    <3> QED BY <3>1, OneMore, Zenon
  <2>2. Len(h) + 1 = 3 /\ 1 \in 1..Len(h)
    BY <1>3
  <2> QED BY <1>3, <2>1, <2>2
<1> HIDE DEF t
<1>5. Listed(s) /\ Len(s) = 4 /\ s[1] = tar /\ s[2] = head /\ s[4] = meta
  <2>1. Listed(<<tar>>) /\ Len(<<tar>>) = 1 /\ <<tar>>[1] = tar
    BY OneListed
  <2>2. Listed(s) /\ Len(s) = 1 + 3 /\ \A i \in 1..3 : s[1 + i] = t[i]
    <3> DEFINE one == <<tar>>
    <3>1. s = one \o t /\ Listed(one) /\ Listed(t)
      BY <1>4, <2>1
    <3>2. Len(one) = 1
      BY <2>1
    <3> HIDE DEF one
    <3> HIDE DEF s
    <3>3. /\ Listed(one \o t) /\ Len(one \o t) = Len(one) + Len(t)
          /\ \A i \in 1..Len(t) : (one \o t)[Len(one) + i] = t[i]
      <4>1. Listed(one) /\ Listed(t)
        BY <3>1
      <4> QED BY <4>1, ConcatListed
    <3> QED BY <1>4, <3>1, <3>2, <3>3
  <2>3. s[1] = tar
    <3>1. 1 \in 1..1 /\ \A i \in 1..1 : s[i] = <<tar>>[i]
      BY <1>4, <2>1, ConcatListed
    <3> QED BY <2>1, <3>1
  <2>4. 1 \in 1..3 /\ 3 \in 1..3 /\ 1 + 1 = 2 /\ 1 + 3 = 4
    OBVIOUS
  <2> QED BY <1>4, <2>2, <2>3, <2>4
<1> HIDE DEF s
<1>6. NonZero(z, 0) = 0 /\ Width(c) \in Nat
  BY Counted, FSizes
<1>7. 4 + NonZero(z, 0) * Width(c) = 4
  BY <1>6
<1>8. \A a \in 0..(0 - 1) : FALSE
  OBVIOUS
<1>9. Streamed(c, x, z, 0, s)
  BY <1>5, <1>6, <1>7, <1>8 DEF Streamed, lay, tar, head, meta
<1> QED BY <1>1, <1>9 DEF lay, tar, s

\* A block that is zero is not sent.
LEMMA StreamSkips ==
    ASSUME NEW c \in Chains, NEW x, NEW z, NEW b \in Nat, NEW s, Streamed(c, x, z, b, s), z[b + 1]
    PROVE  Streamed(c, x, z, b + 1, s)
<1>1. NonZero(z, b + 1) = NonZero(z, b)
  BY Counted
<1>2. \A a \in 0..((b + 1) - 1) : ~z[a + 1] => a \in 0..(b - 1)
  OBVIOUS
<1> QED BY <1>1, <1>2 DEF Streamed

\* Any other is, behind the ones before it.
LEMMA StreamSends ==
    ASSUME NEW c \in Chains, NEW x, NEW z, NEW b \in Nat, NEW s, Streamed(c, x, z, b, s), ~z[b + 1]
    PROVE  Streamed(c, [x EXCEPT !.written = @ + 1], z, b + 1,
                    s \o [i \in 1..Width(c) |-> merge_block(c, b)[i - 1]])
<1> DEFINE W == Width(c)
           buf == [i \in 1..W |-> merge_block(c, b)[i - 1]]
           t == s \o buf
           y == [x EXCEPT !.written = @ + 1]
           lay == Layout(c, z)
           bat == build_bat_for_layout(Size, W, z)
           pos(a) == 4 + NonZero(z, a) * W
<1>1. W \in Nat \ {0} /\ NonZero(z, b) \in Nat /\ NonZero(z, b + 1) = NonZero(z, b) + 1
  BY FSizes, Counted
<1>2. /\ x = [lay |-> lay, bat |-> bat, written |-> NonZero(z, b)]
      /\ Listed(s) /\ Len(s) = pos(b)
      /\ s[1] = Tar(lay.total_size)
      /\ s[2] = HeadCell(metadata_offset, lay.bat_offset, lay.bat_length)
      /\ s[4] = MetaCell(Size, W)
      /\ \A a \in 0..(b - 1) : ~z[a + 1] => \A k \in 0..(W - 1) : s[pos(a) + k + 1] = merge_block(c, a)[k]
  BY DEF Streamed
<1>3. Listed(buf) /\ Len(buf) = W /\ \A k \in 0..(W - 1) : buf[k + 1] = merge_block(c, b)[k]
  <2>1. buf = [i \in 1..W |-> buf[i]]
    OBVIOUS
  <2>2. \A k \in 0..(W - 1) : buf[k + 1] = merge_block(c, b)[k]
    BY <1>1
  <2> HIDE DEF buf
  <2>3. Listed(buf) /\ Len(buf) = W
    BY <1>1, <2>1, FcnListed
  <2> QED BY <2>2, <2>3
<1>4. y = [lay |-> lay, bat |-> bat, written |-> NonZero(z, b + 1)]
  <2> DEFINE more == NonZero(z, b) + 1
  <2>1. y = [x EXCEPT !.written = more]
    BY <1>2
  <2>2. more = NonZero(z, b + 1)
    BY <1>1
  <2> HIDE DEF y, more, lay, bat
  <2>3. y = [lay |-> lay, bat |-> bat, written |-> more]
    BY <1>2, <2>1
  <2> QED BY <2>2, <2>3
<1> HIDE DEF buf, y
<1>5. /\ Listed(t) /\ Len(t) = pos(b) + W
      /\ \A i \in 1..pos(b) : t[i] = s[i]
      /\ \A i \in 1..W : t[pos(b) + i] = buf[i]
  <2>1. /\ Listed(t) /\ Len(t) = Len(s) + Len(buf)
        /\ \A i \in 1..Len(s) : t[i] = s[i]
        /\ \A i \in 1..Len(buf) : t[Len(s) + i] = buf[i]
    <3>1. Listed(s) /\ Listed(buf)
      BY <1>2, <1>3
    <3> QED BY <3>1, ConcatListed
  <2> HIDE DEF t
  <2> QED BY <1>2, <1>3, <2>1
<1> HIDE DEF t
<1>6. pos(b + 1) = pos(b) + W /\ pos(b) \in Nat /\ 4 <= pos(b)
  <2>1. NonZero(z, b) * W \in Nat /\ (NonZero(z, b) + 1) * W = NonZero(z, b) * W + W
    BY <1>1
  <2> QED BY <1>1, <2>1
<1>7. 1 \in 1..pos(b) /\ 2 \in 1..pos(b) /\ 4 \in 1..pos(b)
  BY <1>6
<1>8. ASSUME NEW a \in 0..(b - 1), ~z[a + 1], NEW k \in 0..(W - 1)
      PROVE  pos(a) + k + 1 \in 1..pos(b)
  <2>1. a \in Nat /\ a + 1 \in Nat /\ a + 1 <= b
    OBVIOUS
  <2>2. NonZero(z, a) \in Nat /\ NonZero(z, a + 1) = NonZero(z, a) + 1 /\ NonZero(z, a + 1) <= NonZero(z, b)
    BY <1>8, <2>1, Counted
  <2>3. NonZero(z, a) < NonZero(z, b)
    BY <1>1, <2>2
  <2>4. NonZero(z, a) * W \in Nat /\ NonZero(z, a) * W + W <= NonZero(z, b) * W /\ NonZero(z, b) * W \in Nat
    BY <1>1, <2>2, <2>3, LaterChunk
  <2> QED BY <1>1, <2>4
<1>9. ASSUME NEW a \in 0..((b + 1) - 1), ~z[a + 1], NEW k \in 0..(W - 1)
      PROVE  t[pos(a) + k + 1] = merge_block(c, a)[k]
  <2>1. CASE a = b
    <3>1. k + 1 \in 1..W /\ pos(b) + (k + 1) = pos(b) + k + 1
      BY <1>1, <1>6
    <3>2. t[pos(b) + (k + 1)] = merge_block(c, b)[k]
      BY <1>3, <1>5, <3>1
    <3> QED BY <2>1, <3>1, <3>2
  <2>2. CASE a # b
    <3>1. a \in 0..(b - 1)
      BY <2>2
    <3>2. pos(a) + k + 1 \in 1..pos(b)
      BY <1>8, <1>9, <3>1
    <3> HIDE DEF pos
    <3> QED BY <1>2, <1>5, <1>9, <3>1, <3>2
  <2> QED BY <2>1, <2>2
<1>10. Streamed(c, y, z, b + 1, t)
  <2>1. Len(t) = pos(b + 1)
    BY <1>5, <1>6
  <2>2. /\ t[1] = Tar(lay.total_size)
        /\ t[2] = HeadCell(metadata_offset, lay.bat_offset, lay.bat_length)
        /\ t[4] = MetaCell(Size, W)
    BY <1>2, <1>5, <1>7
  <2> QED BY <1>4, <1>5, <1>9, <2>1, <2>2 DEF Streamed
<1> QED BY <1>10 DEF y, t, buf

\* An archive: tar header, image, tar end, frame end.
Archive(c, z, u) ==
    LET lay == Layout(c, z)
        bat == build_bat_for_layout(Size, Width(c), z)
    IN  /\ Listed(u) /\ Len(u) = lay.total_size + 3
        /\ u[1] = Tar(lay.total_size) /\ u[Len(u) - 1] = Eof /\ u[Len(u)] = FrameEnd
        /\ u[2] = HeadCell(metadata_offset, lay.bat_offset, lay.bat_length)
        /\ u[4] = MetaCell(Size, Width(c))
        /\ \A n \in 1..BatLen(c) : u[lay.bat_offset + 1 + n] = Table(c, bat)[n]
        /\ \A a \in 0..(Blocks(c) - 1) : ~z[a + 1] =>
              \A k \in 0..(Width(c) - 1) : u[4 + NonZero(z, a) * Width(c) + k + 1] = merge_block(c, a)[k]

\* Where a block is in the stream.
LEMMA StreamPlace ==
    ASSUME NEW c \in Chains, NEW z, NEW a \in 0..(Blocks(c) - 1), ~z[a + 1]
    PROVE  /\ NonZero(z, a) * Width(c) \in Nat
           /\ NonZero(z, a) * Width(c) + Width(c) <= NonZero(z, Blocks(c)) * Width(c)
<1>1. Width(c) \in Nat /\ Blocks(c) \in Nat
  BY FSizes
<1>2. a \in Nat /\ a + 1 \in Nat /\ a + 1 <= Blocks(c)
  BY <1>1
<1>3. /\ NonZero(z, a) \in Nat /\ NonZero(z, a + 1) = NonZero(z, a) + 1
      /\ NonZero(z, a + 1) <= NonZero(z, Blocks(c)) /\ NonZero(z, Blocks(c)) \in Nat
  BY <1>1, <1>2, Counted
<1>4. NonZero(z, a) < NonZero(z, Blocks(c))
  BY <1>3
<1> QED BY <1>1, <1>3, <1>4, LaterChunk

\* The entry of a block in the BAT of the archive's image.
LEMMA StreamEntry ==
    ASSUME NEW c \in Chains, NEW z, Len(z) = Blocks(c)
    PROVE  LET bat == build_bat_for_layout(Size, Width(c), z)
           IN  /\ Len(bat) = bat_entries(Size, Width(c))
               /\ \A a \in 0..(Blocks(c) - 1) :
                     bat[Slot(c, a)] = IF z[a + 1] THEN ZeroEntry
                                       ELSE FullEntry(3 + NonZero(z, a) * Width(c))
<1> DEFINE e == [b \in 0..(Len(z) - 1) |-> IF z[b + 1] THEN ZeroEntry
                   ELSE FullEntry(metadata_offset + 1 + NonZero(z, b) * Width(c))]
           bat == BatOf(Size, Width(c), e)
<1>1. Size \in Nat /\ Width(c) \in 1..ChunkCells /\ metadata_offset = 2 /\ metadata_offset + 1 = 3
  BY FSizes
<1>2. DOMAIN e = 0..(block_count(Size, Width(c)) - 1)
  BY DEF Blocks
<1>3. \A a \in 0..(Blocks(c) - 1) : e[a] = IF z[a + 1] THEN ZeroEntry
                                           ELSE FullEntry(3 + NonZero(z, a) * Width(c))
  BY <1>1
<1>4. bat = build_bat_for_layout(Size, Width(c), z)
  BY DEF build_bat_for_layout
<1> HIDE DEF e
<1>5. /\ Len(bat) = bat_entries(Size, Width(c))
      /\ \A a \in 0..(Blocks(c) - 1) : bat[Slot(c, a)] = e[a]
  BY <1>1, <1>2, BatOfEntries DEF Slot, Blocks
<1> HIDE DEF bat
<1> QED BY <1>3, <1>4, <1>5

\* The archive unpacks to a copy of the chain.
LEMMA ArchiveExact ==
    ASSUME NEW c \in Chains, NEW m, m.zst, NEW z, Scanned(c, z, Blocks(c)), NEW u, Archive(c, z, u)
    PROVE  Exact(c, m, u)
<1> DEFINE lay == Layout(c, z)
           bat == build_bat_for_layout(Size, Width(c), z)
           W == Width(c)
           B == BatLen(c)
           size == NonZero(z, Blocks(c)) * W
           bo == 3 + size
           total == bo + B
           v == SubSeq(u, 2, Len(u) - 2)
<1>1. W \in Nat \ {0} /\ B \in Nat \ {0} /\ metadata_offset = 2 /\ Size \in Nat /\ Blocks(c) \in Nat
  BY FSizes
<1>2. /\ size \in Nat /\ lay.bat_offset = bo /\ lay.bat_length = B /\ lay.total_size = total
  BY LayoutFields
<1>3. /\ Len(bat) = bat_entries(Size, W)
      /\ \A a \in 0..(Blocks(c) - 1) :
            bat[Slot(c, a)] = IF z[a + 1] THEN ZeroEntry ELSE FullEntry(3 + NonZero(z, a) * W)
  <2>1. Len(z) = Blocks(c)
    BY DEF Scanned
  <2> QED BY <2>1, StreamEntry
<1> HIDE DEF lay, bat, size
<1>4. /\ Listed(u) /\ Len(u) = total + 3 /\ u[1] = Tar(total)
      /\ u[Len(u) - 1] = Eof /\ u[Len(u)] = FrameEnd
      /\ u[2] = HeadCell(2, bo, B) /\ u[4] = MetaCell(Size, W)
      /\ \A n \in 1..B : u[bo + 1 + n] = Table(c, bat)[n]
      /\ \A a \in 0..(Blocks(c) - 1) : ~z[a + 1] =>
            \A k \in 0..(W - 1) : u[4 + NonZero(z, a) * W + k + 1] = merge_block(c, a)[k]
  BY <1>1, <1>2 DEF Archive, lay, bat
<1>5. bo \in Nat /\ total \in Nat /\ total > 0 /\ (total + 3) - 3 = total /\ total + 3 > 3
  BY <1>1, <1>2
<1>6. Unpackable(u)
  BY <1>4, <1>5 DEF Unpackable
<1>7. Len(v) = total /\ \A i \in 1..total : v[i] = u[i + 1]
  <2> DEFINE S == {u[i] : i \in DOMAIN u}
             n == total + 1
  <2>1. DOMAIN u = 1..Len(u)
    BY <1>4, ListedFcn
  <2>2. \A i \in 2..n : u[i] \in S
    <3>1. \A i \in 2..n : i \in DOMAIN u
      BY <1>4, <1>5, <2>1
    <3> QED BY <3>1
  <2>3. n \in Int /\ 2 \in Int /\ 2 <= n /\ v = SubSeq(u, 2, n) /\ n - 2 + 1 = total
    <3>1. Len(u) - 2 = n
      BY <1>4, <1>5
    <3> QED BY <1>5, <3>1
  <2> HIDE DEF S, n
  <2>4. Len(v) = n - 2 + 1 /\ \A i \in 1..(n - 2 + 1) : v[i] = u[2 + i - 1]
    BY <2>2, <2>3, SubSeqProperties
  <2>5. \A i \in 1..total : 2 + i - 1 = i + 1
    BY <1>5
  <2> HIDE DEF v, total
  <2> QED BY <2>3, <2>4, <2>5
<1>8. /\ v[1] = HeadCell(2, bo, B) /\ v[3] = MetaCell(Size, W)
      /\ \A n \in 1..B : v[bo + n] = Table(c, bat)[n]
  <2>1. 1 \in 1..total /\ 1 + 1 = 2 /\ 3 \in 1..total /\ 3 + 1 = 4
    BY <1>1, <1>2
  <2>2. \A n \in 1..B : bo + n \in 1..total /\ (bo + n) + 1 = bo + 1 + n
    BY <1>1, <1>5
  <2> HIDE DEF v, total, bo
  <2> QED BY <1>4, <1>7, <2>1, <2>2
<1> HIDE DEF v
<1>9. ASSUME NEW b \in 0..(Blocks(c) - 1) PROVE Held(c, bat, v, b)
  <2>1. CASE z[b + 1]
    BY <1>3, <2>1 DEF Held, Scanned
  <2>2. CASE ~z[b + 1]
    <3> DEFINE p == NonZero(z, b) * W
    <3>1. p \in Nat /\ p + W <= size
      BY <2>2, StreamPlace DEF size
    <3>2. bat[Slot(c, b)].state = "full" /\ bat[Slot(c, b)].off = 3 + p
      BY <1>3, <2>2, EntryFields
    <3>3. \A k \in 0..(W - 1) : u[4 + p + k + 1] = merge_block(c, b)[k]
      BY <1>4, <2>2
    <3> HIDE DEF p
    <3>4. ~((3 + p) + W > total)
      BY <1>1, <1>2, <3>1
    <3>5. \A k \in 0..(W - 1) : (3 + p) + k + 1 \in 1..total /\ ((3 + p) + k + 1) + 1 = 4 + p + k + 1
      BY <1>1, <1>2, <3>1
    <3> HIDE DEF total
    <3>6. \A k \in 0..(W - 1) : v[(3 + p) + k + 1] = merge_block(c, b)[k]
      BY <1>7, <3>3, <3>5
    <3> QED BY <1>7, <3>2, <3>4, <3>6 DEF Held
  <2> QED BY <2>1, <2>2
<1>10. /\ v[1][1] = "head" /\ v[1][2] = 2 /\ v[1][3] = bo /\ v[1][4] = B
  BY <1>8 DEF HeadCell
<1>11. SizeOf(v) = Size /\ BlockSizeOf(v) = W /\ v[v[1][2] + 1][1] = "meta"
  <2>1. v[1][2] + 1 = 3
    BY <1>10
  <2> QED BY <1>8, <2>1 DEF SizeOf, BlockSizeOf, MetaCell
<1>12. Openable(v)
  <2>1. Len(v) > 0 /\ 2 < Len(v) /\ bo + B <= Len(v)
    <3>1. Len(v) = bo + B
      BY <1>7
    <3> QED BY <1>1, <1>2, <3>1
  <2> QED BY <1>10, <1>11, <2>1 DEF Openable
<1> HIDE DEF bo, B
<1>13. ASSUME NEW a \in 0..(Size - 1) PROVE ReadImage(v, Size)[a] = VirtualCell(c, a)
  BY <1>3, <1>5, <1>8, <1>9, <1>10, <1>11, <1>12, ExactImage DEF B
<1> QED BY <1>6, <1>13 DEF Exact, Seen, v

\* ZstStreamWriter::finish and write_ustar_eof
LEMMA StreamEnds ==
    ASSUME NEW c \in Chains, NEW m, m.zst, NEW x, NEW z, Scanned(c, z, Blocks(c)),
           NEW s, Streamed(c, x, z, Blocks(c), s)
    PROVE  /\ x.written = x.lay.non_zero_blocks
           /\ Packed(c, m, z, s \o finish_stream(x.bat, x.lay, Len(s) - 1) \o <<Eof>>)
<1> DEFINE lay == Layout(c, z)
           bat == build_bat_for_layout(Size, Width(c), z)
           W == Width(c)
           B == BatLen(c)
           nz == NonZero(z, Blocks(c))
           size == nz * W
           none == Zeros(lay.bat_offset - (Len(s) - 1))
           E == encode(bat, B)
           q == none \o E
           t == s \o q
           p == t \o <<Eof>>
           u == Append(p, FrameEnd)
<1>1. W \in Nat \ {0} /\ B \in Nat \ {0} /\ Blocks(c) \in Nat
  BY FSizes
<1>2. /\ size \in Nat /\ lay.bat_offset = 3 + size /\ lay.bat_length = B /\ lay.non_zero_blocks = nz
      /\ lay.total_size = 3 + size + B
  BY LayoutFields
<1>3. /\ x = [lay |-> lay, bat |-> bat, written |-> nz]
      /\ Listed(s) /\ Len(s) = 4 + size
      /\ s[1] = Tar(lay.total_size)
      /\ s[2] = HeadCell(metadata_offset, lay.bat_offset, lay.bat_length)
      /\ s[4] = MetaCell(Size, W)
      /\ \A a \in 0..(Blocks(c) - 1) : ~z[a + 1] =>
            \A k \in 0..(W - 1) : s[4 + NonZero(z, a) * W + k + 1] = merge_block(c, a)[k]
  BY DEF Streamed
<1> HIDE DEF lay, bat, nz, size
<1>4. x.lay = lay /\ x.bat = bat /\ x.written = nz
  BY <1>3
<1>5. Listed(none) /\ Len(none) = 0
  <2>1. lay.bat_offset - (Len(s) - 1) = 0
    BY <1>2, <1>3
  <2>2. none = [i \in 1..0 |-> none[i]]
    BY <2>1 DEF Zeros
  <2> HIDE DEF none
  <2> QED BY <2>2, FcnListed
<1>6. Listed(E) /\ Len(E) = B
  BY <1>1, TableListed
<1>7. finish_stream(x.bat, x.lay, Len(s) - 1) = q
  BY <1>2, <1>4 DEF finish_stream
<1> HIDE DEF none, E
<1>8. Listed(q) /\ Len(q) = B /\ \A i \in 1..B : q[i] = E[i]
  <2>1. Listed(q) /\ Len(q) = Len(none) + Len(E) /\ \A i \in 1..Len(E) : q[Len(none) + i] = E[i]
    BY <1>5, <1>6, ConcatListed
  <2> HIDE DEF q
  <2>2. \A i \in 1..B : 0 + i = i
    BY <1>1
  <2>3. 0 + B = B
    BY <1>1
  <2> QED BY <1>5, <1>6, <2>1, <2>2, <2>3
<1> HIDE DEF q
<1>9. /\ Listed(t) /\ Len(t) = 4 + size + B /\ \A i \in 1..(4 + size) : t[i] = s[i]
      /\ \A i \in 1..B : t[4 + size + i] = E[i]
  <2>1. Listed(s) /\ Listed(q)
    BY <1>3, <1>8
  <2>2. /\ Listed(t) /\ Len(t) = Len(s) + Len(q) /\ \A i \in 1..Len(s) : t[i] = s[i]
        /\ \A i \in 1..Len(q) : t[Len(s) + i] = q[i]
    BY <2>1, ConcatListed
  <2> HIDE DEF t
  <2> QED BY <1>3, <1>8, <2>2
<1> HIDE DEF t
<1>10. /\ Listed(p) /\ Len(p) = 5 + size + B /\ p[5 + size + B] = Eof
       /\ \A i \in 1..(4 + size + B) : p[i] = t[i]
  <2>1. /\ Listed(p) /\ Len(p) = Len(t) + 1 /\ p[Len(t) + 1] = Eof /\ \A i \in 1..Len(t) : p[i] = t[i]
    BY <1>9, OneMore
  <2>2. (4 + size + B) + 1 = 5 + size + B
    BY <1>1, <1>2
  <2> HIDE DEF p
  <2> QED BY <1>9, <2>1, <2>2
<1> HIDE DEF p
<1>11. /\ Listed(u) /\ Len(u) = 6 + size + B /\ u[6 + size + B] = FrameEnd
       /\ \A i \in 1..(5 + size + B) : u[i] = p[i]
  <2>1. /\ Listed(u) /\ Len(u) = Len(p) + 1 /\ u[Len(p) + 1] = FrameEnd /\ \A i \in 1..Len(p) : u[i] = p[i]
    BY <1>10, AppendListed
  <2>2. (5 + size + B) + 1 = 6 + size + B
    BY <1>1, <1>2
  <2> HIDE DEF u
  <2> QED BY <1>10, <2>1, <2>2
<1> HIDE DEF u
<1>12. \A i \in 1..(4 + size) : u[i] = s[i] /\ p[i] = s[i]
  <2>1. \A i \in 1..(4 + size) : i \in 1..(4 + size + B) /\ i \in 1..(5 + size + B)
    BY <1>1, <1>2
  <2> QED BY <1>9, <1>10, <1>11, <2>1
<1>13. Archive(c, z, u)
  <2>1. 1 \in 1..(4 + size) /\ 2 \in 1..(4 + size) /\ 4 \in 1..(4 + size)
    BY <1>2
  <2>2. /\ u[1] = Tar(lay.total_size) /\ u[4] = MetaCell(Size, W)
        /\ u[2] = HeadCell(metadata_offset, lay.bat_offset, lay.bat_length)
    BY <1>3, <1>12, <2>1
  <2>3. Len(u) = lay.total_size + 3 /\ Len(u) - 1 = 5 + size + B
    BY <1>1, <1>2, <1>11
  <2>4. u[Len(u) - 1] = Eof /\ u[Len(u)] = FrameEnd
    <3>1. 5 + size + B \in 1..(5 + size + B)
      BY <1>1, <1>2
    <3> QED BY <1>10, <1>11, <2>3, <3>1
  <2>5. ASSUME NEW n \in 1..B PROVE u[lay.bat_offset + 1 + n] = Table(c, bat)[n]
    <3>1. /\ lay.bat_offset + 1 + n = 4 + size + n
          /\ 4 + size + n \in 1..(4 + size + B) /\ 4 + size + n \in 1..(5 + size + B)
      BY <1>1, <1>2
    <3> QED BY <1>9, <1>10, <1>11, <3>1 DEF Table, E
  <2>6. ASSUME NEW a \in 0..(Blocks(c) - 1), ~z[a + 1], NEW k \in 0..(W - 1)
        PROVE  u[4 + NonZero(z, a) * W + k + 1] = merge_block(c, a)[k]
    <3> DEFINE r == NonZero(z, a) * W
    <3>1. r \in Nat /\ r + W <= size
      BY <2>6, StreamPlace DEF size, nz
    <3>2. s[4 + r + k + 1] = merge_block(c, a)[k]
      BY <1>3, <2>6
    <3> HIDE DEF r
    <3>3. 4 + r + k + 1 \in 1..(4 + size)
      BY <1>1, <1>2, <3>1
    <3>4. u[4 + r + k + 1] = merge_block(c, a)[k]
      BY <1>12, <3>2, <3>3
    <3> QED BY <3>4 DEF r
  <2> QED BY <1>11, <2>2, <2>3, <2>4, <2>5, <2>6 DEF Archive, lay, bat
<1>14. Exact(c, m, u)
  BY <1>13, ArchiveExact
<1>15. Packed(c, m, z, p)
  <2>1. Len(p) = lay.total_size + 2
    BY <1>1, <1>2, <1>10
  <2>2. p[1] = Tar(lay.total_size)
    <3>1. 1 \in 1..(4 + size)
      BY <1>2
    <3> QED BY <1>3, <1>12, <3>1
  <2> QED BY <1>10, <1>14, <2>1, <2>2 DEF Packed, lay, u
<1> QED BY <1>2, <1>4, <1>7, <1>15 DEF p, t

\* An archive that lacks its end, as streamed so far.
Stump(c, z, s) ==
    Listed(s) /\ s # <<>> /\ s[1] = Tar(Layout(c, z).total_size) /\ Len(s) < Layout(c, z).total_size + 3

\* What is in the encoder has not the archive's end.
LEMMA StreamStump ==
    ASSUME NEW c \in Chains, NEW m, NEW x, NEW z, NEW b \in 0..Blocks(c), NEW s,
           Streamed(c, x, z, b, s) \/ Packed(c, m, z, s)
    PROVE  Stump(c, z, s)
<1> DEFINE total == Layout(c, z).total_size
           nz == NonZero(z, Blocks(c))
<1>1. Width(c) \in Nat \ {0} /\ BatLen(c) \in Nat \ {0} /\ Blocks(c) \in Nat
  BY FSizes
<1>2. total \in Nat /\ total = 3 + nz * Width(c) + BatLen(c) /\ nz * Width(c) \in Nat /\ nz \in Nat
  BY LayoutFields
<1> HIDE DEF total, nz
<1>3. Len(s) \in Nat /\ Len(s) > 0 /\ Len(s) < total + 3 /\ Listed(s) /\ s[1] = Tar(total)
  <2>1. CASE Packed(c, m, z, s)
    <3>1. Listed(s) /\ Len(s) = total + 2 /\ s[1] = Tar(total)
      BY <2>1 DEF Packed, total
    <3> QED BY <1>2, <3>1
  <2>2. CASE Streamed(c, x, z, b, s)
    <3> DEFINE given == NonZero(z, b)
    <3>1. Listed(s) /\ Len(s) = 4 + given * Width(c) /\ s[1] = Tar(total)
      BY <2>2 DEF Streamed, total
    <3>2. given \in Nat /\ given <= nz
      <4>1. b \in Nat /\ b <= Blocks(c)
        BY <1>1
      <4> QED BY <1>1, <4>1, Counted DEF nz
    <3> HIDE DEF given
    <3>3. given * Width(c) \in Nat /\ given * Width(c) <= nz * Width(c)
      <4>1. CASE given = nz
        BY <1>2, <4>1
      <4>2. CASE given < nz
        <5>1. given * Width(c) \in Nat /\ given * Width(c) + Width(c) <= nz * Width(c)
          BY <1>1, <1>2, <3>2, <4>2, LaterChunk
        <5> QED BY <1>1, <1>2, <5>1
      <4> QED BY <1>2, <3>2, <4>1, <4>2
    <3> QED BY <1>1, <1>2, <3>1, <3>3
  <2> QED BY <2>1, <2>2
<1>4. s # <<>>
  <2>1. s \in Seq({s[i] : i \in DOMAIN s})
    BY <1>3 DEF Listed
  <2> QED BY <1>3, <2>1, EmptySeq
<1> QED BY <1>3, <1>4 DEF Stump, total

\* Nothing can be read from the beginning of an archive.
LEMMA StumpFair ==
    ASSUME NEW c \in Chains, NEW m, m.zst, NEW z, NEW s, Stump(c, z, s), NEW p \in Prefixes(s)
    PROVE  LET f == [cells |-> p, dirty |-> 1..Len(p)]
           IN  Tidy(f) /\ Fresh(f) /\ Fair(c, m, p)
<1> DEFINE total == Layout(c, z).total_size
           S == {s[i] : i \in DOMAIN s}
           f == [cells |-> p, dirty |-> 1..Len(p)]
<1>1. Listed(s) /\ s[1] = Tar(total) /\ Len(s) < total + 3 /\ total \in Nat /\ Len(s) \in Nat /\ DOMAIN s = 1..Len(s)
  BY LayoutFields, ListedFcn DEF Stump
<1>2. PICK l \in 0..Len(s) : p = SubSeq(s, 1, l)
  BY DEF Prefixes
<1>3. \A i \in 1..l : s[i] \in S
  <2>1. \A i \in 1..l : i \in DOMAIN s
    BY <1>1
  <2> QED BY <2>1
<1> HIDE DEF S, total
<1>4. p \in Seq(S) /\ Len(p) = l /\ \A i \in 1..l : p[i] = s[i]
  <2>1. 1 \in Int /\ l \in Int /\ l - 1 + 1 = l /\ \A i \in 1..l : 1 + i - 1 = i
    BY <1>1
  <2>2. p \in Seq(S) /\ Len(p) = (IF 1 <= l THEN l - 1 + 1 ELSE 0) /\ \A i \in 1..(l - 1 + 1) : p[i] = s[1 + i - 1]
    BY <1>2, <1>3, <2>1, SubSeqProperties
  <2>3. (IF 1 <= l THEN l - 1 + 1 ELSE 0) = l
    BY <1>1
  <2> QED BY <2>1, <2>2, <2>3
<1>5. Listed(p)
  <2>1. p = [i \in 1..Len(p) |-> p[i]] /\ Len(p) \in Nat
    BY <1>4, LenProperties
  <2> QED BY <2>1, FcnListed
<1>6. p = <<>> \/ p[1] = Tar(total)
  <2>1. CASE l = 0
    BY <1>4, <2>1, EmptySeq
  <2>2. CASE l # 0
    <3>1. 1 \in 1..l
      BY <1>1, <2>2
    <3> QED BY <1>1, <1>4, <3>1
  <2> QED BY <2>1, <2>2
<1>7. ~Unpackable(p)
  <2>1. SUFFICES ASSUME Unpackable(p) PROVE FALSE
    OBVIOUS
  <2>2. l > 3 /\ p[1] = Tar(l - 3)
    BY <1>4, <2>1 DEF Unpackable
  <2>3. p[1] = Tar(total)
    <3>1. 1 \in 1..l
      BY <1>1, <2>2
    <3> QED BY <1>1, <1>4, <3>1
  <2>4. l - 3 = total
    BY <2>2, <2>3 DEF Tar
  <2> QED BY <1>1, <2>2, <2>4
<1>8. Fair(c, m, p)
  BY <1>7 DEF Fair, Seen
<1>9. f.cells = p /\ f.dirty = 1..Len(p)
  OBVIOUS
<1>10. Tidy(f)
  <2>1. f.dirty \subseteq 1..Len(f.cells)
    BY <1>9
  <2> QED BY <1>5, <1>9, <2>1 DEF Tidy
<1>11. Fresh(f)
  BY <1>6, <1>9, NewCells DEF Fresh
<1> QED BY <1>8, <1>10, <1>11

-----------------------------------------------------------------------------
(* Files left behind.                                                      *)

LEMMA FairExcused == ASSUME NEW c, NEW m, NEW f, Fair(c, m, f) PROVE Excused(c, m, f)
BY DEF Fair, Excused

\* What was in the place of the output before.
LEMMA OldFile ==
    ASSUME NEW f \in Olds, Tidy(f)
    PROVE  /\ f.dirty = {} /\ (f = EmptyFile \/ ~Fresh(f))
           /\ \A g \in Losses(f) : g = f
<1>1. f = EmptyFile \/ (f.dirty = {} /\ f.cells # <<>> /\ f.cells[1] = <<"old">>)
  <2>1. f = EmptyFile \/ (f = [cells |-> f.cells, dirty |-> {}] /\ f.cells # <<>> /\ f.cells[1] = <<"old">>)
    BY FlattenAssumption
  <2> QED BY <2>1
<1>2. f.dirty = {}
  BY <1>1 DEF EmptyFile
<1>3. ASSUME NEW g \in Losses(f) PROVE g = f
  <2>1. Listed(f.cells) /\ f = [cells |-> f.cells, dirty |-> f.dirty]
    BY DEF Tidy
  <2>2. g = [cells |-> f.cells, dirty |-> {}]
    BY <1>2, <2>1, NoLoss
  <2> QED BY <1>2, <2>1, <2>2
<1> QED BY <1>1, <1>2, <1>3 DEF Fresh

\* Nothing can be read from an empty file, whatever it was to become.
LEMMA EmptySafe ==
    ASSUME NEW c \in Chains, NEW m
    PROVE  /\ Fresh(EmptyFile) /\ Fair(c, m, EmptyFile.cells)
           /\ ~(m.zst /\ m.ntfs) => Safe(c, m, EmptyFile)
<1> DEFINE f == EmptyFile
           x == NewWriter(Size, Width(c), m.fixed)
<1>1. Tidy(f) /\ Len(f.cells) = 0 /\ f.cells = <<>> /\ f.dirty = {}
  <2>1. f.cells = <<>> /\ f.dirty = {} /\ f = [cells |-> f.cells, dirty |-> f.dirty]
    BY DEF EmptyFile
  <2>2. <<>> = [i \in 1..0 |-> <<>>[i]]
    OBVIOUS
  <2>3. Listed(<<>>) /\ Len(<<>>) = 0
    BY <2>2, FcnListed
  <2> QED BY <2>1, <2>3 DEF Tidy
<1>2. Fresh(f) /\ Headless(f.cells)
  BY <1>1, NoCells
<1>3. Len(x.bat) = bat_entries(Size, Width(c))
  BY NewOK, WriterFields
<1>4. Total(c) \in Nat
  BY FSizes
<1> HIDE DEF f, x
<1>5. CASE ~m.zst
  <2>1. Sketch(c, m, x.bat, f)
    BY <1>2 DEF Sketch
  <2>2. ~Openable(f.cells)
    BY <1>1 DEF Openable
  <2>3. Fair(c, m, f.cells)
    BY <1>3, <1>5, <2>2, FairFile
  <2>4. Len(f.cells) <= Total(c)
    BY <1>1, <1>4
  <2>5. \A i, j \in Pending(c, f) : i = j
    BY <1>1 DEF Pending
  <2>6. Safe(c, m, f)
    BY <1>1, <1>2, <1>3, <1>5, <2>1, <2>4, <2>5, SafeFile
  <2> QED BY <1>2, <2>3, <2>6 DEF f
<1>6. CASE m.zst
  <2>1. ~Unpackable(f.cells)
    BY <1>1 DEF Unpackable
  <2>2. Fair(c, m, f.cells)
    BY <1>6, <2>1 DEF Fair, Seen
  <2>3. ~m.ntfs => Safe(c, m, f)
    BY <1>2, <1>6, <2>2 DEF Safe
  <2> QED BY <1>2, <1>6, <2>2, <2>3 DEF f
<1> QED BY <1>5, <1>6

\* A file that may be left behind survives a power loss as one that may.
LEMMA SafeLoss ==
    ASSUME NEW c \in Chains, NEW m, NEW f, Tidy(f), NEW g \in Losses(f), Safe(c, m, f)
    PROVE  Tidy(g) /\ Lost(c, m, g)
<1>1. /\ Tidy(g) /\ Len(g.cells) = Len(f.cells) /\ g.dirty = {}
      /\ \A i \in 1..Len(f.cells) : g.cells[i] = f.cells[i] \/ (g.cells[i] = Junk /\ i \in f.dirty)
  BY LossCells
<1>2. CASE f \in Olds
  <2>1. g = f
    BY <1>2, OldFile
  <2> QED BY <1>1, <1>2, <2>1 DEF Lost
<1>3. CASE f \notin Olds
  <2>1. Fresh(f) /\ (~m.zst => Len(f.cells) <= Total(c))
        /\ ((m.ntfs /\ ~m.fixed) => Excused(c, m, g.cells))
    BY <1>3 DEF Safe
  <2>2. Fresh(g)
    <3>1. Listed(f.cells) /\ Listed(g.cells) /\ Len(f.cells) \in Nat
      BY <1>1, ListedFcn DEF Tidy
    <3>2. CASE Len(f.cells) = 0
      BY <1>1, <3>2, NoCells
    <3>3. CASE Len(f.cells) # 0
      <4>1. 1 \in 1..Len(f.cells)
        BY <3>1, <3>3
      <4>2. f.cells # <<>>
        BY <3>3
      <4> QED BY <1>1, <2>1, <4>1, <4>2, NewCells DEF Fresh
    <3> QED BY <3>2, <3>3
  <2> QED BY <1>1, <2>1, <2>2 DEF Lost
<1> QED BY <1>2, <1>3

\* A complete copy survives a power loss as it is.
LEMMA CompleteLoss ==
    ASSUME NEW c, NEW m, NEW f, Tidy(f), Complete(c, m, f), NEW g \in Losses(f)
    PROVE  g = f
<1>1. f.dirty = {} /\ Listed(f.cells) /\ f = [cells |-> f.cells, dirty |-> f.dirty]
  BY DEF Complete, Tidy
<1>2. g = [cells |-> f.cells, dirty |-> {}]
  BY <1>1, NoLoss
<1> QED BY <1>1, <1>2

-----------------------------------------------------------------------------
(* The invariant holds.                                                    *)

\* The leaf's blocks, as the actions name them.
LEMMA Names == Bs = Width(links) /\ Count = Blocks(links)
BY DEF Bs, Count, Width, Blocks

\* What the file may be taken for while flatten runs, outside of the encoder.
LEMMA SafeNow ==
    ASSUME FInv, pc \notin {"stream", "encoder", "lost"}
    PROVE  Safe(links, mode, file)
<1>1. links \in Chains /\ Tidy(file) /\ pc \in Labels /\ blk \in 0..Blocks(links) /\ Blocks(links) \in Nat
  BY FSizes DEF FInv, Kept
<1>2. CASE pc = "start"
  BY <1>2 DEF FInv, Direct, Safe
<1>3. CASE pc = "create"
  <2>1. ~mode.zst /\ (file \in Olds \/ file = EmptyFile)
    BY <1>3 DEF FInv, Direct
  <2> QED BY <1>1, <2>1, EmptySafe DEF Safe
<1>4. CASE pc = "blocks"
  <2>1. /\ ~mode.zst /\ WriterOK(links, mode, w, blk)
        /\ \/ blk = 0 /\ \E j \in Nat : Creating(links, mode, w, todo, file, j)
           \/ \E j, n \in Nat : Putting(links, mode, w, todo, file, blk, j, n)
           \/ Resting(links, mode, w, todo, file, blk)
    BY <1>4 DEF FInv, Direct
  <2>2. CASE blk = 0 /\ \E j \in Nat : Creating(links, mode, w, todo, file, j)
    BY <1>1, <2>1, <2>2, CreatingSafe
  <2>3. CASE \E j, n \in Nat : Putting(links, mode, w, todo, file, blk, j, n)
    <3>1. PICK j \in Nat, n \in Nat : Putting(links, mode, w, todo, file, blk, j, n)
      BY <2>3
    <3>2. blk \in 1..Blocks(links)
      <4>1. blk > 0
        BY <3>1 DEF Putting
      <4> QED BY <1>1, <4>1
    <3> QED BY <1>1, <2>1, <3>1, <3>2, PuttingSafe
  <2>4. CASE Resting(links, mode, w, todo, file, blk)
    BY <1>1, <2>1, <2>4, RestingSafe
  <2> QED BY <2>1, <2>2, <2>3, <2>4
<1>5. CASE pc = "finish"
  <2>1. CASE mode.zst
    <3>1. ~mode.ntfs /\ Fresh(file) /\ Exact(links, mode, file.cells)
      BY <1>5, <2>1 DEF FInv, Streams
    <3>2. Fair(links, mode, file.cells)
      BY <3>1 DEF Exact, Fair
    <3> QED BY <2>1, <3>1, <3>2 DEF Safe
  <2>2. CASE ~mode.zst
    <3>1. PICK j \in Nat : /\ WriterOK(links, mode, w, blk) /\ blk = Blocks(links)
                           /\ Finishing(links, mode, w, todo, file, j)
      BY <1>5, <2>2 DEF FInv, Direct
    <3>2. WriterOK(links, mode, w, Blocks(links))
      BY <3>1
    <3> QED BY <1>1, <2>2, <3>1, <3>2, FinishingSafe
  <2> QED BY <2>1, <2>2
<1>6. CASE pc = "failed"
  BY <1>6 DEF FInv, Ended
<1>7. CASE pc = "done"
  <2>1. Complete(links, mode, file)
    BY <1>7 DEF FInv, Ended
  <2>2. Fair(links, mode, file.cells) /\ Fresh(file) /\ (~mode.zst => Len(file.cells) <= Total(links))
    BY <2>1 DEF Complete, Exact, Fair
  <2>3. \A g \in Losses(file) : Excused(links, mode, g.cells)
    BY <1>1, <2>1, <2>2, CompleteLoss, FairExcused
  <2>4. \A i, j \in Pending(links, file) : i = j
    BY <2>1 DEF Complete, Pending
  <2> QED BY <2>2, <2>3, <2>4 DEF Safe
<1> QED BY <1>1, <1>2, <1>3, <1>4, <1>5, <1>6, <1>7 DEF Labels

\* No error, kill or power loss is worse than what may be left behind.
LEMMA Stopping ==
    ASSUME FInv, pc' \in {"failed", "lost"}, UNCHANGED <<links, mode, blk, is_zero>>, todo' = <<>>,
           Tidy(file'), (pc \in {"start", "failed", "lost"} /\ file \in Olds) => file' = file,
           pc' = "failed" => Safe(links, mode, file'), pc' = "lost" => Lost(links, mode, file')
    PROVE  FInv'
<1>1. Kept'
  BY DEF FInv, Kept, Labels
<1>2. Spared'
  BY DEF FInv, Spared
<1>3. Direct' /\ Streams'
  BY DEF Direct, Streams
<1>4. Ended'
  BY DEF Ended
<1> QED BY <1>1, <1>2, <1>3, <1>4 DEF FInv

\* Nothing happens.
LEMMA Same == ASSUME FInv, UNCHANGED fvars PROVE FInv'
<1>1. UNCHANGED <<links, mode, file, todo, pc, w, blk, is_zero, sent>>
  BY DEF fvars
<1>2. Kept' /\ Spared' /\ Ended'
  BY <1>1 DEF FInv, Kept, Spared, Ended
<1>3. Direct'
  BY <1>1 DEF FInv, Direct
<1>4. Streams'
  BY <1>1 DEF FInv, Streams
<1> QED BY <1>2, <1>3, <1>4 DEF FInv

\* At first.
LEMMA FInitOK == FInit => FInv
<1> SUFFICES ASSUME FInit PROVE FInv
  OBVIOUS
<1>1. /\ links \in Chains /\ mode \in Modes /\ file \in Olds /\ pc = "start" /\ todo = <<>>
      /\ blk = 0 /\ is_zero = <<>>
  BY DEF FInit
<1>2. Blocks(links) \in Nat
  BY <1>1, FSizes
<1>3. Listed(<<>>) /\ Len(<<>>) = 0
  <2>1. <<>> = [i \in 1..0 |-> <<>>[i]]
    OBVIOUS
  <2> QED BY <2>1, FcnListed
<1>4. Tidy(file)
  <2>1. CASE file = EmptyFile
    BY <1>3, <2>1 DEF Tidy, EmptyFile
  <2>2. CASE file # EmptyFile
    <3>1. file = [cells |-> file.cells, dirty |-> {}] /\ Listed(file.cells)
      BY <1>1, <2>2, FlattenAssumption
    <3>2. file.dirty = {}
      BY <3>1
    <3> QED BY <3>1, <3>2 DEF Tidy
  <2> QED BY <2>1, <2>2
<1>5. Kept
  BY <1>1, <1>2, <1>3, <1>4 DEF Kept, Labels
<1>6. Spared /\ Direct /\ Ended
  BY <1>1 DEF Spared, Direct, Ended
<1>7. Streams
  <2>1. Scanned(links, <<>>, 0)
    BY <1>3 DEF Scanned
  <2> QED BY <1>1, <2>1 DEF Streams
<1> QED BY <1>5, <1>6, <1>7 DEF FInv

\* One call on the output; what was there before is gone after the first.
LEMMA CallOK ==
    ASSUME FInv, Call
    PROVE  FInv' /\ Fresh(file')
<1>1. /\ todo # <<>> /\ file' = After(Head(todo), file) /\ todo' = Tail(todo)
      /\ UNCHANGED <<links, mode, pc, w, blk, is_zero, sent>>
  BY DEF Call
<1>2. /\ links \in Chains /\ Tidy(file) /\ pc \in {"create", "blocks", "finish"}
      /\ blk \in 0..Blocks(links) /\ Blocks(links) \in Nat
  BY <1>1, FSizes DEF FInv, Kept
<1>3. ASSUME Tidy(file'), Direct', Streams' PROVE FInv'
  <2>1. Kept'
    BY <1>1, <1>2, <1>3 DEF FInv, Kept
  <2>2. Spared'
    BY <1>1, <1>2 DEF FInv, Spared
  <2>3. Ended'
    BY <1>1, <1>2 DEF Ended
  <2> QED BY <1>3, <2>1, <2>2, <2>3 DEF FInv
<1>4. CASE pc = "create"
  <2>1. todo = <<Truncate>> /\ ~mode.zst /\ mode.ntfs /\ blk = 0
    BY <1>1, <1>4 DEF FInv, Direct
  <2>2. Head(todo) = Truncate /\ Tail(todo) = <<>>
    BY <2>1
  <2>3. Tidy(file') /\ file' = EmptyFile
    BY <1>1, <1>2, <2>2, AfterOther
  <2>4. Direct' /\ Streams'
    BY <1>1, <1>4, <2>1, <2>2, <2>3 DEF Direct, Streams
  <2> QED BY <1>2, <1>3, <2>3, <2>4, EmptySafe
<1>5. CASE pc = "blocks"
  <2>1. /\ ~mode.zst /\ WriterOK(links, mode, w, blk)
        /\ \/ blk = 0 /\ \E j \in Nat : Creating(links, mode, w, todo, file, j)
           \/ \E j, n \in Nat : Putting(links, mode, w, todo, file, blk, j, n)
           \/ Resting(links, mode, w, todo, file, blk)
    BY <1>5 DEF FInv, Direct
  <2>2. ~Resting(links, mode, w, todo, file, blk)
    BY <1>1 DEF Resting
  <2>3. Streams'
    BY <1>1, <1>5, <2>1 DEF Streams
  <2>4. CASE blk = 0 /\ \E j \in Nat : Creating(links, mode, w, todo, file, j)
    <3>1. PICK j \in Nat : Creating(links, mode, w, todo, file, j)
      BY <2>4
    <3>2. WriterOK(links, mode, w, 0)
      BY <2>1, <2>4
    <3>3. Tidy(file') /\ Creating(links, mode, w, Tail(todo), file', j + 1)
      BY <1>1, <1>2, <3>1, <3>2, CreateStep
    <3>4. j + 1 \in Nat /\ j + 1 > 0
      OBVIOUS
    <3>5. Fresh(file')
      BY <1>2, <2>1, <3>2, <3>3, <3>4, CreatingSafe
    <3>6. Direct'
      BY <1>1, <1>5, <2>1, <2>4, <3>3, <3>4 DEF Direct
    <3> QED BY <1>3, <2>3, <3>3, <3>5, <3>6
  <2>5. CASE \E j, n \in Nat : Putting(links, mode, w, todo, file, blk, j, n)
    <3>1. PICK j \in Nat, n \in Nat : Putting(links, mode, w, todo, file, blk, j, n)
      BY <2>5
    <3>2. blk \in 1..Blocks(links)
      <4>1. blk > 0
        BY <3>1 DEF Putting
      <4> QED BY <1>2, <4>1
    <3>3. Tidy(file') /\ \E n1 \in Nat : Putting(links, mode, w, Tail(todo), file', blk, j + 1, n1)
      BY <1>1, <1>2, <2>1, <3>1, <3>2, PutStep
    <3>4. PICK n1 \in Nat : Putting(links, mode, w, Tail(todo), file', blk, j + 1, n1)
      BY <3>3
    <3>5. j + 1 \in Nat
      OBVIOUS
    <3>6. Fresh(file')
      BY <1>2, <2>1, <3>2, <3>3, <3>4, <3>5, PuttingSafe
    <3>7. Direct'
      BY <1>1, <1>5, <2>1, <3>4, <3>5 DEF Direct
    <3> QED BY <1>3, <2>3, <3>3, <3>6, <3>7
  <2> QED BY <2>1, <2>2, <2>4, <2>5
<1>6. CASE pc = "finish" /\ mode.zst
  <2>1. /\ ~mode.ntfs /\ ~mode.fixed /\ Fresh(file) /\ Exact(links, mode, file.cells) /\ todo = <<Sync>>
    BY <1>1, <1>6 DEF FInv, Streams
  <2>2. Head(todo) = Sync /\ Tail(todo) = <<>>
    BY <2>1
  <2>3. Tidy(file') /\ file'.cells = file.cells /\ file'.dirty = {}
    BY <1>1, <1>2, <2>2, AfterSync
  <2>4. Fresh(file')
    BY <2>1, <2>3 DEF Fresh
  <2>5. Direct' /\ Streams'
    BY <1>1, <1>6, <2>1, <2>2, <2>3, <2>4 DEF Direct, Streams
  <2> QED BY <1>3, <2>3, <2>4, <2>5
<1>7. CASE pc = "finish" /\ ~mode.zst
  <2>1. PICK j \in Nat : /\ WriterOK(links, mode, w, blk) /\ blk = Blocks(links)
                         /\ Finishing(links, mode, w, todo, file, j)
    BY <1>7 DEF FInv, Direct
  <2>2. WriterOK(links, mode, w, Blocks(links))
    BY <2>1
  <2>3. Tidy(file') /\ Finishing(links, mode, w, Tail(todo), file', j + 1) /\ j + 1 \in Nat
    BY <1>1, <1>2, <2>1, <2>2, FinishStep
  <2>4. Fresh(file')
    BY <1>2, <1>7, <2>2, <2>3, FinishingSafe
  <2>5. Direct' /\ Streams'
    BY <1>1, <1>7, <2>1, <2>3 DEF Direct, Streams
  <2> QED BY <1>3, <2>3, <2>4, <2>5
<1> QED BY <1>2, <1>4, <1>5, <1>6, <1>7

\* set_ntfs_compression
LEMMA StampOK == ASSUME FInv, StampNtfs PROVE FInv'
<1>1. /\ pc = "start" /\ ~mode.zst /\ mode.ntfs /\ todo' = <<Truncate>> /\ pc' = "create"
      /\ UNCHANGED <<links, mode, file, w, blk, is_zero, sent>>
  BY DEF StampNtfs, At
<1>2. Kept'
  BY <1>1 DEF FInv, Kept, Labels
<1>3. Spared' /\ Streams' /\ Ended'
  BY <1>1 DEF Spared, Streams, Ended
<1>4. Direct'
  BY <1>1 DEF FInv, Direct
<1> QED BY <1>2, <1>3, <1>4 DEF FInv

\* VhdxWriter::create, before its first call
LEMMA CreateOK == ASSUME FInv, CreateOutput PROVE FInv'
<1>1. /\ ~mode.zst /\ pc \in {"start", "create"} /\ todo = <<>>
      /\ w' = NewWriter(Size, Bs, mode.fixed) /\ todo' = create(w') /\ pc' = "blocks"
      /\ UNCHANGED <<links, mode, file, blk, is_zero, sent>>
  BY DEF CreateOutput, At
<1>2. links \in Chains /\ Tidy(file) /\ blk = 0 /\ (file \in Olds \/ file = EmptyFile)
  BY <1>1 DEF FInv, Kept, Direct
<1>3. Kept'
  BY <1>1 DEF FInv, Kept, Labels
<1>4. Spared' /\ Streams' /\ Ended'
  BY <1>1 DEF Spared, Streams, Ended
<1>5. WriterOK(links, mode, w', 0) /\ w'.cursor = Start(links)
  BY <1>1, <1>2, NewOK, Names
<1>6. Listed(create(w'))
  BY <1>2, <1>5, CallCounts
<1>7. Rest(create(w'), create(w'), 0)
  BY <1>6, RestAll
<1>8. Pending(links, file) = {}
  BY <1>2, OldFile DEF Pending, EmptyFile
<1>9. Creating(links, mode, w', create(w'), file, 0)
  <2>1. ~(0 > 0) /\ ~(1 < 0) /\ ~(3 < 0) /\ ~(Start(links) + 1 < 0)
        /\ \A n \in 1..BatLen(links) : ~(4 + n <= 0)
    BY <1>2, FSizes
  <2> QED BY <1>2, <1>5, <1>7, <1>8, <2>1 DEF Creating
<1>10. Direct'
  <2>1. 0 \in Nat
    OBVIOUS
  <2> QED BY <1>1, <1>2, <1>5, <1>9, <2>1 DEF Direct
<1> QED BY <1>3, <1>4, <1>10 DEF FInv

\* Between two blocks
LEMMA AtBlocks ==
    ASSUME FInv, At("blocks")
    PROVE  /\ links \in Chains /\ Tidy(file) /\ ~mode.zst /\ WriterOK(links, mode, w, blk)
           /\ blk \in 0..Blocks(links) /\ Blocks(links) \in Nat /\ Resting(links, mode, w, <<>>, file, blk)
<1>1. pc = "blocks" /\ todo = <<>>
  BY DEF At
<1>2. links \in Chains /\ Tidy(file) /\ blk \in 0..Blocks(links) /\ Blocks(links) \in Nat
  BY FSizes DEF FInv, Kept
<1>3. /\ ~mode.zst /\ WriterOK(links, mode, w, blk)
      /\ \/ blk = 0 /\ \E j \in Nat : Creating(links, mode, w, <<>>, file, j)
         \/ \E j, n \in Nat : Putting(links, mode, w, <<>>, file, blk, j, n)
         \/ Resting(links, mode, w, <<>>, file, blk)
  BY <1>1 DEF FInv, Direct
<1>4. CASE blk = 0 /\ \E j \in Nat : Creating(links, mode, w, <<>>, file, j)
  <2>1. WriterOK(links, mode, w, 0)
    BY <1>3, <1>4
  <2>2. Resting(links, mode, w, <<>>, file, 0)
    BY <1>2, <1>4, <2>1, CreatingRest
  <2> QED BY <1>2, <1>3, <1>4, <2>2
<1>5. CASE \E j, n \in Nat : Putting(links, mode, w, <<>>, file, blk, j, n)
  <2>1. PICK j \in Nat, n \in Nat : Putting(links, mode, w, <<>>, file, blk, j, n)
    BY <1>5
  <2>2. blk \in 1..Blocks(links)
    <3>1. blk > 0
      BY <2>1 DEF Putting
    <3> QED BY <1>2, <3>1
  <2>3. Resting(links, mode, w, <<>>, file, blk)
    BY <1>2, <1>3, <2>1, <2>2, PuttingRest
  <2> QED BY <1>2, <1>3, <2>3
<1> QED BY <1>2, <1>3, <1>4, <1>5

\* write_block, before its first call on the file
LEMMA WriteBlockOK == ASSUME FInv, WriteBlock PROVE FInv'
<1> DEFINE composite == merge_block(links, blk)
           chunked == IF mode.ntfs THEN 1 ELSE 0
           put == write_payload_buf(slot_of(w, blk), Buf(composite), chunked)
                    \o (IF mode.ntfs THEN <<Sync>> ELSE <<>>)
<1>1. /\ At("blocks") /\ blk < Count /\ UNCHANGED <<links, mode, file, is_zero, sent>>
      /\ \/ Fail /\ UNCHANGED <<todo, w, blk>>
         \/ /\ blk' = blk + 1 /\ pc' = pc /\ mode.elide /\ ~mode.fixed /\ is_all_zero(composite)
            /\ w' = write_zero(w, blk) /\ UNCHANGED todo
         \/ blk' = blk + 1 /\ pc' = pc /\ w' = write_buf(w, blk) /\ todo' = put
  BY DEF WriteBlock
<1>2. /\ links \in Chains /\ Tidy(file) /\ ~mode.zst /\ WriterOK(links, mode, w, blk)
      /\ blk \in 0..Blocks(links) /\ Blocks(links) \in Nat /\ Resting(links, mode, w, <<>>, file, blk)
  BY <1>1, AtBlocks
<1>3. pc = "blocks" /\ todo = <<>> /\ blk \in 0..(Blocks(links) - 1) /\ blk + 1 \in 0..Blocks(links)
  BY <1>1, <1>2, Names DEF At
<1>4. put = PutCalls(links, mode, slot_of(w, blk), blk)
  BY Names DEF PutCalls, Buf
<1> HIDE DEF composite, put
<1>5. ASSUME pc' = pc, blk' = blk + 1, Direct' PROVE FInv'
  <2>1. Kept'
    BY <1>1, <1>3, <1>5 DEF FInv, Kept
  <2>2. Spared' /\ Streams' /\ Ended'
    BY <1>1, <1>2, <1>3, <1>5 DEF Spared, Streams, Ended
  <2> QED BY <1>5, <2>1, <2>2 DEF FInv
<1>6. CASE Fail /\ UNCHANGED <<todo, w, blk>>
  <2>1. Safe(links, mode, file)
    BY <1>3, SafeNow
  <2>2. pc' = "failed" /\ todo' = <<>>
    BY <1>3, <1>6 DEF Fail
  <2> QED BY <1>1, <1>2, <1>3, <1>6, <2>1, <2>2, Stopping
<1>7. CASE /\ blk' = blk + 1 /\ pc' = pc /\ ~mode.fixed /\ is_all_zero(composite)
           /\ w' = write_zero(w, blk) /\ UNCHANGED todo
  <2>1. WriterOK(links, mode, w', blk + 1) /\ Resting(links, mode, w', <<>>, file, blk + 1)
    BY <1>2, <1>3, <1>7, ZeroStep DEF composite
  <2>2. Direct'
    BY <1>1, <1>2, <1>3, <1>7, <2>1 DEF Direct
  <2> QED BY <1>5, <1>7, <2>2
<1>8. CASE blk' = blk + 1 /\ pc' = pc /\ w' = write_buf(w, blk) /\ todo' = put
  <2>1. WriterOK(links, mode, w', blk + 1) /\ Putting(links, mode, w', put, file, blk + 1, 0, 0)
    BY <1>2, <1>3, <1>4, <1>8, BufStep
  <2>2. Direct'
    <3>1. 0 \in Nat
      OBVIOUS
    <3> QED BY <1>1, <1>2, <1>3, <1>8, <2>1, <3>1 DEF Direct
  <2> QED BY <1>5, <1>8, <2>2
<1> QED BY <1>1, <1>6, <1>7, <1>8

\* VhdxWriter::finish, before its first call
LEMMA FinishOutputOK == ASSUME FInv, FinishOutput PROVE FInv'
<1>1. /\ At("blocks") /\ blk = Count /\ todo' = finish(w) /\ pc' = "finish"
      /\ UNCHANGED <<links, mode, file, w, blk, is_zero, sent>>
  BY DEF FinishOutput
<1>2. /\ links \in Chains /\ ~mode.zst /\ WriterOK(links, mode, w, blk)
      /\ Resting(links, mode, w, <<>>, file, blk)
  BY <1>1, AtBlocks
<1>3. blk = Blocks(links)
  BY <1>1, Names
<1>4. Finishing(links, mode, w, finish(w), file, 0)
  BY <1>2, <1>3, FinishBegins
<1>5. Kept'
  BY <1>1 DEF FInv, Kept, Labels
<1>6. Spared' /\ Streams' /\ Ended'
  BY <1>1, <1>2 DEF Spared, Streams, Ended
<1>7. Direct'
  <2>1. 0 \in Nat
    OBVIOUS
  <2> QED BY <1>1, <1>2, <1>3, <1>4, <2>1 DEF Direct
<1> QED BY <1>5, <1>6, <1>7 DEF FInv

\* Success is reported of a complete copy.
LEMMA ReturnOutputOK == ASSUME FInv, ReturnOutput PROVE FInv' /\ Complete(links, mode, file)
<1>1. /\ pc = "finish" /\ todo = <<>> /\ pc' = "done"
      /\ UNCHANGED <<links, mode, file, todo, w, blk, is_zero, sent>>
  BY DEF ReturnOutput, At
<1>2. links \in Chains /\ Tidy(file)
  BY DEF FInv, Kept
<1>3. Complete(links, mode, file)
  <2>1. CASE mode.zst
    <3>1. Fresh(file) /\ Exact(links, mode, file.cells) /\ (todo = <<Sync>> \/ file.dirty = {})
      BY <1>1, <2>1 DEF FInv, Streams
    <3>2. todo # <<Sync>>
      BY <1>1
    <3> QED BY <2>1, <3>1, <3>2 DEF Complete
  <2>2. CASE ~mode.zst
    <3>1. PICK j \in Nat : /\ WriterOK(links, mode, w, blk) /\ blk = Blocks(links)
                           /\ Finishing(links, mode, w, todo, file, j)
      BY <1>1, <2>2 DEF FInv, Direct
    <3>2. WriterOK(links, mode, w, Blocks(links)) /\ Finishing(links, mode, w, <<>>, file, j)
      BY <1>1, <3>1
    <3> QED BY <1>2, <2>2, <3>2, FinishingDone
  <2> QED BY <2>1, <2>2
<1>4. Kept'
  BY <1>1 DEF FInv, Kept, Labels
<1>5. Spared'
  BY <1>1 DEF FInv, Spared
<1>6. Direct' /\ Streams'
  BY <1>1 DEF Direct, Streams
<1>7. Ended'
  BY <1>1, <1>3 DEF Ended
<1> QED BY <1>3, <1>4, <1>5, <1>6, <1>7 DEF FInv

\* Errors before the output is touched.
LEMMA RefusalOK == ASSUME FInv, NtfsUnsupported \/ Reject PROVE FInv'
<1>1. /\ pc = "start" /\ todo = <<>> /\ pc' = "failed"
      /\ UNCHANGED <<links, mode, file, todo, w, blk, is_zero, sent>>
  BY DEF NtfsUnsupported, Reject, At, Fail
<1>2. Tidy(file)
  BY DEF FInv, Kept
<1>3. Safe(links, mode, file)
  BY <1>1, SafeNow
<1> QED BY <1>1, <1>2, <1>3, Stopping

\* One block of the pre-scan
LEMMA ScanOK == ASSUME FInv, Scan PROVE FInv'
<1> DEFINE composite == merge_block(links, blk)
<1>1. /\ At("start") /\ mode.zst /\ blk < Count /\ UNCHANGED <<links, mode, file, todo, w, sent>>
      /\ \/ Fail /\ UNCHANGED <<is_zero, blk>>
         \/ /\ ~Failed(composite) /\ is_zero' = Append(is_zero, is_all_zero(composite))
            /\ blk' = blk + 1 /\ UNCHANGED pc
  BY DEF Scan
<1>2. links \in Chains /\ Tidy(file) /\ blk \in 0..Blocks(links) /\ Blocks(links) \in Nat
  BY FSizes DEF FInv, Kept
<1>3. pc = "start" /\ todo = <<>> /\ blk \in Nat /\ blk + 1 \in 0..Blocks(links)
  BY <1>1, <1>2, Names DEF At
<1>4. CASE Fail /\ UNCHANGED <<is_zero, blk>>
  <2>1. Safe(links, mode, file)
    BY <1>3, SafeNow
  <2>2. pc' = "failed"
    BY <1>4 DEF Fail
  <2> QED BY <1>1, <1>2, <1>3, <1>4, <2>1, <2>2, Stopping
<1>5. CASE /\ ~Failed(composite) /\ is_zero' = Append(is_zero, is_all_zero(composite))
           /\ blk' = blk + 1 /\ UNCHANGED pc
  <2>1. Scanned(links, is_zero, blk)
    BY <1>1, <1>3 DEF FInv, Streams
  <2>2. Scanned(links, is_zero', blk + 1)
    BY <1>2, <1>3, <1>5, <2>1, ScanStep
  <2>3. Len(is_zero') = blk + 1
    BY <2>2 DEF Scanned
  <2> HIDE DEF composite
  <2>4. Kept'
    BY <1>1, <1>3, <1>5, <2>3 DEF FInv, Kept
  <2>5. Spared' /\ Direct' /\ Ended'
    BY <1>1, <1>3, <1>5 DEF FInv, Spared, Direct, Ended
  <2>6. Streams'
    BY <1>1, <1>3, <1>5, <2>2 DEF Streams
  <2> QED BY <2>4, <2>5, <2>6 DEF FInv
<1> QED BY <1>1, <1>4, <1>5

\* The destination is opened, and the encoder given what comes before the payload.
LEMMA OpenArchiveOK == ASSUME FInv, OpenArchive PROVE FInv' /\ file' = EmptyFile
<1>1. /\ pc = "start" /\ todo = <<>> /\ mode.zst /\ ~mode.ntfs /\ ~mode.fixed /\ blk = Blocks(links)
      /\ w' = [lay |-> Layout(links, is_zero),
               bat |-> build_bat_for_layout(Size, Width(links), is_zero), written |-> 0]
      /\ sent' = <<Tar(Layout(links, is_zero).total_size)>>
                    \o begin(Size, Width(links), Layout(links, is_zero))
      /\ file' = After(Truncate, file) /\ blk' = 0 /\ pc' = "stream"
      /\ UNCHANGED <<links, mode, todo, is_zero>>
  BY Names DEF OpenArchive, At, Layout
<1>2. links \in Chains /\ Tidy(file) /\ Blocks(links) \in Nat
  BY FSizes DEF FInv, Kept
<1>3. Tidy(file') /\ file' = EmptyFile
  BY <1>1, <1>2, AfterOther
<1>4. Scanned(links, is_zero, Blocks(links))
  BY <1>1 DEF FInv, Streams
<1>5. Streamed(links, w', is_zero, 0, sent')
  BY <1>1, <1>2, StreamOpens
<1>6. Kept'
  BY <1>1, <1>2, <1>3 DEF FInv, Kept, Labels
<1>7. Spared'
  BY <1>1, <1>2, <1>4, AllReadable DEF Spared
<1>8. Direct' /\ Ended'
  BY <1>1 DEF Direct, Ended
<1>9. Streams'
  BY <1>1, <1>3, <1>4, <1>5 DEF Streams
<1> QED BY <1>3, <1>6, <1>7, <1>8, <1>9 DEF FInv

\* What holds while an archive is streamed.
LEMMA AtStream ==
    ASSUME FInv, pc \in {"stream", "encoder"}
    PROVE  /\ links \in Chains /\ Tidy(file) /\ blk \in 0..Blocks(links) /\ Blocks(links) \in Nat
           /\ mode.zst /\ ~mode.ntfs /\ ~mode.fixed /\ file = EmptyFile /\ Safe(links, mode, file)
           /\ todo = <<>> /\ Scanned(links, is_zero, Blocks(links)) /\ Stump(links, is_zero, sent)
<1>1. /\ links \in Chains /\ Tidy(file) /\ blk \in 0..Blocks(links) /\ Blocks(links) \in Nat /\ todo = <<>>
  BY FSizes DEF FInv, Kept
<1>2. /\ mode.zst /\ ~mode.ntfs /\ ~mode.fixed /\ file = EmptyFile
      /\ Scanned(links, is_zero, Blocks(links))
      /\ Streamed(links, w, is_zero, blk, sent) \/ Packed(links, mode, is_zero, sent)
  BY DEF FInv, Streams
<1>3. Safe(links, mode, EmptyFile)
  BY <1>1, <1>2, EmptySafe
<1>4. Stump(links, is_zero, sent)
  BY <1>1, <1>2, StreamStump
<1> QED BY <1>1, <1>2, <1>3, <1>4

\* One block of pass 2
LEMMA StreamBlockOK == ASSUME FInv, StreamBlock PROVE FInv'
<1> DEFINE composite == merge_block(links, blk)
           data == [i \in 1..Width(links) |-> composite[i - 1]]
<1>1. /\ At("stream") /\ blk < Count /\ UNCHANGED <<links, mode, file, todo, is_zero>>
      /\ \/ is_zero[blk + 1] /\ blk' = blk + 1 /\ UNCHANGED <<pc, w, sent>>
         \/ Fail /\ UNCHANGED <<blk, w, sent>>
         \/ /\ ~is_zero[blk + 1] /\ sent' = sent \o data /\ w' = [w EXCEPT !.written = @ + 1]
            /\ blk' = blk + 1 /\ UNCHANGED pc
  BY Names DEF StreamBlock, Buf
<1>2. pc = "stream" /\ todo = <<>>
  BY <1>1 DEF At
<1>3. /\ links \in Chains /\ Tidy(file) /\ blk \in 0..Blocks(links) /\ Blocks(links) \in Nat
      /\ mode.zst /\ ~mode.ntfs /\ ~mode.fixed /\ file = EmptyFile /\ Safe(links, mode, file)
      /\ Scanned(links, is_zero, Blocks(links))
  BY <1>2, AtStream
<1>4. Streamed(links, w, is_zero, blk, sent)
  BY <1>2 DEF FInv, Streams
<1>5. blk \in Nat /\ blk + 1 \in 0..Blocks(links)
  BY <1>1, <1>3, Names
<1>6. ASSUME blk' = blk + 1, pc' = pc, Streamed(links, w', is_zero, blk + 1, sent') PROVE FInv'
  <2>1. Kept'
    BY <1>1, <1>5, <1>6 DEF FInv, Kept
  <2>2. Spared' /\ Direct' /\ Ended'
    BY <1>1, <1>2, <1>6 DEF FInv, Spared, Direct, Ended
  <2>3. Streams'
    BY <1>1, <1>2, <1>3, <1>6 DEF Streams
  <2> QED BY <2>1, <2>2, <2>3 DEF FInv
<1>7. CASE is_zero[blk + 1] /\ blk' = blk + 1 /\ UNCHANGED <<pc, w, sent>>
  <2>1. Streamed(links, w, is_zero, blk + 1, sent)
    BY <1>3, <1>4, <1>5, <1>7, StreamSkips
  <2>2. Streamed(links, w', is_zero, blk + 1, sent')
    BY <1>7, <2>1
  <2> QED BY <1>6, <1>7, <2>2
<1>8. CASE Fail /\ UNCHANGED <<blk, w, sent>>
  <2>1. pc' = "failed"
    BY <1>8 DEF Fail
  <2> QED BY <1>1, <1>2, <1>3, <1>8, <2>1, Stopping
<1>9. CASE /\ ~is_zero[blk + 1] /\ sent' = sent \o data /\ w' = [w EXCEPT !.written = @ + 1]
           /\ blk' = blk + 1 /\ UNCHANGED pc
  <2>1. Streamed(links, w', is_zero, blk + 1, sent')
    BY <1>3, <1>4, <1>5, <1>9, StreamSends
  <2> QED BY <1>6, <1>9, <2>1
<1> QED BY <1>1, <1>7, <1>8, <1>9

\* ZstStreamWriter::finish and the tar end marker
LEMMA FinishStreamOK == ASSUME FInv, FinishStream PROVE FInv'
<1> DEFINE p == sent \o finish_stream(w.bat, w.lay, Len(sent) - 1) \o <<Eof>>
<1>1. /\ At("stream") /\ blk = Count /\ UNCHANGED <<links, mode, file, todo, w, blk, is_zero>>
      /\ w.written # w.lay.non_zero_blocks \/ (sent' = p /\ pc' = "encoder")
  BY DEF FinishStream
<1>2. pc = "stream" /\ todo = <<>> /\ blk = Blocks(links)
  BY <1>1, Names DEF At
<1>3. /\ links \in Chains /\ Tidy(file) /\ mode.zst /\ ~mode.ntfs /\ ~mode.fixed
      /\ file = EmptyFile /\ Scanned(links, is_zero, Blocks(links))
  BY <1>2, AtStream
<1>4. Streamed(links, w, is_zero, Blocks(links), sent)
  BY <1>2 DEF FInv, Streams
<1>5. w.written = w.lay.non_zero_blocks /\ Packed(links, mode, is_zero, p)
  BY <1>3, <1>4, StreamEnds
<1> HIDE DEF p
<1>6. sent' = p /\ pc' = "encoder"
  BY <1>1, <1>5
<1>7. Kept'
  BY <1>1, <1>2, <1>6 DEF FInv, Kept, Labels
<1>8. Spared' /\ Direct' /\ Ended'
  BY <1>1, <1>2, <1>6 DEF FInv, Spared, Direct, Ended
<1>9. Streams'
  BY <1>1, <1>3, <1>5, <1>6 DEF Streams
<1> QED BY <1>7, <1>8, <1>9 DEF FInv

\* encoder.finish(): the archive is all in the file.
LEMMA FinishEncoderOK == ASSUME FInv, FinishEncoder PROVE FInv' /\ Fresh(file')
<1> DEFINE s == Append(sent, FrameEnd)
<1>1. /\ pc = "encoder" /\ file' = [cells |-> s, dirty |-> 1..Len(s)] /\ todo' = <<Sync>>
      /\ pc' = "finish" /\ UNCHANGED <<links, mode, w, blk, is_zero>>
  BY DEF FinishEncoder, At
<1>2. /\ links \in Chains /\ mode.zst /\ ~mode.ntfs /\ ~mode.fixed
  BY <1>1, AtStream
<1>3. Packed(links, mode, is_zero, sent)
  BY <1>1 DEF FInv, Streams
<1>4. Listed(sent) /\ sent[1] = Tar(Layout(links, is_zero).total_size) /\ Exact(links, mode, s)
  BY <1>3 DEF Packed
<1>5. Len(sent) \in Nat /\ Len(sent) # 0
  <2>1. Stump(links, is_zero, sent)
    BY <1>1, AtStream
  <2>2. sent # <<>> /\ sent \in Seq({sent[i] : i \in DOMAIN sent})
    BY <1>4, <2>1 DEF Stump, Listed
  <2> QED BY <1>4, <2>2, ListedFcn, EmptySeq
<1>6. Listed(s) /\ s[1] = sent[1]
  BY <1>4, <1>5, AppendListed
<1> HIDE DEF s
<1>7. file'.cells = s /\ file'.dirty = 1..Len(s)
  BY <1>1
<1>8. Tidy(file')
  BY <1>1, <1>6, <1>7 DEF Tidy
<1>9. Fresh(file')
  BY <1>4, <1>6, <1>7, NewCells DEF Fresh
<1>10. Kept'
  BY <1>1, <1>8 DEF FInv, Kept, Labels
<1>11. Spared' /\ Direct' /\ Ended'
  BY <1>1, <1>2 DEF FInv, Spared, Direct, Ended
<1>12. Streams'
  BY <1>1, <1>2, <1>4, <1>7, <1>9 DEF Streams
<1> QED BY <1>9, <1>10, <1>11, <1>12 DEF FInv

\* What a kill leaves behind.
LEMMA Left ==
    ASSUME FInv, pc # "lost", NEW f \in OnDisk
    PROVE  /\ Tidy(f) /\ Safe(links, mode, f)
           /\ pc \notin {"stream", "encoder"} => f = file
           /\ pc \in {"stream", "encoder"} => Fresh(f)
<1>1. CASE pc \notin {"stream", "encoder"}
  <2>1. f = file
    BY <1>1 DEF OnDisk, Streaming
  <2>2. Tidy(file) /\ Safe(links, mode, file)
    BY <1>1, SafeNow DEF FInv, Kept
  <2> QED BY <1>1, <2>1, <2>2
<1>2. CASE pc \in {"stream", "encoder"}
  <2>1. links \in Chains /\ mode.zst /\ ~mode.ntfs /\ Stump(links, is_zero, sent)
    BY <1>2, AtStream
  <2>2. PICK p \in Prefixes(sent) : f = [cells |-> p, dirty |-> 1..Len(p)]
    BY <1>2 DEF OnDisk, Streaming
  <2>3. Tidy(f) /\ Fresh(f) /\ Fair(links, mode, p)
    BY <2>1, <2>2, StumpFair
  <2>4. f.cells = p
    BY <2>2
  <2> QED BY <1>2, <2>1, <2>3, <2>4 DEF Safe
<1> QED BY <1>1, <1>2

\* A kill, at any time
LEMMA KillOK == ASSUME FInv, Kill PROVE FInv'
<1>1. /\ pc \notin {"done", "failed", "lost"} /\ file' \in OnDisk /\ pc' = "failed" /\ todo' = <<>>
      /\ UNCHANGED <<links, mode, w, blk, is_zero, sent>>
  BY DEF Kill, Fail
<1>2. Tidy(file') /\ Safe(links, mode, file') /\ (pc \notin {"stream", "encoder"} => file' = file)
  BY <1>1, Left
<1> QED BY <1>1, <1>2, Stopping

\* A power loss, at any time; it cannot touch a copy that is done.
LEMMA PowerLossOK ==
    ASSUME FInv, PowerLoss
    PROVE  FInv' /\ (pc = "done" => UNCHANGED fvars)
<1>1. PICK f \in OnDisk : file' \in Losses(f)
  BY DEF PowerLoss
<1>2. /\ pc # "lost" /\ pc' = (IF pc = "done" THEN "done" ELSE "lost") /\ todo' = <<>>
      /\ UNCHANGED <<links, mode, w, blk, is_zero, sent>>
  BY DEF PowerLoss
<1>3. links \in Chains
  BY DEF FInv, Kept
<1>4. Tidy(f) /\ Safe(links, mode, f) /\ (pc \notin {"stream", "encoder"} => f = file)
  BY <1>2, Left
<1>5. Tidy(file') /\ Lost(links, mode, file')
  BY <1>1, <1>3, <1>4, SafeLoss
<1>6. CASE pc = "done"
  <2>1. Complete(links, mode, file) /\ todo = <<>>
    BY <1>6 DEF FInv, Ended, Kept
  <2>2. file' = file
    BY <1>1, <1>4, <1>6, <2>1, CompleteLoss
  <2>3. UNCHANGED fvars
    BY <1>2, <1>6, <2>1, <2>2 DEF fvars
  <2> QED BY <2>3, Same
<1>7. CASE pc # "done"
  <2>1. (pc \in {"start", "failed", "lost"} /\ file \in Olds) => file' = file
    BY <1>1, <1>4, OldFile
  <2> QED BY <1>2, <1>5, <1>7, <2>1, Stopping
<1> QED BY <1>6, <1>7

\* Every step
LEMMA FNextOK == ASSUME FInv, FNext PROVE FInv'
BY CallOK, StampOK, CreateOK, WriteBlockOK, FinishOutputOK, ReturnOutputOK, RefusalOK, ScanOK,
   OpenArchiveOK, StreamBlockOK, FinishStreamOK, FinishEncoderOK, KillOK, PowerLossOK
   DEF FNext, Step

\* flatten_with_progress, flatten_to_zst and their writers: at any time, for
\* every chain, every combination of options and everything that may have been in
\* the place of the output, the file is what the calls made so far make of it: the
\* blocks below the loop variable are in it, the BAT on disk is the empty one
\* until finish, and whatever a kill or a power loss may leave is neither another
\* block's contents nor anything a later step could take for a complete copy.
THEOREM FlattenInvariant == FSpec => []FInv
<1>1. FInv /\ [FNext]_fvars => FInv'
  BY FNextOK, Same
<1> QED BY FInitOK, <1>1, PTL DEF FSpec

-----------------------------------------------------------------------------
(* What the invariant says of the output.                                  *)

\* The same of the state after a step.
LEMMA SafeNext ==
    (FInv' /\ pc' \notin {"stream", "encoder", "lost"}) => Safe(links', mode', file')
<1>1. FInv /\ pc \notin {"stream", "encoder", "lost"} => Safe(links, mode, file)
  BY SafeNow
<1>2. (FInv /\ pc \notin {"stream", "encoder", "lost"} => Safe(links, mode, file))'
  BY <1>1, PTL
<1> QED BY <1>2

\* What a reader finds, put down to the options and the file.
Shown(m, f) == IF f \in Olds \ {EmptyFile} THEN [v \in 0..(Size - 1) |-> <<"old", v>>]
               ELSE Seen(m, f.cells)

LEMMA ImageShown == Image = Shown(mode, file) /\ Image' = Shown(mode', file')
BY DEF Image, Shown, Seen

LEMMA ShownDomain == ASSUME NEW m, NEW f PROVE DOMAIN Shown(m, f) = 0..(Size - 1)
<1>1. DOMAIN Seen(m, f.cells) = 0..(Size - 1)
  <2>1. \A g : DOMAIN ReadImage(g, Size) = 0..(Size - 1)
    BY DEF ReadImage
  <2> QED BY <2>1 DEF Seen
<1> QED BY <1>1 DEF Shown

\* A file of flatten's own shows no cell that is not the chain's.
LEMMA FreshShown ==
    ASSUME NEW c \in Chains, NEW m, NEW f, Tidy(f), Safe(c, m, f), Fresh(f)
    PROVE  \A v \in 0..(Size - 1) : Shown(m, f)[v] \in {Zero, Unreadable, VirtualCell(c, v)}
<1>1. f \in Olds => f = EmptyFile
  BY OldFile
<1>2. Shown(m, f) = Seen(m, f.cells)
  BY <1>1 DEF Shown
<1>3. Fair(c, m, f.cells)
  BY <1>1, EmptySafe DEF Safe
<1> QED BY <1>2, <1>3 DEF Fair

\* A complete copy shows the chain's contents.
LEMMA CompleteShown ==
    ASSUME NEW c, NEW m, NEW f, Tidy(f), Complete(c, m, f)
    PROVE  Shown(m, f) = [v \in 0..(Size - 1) |-> VirtualCell(c, v)]
<1>1. f \in Olds => f = EmptyFile
  BY OldFile DEF Complete
<1>2. Shown(m, f) = Seen(m, f.cells)
  BY <1>1 DEF Shown
<1>3. \A v \in 0..(Size - 1) : Shown(m, f)[v] = VirtualCell(c, v)
  BY <1>2 DEF Complete, Exact
<1>4. Shown(m, f) = [v \in 0..(Size - 1) |-> Shown(m, f)[v]]
  <2>1. \A g : ReadImage(g, Size) = [v \in 0..(Size - 1) |-> ReadImage(g, Size)[v]]
    BY DEF ReadImage
  <2> QED BY <1>2, <2>1 DEF Seen
<1> QED BY <1>3, <1>4

\* The file's extent, what is pending of it, and what the reader of a compressed
\* one finds.
LEMMA Output ==
    ASSUME FInv
    PROVE  /\ (~mode.zst /\ file \notin Olds) => Len(file.cells) <= Total(links)
           /\ mode.ntfs => \A i, j \in Pending(links, file) : i = j
           /\ (mode.ntfs /\ ~mode.fixed) => file \in Olds \/ Excused(links, mode, file.cells)
<1>1. Tidy(file) /\ links \in Chains
  BY DEF FInv, Kept
<1>2. CASE pc \in {"stream", "encoder"}
  BY <1>2 DEF FInv, Streams
<1>3. CASE pc = "lost"
  <2>1. Lost(links, mode, file)
    BY <1>3 DEF FInv, Ended
  <2>2. file.dirty = {}
    BY <1>1, <2>1, OldFile DEF Lost
  <2> QED BY <2>1, <2>2 DEF Lost, Pending
<1>4. CASE pc \notin {"stream", "encoder", "lost"}
  <2>1. Safe(links, mode, file)
    BY <1>4, SafeNow
  <2>2. file \in Olds => Pending(links, file) = {}
    BY <1>1, OldFile DEF Pending
  <2> QED BY <2>1, <2>2, FairExcused DEF Safe
<1> QED BY <1>2, <1>3, <1>4

\* flatten_with_progress and flatten_to_zst: the loops never leave the leaf's
\* blocks, and the image never outgrows the layout that its BAT describes,
\* whatever was in its place before.
THEOREM FTypeCorrect == FSpec => []FTypeOK
<1>1. FInv => FTypeOK
  <2> SUFFICES ASSUME FInv PROVE FTypeOK
    OBVIOUS
  <2>1. Count = Blocks(links) /\ Total(links) = payload_start(Size, Bs) + Count * Bs
    BY Names DEF Total, Start
  <2>2. pc \in Labels /\ blk \in 0..Count /\ Len(is_zero) <= Count /\ Tidy(file)
    BY <2>1 DEF FInv, Kept
  <2>3. (~mode.zst /\ file \notin Olds) => Len(file.cells) <= Total(links)
    BY Output
  <2> QED BY <2>1, <2>2, <2>3 DEF FTypeOK, Labels, Tidy
<1> QED BY <1>1, FlattenInvariant, PTL

\* write_payload_buf with chunked_write_size: however many blocks and chunks are
\* written, at most one chunk of payload waits for the compressing file system.
THEOREM BackpressureHolds == FSpec => []Backpressure
<1>1. FInv => Backpressure
  <2> SUFFICES ASSUME FInv, mode.ntfs, NEW i \in file.dirty, NEW j \in file.dirty,
                      i > payload_start(Size, Bs), j > payload_start(Size, Bs)
               PROVE  i = j
    BY DEF Backpressure
  <2>1. i \in Pending(links, file) /\ j \in Pending(links, file)
    BY Names DEF Pending, Start
  <2> QED BY <2>1, Output
<1> QED BY <1>1, FlattenInvariant, PTL

\* flatten_with_progress to a compressed destination, the image not fixed: as
\* every chunk is synced and the BAT comes last, no power loss makes a reader
\* see payload that was lost or a cell of another block, unless it destroyed
\* the very part of the BAT that holds the block's entry.
THEOREM CompressedHolds == FSpec => []CompressedNeverJunk
<1>1. FInv => CompressedNeverJunk
  <2> SUFFICES ASSUME FInv, mode.ntfs, ~mode.fixed, NEW v \in 0..(Size - 1)
               PROVE  Image[v] \in {Zero, Unreadable, <<"old", v>>, VirtualCell(links, v), Stray}
    BY DEF CompressedNeverJunk
  <2>1. links \in Chains
    BY DEF FInv, Kept
  <2>2. CASE file \in Olds \ {EmptyFile}
    <3>1. Shown(mode, file)[v] = <<"old", v>>
      BY <2>2 DEF Shown
    <3> QED BY <3>1, ImageShown
  <2>3. CASE file \notin Olds \ {EmptyFile}
    <3>1. Excused(links, mode, file.cells)
      BY <2>1, <2>3, Output, EmptySafe, FairExcused
    <3>2. Shown(mode, file) = Seen(mode, file.cells)
      BY <2>3 DEF Shown
    <3> QED BY <3>1, <3>2, ImageShown DEF Excused
  <2> QED BY <2>2, <2>3
<1> QED BY <1>1, FlattenInvariant, PTL

\* flatten_to_zst: an archive is never exchanged for a chain that cannot be read
\* to its end, as analyze_chain_zero_blocks has read all of it before the
\* destination is opened.
THEOREM UnreadableKeeps == FSpec => UnreadableKeepsArchive
<1>1. ASSUME FInv, FInv', [FNext]_fvars, mode.zst, NEW v \in DOMAIN Source, Source[v] = Unreadable
      PROVE  UNCHANGED file
  <2>1. v \in 0..(Size - 1) /\ VirtualCell(links, v) = Unreadable
    BY <1>1 DEF Source
  <2>2. pc \in {"start", "failed", "lost"} /\ file \in Olds /\ todo = <<>> /\ Tidy(file)
    BY <1>1, <2>1 DEF FInv, Spared, Kept
  <2>3. CASE UNCHANGED fvars
    BY <2>3 DEF fvars
  <2>4. CASE Call \/ StampNtfs \/ NtfsUnsupported \/ CreateOutput \/ WriteBlock \/ FinishOutput
             \/ ReturnOutput \/ Reject \/ Scan \/ StreamBlock \/ FinishStream
    BY <2>2, <2>4 DEF Call, StampNtfs, NtfsUnsupported, CreateOutput, WriteBlock, FinishOutput,
                      ReturnOutput, Reject, Scan, StreamBlock, FinishStream
  <2>5. CASE OpenArchive
    <3>1. pc' = "stream" /\ links' = links /\ mode' = mode
      BY <2>5 DEF OpenArchive
    <3> QED BY <1>1, <2>1, <3>1 DEF FInv, Spared
  <2>6. CASE FinishEncoder
    BY <2>2, <2>6 DEF FinishEncoder, At
  <2>7. CASE Kill
    BY <1>1, <2>2, <2>7, Left DEF Kill
  <2>8. CASE PowerLoss
    <3>1. PICK f \in OnDisk : file' \in Losses(f)
      BY <2>8 DEF PowerLoss
    <3>2. f = file
      BY <2>2 DEF OnDisk, Streaming
    <3> QED BY <2>2, <3>1, <3>2, OldFile
  <2> QED BY <1>1, <2>3, <2>4, <2>5, <2>6, <2>7, <2>8 DEF FNext, Step
<1>2. FInv /\ FInv' /\ [FNext]_fvars =>
        [(mode.zst /\ \E v \in DOMAIN Source : Source[v] = Unreadable) => UNCHANGED file]_fvars
  BY <1>1
<1> QED BY <1>2, FlattenInvariant, PTL DEF FSpec, UnreadableKeepsArchive

-----------------------------------------------------------------------------
(* The refinement.                                                         *)

\* The disk to copy stays what it is.
LEMMA SourceStays == links' = links => Source' = Source
BY DEF Source

\* A step that leaves the output alone, or leaves a file that may be there.
LEMMA Copies ==
    ASSUME links \in Chains, UNCHANGED <<links, mode>>, Status = "running",
           Status' \in {"running", "failed"},
           file' = file \/ (Tidy(file') /\ Safe(links, mode, file') /\ Fresh(file'))
    PROVE  Promise!Copying
<1>1. DOMAIN Source = 0..(Size - 1) /\ Source' = Source
      /\ \A v \in DOMAIN Source : Source[v] = VirtualCell(links, v)
  BY SourceStays DEF Source
<1>2. DOMAIN Image' = 0..(Size - 1)
  BY ImageShown, ShownDomain
<1>3. \A v \in 0..(Size - 1) : Image'[v] \in {Zero, Unreadable} \cup {Image[v], VirtualCell(links, v)}
  <2>1. CASE file' = file
    BY <2>1, ImageShown
  <2>2. CASE Tidy(file') /\ Safe(links, mode, file') /\ Fresh(file')
    BY <2>2, FreshShown, ImageShown
  <2> QED BY <2>1, <2>2
<1> QED BY <1>1, <1>2, <1>3 DEF Promise!Copying

\* What flatten is doing, put down to the label.
LEMMA StatusOf ==
    /\ pc \in {"start", "create", "blocks", "finish", "stream", "encoder"} => Status = "running"
    /\ pc \in {"done", "failed", "lost"} => Status = pc
    /\ pc' \in {"start", "create", "blocks", "finish", "stream", "encoder"} => Status' = "running"
    /\ pc' \in {"done", "failed", "lost"} => Status' = pc'
BY DEF Status

\* Nothing happens, to a reader of the output either.
LEMMA SameShown == UNCHANGED fvars => UNCHANGED Promise!svars
<1> SUFFICES ASSUME UNCHANGED fvars PROVE UNCHANGED Promise!svars
  OBVIOUS
<1>1. UNCHANGED <<links, mode, file, pc>>
  BY DEF fvars
<1>2. Image' = Image
  BY <1>1, ImageShown
<1>3. Status' = Status
  BY <1>1 DEF Status
<1>4. Source' = Source
  BY <1>1, SourceStays
<1> QED BY <1>2, <1>3, <1>4 DEF Promise!svars

\* Every step of flatten, and a kill, is a step of Snapshot.
LEMMA StepPromised == ASSUME FInv, FInv', Step \/ Kill PROVE Promise!SNext
<1>1. links \in Chains /\ pc \in Labels /\ Tidy(file')
  BY DEF FInv, Kept
<1>2. CASE Call
  <2>1. pc' = pc /\ UNCHANGED <<links, mode>> /\ todo # <<>>
    BY <1>2 DEF Call
  <2>2. pc \in {"create", "blocks", "finish"}
    BY <2>1 DEF FInv, Kept
  <2>3. Fresh(file')
    BY <1>2, CallOK
  <2>4. Safe(links, mode, file')
    BY <2>1, <2>2, SafeNext
  <2>5. Status = "running" /\ Status' = "running"
    BY <2>1, <2>2, StatusOf
  <2>6. Promise!Copying
    BY <1>1, <2>1, <2>3, <2>4, <2>5, Copies
  <2> QED BY <2>6 DEF Promise!SNext
<1>3. CASE \/ StampNtfs \/ NtfsUnsupported \/ CreateOutput \/ WriteBlock \/ FinishOutput
           \/ Reject \/ Scan \/ StreamBlock \/ FinishStream
  <2>1. /\ pc \in {"start", "create", "blocks", "stream"} /\ UNCHANGED <<links, mode, file>>
        /\ pc' \in {"start", "create", "blocks", "finish", "stream", "encoder", "failed"}
    BY <1>3 DEF StampNtfs, NtfsUnsupported, CreateOutput, WriteBlock, FinishOutput, Reject, Scan,
                StreamBlock, FinishStream, At, Fail
  <2>2. Status = "running" /\ Status' \in {"running", "failed"}
    BY <2>1, StatusOf
  <2>3. Promise!Copying
    BY <1>1, <2>1, <2>2, Copies
  <2> QED BY <2>3 DEF Promise!SNext
<1>4. CASE ReturnOutput
  <2>1. pc = "finish" /\ pc' = "done" /\ UNCHANGED <<links, mode, file>>
    BY <1>4 DEF ReturnOutput, At
  <2>2. Complete(links, mode, file)
    BY <1>4, ReturnOutputOK
  <2>3. Image' = Source
    BY <1>1, <2>1, <2>2, CompleteShown, ImageShown DEF Source
  <2>4. Source' = Source
    BY <2>1, SourceStays
  <2>5. Status = "running" /\ Status' = "done"
    BY <2>1, StatusOf
  <2> QED BY <2>3, <2>4, <2>5 DEF Promise!SNext, Promise!Commit
<1>5. CASE OpenArchive
  <2>1. pc = "start" /\ pc' = "stream" /\ UNCHANGED <<links, mode>> /\ ~mode.ntfs
    BY <1>5 DEF OpenArchive, At
  <2>2. Fresh(file') /\ Safe(links, mode, file')
    BY <1>1, <1>5, <2>1, OpenArchiveOK, EmptySafe
  <2>3. Status = "running" /\ Status' = "running"
    BY <2>1, StatusOf
  <2>4. Promise!Copying
    BY <1>1, <2>1, <2>2, <2>3, Copies
  <2> QED BY <2>4 DEF Promise!SNext
<1>6. CASE FinishEncoder
  <2>1. pc = "encoder" /\ pc' = "finish" /\ UNCHANGED <<links, mode>>
    BY <1>6 DEF FinishEncoder, At
  <2>2. Fresh(file') /\ Safe(links, mode, file')
    BY <1>6, <2>1, FinishEncoderOK, SafeNext
  <2>3. Status = "running" /\ Status' = "running"
    BY <2>1, StatusOf
  <2>4. Promise!Copying
    BY <1>1, <2>1, <2>2, <2>3, Copies
  <2> QED BY <2>4 DEF Promise!SNext
<1>7. CASE Kill
  <2>1. /\ pc \notin {"done", "failed", "lost"} /\ pc' = "failed" /\ UNCHANGED <<links, mode>>
        /\ file' \in OnDisk
    BY <1>7 DEF Kill, Fail
  <2>2. file' = file \/ (Fresh(file') /\ Safe(links, mode, file'))
    BY <2>1, Left
  <2>3. Status = "running" /\ Status' = "failed"
    BY <1>1, <2>1, StatusOf DEF Labels
  <2>4. Promise!Copying
    BY <1>1, <2>1, <2>2, <2>3, Copies
  <2> QED BY <2>4 DEF Promise!SNext
<1> QED BY <1>2, <1>3, <1>4, <1>5, <1>6, <1>7 DEF Step

\* So is a power loss, which a copy that is done survives unchanged.
LEMMA LossPromised == ASSUME FInv, PowerLoss PROVE [Promise!SNext]_Promise!svars
<1>1. CASE pc = "done"
  BY <1>1, PowerLossOK, SameShown
<1>2. CASE pc # "done"
  <2>1. pc # "lost" /\ pc' = "lost" /\ links' = links /\ pc \in Labels
    BY <1>2 DEF PowerLoss, FInv, Kept
  <2>2. Status \in {"running", "failed"} /\ Status' = "lost"
    BY <1>2, <2>1, StatusOf DEF Labels
  <2>3. Source' = Source /\ DOMAIN Source = 0..(Size - 1)
    BY <2>1, SourceStays DEF Source
  <2>4. DOMAIN Image' = 0..(Size - 1)
    BY ImageShown, ShownDomain
  <2> QED BY <2>2, <2>3, <2>4 DEF Promise!SNext, Promise!Lose
<1> QED BY <1>1, <1>2

\* flatten_with_progress and flatten_to_zst keep the promise of module Snapshot:
\* through every interleaving of calls, kills and power losses a cell of the output
\* is left alone, copied or blank, success means a complete copy, and that copy is
\* never lost again.
THEOREM FlattenImplementsSnapshot == FSpec => ImplementsSnapshot
<1>1. FInit => Promise!SInit
  <2> SUFFICES ASSUME FInit PROVE Promise!SInit
    OBVIOUS
  <2>1. Status = "running"
    BY StatusOf DEF FInit
  <2>2. DOMAIN Image = 0..(Size - 1) /\ DOMAIN Source = 0..(Size - 1)
    BY ImageShown, ShownDomain DEF Source
  <2> QED BY <2>1, <2>2 DEF Promise!SInit
<1>2. FInv /\ FInv' /\ [FNext]_fvars => [Promise!SNext]_Promise!svars
  BY StepPromised, LossPromised, SameShown DEF FNext
<1> QED BY <1>1, <1>2, FlattenInvariant, PTL DEF FSpec, ImplementsSnapshot, Promise!SSpec
=============================================================================
