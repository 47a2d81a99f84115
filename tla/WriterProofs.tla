---------------------------- MODULE WriterProofs ----------------------------
(***************************************************************************)
(* What both users of VhdxWriter, compact and flatten, rely on, for every  *)
(* size of disk, block, chunk and table: each block has an entry of its    *)
(* own in the BAT and the table is as long as its last entry needs; the    *)
(* calls the writer makes and what each leaves of a file; how a reader     *)
(* finds a block's entry and its cells.                                    *)
(***************************************************************************)
EXTENDS Writer, TLAPS, SequenceTheorems, FiniteSetTheorems, NaturalsInduction,
        WellFoundedInduction

-----------------------------------------------------------------------------
(* Arithmetic of chunks.                                                   *)

\* Quotient and remainder.
LEMMA DivMod ==
    ASSUME NEW r \in Nat \ {0}, NEW b \in Nat
    PROVE  b \div r \in Nat /\ b % r \in 0..(r - 1) /\ b = (b \div r) * r + (b % r)
BY SMT

\* A later chunk starts no earlier than the end of an earlier one.
LEMMA LaterChunk ==
    ASSUME NEW s \in Nat, NEW p \in Nat, NEW q \in Nat, p < q
    PROVE  p * s \in Nat /\ q * s \in Nat /\ p * s + s <= q * s
BY SMT

\* A position has one chunk and one place in it.
LEMMA OnePlace ==
    ASSUME NEW s \in Nat, NEW p \in Nat, NEW q \in Nat, NEW m \in 0..(s - 1), NEW n \in 0..(s - 1),
           p * s + m = q * s + n
    PROVE  p = q /\ m = n
<1>1. ASSUME p < q PROVE FALSE
  BY <1>1, LaterChunk
<1>2. ASSUME q < p PROVE FALSE
  BY <1>2, LaterChunk
<1> QED BY <1>1, <1>2

\* Block b is the (b % r)-th of chunk b \div r; the bitmap is the chunk's last.
Place(b, r, q, m) ==
    /\ q \in Nat /\ m \in 0..(r - 1) /\ b = q * r + m
    /\ q = b \div r /\ m = b % r
    /\ payload_index(b, r) = q * (r + 1) + m
    /\ sector_bitmap_index(b, r) = q * (r + 1) + r
    /\ q * r \in Nat /\ q * (r + 1) \in Nat

\* Every block has its place.
LEMMA Placement ==
    ASSUME NEW r \in Nat \ {0}, NEW b \in Nat
    PROVE  \E q, m : Place(b, r, q, m)
<1>1. /\ b \div r \in Nat /\ b % r \in 0..(r - 1)
      /\ b = (b \div r) * r + (b % r)
  BY DivMod
<1>2. (b \div r) * r \in Nat /\ (b \div r) * (r + 1) \in Nat
  BY <1>1
<1>3. Place(b, r, b \div r, b % r)
  BY <1>1, <1>2 DEF Place, payload_index, sector_bitmap_index
<1> QED BY <1>3

\* Blocks are laid out in order, so each has an entry of its own.
LEMMA PayloadOrder ==
    ASSUME NEW r \in Nat \ {0}, NEW a \in Nat, NEW b \in Nat, a < b
    PROVE  /\ payload_index(a, r) \in Nat /\ payload_index(b, r) \in Nat
           /\ payload_index(a, r) < payload_index(b, r)
           /\ a \div r <= b \div r
<1>p1. PICK p, m : Place(a, r, p, m)
  BY Placement
<1>1. /\ p \in Nat /\ m \in 0..(r - 1)
      /\ a = p * r + m /\ p = a \div r /\ payload_index(a, r) = p * (r + 1) + m
      /\ p * r \in Nat /\ p * (r + 1) \in Nat
  BY <1>p1 DEF Place
<1>p2. PICK q, n : Place(b, r, q, n)
  BY Placement
<1>2. /\ q \in Nat /\ n \in 0..(r - 1)
      /\ b = q * r + n /\ q = b \div r /\ payload_index(b, r) = q * (r + 1) + n
      /\ q * r \in Nat /\ q * (r + 1) \in Nat
  BY <1>p2 DEF Place
<1>3. CASE p < q
  <2>1. p * (r + 1) + (r + 1) <= q * (r + 1)
    BY <1>1, <1>2, <1>3, LaterChunk
  <2> QED BY <1>1, <1>2, <1>3, <2>1
<1>4. CASE p = q
  BY <1>1, <1>2, <1>4
<1>5. CASE q < p
  <2>1. q * r + r <= p * r
    BY <1>1, <1>2, <1>5, LaterChunk
  <2> QED BY <1>1, <1>2, <2>1
<1> QED BY <1>1, <1>2, <1>3, <1>4, <1>5

\* An entry comes no earlier in the table than its block on the disk.
LEMMA PayloadBound ==
    ASSUME NEW r \in Nat \ {0}, NEW b \in Nat
    PROVE  payload_index(b, r) \in Nat /\ b <= payload_index(b, r)
<1>p1. PICK q, m : Place(b, r, q, m)
  BY Placement
<1>1. /\ q \in Nat /\ m \in 0..(r - 1)
      /\ b = q * r + m /\ payload_index(b, r) = q * (r + 1) + m
      /\ q * r \in Nat /\ q * (r + 1) \in Nat
  BY <1>p1 DEF Place
<1>2. q * (r + 1) = q * r + q
  BY <1>1
<1> QED BY <1>1, <1>2

-----------------------------------------------------------------------------
(* The size of the table.                                                  *)

\* For any geometry: every block and every bitmap has its own entry, and a
\* table of total_bat_entries is exactly as long as the last one needs.
LEMMA TableSize ==
    ASSUME NEW r \in Nat \ {0}, NEW c \in Nat \ {0}, NEW hp \in BOOLEAN
    PROVE  LET total == total_bat_entries(c, r, hp)
               pays == {payload_index(b, r) : b \in 0..(c - 1)}
               maps == {sector_bitmap_index(b, r) : b \in 0..(c - 1)}
           IN /\ \A i \in pays : i < total
              /\ \A a, b \in 0..(c - 1) : payload_index(a, r) = payload_index(b, r) => a = b
              /\ pays \cap maps = {}
              /\ hp => (total - 1) \in maps
              /\ ~hp => (total - 1) \in pays
<1> DEFINE total == total_bat_entries(c, r, hp)
           pays == {payload_index(b, r) : b \in 0..(c - 1)}
           maps == {sector_bitmap_index(b, r) : b \in 0..(c - 1)}
           last == c - 1
<1>1. last \in Nat /\ last \in 0..(c - 1)
  OBVIOUS
<1>p2. PICK q, m : Place(last, r, q, m)
  BY <1>1, Placement
<1>2. /\ q \in Nat /\ m \in 0..(r - 1)
      /\ q = last \div r /\ m = last % r
      /\ payload_index(last, r) = q * (r + 1) + m
      /\ sector_bitmap_index(last, r) = q * (r + 1) + r
      /\ q * (r + 1) \in Nat
  BY <1>p2 DEF Place
<1>3. total = IF hp THEN (q + 1) * (r + 1) ELSE payload_index(last, r) + 1
  BY <1>2 DEF total_bat_entries
<1>4. (q + 1) * (r + 1) = q * (r + 1) + (r + 1)
  BY <1>2
<1>5. \A i \in pays : i < total
  <2> SUFFICES ASSUME NEW b \in 0..(c - 1) PROVE payload_index(b, r) < total
    OBVIOUS
  <2>1. payload_index(b, r) \in Nat /\ payload_index(b, r) <= payload_index(last, r)
    <3>1. CASE b = last
      BY <1>1, <3>1, PayloadBound
    <3>2. CASE b < last
      BY <1>1, <3>2, PayloadOrder
    <3> QED BY <1>1, <3>1, <3>2
  <2> QED BY <1>2, <1>3, <1>4, <2>1
<1>6. \A a, b \in 0..(c - 1) : payload_index(a, r) = payload_index(b, r) => a = b
  <2> SUFFICES ASSUME NEW a \in 0..(c - 1), NEW b \in 0..(c - 1), a # b
               PROVE  payload_index(a, r) # payload_index(b, r)
    OBVIOUS
  <2> QED BY PayloadOrder
<1>7. pays \cap maps = {}
  <2> SUFFICES ASSUME NEW a \in 0..(c - 1), NEW b \in 0..(c - 1)
               PROVE  payload_index(a, r) # sector_bitmap_index(b, r)
    OBVIOUS
  <2>0. a \in Nat /\ b \in Nat
    OBVIOUS
  <2>p1. PICK p, n : Place(a, r, p, n)
    BY <2>0, Placement
  <2>1. /\ p \in Nat /\ n \in 0..(r - 1)
        /\ payload_index(a, r) = p * (r + 1) + n
    BY <2>p1 DEF Place
  <2>p2. PICK k, l : Place(b, r, k, l)
    BY <2>0, Placement
  <2>2. k \in Nat /\ sector_bitmap_index(b, r) = k * (r + 1) + r
    BY <2>p2 DEF Place
  <2>3. n \in 0..((r + 1) - 1) /\ r \in 0..((r + 1) - 1) /\ r + 1 \in Nat /\ n # r
    BY <2>1
  <2> QED BY <2>1, <2>2, <2>3, OnePlace
<1>8. hp => (total - 1) \in maps
  <2>1. hp => total - 1 = sector_bitmap_index(last, r)
    BY <1>2, <1>3, <1>4
  <2> QED BY <1>1, <2>1
<1>9. ~hp => (total - 1) \in pays
  <2>1. ~hp => total - 1 = payload_index(last, r)
    BY <1>2, <1>3
  <2> QED BY <1>1, <2>1
<1> QED BY <1>5, <1>6, <1>7, <1>8, <1>9

-----------------------------------------------------------------------------
(* Sequences.                                                              *)

\* A function on 1..n is a sequence.
LEMMA FcnListed ==
    ASSUME NEW n \in Nat, NEW f, f = [i \in 1..n |-> f[i]]
    PROVE  Listed(f) /\ Len(f) = n /\ DOMAIN f = 1..n
<1> DEFINE S == {f[i] : i \in DOMAIN f}
<1>1. DOMAIN f = 1..n
  OBVIOUS
<1>2. f \in [1..n -> S]
  BY <1>1
<1>3. f \in Seq(S)
  BY <1>2, SeqDef
<1>4. Len(f) \in Nat /\ DOMAIN f = 1..Len(f)
  BY <1>3, LenProperties
<1>5. Len(f) = n
  BY <1>1, <1>4
<1> QED BY <1>1, <1>3, <1>5 DEF Listed

\* A sequence is a function on 1..Len.
LEMMA ListedFcn ==
    ASSUME NEW f, Listed(f)
    PROVE  Len(f) \in Nat /\ DOMAIN f = 1..Len(f) /\ f = [i \in 1..Len(f) |-> f[i]]
<1> DEFINE S == {f[i] : i \in DOMAIN f}
<1>1. f \in Seq(S)
  BY DEF Listed
<1>2. Len(f) \in Nat /\ f \in [1..Len(f) -> S] /\ DOMAIN f = 1..Len(f)
  BY <1>1, LenProperties
<1> QED BY <1>2

\* Lists of calls are put together from shorter ones.
LEMMA ConcatListed ==
    ASSUME NEW s, NEW t, Listed(s), Listed(t)
    PROVE  /\ Listed(s \o t) /\ Len(s \o t) = Len(s) + Len(t)
           /\ \A i \in 1..Len(s) : (s \o t)[i] = s[i]
           /\ \A i \in 1..Len(t) : (s \o t)[Len(s) + i] = t[i]
<1> DEFINE S == {s[i] : i \in DOMAIN s} \cup {t[i] : i \in DOMAIN t}
<1>1. /\ Len(s) \in Nat /\ Len(t) \in Nat /\ DOMAIN s = 1..Len(s) /\ DOMAIN t = 1..Len(t)
      /\ s = [i \in 1..Len(s) |-> s[i]] /\ t = [i \in 1..Len(t) |-> t[i]]
  BY ListedFcn
<1>2. s \in [1..Len(s) -> S] /\ t \in [1..Len(t) -> S]
  BY <1>1
<1>3. s \in Seq(S) /\ t \in Seq(S)
  BY <1>1, <1>2, SeqDef
<1> HIDE DEF S
<1>4. /\ s \o t \in Seq(S) /\ Len(s \o t) = Len(s) + Len(t)
      /\ \A i \in 1..Len(s) + Len(t) :
            (s \o t)[i] = IF i <= Len(s) THEN s[i] ELSE t[i - Len(s)]
  BY <1>3, ConcatProperties
<1>5. s \o t = [i \in 1..Len(s \o t) |-> (s \o t)[i]] /\ Len(s \o t) \in Nat
  BY <1>4, LenProperties
<1>6. Listed(s \o t)
  BY <1>5, FcnListed
<1>7. \A i \in 1..Len(s) : (s \o t)[i] = s[i]
  BY <1>1, <1>4
<1>8. ASSUME NEW i \in 1..Len(t) PROVE (s \o t)[Len(s) + i] = t[i]
  <2>1. Len(s) + i \in 1..Len(s) + Len(t) /\ ~(Len(s) + i <= Len(s)) /\ Len(s) + i - Len(s) = i
    BY <1>1
  <2> QED BY <1>4, <2>1
<1> QED BY <1>4, <1>6, <1>7, <1>8

\* A single call.
LEMMA OneListed == ASSUME NEW x PROVE Listed(<<x>>) /\ Len(<<x>>) = 1 /\ <<x>>[1] = x
<1>1. <<x>> = [i \in 1..1 |-> <<x>>[i]] /\ <<x>>[1] = x
  OBVIOUS
<1> QED BY <1>1, FcnListed

\* What t still has to do of the calls L when the first j are done.
Rest(t, L, j) ==
    /\ Listed(t) /\ Len(t) = Len(L) - j
    /\ \A i \in 1..Len(t) : t[i] = L[j + i]

\* The next call, and what is left after it.
LEMMA RestStep ==
    ASSUME NEW t, NEW L, NEW j \in Nat, Len(L) \in Nat, Rest(t, L, j), t # <<>>
    PROVE  /\ j < Len(L) /\ Head(t) = L[j + 1] /\ Rest(Tail(t), L, j + 1)
           /\ Tail(t) = <<>> <=> j + 1 = Len(L)
<1> DEFINE S == {t[i] : i \in DOMAIN t}
<1>1. t \in Seq(S) /\ Len(t) \in Nat /\ Len(t) = Len(L) - j
      /\ \A i \in 1..Len(t) : t[i] = L[j + i]
  BY ListedFcn DEF Rest, Listed
<1> HIDE DEF S
<1>2. Len(t) > 0
  BY <1>1, EmptySeq
<1>3. /\ Tail(t) \in Seq(S) /\ Len(Tail(t)) = Len(t) - 1
      /\ \A i \in 1..Len(Tail(t)) : Tail(t)[i] = t[i + 1]
  BY <1>1, HeadTailProperties
<1>4. Head(t) = L[j + 1]
  BY <1>1, <1>2
<1>5. Tail(t) = [i \in 1..Len(Tail(t)) |-> Tail(t)[i]] /\ Len(Tail(t)) \in Nat
  BY <1>3, LenProperties
<1>6. Listed(Tail(t))
  BY <1>5, FcnListed
<1>7. Rest(Tail(t), L, j + 1)
  <2>1. Len(Tail(t)) = Len(L) - (j + 1)
    BY <1>1, <1>3
  <2>2. ASSUME NEW i \in 1..Len(Tail(t)) PROVE Tail(t)[i] = L[(j + 1) + i]
    <3>1. i + 1 \in 1..Len(t) /\ j + (i + 1) = (j + 1) + i
      BY <1>1, <1>3
    <3> QED BY <1>1, <1>3, <3>1
  <2> QED BY <1>6, <2>1, <2>2 DEF Rest
<1>8. Tail(t) = <<>> <=> Len(Tail(t)) = 0
  BY <1>3, EmptySeq
<1> QED BY <1>1, <1>2, <1>3, <1>4, <1>7, <1>8

\* At first all of the calls are left.
LEMMA RestAll == ASSUME NEW L, Listed(L) PROVE Rest(L, L, 0)
<1>1. Len(L) \in Nat
  BY ListedFcn
<1> QED BY <1>1 DEF Rest

\* In the end none is.
LEMMA RestNone ==
    ASSUME NEW t, NEW L, NEW j \in Nat, Len(L) \in Nat, Rest(t, L, j)
    PROVE  j <= Len(L) /\ (t = <<>> <=> j = Len(L))
<1> DEFINE S == {t[i] : i \in DOMAIN t}
<1>1. t \in Seq(S) /\ Len(t) \in Nat /\ Len(t) = Len(L) - j
  BY ListedFcn DEF Rest, Listed
<1> HIDE DEF S
<1>2. t = <<>> <=> Len(t) = 0
  BY <1>1, EmptySeq
<1> QED BY <1>1, <1>2

-----------------------------------------------------------------------------
(* Calls on a file.                                                        *)

\* The kinds of calls are told apart.
LEMMA Kinds ==
    ASSUME NEW off, NEW x
    PROVE  /\ Write(off, x) # Sync /\ Write(off, x) # Truncate /\ SetLen(off) # Sync
           /\ SetLen(off) # Truncate /\ Truncate # Sync
           /\ Write(off, x)[1] = "write" /\ Write(off, x)[2] = off /\ Write(off, x)[3] = x
           /\ SetLen(off)[1] = "set_len" /\ SetLen(off)[2] = off
<1>1. Write(off, x)[1] = "write" /\ Write(off, x)[2] = off /\ Write(off, x)[3] = x
  BY DEF Write
<1>2. SetLen(off)[1] = "set_len" /\ SetLen(off)[2] = off
  BY DEF SetLen
<1>3. Sync[1] = "sync" /\ Truncate[1] = "truncate"
  BY DEF Sync, Truncate
<1> QED BY <1>1, <1>2, <1>3

\* A file as its calls leave it.
Tidy(f) == /\ f = [cells |-> f.cells, dirty |-> f.dirty]
           /\ Listed(f.cells) /\ f.dirty \subseteq 1..Len(f.cells)

\* A write inside the file or right behind its end.
LEMMA AfterWrite ==
    ASSUME NEW f, Tidy(f), NEW off \in 0..Len(f.cells), NEW x,
           NEW g, g = After(Write(off, x), f)
    PROVE  /\ Tidy(g)
           /\ Len(g.cells) = IF off = Len(f.cells) THEN off + 1 ELSE Len(f.cells)
           /\ g.cells[off + 1] = x /\ g.dirty = f.dirty \cup {off + 1}
           /\ \A i \in 1..Len(f.cells) : i # off + 1 => g.cells[i] = f.cells[i]
<1> DEFINE n == IF off < Len(f.cells) THEN Len(f.cells) ELSE off + 1
           r == Resized(f, n)
           c == [r.cells EXCEPT ![off + 1] = x]
<1>1. Len(f.cells) \in Nat
  BY ListedFcn DEF Tidy
<1>2. n \in Nat /\ off + 1 \in 1..n /\ n = IF off = Len(f.cells) THEN off + 1 ELSE Len(f.cells)
  BY <1>1
<1>3. g = [cells |-> c, dirty |-> r.dirty \cup {off + 1}]
  <2>1. /\ Write(off, x) # Sync /\ Write(off, x) # Truncate /\ Write(off, x)[1] # "set_len"
        /\ Write(off, x)[2] = off /\ Write(off, x)[3] = x
    BY Kinds
  <2> QED BY <2>1 DEF After
<1> HIDE DEF n
<1>4. /\ r.cells = [i \in 1..n |-> IF i <= Len(f.cells) THEN f.cells[i] ELSE Zero]
      /\ r.dirty = {i \in f.dirty : i <= n}
  BY DEF Resized
<1> HIDE DEF r
<1>5. c = [i \in 1..n |-> c[i]] /\ c[off + 1] = x
  BY <1>2, <1>4
<1>6. \A i \in 1..n : i # off + 1 => c[i] = IF i <= Len(f.cells) THEN f.cells[i] ELSE Zero
  BY <1>2, <1>4
<1> HIDE DEF c
<1>7. Listed(c) /\ Len(c) = n
  BY <1>2, <1>5, FcnListed
<1>8. g.cells = c /\ g.dirty = r.dirty \cup {off + 1}
  BY <1>3
<1>9. g.dirty \subseteq 1..n /\ g.dirty = f.dirty \cup {off + 1}
  <2>1. f.dirty \subseteq 1..Len(f.cells)
    BY DEF Tidy
  <2> QED BY <1>1, <1>2, <1>4, <1>8, <2>1
<1>10. \A i \in 1..Len(f.cells) : i \in 1..n /\ i <= Len(f.cells)
  BY <1>1, <1>2
<1>11. g = [cells |-> g.cells, dirty |-> g.dirty]
  BY <1>3
<1>12. Tidy(g)
  BY <1>7, <1>8, <1>9, <1>11 DEF Tidy
<1> QED BY <1>2, <1>5, <1>6, <1>7, <1>8, <1>9, <1>10, <1>12

\* set_len adds zeros, and does nothing to a file that has the length.
LEMMA AfterSetLen ==
    ASSUME NEW f, Tidy(f), NEW n \in Nat, Len(f.cells) <= n, NEW g, g = After(SetLen(n), f)
    PROVE  /\ Tidy(g) /\ Len(g.cells) = n /\ g.dirty = f.dirty
           /\ \A i \in 1..Len(f.cells) : g.cells[i] = f.cells[i]
           /\ \A i \in 1..n : i > Len(f.cells) => g.cells[i] = Zero
<1>1. Len(f.cells) \in Nat /\ f.dirty \subseteq 1..Len(f.cells)
  BY ListedFcn DEF Tidy
<1>2. g = Resized(f, n)
  BY Kinds DEF After
<1>3. /\ g = [cells |-> g.cells, dirty |-> g.dirty]
      /\ g.cells = [i \in 1..n |-> IF i <= Len(f.cells) THEN f.cells[i] ELSE Zero]
      /\ g.dirty = {i \in f.dirty : i <= n}
  BY <1>2 DEF Resized
<1>4. g.dirty = f.dirty
  BY <1>1, <1>3
<1>5. g.cells = [i \in 1..n |-> g.cells[i]]
  BY <1>3
<1>6. Listed(g.cells) /\ Len(g.cells) = n
  BY <1>5, FcnListed
<1>7. g.dirty \subseteq 1..n
  BY <1>1, <1>4
<1>8. Tidy(g)
  BY <1>3, <1>6, <1>7 DEF Tidy
<1>9. \A i \in 1..Len(f.cells) : i \in 1..n /\ i <= Len(f.cells)
  BY <1>1
<1>10. \A i \in 1..n : i > Len(f.cells) => ~(i <= Len(f.cells))
  BY <1>1
<1> QED BY <1>3, <1>4, <1>6, <1>8, <1>9, <1>10

\* Sequences with the same elements are the same.
LEMMA SameListed ==
    ASSUME NEW s, NEW t, Listed(s), Listed(t), Len(s) = Len(t), \A i \in 1..Len(s) : s[i] = t[i]
    PROVE  s = t
<1>1. s = [i \in 1..Len(s) |-> s[i]] /\ t = [i \in 1..Len(t) |-> t[i]]
  BY ListedFcn
<1> QED BY <1>1

\* set_len to the length the file has, truncation.
LEMMA AfterOther ==
    ASSUME NEW f, Tidy(f)
    PROVE  /\ Tidy(After(SetLen(Len(f.cells)), f)) /\ After(SetLen(Len(f.cells)), f).cells = f.cells
           /\ After(SetLen(Len(f.cells)), f).dirty = f.dirty
           /\ Tidy(EmptyFile) /\ Len(EmptyFile.cells) = 0 /\ After(Truncate, f) = EmptyFile
<1> DEFINE g == After(SetLen(Len(f.cells)), f)
<1>1. Len(f.cells) \in Nat
  BY ListedFcn DEF Tidy
<1>2. /\ Tidy(g) /\ Len(g.cells) = Len(f.cells) /\ g.dirty = f.dirty
      /\ \A i \in 1..Len(f.cells) : g.cells[i] = f.cells[i]
  BY <1>1, AfterSetLen
<1> HIDE DEF g
<1>3. g.cells = f.cells
  BY <1>2, SameListed DEF Tidy
<1>4. After(Truncate, f) = EmptyFile
  BY Kinds DEF After
<1>5. Listed(<<>>) /\ Len(<<>>) = 0
  BY EmptySeq DEF Listed
<1>6. Tidy(EmptyFile) /\ Len(EmptyFile.cells) = 0
  BY <1>5 DEF EmptyFile, Tidy
<1> QED BY <1>2, <1>3, <1>4, <1>6 DEF g

\* The last call makes the file durable.
LEMMA AfterSync ==
    ASSUME NEW f, Tidy(f)
    PROVE  /\ Tidy(After(Sync, f)) /\ After(Sync, f).cells = f.cells /\ After(Sync, f).dirty = {}
<1>1. After(Sync, f) = [f EXCEPT !.dirty = {}]
  BY DEF After, Synced
<1>2. After(Sync, f) = [cells |-> f.cells, dirty |-> {}]
  BY <1>1 DEF Tidy
<1> QED BY <1>2 DEF Tidy

\* A power loss does nothing to a file that is on disk.
LEMMA NoLoss ==
    ASSUME NEW f, Listed(f.cells), f.dirty = {}, NEW g \in Losses(f)
    PROVE  g = [cells |-> f.cells, dirty |-> {}]
<1>1. f.cells = [i \in 1..Len(f.cells) |-> f.cells[i]]
  BY ListedFcn
<1>2. PICK lost \in {{}, f.dirty} \cup {{i} : i \in f.dirty} :
         g = [cells |-> [i \in 1..Len(f.cells) |-> IF i \in lost THEN Junk ELSE f.cells[i]],
              dirty |-> {}]
  BY DEF Losses
<1>3. lost = {}
  OBVIOUS
<1> QED BY <1>1, <1>2, <1>3

-----------------------------------------------------------------------------
(* Sizes, for any block size.                                              *)

\* Every block has an entry of its own, in a table of BatLen cells.
LEMMA Geometry ==
    ASSUME NEW size \in Nat, NEW bs \in 1..ChunkCells
    PROVE  LET ratio == chunk_ratio(bs)
               count == block_count(size, bs)
               entries == bat_entries(size, bs)
               length == bat_length(size, bs)
           IN  /\ bs \in Nat \ {0} /\ ratio \in Nat \ {0} /\ count \in Nat /\ entries \in Nat
               /\ length \in Nat \ {0} /\ payload_start(size, bs) = 3 + length
               /\ \A b \in 0..(count - 1) :
                     payload_index(b, ratio) \in Nat /\ payload_index(b, ratio) < entries
               /\ \A a, b \in 0..(count - 1) :
                     payload_index(a, ratio) = payload_index(b, ratio) => a = b
               /\ \A i \in Nat : i < entries =>
                     /\ i < length * PerCell /\ i \div PerCell \in 0..(length - 1)
                     /\ i % PerCell \in 0..(PerCell - 1)
                     /\ i = (i \div PerCell) * PerCell + (i % PerCell)
<1> DEFINE ratio == chunk_ratio(bs)
           count == block_count(size, bs)
           entries == bat_entries(size, bs)
           length == bat_length(size, bs)
<1>1. ChunkCells \in Nat \ {0} /\ PerCell \in Nat \ {0} /\ size \in Nat /\ bs \in Nat \ {0}
      /\ bs <= ChunkCells
  BY WriterAssumption
<1>2. ratio \in Nat \ {0}
  <2> DEFINE q == ChunkCells \div bs
             m == ChunkCells % bs
  <2>1. q \in Nat /\ m \in 0..(bs - 1) /\ ChunkCells = q * bs + m
    BY <1>1, DivMod
  <2> HIDE DEF q, m
  <2>2. q # 0
    BY <1>1, <2>1
  <2> QED BY <2>1, <2>2 DEF chunk_ratio, q
<1>3. count \in Nat
  <2>1. size + bs - 1 \in Nat
    BY <1>1
  <2> QED BY <1>1, <2>1, DivMod DEF block_count
<1> HIDE DEF ratio, count
<1>4. entries = total_bat_entries(count, ratio, FALSE)
  BY DEF bat_entries, count, ratio
<1>5. /\ entries \in Nat
      /\ \A b \in 0..(count - 1) : payload_index(b, ratio) \in Nat /\ payload_index(b, ratio) < entries
      /\ \A a, b \in 0..(count - 1) : payload_index(a, ratio) = payload_index(b, ratio) => a = b
  <2>1. CASE count = 0
    <3>1. entries = 0
      BY <1>4, <2>1 DEF total_bat_entries
    <3>2. ~(\E b \in 0..(count - 1) : TRUE)
      BY <2>1
    <3> QED BY <3>1, <3>2
  <2>2. CASE count # 0
    <3>1. count \in Nat \ {0}
      BY <1>3, <2>2
    <3> DEFINE pays == {payload_index(b, ratio) : b \in 0..(count - 1)}
    <3>2. /\ \A i \in pays : i < entries
          /\ \A a, b \in 0..(count - 1) : payload_index(a, ratio) = payload_index(b, ratio) => a = b
      <4> DEFINE total == total_bat_entries(count, ratio, FALSE)
      <4>1. /\ \A i \in pays : i < total
            /\ \A a, b \in 0..(count - 1) : payload_index(a, ratio) = payload_index(b, ratio) => a = b
        BY <1>2, <3>1, TableSize, FALSE \in BOOLEAN
      <4> QED BY <1>4, <4>1
    <3>3. ASSUME NEW b \in 0..(count - 1) PROVE payload_index(b, ratio) \in Nat
      BY <1>2, <1>3, PayloadBound
    <3>4. entries \in Nat
      <4> DEFINE last == count - 1
                 q == last \div ratio
                 m == last % ratio
      <4>1. q \in Nat /\ m \in Nat
        <5>1. last \in Nat
          BY <3>1
        <5> QED BY <1>2, <5>1, DivMod
      <4> HIDE DEF q, m
      <4>2. q * (ratio + 1) \in Nat
        BY <1>2, <4>1
      <4>3. entries = q * (ratio + 1) + m + 1
        BY <1>4, <2>2 DEF total_bat_entries, q, m
      <4> QED BY <4>1, <4>2, <4>3
    <3> QED BY <3>2, <3>3, <3>4
  <2> QED BY <2>1, <2>2
<1> HIDE DEF entries
<1>6. length \in Nat \ {0} /\ length * PerCell \in Nat /\ entries <= length * PerCell
  <2> DEFINE q == (entries + PerCell - 1) \div PerCell
             m == (entries + PerCell - 1) % PerCell
  <2>1. q \in Nat /\ m \in 0..(PerCell - 1) /\ entries + PerCell - 1 = q * PerCell + m
    <3>1. entries + PerCell - 1 \in Nat
      BY <1>1, <1>5
    <3> QED BY <1>1, <3>1, DivMod
  <2>2. length = IF q = 0 THEN 1 ELSE q
    BY DEF bat_length, entries
  <2> HIDE DEF q, m, length
  <2>3. q * PerCell \in Nat /\ entries <= q * PerCell
    BY <1>1, <1>5, <2>1
  <2>4. CASE q = 0
    <3>1. length = 1 /\ q * PerCell = 0 /\ length * PerCell = PerCell
      BY <1>1, <2>2, <2>4
    <3> QED BY <1>1, <1>5, <2>3, <3>1
  <2>5. CASE q # 0
    BY <2>1, <2>2, <2>3, <2>5
  <2> QED BY <2>4, <2>5
<1>7. payload_start(size, bs) = 3 + length
  BY <1>6 DEF payload_start, bat_offset, metadata_offset, LogSize
<1> HIDE DEF length
<1>8. ASSUME NEW i \in Nat, i < entries
      PROVE  /\ i < length * PerCell /\ i \div PerCell \in 0..(length - 1)
             /\ i % PerCell \in 0..(PerCell - 1) /\ i = (i \div PerCell) * PerCell + (i % PerCell)
  <2> DEFINE q == i \div PerCell
             m == i % PerCell
  <2>1. q \in Nat /\ m \in 0..(PerCell - 1) /\ i = q * PerCell + m
    BY <1>1, DivMod
  <2>2. i < length * PerCell
    BY <1>5, <1>6, <1>8
  <2> HIDE DEF q, m
  <2>3. ~(length <= q)
    <3>1. SUFFICES ASSUME length <= q PROVE FALSE
      OBVIOUS
    <3>2. length * PerCell <= q * PerCell /\ q * PerCell \in Nat
      <4>1. CASE length = q
        BY <1>1, <1>6, <2>1, <4>1
      <4>2. CASE length < q
        <5>1. length * PerCell + PerCell <= q * PerCell /\ q * PerCell \in Nat
          BY <1>1, <1>6, <2>1, <4>2, LaterChunk
        <5> QED BY <1>1, <1>6, <5>1
      <4> QED BY <1>6, <2>1, <3>1, <4>1, <4>2
    <3> QED BY <1>6, <2>1, <2>2, <3>2
  <2>4. q \in 0..(length - 1)
    BY <1>6, <2>1, <2>3
  <2> QED BY <2>1, <2>2, <2>4 DEF q, m
<1>9. bs \in Nat \ {0}
  BY <1>1
<1> QED BY <1>2, <1>3, <1>5, <1>6, <1>7, <1>8, <1>9 DEF ratio, count, entries, length

-----------------------------------------------------------------------------
(* The lists of calls that VhdxWriter makes.                               *)

\* A write of several cells, one call each.
LEMMA WriteCalls ==
    ASSUME NEW off, NEW c, Len(c) \in Nat
    PROVE  /\ Listed(write_all_at(off, c)) /\ Len(write_all_at(off, c)) = Len(c)
           /\ \A i \in 1..Len(c) : write_all_at(off, c)[i] = Write(off + i - 1, c[i])
<1> DEFINE W == write_all_at(off, c)
<1>1. W = [i \in 1..Len(c) |-> Write(off + i - 1, c[i])]
  BY DEF write_all_at
<1> HIDE DEF W
<1>2. W = [i \in 1..Len(c) |-> W[i]]
  BY <1>1
<1>3. Listed(W) /\ Len(W) = Len(c)
  BY <1>2, FcnListed
<1> QED BY <1>1, <1>3 DEF W

\* The BAT as it is written: one cell after the other.
LEMMA TableListed ==
    ASSUME NEW bat, NEW n \in Nat
    PROVE  Listed(encode(bat, n)) /\ Len(encode(bat, n)) = n
<1>1. encode(bat, n) = [c \in 1..n |-> encode(bat, n)[c]]
  BY DEF encode
<1> QED BY <1>1, FcnListed

\* A list with one more call.
LEMMA OneMore ==
    ASSUME NEW s, Listed(s), NEW x
    PROVE  /\ Listed(s \o <<x>>) /\ Len(s \o <<x>>) = Len(s) + 1
           /\ \A i \in 1..Len(s) : (s \o <<x>>)[i] = s[i]
           /\ (s \o <<x>>)[Len(s) + 1] = x
<1> DEFINE t == <<x>>
<1>1. Listed(t) /\ Len(t) = 1 /\ t[1] = x
  BY OneListed
<1> HIDE DEF t
<1>2. /\ Listed(s \o t) /\ Len(s \o t) = Len(s) + Len(t)
      /\ \A i \in 1..Len(s) : (s \o t)[i] = s[i]
      /\ \A i \in 1..Len(t) : (s \o t)[Len(s) + i] = t[i]
  BY <1>1, ConcatListed
<1>3. 1 \in 1..Len(t)
  BY <1>1
<1> QED BY <1>1, <1>2, <1>3 DEF t

\* The calls of write_bat.
LEMMA BatCalls ==
    ASSUME NEW size \in Nat, NEW bs \in 1..ChunkCells, NEW x, x.size = size, x.bs = bs
    PROVE  LET n == bat_length(size, bs)
           IN  /\ Listed(write_bat(x)) /\ Len(write_bat(x)) = n
               /\ \A c \in 1..n : write_bat(x)[c] = Write(bat_offset + c - 1, encode(x.bat, n)[c])
<1> DEFINE n == bat_length(size, bs)
           bat == encode(x.bat, n)
<1>1. n \in Nat
  BY Geometry
<1>2. write_bat(x) = write_all_at(bat_offset, bat)
  BY DEF write_bat
<1> HIDE DEF n
<1>3. Len(bat) = n
  BY <1>1, TableListed
<1> HIDE DEF bat
<1> QED BY <1>1, <1>2, <1>3, WriteCalls DEF n, bat

\* create: the first pass over header section, log, metadata and BAT, then
\* the headers; for a fixed image the BAT again; then the length.
LEMMA CreateCalls ==
    ASSUME NEW size \in Nat, NEW bs \in 1..ChunkCells, NEW x, x.size = size, x.bs = bs,
           x.cursor = payload_start(size, bs)
    PROVE  LET L == create(x)
               s == payload_start(size, bs)
               n == bat_length(size, bs)
           IN  /\ Listed(L) /\ L[1] = Truncate
               /\ \A k \in 1..s : L[k + 1] = Write(k - 1, L[k + 1][3])
               /\ L[2] = Write(0, Fti)
               /\ L[4] = Write(2, MetaCell(size, bs))
               /\ \A c \in 1..n : L[4 + c] = Write(2 + c, encode(EmptyBat(size, bs), n)[c])
               /\ L[s + 2] = Write(0, HeadCell(metadata_offset, bat_offset, n))
               /\ ~x.fixed => Len(L) = s + 3 /\ L[s + 3] = SetLen(s)
               /\ x.fixed =>
                     /\ Len(L) = s + n + 3
                     /\ \A c \in 1..n : L[s + 2 + c] = Write(2 + c, encode(x.bat, n)[c])
                     /\ L[s + n + 3] = SetLen(s + block_count(size, bs) * bs)
<1> DEFINE s == payload_start(size, bs)
           length == bat_length(size, bs)
           meta == MetaCell(size, bs)
           bat == encode(EmptyBat(size, bs), length)
           a1 == <<Fti>> \o Zeros(LogSize)
           a2 == a1 \o <<meta>>
           pre == a2 \o bat
           W == write_all_at(0, pre)
           head == Write(0, HeadCell(metadata_offset, bat_offset, length))
           b1 == <<Truncate>> \o W
           b2 == b1 \o <<head>>
           end == s + block_count(size, bs) * bs
           B == write_bat(x)
           fin == IF x.fixed THEN B \o <<SetLen(end)>> ELSE <<SetLen(s)>>
           L == b2 \o fin
<1>1. length \in Nat \ {0} /\ s = 3 + length
  BY Geometry
<1>2. create(x) = L
  BY DEF create
<1>0. /\ Listed(B) /\ Len(B) = length
      /\ \A c \in 1..length : B[c] = Write(bat_offset + c - 1, encode(x.bat, length)[c])
  BY BatCalls
<1>a. bat_offset = 3
  BY DEF bat_offset, metadata_offset, LogSize
<1> HIDE DEF s, length, meta, end, B
<1>3. Listed(bat) /\ Len(bat) = length
  BY <1>1, TableListed
<1> HIDE DEF bat
<1>4. Listed(Zeros(LogSize)) /\ Len(Zeros(LogSize)) = 1
  <2>1. Zeros(LogSize) = [i \in 1..1 |-> Zeros(LogSize)[i]]
    BY DEF Zeros, LogSize
  <2> QED BY <2>1, FcnListed
<1>5. Listed(a1) /\ Len(a1) = 2 /\ a1[1] = Fti
  <2> DEFINE z == Zeros(LogSize)
             u == <<Fti>>
  <2>1. Listed(u) /\ Len(u) = 1 /\ u[1] = Fti
    BY OneListed
  <2> HIDE DEF z, u
  <2>2. Listed(u \o z) /\ Len(u \o z) = Len(u) + Len(z) /\ \A i \in 1..Len(u) : (u \o z)[i] = u[i]
    BY <1>4, <2>1, ConcatListed DEF z
  <2>3. 1 \in 1..Len(u)
    BY <2>1
  <2> QED BY <1>4, <2>1, <2>2, <2>3 DEF z, u
<1> HIDE DEF a1
<1>6. Listed(a2) /\ Len(a2) = 3 /\ a2[3] = meta /\ a2[1] = Fti
  <2>1. /\ Listed(a2) /\ Len(a2) = Len(a1) + 1 /\ a2[Len(a1) + 1] = meta
        /\ \A i \in 1..Len(a1) : a2[i] = a1[i]
    <3>1. Listed(a1)
      BY <1>5
    <3> QED BY <3>1, OneMore
  <2>2. 1 \in 1..Len(a1)
    BY <1>5
  <2> QED BY <1>5, <2>1, <2>2
<1> HIDE DEF a2
<1>7. /\ Listed(pre) /\ Len(pre) = s /\ pre[3] = meta /\ pre[1] = Fti
      /\ \A c \in 1..length : pre[3 + c] = bat[c]
  <2>1. /\ Listed(pre) /\ Len(pre) = Len(a2) + Len(bat)
        /\ \A i \in 1..Len(a2) : pre[i] = a2[i]
        /\ \A i \in 1..Len(bat) : pre[Len(a2) + i] = bat[i]
    <3>1. Listed(a2) /\ Listed(bat)
      BY <1>3, <1>6
    <3> QED BY <3>1, ConcatListed
  <2>2. 3 \in 1..Len(a2) /\ 1 \in 1..Len(a2)
    BY <1>6
  <2> QED BY <1>1, <1>3, <1>6, <2>1, <2>2
<1> HIDE DEF pre
<1>8. /\ Listed(W) /\ Len(W) = s
      /\ \A i \in 1..s : W[i] = Write(i - 1, pre[i])
  <2>1. Len(pre) \in Nat
    BY <1>1, <1>7
  <2>2. /\ Listed(W) /\ Len(W) = Len(pre)
        /\ \A i \in 1..Len(pre) : W[i] = Write(0 + i - 1, pre[i])
    BY <2>1, WriteCalls
  <2>3. \A i \in 1..Len(pre) : 0 + i - 1 = i - 1
    BY <2>1
  <2> QED BY <1>7, <2>2, <2>3
<1> HIDE DEF W
<1>9. /\ Listed(b1) /\ Len(b1) = s + 1 /\ b1[1] = Truncate
      /\ \A i \in 1..s : b1[i + 1] = W[i]
  <2>1. Listed(<<Truncate>>) /\ Len(<<Truncate>>) = 1 /\ <<Truncate>>[1] = Truncate
    BY OneListed
  <2>2. /\ Listed(b1) /\ Len(b1) = 1 + s
        /\ \A i \in 1..1 : b1[i] = <<Truncate>>[i]
        /\ \A i \in 1..s : b1[1 + i] = W[i]
    BY <1>8, <2>1, ConcatListed
  <2>3. \A i \in 1..s : 1 + i = i + 1
    BY <1>1
  <2> QED BY <1>1, <2>1, <2>2, <2>3
<1> HIDE DEF b1
<1>10. /\ Listed(b2) /\ Len(b2) = s + 2 /\ b2[s + 2] = head
       /\ \A i \in 1..(s + 1) : b2[i] = b1[i]
  <2>1. /\ Listed(b2) /\ Len(b2) = (s + 1) + 1 /\ b2[(s + 1) + 1] = head
        /\ \A i \in 1..(s + 1) : b2[i] = b1[i]
    BY <1>9, OneMore
  <2> QED BY <1>1, <2>1
<1> HIDE DEF b2
<1>b. /\ Listed(fin)
      /\ ~x.fixed => Len(fin) = 1 /\ fin[1] = SetLen(s)
      /\ x.fixed => /\ Len(fin) = length + 1 /\ fin[length + 1] = SetLen(end)
                    /\ \A c \in 1..length : fin[c] = B[c]
  <2>1. /\ Listed(B \o <<SetLen(end)>>) /\ Len(B \o <<SetLen(end)>>) = length + 1
        /\ (B \o <<SetLen(end)>>)[length + 1] = SetLen(end)
        /\ \A c \in 1..length : (B \o <<SetLen(end)>>)[c] = B[c]
    BY <1>0, OneMore
  <2>2. Listed(<<SetLen(s)>>) /\ Len(<<SetLen(s)>>) = 1 /\ <<SetLen(s)>>[1] = SetLen(s)
    BY OneListed
  <2>3. CASE x.fixed
    BY <2>1, <2>3
  <2>4. CASE ~x.fixed
    BY <2>2, <2>4
  <2> QED BY <2>3, <2>4
<1> HIDE DEF fin
<1>11. /\ Listed(L) /\ Len(L) = s + 2 + Len(fin)
       /\ \A i \in 1..(s + 2) : L[i] = b2[i]
       /\ \A i \in 1..Len(fin) : L[s + 2 + i] = fin[i]
  BY <1>10, <1>b, ConcatListed
<1> HIDE DEF L
<1>12. \A k \in 1..s : L[k + 1] = Write(k - 1, pre[k])
  <2>1. \A k \in 1..s : k + 1 \in 1..(s + 1) /\ k + 1 \in 1..(s + 2)
    BY <1>1
  <2> QED BY <1>8, <1>9, <1>10, <1>11, <2>1
<1>13. L[1] = Truncate /\ L[s + 2] = head
  BY <1>1, <1>9, <1>10, <1>11
<1>14. L[4] = Write(2, meta) /\ L[2] = Write(0, Fti)
  <2>1. 3 \in 1..s /\ 3 + 1 = 4 /\ 3 - 1 = 2 /\ 1 \in 1..s /\ 1 + 1 = 2 /\ 1 - 1 = 0
    BY <1>1
  <2> QED BY <1>7, <1>12, <2>1
<1>15. \A k \in 1..s : L[k + 1] = Write(k - 1, L[k + 1][3])
  BY <1>12, Kinds
<1>16. ASSUME NEW c \in 1..length PROVE L[4 + c] = Write(2 + c, bat[c])
  <2>1. 3 + c \in 1..s /\ (3 + c) + 1 = 4 + c /\ (3 + c) - 1 = 2 + c
    BY <1>1
  <2> QED BY <1>7, <1>12, <2>1
<1>17. ASSUME ~x.fixed PROVE Len(L) = s + 3 /\ L[s + 3] = SetLen(s)
  <2>1. 1 \in 1..Len(fin) /\ s + 2 + 1 = s + 3
    BY <1>1, <1>b, <1>17
  <2> QED BY <1>b, <1>11, <1>17, <2>1
<1>18. ASSUME x.fixed
       PROVE  /\ Len(L) = s + length + 3 /\ L[s + length + 3] = SetLen(end)
              /\ \A c \in 1..length : L[s + 2 + c] = Write(2 + c, encode(x.bat, length)[c])
  <2>1. /\ length + 1 \in 1..Len(fin) /\ s + 2 + (length + 1) = s + length + 3
        /\ \A c \in 1..length : c \in 1..Len(fin) /\ bat_offset + c - 1 = 2 + c
    BY <1>1, <1>a, <1>b, <1>18
  <2>2. Len(L) = s + length + 3 /\ L[s + length + 3] = SetLen(end)
    BY <1>b, <1>11, <1>18, <2>1
  <2>3. ASSUME NEW c \in 1..length PROVE L[s + 2 + c] = Write(2 + c, encode(x.bat, length)[c])
    <3>1. L[s + 2 + c] = fin[c] /\ fin[c] = B[c]
      BY <1>b, <1>11, <1>18, <2>1
    <3> QED BY <1>0, <2>1, <3>1
  <2> QED BY <2>2, <2>3
<1> QED
  BY <1>2, <1>11, <1>13, <1>14, <1>15, <1>16, <1>17, <1>18 DEF s, length, meta, end, bat, head

\* finish: the BAT, the length of an image that is not fixed, and then sync_all.
LEMMA FinishCalls ==
    ASSUME NEW size \in Nat, NEW bs \in 1..ChunkCells, NEW x, x.size = size, x.bs = bs
    PROVE  LET L == finish(x)
               n == bat_length(size, bs)
           IN  /\ Listed(L)
               /\ \A c \in 1..n : L[c] = Write(bat_offset + c - 1, encode(x.bat, n)[c])
               /\ ~x.fixed => Len(L) = n + 2 /\ L[n + 1] = SetLen(x.cursor) /\ L[n + 2] = Sync
               /\ x.fixed => Len(L) = n + 1 /\ L[n + 1] = Sync
<1> DEFINE n == bat_length(size, bs)
           B == write_bat(x)
           mid == IF x.fixed THEN <<>> ELSE <<SetLen(x.cursor)>>
           b1 == B \o mid
           L == b1 \o <<Sync>>
<1>1. n \in Nat \ {0}
  BY Geometry
<1>2. finish(x) = L
  BY DEF finish
<1>3. /\ Listed(B) /\ Len(B) = n
      /\ \A c \in 1..n : B[c] = Write(bat_offset + c - 1, encode(x.bat, n)[c])
  BY BatCalls
<1> HIDE DEF n, B
<1>4. /\ Listed(mid)
      /\ ~x.fixed => Len(mid) = 1 /\ mid[1] = SetLen(x.cursor)
      /\ x.fixed => Len(mid) = 0
  <2>1. /\ Listed(<<SetLen(x.cursor)>>) /\ Len(<<SetLen(x.cursor)>>) = 1
        /\ <<SetLen(x.cursor)>>[1] = SetLen(x.cursor)
    BY OneListed
  <2>2. Listed(<<>>) /\ Len(<<>>) = 0
    BY EmptySeq DEF Listed
  <2>3. CASE x.fixed
    BY <2>2, <2>3
  <2>4. CASE ~x.fixed
    BY <2>1, <2>4
  <2> QED BY <2>3, <2>4
<1> HIDE DEF mid
<1>5. /\ Listed(b1) /\ Len(b1) = n + Len(mid)
      /\ \A c \in 1..n : b1[c] = B[c]
      /\ \A i \in 1..Len(mid) : b1[n + i] = mid[i]
  <2>1. /\ Listed(b1) /\ Len(b1) = Len(B) + Len(mid)
        /\ \A c \in 1..Len(B) : b1[c] = B[c]
        /\ \A i \in 1..Len(mid) : b1[Len(B) + i] = mid[i]
    <3>1. Listed(B) /\ Listed(mid)
      BY <1>3, <1>4
    <3> QED BY <3>1, ConcatListed
  <2> QED BY <1>3, <2>1
<1>6. Len(mid) \in Nat
  BY <1>4, ListedFcn
<1> HIDE DEF b1
<1>7. /\ Listed(L) /\ Len(L) = n + Len(mid) + 1 /\ L[n + Len(mid) + 1] = Sync
      /\ \A c \in 1..(n + Len(mid)) : L[c] = b1[c]
  BY <1>5, OneMore
<1> HIDE DEF L
<1>8. ASSUME NEW c \in 1..n PROVE L[c] = Write(bat_offset + c - 1, encode(x.bat, n)[c])
  <2>1. c \in 1..(n + Len(mid))
    BY <1>1, <1>6
  <2> QED BY <1>3, <1>5, <1>7, <2>1
<1>9. ASSUME ~x.fixed PROVE Len(L) = n + 2 /\ L[n + 1] = SetLen(x.cursor) /\ L[n + 2] = Sync
  <2>1. Len(mid) = 1 /\ mid[1] = SetLen(x.cursor)
    BY <1>4, <1>9
  <2>2. 1 \in 1..Len(mid) /\ n + 1 \in 1..(n + Len(mid)) /\ n + Len(mid) + 1 = n + 2
    BY <1>1, <2>1
  <2> QED BY <1>5, <1>7, <2>1, <2>2
<1>10. ASSUME x.fixed PROVE Len(L) = n + 1 /\ L[n + 1] = Sync
  <2>1. Len(mid) = 0
    BY <1>4, <1>10
  <2>2. n + Len(mid) + 1 = n + 1
    BY <1>1, <2>1
  <2> QED BY <1>7, <2>2
<1> QED BY <1>2, <1>7, <1>8, <1>9, <1>10 DEF n

-----------------------------------------------------------------------------
(* Reading a file back.                                                    *)

\* VhdxDisk::read_block, case by case.
LEMMA BlockRead ==
    ASSUME NEW f, NEW b
    PROVE  LET r == ReadBlock(f, b)
               e == PayloadEntry(f, b)
               bs == BlockSizeOf(f)
               zeros == [k \in 0..(bs - 1) |-> Zero]
               missing == EntryIndex(f, b) >= f[1][4] * PerCell
               found == ~missing /\ BatCellFor(f, b)[1] = "bat"
           IN  /\ missing => r.kind = "error" /\ r.data = zeros
               /\ ~missing /\ BatCellFor(f, b)[1] # "bat" =>
                     r.kind = "full" /\ r.data = [k \in 0..(bs - 1) |-> Stray]
               /\ found /\ e.state = "absent" => r.kind = "absent" /\ r.data = zeros
               /\ found /\ e.state = "zero" => r.kind = "full" /\ r.data = zeros
               /\ found /\ e.state \notin {"absent", "zero"} =>
                     IF e.off + bs > Len(f) THEN r.kind = "error" /\ r.data = zeros
                     ELSE r.kind = "full" /\ r.data = [k \in 0..(bs - 1) |-> f[e.off + k + 1]]
BY DEF ReadBlock

\* ... when the BAT has an entry for the block.
LEMMA FoundRead ==
    ASSUME NEW f, NEW b, ~(EntryIndex(f, b) >= f[1][4] * PerCell), BatCellFor(f, b)[1] = "bat"
    PROVE  LET r == ReadBlock(f, b)
               e == PayloadEntry(f, b)
               bs == BlockSizeOf(f)
               zeros == [k \in 0..(bs - 1) |-> Zero]
           IN  /\ e.state = "absent" => r.kind = "absent" /\ r.data = zeros
               /\ e.state = "zero" => r.kind = "full" /\ r.data = zeros
               /\ e.state \notin {"absent", "zero"} =>
                     IF e.off + bs > Len(f) THEN r.kind = "error" /\ r.data = zeros
                     ELSE r.kind = "full" /\ r.data = [k \in 0..(bs - 1) |-> f[e.off + k + 1]]
BY BlockRead

\* ... and when that part of the BAT was lost.
LEMMA StrayRead ==
    ASSUME NEW f, NEW b, ~(EntryIndex(f, b) >= f[1][4] * PerCell), BatCellFor(f, b)[1] # "bat"
    PROVE  /\ ReadBlock(f, b).kind = "full"
           /\ ReadBlock(f, b).data = [k \in 0..(BlockSizeOf(f) - 1) |-> Stray]
BY BlockRead

\* What is read is a block; if it is absent, one of zeros.
LEMMA BlockShape ==
    ASSUME NEW f, NEW b
    PROVE  LET r == ReadBlock(f, b)
           IN  /\ r.kind \in {"absent", "full", "error"}
               /\ r.data = [k \in 0..(BlockSizeOf(f) - 1) |-> r.data[k]]
               /\ r.kind = "absent" => \A k \in 0..(BlockSizeOf(f) - 1) : r.data[k] = Zero
<1> DEFINE r == ReadBlock(f, b)
           e == PayloadEntry(f, b)
           D == 0..(BlockSizeOf(f) - 1)
           zeros == [k \in D |-> Zero]
           payload == [k \in D |-> f[e.off + k + 1]]
           strays == [k \in D |-> Stray]
<1>1. \/ r.kind \in {"absent", "full", "error"} /\ r.data = zeros
      \/ r.kind = "full" /\ r.data \in {payload, strays}
  BY BlockRead
<1>2. zeros = [k \in D |-> zeros[k]] /\ payload = [k \in D |-> payload[k]]
      /\ strays = [k \in D |-> strays[k]]
      /\ \A k \in D : zeros[k] = Zero
  OBVIOUS
<1> HIDE DEF r, zeros, payload, strays
<1>3. /\ r.kind \in {"absent", "full", "error"}
      /\ r.data = [k \in D |-> r.data[k]]
      /\ r.kind = "absent" => \A k \in D : r.data[k] = Zero
  BY <1>1, <1>2
<1> QED BY <1>3 DEF r

\* The cell a user sees is the cell read.
LEMMA SeenCell ==
    ASSUME NEW f, NEW b, ReadBlock(f, b).kind # "error", NEW k \in 0..(BlockSizeOf(f) - 1)
    PROVE  LET c == CellOf(ReadBlock(f, b), k)
               d == ReadBlock(f, b).data[k]
           IN  (IF c = Unfilled THEN Zero ELSE c) = (IF d = Unfilled THEN Zero ELSE d)
<1> DEFINE r == ReadBlock(f, b)
<1>1. /\ r.kind \in {"absent", "full"}
      /\ r.kind = "absent" => r.data[k] = Zero
  BY BlockShape
<1>2. Zero # Unfilled
  <2>1. Zero[1] = "zero" /\ Unfilled[1] = "unfilled"
    BY DEF Zero, Unfilled
  <2> QED BY <2>1
<1> HIDE DEF r
<1>3. CellOf(r, k) = IF r.kind = "full" THEN r.data[k] ELSE Unfilled
  BY <1>1 DEF CellOf
<1>4. (IF CellOf(r, k) = Unfilled THEN Zero ELSE CellOf(r, k))
        = (IF r.data[k] = Unfilled THEN Zero ELSE r.data[k])
  BY <1>1, <1>2, <1>3
<1> QED BY <1>4 DEF r

\* The block an address lies in.
LEMMA AddressBlock ==
    ASSUME NEW size \in Nat, NEW bs \in Nat \ {0}, NEW v \in 0..(size - 1)
    PROVE  v \div bs \in 0..(block_count(size, bs) - 1) /\ v % bs \in 0..(bs - 1)
<1> DEFINE q == v \div bs
           m == v % bs
           c == (size + bs - 1) \div bs
           n == (size + bs - 1) % bs
<1>0. size \in Nat /\ v \in Nat /\ v < size
  OBVIOUS
<1>1. q \in Nat /\ m \in 0..(bs - 1) /\ v = q * bs + m
  BY <1>0, DivMod
<1>2. c \in Nat /\ n \in 0..(bs - 1) /\ size + bs - 1 = c * bs + n
  <2>1. size + bs - 1 \in Nat
    BY <1>0
  <2> QED BY <2>1, DivMod
<1>3. c = block_count(size, bs)
  BY DEF block_count
<1> HIDE DEF q, m, c, n
<1>4. q * bs \in Nat /\ c * bs \in Nat /\ q * bs < c * bs
  BY <1>0, <1>1, <1>2
<1>5. q < c
  <2>1. CASE c < q
    <3>1. c * bs + bs <= q * bs
      BY <1>1, <1>2, <2>1, LaterChunk
    <3> QED BY <1>4, <3>1
  <2>2. CASE c = q
    BY <1>4, <2>2
  <2> QED BY <1>1, <1>2, <2>1, <2>2
<1>6. q \in 0..(c - 1)
  BY <1>1, <1>2, <1>5
<1> QED BY <1>1, <1>3, <1>6 DEF q, m

-----------------------------------------------------------------------------
(* The entry of a block.                                                   *)

\* A reader finds the entry of block b in the cell of the table that holds it,
\* wherever the table is in the file.
LEMMA EntryFound ==
    ASSUME NEW size \in Nat, NEW bs \in 1..ChunkCells, NEW f, NEW bo \in Nat,
           f[1][3] = bo, f[1][4] = bat_length(size, bs), BlockSizeOf(f) = bs,
           NEW b \in 0..(block_count(size, bs) - 1)
    PROVE  /\ ~(EntryIndex(f, b) >= f[1][4] * PerCell)
           /\ \E n \in 1..bat_length(size, bs) :
                 /\ BatCellFor(f, b) = f[bo + n]
                 /\ \A bat : (Len(bat) = bat_entries(size, bs)
                                /\ f[bo + n] = encode(bat, bat_length(size, bs))[n]) =>
                       PayloadEntry(f, b) = bat[payload_index(b, chunk_ratio(bs)) + 1]
<1> DEFINE length == bat_length(size, bs)
           entries == bat_entries(size, bs)
           i == payload_index(b, chunk_ratio(bs))
           q == i \div PerCell
           m == i % PerCell
<1>1. length \in Nat \ {0} /\ entries \in Nat /\ i \in Nat /\ i < entries /\ PerCell \in Nat \ {0}
  BY Geometry, WriterAssumption
<1>2. /\ i < length * PerCell /\ q \in 0..(length - 1)
      /\ m \in 0..(PerCell - 1) /\ i = q * PerCell + m
  <2> HIDE DEF i
  <2> QED BY <1>1, Geometry
<1>3. EntryIndex(f, b) = i
  BY DEF EntryIndex
<1>4. BatCellFor(f, b) = f[bo + q + 1] /\ PayloadEntry(f, b) = f[bo + q + 1][2][m + 1]
  BY <1>3 DEF PayloadEntry, BatCellFor
<1> HIDE DEF i, q, m, length, entries
<1>5. length * PerCell \in Nat /\ q * PerCell \in Nat /\ (q + 1) - 1 = q
      /\ q + 1 \in 1..length /\ bo + (q + 1) = bo + q + 1 /\ m + 1 \in 1..PerCell
  BY <1>1, <1>2
<1>6. ((q + 1) - 1) * PerCell + (m + 1) = i + 1
  BY <1>2, <1>5
<1>7. ASSUME NEW bat, Len(bat) = entries, f[bo + (q + 1)] = encode(bat, length)[q + 1]
      PROVE  PayloadEntry(f, b) = bat[i + 1]
  <2>1. encode(bat, length)[q + 1]
          = <<"bat", [j \in 1..PerCell |-> LET n == ((q + 1) - 1) * PerCell + j
                                           IN  IF n <= Len(bat) THEN bat[n] ELSE Empty]>>
    BY <1>5 DEF encode, BatCell
  <2>2. f[bo + q + 1][2] = [j \in 1..PerCell |-> LET n == ((q + 1) - 1) * PerCell + j
                                                 IN  IF n <= Len(bat) THEN bat[n] ELSE Empty]
    BY <1>5, <1>7, <2>1
  <2>3. i + 1 <= Len(bat)
    BY <1>1, <1>7
  <2> QED BY <1>4, <1>5, <1>6, <2>2, <2>3
<1>8. ~(EntryIndex(f, b) >= f[1][4] * PerCell)
  <2>1. f[1][4] = length
    BY DEF length
  <2> QED BY <1>1, <1>2, <1>3, <1>5, <2>1
<1> QED BY <1>4, <1>5, <1>7, <1>8 DEF i, length, entries

\* The cells of an encoded table are cells of a BAT.
LEMMA EncodedCell ==
    ASSUME NEW bat, NEW cells, NEW n \in 1..cells
    PROVE  encode(bat, cells)[n][1] = "bat"
BY DEF encode, BatCell

\* There is an entry in the table for every block: setting it is seen at this
\* block and at no other.
LEMMA SetEntry ==
    ASSUME NEW size \in Nat, NEW bs \in 1..ChunkCells, NEW bat, Listed(bat),
           Len(bat) = bat_entries(size, bs), NEW b \in 0..(block_count(size, bs) - 1), NEW e,
           NEW t, t = set_payload_entry(bat, chunk_ratio(bs), b, e)
    PROVE  /\ Listed(t) /\ Len(t) = Len(bat)
           /\ t[payload_index(b, chunk_ratio(bs)) + 1] = e
           /\ \A a \in 0..(block_count(size, bs) - 1) : a # b =>
                 t[payload_index(a, chunk_ratio(bs)) + 1] = bat[payload_index(a, chunk_ratio(bs)) + 1]
<1> DEFINE ratio == chunk_ratio(bs)
           i == payload_index(b, ratio) + 1
           count == block_count(size, bs)
<1>1. /\ count \in Nat /\ Len(bat) \in Nat
      /\ \A a \in 0..(count - 1) : payload_index(a, ratio) \in Nat /\ payload_index(a, ratio) < Len(bat)
      /\ \A a \in 0..(count - 1) : payload_index(a, ratio) = payload_index(b, ratio) => a = b
  <2> DEFINE n == bat_entries(size, bs)
  <2>1. /\ count \in Nat /\ n \in Nat
        /\ \A a \in 0..(count - 1) : payload_index(a, ratio) \in Nat /\ payload_index(a, ratio) < n
        /\ \A a, c \in 0..(count - 1) : payload_index(a, ratio) = payload_index(c, ratio) => a = c
    BY Geometry
  <2> QED BY <2>1
<1>2. bat = [n \in 1..Len(bat) |-> bat[n]]
  BY ListedFcn
<1>3. i \in 1..Len(bat) /\ i <= Len(bat)
  BY <1>1
<1>4. t = [bat EXCEPT ![i] = e]
  BY <1>3 DEF set_payload_entry
<1> HIDE DEF i
<1>5. t = [n \in 1..Len(bat) |-> t[n]] /\ t[i] = e /\ \A n \in 1..Len(bat) : n # i => t[n] = bat[n]
  BY <1>2, <1>3, <1>4
<1>6. Listed(t) /\ Len(t) = Len(bat)
  BY <1>1, <1>5, FcnListed
<1>7. ASSUME NEW a \in 0..(count - 1), a # b
      PROVE  t[payload_index(a, ratio) + 1] = bat[payload_index(a, ratio) + 1]
  <2>1. payload_index(a, ratio) + 1 \in 1..Len(bat) /\ payload_index(a, ratio) + 1 # i
    BY <1>1, <1>7 DEF i
  <2> QED BY <1>5, <2>1
<1> QED BY <1>5, <1>6, <1>7 DEF i

\* A table made from the blocks' entries has them.
LEMMA BatOfEntries ==
    ASSUME NEW size \in Nat, NEW bs \in 1..ChunkCells, NEW e,
           DOMAIN e = 0..(block_count(size, bs) - 1)
    PROVE  /\ Listed(BatOf(size, bs, e)) /\ Len(BatOf(size, bs, e)) = bat_entries(size, bs)
           /\ \A b \in 0..(block_count(size, bs) - 1) :
                 BatOf(size, bs, e)[payload_index(b, chunk_ratio(bs)) + 1] = e[b]
<1> DEFINE ratio == chunk_ratio(bs)
           count == block_count(size, bs)
           n == bat_entries(size, bs)
           at(i) == {b \in DOMAIN e : payload_index(b, ratio) = i - 1}
           T == BatOf(size, bs, e)
<1>1. /\ count \in Nat /\ n \in Nat
      /\ \A a \in 0..(count - 1) : payload_index(a, ratio) \in Nat /\ payload_index(a, ratio) < n
      /\ \A a, b \in 0..(count - 1) : payload_index(a, ratio) = payload_index(b, ratio) => a = b
  BY Geometry
<1>2. T = [i \in 1..n |-> IF at(i) = {} THEN Empty ELSE e[CHOOSE b \in at(i) : TRUE]]
  BY DEF BatOf
<1>3. T = [i \in 1..n |-> T[i]]
  BY <1>2
<1>4. Listed(T) /\ Len(T) = n
  BY <1>1, <1>3, FcnListed
<1>5. ASSUME NEW b \in 0..(count - 1) PROVE T[payload_index(b, ratio) + 1] = e[b]
  <2> DEFINE i == payload_index(b, ratio) + 1
  <2>1. i \in 1..n /\ i - 1 = payload_index(b, ratio)
    BY <1>1
  <2>2. at(i) = {b}
    <3>1. b \in at(i)
      BY <2>1
    <3>2. \A a \in at(i) : a = b
      BY <1>1, <2>1
    <3> QED BY <3>1, <3>2
  <2>3. (CHOOSE a \in at(i) : TRUE) = b /\ at(i) # {}
    BY <2>2
  <2> QED BY <1>2, <2>1, <2>3
<1> QED BY <1>4, <1>5

-----------------------------------------------------------------------------
(* Counting.                                                               *)

Less == {p \in Nat \X Nat : p[1] < p[2]}

\* The order of the natural numbers is well-founded.
LEMMA LessWF == IsWellFoundedOn(Less, Nat)
BY NatLessThanWellFounded DEF OpToRel, Less

\* What fails for some number fails for a first one.
LEMMA Smallest ==
    ASSUME NEW S \in SUBSET Nat, S # {}
    PROVE  \E x \in S : \A y \in S : x <= y
<1>1. PICK x \in S : \A y \in S : ~(<<y, x>> \in Less)
  BY LessWF, WFMin
<1>2. ASSUME NEW y \in S PROVE x <= y
  <2>1. x \in Nat /\ y \in Nat
    OBVIOUS
  <2>2. ~(y < x)
    <3>1. SUFFICES ASSUME y < x PROVE <<y, x>> \in Less
      BY <1>1
    <3> QED BY <2>1, <3>1 DEF Less
  <2> QED BY <2>1, <2>2
<1> QED BY <1>2
=============================================================================
