---------------------------- MODULE MergeProofs ----------------------------
(***************************************************************************)
(* Proofs about merge, for every chain, block count and outcome of a kill  *)
(* or power loss:                                                          *)
(*   - Merge implements HeaderPair: copying blocks, writing the BAT and    *)
(*     removing the child happen between the header steps of a merge and   *)
(*     add nothing to them;                                                *)
(*   - its types, and the invariant MInv, which has two halves.  Steady    *)
(*     holds whatever happens: what disk may hold includes what the file   *)
(*     holds, and every entry is one that merge_block can resolve.         *)
(*     Lossless holds until a power loss meets an unsynced BAT or header   *)
(*     write: blocks lie apart, what the chain reads is what it read at    *)
(*     first, whatever is not synced can be lost without loss, and the     *)
(*     child goes only when the parent is complete and synced;             *)
(*   - from MInv: no sector is lost, the child is removed last, no two     *)
(*     blocks share a place.                                               *)
(***************************************************************************)
EXTENDS HeaderPairProofs, Merge, FiniteSetTheorems, FunctionTheorems

\* Every step of merge on the whole chain is a header step or changes no
\* header state.
LEMMA MergeHeaderStep == ASSUME [MNext]_mvars PROVE [Next]_vars
<1>1. CASE Fsck
  BY <1>1 DEF Fsck, Next
<1>2. CASE OpenChain
  BY <1>2 DEF OpenChain, Next
<1>3. CASE SkipBlock \/ EndLoop \/ RemoveChild
  BY <1>3 DEF SkipBlock, EndLoop, RemoveChild
<1>4. CASE CopyBlock
  <2>1. UNCHANGED vars \/ Kill
    BY <1>4 DEF CopyBlock
  <2> QED BY <2>1 DEF Next
<1>5. CASE WriteBat
  <2>1. UNCHANGED vars \/ Kill
    BY <1>5 DEF WriteBat
  <2> QED BY <2>1 DEF Next
<1>6. CASE WriteHeaders
  BY <1>6 DEF WriteHeaders, Next
<1>7. CASE SyncParent \/ Return
  BY <1>7 DEF SyncParent, Return, Next
<1>8. CASE Stop \/ Settle \/ Blackout
  BY <1>8 DEF Stop, Settle, Blackout, Next
<1>9. CASE UNCHANGED mvars
  BY <1>9 DEF mvars
<1> QED BY <1>1, <1>2, <1>3, <1>4, <1>5, <1>6, <1>7, <1>8, <1>9 DEF MNext

\* Refinement: the merge of a chain, the parent's headers alone considered,
\* is a behaviour of the header protocol.
THEOREM MergeImplementsHeaderPair == MSpec => Spec
<1>1. MInit => Init
  BY DEF MInit
<1>2. [MNext]_mvars => [Next]_vars
  BY MergeHeaderStep
<1> QED BY <1>1, <1>2, PTL DEF MSpec, Spec

\* Once a merge has returned, no failure makes the parent carry the guid the
\* removed child was linked to.
THEOREM MergeGuidSurvives == MSpec => []CommittedGuidSurvives
BY MergeImplementsHeaderPair, NoGuidResurrection, PTL

-----------------------------------------------------------------------------
(* The invariant of the merge.                                             *)

Kept == Blocks \ holes

\* What a reader gets from block contents c under entry e.
SectorIn(e, c, b, s) ==
    IF e.state = "full" \/ (e.state = "partial" /\ s \in e.bits) THEN c[s]
    ELSE IF e.state = "zero" THEN Zero ELSE Below(b)

\* The parent alone reads as the chain did.
Done(e, b) == \A s \in Sectors : ParentSector(e, data, b, s) = want[b][s]
Complete == \A b \in Kept : Done(bat[b], b)

\* A reader is no longer sent to the child.
Gone == ~here \/ (linkage # Nil /\ Active(slot).guid # linkage)

DataSynced == /\ \A b \in Blocks : bmay[b] = {bat[b]}
              /\ \A o \in Offsets : dmay[o] = {data[o]}
              /\ lmay = {len}

\* Some header write is not on disk for certain.
HeaderPending == \E i \in Slots : \E h, k \in may[i] : h # k

\* What is on disk now is one of the outcomes of a power loss.
MayInv == /\ \A b \in Blocks : bat[b] \in bmay[b]
          /\ \A o \in Offsets : data[o] \in dmay[o]
          /\ len \in lmay /\ here \in cmay
          /\ FALSE \in cmay => ~here

\* An entry has an offset iff it has a block; where the child is partial,
\* only holes leave merge with something below the parent to fill in.
GoodEntry(b, e) ==
    /\ e.off # 0 <=> e.state \in {"full", "partial"}
    /\ b \in Kept /\ child[b].kind = "partial" =>
          e.state \in {"full", "zero"} \/ (e.state = "absent" /\ ~diff)
EntryInv == \A b \in Blocks : GoodEntry(b, mbat[b]) /\ \A e \in bmay[b] : GoodEntry(b, e)

\* The in-memory BAT differs from the one on disk only in blocks behind the
\* loop, and not at all once it is written.
LoopInv ==
    pc = "merge1" => /\ step = "loop" => \A a \in Blocks : a >= blk => mbat[a] = bat[a]
                     /\ step # "loop" => blk = BlockCount
                     /\ step = "headers" => bat = mbat

\* No two blocks share a place in the two BATs, and none is past the end.
Apart(e, f) == e.off # 0 => e.off # f.off
Places ==
    \A a \in Blocks :
        /\ bat[a].off <= len /\ mbat[a].off <= len
        /\ \A b \in Blocks \ {a} : /\ Apart(bat[a], bat[b]) /\ Apart(mbat[a], mbat[b])
                                   /\ Apart(bat[a], mbat[b]) /\ Apart(mbat[a], bat[b])

\* Of a block whose entry is safely on disk, everything is: its place is
\* inside every length, and what the child lacks is in every outcome.
Durable ==
    \A b \in Blocks : bmay[b] = {bat[b]} =>
        /\ \A l \in lmay : bat[b].off <= l
        /\ b \in Kept /\ bat[b].off # 0 =>
              \A d \in dmay[bat[b].off], s \in Sectors :
                  ~InChild(b, s) => SectorIn(bat[b], d, b, s) = want[b][s]

\* Through the child, the chain reads as it did.
ChainKept ==
    \A b \in Kept, s \in Sectors :
        IF InChild(b, s) THEN ChildSector(b) = want[b][s]
                         ELSE ParentSector(bat[b], data, b, s) = want[b][s]

\* The blocks behind the loop are complete.
Copied == pc = "merge1" => \A b \in Kept : b < blk => Done(mbat[b], b)

\* A reader leaves the child only when the parent is complete, and a power
\* loss before that is durable is one during a header write.
GoneInv == Gone => Complete /\ (DataSynced \/ HeaderPending)

PhaseInv ==
    /\ pc = "merge1" => ~Gone
    /\ pc \in {"merge1", "merge2", "merge_sync"} => here
    /\ pc \in {"merge2", "merge_sync"} => Complete /\ HeaderPending
    /\ pc = "merge_ok" \/ ~here => Complete /\ DataSynced

Steady == MayInv /\ EntryInv /\ LoopInv
Lossless == Places /\ Durable /\ ChainKept /\ Copied /\ GoneInv /\ PhaseInv
MInv == Steady /\ (~hit => Lossless)

-----------------------------------------------------------------------------
(* The parent before the merge.                                            *)

\* The stored blocks of the parent are numbered from 1 without gaps, each
\* with a number of its own.
LEMMA OffsetNumbering ==
    ASSUME NEW kind
    PROVE  LET n == Cardinality({b \in Blocks : Stored(b, kind)}) IN
           /\ n \in 0..MaxLen
           /\ \A b \in Blocks : /\ OffsetOf(b, kind) \in 0..n
                                /\ OffsetOf(b, kind) # 0 <=> Stored(b, kind)
           /\ \A a, b \in Blocks : a # b /\ OffsetOf(a, kind) # 0
                                      => OffsetOf(a, kind) # OffsetOf(b, kind)
           /\ \A o \in 1..n : \E b \in Blocks : OffsetOf(b, kind) = o
<1> DEFINE S == {b \in Blocks : Stored(b, kind)}
           n == Cardinality(S)
           P(b) == {a \in 0..b : Stored(a, kind)}
<1>1. /\ BlockCount - 1 \in Nat /\ BlockCount \in Nat /\ MaxLen \in Nat /\ BlockCount <= MaxLen
      /\ Blocks = 0..(BlockCount - 1)
  BY MergeAssumption DEF Blocks
<1>2. IsFiniteSet(Blocks) /\ Cardinality(Blocks) = BlockCount
  BY <1>1, FS_Interval
<1>3. IsFiniteSet(S) /\ n \in Nat /\ n <= BlockCount
  BY <1>1, <1>2, FS_Subset, FS_CardinalityType
<1>4. ASSUME NEW b \in S
      PROVE  /\ P(b) \subseteq S /\ b \in P(b) /\ IsFiniteSet(P(b))
             /\ Cardinality(P(b)) \in 1..n
  <2>1. P(b) \subseteq S /\ b \in P(b)
    BY <1>1, <1>4
  <2>2. IsFiniteSet(P(b)) /\ Cardinality(P(b)) \in Nat /\ Cardinality(P(b)) <= n
    BY <1>3, <2>1, FS_Subset, FS_CardinalityType
  <2>3. Cardinality(P(b)) # 0
    BY <2>1, <2>2, FS_EmptySet
  <2> QED BY <1>3, <2>1, <2>2, <2>3
<1>5. ASSUME NEW a \in S, NEW b \in S, a < b PROVE Cardinality(P(a)) # Cardinality(P(b))
  <2>1. P(a) \subseteq P(b) /\ b \notin P(a)
    BY <1>1, <1>5
  <2>2. P(a) # P(b)
    BY <1>4, <2>1
  <2> QED BY <1>4, <2>1, <2>2, FS_Subset
<1>6. \A b \in Blocks : OffsetOf(b, kind) = IF b \in S THEN Cardinality(P(b)) ELSE 0
  BY DEF OffsetOf
<1> HIDE DEF P
<1>7. \A b \in Blocks : OffsetOf(b, kind) \in 0..n /\ (OffsetOf(b, kind) # 0 <=> Stored(b, kind))
  BY <1>3, <1>4, <1>6
<1>8. \A a, b \in S : OffsetOf(a, kind) = OffsetOf(b, kind) => a = b
  BY <1>1, <1>5, <1>6
<1>9. \A o \in 1..n : \E b \in Blocks : OffsetOf(b, kind) = o
  <2> DEFINE f == [b \in S |-> OffsetOf(b, kind)]
  <2>1. f \in [S -> 1..n]
    BY <1>4, <1>6
  <2>2. f \in Injection(S, 1..n)
    BY <1>8, <2>1, Fun_IsInj
  <2>3. IsFiniteSet(1..n) /\ Cardinality(1..n) = n
    BY <1>3, FS_Interval
  <2>4. f \in Surjection(S, 1..n)
    BY <2>2, <2>3, FS_Injection
  <2>5. \A o \in 1..n : \E b \in S : f[b] = o
    <3> HIDE DEF f, n, S
    <3> QED BY <2>4, Fun_SurjectionProperties
  <2> QED BY <2>5
<1>10. \A a, b \in Blocks : a # b /\ OffsetOf(a, kind) # 0 => OffsetOf(a, kind) # OffsetOf(b, kind)
  BY <1>7, <1>8
<1> QED BY <1>1, <1>3, <1>7, <1>9, <1>10

\* Sector values.
LEMMA ValueTypes ==
    /\ Zero \in Values /\ \A b \in Blocks : Below(b) \in Values /\ ChildSector(b) \in Values
    /\ \A b \in Blocks : Owned("parent", b) \in Values
    /\ ZeroBlock \in [Sectors -> Values]
BY DEF Values, Below, ChildSector, ZeroBlock

\* What a reader of the parent gets is a sector value.
LEMMA SectorType ==
    ASSUME NEW b \in Blocks, NEW s \in Sectors, NEW e \in Entry,
           e.state \in {"full", "partial"} => e.off \in Offsets,
           NEW d \in [Offsets -> [Sectors -> Values]]
    PROVE  ParentSector(e, d, b, s) \in Values /\ ChainSector(e, d, b, s) \in Values
<1>1. ParentSector(e, d, b, s) \in Values
  BY ValueTypes DEF ParentSector
<1> QED BY <1>1, ValueTypes DEF ChainSector

-----------------------------------------------------------------------------
(* Type correctness.                                                       *)

\* The chain as merge finds it is well-typed, its entries are good ones.
LEMMA MInitTypes ==
    ASSUME MInit, TypeOK
    PROVE  /\ MTypeOK /\ Places
           /\ \A b \in Blocks : bat[b].off # 0 <=> bat[b].state \in {"full", "partial"}
           /\ diff \/ \A b \in Blocks : bat[b].state # "partial"
<1>1. PICK kind \in [Blocks -> Entries] :
         /\ diff \/ \A b \in Blocks : kind[b].state # "partial"
         /\ bat = [b \in Blocks |-> [state |-> kind[b].state, bits |-> kind[b].bits,
                                     off |-> OffsetOf(b, kind)]]
         /\ len = Cardinality({b \in Blocks : Stored(b, kind)})
         /\ data = [o \in Offsets |->
                      IF o <= len
                      THEN [s \in Sectors |->
                              Owned("parent", CHOOSE b \in Blocks : OffsetOf(b, kind) = o)]
                      ELSE ZeroBlock]
  BY DEF MInit
<1>2. /\ len \in 0..MaxLen
      /\ \A b \in Blocks : /\ OffsetOf(b, kind) \in 0..len
                           /\ OffsetOf(b, kind) # 0 <=> Stored(b, kind)
      /\ \A a, b \in Blocks : a # b /\ OffsetOf(a, kind) # 0
                                 => OffsetOf(a, kind) # OffsetOf(b, kind)
      /\ \A o \in 1..len : \E b \in Blocks : OffsetOf(b, kind) = o
  BY <1>1, OffsetNumbering
<1>3. MaxLen \in Nat /\ BlockCount \in Nat
  BY MergeAssumption
<1>4. bat \in [Blocks -> Entry]
  <2> SUFFICES ASSUME NEW b \in Blocks PROVE bat[b] \in Entry
    BY <1>1
  <2>1. kind[b] \in [state : {"absent", "zero", "full", "partial"}, bits : SUBSET Sectors]
    BY MergeAssumption
  <2>2. OffsetOf(b, kind) \in 0..MaxLen
    BY <1>2, <1>3
  <2> QED BY <1>1, <2>1, <2>2 DEF Entry
<1>5. \A b \in Blocks : /\ bat[b].off = OffsetOf(b, kind) /\ bat[b].state = kind[b].state
  BY <1>1
<1>6. \A b \in Blocks : bat[b].off # 0 <=> bat[b].state \in {"full", "partial"}
  BY <1>2, <1>5 DEF Stored
<1>7. data \in [Offsets -> [Sectors -> Values]]
  <2> SUFFICES ASSUME NEW o \in Offsets PROVE data[o] \in [Sectors -> Values]
    BY <1>1
  <2>1. CASE o <= len
    <3>1. o \in 1..len
      BY <1>2, <1>3, <2>1 DEF Offsets
    <3>2. (CHOOSE b \in Blocks : OffsetOf(b, kind) = o) \in Blocks
      BY <1>2, <3>1
    <3> QED BY <1>1, <2>1, <3>2, ValueTypes
  <2>2. CASE ~(o <= len)
    BY <1>1, <2>2, ValueTypes
  <2> QED BY <2>1, <2>2
<1>8. \A b \in Blocks : bat[b].state \in {"full", "partial"} => bat[b].off \in Offsets
  BY <1>2, <1>3, <1>5, <1>6 DEF Offsets
<1>9. want \in [Blocks -> [Sectors -> Values]]
  BY <1>4, <1>7, <1>8, SectorType DEF MInit
<1>10. Places
  <2>1. mbat = bat
    BY DEF MInit
  <2>2. \A a \in Blocks : bat[a].off <= len
    BY <1>2, <1>5
  <2>3. \A a, b \in Blocks : a # b => Apart(bat[a], bat[b])
    BY <1>2, <1>5 DEF Apart
  <2> QED BY <2>1, <2>2, <2>3 DEF Places
<1>11. bmay \in [Blocks -> SUBSET Entry] /\ dmay \in [Offsets -> SUBSET [Sectors -> Values]]
  <2>1. bmay = [b \in Blocks |-> {bat[b]}] /\ dmay = [o \in Offsets |-> {data[o]}]
    BY DEF MInit
  <2>2. bmay \in [Blocks -> SUBSET Entry]
    BY <1>4, <2>1
  <2>3. dmay \in [Offsets -> SUBSET [Sectors -> Values]]
    BY <1>7, <2>1
  <2> QED BY <2>2, <2>3
<1>12. child \in [Blocks -> BlockRead] /\ holes \subseteq Blocks
  BY MergeAssumption DEF MInit
<1>13. linkage \in Guids \cup {Nil}
  <2>1. Active(slot) \in Header
    BY IndexType DEF TypeOK, Active
  <2> QED BY <2>1 DEF MInit, Header
<1>14. diff \in BOOLEAN /\ here \in BOOLEAN /\ cmay \subseteq BOOLEAN /\ hit \in BOOLEAN
  BY Zenon DEF MInit
<1>15. lmay = {len} /\ step = "loop" /\ blk = 0 /\ mbat = bat
  BY DEF MInit
<1>16. MTypeOK
  BY <1>2, <1>3, <1>4, <1>7, <1>9, <1>11, <1>12, <1>13, <1>14, <1>15 DEF MTypeOK
<1>17. diff \/ \A b \in Blocks : bat[b].state # "partial"
  BY <1>1, <1>5
<1> QED BY <1>6, <1>10, <1>16, <1>17

\* Updating a function within its type.
LEMMA ExceptType ==
    ASSUME NEW A, NEW B, NEW f \in [A -> B], NEW a, NEW b \in B
    PROVE  [f EXCEPT ![a] = b] \in [A -> B]
OBVIOUS

\* Where CopyBlock writes, and what.
LEMMA CopyTypes ==
    ASSUME MTypeOK, blk \in Blocks, BlockOffset(blk) <= MaxLen
    PROVE  /\ BlockOffset(blk) \in Offsets
           /\ NewBlock(blk) \in [Sectors -> Values]
           /\ [state |-> "full", bits |-> {}, off |-> BlockOffset(blk)] \in Entry
           /\ (IF BlockOffset(blk) > len THEN BlockOffset(blk) ELSE len) \in 0..MaxLen
<1>1. MaxLen \in Nat /\ len \in 0..MaxLen /\ mbat[blk] \in Entry
  BY MergeAssumption DEF MTypeOK
<1>2. BlockOffset(blk) \in Offsets
  BY <1>1 DEF BlockOffset, InPlace, Offsets, Entry
<1>3. ASSUME NEW s \in Sectors PROVE NewBlock(blk)[s] \in Values
  <2>1. InPlace(mbat[blk]) => mbat[blk].off \in Offsets
    BY <1>1 DEF InPlace, Offsets, Entry
  <2> QED BY <2>1, ValueTypes DEF NewBlock, MTypeOK
<1>4. NewBlock(blk) \in [Sectors -> Values]
  BY <1>3 DEF NewBlock
<1> QED BY <1>1, <1>2, <1>4 DEF Entry, Offsets

\* Merge keeps its variables and the files within their types.
LEMMA MTypeStep == ASSUME MTypeOK, TypeOK', [MNext]_mvars PROVE MTypeOK'
<1>0. /\ BlockCount \in Nat \ {0} /\ MaxLen \in Nat /\ Blocks = 0..(BlockCount - 1)
  BY MergeAssumption DEF Blocks
<1>1. CASE Fsck
  BY <1>1 DEF Fsck, MTypeOK, files, local, fixed
<1>2. CASE OpenChain
  BY <1>0, <1>2 DEF OpenChain, MTypeOK, files, fixed
<1>3. CASE SkipBlock \/ EndLoop
  <2>1. UNCHANGED <<files, mbat, fixed, hit>>
    BY <1>3 DEF SkipBlock, EndLoop
  <2>2. step' \in {"loop", "bat", "headers"} /\ blk' \in 0..BlockCount
    BY <1>0, <1>3 DEF SkipBlock, EndLoop, Looping, MTypeOK
  <2> QED BY <2>1, <2>2 DEF MTypeOK, files, fixed
<1>4. CASE CopyBlock
  <2> DEFINE off == BlockOffset(blk)
             mixed(old, w) == [s \in Sectors |-> IF s \in w THEN NewBlock(blk)[s] ELSE old[s]]
  <2>1. blk \in Blocks /\ off <= MaxLen
    BY <1>0, <1>4 DEF CopyBlock, Looping, MTypeOK
  <2>2. /\ off \in Offsets /\ NewBlock(blk) \in [Sectors -> Values]
        /\ [state |-> "full", bits |-> {}, off |-> off] \in Entry
        /\ (IF off > len THEN off ELSE len) \in 0..MaxLen
    BY <2>1, CopyTypes
  <2>3. \A old \in [Sectors -> Values], w \in SUBSET Sectors : mixed(old, w) \in [Sectors -> Values]
    BY <2>2
  <2>4. dmay' \in [Offsets -> SUBSET [Sectors -> Values]]
    <3> DEFINE T == [Sectors -> Values]
               N == {mixed(old, w) : old \in dmay[off], w \in SUBSET Sectors}
    <3>1. dmay' = [dmay EXCEPT ![off] = N] /\ dmay \in [Offsets -> SUBSET T]
      BY <1>4 DEF CopyBlock, MTypeOK
    <3>2. dmay[off] \subseteq T
      BY <2>2 DEF MTypeOK
    <3>3. N \in SUBSET T
      BY <2>3, <3>2
    <3> HIDE DEF T, N, off
    <3>4. dmay' \in [Offsets -> SUBSET T]
      BY <3>1, <3>3, ExceptType
    <3> QED BY <3>4 DEF T
  <2>5. len' \in 0..MaxLen /\ lmay' \subseteq 0..MaxLen
    BY <1>4, <2>2 DEF CopyBlock, MTypeOK
  <2>6. /\ UNCHANGED <<bat, bmay, here, cmay>> /\ UNCHANGED fixed /\ hit' = hit
    BY <1>4 DEF CopyBlock
  <2>7. CASE /\ data' = [data EXCEPT ![off] = NewBlock(blk)]
             /\ mbat' = [mbat EXCEPT ![blk] = [state |-> "full", bits |-> {}, off |-> off]]
             /\ blk' = blk + 1 /\ UNCHANGED <<vars, step>>
    <3>1. data' \in [Offsets -> [Sectors -> Values]] /\ mbat' \in [Blocks -> Entry]
      BY <2>2, <2>7 DEF MTypeOK
    <3>2. blk' \in 0..BlockCount
      BY <1>0, <2>1, <2>7
    <3> QED BY <2>4, <2>5, <2>6, <2>7, <3>1, <3>2 DEF MTypeOK, fixed
  <2>8. CASE /\ \E w \in SUBSET Sectors : data' = [data EXCEPT ![off] = mixed(@, w)]
             /\ Reset(bat)
    <3>1. data' \in [Offsets -> [Sectors -> Values]]
      <4>1. PICK w \in SUBSET Sectors : data' = [data EXCEPT ![off] = mixed(data[off], w)]
        BY <2>8
      <4>2. mixed(data[off], w) \in [Sectors -> Values]
        BY <2>2, <2>3 DEF MTypeOK
      <4> HIDE DEF mixed, off
      <4> QED BY <4>1, <4>2 DEF MTypeOK
    <3> QED BY <1>0, <2>4, <2>5, <2>6, <2>8, <3>1 DEF MTypeOK, fixed, Reset
  <2> QED BY <1>4, <2>7, <2>8 DEF CopyBlock
<1>5. CASE WriteBat
  <2>1. PICK n \in 0..BlockCount :
           /\ bat' = [b \in Blocks |-> IF b < n THEN mbat[b] ELSE bat[b]]
           /\ \/ step' = "headers" /\ UNCHANGED <<blk, mbat>>
              \/ Reset(bat')
    BY <1>5 DEF WriteBat
  <2>2. bat' \in [Blocks -> Entry]
    BY <2>1 DEF MTypeOK
  <2>3. bmay' \in [Blocks -> SUBSET Entry]
    BY <1>5, <2>2 DEF WriteBat, MTypeOK
  <2> QED BY <1>0, <1>5, <2>1, <2>2, <2>3 DEF WriteBat, Reset, MTypeOK, fixed
<1>6. CASE WriteHeaders
  BY <1>0, <1>6 DEF WriteHeaders, Reset, MTypeOK, files, local, fixed
<1>7. CASE SyncParent \/ Settle
  <2>1. ParentSynced /\ UNCHANGED <<bat, data, len, here>> /\ UNCHANGED <<local, fixed, hit>>
        /\ (cmay' = cmay \/ cmay' = {here})
    BY <1>7 DEF SyncParent, Settle
  <2> QED BY <2>1 DEF ParentSynced, MTypeOK, local, fixed
<1>8. CASE RemoveChild
  <2>1. here' \in BOOLEAN /\ cmay' \subseteq BOOLEAN
    BY <1>8, Zenon DEF RemoveChild
  <2> QED BY <1>8, <2>1 DEF RemoveChild, MTypeOK, local, fixed
<1>9. CASE Return \/ Stop
  <2>1. Reset(bat) /\ UNCHANGED <<files, fixed, hit>>
    BY <1>9 DEF Return, Stop
  <2> QED BY <1>0, <2>1 DEF Reset, MTypeOK, files, fixed
<1>10. CASE Blackout
  <2>1. /\ bat' \in [Blocks -> UNION {bmay[b] : b \in Blocks}] /\ len' \in lmay /\ here' \in cmay
        /\ \A b \in Blocks : bat'[b] \in bmay[b]
        /\ data' \in [Offsets -> UNION {dmay[o] : o \in Offsets} \cup {ZeroBlock}]
        /\ \A o \in Offsets : data'[o] \in dmay[o] \/ data'[o] = ZeroBlock
        /\ bmay' = [b \in Blocks |-> {bat'[b]}] /\ dmay' = [o \in Offsets |-> {data'[o]}]
        /\ lmay' = {len'} /\ cmay' = {here'} /\ Reset(bat') /\ UNCHANGED fixed
    BY <1>10 DEF Blackout
  <2>2. bat' \in [Blocks -> Entry] /\ bmay' \in [Blocks -> SUBSET Entry]
    BY <2>1 DEF MTypeOK
  <2>3. data' \in [Offsets -> [Sectors -> Values]]
    BY <2>1, ValueTypes DEF MTypeOK
  <2>4. dmay' \in [Offsets -> SUBSET [Sectors -> Values]]
    BY <2>1, <2>3
  <2>5. hit' \in BOOLEAN
    BY <1>10, Zenon DEF Blackout, MTypeOK
  <2> QED BY <1>0, <2>1, <2>2, <2>3, <2>4, <2>5 DEF Reset, MTypeOK, fixed
<1>11. CASE UNCHANGED mvars
  BY <1>11 DEF mvars, MTypeOK, files, local, fixed
<1> QED
  BY <1>1, <1>2, <1>3, <1>4, <1>5, <1>6, <1>7, <1>8, <1>9, <1>10, <1>11 DEF MNext

\* Type correctness: whatever fails and whenever, merge's loop stays within
\* the disk and both BATs within the file's places.
THEOREM MTypeCorrect == MSpec => []MTypeOK
<1>1. MInit /\ TypeOK => MTypeOK
  BY MInitTypes
<1>2. MTypeOK /\ TypeOK' /\ [MNext]_mvars => MTypeOK'
  BY MTypeStep
<1> QED BY <1>1, <1>2, MergeImplementsHeaderPair, TypeCorrect, PTL DEF MSpec

-----------------------------------------------------------------------------
(* The part of the invariant that holds after any power loss.              *)

\* The parent before the merge.
LEMMA SteadyInit == ASSUME MInit, TypeOK PROVE Steady
<1>1. /\ mbat = bat /\ pc = "idle" /\ holes = {b \in Blocks : Hole(b, bat[b])}
      /\ \A b \in Blocks : bmay[b] = {bat[b]}
      /\ \A o \in Offsets : dmay[o] = {data[o]}
      /\ lmay = {len} /\ here = TRUE /\ cmay = {TRUE}
  BY DEF MInit, Init
<1>2. /\ bat \in [Blocks -> Entry]
      /\ \A b \in Blocks : bat[b].off # 0 <=> bat[b].state \in {"full", "partial"}
      /\ diff \/ \A b \in Blocks : bat[b].state # "partial"
  BY MInitTypes DEF MTypeOK
<1>3. ASSUME NEW b \in Blocks PROVE GoodEntry(b, bat[b])
  <2>1. bat[b].state \in {"absent", "zero", "full", "partial"}
    BY <1>2 DEF Entry
  <2>2. b \in Kept => ~Hole(b, bat[b])
    BY <1>1 DEF Kept
  <2> QED BY <1>2, <2>1, <2>2 DEF GoodEntry, Hole
<1>4. MayInv
  BY <1>1 DEF MayInv
<1> QED BY <1>1, <1>3, <1>4 DEF Steady, EntryInv, LoopInv

\* A full entry with an offset is a good one.
LEMMA FullIsGood ==
    ASSUME NEW b, NEW o \in Offsets
    PROVE  GoodEntry(b, [state |-> "full", bits |-> {}, off |-> o])
BY MergeAssumption DEF GoodEntry, Offsets

\* Each step leaves entries of the right form and outcomes that include what
\* there is.
LEMMA SteadyStep == ASSUME MTypeOK, Steady, [MNext]_mvars PROVE Steady'
<1>0. BlockCount \in Nat \ {0} /\ Blocks = 0..(BlockCount - 1)
  BY MergeAssumption DEF Blocks
<1>1. ASSUME UNCHANGED <<bat, bmay, data, dmay, len, lmay, here, cmay>>, UNCHANGED fixed,
             mbat' = mbat \/ mbat' = bat
      PROVE  MayInv' /\ EntryInv'
  <2>1. \A b, e : GoodEntry(b, e)' <=> GoodEntry(b, e)
    BY <1>1 DEF GoodEntry, Kept, fixed
  <2> QED BY <1>1, <2>1 DEF Steady, MayInv, EntryInv
<1>2. CASE Fsck
  <2>1. pc' # "merge1"
    BY <1>2 DEF Fsck, FsckOpen, FsckRepair1, FsckRepair2, FsckNoLog, WriteNew, Put, Tear, Continue, End
  <2> QED BY <1>1, <1>2, <2>1 DEF Fsck, files, local, Steady, LoopInv
<1>3. CASE OpenChain
  BY <1>1, <1>3 DEF OpenChain, files, Steady, LoopInv
<1>4. CASE SkipBlock
  <2>1. UNCHANGED <<bat, bmay, data, dmay, len, lmay, here, cmay>> /\ UNCHANGED fixed /\ UNCHANGED <<mbat, pc, step>>
        /\ blk' = blk + 1 /\ step = "loop"
    BY <1>4 DEF SkipBlock, Looping, files, vars
  <2>2. LoopInv'
    BY <1>0, <2>1 DEF Steady, LoopInv, MTypeOK
  <2> QED BY <1>1, <2>1, <2>2 DEF Steady
<1>5. CASE CopyBlock
  <2> DEFINE off == BlockOffset(blk)
             mixed(old, w) == [s \in Sectors |-> IF s \in w THEN NewBlock(blk)[s] ELSE old[s]]
             new1 == [state |-> "full", bits |-> {}, off |-> off]
  <2>1. /\ blk \in Blocks /\ off <= MaxLen /\ step = "loop" /\ blk \in Nat
        /\ dmay' = [dmay EXCEPT ![off] = {mixed(old, w) : old \in @, w \in SUBSET Sectors}]
        /\ len' = (IF off > len THEN off ELSE len) /\ lmay' = lmay \cup {len'}
        /\ UNCHANGED <<bat, bmay, here, cmay>> /\ UNCHANGED fixed
    BY <1>0, <1>5 DEF CopyBlock, Looping, MTypeOK
  <2>2. /\ off \in Offsets /\ NewBlock(blk) \in [Sectors -> Values]
    BY <2>1, CopyTypes
  <2>3. \E w \in SUBSET Sectors : data' = [data EXCEPT ![off] = mixed(data[off], w)]
    <3>1. CASE data' = [data EXCEPT ![off] = NewBlock(blk)]
      <4>1. NewBlock(blk) = mixed(data[off], Sectors)
        BY DEF NewBlock
      <4> QED BY <3>1, <4>1
    <3> QED BY <1>5, <3>1 DEF CopyBlock
  <2>4. \A o \in Offsets : data'[o] \in dmay'[o]
    <3>1. PICK w \in SUBSET Sectors : data' = [data EXCEPT ![off] = mixed(data[off], w)]
      BY <2>3
    <3>2. data[off] \in dmay[off] /\ \A o \in Offsets : data[o] \in dmay[o]
      BY <2>2 DEF Steady, MayInv
    <3>3. data'[off] = mixed(data[off], w) /\ \A o \in Offsets \ {off} : data'[o] = data[o]
      BY <2>2, <3>1 DEF MTypeOK
    <3>4. /\ dmay'[off] = {mixed(old, x) : old \in dmay[off], x \in SUBSET Sectors}
          /\ \A o \in Offsets \ {off} : dmay'[o] = dmay[o]
      BY <2>1, <2>2 DEF MTypeOK
    <3> HIDE DEF mixed, off
    <3>5. data'[off] \in dmay'[off]
      BY <3>2, <3>3, <3>4
    <3> QED BY <3>2, <3>3, <3>4, <3>5
  <2>5. MayInv'
    BY <2>1, <2>4 DEF Steady, MayInv
  <2>6. \A b, e : GoodEntry(b, e)' <=> GoodEntry(b, e)
    BY <2>1 DEF GoodEntry, Kept, fixed
  <2>7. GoodEntry(blk, new1)
    BY <2>2, FullIsGood
  <2>8. \/ mbat' = bat /\ pc' = "idle"
        \/ mbat' = [mbat EXCEPT ![blk] = new1] /\ blk' = blk + 1 /\ pc' = pc /\ step' = step
    BY <1>5 DEF CopyBlock, Kill, End, Reset, vars
  <2> HIDE DEF new1
  <2>9. EntryInv'
    BY <2>1, <2>5, <2>6, <2>7, <2>8 DEF Steady, MayInv, EntryInv, MTypeOK
  <2>10. LoopInv'
    <3>1. ASSUME NEW a \in Blocks, a >= blk + 1, pc = "merge1", mbat' = [mbat EXCEPT ![blk] = new1]
          PROVE  mbat'[a] = bat[a]
      <4>1. a # blk /\ a >= blk
        BY <1>0, <2>1, <3>1
      <4> QED BY <2>1, <3>1, <4>1 DEF Steady, LoopInv, MTypeOK
    <3> QED BY <2>1, <2>8, <3>1 DEF LoopInv
  <2> QED BY <2>5, <2>9, <2>10 DEF Steady
<1>6. CASE EndLoop
  <2>1. UNCHANGED <<bat, bmay, data, dmay, len, lmay, here, cmay>> /\ UNCHANGED fixed /\ UNCHANGED <<mbat, pc, blk>>
        /\ blk = BlockCount /\ step' = "bat"
    BY <1>6 DEF EndLoop, files, vars
  <2>2. LoopInv'
    BY <2>1 DEF LoopInv
  <2> QED BY <1>1, <2>1, <2>2 DEF Steady
<1>7. CASE WriteBat
  <2>1. PICK n \in 0..BlockCount :
           /\ bat' = [b \in Blocks |-> IF b < n THEN mbat[b] ELSE bat[b]]
           /\ \/ n = BlockCount /\ step' = "headers" /\ UNCHANGED <<pc, blk, mbat>>
              \/ pc' = "idle" /\ mbat' = bat'
    BY <1>7 DEF WriteBat, Kill, End, Reset, vars
  <2>2. /\ \A b \in Blocks : bmay'[b] = bmay[b] \cup {bat'[b]}
        /\ UNCHANGED <<data, dmay, len, lmay, here, cmay>> /\ UNCHANGED fixed
        /\ pc = "merge1" /\ step = "bat"
    BY <1>7 DEF WriteBat
  <2>3. \A b, e : GoodEntry(b, e)' <=> GoodEntry(b, e)
    BY <2>2 DEF GoodEntry, Kept, fixed
  <2>4. \A b \in Blocks : GoodEntry(b, bat'[b])
    BY <2>1 DEF Steady, MayInv, EntryInv
  <2>5. MayInv'
    BY <2>2 DEF Steady, MayInv
  <2>6. EntryInv'
    BY <2>1, <2>2, <2>3, <2>4 DEF Steady, EntryInv
  <2>7. pc' = "merge1" => bat' = mbat' /\ blk' = BlockCount
    <3>1. pc' = "merge1" => bat' = [b \in Blocks |-> mbat[b]]
      BY <1>0, <2>1
    <3> QED BY <2>1, <2>2, <3>1 DEF Steady, LoopInv, MTypeOK
  <2>8. LoopInv'
    BY <2>1, <2>7 DEF LoopInv
  <2> QED BY <2>5, <2>6, <2>8 DEF Steady
<1>8. CASE WriteHeaders
  <2>1. pc' # "merge1"
    BY <1>8 DEF WriteHeaders, MergeWrite1, MergeWrite2, WriteNew, Put, Tear, Continue, End
  <2> QED BY <1>1, <1>8, <2>1 DEF WriteHeaders, Reset, files, local, Steady, LoopInv
<1>9. CASE SyncParent \/ Settle
  <2>1. /\ ParentSynced /\ UNCHANGED <<bat, data, len, here>> /\ UNCHANGED <<local, fixed>>
        /\ (cmay' = cmay \/ cmay' = {here}) /\ pc' # "merge1"
    BY <1>9 DEF SyncParent, Settle, MergeSync, Continue, Writeback
  <2>2. \A b, e : GoodEntry(b, e)' <=> GoodEntry(b, e)
    BY <2>1 DEF GoodEntry, Kept, fixed
  <2>3. MayInv' /\ EntryInv'
    BY <2>1, <2>2 DEF Steady, MayInv, EntryInv, ParentSynced, local
  <2> QED BY <2>1, <2>3 DEF Steady, LoopInv
<1>10. CASE RemoveChild
  <2>1. MayInv'
    BY <1>10 DEF RemoveChild, Steady, MayInv
  <2>2. UNCHANGED <<bat, bmay, pc>> /\ UNCHANGED local /\ UNCHANGED fixed
    BY <1>10 DEF RemoveChild, vars
  <2>3. EntryInv' /\ LoopInv'
    BY <2>2 DEF Steady, EntryInv, LoopInv, GoodEntry, Kept, local, fixed
  <2> QED BY <2>1, <2>3 DEF Steady
<1>11. CASE Return \/ Stop
  <2>1. mbat' = bat /\ pc' = "idle" /\ UNCHANGED files /\ UNCHANGED fixed
    BY <1>11 DEF Return, Stop, MergeReturn, Kill, End, Reset
  <2> QED BY <1>1, <2>1 DEF files, Steady, LoopInv
<1>12. CASE Blackout
  <2>1. /\ \A b \in Blocks : bat'[b] \in bmay[b] /\ bmay'[b] = {bat'[b]}
        /\ \A o \in Offsets : dmay'[o] = {data'[o]}
        /\ lmay' = {len'} /\ cmay' = {here'} /\ mbat' = bat' /\ pc' = "idle" /\ UNCHANGED fixed
    BY <1>12 DEF Blackout, PowerLoss, End, Reset
  <2>2. \A b, e : GoodEntry(b, e)' <=> GoodEntry(b, e)
    BY <2>1 DEF GoodEntry, Kept, fixed
  <2>3. MayInv' /\ EntryInv'
    BY <2>1, <2>2 DEF Steady, MayInv, EntryInv
  <2> QED BY <2>1, <2>3 DEF Steady, LoopInv
<1>13. CASE UNCHANGED mvars
  BY <1>13, <1>1 DEF mvars, vars, files, local, Steady, LoopInv
<1> QED
  BY <1>2, <1>3, <1>4, <1>5, <1>6, <1>7, <1>8, <1>9, <1>10, <1>11, <1>12, <1>13 DEF MNext

-----------------------------------------------------------------------------
(* The part that holds until a power loss merge does not survive.          *)

\* A sector of the parent is found in the block its entry points to.
LEMMA ParentSectorIn ==
    ASSUME NEW e, NEW d, NEW b, NEW s
    PROVE  ParentSector(e, d, b, s) = SectorIn(e, d[e.off], b, s)
BY DEF ParentSector, SectorIn

\* An entry without an offset reads the same whatever the blocks hold.
LEMMA NoOffset ==
    ASSUME NEW e, NEW b, GoodEntry(b, e), NEW c, NEW d, NEW s, e.off = 0
    PROVE  SectorIn(e, c, b, s) = SectorIn(e, d, b, s)
BY DEF SectorIn, GoodEntry

\* The chain before the merge.
LEMMA LosslessInit == ASSUME MInit, TypeOK PROVE Lossless
<1>1. /\ mbat = bat /\ pc = "idle" /\ here = TRUE
      /\ \A b \in Blocks : bmay[b] = {bat[b]}
      /\ \A o \in Offsets : dmay[o] = {data[o]}
      /\ lmay = {len} /\ linkage \in {Active(slot).guid, Nil}
      /\ want = [b \in Blocks |-> [s \in Sectors |-> ChainSector(bat[b], data, b, s)]]
  BY DEF MInit, Init
<1>2. MTypeOK /\ Places
  BY MInitTypes
<1>3. ChainKept
  BY <1>1 DEF ChainKept, ChainSector, Kept
<1>4. Durable
  <2>1. \A b \in Blocks : bat[b].off # 0 => bat[b].off \in Offsets
    BY <1>2 DEF MTypeOK, Entry, Offsets
  <2>2. ASSUME NEW b \in Kept, bat[b].off # 0, NEW d \in dmay[bat[b].off], NEW s \in Sectors,
               ~InChild(b, s)
        PROVE  SectorIn(bat[b], d, b, s) = want[b][s]
    <3>1. d = data[bat[b].off]
      BY <1>1, <2>1, <2>2 DEF Kept
    <3>2. ParentSector(bat[b], data, b, s) = want[b][s]
      BY <1>3, <2>2 DEF ChainKept
    <3> QED BY <3>1, <3>2, ParentSectorIn
  <2>3. \A b \in Blocks : bat[b].off <= len
    BY <1>2 DEF Places
  <2> QED BY <1>1, <2>2, <2>3 DEF Durable
<1>5. ~Gone
  BY <1>1 DEF Gone
<1> QED BY <1>1, <1>2, <1>3, <1>4, <1>5 DEF Lossless, Copied, GoneInv, PhaseInv

\* Steps that change neither the parent's BAT nor its blocks.
LEMMA ParentUntouched ==
    ASSUME UNCHANGED <<bat, bmay, data, dmay, len, lmay>>, UNCHANGED fixed,
           mbat' = mbat \/ mbat' = bat
    PROVE  /\ Places => Places'
           /\ Durable => Durable'
           /\ ChainKept => ChainKept'
           /\ Complete' <=> Complete
           /\ DataSynced' <=> DataSynced
           /\ \A e, b : Done(e, b)' <=> Done(e, b)
<1>0. child' = child /\ diff' = diff /\ want' = want /\ holes' = holes /\ linkage' = linkage
  BY DEF fixed
<1>1. Places => Places'
  BY DEF Places, Apart
<1>2. Durable => Durable'
  BY <1>0 DEF Durable, Kept, InChild, SectorIn, Below
<1>3. ChainKept => ChainKept'
  BY <1>0 DEF ChainKept, Kept, InChild, ChildSector, ParentSector, Below
<1>4. \A e, b : Done(e, b)' <=> Done(e, b)
  BY <1>0 DEF Done, ParentSector, Below
<1>5. Complete' <=> Complete
  BY <1>0 DEF Complete, Kept, Done, ParentSector, Below
<1>6. DataSynced' <=> DataSynced
  BY DEF DataSynced
<1> QED BY <1>1, <1>2, <1>3, <1>4, <1>5, <1>6

\* Pending header writes stay pending while more are made.
LEMMA PendingGrows ==
    ASSUME HeaderPending, \A i \in Slots : may[i] \subseteq may'[i]
    PROVE  HeaderPending'
BY DEF HeaderPending

\* What write_new can do to the outcomes.
LEMMA WriteGrows ==
    ASSUME TypeOK, NEW i \in Slots, NEW h \in Header, NEW n, Put(i, h, n) \/ Tear(i)
    PROVE  \A j \in Slots : may[j] \subseteq may'[j]
BY PutEffect, TearEffect DEF Slots

\* fsck's repair of a torn header keeps the guid a reader sees, also after
\* power losses that merge survives.
LEMMA FsckKeepsGuid ==
    ASSUME IInv, Fsck
    PROVE  /\ Active(slot').guid = Active(slot).guid
           /\ \A i \in Slots : may[i] \subseteq may'[i]
<1> DEFINE t == TargetIndex(slot)
           h == Successor(cur, cur.guid, cur.log)
<1>1. /\ TypeOK /\ slot \in [Slots -> Header] /\ t \in Slots /\ cur \in Header
      /\ cur.guid \in Guids \cup {Nil} /\ cur.log \in LogGuids \cup {Nil}
      /\ \A i \in Slots : i = t \/ i = 1 - t
  BY IndexType DEF IInv, TypeOK, Header, Slots
<1>2. /\ h \in Header /\ h.guid = cur.guid /\ h.ok
  BY <1>1, SuccessorType DEF Successor
<1>3. CASE FsckOpen \/ FsckNoLog
  BY <1>3 DEF FsckOpen, FsckNoLog
<1>4. CASE FsckRepair1
  <2>1. Put(t, h, "repair2") \/ Tear(t)
    BY <1>4 DEF FsckRepair1, WriteNew
  <2>2. Readable(slot) /\ ~BothValid(slot) /\ cur = Active(slot)
    BY <1>4 DEF FsckRepair1, IInv, Protocol, Fsck1
  <2>3. slot'[1 - t] = slot[1 - t] /\ (slot'[t] = h \/ slot'[t] = Torn)
    BY <1>1, <1>2, <2>1, PutEffect, TearEffect
  <2>4. Active(slot).guid = cur.guid /\ slot[1 - t] = cur
    BY <1>1, <2>2, TargetSparesActive
  <2>5. \A i \in Slots : slot'[i].ok => slot'[i].guid = cur.guid
    BY <1>1, <1>2, <2>3, <2>4 DEF Torn
  <2>6. slot'[1 - t].ok
    BY <1>1, <2>2, <2>3, TargetSparesActive
  <2>7. Readable(slot')
    BY <1>1, <2>6 DEF Readable, Slots
  <2>8. \E i \in Slots : Active(slot') = slot'[i] /\ slot'[i].ok
    BY <2>7 DEF Active, ActiveIndex, Readable, BothValid, Slots
  <2> QED BY <1>1, <1>2, <2>1, <2>4, <2>5, <2>8, WriteGrows
<1>5. CASE FsckRepair2
  <2>1. Put(t, h, "log") \/ Tear(t)
    BY <1>5 DEF FsckRepair2, WriteNew
  <2>2. PICK i \in Slots : slot[i] = cur /\ slot[1 - i] = h
    BY <1>5 DEF FsckRepair2, IInv, Protocol, Fsck2
  <2>3. cur.ok
    BY <1>5 DEF FsckRepair2, IInv, Protocol, Local
  <2>4. \A j \in Slots : slot[j].guid = cur.guid /\ slot[j].ok
    BY <1>2, <2>2, <2>3 DEF Slots
  <2>5. slot'[1 - t] = slot[1 - t] /\ (slot'[t] = h \/ slot'[t] = Torn)
    BY <1>1, <1>2, <2>1, PutEffect, TearEffect
  <2>6. \A j \in Slots : slot'[j].ok => slot'[j].guid = cur.guid
    BY <1>1, <1>2, <2>4, <2>5 DEF Torn
  <2>7. Readable(slot')
    BY <1>1, <2>4, <2>5 DEF Readable, Slots
  <2>8. \E j \in Slots : Active(slot') = slot'[j] /\ slot'[j].ok
    BY <2>7 DEF Active, ActiveIndex, Readable, BothValid, Slots
  <2>9. Active(slot).guid = cur.guid
    BY <1>1, <2>4, SameGuid
  <2> QED BY <1>1, <1>2, <2>1, <2>6, <2>8, <2>9, WriteGrows
<1> QED BY <1>3, <1>4, <1>5 DEF Fsck

\* What is read now is durable when nothing is pending.
LEMMA SyncedDurable == MTypeOK /\ Places /\ ChainKept /\ DataSynced => Durable
<1> SUFFICES ASSUME MTypeOK, Places, ChainKept, DataSynced PROVE Durable
  OBVIOUS
<1>1. \A b \in Blocks : bat[b].off # 0 => bat[b].off \in Offsets
  BY MergeAssumption DEF MTypeOK, Entry, Offsets
<1>2. ASSUME NEW b \in Kept, bat[b].off # 0, NEW d \in dmay[bat[b].off], NEW s \in Sectors,
             ~InChild(b, s)
      PROVE  SectorIn(bat[b], d, b, s) = want[b][s]
  <2>1. d = data[bat[b].off]
    BY <1>1, <1>2 DEF Kept, DataSynced
  <2>2. ParentSector(bat[b], data, b, s) = want[b][s]
    BY <1>2 DEF ChainKept
  <2> QED BY <2>1, <2>2, ParentSectorIn
<1>3. \A b \in Blocks : bat[b].off <= len
  BY DEF Places
<1> QED BY <1>2, <1>3 DEF Durable, DataSynced

\* Steps that leave the parent's BAT and blocks alone.
LEMMA QuietStep ==
    ASSUME IInv, MTypeOK, Steady, Lossless,
           \/ Fsck \/ OpenChain \/ SkipBlock \/ EndLoop \/ RemoveChild \/ Return \/ Stop
           \/ UNCHANGED mvars
    PROVE  Lossless'
<1> USE DEF Lossless
<1>0. BlockCount \in Nat \ {0} /\ Blocks = 0..(BlockCount - 1)
  BY MergeAssumption DEF Blocks
<1>1. /\ UNCHANGED <<bat, bmay, data, dmay, len, lmay>> /\ UNCHANGED fixed
      /\ mbat' = mbat \/ mbat' = bat
  BY DEF Fsck, OpenChain, SkipBlock, EndLoop, RemoveChild, Return, Stop, Reset, mvars, files, local
<1>2. /\ Places' /\ Durable' /\ ChainKept'
      /\ Complete' <=> Complete
      /\ DataSynced' <=> DataSynced
      /\ \A e, b : Done(e, b)' <=> Done(e, b)
      /\ linkage' = linkage /\ Kept' = Kept
  BY <1>1, ParentUntouched DEF fixed, Kept
<1>3. CASE Fsck
  <2>1. /\ here' = here
        /\ pc' \notin {"merge1", "merge2", "merge_sync", "merge_ok"}
    BY <1>3 DEF Fsck, files, FsckOpen, FsckRepair1, FsckRepair2, FsckNoLog, WriteNew, Put, Tear,
       Continue, End
  <2>2. Gone' => Gone
    BY <1>2, <1>3, <2>1, FsckKeepsGuid DEF Gone
  <2>3. HeaderPending => HeaderPending'
    BY <1>3, FsckKeepsGuid, PendingGrows
  <2>4. Copied' /\ GoneInv' /\ PhaseInv'
    BY <1>2, <2>1, <2>2, <2>3 DEF Copied, GoneInv, PhaseInv
  <2> QED BY <1>2, <2>4
<1>4. CASE OpenChain
  <2>1. /\ here /\ here' = here /\ pc' = "merge1" /\ slot' = slot /\ may' = may /\ blk' = 0
        /\ linkage # Nil => Active(slot).guid = linkage
    BY <1>4 DEF OpenChain, MergeOpen, files
  <2>2. ~Gone'
    BY <1>2, <2>1 DEF Gone
  <2>3. Copied'
    BY <1>0, <1>2, <2>1 DEF Copied, Kept
  <2>4. GoneInv' /\ PhaseInv'
    BY <2>1, <2>2 DEF GoneInv, PhaseInv
  <2> QED BY <1>2, <2>3, <2>4
<1>5. ASSUME here' = here, slot' = slot, may' = may
      PROVE  GoneInv' /\ (Gone' <=> Gone) /\ (HeaderPending' <=> HeaderPending)
  BY <1>2, <1>5 DEF GoneInv, Gone, HeaderPending
<1>6. CASE SkipBlock
  <2>1. /\ here' = here /\ slot' = slot /\ may' = may /\ pc' = pc /\ mbat' = mbat
        /\ pc = "merge1" /\ blk \in Blocks /\ blk' = blk + 1 /\ child[blk].kind = "absent"
        /\ mbat[blk] = bat[blk]
    BY <1>0, <1>6 DEF SkipBlock, Looping, files, vars, Steady, LoopInv, MTypeOK
  <2>2. blk \in Kept => Done(mbat[blk], blk)
    BY <2>1 DEF ChainKept, InChild, Done
  <2>3. \A b \in Kept : b < blk + 1 => b < blk \/ b = blk
    BY <1>0, <2>1 DEF Kept
  <2>4. Copied'
    BY <1>2, <2>1, <2>2, <2>3 DEF Copied
  <2> QED BY <1>2, <1>5, <2>1, <2>4 DEF PhaseInv
<1>7. CASE EndLoop \/ UNCHANGED mvars
  <2>1. UNCHANGED <<here, slot, may, pc, mbat, blk>>
    BY <1>7 DEF EndLoop, mvars, vars, files, local
  <2>2. Copied'
    BY <1>2, <2>1 DEF Copied
  <2> QED BY <1>2, <1>5, <2>1, <2>2 DEF PhaseInv
<1>8. CASE Return \/ Stop
  <2>1. UNCHANGED <<here, slot, may>> /\ pc' = "idle"
    BY <1>8 DEF Return, Stop, MergeReturn, Kill, End, files
  <2> QED BY <1>2, <1>5, <2>1 DEF PhaseInv, Copied
<1>9. CASE RemoveChild
  <2>1. pc = "merge_ok" /\ pc' = pc /\ Complete /\ DataSynced
    BY <1>9 DEF RemoveChild, PhaseInv, vars
  <2> QED BY <1>2, <2>1 DEF GoneInv, PhaseInv, Copied
<1> QED BY <1>3, <1>4, <1>6, <1>7, <1>8, <1>9

\* merge's header writes: the parent is complete, and the write is pending
\* unless it did not change the headers at all.
LEMMA WriteHeadersStep ==
    ASSUME IInv, MTypeOK, Steady, Lossless, WriteHeaders
    PROVE  Lossless'
<1> USE DEF Lossless
<1> DEFINE t == TargetIndex(slot)
           h == Successor(cur, new, Nil)
<1>1. /\ UNCHANGED <<bat, bmay, data, dmay, len, lmay, here>> /\ UNCHANGED fixed
      /\ mbat' = mbat \/ mbat' = bat
  BY DEF WriteHeaders, Reset, files, local
<1>2. /\ Places' /\ Durable' /\ ChainKept'
      /\ Complete' <=> Complete
      /\ linkage' = linkage
  BY <1>1, ParentUntouched DEF fixed
<1>3. /\ TypeOK /\ t \in Slots /\ h \in Header /\ h # Torn
      /\ slot \in [Slots -> Header] /\ slot[t] \in may[t]
  <2>1. t \in Slots /\ TypeOK /\ cur \in Header /\ new \in Guids \cup {Nil}
    BY IndexType DEF IInv, TypeOK
  <2>2. h \in Header /\ h.ok
    BY <2>1, SuccessorType DEF Successor
  <2>3. h # Torn
    BY <2>2 DEF Torn
  <2> QED BY <2>1, <2>2, <2>3 DEF IInv, NoRetired, TypeOK
<1>4. /\ pc \in {"merge1", "merge2"}
      /\ pc = "merge1" => step = "headers"
      /\ \/ \E n \in {"merge2", "merge_sync"} : Put(t, h, n)
         \/ Tear(t)
  BY DEF WriteHeaders, MergeWrite1, MergeWrite2, WriteNew
<1>5. here /\ Complete
  <2>1. CASE pc = "merge1"
    <3>1. bat = mbat /\ blk = BlockCount
      BY <1>4, <2>1 DEF Steady, LoopInv
    <3>2. \A b \in Kept : b < blk
      BY <3>1, MergeAssumption DEF Kept, Blocks
    <3> QED BY <2>1, <3>1, <3>2 DEF Copied, Complete, PhaseInv
  <2>2. CASE pc = "merge2"
    BY <2>2 DEF PhaseInv
  <2> QED BY <1>4, <2>1, <2>2
<1>6. ASSUME NEW n \in {"merge2", "merge_sync"}, Put(t, h, n)
      PROVE  HeaderPending' /\ pc' = n
  <2>1. may'[t] = may[t] \cup {h, Torn} /\ pc' = n
    BY <1>3, <1>6, PutEffect
  <2> QED BY <1>3, <2>1 DEF HeaderPending
<1>7. ASSUME Tear(t) PROVE pc' = "idle" /\ (HeaderPending' \/ ~Gone')
  <2>1. /\ may'[t] = may[t] \cup {Torn} /\ pc' = "idle"
        /\ slot'[t] = Torn /\ slot'[1 - t] = slot[1 - t]
    BY <1>3, <1>7, TearEffect
  <2>2. CASE pc = "merge2"
    BY <1>3, <1>7, <2>1, <2>2, WriteGrows, PendingGrows DEF PhaseInv
  <2>3. CASE pc = "merge1" /\ slot[t] # Torn
    BY <1>3, <2>1, <2>3 DEF HeaderPending
  <2>4. CASE pc = "merge1" /\ slot[t] = Torn
    <3>1. slot'[0] = slot[0] /\ slot'[1] = slot[1]
      BY <1>3, <2>1, <2>4 DEF Slots
    <3>2. Active(slot').guid = Active(slot).guid
      BY <3>1 DEF Active, ActiveIndex, BothValid
    <3> QED BY <1>1, <1>2, <2>1, <2>4, <3>2 DEF PhaseInv, Gone
  <2> QED BY <1>4, <2>1, <2>2, <2>3, <2>4
<1>8. GoneInv'
  BY <1>2, <1>4, <1>5, <1>6, <1>7 DEF GoneInv
<1>9. PhaseInv' /\ Copied'
  BY <1>1, <1>2, <1>4, <1>5, <1>6, <1>7 DEF PhaseInv, Copied
<1> QED BY <1>2, <1>8, <1>9

\* sync_all, and the kernel's own write-back between two runs.
LEMMA SyncStep ==
    ASSUME MTypeOK, MTypeOK', Lossless, SyncParent \/ Settle
    PROVE  Lossless'
<1> USE DEF Lossless
<1>1. /\ UNCHANGED <<bat, data, len, here, slot, mbat>> /\ UNCHANGED fixed
      /\ ParentSynced
      /\ \/ pc = "merge_sync" /\ pc' = "merge_ok"
         \/ pc = "idle" /\ pc' = "idle"
  BY DEF SyncParent, Settle, MergeSync, Writeback, Continue, local
<1>2. DataSynced'
  BY <1>1 DEF ParentSynced, DataSynced
<1>3. Places' /\ ChainKept' /\ (Complete' <=> Complete) /\ (Gone' <=> Gone)
  BY <1>1 DEF Places, Apart, ChainKept, Complete, Done, Gone, Kept, InChild, ChildSector,
     ParentSector, Below, fixed
<1>4. Durable'
  BY <1>2, <1>3, SyncedDurable, PTL
<1>5. Copied' /\ GoneInv' /\ PhaseInv'
  BY <1>1, <1>2, <1>3 DEF Copied, GoneInv, PhaseInv
<1> QED BY <1>3, <1>4, <1>5

\* A power loss with nothing pending but blocks and the length: what the
\* BAT on disk names is inside the file and as good as it was.
LEMMA BlackoutStep ==
    ASSUME IInv, MTypeOK, MTypeOK', Steady, Lossless, Blackout, ~Unsynced
    PROVE  Lossless'
<1> USE DEF Lossless
<1>1. /\ \A b \in Blocks : bmay[b] = {bat[b]}
      /\ \A i \in Slots : may[i] = {slot[i]}
  BY DEF Unsynced
<1>2. /\ \A b \in Blocks : bat'[b] = bat[b] /\ bmay'[b] = {bat'[b]}
      /\ len' \in lmay /\ lmay' = {len'} /\ here' \in cmay
      /\ \A o \in Offsets : (o <= len' => data'[o] \in dmay[o]) /\ dmay'[o] = {data'[o]}
      /\ mbat' = bat' /\ pc' = "idle" /\ UNCHANGED fixed
  BY <1>1 DEF Blackout, PowerLoss, End, Reset
<1>3. Active(slot').guid = Active(slot).guid
  <2>1. slot'[0] = slot[0] /\ slot'[1] = slot[1]
    BY <1>1 DEF Blackout, PowerLoss, Outcomes, Slots
  <2> QED BY <2>1 DEF Active, ActiveIndex, BothValid
<1>4. /\ child' = child /\ diff' = diff /\ want' = want /\ Kept' = Kept /\ linkage' = linkage
      /\ \A b, s : InChild(b, s)' <=> InChild(b, s)
      /\ \A b : ChildSector(b)' = ChildSector(b)
      /\ \A e, d, b, s : ParentSector(e, d, b, s)' = ParentSector(e, d, b, s)
  BY <1>2 DEF fixed, Kept, InChild, ChildSector, ParentSector, Below
<1>5. ASSUME NEW b \in Blocks
      PROVE  /\ bat[b].off <= len' /\ GoodEntry(b, bat[b])
             /\ bat[b].off # 0 => data'[bat[b].off] \in dmay[bat[b].off]
  <2>1. bat[b].off <= len' /\ GoodEntry(b, bat[b])
    BY <1>1, <1>2 DEF Durable, Steady, EntryInv
  <2>2. bat[b].off # 0 => bat[b].off \in Offsets
    BY MergeAssumption DEF MTypeOK, Entry, Offsets
  <2> QED BY <1>2, <2>1, <2>2
<1>6. Places'
  BY <1>2, <1>5 DEF Places, Apart
<1>7. ASSUME NEW b \in Kept, NEW s \in Sectors, ~InChild(b, s)
      PROVE  ParentSector(bat[b], data', b, s) = want[b][s]
  <2>1. b \in Blocks /\ ParentSector(bat[b], data, b, s) = want[b][s]
    BY <1>7 DEF ChainKept, Kept
  <2>2. CASE bat[b].off = 0
    BY <1>5, <2>1, <2>2, ParentSectorIn, NoOffset
  <2>3. CASE bat[b].off # 0
    BY <1>1, <1>5, <1>7, <2>1, <2>3, ParentSectorIn DEF Durable
  <2> QED BY <2>2, <2>3
<1>8. ChainKept'
  BY <1>2, <1>4, <1>7 DEF ChainKept, Kept
<1>9. DataSynced'
  BY <1>2 DEF DataSynced
<1>10. Durable'
  BY <1>6, <1>8, <1>9, SyncedDurable, PTL
<1>11. Gone' => Gone /\ (~here' => ~here)
  BY <1>2, <1>3, <1>4 DEF Gone, Steady, MayInv, MTypeOK
<1>12. Gone => Complete /\ DataSynced
  <2>1. ~HeaderPending
    BY <1>1 DEF HeaderPending
  <2> QED BY <2>1 DEF GoneInv
<1>13. Gone => Complete'
  <2> SUFFICES ASSUME Gone, NEW b \in Kept, NEW s \in Sectors
               PROVE  ParentSector(bat[b], data', b, s) = want[b][s]
    BY <1>2, <1>4 DEF Complete, Done, Kept
  <2>1. b \in Blocks /\ ParentSector(bat[b], data, b, s) = want[b][s]
    BY <1>12 DEF Complete, Done, Kept
  <2>2. CASE bat[b].off = 0
    BY <1>5, <2>1, <2>2, ParentSectorIn, NoOffset
  <2>3. CASE bat[b].off # 0
    <3>1. bat[b].off \in Offsets
      BY <2>1, <2>3, MergeAssumption DEF MTypeOK, Entry, Offsets
    <3>2. data'[bat[b].off] = data[bat[b].off]
      BY <1>5, <1>12, <2>1, <2>3, <3>1 DEF DataSynced
    <3> QED BY <2>1, <3>2, ParentSectorIn
  <2> QED BY <2>2, <2>3
<1>14. Copied' /\ GoneInv' /\ PhaseInv'
  BY <1>2, <1>9, <1>11, <1>13 DEF Copied, GoneInv, PhaseInv, Gone
<1> QED BY <1>6, <1>8, <1>10, <1>14

\* The BAT write, complete or cut short: each entry is the old one or one
\* whose block is complete.
LEMMA WriteBatStep ==
    ASSUME MTypeOK, Steady, Lossless, WriteBat
    PROVE  Lossless'
<1> USE DEF Lossless
<1>1. PICK n \in 0..BlockCount :
         /\ bat' = [b \in Blocks |-> IF b < n THEN mbat[b] ELSE bat[b]]
         /\ \/ UNCHANGED <<slot, pc, blk, mbat>>
            \/ UNCHANGED slot /\ pc' = "idle" /\ mbat' = bat'
  BY DEF WriteBat, Kill, End, Reset, vars
<1>2. /\ \A b \in Blocks : bmay'[b] = bmay[b] \cup {bat'[b]}
      /\ UNCHANGED <<data, dmay, len, lmay, here>> /\ UNCHANGED fixed
      /\ pc = "merge1" /\ blk = BlockCount
  BY DEF WriteBat, Steady, LoopInv
<1>3. \A b \in Blocks : bat'[b] = bat[b] \/ bat'[b] = mbat[b]
  BY <1>1
<1>4. /\ child' = child /\ diff' = diff /\ want' = want /\ Kept' = Kept /\ linkage' = linkage
      /\ \A b, s : InChild(b, s)' <=> InChild(b, s)
      /\ \A b : ChildSector(b)' = ChildSector(b)
      /\ \A e, d, b, s : ParentSector(e, d, b, s)' = ParentSector(e, d, b, s)
      /\ \A e, d, b, s : SectorIn(e, d, b, s)' = SectorIn(e, d, b, s)
  BY <1>2 DEF fixed, Kept, InChild, ChildSector, ParentSector, SectorIn, Below
<1>5. \A b \in Kept : b \in Blocks /\ Done(mbat[b], b)
  BY <1>2, MergeAssumption DEF Copied, Kept, Blocks
<1>6. Places'
  <2>1. \A a \in Blocks : bat'[a].off <= len /\ (mbat'[a] = mbat[a] \/ mbat'[a] = bat'[a])
    BY <1>1, <1>3 DEF Places
  <2>2. \A a \in Blocks : mbat'[a] = bat[a] \/ mbat'[a] = mbat[a]
    BY <1>3, <2>1
  <2>3. \A a \in Blocks : \A b \in Blocks \ {a} :
           \A e \in {bat[a], mbat[a]}, f \in {bat[b], mbat[b]} : Apart(e, f)
    BY DEF Places
  <2>4. \A a \in Blocks : \A b \in Blocks \ {a} :
           /\ Apart(bat'[a], bat'[b]) /\ Apart(mbat'[a], mbat'[b])
           /\ Apart(bat'[a], mbat'[b]) /\ Apart(mbat'[a], bat'[b])
    BY <1>3, <2>2, <2>3
  <2>5. \A a \in Blocks : mbat'[a].off <= len
    BY <2>1 DEF Places
  <2> QED BY <1>2, <2>1, <2>4, <2>5 DEF Places, Apart
<1>7. ChainKept'
  BY <1>2, <1>3, <1>4, <1>5 DEF ChainKept, Done
<1>8. Durable'
  <2> SUFFICES ASSUME NEW b \in Blocks, bmay'[b] = {bat'[b]}
               PROVE  /\ \A l \in lmay : bat'[b].off <= l
                      /\ b \in Kept /\ bat'[b].off # 0 =>
                            \A d \in dmay[bat'[b].off], s \in Sectors :
                                ~InChild(b, s) => SectorIn(bat'[b], d, b, s) = want[b][s]
    BY <1>2, <1>4 DEF Durable
  <2>1. bat'[b] = bat[b] /\ bmay[b] = {bat[b]}
    BY <1>2 DEF Steady, MayInv
  <2> QED BY <2>1 DEF Durable
<1>9. Copied'
  BY <1>1, <1>2, <1>4 DEF Copied, Done
<1>10. ~Gone' /\ here'
  BY <1>1, <1>2, <1>4 DEF PhaseInv, Gone
<1>11. GoneInv' /\ PhaseInv'
  BY <1>1, <1>2, <1>10 DEF GoneInv, PhaseInv
<1> QED BY <1>6, <1>7, <1>8, <1>9, <1>11

\* Copying one block, complete or cut short: a block of the parent is only
\* overwritten in the sectors the child covers, and a new one is one nobody
\* refers to.
LEMMA CopyStep ==
    ASSUME MTypeOK, Steady, Lossless, CopyBlock
    PROVE  Lossless'
<1> USE DEF Lossless
<1> DEFINE off == BlockOffset(blk)
           N == NewBlock(blk)
           new1 == [state |-> "full", bits |-> {}, off |-> off]
           mixed(old, w) == [s \in Sectors |-> IF s \in w THEN N[s] ELSE old[s]]
<1>0. /\ BlockCount \in Nat \ {0} /\ Blocks = 0..(BlockCount - 1) /\ MaxLen \in Nat
      /\ len \in Nat /\ lmay \subseteq Nat
  BY MergeAssumption DEF Blocks, MTypeOK
<1>1. /\ pc = "merge1" /\ step = "loop" /\ blk \in Blocks /\ off <= MaxLen
      /\ child[blk].kind \in {"full", "partial"}
      /\ mbat[blk] = bat[blk] /\ GoodEntry(blk, bat[blk])
  <2>1. pc = "merge1" /\ step = "loop" /\ blk \in Blocks /\ off <= MaxLen /\ child[blk].kind # "absent"
    BY <1>0 DEF CopyBlock, Looping, MTypeOK
  <2>2. child[blk].kind \in {"full", "partial"}
    BY <2>1 DEF MTypeOK, BlockRead
  <2>3. mbat[blk] = bat[blk]
    BY <1>0, <2>1 DEF Steady, LoopInv
  <2> QED BY <2>1, <2>2, <2>3 DEF Steady, EntryInv
<1>2. /\ off \in Offsets /\ off # 0 /\ N \in [Sectors -> Values]
  BY <1>1, CopyTypes DEF Offsets
<1>3. /\ UNCHANGED <<bat, bmay, here, slot>> /\ UNCHANGED fixed
      /\ dmay'[off] = {mixed(old, w) : old \in dmay[off], w \in SUBSET Sectors}
      /\ \A o \in Offsets \ {off} : dmay'[o] = dmay[o]
      /\ len' = (IF off > len THEN off ELSE len) /\ lmay' = lmay \cup {len'}
  BY <1>2 DEF CopyBlock, vars, Kill, MTypeOK
<1>4. /\ \A o \in Offsets \ {off} : data'[o] = data[o]
      /\ \/ /\ data'[off] = N /\ mbat' = [mbat EXCEPT ![blk] = new1]
            /\ blk' = blk + 1 /\ pc' = pc
         \/ /\ \E w \in SUBSET Sectors : data'[off] = mixed(data[off], w)
            /\ mbat' = bat /\ pc' = "idle"
  BY <1>2 DEF CopyBlock, vars, Kill, End, Reset, MTypeOK
<1>5. /\ child' = child /\ diff' = diff /\ want' = want /\ Kept' = Kept /\ linkage' = linkage
      /\ \A b, s : InChild(b, s)' <=> InChild(b, s)
      /\ \A b : ChildSector(b)' = ChildSector(b)
      /\ \A e, d, b, s : ParentSector(e, d, b, s)' = ParentSector(e, d, b, s)
      /\ \A e, d, b, s : SectorIn(e, d, b, s)' = SectorIn(e, d, b, s)
  BY <1>3 DEF fixed, Kept, InChild, ChildSector, ParentSector, SectorIn, Below
<1>6. /\ InPlace(bat[blk]) => off = bat[blk].off /\ bat[blk].state = "full"
      /\ ~InPlace(bat[blk]) => off = len + 1 /\ bat[blk].state # "full"
  BY <1>1 DEF BlockOffset, InPlace, GoodEntry
<1>7. \A b \in Blocks : bat[b].off \in Nat /\ mbat[b].off \in Nat
  BY MergeAssumption DEF MTypeOK, Entry
<1>8. ASSUME NEW b \in Blocks, b # blk PROVE bat[b].off # off /\ mbat[b].off # off
  <2>1. CASE InPlace(bat[blk])
    BY <1>1, <1>2, <1>6, <1>8, <2>1 DEF Places, Apart
  <2>2. CASE ~InPlace(bat[blk])
    BY <1>0, <1>6, <1>7, <1>8, <2>2 DEF Places
  <2> QED BY <2>1, <2>2
<1>9. ~InPlace(bat[blk]) => bat[blk].off # off
  BY <1>0, <1>1, <1>6, <1>7 DEF Places
<1>10. \A s \in Sectors : N[s] = IF InChild(blk, s) THEN ChildSector(blk)
                                 ELSE IF InPlace(bat[blk]) THEN data[off][s] ELSE Zero
  BY <1>1, <1>6 DEF NewBlock
<1>11. \A s \in Sectors : data'[off][s] = N[s] \/ data'[off][s] = data[off][s]
  BY <1>4
<1> HIDE DEF off, N, mixed
<1>12. ASSUME NEW b \in Blocks, NEW e \in {bat[b], mbat[b]}, e.off # off, NEW s
       PROVE  ParentSector(e, data', b, s) = ParentSector(e, data, b, s)
  <2>0. GoodEntry(b, e) /\ e \in Entry
    BY DEF Steady, MayInv, EntryInv, MTypeOK
  <2>1. CASE e.off = 0
    BY <2>0, <2>1, ParentSectorIn, NoOffset
  <2>2. CASE e.off # 0
    <3>1. e.off \in Offsets \ {off}
      BY <1>0, <1>12, <2>0, <2>2 DEF Entry, Offsets
    <3> QED BY <1>4, <3>1, ParentSectorIn
  <2> QED BY <2>1, <2>2
<1>13. Places'
  <2>1. len <= len' /\ off <= len' /\ len' \in Nat
    BY <1>0, <1>2, <1>3 DEF Offsets
  <2>2. \A a \in Blocks : /\ bat'[a] = bat[a]
                          /\ \/ mbat'[a] = mbat[a] \/ mbat'[a] = bat[a]
                             \/ a = blk /\ mbat'[a] = new1
    BY <1>3, <1>4 DEF MTypeOK
  <2>3. new1.off = off
    OBVIOUS
  <2> HIDE DEF new1
  <2>4. \A a \in Blocks : bat[a].off <= len' /\ mbat'[a].off <= len'
    BY <1>0, <1>7, <2>1, <2>2, <2>3 DEF Places
  <2>5. \A a \in Blocks : \A b \in Blocks \ {a} :
           \A e \in {bat[a], mbat[a]}, f \in {bat[b], mbat[b]} : Apart(e, f)
    BY DEF Places
  <2>6. \A b \in Blocks \ {blk} : \A e \in {bat[b], mbat[b]} : Apart(e, new1) /\ Apart(new1, e)
    BY <1>8, <2>3 DEF Apart
  <2>7. \A a \in Blocks : \A b \in Blocks \ {a} :
           /\ Apart(bat[a], bat[b]) /\ Apart(mbat'[a], mbat'[b])
           /\ Apart(bat[a], mbat'[b]) /\ Apart(mbat'[a], bat[b])
    BY <2>2, <2>5, <2>6
  <2> QED BY <1>3, <2>4, <2>7 DEF Places, Apart
<1>14. ASSUME NEW b \in Kept, NEW s \in Sectors, ~InChild(b, s)
       PROVE  ParentSector(bat[b], data', b, s) = want[b][s]
  <2>1. b \in Blocks /\ ParentSector(bat[b], data, b, s) = want[b][s]
    BY <1>14 DEF ChainKept, Kept
  <2>2. CASE bat[b].off # off
    BY <1>12, <2>1, <2>2
  <2>3. CASE bat[b].off = off
    <3>1. b = blk /\ InPlace(bat[blk]) /\ bat[b].state = "full"
      BY <1>6, <1>8, <1>9, <2>1, <2>3
    <3>2. N[s] = data[off][s]
      BY <1>10, <1>14, <3>1
    <3>3. data'[off][s] = data[off][s]
      BY <1>11, <3>2
    <3> QED BY <2>1, <2>3, <3>1, <3>3 DEF ParentSector
  <2> QED BY <2>2, <2>3
<1>15. ChainKept'
  BY <1>3, <1>5, <1>14 DEF ChainKept
<1>16. Durable'
  <2> SUFFICES ASSUME NEW b \in Blocks, bmay[b] = {bat[b]}
               PROVE  /\ \A l \in lmay' : bat[b].off <= l
                      /\ b \in Kept /\ bat[b].off # 0 =>
                            \A d \in dmay'[bat[b].off], s \in Sectors :
                                ~InChild(b, s) => SectorIn(bat[b], d, b, s) = want[b][s]
    BY <1>3, <1>5 DEF Durable
  <2>1. \A l \in lmay' : bat[b].off <= l
    <3>1. bat[b].off <= len /\ len <= len'
      BY <1>0, <1>2, <1>3 DEF Places, Offsets
    <3>2. bat[b].off <= len'
      BY <1>0, <1>2, <1>3, <1>7, <3>1 DEF Offsets
    <3> QED BY <1>3, <3>2 DEF Durable
  <2>2. ASSUME b \in Kept, bat[b].off # 0, NEW d \in dmay'[bat[b].off], NEW s \in Sectors,
               ~InChild(b, s)
        PROVE  SectorIn(bat[b], d, b, s) = want[b][s]
    <3>0. bat[b].off \in Offsets
      BY <2>2, MergeAssumption DEF MTypeOK, Entry, Offsets
    <3>1. CASE bat[b].off # off
      BY <1>3, <2>2, <3>0, <3>1 DEF Durable
    <3>2. CASE bat[b].off = off
      <4>1. b = blk /\ InPlace(bat[blk]) /\ bat[b].state = "full"
        BY <1>6, <1>8, <1>9, <3>2
      <4>2. PICK old \in dmay[off], w \in SUBSET Sectors : d = mixed(old, w)
        BY <1>3, <2>2, <3>2
      <4>3. d[s] = N[s] \/ d[s] = old[s]
        BY <4>2 DEF mixed
      <4>4. N[s] = want[b][s]
        <5>1. ParentSector(bat[b], data, b, s) = want[b][s]
          BY <2>2 DEF ChainKept
        <5> QED BY <1>10, <2>2, <3>2, <4>1, <5>1 DEF ParentSector
      <4>5. old[s] = want[b][s]
        BY <2>2, <3>2, <4>1, <4>2 DEF Durable, SectorIn
      <4> QED BY <4>1, <4>3, <4>4, <4>5 DEF SectorIn
    <3> QED BY <3>1, <3>2
  <2> QED BY <2>1, <2>2
<1>17. Copied'
  <2> SUFFICES ASSUME pc' = "merge1", NEW b \in Kept, b < blk', NEW s \in Sectors
               PROVE  ParentSector(mbat'[b], data', b, s) = want[b][s]
    BY <1>5 DEF Copied, Done
  <2>1. data'[off] = N /\ mbat' = [mbat EXCEPT ![blk] = new1] /\ blk' = blk + 1
    BY <1>4
  <2>2. b \in Blocks
    BY DEF Kept
  <2>3. CASE b # blk
    <3>1. b < blk /\ mbat'[b] = mbat[b]
      BY <1>0, <1>1, <2>1, <2>2, <2>3 DEF MTypeOK
    <3>2. ParentSector(mbat[b], data, b, s) = want[b][s]
      BY <1>1, <3>1 DEF Copied, Done
    <3> QED BY <1>8, <1>12, <2>2, <2>3, <3>1, <3>2
  <2>4. CASE b = blk
    <3>1. mbat'[b] = new1 /\ new1.state = "full" /\ new1.off = off
      BY <2>1, <2>2, <2>4 DEF MTypeOK
    <3>2. ParentSector(mbat'[b], data', b, s) = N[s]
      BY <2>1, <3>1 DEF ParentSector
    <3>3. CASE InChild(b, s)
      BY <1>10, <2>4, <3>2, <3>3 DEF ChainKept
    <3>4. CASE ~InChild(b, s)
      <4>1. ParentSector(bat[b], data, b, s) = want[b][s]
        BY <3>4 DEF ChainKept
      <4>2. CASE InPlace(bat[blk])
        BY <1>6, <1>10, <2>4, <3>2, <3>4, <4>1, <4>2 DEF ParentSector
      <4>3. CASE ~InPlace(bat[blk])
        <5>1. child[b].kind = "partial"
          BY <1>1, <2>4, <3>4 DEF InChild
        <5>2. bat[b].state = "zero" \/ (bat[b].state = "absent" /\ ~diff)
          BY <1>1, <1>6, <2>4, <4>3, <5>1 DEF GoodEntry
        <5>3. want[b][s] = Zero
          BY <4>1, <5>2 DEF ParentSector, Below
        <5> QED BY <1>10, <2>4, <3>2, <3>4, <4>3, <5>3
      <4> QED BY <4>2, <4>3
    <3> QED BY <3>3, <3>4
  <2> QED BY <2>3, <2>4
<1>18. ~Gone' /\ here'
  BY <1>1, <1>3, <1>5 DEF PhaseInv, Gone
<1>19. GoneInv' /\ PhaseInv'
  BY <1>1, <1>4, <1>18 DEF GoneInv, PhaseInv
<1> QED BY <1>13, <1>15, <1>16, <1>17, <1>19

-----------------------------------------------------------------------------
(* The results.                                                            *)

\* The invariant holds in every reachable state.
LEMMA MInductive == MSpec => []MInv
<1>1. MInit /\ TypeOK => MInv
  BY SteadyInit, LosslessInit DEF MInv
<1>2. ASSUME IInv, MTypeOK, MTypeOK', MInv, [MNext]_mvars PROVE MInv'
  <2>1. Steady'
    BY <1>2, SteadyStep DEF MInv
  <2>2. ASSUME ~hit' PROVE Lossless'
    <3>1. CASE Blackout
      <4>1. ~hit /\ ~Unsynced
        BY <2>2, <3>1 DEF Blackout
      <4> QED BY <1>2, <3>1, <4>1, BlackoutStep DEF MInv
    <3>2. CASE ~Blackout
      <4>1. hit' = hit
        <5>1. CASE Fsck \/ OpenChain \/ SkipBlock \/ EndLoop
          BY <5>1 DEF Fsck, OpenChain, SkipBlock, EndLoop
        <5>2. CASE CopyBlock
          BY <5>2 DEF CopyBlock
        <5>3. CASE WriteBat
          BY <5>3 DEF WriteBat
        <5>4. CASE WriteHeaders \/ SyncParent \/ RemoveChild
          BY <5>4 DEF WriteHeaders, SyncParent, RemoveChild
        <5>5. CASE Return \/ Stop \/ Settle
          BY <5>5 DEF Return, Stop, Settle
        <5>6. CASE UNCHANGED mvars
          BY <5>6 DEF mvars
        <5> QED BY <1>2, <3>2, <5>1, <5>2, <5>3, <5>4, <5>5, <5>6 DEF MNext
      <4>2. Lossless /\ Steady
        BY <1>2, <2>2, <4>1 DEF MInv
      <4> QED BY <1>2, <3>2, <4>2, QuietStep, CopyStep, WriteBatStep, WriteHeadersStep, SyncStep DEF MNext
    <3> QED BY <3>1, <3>2
  <2> QED BY <2>1, <2>2 DEF MInv
<1>3. IInv /\ MTypeOK /\ MTypeOK' /\ MInv /\ [MNext]_mvars => MInv'
  BY <1>2
<1> QED
  BY <1>1, <1>3, MTypeCorrect, MergeImplementsHeaderPair, TypeCorrect, Inductive, PTL DEF MSpec

\* No kill, no power loss that leaves the BAT and header writes whole and no
\* number of reruns loses a sector of the chain.
THEOREM MergeLosesNothing == MSpec => []NothingLost
<1>1. MInv => NothingLost
  <2> SUFFICES ASSUME MInv, ~hit, NEW b \in Kept, NEW s \in Sectors
               PROVE  IF Attached THEN ChainSector(bat[b], data, b, s) = want[b][s]
                                  ELSE ParentSector(bat[b], data, b, s) = want[b][s]
    BY DEF NothingLost, Preserved, Kept
  <2>1. CASE Attached
    BY <2>1 DEF MInv, Lossless, ChainKept, ChainSector
  <2>2. CASE ~Attached
    <3>1. Gone
      BY <2>2 DEF Attached, Gone
    <3> QED BY <2>2, <3>1 DEF MInv, Lossless, GoneInv, Complete, Done
  <2> QED BY <2>1, <2>2
<1> QED BY <1>1, MInductive, PTL

\* The child can be missing after a power loss only when all of its data is
\* in the parent for good.
THEOREM ChildRemovedLast == MSpec => []RemovedOnlyWhenDurable
<1>1. MInv /\ MTypeOK => RemovedOnlyWhenDurable
  <2> SUFFICES ASSUME MInv, MTypeOK, ~hit, FALSE \in cmay, NEW b \in Kept, NEW s \in Sectors,
                      NEW e \in bmay[b]
               PROVE  IF e.off = 0 THEN ParentSector(e, data, b, s) = want[b][s]
                      ELSE /\ \A l \in lmay : e.off <= l
                           /\ \A d \in dmay[e.off] :
                                 ParentSector(e, [data EXCEPT ![e.off] = d], b, s) = want[b][s]
    BY DEF RemovedOnlyWhenDurable, Kept
  <2>1. Complete /\ DataSynced /\ b \in Blocks
    BY DEF MInv, Steady, MayInv, Lossless, PhaseInv, Kept
  <2>2. e = bat[b] /\ ParentSector(e, data, b, s) = want[b][s]
    BY <2>1 DEF DataSynced, Complete, Done
  <2>3. CASE e.off # 0
    <3>1. e.off \in Offsets /\ e.off <= len
      BY <2>1, <2>2, <2>3, MergeAssumption DEF MInv, Lossless, Places, MTypeOK, Entry, Offsets
    <3>2. \A d \in dmay[e.off] : [data EXCEPT ![e.off] = d] = data
      BY <2>1, <3>1 DEF DataSynced, MTypeOK
    <3> QED BY <2>1, <2>2, <2>3, <3>1, <3>2 DEF DataSynced
  <2> QED BY <2>2, <2>3
<1> QED BY <1>1, MInductive, MTypeCorrect, PTL

\* No two blocks ever share a place in the parent, whatever crashes and
\* reruns left behind.
THEOREM BlocksApart == MSpec => []NoSharedBlock
<1>1. MInv => NoSharedBlock
  BY DEF MInv, Lossless, Places, Apart, NoSharedBlock
<1> QED BY <1>1, MInductive, PTL
=============================================================================
