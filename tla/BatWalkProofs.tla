--------------------------- MODULE BatWalkProofs ---------------------------
(***************************************************************************)
(* Proofs about fsck's pass over the BAT, for every chunk ratio, number of *)
(* blocks and length of table.                                             *)
(***************************************************************************)
EXTENDS BatWalk, WriterProofs

-----------------------------------------------------------------------------
(* The pass over the table.                                                *)

\* Where the loop stands: in chunk q, with q bitmaps behind it.
AtChunk(q) == /\ block_no = q * ratio + chunk_payload_count
              /\ next = q * (ratio + 1) + chunk_payload_count

WInv == /\ BTypeOK
        /\ entries \in Seq(BatEntries)
        /\ \E q \in Nat : AtChunk(q)
        /\ issues = {b \in 0..MaxEntries : b < block_no /\ Unusable(payload_entry(b))}

\* The blocks fsck has counted are the blocks whose entries it has passed,
\* and within a chunk the next entry is that of the next block.
LEMMA Passed ==
    ASSUME ratio \in Nat \ {0}, chunk_payload_count \in 0..ratio, NEW q \in Nat, AtChunk(q)
    PROVE  /\ block_no \in Nat /\ next \in Nat /\ block_no <= next
           /\ \A b \in Nat : payload_index(b, ratio) < next <=> b < block_no
           /\ chunk_payload_count < ratio => payload_index(block_no, ratio) = next
<1> DEFINE c == chunk_payload_count
<1>1. q * ratio \in Nat /\ q * (ratio + 1) \in Nat /\ q * (ratio + 1) = q * ratio + q
  OBVIOUS
<1>2. block_no \in Nat /\ next \in Nat /\ block_no <= next
  BY <1>1 DEF AtChunk
<1>3. ASSUME NEW b \in Nat PROVE payload_index(b, ratio) < next <=> b < block_no
  <2>p1. PICK p, m : Place(b, ratio, p, m)
    BY Placement
  <2>1. /\ p \in Nat /\ m \in 0..(ratio - 1)
        /\ b = p * ratio + m /\ payload_index(b, ratio) = p * (ratio + 1) + m
        /\ p * ratio \in Nat /\ p * (ratio + 1) \in Nat
    BY <2>p1 DEF Place
  <2>2. CASE p < q
    <3>1. p * ratio + ratio <= q * ratio /\ p * (ratio + 1) + (ratio + 1) <= q * (ratio + 1)
      BY <2>1, <2>2, LaterChunk
    <3> QED BY <1>1, <2>1, <3>1 DEF AtChunk
  <2>3. CASE p = q
    BY <1>1, <2>1, <2>3 DEF AtChunk
  <2>4. CASE q < p
    <3>1. q * ratio + ratio <= p * ratio /\ q * (ratio + 1) + (ratio + 1) <= p * (ratio + 1)
      BY <2>1, <2>4, LaterChunk
    <3> QED BY <1>1, <2>1, <3>1 DEF AtChunk
  <2> QED BY <2>1, <2>2, <2>3, <2>4
<1>4. ASSUME c < ratio PROVE payload_index(block_no, ratio) = next
  <2>p1. PICK p, m : Place(block_no, ratio, p, m)
    BY <1>2, Placement
  <2>1. /\ p \in Nat /\ m \in 0..(ratio - 1)
        /\ block_no = p * ratio + m /\ payload_index(block_no, ratio) = p * (ratio + 1) + m
    BY <2>p1 DEF Place
  <2>2. p = q /\ m = c
    <3>1. c \in 0..(ratio - 1) /\ ratio \in Nat /\ p * ratio + m = q * ratio + c
      BY <1>4, <2>1 DEF AtChunk
    <3> QED BY <2>1, <3>1, OnePlace
  <2> QED BY <2>1, <2>2 DEF AtChunk
<1> QED BY <1>2, <1>3, <1>4

\* The loop starts in chunk 0 of a table that fits its bound.
LEMMA WInit == ASSUME BInit PROVE WInv
<1>1. PICK n \in 0..MaxEntries : entries \in [1..n -> BatEntries]
  <2>1. PICK region \in 0..MaxEntries :
           /\ total_bat_entries(count, ratio, has_parent) <= MaxEntries
           /\ entries \in [1..Parsed(total_bat_entries(count, ratio, has_parent), region) -> BatEntries]
    BY DEF BInit
  <2>2. total_bat_entries(count, ratio, has_parent) \in Nat
    <3>1. ratio \in Nat \ {0} /\ count \in Nat
      BY BatAssumption DEF BInit
    <3>2. CASE count = 0
      BY <3>2 DEF total_bat_entries
    <3>3. CASE count # 0
      <4>0. count - 1 \in Nat
        BY <3>1, <3>3
      <4>1. (count - 1) \div ratio \in Nat /\ (count - 1) % ratio \in Nat
        <5> DEFINE d == count - 1
        <5> HIDE DEF d
        <5>1. d \in Nat
          BY <4>0 DEF d
        <5>2. d \div ratio \in Nat /\ d % ratio \in 0..(ratio - 1)
          BY <3>1, <5>1, DivMod
        <5> QED BY <3>1, <5>2 DEF d
      <4> QED BY <3>1, <3>3, <4>1 DEF total_bat_entries
    <3> QED BY <3>2, <3>3
  <2> QED BY <2>1, <2>2, BatAssumption DEF Parsed
<1>2. entries \in Seq(BatEntries) /\ Len(entries) = n
  BY <1>1, BatAssumption
<1>3. ratio \in Nat \ {0} /\ count \in Counts /\ has_parent \in BOOLEAN /\ MaxEntries \in Nat
  BY BatAssumption DEF BInit
<1>4. next = 0 /\ chunk_payload_count = 0 /\ block_no = 0 /\ issues = {}
  BY DEF BInit
<1>5. BTypeOK
  BY <1>1, <1>2, <1>3, <1>4 DEF BInit, BTypeOK
<1>6. AtChunk(0)
  BY <1>3, <1>4 DEF AtChunk
<1> QED BY <1>2, <1>3, <1>4, <1>5, <1>6 DEF WInv

\* Both kinds of entry keep the counters and the reports in step.
LEMMA WStep == ASSUME WInv, [BNext]_bvars PROVE WInv'
<1>1. /\ ratio \in Nat \ {0} /\ MaxEntries \in Nat /\ Len(entries) \in 0..MaxEntries
      /\ next \in 0..Len(entries) /\ chunk_payload_count \in 0..ratio /\ block_no \in 0..next
  BY BatAssumption DEF WInv, BTypeOK
<1>2. PICK q \in Nat : AtChunk(q)
  BY DEF WInv
<1>3. q * ratio \in Nat /\ q * (ratio + 1) \in Nat
      /\ (q + 1) * ratio = q * ratio + ratio
      /\ (q + 1) * (ratio + 1) = q * (ratio + 1) + ratio + 1
  BY <1>1
<1>4. CASE SkipBitmap
  <2>1. AtChunk(q + 1)'
    BY <1>1, <1>2, <1>3, <1>4 DEF AtChunk, SkipBitmap, IsSectorBitmap
  <2>2. BTypeOK'
    BY <1>1, <1>4 DEF WInv, BTypeOK, SkipBitmap
  <2>3. issues' = {b \in 0..MaxEntries : b < block_no' /\ Unusable(payload_entry(b))'}
    BY <1>4 DEF WInv, SkipBitmap, payload_entry
  <2> QED BY <1>4, <2>1, <2>2, <2>3 DEF WInv, SkipBitmap
<1>5. CASE CheckPayload
  <2>1. chunk_payload_count < ratio /\ next < Len(entries)
    BY <1>1, <1>5 DEF CheckPayload, IsSectorBitmap
  <2>2. /\ chunk_payload_count' = chunk_payload_count + 1 /\ block_no' = block_no + 1
        /\ next' = next + 1 /\ UNCHANGED <<ratio, count, has_parent, entries>>
    BY <1>5 DEF CheckPayload
  <2>3. AtChunk(q)'
    BY <1>1, <1>2, <1>3, <2>2 DEF AtChunk
  <2>4. payload_entry(block_no) = entries[next + 1]
    BY <1>1, <1>2, <2>1, Passed DEF payload_entry
  <2>5. issues' = {b \in 0..MaxEntries : b < block_no' /\ Unusable(payload_entry(b))}
    <3>1. issues = {b \in 0..MaxEntries : b < block_no /\ Unusable(payload_entry(b))}
      BY DEF WInv
    <3>2. issues' = IF Unusable(payload_entry(block_no)) THEN issues \cup {block_no} ELSE issues
      BY <1>5, <2>4 DEF CheckPayload
    <3>3. block_no \in 0..MaxEntries
      BY <1>1
    <3>4. \A b \in 0..MaxEntries : b < block_no' <=> b < block_no \/ b = block_no
      BY <1>1, <2>2
    <3> HIDE DEF payload_entry, Unusable
    <3> QED BY <3>1, <3>2, <3>3, <3>4
  <2>6. payload_entry(0)' = payload_entry(0) /\ \A b : payload_entry(b)' = payload_entry(b)
    BY <2>2 DEF payload_entry
  <2>7. BTypeOK'
    <3>1. issues' \subseteq 0..MaxEntries
      BY <2>5
    <3> QED BY <1>1, <2>1, <2>2, <3>1 DEF WInv, BTypeOK
  <2> QED BY <2>2, <2>3, <2>5, <2>6, <2>7 DEF WInv, Unusable
<1>6. CASE UNCHANGED bvars
  BY <1>6 DEF bvars, WInv, BTypeOK, AtChunk, payload_entry, Unusable
<1> QED BY <1>4, <1>5, <1>6 DEF BNext

\* The invariant holds throughout the pass.
LEMMA WInductive == BSpec => []WInv
<1>1. BInit => WInv
  BY WInit
<1>2. WInv /\ [BNext]_bvars => WInv'
  BY WStep
<1> QED BY <1>1, <1>2, PTL DEF BSpec

-----------------------------------------------------------------------------
(* The results.                                                            *)

\* Counting entries and counting blocks never disagree by more than the
\* bitmaps passed, and neither runs past the table.
THEOREM BTypeCorrect == BSpec => []BTypeOK
BY WInductive, PTL DEF WInv

\* The counting loop reports exactly the blocks whose entry, found by
\* payload_index as every reader finds it, is unusable.
THEOREM CountingAgreesWithIndex == BSpec => []IssuesExact
<1>1. WInv => IssuesExact
  <2> SUFFICES ASSUME WInv PROVE IssuesExact
    OBVIOUS
  <2>1. ratio \in Nat \ {0} /\ chunk_payload_count \in 0..ratio /\ MaxEntries \in Nat
    BY BatAssumption DEF WInv, BTypeOK
  <2>2. \A b \in 0..MaxEntries : payload_index(b, ratio) < next <=> b < block_no
    BY <2>1, Passed DEF WInv
  <2>3. issues = {b \in 0..MaxEntries : b < block_no /\ Unusable(payload_entry(b))}
    BY DEF WInv
  <2> HIDE DEF payload_entry, Unusable
  <2> QED BY <2>2, <2>3 DEF IssuesExact
<1> QED BY <1>1, WInductive, PTL

\* The table of any disk has an entry for each of its blocks and bitmaps and
\* not one more.
THEOREM TableAlwaysFits == BSpec => []TableFits
<1>1. WInv => TableFits
  <2> SUFFICES ASSUME WInv, count > 0 PROVE TableFits
    BY DEF TableFits
  <2>1. ratio \in Nat \ {0} /\ count \in Nat \ {0} /\ has_parent \in BOOLEAN
    BY BatAssumption DEF WInv, BTypeOK
  <2> QED BY <2>1, TableSize DEF TableFits
<1> QED BY <1>1, WInductive, PTL

\* At the end of the pass, fsck's verdict on a block is that of read_block,
\* sector bitmaps and offsets of zero apart.
THEOREM VerdictTrue == BSpec => []VerdictMatchesRead
<1>1. WInv => VerdictMatchesRead
  <2> SUFFICES ASSUME WInv, next = Len(entries), NEW b \in 0..(count - 1), HasEntry(b)
               PROVE  /\ b \notin issues =>
                           \/ ReadBlockOk(b)
                           \/ payload_entry(b).state = "partial" /\ ~HasBitmap(b)
                      /\ b \in issues => ~ReadBlockOk(b) \/ payload_entry(b).at = "zero"
    BY DEF VerdictMatchesRead
  <2>1. /\ ratio \in Nat \ {0} /\ chunk_payload_count \in 0..ratio /\ count \in Nat
        /\ MaxEntries \in Nat /\ Len(entries) \in 0..MaxEntries /\ b \in Nat
    BY BatAssumption DEF WInv, BTypeOK
  <2>2. payload_index(b, ratio) < next /\ payload_index(b, ratio) \in Nat /\ b <= payload_index(b, ratio)
    BY <2>1, PayloadBound DEF HasEntry
  <2>3. b \in 0..MaxEntries /\ b < block_no
    BY <2>1, <2>2, Passed DEF WInv
  <2>4. b \in issues <=> Unusable(payload_entry(b))
    BY <2>3 DEF WInv
  <2>5. payload_entry(b) \in BatEntries
    BY <2>1, <2>2 DEF WInv, payload_entry
  <2>6. /\ payload_entry(b).state \in {"none", "full", "partial", "other"}
        /\ payload_entry(b).at \in {"zero", "inside", "past"}
    BY <2>5, BatAssumption
  <2> HIDE DEF payload_entry
  <2> QED BY <2>1, <2>4, <2>6 DEF ReadBlockOk, Unusable, HasEntry
<1> QED BY <1>1, WInductive, PTL
=============================================================================
