-------------------------- MODULE HeaderPairProofs --------------------------
(***************************************************************************)
(* Proofs about HeaderPair, for any sets of guids and any sequence-number  *)
(* bound.                                                                  *)
(***************************************************************************)
EXTENDS HeaderPair, TLAPS

\* A tool's copy of the header, and what its writes so far have made of the
\* two slots, at each of its steps.
Fsck1 == pc = "repair1" => Readable(slot) /\ ~BothValid(slot) /\ cur = Active(slot)

Fsck2 ==
    pc = "repair2" =>
        \E i \in Slots : /\ slot[i] = cur
                         /\ slot[1 - i] = Successor(cur, cur.guid, cur.log)

Fsck3 ==
    pc \in {"log", "clean"} =>
        /\ BothValid(slot)
        /\ \/ cur = Active(slot)
           \/ \A i \in Slots : slot[i].seq = cur.seq + 1 /\ slot[i].guid = cur.guid

Open == pc \in {"merge1", "force0"} => Readable(slot) /\ cur = Active(slot)

Merge2 ==
    pc = "merge2" =>
        \E i \in Slots : /\ slot[i] = Successor(cur, new, Nil)
                         /\ slot[1 - i].ok => slot[1 - i].seq <= cur.seq

Merge3 ==
    /\ pc \in {"merge_sync", "merge_ok"} =>
          \A i \in Slots : slot[i] = Successor(cur, new, Nil)
    /\ pc = "merge_ok" => \A i \in Slots : may[i] = {slot[i]}

Force1 ==
    pc = "force1" => /\ slot[0] = Successor(cur, cur.guid, Nil)
                     /\ slot[1].ok => slot[1].seq <= cur.seq

Force2 ==
    pc = "force_sync" => \A i \in Slots : slot[i] = Successor(cur, cur.guid, Nil)

Local ==
    pc # "idle" => cur.ok /\ cur.seq < SeqMax

\* mark_log_clean is reached only for a file whose log was not empty.
LogLocal == pc \in {"clean", "fsck_ok"} => cur.log # Nil

\* Equal sequence numbers never hide two different DataWriteGuids.
TieSameGuid ==
    ~exposed /\ BothValid(slot) /\ slot[0].seq = slot[1].seq
        => slot[0].guid = slot[1].guid

\* Nothing that is or may come back on disk, and nothing a tool is about to
\* write, carries a retired DataWriteGuid.
NoRetired ==
    /\ \A i \in Slots : slot[i] \in may[i]
    /\ \A i \in Slots : \A h \in may[i] : h.ok => h.guid \notin retired
    /\ pc # "idle" => cur.guid \notin retired
    /\ retired \subseteq used
    /\ pc \in {"merge1", "merge2", "merge_sync", "merge_ok"} => new \in Guids \ retired

Protocol == /\ Local /\ LogLocal /\ Fsck1 /\ Fsck2 /\ Fsck3 /\ Open
            /\ Merge2 /\ Merge3 /\ Force1 /\ Force2

IInv == /\ TypeOK /\ Protocol /\ FsckLeavesClean
        /\ AlwaysReadable /\ TieSameGuid /\ NoRetired

-----------------------------------------------------------------------------
(* Facts about the operators.                                              *)

\* A header made by write_new is a header.
LEMMA SuccessorType ==
    ASSUME NEW c \in Header, NEW g \in Guids \cup {Nil}, NEW l \in LogGuids \cup {Nil}
    PROVE  Successor(c, g, l) \in Header
BY HeaderAssumption DEF Successor, NextSeq, Header

\* A torn slot decodes to a header.
LEMMA TornType == Torn \in Header
BY HeaderAssumption DEF Torn, Header

\* The indices of the pair are slots.
LEMMA IndexType ==
    ASSUME NEW p
    PROVE  /\ ActiveIndex(p) \in Slots /\ TargetIndex(p) \in Slots
           /\ \A i \in Slots : 1 - i \in Slots
BY DEF ActiveIndex, TargetIndex, Slots

\* write_new never overwrites the only valid header, and the other slot is
\* the active one unless the two sequence numbers are equal.
LEMMA TargetSparesActive ==
    ASSUME NEW p \in [Slots -> Header], Readable(p)
    PROVE  /\ p[1 - TargetIndex(p)].ok
           /\ \/ p[1 - TargetIndex(p)] = Active(p)
              \/ BothValid(p) /\ p[0].seq = p[1].seq
           /\ p[1 - TargetIndex(p)].seq <= Active(p).seq
BY HeaderAssumption DEF TargetIndex, Readable, BothValid, Active, ActiveIndex, Slots, Header

\* The sequence number of a successor, below the bound.
LEMMA SuccessorFields ==
    ASSUME NEW c \in Header, c.seq < SeqMax, NEW g, NEW l
    PROVE  /\ Successor(c, g, l).ok /\ Successor(c, g, l).seq = c.seq + 1
           /\ Successor(c, g, l).guid = g /\ Successor(c, g, l).log = l
BY HeaderAssumption DEF Successor, NextSeq, Header

\* A write_new from the header that is active makes its result active, and
\* the slot it leaves alone is valid and not newer than that header.
LEMMA FirstWrite ==
    ASSUME NEW p \in [Slots -> Header], Readable(p), NEW q \in [Slots -> Header],
           q[TargetIndex(p)].ok, q[TargetIndex(p)].seq = Active(p).seq + 1,
           q[1 - TargetIndex(p)] = p[1 - TargetIndex(p)]
    PROVE  Active(q) = q[TargetIndex(p)] /\ BothValid(q)
BY HeaderAssumption DEF TargetIndex, Readable, BothValid, Active, ActiveIndex, Slots, Header

\* A second write_new from the same copy goes to the other slot.
LEMMA SecondWrite ==
    ASSUME NEW p \in [Slots -> Header], NEW i \in Slots, p[i].ok,
           p[1 - i].ok => p[1 - i].seq < p[i].seq
    PROVE  TargetIndex(p) = 1 - i /\ ActiveIndex(p) = i
BY HeaderAssumption DEF TargetIndex, BothValid, ActiveIndex, Slots, Header

\* On a tie slot 0 is both the active slot and the one that is overwritten.
LEMMA TieWrite ==
    ASSUME NEW p \in [Slots -> Header], BothValid(p), p[0].seq = p[1].seq
    PROVE  TargetIndex(p) = 0 /\ ActiveIndex(p) = 0
BY HeaderAssumption DEF TargetIndex, BothValid, ActiveIndex, Slots, Header

\* What a completed header write changes.
LEMMA PutEffect ==
    ASSUME TypeOK, NEW i \in Slots, NEW h \in Header, NEW n, Put(i, h, n)
    PROVE  /\ slot'[i] = h /\ slot'[1 - i] = slot[1 - i]
           /\ slot' \in [Slots -> Header]
           /\ may'[i] = may[i] \cup {h, Torn} /\ may'[1 - i] = may[1 - i]
           /\ pc' = n /\ cur' = cur /\ new' = new
BY DEF Put, Continue, TypeOK, Slots

\* What a torn header write changes.
LEMMA TearEffect ==
    ASSUME TypeOK, NEW i \in Slots, Tear(i)
    PROVE  /\ slot'[i] = Torn /\ slot'[1 - i] = slot[1 - i]
           /\ may'[i] = may[i] \cup {Torn} /\ may'[1 - i] = may[1 - i]
           /\ pc' = "idle" /\ cur' = Torn /\ new' = Nil
BY TornType DEF Tear, End, TypeOK, Slots

-----------------------------------------------------------------------------
(* Type correctness.                                                       *)

\* Every variable stays in its type: the guids and sequence numbers in the
\* slots are always ones that the program wrote.
THEOREM TypeCorrect == Spec => []TypeOK
<1>1. Init => TypeOK /\ LogLocal
  <2> SUFFICES ASSUME Init PROVE TypeOK /\ LogLocal
    OBVIOUS
  <2>1. slot \in [Slots -> Header]
    BY HeaderAssumption, TornType DEF Init, Slots, Header
  <2>2. may \in [Slots -> SUBSET Header]
    BY <2>1 DEF Init
  <2>3. pc = "idle" /\ cur = Torn /\ new = Nil /\ used \subseteq Guids
        /\ retired = {} /\ cleaned = {} /\ exposed = FALSE
    BY DEF Init
  <2> QED
    BY <2>1, <2>2, <2>3, TornType DEF TypeOK, PCs, LogLocal
<1>2. TypeOK /\ LogLocal /\ [Next]_vars => TypeOK' /\ LogLocal'
  <2> SUFFICES ASSUME TypeOK, LogLocal, [Next]_vars PROVE TypeOK' /\ LogLocal'
    OBVIOUS
  <2> USE DEF TypeOK, LogLocal
  <2>1. ASSUME NEW i \in Slots, NEW h \in Header, NEW n \in PCs,
               Put(i, h, n) \/ Tear(i)
        PROVE  /\ slot' \in [Slots -> Header] /\ may' \in [Slots -> SUBSET Header]
               /\ pc' \in PCs /\ cur' \in Header /\ new' \in Guids \cup {Nil}
               /\ (pc' = n /\ cur' = cur) \/ pc' = "idle"
    BY <2>1, TornType DEF Put, Tear, End, Continue, PCs
  <2>2. ASSUME NEW g \in Guids \cup {Nil}, NEW l \in LogGuids \cup {Nil},
               NEW n \in PCs, WriteNew(g, l, n)
        PROVE  /\ slot' \in [Slots -> Header] /\ may' \in [Slots -> SUBSET Header]
               /\ pc' \in PCs /\ cur' \in Header /\ new' \in Guids \cup {Nil}
               /\ (pc' = n /\ cur' = cur) \/ pc' = "idle"
    BY <2>1, <2>2, SuccessorType, IndexType DEF WriteNew
  <2>3. cur.guid \in Guids \cup {Nil} /\ cur.log \in LogGuids \cup {Nil}
    BY DEF Header
  <2>4. Active(slot) \in Header
    BY IndexType DEF Active
  <2>5. CASE FsckOpen
    BY <2>4, <2>5 DEF FsckOpen, History, PCs
  <2>6. CASE FsckRepair1 \/ FsckRepair2 \/ FsckMarkClean
    BY <2>2, <2>3, <2>6 DEF FsckRepair1, FsckRepair2, FsckMarkClean, History, PCs
  <2>7. CASE FsckReplay \/ FsckDiscard \/ FsckNoLog
    BY <2>7, TornType DEF FsckReplay, FsckDiscard, FsckNoLog, Synced, Continue, End, History, PCs
  <2>9. CASE MergeOpen
    BY <2>4, <2>9 DEF MergeOpen, PCs
  <2>10. CASE MergeWrite1 \/ MergeWrite2
    BY <2>2, <2>10 DEF MergeWrite1, MergeWrite2, History, PCs
  <2>11. CASE MergeSync \/ MergeReturn
    BY <2>11, TornType DEF MergeSync, MergeReturn, Synced, Continue, End, History, PCs
  <2>12. CASE ForceOpen
    BY <2>4, <2>12 DEF ForceOpen, History, PCs
  <2>13. CASE ForceWrite0 \/ ForceWrite1
    <3>1. Successor(cur, cur.guid, Nil) \in Header
      BY <2>3, SuccessorType
    <3> QED
      BY <2>1, <2>13, <3>1 DEF ForceWrite0, ForceWrite1, PCs, Slots
  <2>14. CASE ForceSync
    BY <2>14, TornType DEF ForceSync, Synced, End, History, PCs
  <2>15. CASE Kill
    BY <2>15, TornType DEF Kill, End, History, PCs
  <2>16. CASE PowerLoss
    BY <2>16, TornType DEF PowerLoss, Outcomes, End, PCs
  <2>17. CASE UNCHANGED vars
    BY <2>17 DEF vars
  <2>19. CASE Writeback
    BY <2>19 DEF Writeback, Synced, History
  <2>18. CASE FsckReturn
    <3>1. cur.log \in LogGuids
      BY <2>18 DEF FsckReturn, Header
    <3> QED
      BY <2>18, <3>1, TornType DEF FsckReturn, End, PCs
  <2> QED
    BY <2>5, <2>6, <2>7, <2>9, <2>10, <2>11, <2>12, <2>13, <2>14, <2>15, <2>16, <2>17, <2>18,
     <2>19 DEF Next
<1> QED
  BY <1>1, <1>2, PTL DEF Spec

-----------------------------------------------------------------------------
(* The inductive invariant.                                                *)

\* Every initial state satisfies the parts of the inductive invariant.
LEMMA InitIInv == Init => Protocol /\ FsckLeavesClean /\ AlwaysReadable /\ TieSameGuid /\ NoRetired
<1> SUFFICES ASSUME Init
             PROVE  Protocol /\ FsckLeavesClean /\ AlwaysReadable /\ TieSameGuid /\ NoRetired
  OBVIOUS
<1>2. /\ pc = "idle" /\ retired = {} /\ \A i \in Slots : may[i] = {slot[i]}
  BY DEF Init
<1>3. Readable(slot) /\ (slot[0].guid = slot[1].guid \/ ~BothValid(slot))
  BY DEF Init, Readable, BothValid, Slots, Torn
<1> QED
  BY <1>2, <1>3 DEF Protocol, Local, LogLocal, Fsck1, Fsck2, Fsck3, Open, Merge2, Merge3, Force1,
     Force2, FsckLeavesClean, AlwaysReadable, TieSameGuid, NoRetired

\* The protocol of each tool: what its copy of the header and the two slots
\* have to do with each other, whatever happened before it started.
LEMMA ProtocolStep ==
    TypeOK /\ Protocol /\ FsckLeavesClean /\ [Next]_vars => Protocol' /\ FsckLeavesClean'
<1> SUFFICES ASSUME TypeOK, Protocol, FsckLeavesClean, [Next]_vars
             PROVE  Protocol' /\ FsckLeavesClean'
  OBVIOUS
<1> DEFINE Idle == pc' = "idle"
<1>0. ASSUME Idle PROVE Protocol' /\ FsckLeavesClean'
  BY <1>0 DEF Protocol, Local, LogLocal, Fsck1, Fsck2, Fsck3, Open, Merge2, Merge3, Force1,
     Force2, FsckLeavesClean
<1>1. ASSUME NEW i, Tear(i) PROVE Protocol' /\ FsckLeavesClean'
  BY <1>0, <1>1 DEF Tear, End
<1> USE HeaderAssumption DEF Protocol, Local, LogLocal, Fsck1, Fsck2, Fsck3, Open, Merge2,
        Merge3, Force1, Force2, FsckLeavesClean
<1>2. CASE FsckOpen
  BY <1>2 DEF FsckOpen, TypeOK, Header, Readable, BothValid, Active, ActiveIndex, Slots
<1>3. CASE MergeOpen
  BY <1>3 DEF MergeOpen, TypeOK, Header, Readable, BothValid, Active, ActiveIndex, Slots
<1>4. CASE ForceOpen
  BY <1>4 DEF ForceOpen, TypeOK, Header, Readable, BothValid, Active, ActiveIndex, Slots
<1>a. \A i \in Slots : 1 - i \in Slots /\ 1 - (1 - i) = i
  BY DEF Slots
<1>b. cur.guid \in Guids \cup {Nil} /\ cur.log \in LogGuids \cup {Nil} /\ cur.seq \in Nat
  BY DEF TypeOK, Header
<1>c. /\ TargetIndex(slot) \in Slots /\ slot \in [Slots -> Header] /\ cur \in Header
      /\ new \in Guids \cup {Nil}
  BY IndexType DEF TypeOK
<1>5. CASE FsckRepair1
  <2> DEFINE t == TargetIndex(slot)
             h == Successor(cur, cur.guid, cur.log)
  <2>1. CASE Tear(t)
    BY <1>1, <2>1
  <2>2. CASE Put(t, h, "repair2")
    <3>1. cur.ok /\ cur.seq < SeqMax /\ Readable(slot) /\ ~BothValid(slot) /\ cur = Active(slot)
      BY <1>5 DEF FsckRepair1
    <3>2. slot[1 - t] = cur
      BY <1>c, <3>1, TargetSparesActive
    <3>3. slot'[t] = h /\ slot'[1 - t] = cur /\ pc' = "repair2" /\ cur' = cur
      BY <1>b, <1>c, <2>2, <3>2, PutEffect, SuccessorType
    <3>4. Fsck2'
      BY <1>a, <1>c, <3>3
    <3> QED
      BY <3>1, <3>3, <3>4
  <2> QED
    BY <1>5, <2>1, <2>2 DEF FsckRepair1, WriteNew
<1>6. CASE FsckRepair2
  <2> DEFINE t == TargetIndex(slot)
             h == Successor(cur, cur.guid, cur.log)
  <2>1. CASE Tear(t)
    BY <1>1, <2>1
  <2>2. CASE Put(t, h, "log")
    <3>1. cur.ok /\ cur.seq < SeqMax
      BY <1>6 DEF FsckRepair2
    <3>2. h.ok /\ h.seq = cur.seq + 1 /\ h.guid = cur.guid
      BY <1>c, <3>1, SuccessorFields
    <3>3. PICK i \in Slots : slot[i] = cur /\ slot[1 - i] = h
      BY <1>6 DEF FsckRepair2
    <3>4. t = i
      BY <1>a, <1>b, <1>c, <3>1, <3>2, <3>3, SecondWrite
    <3>5. slot'[i] = h /\ slot'[1 - i] = h /\ pc' = "log" /\ cur' = cur
      BY <1>b, <1>c, <2>2, <3>3, <3>4, PutEffect, SuccessorType
    <3>6. slot'[0] = h /\ slot'[1] = h
      BY <3>5 DEF Slots
    <3> QED
      BY <3>1, <3>2, <3>5, <3>6 DEF BothValid, Slots
  <2> QED
    BY <1>6, <2>1, <2>2 DEF FsckRepair2, WriteNew
<1>7. CASE FsckMarkClean
  <2> DEFINE t == TargetIndex(slot)
             h == Successor(cur, cur.guid, Nil)
  <2>1. CASE Tear(t)
    BY <1>1, <2>1
  <2>2. CASE Put(t, h, "fsck_ok")
    <3>1. cur.ok /\ cur.seq < SeqMax /\ BothValid(slot) /\ cur.log # Nil
      BY <1>7 DEF FsckMarkClean
    <3>2. h.ok /\ h.seq = cur.seq + 1 /\ h.guid = cur.guid /\ h.log = Nil
      BY <1>c, <3>1, SuccessorFields
    <3>3. /\ slot'[t] = h /\ slot'[1 - t] = slot[1 - t] /\ slot' \in [Slots -> Header]
          /\ pc' = "fsck_ok" /\ cur' = cur
      BY <1>b, <1>c, <2>2, PutEffect, SuccessorType
    <3>4. Active(slot') = h /\ BothValid(slot')
      <4>1. CASE cur = Active(slot)
        BY <1>c, <3>1, <3>2, <3>3, <4>1, FirstWrite DEF Readable, BothValid
      <4>2. CASE \A i \in Slots : slot[i].seq = cur.seq + 1 /\ slot[i].guid = cur.guid
        <5>1. t = 0
          BY <1>c, <3>1, <4>2, TieWrite DEF Slots
        <5>2. slot'[0] = h /\ slot'[1] = slot[1] /\ slot[1].ok /\ slot[1].seq = cur.seq + 1
          BY <3>1, <3>3, <4>2, <5>1 DEF Slots, BothValid
        <5>3. BothValid(slot') /\ slot'[0].seq = slot'[1].seq
          BY <3>2, <5>2 DEF BothValid
        <5> QED
          BY <3>3, <5>2, <5>3, TieWrite DEF Active
      <4> QED
        BY <1>7, <4>1, <4>2 DEF FsckMarkClean
    <3> QED
      BY <3>1, <3>2, <3>3, <3>4
  <2> QED
    BY <1>7, <2>1, <2>2 DEF FsckMarkClean, WriteNew
<1>8. CASE FsckReplay \/ FsckDiscard \/ FsckNoLog \/ FsckReturn
  BY <1>0, <1>8 DEF FsckReplay, FsckDiscard, FsckNoLog, FsckReturn, Continue, End
<1>9. CASE MergeWrite1
  <2> DEFINE t == TargetIndex(slot)
             h == Successor(cur, new, Nil)
  <2>1. CASE Tear(t)
    BY <1>1, <2>1
  <2>2. CASE Put(t, h, "merge2")
    <3>1. cur.ok /\ cur.seq < SeqMax /\ Readable(slot) /\ cur = Active(slot)
      BY <1>9 DEF MergeWrite1
    <3>2. slot[1 - t].seq <= cur.seq
      BY <1>c, <3>1, TargetSparesActive
    <3>3. slot'[t] = h /\ slot'[1 - t].seq <= cur.seq /\ pc' = "merge2" /\ cur' = cur /\ new' = new
      BY <1>b, <1>c, <2>2, <3>2, PutEffect, SuccessorType
    <3>4. Merge2'
      BY <1>a, <1>c, <3>3
    <3> QED
      BY <3>1, <3>3, <3>4
  <2> QED
    BY <1>9, <2>1, <2>2 DEF MergeWrite1, WriteNew
<1>10. CASE MergeWrite2
  <2> DEFINE t == TargetIndex(slot)
             h == Successor(cur, new, Nil)
  <2>1. CASE Tear(t)
    BY <1>1, <2>1
  <2>2. CASE Put(t, h, "merge_sync")
    <3>1. cur.ok /\ cur.seq < SeqMax
      BY <1>10 DEF MergeWrite2
    <3>2. h.ok /\ h.seq = cur.seq + 1
      BY <1>c, <3>1, SuccessorFields
    <3>3. PICK i \in Slots : slot[i] = h /\ (slot[1 - i].ok => slot[1 - i].seq <= cur.seq)
      BY <1>10 DEF MergeWrite2
    <3>4. slot[1 - i].seq \in Nat
      BY <1>a, <1>c DEF Header
    <3>5. t = 1 - i
      BY <1>b, <1>c, <3>2, <3>3, <3>4, SecondWrite
    <3>6. slot'[i] = h /\ slot'[1 - i] = h /\ pc' = "merge_sync" /\ cur' = cur /\ new' = new
      BY <1>a, <1>b, <1>c, <2>2, <3>3, <3>5, PutEffect, SuccessorType
    <3>7. slot'[0] = h /\ slot'[1] = h
      BY <3>6 DEF Slots
    <3> QED
      BY <3>1, <3>6, <3>7 DEF Slots
  <2> QED
    BY <1>10, <2>1, <2>2 DEF MergeWrite2, WriteNew
<1>11. CASE MergeSync \/ MergeReturn
  BY <1>0, <1>11 DEF MergeSync, MergeReturn, Synced, Continue, End
<1>12. CASE ForceWrite0
  <2> DEFINE h == Successor(cur, cur.guid, Nil)
  <2>1. CASE Tear(0)
    BY <1>1, <2>1
  <2>2. CASE Put(0, h, "force1")
    <3>1. cur.ok /\ cur.seq < SeqMax /\ Readable(slot) /\ cur = Active(slot)
      BY <1>12 DEF ForceWrite0
    <3>2. slot[1].ok => slot[1].seq <= cur.seq
      BY <1>c, <3>1 DEF Active, ActiveIndex, Readable, BothValid, Slots, Header
    <3>3. h \in Header /\ 0 \in Slots
      BY <1>b, <1>c, SuccessorType DEF Slots
    <3>4. slot'[0] = h /\ slot'[1] = slot[1] /\ pc' = "force1" /\ cur' = cur
      BY <2>2, <3>3, PutEffect
    <3> QED
      BY <3>1, <3>2, <3>4
  <2> QED
    BY <1>12, <2>1, <2>2 DEF ForceWrite0
<1>13. CASE ForceWrite1
  <2> DEFINE h == Successor(cur, cur.guid, Nil)
  <2>1. CASE Tear(1)
    BY <1>1, <2>1
  <2>2. CASE Put(1, h, "force_sync")
    <3>1. cur.ok /\ cur.seq < SeqMax /\ slot[0] = h
      BY <1>13 DEF ForceWrite1
    <3>2. h \in Header /\ 1 \in Slots
      BY <1>b, <1>c, SuccessorType DEF Slots
    <3>3. slot'[0] = h /\ slot'[1] = h /\ pc' = "force_sync" /\ cur' = cur
      BY <2>2, <3>1, <3>2, PutEffect
    <3> QED
      BY <3>1, <3>3 DEF Slots
  <2> QED
    BY <1>13, <2>1, <2>2 DEF ForceWrite1
<1>14. CASE ForceSync \/ Kill \/ PowerLoss
  BY <1>0, <1>14 DEF ForceSync, Kill, PowerLoss, End
<1>15. CASE UNCHANGED vars
  BY <1>15 DEF vars
<1>16. CASE Writeback
  BY <1>16 DEF Writeback, Synced
<1> QED
  BY <1>2, <1>3, <1>4, <1>5, <1>6, <1>7, <1>8, <1>9, <1>10, <1>11, <1>12, <1>13, <1>14, <1>15,
     <1>16 DEF Next

-----------------------------------------------------------------------------
(* Kills: there is always a readable header, and its guid never goes back. *)

\* If both headers carry the same DataWriteGuid, so does the active one.
LEMMA SameGuid ==
    ASSUME NEW p \in [Slots -> Header], NEW g, \A i \in Slots : p[i].guid = g
    PROVE  Active(p).guid = g
BY IndexType DEF Active

\* A kill inside write_new leaves a readable file with the same DataWriteGuid.
LEMMA TornWriteNew ==
    ASSUME TypeOK, TieSameGuid, ~exposed, Readable(slot), Tear(TargetIndex(slot))
    PROVE  /\ Readable(slot') /\ ~BothValid(slot')
           /\ Active(slot').guid = Active(slot).guid
<1> DEFINE t == TargetIndex(slot)
<1>1. t \in Slots /\ slot \in [Slots -> Header]
  BY IndexType DEF TypeOK
<1>2. slot'[t] = Torn /\ slot'[1 - t] = slot[1 - t]
  BY <1>1, TearEffect
<1>3. slot[1 - t].ok
  BY <1>1, TargetSparesActive
<1>4. slot[1 - t].guid = Active(slot).guid
  <2>1. CASE slot[1 - t] = Active(slot)
    BY <2>1
  <2>2. CASE BothValid(slot) /\ slot[0].seq = slot[1].seq
    BY <1>1, <2>2, SameGuid DEF TieSameGuid, Slots
  <2> QED
    BY <1>1, <2>1, <2>2, TargetSparesActive
<1>5. ~Torn.ok
  BY DEF Torn
<1>6. Readable(slot') /\ ~BothValid(slot') /\ ActiveIndex(slot') = 1 - t
  BY <1>1, <1>2, <1>3, <1>5 DEF Readable, BothValid, ActiveIndex, Slots
<1> QED
  BY <1>2, <1>4, <1>6 DEF Active

\* The effect of every step on what a reader sees.
LEMMA ReaderStep ==
    TypeOK /\ Protocol /\ AlwaysReadable /\ TieSameGuid /\ [Next]_vars
        => AlwaysReadable' /\ TieSameGuid' /\ GuidChange
<1> SUFFICES ASSUME TypeOK, Protocol, AlwaysReadable, TieSameGuid, [Next]_vars, ~exposed'
             PROVE  Readable(slot') /\ TieSameGuid' /\ GuidChange
  BY DEF AlwaysReadable, TieSameGuid, GuidChange
<1>0. ~exposed /\ Readable(slot)
  BY DEF AlwaysReadable, TypeOK, Next, FsckOpen, FsckRepair1, FsckRepair2, FsckReplay, FsckDiscard,
     FsckNoLog, FsckMarkClean, FsckReturn, MergeOpen, MergeWrite1, MergeWrite2, MergeSync, MergeReturn,
     ForceOpen, ForceWrite0, ForceWrite1, ForceSync, Kill, Writeback, PowerLoss, History, vars
<1>1. ASSUME slot' = slot PROVE Readable(slot') /\ TieSameGuid' /\ GuidChange
  BY <1>0, <1>1 DEF TieSameGuid, GuidChange
<1>2. ASSUME Tear(TargetIndex(slot)) PROVE Readable(slot') /\ TieSameGuid' /\ GuidChange
  BY <1>0, <1>2, TornWriteNew DEF TieSameGuid, GuidChange
<1>3. /\ slot \in [Slots -> Header] /\ TargetIndex(slot) \in Slots /\ cur \in Header
      /\ cur.guid \in Guids \cup {Nil} /\ cur.log \in LogGuids \cup {Nil} /\ cur.seq \in Nat
      /\ new \in Guids \cup {Nil} /\ Nil \in LogGuids \cup {Nil}
      /\ \A i \in Slots : 1 - i \in Slots /\ slot[i].seq \in Nat /\ 1 - (1 - i) = i
  BY IndexType DEF TypeOK, Header, Slots
<1>4. ASSUME pc # "idle" PROVE cur.ok /\ cur.seq < SeqMax
  BY <1>4 DEF Protocol, Local
<1>5. ASSUME NEW g \in Guids \cup {Nil}, NEW l \in LogGuids \cup {Nil}, NEW n,
             cur = Active(slot), cur.seq < SeqMax,
             Put(TargetIndex(slot), Successor(cur, g, l), n)
      PROVE  Readable(slot') /\ TieSameGuid' /\ Active(slot').guid = g
  <2> DEFINE t == TargetIndex(slot)
             h == Successor(cur, g, l)
  <2>a. h \in Header
    BY <1>3, <1>5, SuccessorType
  <2>1. h \in Header /\ h.ok /\ h.seq = cur.seq + 1 /\ h.guid = g
    BY <1>3, <1>5, <2>a, SuccessorFields
  <2>2. slot'[t] = h /\ slot'[1 - t] = slot[1 - t] /\ slot' \in [Slots -> Header]
    BY <1>3, <1>5, <2>1, PutEffect
  <2>3. Active(slot') = h /\ BothValid(slot')
    BY <1>0, <1>3, <1>5, <2>1, <2>2, FirstWrite
  <2>4. slot'[1 - t].seq <= cur.seq
    BY <1>0, <1>3, <1>5, <2>2, TargetSparesActive
  <2>5. slot'[0].seq # slot'[1].seq
    BY <1>3, <2>1, <2>2, <2>4 DEF Slots
  <2> QED
    BY <2>1, <2>3, <2>5 DEF TieSameGuid, Readable, BothValid
<1>6. CASE FsckRepair1
  BY <1>2, <1>3, <1>4, <1>5, <1>6 DEF FsckRepair1, WriteNew, Protocol, Fsck1, GuidChange
<1>7. CASE FsckRepair2
  <2> DEFINE h == Successor(cur, cur.guid, cur.log)
  <2>1. ASSUME Put(TargetIndex(slot), h, "log") PROVE Readable(slot') /\ TieSameGuid' /\ GuidChange
    <3>1. h \in Header /\ h.ok /\ h.guid = cur.guid
      BY <1>3, <1>4, <1>7, SuccessorType, SuccessorFields DEF FsckRepair2
    <3>2. \A i \in Slots : slot[i].guid = cur.guid
      BY <1>7, <3>1 DEF FsckRepair2, Protocol, Fsck2, Slots
    <3>3. \A i \in Slots : slot'[i].guid = cur.guid
      BY <1>3, <2>1, <3>1, <3>2, PutEffect DEF Slots
    <3>4. slot' \in [Slots -> Header] /\ slot'[TargetIndex(slot)].ok
      BY <1>3, <2>1, <3>1, PutEffect
    <3> QED
      BY <1>3, <3>2, <3>3, <3>4, SameGuid DEF TieSameGuid, GuidChange, Readable, Slots
  <2> QED
    BY <1>2, <1>7, <2>1 DEF FsckRepair2, WriteNew
<1>8. CASE FsckMarkClean
  <2> DEFINE h == Successor(cur, cur.guid, Nil)
  <2>1. CASE cur = Active(slot)
    BY <1>2, <1>3, <1>4, <1>5, <1>8, <2>1 DEF FsckMarkClean, WriteNew, GuidChange
  <2>2. CASE \A i \in Slots : slot[i].seq = cur.seq + 1 /\ slot[i].guid = cur.guid
    <3>1. ASSUME Put(TargetIndex(slot), h, "fsck_ok")
          PROVE  Readable(slot') /\ TieSameGuid' /\ GuidChange
      <4>a. h \in Header
        BY <1>3, SuccessorType
      <4>1. h \in Header /\ h.ok /\ h.guid = cur.guid
        BY <1>3, <1>4, <1>8, <4>a, SuccessorFields DEF FsckMarkClean
      <4>2. \A i \in Slots : slot'[i].guid = cur.guid
        BY <1>3, <2>2, <3>1, <4>1, PutEffect DEF Slots
      <4>3. slot' \in [Slots -> Header] /\ slot'[TargetIndex(slot)].ok
        BY <1>3, <3>1, <4>1, PutEffect
      <4> QED
        BY <1>3, <2>2, <4>2, <4>3, SameGuid DEF TieSameGuid, GuidChange, Readable, Slots
    <3> QED
      BY <1>2, <1>8, <3>1 DEF FsckMarkClean, WriteNew
  <2> QED
    BY <1>8, <2>1, <2>2 DEF FsckMarkClean, Protocol, Fsck3
<1>9. CASE MergeWrite1
  BY <1>2, <1>3, <1>4, <1>5, <1>9 DEF MergeWrite1, WriteNew, Protocol, Open, GuidChange
<1>10. CASE MergeWrite2
  <2> DEFINE h == Successor(cur, new, Nil)
  <2>1. ASSUME Put(TargetIndex(slot), h, "merge_sync")
        PROVE  Readable(slot') /\ TieSameGuid' /\ GuidChange
    <3>a. h \in Header
      BY <1>3, SuccessorType
    <3>1. h \in Header /\ h.ok /\ h.guid = new /\ h.seq = cur.seq + 1
      BY <1>3, <1>4, <1>10, <3>a, SuccessorFields DEF MergeWrite2
    <3>2. PICK i \in Slots : slot[i] = h /\ (slot[1 - i].ok => slot[1 - i].seq <= cur.seq)
      BY <1>10 DEF MergeWrite2, Protocol, Merge2
    <3>3. TargetIndex(slot) = 1 - i /\ ActiveIndex(slot) = i
      BY <1>3, <3>1, <3>2, SecondWrite
    <3>4. slot'[i] = h /\ slot'[1 - i] = h /\ slot' \in [Slots -> Header]
      BY <1>3, <2>1, <3>1, <3>2, <3>3, PutEffect
    <3>5. \A j \in Slots : slot'[j].guid = new /\ slot'[j].ok
      BY <3>1, <3>4 DEF Slots
    <3> QED
      BY <3>1, <3>2, <3>3, <3>4, <3>5, SameGuid DEF TieSameGuid, GuidChange, Readable, Active, Slots
  <2> QED
    BY <1>2, <1>10, <2>1 DEF MergeWrite2, WriteNew
<1>11. CASE ForceWrite0
  <2> DEFINE h == Successor(cur, cur.guid, Nil)
  <2>1. Put(0, h, "force1") /\ cur = Active(slot) /\ 0 \in Slots /\ 1 - 0 = 1
    BY <1>11 DEF ForceWrite0, Protocol, Open, Slots
  <2>a. h \in Header
    BY <1>3, SuccessorType
  <2>2. h \in Header /\ h.ok /\ h.guid = cur.guid /\ h.seq = cur.seq + 1
    BY <1>3, <1>4, <1>11, <2>a, SuccessorFields DEF ForceWrite0
  <2>3. slot[1].ok => slot[1].seq <= cur.seq
    BY <1>0, <1>3, <2>1 DEF Active, ActiveIndex, Readable, BothValid, Slots, Header
  <2>4. slot'[0] = h /\ slot'[1] = slot[1] /\ slot' \in [Slots -> Header]
    BY <2>1, <2>2, PutEffect
  <2>5. slot'[1].ok => slot'[1].seq < slot'[0].seq
    BY <1>3, <2>2, <2>3, <2>4 DEF Slots
  <2>6. ActiveIndex(slot') = 0
    BY <2>1, <2>2, <2>4, <2>5, SecondWrite
  <2> QED
    BY <1>3, <2>1, <2>2, <2>4, <2>5, <2>6 DEF TieSameGuid, GuidChange, Readable, BothValid, Active, Slots
<1>12. CASE ForceWrite1
  <2> DEFINE h == Successor(cur, cur.guid, Nil)
  <2>1. Put(1, h, "force_sync") /\ slot[0] = h /\ (slot[1].ok => slot[1].seq <= cur.seq)
    BY <1>12 DEF ForceWrite1, Protocol, Force1
  <2>a. h \in Header
    BY <1>3, SuccessorType
  <2>2. h \in Header /\ h.ok /\ h.guid = cur.guid /\ h.seq = cur.seq + 1
    BY <1>3, <1>4, <1>12, <2>a, SuccessorFields DEF ForceWrite1
  <2>3. 0 \in Slots /\ 1 \in Slots /\ 1 - 0 = 1 /\ 1 - 1 = 0
    BY DEF Slots
  <2>4. slot[1].ok => slot[1].seq < slot[0].seq
    BY <1>3, <2>1, <2>2 DEF Slots
  <2>5. ActiveIndex(slot) = 0
    BY <1>3, <2>1, <2>2, <2>3, <2>4, SecondWrite
  <2>6. slot'[0] = h /\ slot'[1] = h /\ slot' \in [Slots -> Header]
    BY <2>1, <2>2, <2>3, PutEffect
  <2>7. \A j \in Slots : slot'[j].guid = cur.guid
    BY <2>2, <2>6 DEF Slots
  <2> QED
    BY <2>1, <2>2, <2>5, <2>6, <2>7, SameGuid DEF TieSameGuid, GuidChange, Readable, Active, Slots
<1>13. CASE PowerLoss
  BY <1>13 DEF PowerLoss
<1>14. CASE \/ FsckOpen \/ FsckReplay \/ FsckDiscard \/ FsckNoLog \/ FsckReturn \/ MergeOpen
            \/ MergeSync \/ MergeReturn \/ ForceOpen \/ ForceSync \/ Kill \/ Writeback
            \/ UNCHANGED vars
  BY <1>1, <1>14 DEF FsckOpen, FsckReplay, FsckDiscard, FsckNoLog, FsckReturn, MergeOpen,
     MergeSync, MergeReturn, ForceOpen, ForceSync, Kill, Writeback, vars
<1> QED
  BY <1>6, <1>7, <1>8, <1>9, <1>10, <1>11, <1>12, <1>13, <1>14 DEF Next

-----------------------------------------------------------------------------
(* Power loss: retired guids are gone for good.                            *)

\* No step, of a tool or of a failure, makes a retired guid one that a power
\* loss can bring back.
LEMMA RetiredStep ==
    TypeOK /\ Protocol /\ NoRetired /\ [Next]_vars => NoRetired'
<1> SUFFICES ASSUME TypeOK, Protocol, NoRetired, [Next]_vars PROVE NoRetired'
  OBVIOUS
<1>1. /\ slot \in [Slots -> Header] /\ may \in [Slots -> SUBSET Header]
      /\ TargetIndex(slot) \in Slots /\ cur \in Header
      /\ cur.guid \in Guids \cup {Nil} /\ cur.log \in LogGuids \cup {Nil}
      /\ new \in Guids \cup {Nil} /\ Nil \in LogGuids \cup {Nil}
      /\ \A i \in Slots : 1 - i \in Slots /\ \A j \in Slots : j = i \/ j = 1 - i
      /\ ~Torn.ok
  BY IndexType DEF TypeOK, Header, Slots, Torn
<1>2. ASSUME NEW i \in Slots, Tear(i), used' = used, retired' = retired PROVE NoRetired'
  BY <1>1, <1>2, TearEffect DEF NoRetired
<1>3. ASSUME NEW i \in Slots, NEW h \in Header, NEW n \in PCs \ {"idle"}, Put(i, h, n),
             used' = used, retired' = retired, h.guid \notin retired, pc # "idle",
             n \in {"merge2", "merge_sync"} => pc \in {"merge1", "merge2"},
             n \notin {"merge1", "merge_ok"}
      PROVE  NoRetired'
  <2>1. /\ slot'[i] = h /\ slot'[1 - i] = slot[1 - i]
        /\ may'[i] = may[i] \cup {h, Torn} /\ may'[1 - i] = may[1 - i]
        /\ pc' = n /\ cur' = cur /\ new' = new
    BY <1>3, PutEffect
  <2>2. \A j \in Slots : slot'[j] \in may'[j]
    BY <1>1, <1>3, <2>1 DEF NoRetired
  <2>3. \A j \in Slots : \A k \in may'[j] : k.ok => k.guid \notin retired
    BY <1>1, <1>3, <2>1 DEF NoRetired
  <2> QED
    BY <1>3, <2>1, <2>2, <2>3 DEF NoRetired
<1>4. ASSUME NEW g \in Guids \cup {Nil}, NEW l \in LogGuids \cup {Nil}
      PROVE  Successor(cur, g, l) \in Header /\ Successor(cur, g, l).guid = g
  <2>1. Successor(cur, g, l) \in Header
    BY <1>1, SuccessorType
  <2> QED
    BY <2>1 DEF Successor
<1>5. ASSUME pc # "idle" PROVE cur.guid \notin retired
  BY <1>5 DEF NoRetired
<1>6. CASE FsckRepair1 \/ FsckRepair2 \/ FsckMarkClean
  BY <1>1, <1>2, <1>3, <1>4, <1>5, <1>6 DEF FsckRepair1, FsckRepair2, FsckMarkClean, WriteNew, History, PCs
<1>7. CASE MergeWrite1 \/ MergeWrite2
  BY <1>1, <1>2, <1>3, <1>4, <1>7 DEF MergeWrite1, MergeWrite2, WriteNew, History, PCs, NoRetired
<1>8. CASE ForceWrite0 \/ ForceWrite1
  BY <1>1, <1>2, <1>3, <1>4, <1>5, <1>8 DEF ForceWrite0, ForceWrite1, PCs, Slots
<1>9. ASSUME Synced, slot' = slot PROVE \A i \in Slots : may'[i] = {slot'[i]} /\ slot'[i] \in may[i]
  BY <1>1, <1>9 DEF Synced, NoRetired
<1>10. CASE FsckReplay \/ MergeSync \/ ForceSync \/ Writeback
  BY <1>9, <1>10 DEF FsckReplay, MergeSync, ForceSync, Writeback, NoRetired, Continue, End, History
<1>11. CASE FsckOpen \/ MergeOpen \/ ForceOpen
  <2>1. Readable(slot) /\ cur' = Active(slot) /\ retired' = retired /\ may' = may /\ slot' = slot
    BY <1>11 DEF FsckOpen, MergeOpen, ForceOpen, History
  <2>2. Active(slot).ok /\ \E i \in Slots : Active(slot) = slot[i]
    BY <1>1, <2>1 DEF Active, ActiveIndex, Readable, BothValid, Slots
  <2>3. Active(slot).guid \notin retired
    BY <2>2 DEF NoRetired
  <2> QED
    BY <1>11, <2>1, <2>3 DEF FsckOpen, MergeOpen, ForceOpen, NoRetired, History
<1>12. CASE FsckDiscard \/ FsckNoLog \/ FsckReturn \/ Kill
  BY <1>12 DEF FsckDiscard, FsckNoLog, FsckReturn, Kill, Continue, End, NoRetired, History
<1>13. CASE MergeReturn
  <2>1. \A i \in Slots : may[i] = {slot[i]} /\ slot[i] = Successor(cur, new, Nil)
    BY <1>13 DEF MergeReturn, Protocol, Merge3
  <2>2. \A i \in Slots : slot[i].guid = new
    BY <1>1, <1>4, <2>1
  <2> QED
    BY <1>13, <2>1, <2>2 DEF MergeReturn, End, NoRetired
<1>14. CASE PowerLoss
  <2>1. slot' \in [Slots -> may[0] \cup may[1]] /\ \A i \in Slots : slot'[i] \in may[i]
    BY <1>14 DEF PowerLoss, Outcomes
  <2>2. \A i \in Slots : may'[i] = {slot'[i]}
    BY <1>14 DEF PowerLoss
  <2>3. \A i \in Slots : slot'[i].ok => slot'[i].guid \notin retired
    BY <2>1 DEF NoRetired
  <2>4. \A i \in Slots : \A h \in may'[i] : h.ok => h.guid \notin retired
    BY <2>2, <2>3
  <2> QED
    BY <1>14, <2>2, <2>4 DEF PowerLoss, End, NoRetired
<1>15. CASE UNCHANGED vars
  BY <1>15 DEF vars, NoRetired
<1> QED
  BY <1>6, <1>7, <1>8, <1>10, <1>11, <1>12, <1>13, <1>14, <1>15 DEF Next

\* A retired guid cannot be the guid of any header a reader can come to see.
LEMMA RetiredUnseen == TypeOK /\ NoRetired => CommittedGuidSurvives
<1> SUFFICES ASSUME TypeOK, NoRetired, NEW o \in Outcomes, Readable(o)
             PROVE  Active(o).guid \notin retired
  BY DEF CommittedGuidSurvives
<1>1. \A i \in Slots : o[i] \in may[i]
  BY DEF Outcomes
<1>2. \E i \in Slots : Active(o) = o[i] /\ o[i].ok
  BY DEF Active, ActiveIndex, Readable, BothValid, Slots
<1> QED
  BY <1>1, <1>2 DEF NoRetired

-----------------------------------------------------------------------------
(* The results.                                                            *)

\* The conjunction of all of the above holds in every reachable state.
LEMMA Inductive == Spec => []IInv
<1>1. Init => Protocol /\ FsckLeavesClean /\ AlwaysReadable /\ TieSameGuid /\ NoRetired
  BY InitIInv
<1>2. TypeOK /\ Protocol /\ FsckLeavesClean /\ AlwaysReadable /\ TieSameGuid /\ NoRetired /\ [Next]_vars
      => (Protocol /\ FsckLeavesClean /\ AlwaysReadable /\ TieSameGuid /\ NoRetired)'
  BY ProtocolStep, ReaderStep, RetiredStep
<1> QED
  BY <1>1, <1>2, TypeCorrect, PTL DEF Spec, IInv

\* Killing fsck or merge at any point of their header updates leaves a valid
\* header (HeaderPair::read succeeds), for every file and every history.
THEOREM KillSafe == Spec => []AlwaysReadable
BY Inductive, PTL DEF IInv

\* fsck's report "replayed/discarded" is true of the header a reader picks.
THEOREM FsckReportTrue == Spec => []FsckLeavesClean
BY Inductive, PTL DEF IInv

\* A DataWriteGuid superseded by a finished merge never comes back, whatever
\* a power loss keeps of the unsynced header writes that follow.
THEOREM NoGuidResurrection == Spec => []CommittedGuidSurvives
<1>1. IInv => CommittedGuidSurvives
  BY RetiredUnseen DEF IInv
<1> QED
  BY <1>1, Inductive, PTL

\* Without power loss the DataWriteGuid changes only at merge's first header
\* write, to that merge's new guid.
THEOREM GuidStable == Spec => GuidChangesOnlyByMerge
<1>1. IInv /\ [Next]_vars => [GuidChange]_vars
  BY ReaderStep DEF IInv
<1> QED
  BY <1>1, Inductive, PTL DEF Spec, GuidChangesOnlyByMerge
=============================================================================
