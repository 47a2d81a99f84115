---------------------------- MODULE RepairProofs ----------------------------
(***************************************************************************)
(* Repair implements HeaderPair: whatever fsck does to region tables, to   *)
(* the pages of the log and to itself when it is killed, its effect on the *)
(* headers is one of HeaderPair's steps or none.  So the header theorems   *)
(* hold of the composed fsck as well, and its invariant IInv is available  *)
(* for the properties of the pages and region tables, which need one of    *)
(* their own (RInv).                                                       *)
(***************************************************************************)
EXTENDS HeaderPairProofs, Repair

\* Every step of fsck on the whole file is a header step or changes no
\* header state: the writes of region tables and pages, complete or cut
\* short, happen between two header steps.
LEMMA HeaderStep == ASSUME [RNext]_rvars PROVE [Next]_vars
<1>1. CASE OpenFix
  BY <1>1 DEF OpenFix, Next
<1>2. CASE RepairHeaders
  BY <1>2 DEF RepairHeaders, Next
<1>3. ASSUME NEW i, NEW next, pc = "log", WriteRegion(i, next) PROVE [Next]_vars
  <2>1. CASE UNCHANGED <<pc, cur, new>>
    BY <1>3, <2>1 DEF WriteRegion, History, vars
  <2>2. CASE End
    BY <1>3, <2>2 DEF WriteRegion, Kill, Next
  <2> QED BY <1>3, <2>1, <2>2 DEF WriteRegion
<1>4. CASE RepairRegion0 \/ RepairRegion1
  BY <1>3, <1>4 DEF RepairRegion0, RepairRegion1
<1>5. CASE ReplayWrite
  <2>1. CASE UNCHANGED <<pc, cur, new>>
    BY <1>5, <2>1 DEF ReplayWrite, History, vars
  <2>2. CASE End
    BY <1>5, <2>2 DEF ReplayWrite, Kill, Next
  <2> QED BY <1>5, <2>1, <2>2 DEF ReplayWrite
<1>6. CASE ReplayDone \/ Discard \/ NoLog
  BY <1>6 DEF ReplayDone, Discard, NoLog, Next
<1>7. CASE MarkClean \/ Return
  BY <1>7 DEF MarkClean, Return, Next
<1>8. CASE Stop \/ Settle \/ Blackout
  BY <1>8 DEF Stop, Settle, Blackout, Next
<1>9. CASE UNCHANGED rvars
  BY <1>9 DEF rvars
<1> QED BY <1>1, <1>2, <1>4, <1>5, <1>6, <1>7, <1>8, <1>9 DEF RNext

\* Refinement: the composed fsck, its headers alone considered, is a
\* behaviour of the header protocol.
THEOREM RepairImplementsHeaderPair == RSpec => Spec
<1>1. RInit => Init
  BY DEF RInit
<1>2. [RNext]_rvars => [Next]_vars
  BY HeaderStep
<1> QED BY <1>1, <1>2, PTL DEF RSpec, Spec

\* Neither the repair of region tables nor the replay of the log adds a way
\* for a killed fsck to leave the file without a valid header.
THEOREM RepairKillSafe == RSpec => []AlwaysReadable
BY RepairImplementsHeaderPair, KillSafe, PTL

\* Once the composed fsck says the log is empty, the header a reader picks
\* says so too.
THEOREM RepairReportTrue == RSpec => []FsckLeavesClean
BY RepairImplementsHeaderPair, FsckReportTrue, PTL

-----------------------------------------------------------------------------
(* The invariant of the composed fsck.                                     *)

\* What the property calls safe: the log's contents are on disk for good, or
\* the log was unusable and a caller gave it up.
Safe == \/ log # <<>> /\ \A i \in 1..Len(log) :
                              LastWrite(i) => pmay[log[i].page] = {log[i].val}
        \/ log = <<>> /\ allowed

\* Before the log is dealt with, no outcome of a power loss has it empty,
\* unless fsck found it empty or began on unwritten headers.
LogKept == ~rushed /\ pc \in {"repair1", "repair2", "log"} /\ cur.log # Nil => ~MayBeClean

\* During the repair of a torn header, every valid header that is or can
\* come back on disk carries the log of fsck's copy.
RepairMay ==
    ~rushed /\ pc \in {"repair1", "repair2"} =>
        \A i \in Slots : \A h \in may[i] : h.ok => h.log = cur.log

SafeClean == pc = "clean" => Safe

\* The prefix of the log applied so far is what its pages hold.
Applied ==
    pc \in {"repair1", "repair2", "log"} =>
        \A i \in 1..idx :
            (\A j \in (i + 1)..idx : log[j].page # log[i].page)
                => page[log[i].page] = log[i].val

PageMay == \A p \in Pages : page[p] \in pmay[p]

\* Which region tables are valid at each step of a running fsck.
RegionsDone ==
    /\ pc # "idle" => /\ step = "scan" => reg[0] /\ reg[1]
                      /\ step = "region1" => reg[0]
    /\ pc \in {"clean", "fsck_ok"} => step = "scan"

RInv == /\ PageMay /\ CleanOnlyWhenReplayed /\ LogKept /\ RepairMay
        /\ SafeClean /\ Applied /\ RegionsDone

-----------------------------------------------------------------------------
(* Type correctness.                                                       *)

\* The elements of a sequence over E.
LEMMA SeqElements ==
    ASSUME NEW E, NEW s \in Seq(E)
    PROVE  Len(s) \in Nat /\ \A i \in 1..Len(s) : s[i] \in E
OBVIOUS

\* The entries of the log are pages and values.
LEMMA LogEntries ==
    ASSUME log \in LogChoices
    PROVE  /\ Len(log) \in Nat
           /\ \A i \in 1..Len(log) : log[i].page \in Pages /\ log[i].val \in Vals
<1>1. log \in Seq([page : Pages, val : Vals])
  BY PagesAssumption
<1>2. Len(log) \in Nat /\ \A i \in 1..Len(log) : log[i] \in [page : Pages, val : Vals]
  BY <1>1, SeqElements
<1> QED BY <1>2

\* fsck stays within the type of the file and of its own variables.
LEMMA RTypeStep ==
    ASSUME RTypeOK, TypeOK', [RNext]_rvars
    PROVE  RTypeOK'
<1> USE DEF RTypeOK
<1>0. /\ Len(log) \in Nat
      /\ \A i \in 1..Len(log) : log[i].page \in Pages /\ log[i].val \in Vals
  BY LogEntries
<1>1. CASE OpenFix
  BY <1>0, <1>1 DEF OpenFix, fileVars, Steps
<1>2. CASE RepairHeaders \/ NoLog \/ MarkClean \/ Return \/ Stop
  BY <1>2 DEF RepairHeaders, NoLog, MarkClean, Return, Stop, fileVars, runVars, past
<1>3. ASSUME NEW i \in Slots, NEW next \in Steps, WriteRegion(i, next) PROVE RTypeOK'
  <2>1. CASE UNCHANGED <<reg, rmay, step>>
    BY <1>3, <2>1 DEF WriteRegion, past
  <2>2. CASE /\ reg' = [reg EXCEPT ![i] = TRUE] /\ step' = next
             /\ rmay' = [rmay EXCEPT ![i] = @ \cup {TRUE}]
    <3>1. reg' \in [Slots -> BOOLEAN]
      BY <2>2, Zenon
    <3>2. rmay[i] \cup {TRUE} \in SUBSET BOOLEAN
      BY Zenon
    <3>3. rmay' \in [Slots -> SUBSET BOOLEAN]
      BY <2>2, <3>2, Zenon
    <3> QED BY <1>3, <2>2, <3>1, <3>3 DEF WriteRegion, past
  <2> QED BY <1>3, <2>1, <2>2 DEF WriteRegion
<1>9. CASE RepairRegion0 \/ RepairRegion1
  BY <1>3, <1>9 DEF RepairRegion0, RepairRegion1, Steps, Slots
<1>4. CASE ReplayWrite
  BY <1>0, <1>4 DEF ReplayWrite, ReplayNext, past
<1>5. CASE ReplayDone \/ Settle
  BY <1>5 DEF ReplayDone, Settle, runVars, past
<1>6. CASE Discard
  BY <1>6 DEF Discard, fileVars, runVars
<1>7. CASE Blackout
  BY <1>7 DEF Blackout, runVars, past
<1>8. CASE UNCHANGED rvars
  BY <1>8 DEF rvars, fileVars, runVars, past
<1> QED BY <1>1, <1>2, <1>4, <1>5, <1>6, <1>7, <1>8, <1>9 DEF RNext

\* Type correctness of the composed fsck: its steps come in order and it
\* never applies a descriptor the log does not have.
THEOREM RTypeCorrect == RSpec => []RTypeOK
<1>1. ASSUME RInit, TypeOK PROVE RTypeOK
  <2>1. Len(log) \in Nat
    BY <1>1, LogEntries DEF RInit
  <2>2. page \in [Pages -> Vals \cup {Garbage}] /\ pmay \in [Pages -> SUBSET (Vals \cup {Garbage})]
    BY <1>1 DEF RInit
  <2>3. reg \in [Slots -> BOOLEAN] /\ rmay \in [Slots -> SUBSET BOOLEAN]
    BY <1>1 DEF RInit
  <2>4. discard \in BOOLEAN /\ dirty \in BOOLEAN /\ allowed \in BOOLEAN /\ rushed \in BOOLEAN
    BY <1>1, Zenon DEF RInit
  <2> QED BY <1>1, <2>1, <2>2, <2>3, <2>4 DEF RInit, RTypeOK, Steps
<1>2. RTypeOK /\ TypeOK' /\ [RNext]_rvars => RTypeOK'
  BY RTypeStep
<1> QED BY <1>1, <1>2, RepairImplementsHeaderPair, TypeCorrect, PTL DEF RSpec

-----------------------------------------------------------------------------
(* What a power loss can leave.                                            *)

\* Nothing but what is there now is one possible outcome.
LEMMA SlotIsOutcome ==
    ASSUME TypeOK, NoRetired
    PROVE  slot \in Outcomes
BY DEF Outcomes, TypeOK, NoRetired, Slots

\* The header a reader picks of an outcome is one of its valid ones.
LEMMA ActiveOfOutcome ==
    ASSUME NEW o, Readable(o)
    PROVE  \E i \in Slots : Active(o) = o[i] /\ o[i].ok
BY DEF Active, ActiveIndex, Readable, BothValid, Slots

\* When less can come back, a file that can become clean could before.
LEMMA FewerOutcomes ==
    ASSUME \A i \in Slots : may'[i] \subseteq may[i], MayBeClean'
    PROVE  MayBeClean
<1>1. PICK o \in Outcomes' : Readable(o) /\ Active(o).log = Nil
  BY DEF MayBeClean
<1>2. /\ o \in [Slots -> may'[0] \cup may'[1]]
      /\ \A i \in Slots : o[i] \in may'[i]
  BY <1>1 DEF Outcomes
<1>3. o \in [Slots -> may[0] \cup may[1]] /\ \A i \in Slots : o[i] \in may[i]
  BY <1>2 DEF Slots
<1>4. o \in Outcomes
  BY <1>3 DEF Outcomes
<1> QED BY <1>1, <1>4 DEF MayBeClean

\* What is safe stays safe when each page settles on one of its contents.
LEMMA SafeSettles ==
    ASSUME RTypeOK, Safe, log' = log, allowed' = allowed,
           \A p \in Pages : pmay'[p] = {page'[p]} /\ page'[p] \in pmay[p]
    PROVE  Safe'
<1>1. CASE log = <<>>
  BY <1>1 DEF Safe
<1>2. CASE log # <<>>
  <2>1. ASSUME NEW i \in 1..Len(log), LastWrite(i)'
        PROVE  pmay'[log[i].page] = {log[i].val}
    <3>1. pmay[log[i].page] = {log[i].val} /\ log[i].page \in Pages
      BY <1>2, <2>1, LogEntries DEF Safe, LastWrite, RTypeOK
    <3> QED BY <3>1
  <2> QED BY <1>2, <2>1 DEF Safe
<1> QED BY <1>1, <1>2

\* A step that leaves the headers, the pages, the log and the step of fsck
\* alone, or ends fsck, keeps everything but the region tables in order.
LEMMA Untouched ==
    ASSUME RInv, RegionsDone', UNCHANGED <<slot, may, log, page, pmay, dirty, allowed, rushed>>,
           \/ pc' = pc /\ cur' = cur /\ idx' = idx
           \/ pc' \notin {"repair1", "repair2", "log", "clean"}
    PROVE  RInv'
<1>1. MayBeClean' <=> MayBeClean
  BY DEF MayBeClean, Outcomes
<1>2. Safe' <=> Safe
  BY DEF Safe, LastWrite
<1>3. PageMay' /\ CleanOnlyWhenReplayed'
  BY <1>1, <1>2 DEF RInv, PageMay, CleanOnlyWhenReplayed, Safe
<1>4. LogKept' /\ RepairMay' /\ SafeClean' /\ Applied'
  BY <1>1, <1>2 DEF RInv, LogKept, RepairMay, SafeClean, Applied
<1> QED BY <1>3, <1>4 DEF RInv

\* The same for a step that makes the device and the cache agree.
LEMMA Settles ==
    ASSUME RTypeOK, RInv, RegionsDone', UNCHANGED <<log, dirty, allowed, rushed>>,
           \A i \in Slots : may'[i] \subseteq may[i],
           \A p \in Pages : pmay'[p] = {page'[p]} /\ page'[p] \in pmay[p],
           \/ pc' = pc /\ cur' = cur /\ idx' = idx /\ page' = page
           \/ pc' = "idle"
    PROVE  RInv'
<1>1. MayBeClean' => MayBeClean
  BY FewerOutcomes
<1>2. Safe => Safe'
  BY SafeSettles
<1>3. CleanOnlyWhenReplayed'
  BY <1>1, <1>2 DEF RInv, CleanOnlyWhenReplayed, Safe
<1>4. PageMay' /\ LogKept' /\ RepairMay' /\ SafeClean' /\ Applied'
  BY <1>1, <1>2 DEF RInv, PageMay, LogKept, RepairMay, SafeClean, Applied
<1> QED BY <1>3, <1>4 DEF RInv

-----------------------------------------------------------------------------
(* The steps.                                                              *)

\* fsck leaves the region tables only when both are valid.
LEMMA RegionStep ==
    ASSUME RTypeOK, RegionsDone, [RNext]_rvars
    PROVE  RegionsDone'
<1> USE DEF RegionsDone
<1>0. 0 \in Slots /\ 1 \in Slots /\ reg \in [Slots -> BOOLEAN]
  BY DEF Slots, RTypeOK
<1>1. CASE OpenFix
  BY <1>1 DEF OpenFix, FsckOpen, fileVars
<1>2. CASE RepairHeaders
  BY <1>2 DEF RepairHeaders, FsckRepair1, FsckRepair2, WriteNew, Put, Tear, Continue, End, fileVars, runVars
<1>3. CASE RepairRegion0
  BY <1>0, <1>3 DEF RepairRegion0, WriteRegion, End
<1>4. CASE RepairRegion1
  BY <1>0, <1>4 DEF RepairRegion1, WriteRegion, End
<1>5. CASE ReplayWrite
  BY <1>5 DEF ReplayWrite, End
<1>6. CASE ReplayDone
  BY <1>6 DEF ReplayDone, FsckReplay, Continue, runVars
<1>7. CASE Discard \/ NoLog \/ MarkClean \/ Return
  BY <1>7 DEF Discard, NoLog, MarkClean, Return, FsckDiscard, FsckNoLog, FsckMarkClean, FsckReturn,
     WriteNew, Put, Tear, Continue, End, fileVars, runVars
<1>8. CASE Stop \/ Blackout
  BY <1>8 DEF Stop, Blackout, Kill, PowerLoss, End
<1>9. CASE Settle
  BY <1>9 DEF Settle, Writeback, runVars
<1>10. CASE UNCHANGED rvars
  BY <1>10 DEF rvars, vars, fileVars, runVars
<1> QED
  BY <1>1, <1>2, <1>3, <1>4, <1>5, <1>6, <1>7, <1>8, <1>9, <1>10 DEF RNext

\* Opening: the log is read off the active header, and with no header write
\* pending that is the header every power loss would leave.
LEMMA OpenStep ==
    ASSUME TypeOK, RInv, RegionsDone', OpenFix
    PROVE  RInv'
<1>1. /\ Readable(slot) /\ cur' = Active(slot) /\ idx' = 0
      /\ pc' = IF BothValid(slot) THEN "log" ELSE "repair1"
      /\ ~rushed' => ~rushed /\ \A i \in Slots : may[i] = {slot[i]}
      /\ UNCHANGED <<slot, may, log, page, pmay, dirty, allowed>>
  BY DEF OpenFix, FsckOpen, fileVars
<1>2. ASSUME ~rushed', NEW o \in Outcomes PROVE Active(o).log = cur'.log
  <2>1. o[0] = slot[0] /\ o[1] = slot[1]
    BY <1>1, <1>2 DEF Outcomes, Slots
  <2> QED BY <1>1, <2>1 DEF Active, ActiveIndex, BothValid
<1>3. MayBeClean' <=> MayBeClean
  BY <1>1 DEF MayBeClean, Outcomes
<1>4. LogKept'
  BY <1>2, <1>3 DEF LogKept, MayBeClean
<1>5. RepairMay'
  BY <1>1 DEF RepairMay, Active, ActiveIndex, BothValid, Readable, Slots
<1>6. SafeClean' /\ Applied'
  BY <1>1 DEF SafeClean, Applied
<1>7. PageMay' /\ CleanOnlyWhenReplayed'
  BY <1>1, <1>3 DEF RInv, PageMay, CleanOnlyWhenReplayed, LastWrite
<1> QED BY <1>4, <1>5, <1>6, <1>7 DEF RInv

\* Repairing a torn header: with a log, no outcome is clean; without one,
\* the file was clean before.
LEMMA HeaderRepairStep ==
    ASSUME IInv, RTypeOK, RInv, RegionsDone', RepairHeaders
    PROVE  RInv'
<1> DEFINE t == TargetIndex(slot)
           h == Successor(cur, cur.guid, cur.log)
<1>1. /\ pc \in {"repair1", "repair2"}
      /\ UNCHANGED <<log, page, pmay, idx, dirty, allowed, rushed>>
  BY DEF RepairHeaders, FsckRepair1, FsckRepair2, fileVars, runVars, past
<1>2. \/ \E n \in {"repair2", "log"} : Put(t, h, n)
      \/ Tear(t)
  BY DEF RepairHeaders, FsckRepair1, FsckRepair2, WriteNew
<1>3. /\ TypeOK /\ t \in Slots /\ h \in Header /\ h.ok /\ h.log = cur.log
      /\ ~Torn.ok /\ \A j \in Slots : j = t \/ j = 1 - t
  <2>1. TypeOK /\ cur \in Header /\ cur.guid \in Guids \cup {Nil} /\ cur.log \in LogGuids \cup {Nil}
    BY DEF IInv, TypeOK, Header
  <2>2. t \in Slots /\ \A j \in Slots : j = t \/ j = 1 - t
    BY IndexType DEF Slots
  <2> QED BY <2>1, <2>2, SuccessorType DEF Successor, Torn
<1>4. \/ pc' \in {"repair2", "log"} /\ cur' = cur
      \/ pc' = "idle"
  BY <1>2, <1>3, PutEffect, TearEffect
<1>5. may'[1 - t] = may[1 - t] /\ may'[t] \subseteq may[t] \cup {h, Torn}
  BY <1>2, <1>3, PutEffect, TearEffect
<1>6. ~rushed => \A i \in Slots : \A k \in may'[i] : k.ok => k.log = cur.log
  BY <1>1, <1>3, <1>5 DEF RInv, RepairMay
<1>7. ~rushed /\ cur.log # Nil => ~MayBeClean'
  <2> SUFFICES ASSUME ~rushed, NEW o \in Outcomes', Readable(o) PROVE Active(o).log = cur.log
    BY DEF MayBeClean
  <2>1. PICK i \in Slots : Active(o) = o[i] /\ o[i].ok
    BY ActiveOfOutcome
  <2>2. o[i] \in may'[i]
    BY DEF Outcomes
  <2> QED BY <1>6, <2>1, <2>2
<1>8. ~rushed /\ cur.log = Nil => MayBeClean
  <2> HAVE ~rushed /\ cur.log = Nil
  <2>1. Readable(slot) /\ slot \in Outcomes /\ \A i \in Slots : slot[i] \in may[i]
    <3>1. CASE pc = "repair1"
      BY <3>1, SlotIsOutcome DEF IInv, Protocol, Fsck1, NoRetired
    <3>2. CASE pc = "repair2"
      <4>1. PICK i \in Slots : slot[i] = cur /\ slot[1 - i] = h
        BY <3>2 DEF IInv, Protocol, Fsck2
      <4>2. Readable(slot)
        BY <1>3, <4>1 DEF Readable, Slots
      <4> QED BY <4>2, SlotIsOutcome DEF IInv, NoRetired
    <3> QED BY <1>1, <3>1, <3>2
  <2>2. PICK i \in Slots : Active(slot) = slot[i] /\ slot[i].ok
    BY <2>1, ActiveOfOutcome
  <2>3. Active(slot).log = cur.log
    BY <1>1, <2>1, <2>2 DEF RInv, RepairMay
  <2> QED BY <2>1, <2>3 DEF MayBeClean
<1>9. CleanOnlyWhenReplayed'
  BY <1>1, <1>7, <1>8 DEF RInv, CleanOnlyWhenReplayed, LastWrite
<1>10. LogKept' /\ RepairMay'
  BY <1>1, <1>4, <1>6, <1>7 DEF LogKept, RepairMay
<1>11. PageMay' /\ SafeClean' /\ Applied'
  BY <1>1, <1>4 DEF RInv, PageMay, SafeClean, Applied
<1> QED BY <1>9, <1>10, <1>11 DEF RInv

\* One write of apply_replay: the header on disk still names the log.
LEMMA ReplayWriteStep ==
    ASSUME RTypeOK, RInv, RegionsDone', ReplayWrite
    PROVE  RInv'
<1> DEFINE k == idx + 1
           q == log[k].page
           v == log[k].val
<1>1. /\ pc = "log" /\ cur.log # Nil /\ k \in 1..Len(log)
      /\ UNCHANGED <<slot, may, log, dirty, allowed, rushed>>
  BY LogEntries DEF ReplayWrite, ReplayNext, RTypeOK, past
<1>2. q \in Pages /\ v \in Vals /\ idx \in Nat /\ Len(log) \in Nat
  BY <1>1, LogEntries DEF RTypeOK
<1>3. /\ pmay' = [pmay EXCEPT ![q] = @ \cup {v, Garbage}]
      /\ \/ page' = [page EXCEPT ![q] = v] /\ idx' = k /\ pc' = pc /\ cur' = cur
         \/ page' = [page EXCEPT ![q] = Garbage] /\ pc' = "idle"
  BY DEF ReplayWrite, ReplayNext, End
<1>4. ~rushed => ~MayBeClean'
  <2>1. ~rushed => ~MayBeClean
    BY <1>1 DEF RInv, LogKept
  <2> QED BY <1>1, <2>1 DEF MayBeClean, Outcomes
<1>5. PageMay'
  BY <1>2, <1>3 DEF RInv, PageMay, RTypeOK
<1>6. Applied'
  <2> SUFFICES ASSUME pc' = "log", NEW i \in 1..idx',
                      \A j \in (i + 1)..idx' : log[j].page # log[i].page
               PROVE  page'[log[i].page] = log[i].val
    BY <1>1, <1>3 DEF Applied
  <2>1. page' = [page EXCEPT ![q] = v] /\ idx' = k
    BY <1>3
  <2>2. log[i].page \in Pages
    BY <1>1, <1>2, <2>1, LogEntries DEF RTypeOK
  <2>3. CASE i = k
    BY <1>2, <2>1, <2>3 DEF RTypeOK
  <2>4. CASE i # k
    <3>1. i \in 1..idx /\ k \in (i + 1)..idx' /\ \A j \in (i + 1)..idx : j \in (i + 1)..idx'
      BY <1>2, <2>1, <2>4
    <3>2. page[log[i].page] = log[i].val /\ log[i].page # q
      BY <1>1, <3>1 DEF RInv, Applied
    <3> QED BY <2>1, <2>2, <3>2 DEF RTypeOK
  <2> QED BY <2>3, <2>4
<1>7. LogKept' /\ RepairMay' /\ SafeClean' /\ CleanOnlyWhenReplayed'
  BY <1>1, <1>3, <1>4 DEF LogKept, RepairMay, SafeClean, CleanOnlyWhenReplayed
<1> QED BY <1>5, <1>6, <1>7 DEF RInv

\* The end of apply_replay: all of the log is applied and synced.
LEMMA ReplayDoneStep ==
    ASSUME IInv, RTypeOK, RInv, RegionsDone', ReplayDone
    PROVE  RInv'
<1>1. /\ pc = "log" /\ pc' = "clean" /\ log # <<>> /\ idx + 1 > Len(log)
      /\ UNCHANGED <<log, page, idx, dirty, allowed, rushed>>
      /\ \A p \in Pages : pmay'[p] = {page[p]}
  BY DEF ReplayDone, ReplayNext, FsckReplay, Continue, runVars, past
<1>2. Len(log) \in Nat /\ idx = Len(log)
  BY <1>1, LogEntries DEF RTypeOK
<1>3. ASSUME NEW i \in 1..Len(log), LastWrite(i) PROVE pmay'[log[i].page] = {log[i].val}
  <2>1. page[log[i].page] = log[i].val
    BY <1>1, <1>2, <1>3 DEF RInv, Applied, LastWrite
  <2> QED BY <1>1, <1>3, <2>1, LogEntries DEF RTypeOK
<1>4. Safe'
  BY <1>1, <1>3 DEF Safe, LastWrite
<1>5. CleanOnlyWhenReplayed' /\ SafeClean'
  BY <1>4 DEF CleanOnlyWhenReplayed, SafeClean, Safe
<1>6. PageMay' /\ LogKept' /\ RepairMay' /\ Applied'
  BY <1>1 DEF PageMay, LogKept, RepairMay, Applied
<1> QED BY <1>5, <1>6 DEF RInv

\* Marking the log clean, complete or cut short: what it held is safe.
LEMMA MarkCleanStep ==
    ASSUME RTypeOK, RInv, RegionsDone', MarkClean
    PROVE  RInv'
<1>1. /\ pc = "clean" /\ pc' \in {"fsck_ok", "idle"}
      /\ UNCHANGED <<log, page, pmay, dirty, allowed, rushed>>
  BY DEF MarkClean, FsckMarkClean, WriteNew, Put, Tear, Continue, End, fileVars, past
<1>2. Safe'
  BY <1>1 DEF RInv, SafeClean, Safe, LastWrite
<1>3. CleanOnlyWhenReplayed' /\ SafeClean'
  BY <1>2 DEF CleanOnlyWhenReplayed, SafeClean, Safe
<1>4. PageMay' /\ LogKept' /\ RepairMay' /\ Applied'
  BY <1>1 DEF RInv, PageMay, LogKept, RepairMay, Applied
<1> QED BY <1>3, <1>4 DEF RInv

\* The invariant is inductive, given the one of the header pair.
LEMMA RInvStep ==
    ASSUME IInv, RTypeOK, RInv, [RNext]_rvars
    PROVE  RInv'
<1>0. RegionsDone' /\ TypeOK
  BY RegionStep DEF RInv, IInv
<1>1. CASE OpenFix
  BY <1>0, <1>1, OpenStep
<1>2. CASE RepairHeaders
  BY <1>0, <1>2, HeaderRepairStep
<1>3. CASE RepairRegion0 \/ RepairRegion1
  <2>1. /\ UNCHANGED <<slot, may, log, page, pmay, idx, dirty, allowed, rushed>>
        /\ (pc' = pc /\ cur' = cur) \/ pc' = "idle"
    BY <1>3 DEF RepairRegion0, RepairRegion1, WriteRegion, End, past
  <2> QED BY <1>0, <2>1, Untouched
<1>4. CASE ReplayWrite
  BY <1>0, <1>4, ReplayWriteStep
<1>5. CASE ReplayDone
  BY <1>0, <1>5, ReplayDoneStep
<1>6. CASE Discard
  <2>1. /\ pc = "log" /\ log = <<>> /\ pc' = (IF discard THEN "clean" ELSE "idle")
        /\ allowed' = (allowed \/ discard)
        /\ UNCHANGED <<slot, may, log, page, pmay, dirty, rushed>>
    BY <1>6 DEF Discard, FsckDiscard, fileVars
  <2>2. CASE discard
    <3>1. Safe'
      BY <2>1, <2>2 DEF Safe
    <3>2. CleanOnlyWhenReplayed' /\ SafeClean'
      BY <3>1 DEF CleanOnlyWhenReplayed, SafeClean, Safe
    <3>3. PageMay' /\ LogKept' /\ RepairMay' /\ Applied'
      BY <2>1, <2>2 DEF RInv, PageMay, LogKept, RepairMay, Applied
    <3> QED BY <1>0, <3>2, <3>3 DEF RInv
  <2>3. CASE ~discard
    <3>1. allowed' = allowed
      BY <2>1, <2>3 DEF RTypeOK
    <3> QED BY <1>0, <2>1, <2>3, <3>1, Untouched
  <2> QED BY <2>2, <2>3
<1>7. CASE NoLog \/ Return \/ Stop
  <2>1. /\ UNCHANGED <<slot, may, log, page, pmay, dirty, allowed, rushed>>
        /\ pc' = "idle"
    BY <1>7 DEF NoLog, Return, Stop, FsckNoLog, FsckReturn, Kill, End, fileVars, past
  <2> QED BY <1>0, <2>1, Untouched
<1>8. CASE MarkClean
  BY <1>0, <1>8, MarkCleanStep
<1>9. CASE Settle
  <2>1. /\ UNCHANGED <<log, dirty, allowed, rushed, pc, cur, idx, page>>
        /\ \A i \in Slots : may'[i] = {slot[i]}
        /\ \A p \in Pages : pmay'[p] = {page[p]}
    BY <1>9 DEF Settle, Writeback, Synced, runVars, past
  <2> QED BY <1>0, <2>1, Settles DEF IInv, NoRetired, RInv, PageMay
<1>10. CASE Blackout
  <2>1. /\ UNCHANGED <<log, dirty, allowed, rushed>> /\ pc' = "idle"
        /\ \A i \in Slots : may'[i] = {slot'[i]} /\ slot'[i] \in may[i]
        /\ \A p \in Pages : pmay'[p] = {page'[p]} /\ page'[p] \in pmay[p]
    BY <1>10 DEF Blackout, PowerLoss, Outcomes, End, past
  <2> QED BY <1>0, <2>1, Settles
<1>11. CASE UNCHANGED rvars
  BY <1>0, <1>11, Untouched DEF rvars, vars, fileVars, runVars, past
<1> QED
  BY <1>1, <1>2, <1>3, <1>4, <1>5, <1>6, <1>7, <1>8, <1>9, <1>10, <1>11 DEF RNext

\* A file as fsck first finds it satisfies the invariant.
LEMMA RInvInit == ASSUME RInit PROVE RInv
<1>1. /\ pc = "idle" /\ \A i \in Slots : may[i] = {slot[i]}
      /\ \A p \in Pages : pmay[p] = {page[p]}
  BY DEF RInit, Init
<1>2. dirty => ~MayBeClean
  <2> SUFFICES ASSUME dirty, NEW o \in Outcomes PROVE Active(o).log # Nil
    BY DEF MayBeClean
  <2>1. o[0] = slot[0] /\ o[1] = slot[1]
    BY <1>1 DEF Outcomes, Slots
  <2>2. Active(o) = Active(slot)
    BY <2>1 DEF Active, ActiveIndex, BothValid
  <2> QED BY <2>2 DEF RInit
<1> QED
  BY <1>1, <1>2 DEF RInv, PageMay, CleanOnlyWhenReplayed, LogKept, RepairMay, SafeClean, Applied, RegionsDone

\* The invariant holds in every reachable state.
LEMMA RInductive == RSpec => []RInv
<1>1. RInit => RInv
  BY RInvInit
<1>2. IInv /\ RTypeOK /\ RInv /\ [RNext]_rvars => RInv'
  BY RInvStep
<1> QED BY <1>1, <1>2, RTypeCorrect, RepairImplementsHeaderPair, Inductive, PTL DEF RSpec

\* The log of a file that came with one is empty, now or after a power loss
\* at any moment of any number of runs of fsck, only when its contents are
\* safely in place or a caller gave them up, as long as no run has begun on
\* headers that an earlier one left in the kernel's cache alone.
THEOREM NoLogLost == RSpec => []CleanOnlyWhenReplayed
BY RInductive, PTL DEF RInv

\* When fsck gets as far as clearing the log, both headers and both region
\* tables are valid.
THEOREM BothCopiesRepaired == RSpec => []RepairsBoth
<1>1. IInv /\ RInv => RepairsBoth
  BY DEF IInv, Protocol, Fsck3, FsckLeavesClean, RInv, RegionsDone, RepairsBoth
<1> QED BY <1>1, RInductive, RepairImplementsHeaderPair, Inductive, PTL
=============================================================================
