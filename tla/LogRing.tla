------------------------------ MODULE LogRing ------------------------------
(***************************************************************************)
(* scan_log on the rings it can meet.  The ring is filled by the program   *)
(* that owns the disk (the hypervisor, external): it appends entries with  *)
(* consecutive sequence numbers, wraps onto entries whose updates it has   *)
(* flushed to their place in the file, may die with only some sectors of   *)
(* its last entry written, and starts a new log (fresh LogGuid) where the  *)
(* old one ended.  Afterwards one sector may be damaged.                   *)
(***************************************************************************)
EXTENDS LogScan

CONSTANTS Shapes,      \* descriptor lists an entry can have
          LogGuids,    \* LogGuids, in the order they are used
          MaxAppends,  \* bound on the number of appended entries
          Damages      \* subset of {"junk", "length", "payload"}

VARIABLES ring, guid, head, seq,
          tail,        \* entries from this sequence number on are not flushed
          written,     \* history: every entry written completely
          state        \* "open"; "torn" or "scattered" when the writer died in
                       \* an append, its sectors stored in order or not; "damaged"

vars == <<ring, guid, head, seq, tail, written, state>>

Init ==
    /\ ring = [c \in Cursors |-> Junk]
    /\ guid = 1 /\ head \in Cursors /\ seq = 1 /\ tail = 1
    /\ written = {} /\ state = "open"

\* The sectors of an entry, its header first.  The payload of a data sector
\* is identified by the sequence number and its place in the entry.
Image(desc) ==
    LET n == Len(SelectSeq(desc, LAMBDA d : d.kind = "data")) IN
    [i \in 0..n |->
        IF i = 0 THEN [k |-> "loge", len |-> n + 1, seq |-> seq,
                       guid |-> LogGuids[guid], desc |-> desc]
                 ELSE [k |-> "data", seq |-> seq, val |-> 10 * seq + i]]

Span(start, image) == {(start + i) % RingLen : i \in DOMAIN image}

Live == {e \in written : e.guid = guid /\ e.seq >= tail}

\* Room in the ring: an entry is never written over one that is still needed.
Room(image) == \A e \in Live : Span(e.start, e.image) \cap Span(head, image) = {}

\* The ring after writing those sectors of an image whose index is in `kept`.
Stored(image, kept) ==
    [c \in Cursors |->
        LET i == (c + RingLen - head) % RingLen
        IN  IF i \in kept THEN image[i] ELSE ring[c]]

Append_(desc) ==
    LET image == Image(desc) IN
    /\ state = "open" /\ seq <= MaxAppends /\ Room(image)
    /\ ring' = Stored(image, DOMAIN image)
    /\ head' = (head + Cardinality(DOMAIN image)) % RingLen
    /\ seq' = seq + 1
    /\ written' = written \cup {[seq |-> seq, guid |-> guid, start |-> head, image |-> image]}
    /\ UNCHANGED <<guid, tail, state>>

TornAppend(desc) ==
    LET image == Image(desc) IN
    /\ state = "open" /\ seq <= MaxAppends /\ Room(image)
    /\ \E kept \in SUBSET DOMAIN image :
          /\ kept # DOMAIN image
          /\ ring' = Stored(image, kept)
          /\ state' = IF kept = 0..(Cardinality(kept) - 1) THEN "torn" ELSE "scattered"
    /\ seq' = seq + 1
    /\ UNCHANGED <<guid, head, tail, written>>

\* Everything logged so far is in its place in the file.
Flush ==
    /\ state = "open" /\ tail < seq
    /\ tail' = seq
    /\ UNCHANGED <<ring, guid, head, seq, written, state>>

\* The log was emptied and a new one begins at the head.
NewLog ==
    /\ state \in {"open", "torn", "scattered"} /\ guid < Len(LogGuids)
    /\ guid' = guid + 1 /\ state' = "open" /\ tail' = seq
    /\ UNCHANGED <<ring, head, seq, written>>

Damage(c) ==
    /\ state \in {"open", "torn", "scattered"} /\ ring[c].k # "junk"
    /\ \/ "junk" \in Damages /\ ring' = [ring EXCEPT ![c] = Junk]
       \/ "length" \in Damages /\ ring[c].k = "loge" /\ ring' = [ring EXCEPT ![c].len = 0]
       \/ "payload" \in Damages /\ ring[c].k = "data" /\ ring' = [ring EXCEPT ![c].val = 1]
    /\ state' = "damaged"
    /\ UNCHANGED <<guid, head, seq, tail, written>>

Next == \/ \E d \in Shapes : Append_(d) \/ TornAppend(d)
        \/ Flush \/ NewLog
        \/ \E c \in Cursors : Damage(c)

Spec == Init /\ [][Next]_vars

----------------------------------------------------------------------------
(* Properties of what fsck would replay in each of these states.           *)

Scan == ScanLog(ring, LogGuids[guid])

\* The entries of the current log that are on disk as they were written.
Intact == {e \in written : /\ e.guid = guid
                           /\ \A i \in DOMAIN e.image : At(ring, e.start, i) = e.image[i]}

\* The pages as the entries in S, written in order, leave them: for each page
\* the last descriptor of the newest entry that has one for it.
PageValue(S, p) ==
    LET DescsFor(e) == {j \in DOMAIN e.image[0].desc : e.image[0].desc[j].page = p}
        writers == {e \in S : DescsFor(e) # {}}
        e == CHOOSE x \in writers : \A y \in writers : y.seq <= x.seq
        j == Max(DescsFor(e))
        desc == e.image[0].desc
    IN  IF writers = {} \/ desc[j].kind = "zero" THEN 0
        ELSE e.image[Cardinality({i \in 1..j : desc[i].kind = "data"})].val

PagesAfter(S) == [p \in {d.page : d \in UNION {{x[i] : i \in DOMAIN x} : x \in Shapes}}
                    |-> PageValue(S, p)]

\* Whatever the wrap, the remains of the old lap and the part of the last
\* entry that a crash left (its sectors reaching the disk in order): replay
\* takes the file from the flushed pages to the pages as last logged.  No
\* complete entry is missed, none is applied out of order, and no entry that
\* was flushed long ago comes back over a newer one.
ReplayRestoresPages ==
    state \in {"open", "torn"} =>
        ApplyReplay(PagesAfter({e \in written : e.seq < tail}), Scan) = PagesAfter(written)

\* Also on a damaged ring: what is replayed is a gapless sequence of entries,
\* each one completely written to the current log.  A half-written entry, an
\* entry of an earlier log or a stale data sector is never applied.
ReplaysOnlyWritten ==
    /\ \A i \in 1..(Len(Scan) - 1) : Scan[i + 1].seq = Scan[i].seq + 1
    /\ \A i \in DOMAIN Scan : \E e \in Intact : e.seq = Scan[i].seq

\* As the comment on parse_entry says, the checksum of an entry is validated:
\* every value that is replayed is a value the log's owner wrote.
ReplaysWrittenValues ==
    \A i \in DOMAIN Scan, e \in written :
        e.seq = Scan[i].seq =>
            \A j \in DOMAIN Scan[i].writes :
                Scan[i].writes[j].val = 0 \/ Scan[i].writes[j].val > 10 * e.seq

\* As the comment at the top of log.rs says, the newest valid sequence is the
\* one that is replayed: on an undamaged ring the newest complete entry that
\* was not yet flushed is among the entries replayed, in whatever order the
\* sectors of a torn append reached the disk.
ReplaysNewest ==
    state # "damaged" /\ Live # {} =>
        \E i \in DOMAIN Scan : Scan[i].seq = Max({e.seq : e \in Live})
============================================================================
