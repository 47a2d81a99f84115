------------------------------ MODULE LogScan ------------------------------
(***************************************************************************)
(* The VHDX log as log.rs reads it: a ring of 4 KiB sectors, scan_log's    *)
(* walk over it, parse_entry's acceptance test, the choice of the sequence *)
(* to replay, and apply_replay's effect on the file.                       *)
(*                                                                         *)
(* A sector is an entry header with its descriptors ("loge"), a data       *)
(* sector ("data", with the sequence number echoed at both its ends and    *)
(* the payload `val`) or anything else ("junk").  `len` is entry_length in *)
(* sectors, 0 standing for every length field the scan rejects (zero or    *)
(* not a multiple of 4 KiB).  A descriptor writes one page: "zero" or      *)
(* "data".  All descriptors of an entry fit in its first sector.           *)
(***************************************************************************)
EXTENDS Naturals, SequencesExt, FiniteSetsExt

CONSTANT RingLen      \* log_length / LOG_SECTOR_SIZE

ASSUME RingAssumption == RingLen \in Nat \ {0}

Cursors == 0..(RingLen - 1)

Junk == [k |-> "junk"]

\* The sector of a linearised entry: an entry may straddle the ring's end.
At(ring, cursor, i) == ring[(cursor + i) % RingLen]

DataDescs(h) == SelectSeq(h.desc, LAMBDA d : d.kind = "data")

\* Mutant: data sectors are not checked against the entry's sequence number.
AcceptsNoEcho(ring, c, guid) ==
    LET h == ring[c] IN
    /\ h.guid = guid
    /\ Len(DataDescs(h)) + 1 <= h.len
    /\ \A i \in 1..Len(DataDescs(h)) : At(ring, c, i).k = "data"

\* parse_entry succeeds: the LogGuid is the active header's, the data sectors
\* lie inside the entry and each echoes its sequence number.  The CRC is
\* computed and then ignored.
Accepts(ring, c, guid) ==
    LET h == ring[c] IN
    /\ h.guid = guid
    /\ Len(DataDescs(h)) + 1 <= h.len
    /\ \A i \in 1..Len(DataDescs(h)) :
           At(ring, c, i).k = "data" /\ At(ring, c, i).seq = h.seq

\* The LogEntry parse_entry builds: for each descriptor the page it targets
\* and what will be written there (0 for a zero descriptor).
Entry(ring, c) ==
    LET h == ring[c]
        Index(i) == Len(SelectSeq(SubSeq(h.desc, 1, i), LAMBDA d : d.kind = "data"))
    IN  [seq |-> h.seq,
         writes |-> [i \in 1..Len(h.desc) |->
                       [page |-> h.desc[i].page,
                        val  |-> IF h.desc[i].kind = "zero" THEN 0
                                 ELSE At(ring, c, Index(i)).val]]]

\* How far the walk advances from c: one sector over anything that is not an
\* entry header with a usable length, else entry_length, whether or not the
\* entry is then accepted.
Stride(ring, c) ==
    IF ring[c].k = "loge" /\ ring[c].len > 0 THEN ring[c].len ELSE 1

\* The cursors at which the walk looks at a sector.
Walk(ring) ==
    LET Reached[c \in 0..(2 * RingLen)] ==
            IF c >= RingLen THEN {}
            ELSE {c} \cup Reached[c + Stride(ring, c)]
    IN  Reached[0]

\* All accepted entries, sorted by sequence number (stable: ring order).
Entries(ring, guid) ==
    LET found == {c \in Walk(ring) : /\ ring[c].k = "loge" /\ ring[c].len > 0
                                     /\ Accepts(ring, c, guid)}
        order == SetToSortSeq(found,
                   LAMBDA a, b : \/ ring[a].seq < ring[b].seq
                                 \/ ring[a].seq = ring[b].seq /\ a < b)
    IN  [i \in 1..Len(order) |-> Entry(ring, order[i])]

\* A run: consecutive positions whose sequence numbers increase by one.
IsRun(es, a, b) == \A i \in a..(b - 1) : es[i + 1].seq = es[i].seq + 1

Runs(es) == {<<a, b>> \in (1..Len(es)) \X (1..Len(es)) : a <= b /\ IsRun(es, a, b)}

\* Mutant: keep every accepted entry.
AllEntries(es) == es

\* active_sequence: the longest run, the first one if several are longest.
ActiveSequence(es) ==
    IF es = <<>> THEN <<>>
    ELSE LET longest == Max({r[2] - r[1] : r \in Runs(es)})
             first == Min({r[1] : r \in {x \in Runs(es) : x[2] - x[1] = longest}})
         IN  SubSeq(es, first, first + longest)

\* scan_log for a header with this LogGuid.
ScanLog(ring, guid) == ActiveSequence(Entries(ring, guid))

\* Mutant: the entries are applied newest first.
ApplyReplayReversed(pages, scan) ==
    FoldLeft(LAMBDA p, w : [p EXCEPT ![w.page] = w.val], pages,
             FlattenSeq([i \in 1..Len(scan) |-> scan[Len(scan) + 1 - i].writes]))

\* One descriptor applied to the file's pages.
ApplyWrite(pages, w) == [pages EXCEPT ![w.page] = w.val]

\* apply_replay: every descriptor of every entry, in order.
ApplyReplay(pages, scan) ==
    FoldLeft(ApplyWrite, pages, FlattenSeq([i \in 1..Len(scan) |-> scan[i].writes]))
============================================================================
