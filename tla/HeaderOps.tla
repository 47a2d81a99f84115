----------------------------- MODULE HeaderOps -----------------------------
(***************************************************************************)
(* The two header slots of a VHDX file: how a reader picks the active      *)
(* header (HeaderPair::read) and which slot a writer overwrites            *)
(* (HeaderPair::write_new).  A slot holds a decoded Header: `ok` is        *)
(* Header::is_valid (signature, CRC and versions), `seq` the sequence      *)
(* number, `guid` the DataWriteGuid and `log` the LogGuid (Nil when the    *)
(* log is empty).  FileWriteGuid, log offset and log length are carried    *)
(* along unchanged by every writer and decide nothing, so they are left    *)
(* out.                                                                    *)
(***************************************************************************)
EXTENDS Naturals

CONSTANTS SeqMax,     \* largest sequence number (u64::MAX in the code)
          Guids,      \* DataWriteGuid values
          LogGuids,   \* LogGuid values of a file whose log holds entries
          Nil         \* Uuid::nil()

ASSUME HeaderAssumption == /\ SeqMax \in Nat
                           /\ Nil \notin Guids
                           /\ Nil \notin LogGuids

Slots == {0, 1}

Header == [ok : BOOLEAN, seq : 0..SeqMax, guid : Guids \cup {Nil},
           log : LogGuids \cup {Nil}]

\* What Header::parse makes of a buffer without signature, and of any buffer
\* whose CRC is wrong as far as a reader can tell: nothing uses the fields of
\* an invalid header.
Torn == [ok |-> FALSE, seq |-> 0, guid |-> Nil, log |-> Nil]

BothValid(p) == p[0].ok /\ p[1].ok

\* HeaderPair::read succeeds; otherwise it returns Error::NoValidHeader.
Readable(p) == p[0].ok \/ p[1].ok

\* Mutant: a reader that prefers slot 1 on equal sequence numbers.
ActiveIndexStrict(p) ==
    IF BothValid(p) THEN (IF p[0].seq > p[1].seq THEN 0 ELSE 1)
                    ELSE (IF p[0].ok THEN 0 ELSE 1)

\* HeaderPair::read: the newest valid header, slot 0 on a tie.
ActiveIndex(p) ==
    IF BothValid(p) THEN (IF p[0].seq >= p[1].seq THEN 0 ELSE 1)
                    ELSE (IF p[0].ok THEN 0 ELSE 1)

Active(p) == p[ActiveIndex(p)]

\* Mutant: overwrite slot 1 on equal sequence numbers.
TargetIndexStrict(p) ==
    IF BothValid(p) THEN (IF p[0].seq < p[1].seq THEN 0 ELSE 1)
                    ELSE (IF p[0].ok THEN 1 ELSE 0)

\* Mutant: overwrite slot 0 although slot 1 is the invalid one.
TargetIndexFirst(p) ==
    IF BothValid(p) THEN (IF p[0].seq <= p[1].seq THEN 0 ELSE 1) ELSE 0

\* write_new re-reads the pair and overwrites the slot with the lower
\* sequence number (slot 0 on a tie), the invalid one if there is one, and
\* slot 0 if neither is valid.
TargetIndex(p) ==
    IF BothValid(p) THEN (IF p[0].seq <= p[1].seq THEN 0 ELSE 1)
                    ELSE (IF p[0].ok THEN 1 ELSE 0)

\* sequence_number.wrapping_add(1)
NextSeq(n) == IF n = SeqMax THEN 0 ELSE n + 1

\* The header write_new encodes: a copy of `current`, mutated, with the
\* sequence number after current's own (not after the newest on disk).
Successor(current, guid, log) ==
    [ok |-> TRUE, seq |-> NextSeq(current.seq), guid |-> guid, log |-> log]
=============================================================================
