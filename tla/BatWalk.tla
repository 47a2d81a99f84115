------------------------------ MODULE BatWalk ------------------------------
(***************************************************************************)
(* fsck's check of the BAT (repair.rs): one pass over the entries that     *)
(* tells payload from sector-bitmap entries by counting, without the index *)
(* functions every other reader of the BAT uses, and names the blocks      *)
(* whose entry is unusable.                                                *)
(*                                                                         *)
(* An entry is its state and where its offset points: nowhere (0), to a    *)
(* whole block inside the file, or so far that the block ends past the     *)
(* file.  States NotPresent, Undefined, Zero and Unmapped need no offset   *)
(* and are "none".                                                         *)
(***************************************************************************)
EXTENDS BatIndex, Sequences

CONSTANTS Ratios,     \* values of chunk_ratio()
          Counts,     \* values of block_count()
          MaxEntries, \* bound on the table
          BatEntries  \* entries to be found in it

ASSUME BatAssumption ==
    /\ Ratios \subseteq Nat \ {0} /\ Counts \subseteq Nat /\ MaxEntries \in Nat
    /\ BatEntries \subseteq [state : {"none", "full", "partial", "other"},
                             at : {"zero", "inside", "past"}]

VARIABLES ratio, count, has_parent, \* the file's metadata
          entries,                  \* Bat::parse of its table
          next,                     \* the entry the loop is at
          chunk_payload_count, block_no, \* its two counters (payload_index)
          issues                    \* blocks reported in bat_issues

bvars == <<ratio, count, has_parent, entries, next, chunk_payload_count, block_no, issues>>

\* Bat::parse: at most total_bat_entries, and no more than the region holds.
Parsed(total, region) == IF total < region THEN total ELSE region

BInit ==
    /\ ratio \in Ratios /\ count \in Counts /\ has_parent \in BOOLEAN
    /\ \E region \in 0..MaxEntries :
          /\ total_bat_entries(count, ratio, has_parent) <= MaxEntries
          /\ entries \in [1..Parsed(total_bat_entries(count, ratio, has_parent), region)
                            -> BatEntries]
    /\ next = 0 /\ chunk_payload_count = 0 /\ block_no = 0 /\ issues = {}

-----------------------------------------------------------------------------
\* Mutant: bitmap entries are looked for one entry late.
IsSectorBitmapLate == chunk_payload_count = ratio + 1

IsSectorBitmap == chunk_payload_count = ratio

SkipBitmap ==
    /\ next < Len(entries) /\ IsSectorBitmap
    /\ chunk_payload_count' = 0
    /\ next' = next + 1
    /\ UNCHANGED <<ratio, count, has_parent, entries, block_no, issues>>

\* Mutant: the end of the block is not compared with the file's length.
UnusableNoLimit(e) == \/ e.state \in {"full", "partial"} /\ e.at = "zero"
                      \/ e.state = "other"

\* What the check of one payload entry objects to.
Unusable(e) == \/ e.state \in {"full", "partial"} /\ e.at # "inside"
               \/ e.state = "other"

CheckPayload ==
    /\ next < Len(entries) /\ ~IsSectorBitmap
    /\ chunk_payload_count' = chunk_payload_count + 1
    /\ issues' = IF Unusable(entries[next + 1]) THEN issues \cup {block_no} ELSE issues
    /\ block_no' = block_no + 1
    /\ next' = next + 1
    /\ UNCHANGED <<ratio, count, has_parent, entries>>

BNext == SkipBitmap \/ CheckPayload

BSpec == BInit /\ [][BNext]_bvars

-----------------------------------------------------------------------------
(* Bat::payload_entry and the outcome of VhdxDisk::read_block.             *)

HasEntry(b) == payload_index(b, ratio) < Len(entries)
payload_entry(b) == entries[payload_index(b, ratio) + 1]

\* read_block returns data or Absent.  A PartiallyPresent block also needs a
\* Present (raw state 6, the number of FullyPresent) sector-bitmap entry.
HasBitmap(b) == /\ sector_bitmap_index(b, ratio) < Len(entries)
                /\ entries[sector_bitmap_index(b, ratio) + 1].state = "full"
ReadBlockOk(b) ==
    /\ b < count /\ HasEntry(b)
    /\ LET e == payload_entry(b) IN
         /\ e.state # "other"
         /\ e.state \in {"full", "partial"} => e.at # "past"
         /\ e.state = "partial" => HasBitmap(b)

-----------------------------------------------------------------------------
(* Properties.                                                             *)

\* Type invariant: fsck's counters stay within a chunk and within the table.
BTypeOK ==
    /\ ratio \in Ratios /\ count \in Counts /\ has_parent \in BOOLEAN
    /\ Len(entries) \in 0..MaxEntries
    /\ next \in 0..Len(entries)
    /\ chunk_payload_count \in 0..ratio
    /\ block_no \in 0..next /\ issues \subseteq 0..MaxEntries

\* The blocks fsck has reported are exactly those, among the blocks whose
\* entry it has passed, whose entry as payload_entry finds it is unusable:
\* the loop's counters and the index functions agree on every entry of every
\* chunk.
IssuesExact ==
    issues = {b \in 0..MaxEntries : /\ payload_index(b, ratio) < next
                                    /\ Unusable(payload_entry(b))}

\* Every block of the disk, and the bitmap of every block of a differencing
\* disk, has its own entry in a table of total_bat_entries, whose last entry
\* is that of the last block or of the last bitmap.
TableFits ==
    LET total == total_bat_entries(count, ratio, has_parent)
        pays == {payload_index(b, ratio) : b \in 0..(count - 1)}
        maps == {sector_bitmap_index(b, ratio) : b \in 0..(count - 1)}
    IN count > 0 =>
        /\ \A i \in pays : i < total
        /\ \A a, b \in 0..(count - 1) :
              payload_index(a, ratio) = payload_index(b, ratio) => a = b
        /\ pays \cap maps = {}
        /\ has_parent => (total - 1) \in maps
        /\ ~has_parent => (total - 1) \in pays

\* A table that fsck passes without issues can be read: every block it holds
\* an entry for is readable, but for the sector bitmap, which fsck does not
\* look at; and a block reported for a bad state or a place past the end is
\* not.
VerdictMatchesRead ==
    next = Len(entries) =>
        \A b \in 0..(count - 1) : HasEntry(b) =>
            /\ b \notin issues =>
                 ReadBlockOk(b) \/ (payload_entry(b).state = "partial" /\ ~HasBitmap(b))
            /\ b \in issues => ~ReadBlockOk(b) \/ payload_entry(b).at = "zero"
=============================================================================
