# A verification project for starweld

starweld inspects, repairs, merges, flattens and compacts VHDX / AVHDX disk
images (`crates/starweld-core`). These are TLA+ models of the parts that write
to images people cannot afford to lose, the TLC runs that check them and TLAPS
proofs about them. All paths below are relative to `crates/starweld-core/src`.

## 1. The system

starweld is one process and one thread per command: nothing inside it runs
concurrently, though two instances may be started on one image. What is hard is
what its writes leave behind. Each command makes
a sequence of positioned writes to files another program (the hypervisor)
created and may have left half-written; the process can be killed inside any
write, the machine can lose power with any subset of the unsynced writes on
disk, and the user then runs the command, or another one, again.

| Component | State | Operations | Correct when |
|---|---|---|---|
| header pair (`header.rs`) | two headers: valid?, sequence number, DataWriteGuid, LogGuid | `read` picks the active one, `write_new` overwrites the other | a torn write never loses both, nor brings back an old guid or a replayed log |
| log (`log.rs`) | ring of 4 KiB sectors | `scan_log`, `parse_entry`, `apply_replay`, `mark_log_clean` | replay ends in the last logged contents; nothing half-written is applied |
| repair (`repair.rs`) | headers, region tables, pages | `fsck`, `force_clean_log` | the log goes only when what it held is safe; a rerun finishes the job |
| region tables (`region.rs`) | two copies | `read`, `write_both` | at least one copy is valid at all times |
| BAT (`bat.rs`), reader (`disk.rs`) | one entry per block, one per chunk's sector bitmap | index functions, `read_block`, fsck's walk | walk and index functions agree |
| merge (`merge.rs`) | child, parent's payload, BAT, headers, length | `merge_with_progress` | the chain reads the same before, during and after, and after crashes |
| chain (`chain.rs`, `parent_locator.rs`) | the file being visited, files visited, nodes | `discover`, `resolve_parent` | terminates; finds the whole chain or says why not; the leaf's parent is the one it names |
| flatten (`flatten.rs`), writer (`writer.rs`), archive (`zst_writer.rs`, `tar_header.rs`) | output file, BAT in memory, layout computed in advance | `flatten_with_progress`, `flatten_to_zst`, `write_block`, `finish` | output reads as the chain did; the stream has the announced layout |
| compact (`compact.rs`) | temporary output, directory | `compact` | the input is replaced only by a complete and durable copy |
| metadata (`metadata.rs`), compression (`compress.rs`, `zst_compress.rs`) | none of their own | parsing, encoding | modelled by the fields and effects others depend on |
| support code, command line, build tool | none of their own | constants, I/O, presentation | not modelled |

`merge`, `flatten` and `compact` call `fsck --fix` first; `fsck` and `merge` both
update headers through `HeaderPair::write_new` with a copy of the active header
they read at their start. That stale copy, and the lack of a sync between
dependent writes, is where most of the hazards in `PROJECT.json` come from.

## 2. Modules

```
HeaderOps ── HeaderPair ──┬── Repair         LogScan ── LogRing
                          └── Merge          BatIndex ──┬── BatWalk
                                                        └── Writer (with Overlay) ──┬── Flatten ··> Snapshot
Chain                                                                               └── Compact

Proofs:  HeaderPairProofs ── RepairProofs, MergeProofs        ChainProofs
         WriterProofs ── BatWalkProofs, CompactProofs, FlattenProofs
```

* **HeaderOps**: arbitration of the two headers. `ActiveIndex` is
  `HeaderPair::read`, `TargetIndex` and `Successor` are `write_new`.
* **HeaderPair**: every header update of `fsck`, `merge` and `force_clean_log`,
  one action per write or sync, each write with a torn variant; `Kill`,
  `Writeback`, `PowerLoss`. `cur` is the copy a command reads once.
* **LogScan** (operators only) and **LogRing**: what `scan_log` makes of a ring,
  and the rings it can meet. The writer of the ring is external; it is modelled
  by what the log format lets it do: append, wrap over flushed entries, die
  inside an append with any of its sectors stored, begin a new log.
* **Repair**: `fsck --fix` as a whole. It conjoins HeaderPair's actions with the
  region tables and the pages `apply_replay` writes.
* **BatIndex**, **BatWalk**: index functions, and fsck's walk as a loop whose
  state is its two counters.
* **Merge**: `merge_with_progress` on a child and a parent that may itself be a
  differencing disk. It conjoins HeaderPair's merge actions with the copying of
  blocks, the BAT write, the sync and the removal of the child.
* **Chain**: what flatten does up to the moment its links are open: repair of the
  leaf, `Chain::discover` (one action per round of its loop and outcome), the guid
  check, repair of the other nodes, opening them again, size checks. Paths and
  files are apart, so that links and several names of one file occur. Repair
  enters as its effect on the one thing discover reads: the locator.
* **Overlay**: `fill_from_link` and `merge_block` as functions, and `VirtualCell`,
  what a machine on top of the chain reads, defined without them. `Asked` is the loop
  over the links.
* **Writer**: VhdxWriter and ZstStreamWriter as the lists of calls they make on a
  file, and `VhdxDisk::open` and `read_block` as what those bytes mean to a reader.
* **Snapshot**: the abstract copy. A cell of the image is left alone, copied or
  blanked; "done" means all of it, for good.
* **Flatten**: both output paths, one action per round of a loop and one per call
  on the output; it implements Snapshot.
* **Compact**: instances of `compact` on one directory.
* **MC\*** give the constants values; each `.cfg` is one run.

### How files are modelled

For each thing on disk `x` is what a read returns and `xmay` the set of contents
it can have after a power loss. A write adds the new content (and, for headers,
pages and blocks, partial ones) to `xmay`; `sync_all` reduces it to the current
one; a power loss picks one element for each item independently. A kill inside a
write stores part of it and ends the command. An error returned by a read or a
write, between writes, has the effect of a kill. The kernel may write everything
back by itself (`Writeback`, `Settle`).

The commands that create files (Writer, Flatten, Compact) write each cell at most
a few times, so there a file is its cells and the set of those not yet on disk. The
unit is a cell of 1 MiB, the smallest block and the alignment of every region; the
sectors of a cell are taken to be alike. A write of several cells is as many calls,
so it can be torn at any of them. A power loss keeps all unsynced cells, or turns
one or all of them into junk. A file's length is taken to be durable at once. A
directory is never synced by the code: after a power loss it is in any of the
states it has been in. A reader refuses a file whose headers or metadata are junk.
A junk BAT it does not notice: `Bat::parse` takes any bytes for entries, so a block whose
entry was lost reads as `Stray`, which stands for whatever such an entry may lead to.

Left out throughout: wording of reports, warnings and progress events, FileWriteGuid
(it is changed along with the DataWriteGuid and read by nobody), and read-only commands.

## 3. Runs

| Run | Checks | Result |
|---|---|---|
| `headers` | `TypeOK`, `AlwaysReadable`, `FsckLeavesClean`, `CommittedGuidSurvives`, `GuidChangesOnlyByMerge` | hold |
| `header_tie` | `CleanedLogStaysClean` | violated |
| `log_ring` | `ReplayRestoresPages`, `ReplaysOnlyWritten` | hold |
| `log_crc` | `ReplaysWrittenValues` | violated |
| `log_newest` | `ReplaysNewest` | violated |
| `repair` | `RTypeOK`, `CleanOnlyWhenReplayed`, `RepairsBoth` | hold |
| `bat_walk` | `BTypeOK`, `IssuesExact`, `TableFits`, `VerdictMatchesRead` | hold |
| `merge` | `MTypeOK`, `NothingLost`, `RemovedOnlyWhenDurable`, `NoSharedBlock` | hold |
| `merge_holes` | `MergeKeepsEveryBlock` | violated |
| `chain` | `ChTypeOK`, `WalksLineage`, `LeafParentVerified`, `BoundedWalk`, `FailsWithCause`, `Terminates` | hold |
| `flatten` | `FTypeOK`, `Backpressure`, `CompressedNeverJunk`, `ImplementsSnapshot`, `UnreadableKeepsArchive` | hold |
| `compact` | `CTypeOK`, `InputIntact`, `OutputWhole`, `Packed` | hold |

**headers.** Three guids allow two merges, SeqMax 3 two or three updates in a row,
one log guid a dirty or clean log in either header; the file may come with either
slot torn. Two commands interrupted anywhere and a third one after them are
within these bounds, which is what it takes to reach a tie of sequence numbers and
to act on it. Power losses and kills inside `force_clean_log` can leave no valid
header (`exposed`); the properties about kills exclude them, `CommittedGuidSurvives`
does not. That the two headers of an incoming file have one DataWriteGuid and consecutive
sequence numbers is an assumption about the program that wrote it.

**header_tie.** A torn header is repaired: both slots now have the sequence number
after the active one's. `mark_log_clean` uses the pair read before the repair, so
its header has the same number again and replaces slot 0 only. It is active on a
tie. The next `write_new`, of a merge for instance, overwrites slot 0, also on a
tie; a kill inside it leaves slot 1, with the log fsck reported as replayed.

**log_ring.** Five sectors and entries of one to three sectors make entries
straddle the end and a second lap leave any part of the first; five appends are
more than a lap. One sector may be lost or have its length rejected.
`ReplayRestoresPages` compares the file after replay with an independent
definition of the last value logged for each page. It is claimed when the sectors
of a torn append reach the disk in order.

**log_newest** drops that restriction: a torn append of which only the last sector
was stored can destroy a flushed entry in the middle of the log, and of the two
equally long runs that remain the older is replayed. **log_crc** damages a payload.

**repair.** Three logs: one that cannot be replayed, one that writes a page twice,
one with a zero descriptor; two pages; region tables with at most one invalid.
`CleanOnlyWhenReplayed` looks at all outcomes of a power loss in every state.
A run of fsck may begin in any state, right after an interrupted one too; `RTypeOK` and
`RepairsBoth` hold then as well. `CleanOnlyWhenReplayed` has a condition: no run has begun
while header writes of an earlier one were only in the kernel's cache (the history
variable `rushed`). Without it TLC finds that a kill during
`mark_log_clean`, an immediate rerun that repairs both headers without a sync and
a power loss can leave the earlier clean header over pages that the rerun had begun
to overwrite.

**bat_walk.** Chunk ratios 1 to 3, up to five blocks and six entries, every
combination of six kinds of entry, regions shorter than the table: up to three
chunks, complete and incomplete. The real ratio (2048 for common block sizes) has
the same shape.

**merge.** Two blocks of two sectors; a child block is absent, full, zero or
partial; a parent block absent, full or (under a grandparent) partial; linkage
present or missing; three block places, so that both a fresh allocation, a leftover
of a crashed attempt and a full device occur; two attempts. The file's length stands for
`payload_cursor` too: the two differ only where a parent's entry lies past the end of its
file, and no input has that. Rounding the length up to 1 MiB, and a BAT region too short for a
block (`set_payload_entry` then does nothing), are left out. The properties exclude
what follows a power loss while a BAT or header write is unsynced (`hit`): merge
writes payload, BAT and headers without a sync between them, so the header that
detaches the child may be stored while the payload is not; the run ends behaviours
there (`MCNext`). They also exclude holes,
which are the subject of **merge_holes**: in a chain of three or more, a partial
block of the child over a block its parent does not hold completely is filled up
with zeros.

**chain.** Three files, two directories and two names, every assignment of files to
the four paths (missing, or several paths of one file through symbolic links), roots, unreadable
files, differencing disks without a locator, with one of the wrong type and with
one or two entries; at most one file has a log that would change its locator.
A file is what `canonicalize` identifies, a canonical path; hard links of one file are
different files to it and to the model. Three files are enough for a chain with a middle, for cycles of length one to three
and for a cycle that does not contain the leaf. `WalksLineage` says
that what discover returns is the chain as the files define it (`WholeChain`, a condition
on sequences of paths that makes no walk), `FailsWithCause` says the converse: it does
not fail where there is such a chain. `LeafParentVerified` is
about the end of the whole preparation: the file flatten will read below the leaf is
the one the leaf's *repaired* locator names, with the guid it asks for (or one of
the two guids is nil, when the code does not compare).

**flatten.** A disk of three cells; leaf blocks of one and two cells over parents
with blocks of one, two and four, so that a leaf block is a slice of a parent block
or spans several, and the last block reaches past the end of the disk; chains of one
to three links; absent, full, zero, partial and unreadable blocks; the combinations
of fixed, elided, NTFS-compressed and archived output; an output that exists
already. A sector bitmap covers two cells and a cell holds two BAT entries, so BATs
have bitmap entries between payload entries and more than one cell. Flatten may be
killed before each call and power lost in each state. `ImplementsSnapshot` is the
refinement; `source` is `VirtualCell` of the chain and `image` what a reader makes of
the bytes. It allows a killed or failed flatten to leave an image that opens and
reads as zeros: the BAT is written last, the headers first. It forbids one cell's
data in the place of another's, and junk after success. `CompressedNeverJunk` is
stronger for compressed destinations of images that are not fixed: even a power loss in
the middle shows no lost payload and no other block's, because each block is synced before
the BAT is written. The exception is a block whose part of the BAT was itself lost
(`Stray`).

**compact.** Two instances started on one input with all combinations of options,
each killed anywhere, a power loss at any time; inputs that are dynamic or fixed, with
full, absent, zero and zero-filled blocks, with data only past the end of the disk in the
last block, cut short, or differencing; an earlier output present or not. `Packed` counts
the blocks of the input that are not all zero: `is_all_zero` is asked about the whole
last block, so data past the end of the disk keeps it. `InputIntact` is evaluated in every state, so also after a power
loss that restores any earlier directory and loses unsynced cells.

### Fairness, deadlock

`Terminates` is the one liveness property. Its run assumes weak fairness of
`Advance`, flatten's own next step: one thread runs to its end by itself and waits
for nobody. No fairness is put on errors (`FileFails`). The other runs assume none:
nothing obliges a user to run a command again, and the loops of the modelled commands
count to a fixed bound. Deadlock is not checked: every model is bounded and a
command-line tool may stop.

### What the code does not promise

These were met while modelling. No property claims them, and nothing in the
repository's documents does, unless said otherwise.

* The nodes below the leaf are repaired after discover has read their locators; if a
  repair changes one, flatten reads the parent the old locator named.
* For each locator entry the bare file name next to the child is tried before the next
  entry, so a file of that name shadows the real parent. The guid check catches this
  only when both guids are there.
* A hard link is not recognised by the cycle check: a chain may go through one file under
  two canonical names.
* A rerun of fsck before the kernel has written back what an interrupted run left can, with
  a power loss, lose the log (see **repair**).
* `finish` writes the BAT without a sync before its end; after a power loss at that point
  an unfinished image can open and show anything in the blocks whose entries were lost. In
  a fixed image, or without the compression that syncs each chunk, blocks
  whose payload was lost can show anything too.
* Nothing keeps the output path from naming a member of the chain; links are assumed
  not to change while flatten runs, between the two passes of the archive too.
* With `sparse_size` 0 compact writes a block in state Zero out as payload, although
  the option's comment (compact.rs:16-19) says that every block is preserved as it is.
* compact leaves its temporary file behind on an error or kill, never syncs the
  directory (a reported result may be gone after a power loss, the input is not), and
  gives the image a new DataWriteGuid, which detaches existing children.
* A header sequence number of 2^64 - 1 wraps to 0 in `write_new` (header.rs:154), so the
  newest header becomes the oldest.
* Partial blocks in a file without a parent are outside the format and of the inputs.

## 4. Proofs

The theorems hold for every value of the constants that satisfies the named assumptions;
TLC evaluates these assumptions in the runs.

| Module | Theorems | Invariant | Assumed of the constants |
|---|---|---|---|
| HeaderPairProofs | `TypeCorrect`, `KillSafe`, `FsckReportTrue`, `NoGuidResurrection`, `GuidStable` | `IInv` | SeqMax is a number, Nil no guid, the tools are among the three |
| RepairProofs | `RepairImplementsHeaderPair`, `RepairKillSafe`, `RepairReportTrue`, `RTypeCorrect`, `NoLogLost`, `BothCopiesRepaired` | `RInv` | logs are sequences of page writes, Garbage is never logged |
| MergeProofs | `MergeImplementsHeaderPair`, `MergeGuidSurvives`, `MTypeCorrect`, `MergeLosesNothing`, `ChildRemovedLast`, `BlocksApart` | `MInv` | at least one block, place for each of them, well-typed inputs |
| ChainProofs | `ChainTypeCorrect`, `ChainNoFileTwice`, `WalkBounded`, `ParentVerified`, `DiscoverComplete`, `FailureHasCause` | `IInv`, `LInv`, `Walked`, `OnCourse` | finitely many files, directories and names, well-typed disks, no overlap of paths, files, guids and Nil |
| WriterProofs | lemmas on the layout of the BAT, the writers' calls, files, and what a reader makes of them | | ratio not 0, a chunk and a BAT cell hold something |
| BatWalkProofs | `BTypeCorrect`, `CountingAgreesWithIndex`, `TableAlwaysFits`, `VerdictTrue` | `WInv` | ratios not 0, well-typed entries |
| CompactProofs | `CompactInvariant`, `CTypeCorrect`, `InputNeverLost`, `OutputNeverPartial`, `OutputPacked` | `CInv` | inputs are files `VhdxDisk::open` accepts (`Sound`); block sizes fit a chunk; temporary names are new |
| FlattenProofs | `MergeIsVirtual`, `FlattenInvariant`, `FTypeCorrect`, `BackpressureHolds`, `CompressedHolds`, `UnreadableKeeps`, `FlattenImplementsSnapshot` | `FInv` | links have the blocks their size calls for; the leaf's block size fits a chunk; a file from before is told apart from a new one |

*HeaderPairProofs* proves type correctness, then the inductive invariant `IInv`.
None of the header properties is inductive. What has to be added is `Protocol`:
for each program counter, what the command's copy `cur` has to do with the two
slots (before its first write the copy is the active header; after it one slot
holds its successor and the other still the copy's contents, and so on), also in
the tie after a repair; `TieSameGuid`: two valid headers with equal sequence
numbers have the same guid, which makes it harmless to overwrite the active one;
and `NoRetired`: no content in `may` carries a retired guid. The lemmas
`TargetSparesActive`, `FirstWrite`, `SecondWrite` and `TieWrite` say where
consecutive `write_new`s from one copy go.

*RepairProofs* and *MergeProofs* first prove that the composed specifications implement
HeaderPair (every step is a header step or a stutter), so that the header theorems
hold of `fsck --fix` and of a merge as a whole and `IInv` is at hand for the rest.

`CleanOnlyWhenReplayed` speaks of all outcomes of a power loss, and so must what
supports it in `RInv`: before the log is dealt with no outcome has it empty (`LogKept`),
for which the headers that may come back during a header repair all have to carry the
log of fsck's copy (`RepairMay`); the descriptors applied so far are what their pages hold
(`Applied`, last write of a page first); and when fsck gets to `mark_log_clean` the pages
have been synced with the log's contents, or discarding was allowed (`SafeClean`). The two
parts about headers that may come back, `LogKept` and `RepairMay`, hold as long as no run
was `rushed`; the others hold always.

`MInv` has two halves. `Steady` holds whatever happens. `Lossless` holds until a power
loss meets an unsynced BAT or header write (`hit`), the case in which the code promises
nothing. The argument of `NothingLost` is that until the header write the chain reads
*through the child* as it did (`ChainKept`): blocks merge writes are new places, or
places of the parent where it changes only sectors that the child hides, and no place
serves two blocks in either BAT (`Places`). A sector the child does not hide is safe on
disk wherever its BAT entry is (`Durable`). The blocks behind the loop are complete
in the parent (`Copied`), so a reader that leaves the child finds all of it (`GoneInv`),
and the child's file goes only when that is synced (`PhaseInv`).

*ChainProofs.* `BoundedWalk` is a statement about a length and not inductive. `IInv` adds
`NodesVisited` (each node's path leads to a file that `visited` holds)
and `NoFileTwice` (no two nodes are one file), which a round of the loop keeps because
it gets past `visited.insert` (`VisitKeeps`); `NoLinksYet` is needed for the type when
the second loop begins. The bound then follows from an injection of the nodes into the
files. That resolve_parent returns one of its candidates needs the
least element of a set of numbers, which comes from the well-foundedness of < (`MinIn`).
`LInv` carries the leaf through the later loops: the second node is what the *repaired*
locator names, and neither repairs nor reopening change its guid (`NodeGuids`,
`LinksOpened`). `Walked` says each node is the parent of the one before and `visited`
holds nothing else; `OnCourse` that any whole chain begins with the nodes and goes on with
`current`. From the two, discover returns the chain and gives up only where there is none.
All safety properties of the chain run are thus proved. With TLC's `Terminates` this covers
the walk: each round adds a node or ends it.

*BatWalkProofs.* fsck counts its way through the table while the reader computes
indices. `WInv` says in which chunk the loop is: `AtChunk(q)` relates both counters and
the position to q. The lemma `Passed` then turns "entry before `next`" into "block below
`block_no`" for every chunk ratio, using `Placement`, `PayloadOrder` and `TableSize` of
*WriterProofs*. The ratios and lengths of real disks (2048 blocks to a chunk, any size)
are covered, which a run cannot do.

*CompactProofs.* `InputIntact` is about what names lead to after any power loss, with any
number of instances. It needs that every directory in `past` leads to the input or to a
file whose instance is through with it (`Directories`, `Settled`), hence that such a
file is complete and synced (`Whole`), hence what an instance has written at each of its calls. `Stage` says
so: which calls of `create`, `write_block` or `finish` are left and what those before left
in the file (`Creating`, `Putting`, `Resting`, `Finishing`); a block that is `Copied` has an
entry whose place holds what the source reads. `FinishedWhole` then shows the reader's view:
the BAT as encoded in the file gives back the entries of `w.bat`, the block read through
them is the source's. The source is the input or a settled file (`Reads`), so copies of
copies are as good (`SourceFaithful`). `WriterOK` counts the blocks that took space, for
`Packed`. TLC has checked `CInv` on the `compact` instance as well.

*FlattenProofs.* The refinement of Snapshot is proved for any number of links, any mixture
of block sizes, any virtual size and all combinations of options. First `MergeIsVirtual`:
the composite that merge_block gets by asking one link after the other is, cell by cell,
`VirtualCell`, which asks nobody in turn. The set of rounds for which this fails would have a
least member (`Smallest`); that replaces the induction the prover lacks.

None of the properties is inductive: they say what may be read, and that depends on what
has been written and what is still to come. `FInv` says, for each label:

* `Direct`: which calls of `create`, of a block's payload or of `finish` are left (`Rest`),
  and what those before them left in the file (`Creating`, `Putting`, `Resting`,
  `Finishing`). `Laid` is the core: the blocks below the loop variable are in the file
  below its end, the cells behind it are zero, and the BAT on disk is the empty one, or for
  a fixed image the final one. On a compressed destination at most one payload cell is
  pending, and none between blocks.
* `Streams`: the pre-scan's bits are right for the blocks scanned (`Scanned`); the stream
  holds the announced header and the non-zero blocks so far, each where the BAT built
  beforehand says (`Streamed`); at its end it unpacks to the chain's contents (`Packed`).
* `Ended`: what is left after an error or kill is `Safe`, after a power loss `Lost`, after
  success `Complete`.
* `Spared`: with an unreadable cell in the chain the archive path never gets past its pre-scan.

Everything about files is stated of a chain, a writer, a list of calls and a file, without
variables. Three kinds of lemma follow: each call keeps its stage (`CreateStep`, `PutStep`,
`FinishStep`); each stage hands over to the next (`CreatingRest`, `PuttingRest`,
`FinishBegins`, `FinishingDone`); and in each stage the file is `Safe` (`CreatingSafe`,
`PuttingSafe`, `RestingSafe`, `FinishingSafe`). `Safe` comes from `FairFile`: a
cell is read through a BAT cell that is empty or final, so it is zero, the chain's or an
error. After a power loss (`FairOrStray`, `FileShows`) the BAT cell may also be lost, and
only then `Stray` is read. For archives `ArchiveExact` gives the contents and `Stump` the
opposite: a prefix without the end, whose announced size its length does not match, does not
unpack. From `FInv` a step of flatten leaves the output alone, or leaves a file that is `Safe`
and no longer the old one, which is `Copying`; returning success is `Commit`
because the file is `Complete`; a power loss after that changes nothing (`CompleteLoss`).

Two things about the model came out of these proofs. Archives used to be opened whatever
the NTFS and fixed options said, once a disk had no blocks to scan: the guard of `Reject`
was missing in `OpenArchive`. And the bound on the length of the output in `FTypeOK` holds
of files flatten made, not of what it finds.

Only model-checked, and why:

* `Terminates`: liveness is beyond the prover.
* `ReplayRestoresPages`, `ReplaysOnlyWritten`: the scan of the ring is
  recursive, and the prover has neither recursive operators nor induction over data.
* The four properties that are violated.

## 5. Not modelled, and the plan

Not modelled: the encoding of metadata and locators, tar header bytes, the bit layout of
BAT entries, the arithmetic of sector bitmaps inside a block, validation of region
layouts, checksums and zstd, all of which are conversions without state; entry lengths
beyond the ring (log.rs:106); the command line and the build tool, which call the
engines and present results. Merge's own call of `Chain::discover` after the child is
gone is not composed with Chain.

Next: composing Merge with Chain, so that the chain merged is the chain discovered; the
other children of a merged parent; region layouts. A proof about the log would need
the ring's scan as a state machine of its own, one action per entry, instead of a recursive
operator.
