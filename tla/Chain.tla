------------------------------- MODULE Chain -------------------------------
(***************************************************************************)
(* From a leaf to the open links of its chain: what flatten does before it *)
(* touches its output (flatten.rs), with Chain::discover and               *)
(* resolve_parent (chain.rs).  The leaf is repaired, the chain is walked   *)
(* and verified, then every node is repaired, and opened again.            *)
(*                                                                         *)
(* A path is a directory and a name; several paths may name one file       *)
(* (symbolic links).  A file is what VhdxDisk::open makes of it: the parts *)
(* discover and flatten look at, and the locator that a log not yet        *)
(* replayed would give it.                                                 *)
(***************************************************************************)
EXTENDS Naturals, Sequences, FiniteSets, FiniteSetsExt

CONSTANTS Dirs, Names,  \* directories and file names
          Files,        \* files (inodes)
          Guids, Nil,   \* DataWriteGuids; Uuid::nil() for a guid, None for the rest
          Here,         \* the directory of a path relative to the child
          Disks         \* what a file can hold

Paths == [dir : Dirs, name : Names]

\* The entries a locator has, of relative_path, volume_path and
\* absolute_win32_path, in this order.
Locator == [vhdx : BOOLEAN, entries : Seq([dir : Dirs \cup {Here}, name : Names]),
            linkage : Guids \cup {Nil}]

\* locator is Nil when the metadata has none; logged is the locator held by
\* the log, or Nil; size stands for the virtual disk and logical sector size.
Disk == [opens : BOOLEAN, has_parent : BOOLEAN, locator : Locator \cup {Nil},
         logged : Locator \cup {Nil}, guid : Guids \cup {Nil}, size : Nat]

ASSUME ChainAssumption ==
    /\ Nil \notin Guids \cup Files \cup Paths \cup Locator
    /\ Here \notin Dirs
    /\ Files \cap Paths = {}
    /\ IsFiniteSet(Files) /\ IsFiniteSet(Dirs) /\ IsFiniteSet(Names)
    /\ Disks \subseteq Disk

VARIABLES at,        \* the file a path names, Nil if there is none
          disk,      \* contents of the files
          skip_fsck, leaf,
          pc, current, visited, \* discover's loop
          nodes,     \* Chain::nodes
          links,     \* the files of the links opened so far
          next       \* the node that the loop over nodes is at

cvars == <<at, disk, skip_fsck, leaf, pc, current, visited, nodes, links, next>>

\* Fields of ChainNode; parent_link copies the locator.
Node == [path : Paths, guid : Guids \cup {Nil}, parent_link : Locator \cup {Nil}]

Steps == {"fsck_leaf", "walk", "verify", "fsck", "open", "check", "ready", "failed"}

\* Type invariant: discover only follows paths that exist, and links are
\* opened for nodes of the chain.
ChTypeOK ==
    /\ at \in [Paths -> Files \cup {Nil}]
    /\ disk \in [Files -> Disk]
    /\ skip_fsck \in BOOLEAN /\ leaf \in Paths
    /\ pc \in Steps /\ current \in Paths
    /\ visited \subseteq Files \cup Paths
    /\ nodes \in Seq(Node) /\ links \in Seq(Files)
    /\ next \in 1..(Len(nodes) + 1)
    /\ Len(links) < next

ChInit ==
    /\ at \in [Paths -> Files \cup {Nil}]
    /\ disk \in [Files -> Disks]
    /\ skip_fsck \in BOOLEAN /\ leaf \in Paths
    /\ pc = IF skip_fsck THEN "walk" ELSE "fsck_leaf"
    /\ current = leaf /\ visited = {}
    /\ nodes = <<>> /\ links = <<>> /\ next = 1

-----------------------------------------------------------------------------
\* candidate.exists()
Exists(p) == at[p] # Nil

\* VhdxDisk::open(p, true)
Opens(p) == Exists(p) /\ disk[at[p]].opens

\* The paths tried for each entry: the path itself, and its file name next
\* to the child.
Candidate(child, e) == IF e.dir = Here THEN [child EXCEPT !.name = e.name] ELSE e
Beside(child, e) == [child EXCEPT !.name = e.name]
Try(child, loc, k) ==
    LET e == loc.entries[(k + 1) \div 2]
    IN  IF k % 2 = 1 THEN Candidate(child, e) ELSE Beside(child, e)

resolve_parent(child, loc) ==
    LET hits == {k \in 1..(2 * Len(loc.entries)) : Exists(Try(child, loc, k))}
    IN  IF ~loc.vhdx \/ hits = {} THEN Nil ELSE Try(child, loc, Min(hits))

-----------------------------------------------------------------------------
Fail ==
    /\ pc' = "failed"
    /\ UNCHANGED <<at, disk, skip_fsck, leaf, current, visited, nodes, links, next>>

\* fsck with fix on one file: its log is replayed, which may give it another
\* locator.  Everything else about fsck is in Repair.
Replayed(d) == IF d.logged = Nil THEN d ELSE [d EXCEPT !.locator = d.logged, !.logged = Nil]
fsck(p) == disk' = [disk EXCEPT ![at[p]] = Replayed(@)]

\* Mutant: the leaf is repaired with the other nodes only.
FsckLeafLater ==
    /\ pc = "fsck_leaf" /\ Opens(leaf)
    /\ pc' = "walk"
    /\ UNCHANGED <<at, disk, skip_fsck, leaf, current, visited, nodes, links, next>>

FsckLeaf ==
    /\ pc = "fsck_leaf" /\ Opens(leaf)
    /\ fsck(leaf)
    /\ pc' = "walk"
    /\ UNCHANGED <<at, skip_fsck, leaf, current, visited, nodes, links, next>>

LeafUnreadable == pc = "fsck_leaf" /\ ~Opens(leaf) /\ Fail

\* canonicalize, and the path itself when that fails.  A file is identified
\* with its canonical path: symbolic links lead to one file, while the hard
\* links of a file have a canonical path each and count as different files.
Canonical(p) == IF Exists(p) THEN at[p] ELSE p

\* Mutant: a file is recognised by the name of the path it was reached by.
SeenByName(p) == \E i \in 1..Len(nodes) : nodes[i].path.name = p.name

\* Mutant: the result of `visited.insert` is ignored.
SeenNever(p) == FALSE

\* `visited.insert` finds it there
Seen(p) == Canonical(p) \in visited

NodeOf(p) ==
    LET d == disk[at[p]]
    IN  [path |-> p, guid |-> d.guid,
         parent_link |-> IF d.has_parent THEN d.locator ELSE Nil]

\* Mutant: `visited` and `nodes` are declared inside the loop.
VisitAnew ==
    /\ visited' = {Canonical(current)}
    /\ nodes' = <<NodeOf(current)>>
    /\ UNCHANGED <<at, disk, skip_fsck, leaf, links, next>>

\* What an iteration of the loop does to a file that is opened and pushed.
Visit ==
    /\ visited' = visited \cup {Canonical(current)}
    /\ nodes' = Append(nodes, NodeOf(current))
    /\ UNCHANGED <<at, disk, skip_fsck, leaf, links, next>>

Walking == pc = "walk" /\ ~Seen(current) /\ Opens(current)
Found == disk[at[current]]

\* A differencing disk: go on with its parent, or fail with ParentNotFound.
VisitChild ==
    /\ Walking /\ Found.has_parent /\ Found.locator # Nil
    /\ Visit
    /\ LET p == resolve_parent(current, Found.locator)
       IN  IF p = Nil THEN pc' = "failed" /\ UNCHANGED current
                      ELSE pc' = "walk" /\ current' = p

VisitRoot ==
    /\ Walking /\ ~Found.has_parent
    /\ Visit
    /\ pc' = "verify" /\ UNCHANGED current

\* A cycle, a file that cannot be opened, a differencing disk with no locator
VisitFails ==
    /\ pc = "walk"
    /\ \/ Seen(current)
       \/ ~Opens(current)
       \/ Found.has_parent /\ Found.locator = Nil
    /\ Fail

\* Mutant: the node's own guid is compared with the one it expects.
MismatchSkewed(i) ==
    LET link == nodes[i].parent_link
    IN  link # Nil /\ link.linkage # Nil /\ nodes[i].guid = link.linkage

\* Node i expects another parent than the one found.
Mismatch(i) ==
    LET link == nodes[i].parent_link
        parent == IF i < Len(nodes) THEN nodes[i + 1].guid ELSE Nil
    IN  link # Nil /\ link.linkage # Nil /\ parent # link.linkage /\ parent # Nil

Verify ==
    /\ pc = "verify"
    /\ pc' = IF \E i \in 1..Len(nodes) : Mismatch(i) THEN "failed"
             ELSE IF skip_fsck THEN "open" ELSE "fsck"
    /\ UNCHANGED <<at, disk, skip_fsck, leaf, current, visited, nodes, links, next>>

FsckNode ==
    /\ pc = "fsck" /\ next <= Len(nodes)
    /\ fsck(nodes[next].path)
    /\ next' = next + 1
    /\ UNCHANGED <<at, skip_fsck, leaf, pc, current, visited, nodes, links>>

FsckDone ==
    /\ pc = "fsck" /\ next > Len(nodes)
    /\ pc' = "open" /\ next' = 1
    /\ UNCHANGED <<at, disk, skip_fsck, leaf, current, visited, nodes, links>>

\* fsck gives up on a file, or opening it again returns an error
FileFails ==
    /\ \/ pc = "fsck_leaf"
       \/ pc \in {"fsck", "open"} /\ next <= Len(nodes)
    /\ Fail

\* Mutant: a node is looked for by its file name next to the leaf.
OpenLinkBeside ==
    /\ pc = "open" /\ next <= Len(nodes)
    /\ links' = Append(links, at[[dir |-> leaf.dir, name |-> nodes[next].path.name]])
    /\ next' = next + 1
    /\ UNCHANGED <<at, disk, skip_fsck, leaf, pc, current, visited, nodes>>

OpenLink ==
    /\ pc = "open" /\ next <= Len(nodes)
    /\ links' = Append(links, at[nodes[next].path])
    /\ next' = next + 1
    /\ UNCHANGED <<at, disk, skip_fsck, leaf, pc, current, visited, nodes>>

\* Virtual disk size and logical sector size have to match the leaf's.
CheckSizes ==
    /\ pc = "open" /\ next > Len(nodes)
    /\ pc' = IF \A i \in 1..Len(links) : disk[links[i]].size = disk[links[1]].size
             THEN "ready" ELSE "failed"
    /\ UNCHANGED <<at, disk, skip_fsck, leaf, current, visited, nodes, links, next>>

Advance ==
    \/ FsckLeaf \/ LeafUnreadable \/ VisitChild \/ VisitRoot \/ VisitFails \/ Verify
    \/ FsckNode \/ FsckDone \/ OpenLink \/ CheckSizes

ChNext == Advance \/ FileFails

\* One thread runs this to its end by itself: a step that can be taken is
\* taken.  No file has to fail.
ChSpec == ChInit /\ [][ChNext]_cvars /\ WF_cvars(Advance)

-----------------------------------------------------------------------------
(* Properties.                                                             *)

\* The path that the file at p, a differencing disk, names as its parent; Nil
\* if there is none to be found.
ParentOf(p) ==
    LET d == disk[at[p]]
    IN  IF d.has_parent /\ d.locator # Nil THEN resolve_parent(p, d.locator) ELSE Nil

\* The chain as the files define it: s leads from the leaf, each path to the
\* parent of the one before, to a root, and to no file twice.
WholeChain(s) ==
    /\ s # <<>> /\ s[1] = leaf
    /\ \A i \in 1..Len(s) : Opens(s[i])
    /\ \A i \in 1..(Len(s) - 1) : s[i + 1] = ParentOf(s[i])
    /\ ~disk[at[s[Len(s)]]].has_parent
    /\ \A i, j \in 1..Len(s) : at[s[i]] = at[s[j]] => i = j

\* What discover hands over is the whole chain, from the leaf to a root, with
\* no file in it twice whatever paths lead to it.
WalksLineage == pc = "verify" => WholeChain([i \in 1..Len(nodes) |-> nodes[i].path])

\* discover never makes more nodes than there are files, so a walk in circles
\* is noticed at the first file that it meets again.
BoundedWalk == Len(nodes) <= Cardinality(Files)

\* The walk gives up only on a chain that has no end: a link that cannot be
\* resolved or opened, or a file reached again.  A detour through a symbolic
\* link or another directory is not taken for a cycle.
FailsWithCause ==
    [][pc = "walk" /\ pc' = "failed" =>
         \A n \in 1..Cardinality(Files) : \A s \in [1..n -> Paths] : ~WholeChain(s)]_cvars

\* The file flatten reads below the leaf is the one that the leaf's locator,
\* as repair left it, names, and has the DataWriteGuid it asks for.  (Of the
\* other links this is not so: see the README.)
LeafParentVerified ==
    pc = "ready" /\ Len(links) > 1 =>
        LET loc == disk[links[1]].locator
            guid == disk[links[2]].guid
        IN  /\ loc # Nil /\ Exists(resolve_parent(leaf, loc))
            /\ at[resolve_parent(leaf, loc)] = links[2]
            /\ loc.linkage \in {Nil, guid} \/ guid = Nil

\* The walk ends, whatever the locators of the files say: no cycle of files,
\* paths or symbolic links keeps discover going.
Terminates == <>(pc \in {"ready", "failed"})
=============================================================================
