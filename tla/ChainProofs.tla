---------------------------- MODULE ChainProofs ----------------------------
(* Proofs about Chain, for every set of files, paths and contents.         *)
EXTENDS Chain, FiniteSetTheorems, NaturalsInduction, SequenceTheorems,
        WellFoundedInduction, TLAPS

-----------------------------------------------------------------------------
(* The first candidate that exists is one of the candidates.               *)

Less == {ss \in Nat \X Nat : ss[1] < ss[2]}

\* The order of the natural numbers is well-founded.
LEMMA LessWF == IsWellFoundedOn(Less, Nat)
BY NatLessThanWellFounded DEF OpToRel, Less

\* A nonempty set of natural numbers has a minimum, as resolve_parent's loop
\* over the candidates takes for granted.
LEMMA MinIn ==
    ASSUME NEW S \in SUBSET Nat, S # {}
    PROVE  Min(S) \in S
<1>1. PICK x \in S : \A y \in S : ~(<<y, x>> \in Less)
  BY LessWF, WFMin
<1>2. ASSUME NEW y \in S PROVE x <= y
  <2>1. x \in Nat /\ y \in Nat
    OBVIOUS
  <2>2. ~(y < x)
    <3>1. SUFFICES ASSUME y < x PROVE <<y, x>> \in Less
      BY <1>1
    <3>2. <<y, x>> \in Nat \X Nat /\ <<y, x>>[1] = y /\ <<y, x>>[2] = x
      BY <2>1
    <3> QED
      BY <3>1, <3>2 DEF Less
  <2> QED
    BY <2>1, <2>2
<1> QED
  BY <1>2 DEF Min

\* resolve_parent returns a path that exists, or None.
LEMMA ResolveType ==
    ASSUME NEW child \in Paths, NEW loc \in Locator, resolve_parent(child, loc) # Nil
    PROVE  resolve_parent(child, loc) \in Paths /\ Exists(resolve_parent(child, loc))
<1> DEFINE hits == {k \in 1..(2 * Len(loc.entries)) : Exists(Try(child, loc, k))}
<1>1. loc.entries \in Seq([dir : Dirs \cup {Here}, name : Names])
  BY DEF Locator
<1>2. Len(loc.entries) \in Nat
  BY <1>1
<1>3. hits \in SUBSET Nat /\ hits # {} /\ resolve_parent(child, loc) = Try(child, loc, Min(hits))
  <2>1. hits \in SUBSET Nat
    BY <1>2
  <2>2. hits # {} /\ resolve_parent(child, loc) = Try(child, loc, Min(hits))
    BY DEF resolve_parent
  <2> QED
    BY <2>1, <2>2
<1>4. Min(hits) \in hits
  BY <1>3, MinIn
<1>5. PICK k \in 1..(2 * Len(loc.entries)) : k = Min(hits) /\ Exists(Try(child, loc, k))
  BY <1>4
<1>6. (k + 1) \div 2 \in 1..Len(loc.entries)
  BY <1>2
<1>7. loc.entries[(k + 1) \div 2] \in [dir : Dirs \cup {Here}, name : Names]
  <2> DEFINE s == loc.entries
             E == [dir : Dirs \cup {Here}, name : Names]
             i == (k + 1) \div 2
  <2>1. s \in Seq(E) /\ i \in 1..Len(s)
    BY <1>1, <1>6
  <2> HIDE DEF s, E, i
  <2>2. s[i] \in E
    BY <2>1, ElementOfSeq
  <2> QED
    BY <2>2 DEF s, E, i
<1>8. Try(child, loc, k) \in Paths
  BY <1>7 DEF Try, Candidate, Beside, Paths
<1> QED
  BY <1>3, <1>5, <1>8

-----------------------------------------------------------------------------
(* The inductive invariant.                                                *)

\* Links are opened after the loop that repairs the nodes.
NoLinksYet == pc \in {"fsck_leaf", "walk", "verify", "fsck"} => links = <<>>

\* A node's path leads to a file, and `visited` knows it.
NodesVisited == \A i \in 1..Len(nodes) : at[nodes[i].path] \in Files \cap visited

\* No two nodes are the same file, whatever their paths.
NoFileTwice == \A i, j \in 1..Len(nodes) : at[nodes[i].path] = at[nodes[j].path] => i = j

IInv == ChTypeOK /\ NoLinksYet /\ NodesVisited /\ NoFileTwice

\* What opens is a file.
LEMMA OpensFile ==
    ASSUME ChTypeOK, NEW p \in Paths, Exists(p)
    PROVE  at[p] \in Files /\ Canonical(p) = at[p]
BY DEF ChTypeOK, Exists, Canonical

\* A replayed log leaves a disk.
LEMMA FsckType ==
    ASSUME ChTypeOK, NEW p, fsck(p)
    PROVE  disk' \in [Files -> Disk]
<1>1. ASSUME NEW d \in Disk PROVE Replayed(d) \in Disk
  BY <1>1 DEF Replayed, Disk
<1>2. disk \in [Files -> Disk]
  BY DEF ChTypeOK
<1> QED
  BY <1>1, <1>2 DEF fsck

\* NodeOf makes a node of a file.
LEMMA NodeType ==
    ASSUME ChTypeOK, NEW p \in Paths, Exists(p)
    PROVE  NodeOf(p) \in Node /\ NodeOf(p).path = p
<1>1. disk[at[p]] \in Disk
  BY OpensFile DEF ChTypeOK
<1> QED
  BY <1>1 DEF NodeOf, Node, Disk

\* One round of discover's loop keeps the nodes apart.
LEMMA VisitKeeps ==
    ASSUME IInv, Walking, Visit
    PROVE  /\ nodes' \in Seq(Node) /\ Len(nodes') = Len(nodes) + 1
           /\ visited' \subseteq Files \cup Paths
           /\ NodesVisited' /\ NoFileTwice'
<1> DEFINE n == NodeOf(current)
<1>1. current \in Paths /\ Exists(current) /\ nodes \in Seq(Node) /\ Len(nodes) \in Nat
  BY DEF IInv, ChTypeOK, Walking, Opens
<1>2. n \in Node /\ n.path = current /\ at[current] \in Files /\ Canonical(current) = at[current]
  BY <1>1, NodeType, OpensFile DEF IInv
<1>3. at[current] \notin visited
  BY <1>2 DEF Walking, Seen
<1>4. nodes' = Append(nodes, n) /\ visited' = visited \cup {at[current]} /\ at' = at
  BY <1>2 DEF Visit
<1> HIDE DEF n
<1>5. nodes' \in Seq(Node) /\ Len(nodes') = Len(nodes) + 1
  BY <1>1, <1>2, <1>4
<1>6. /\ \A i \in 1..Len(nodes) : nodes'[i] = nodes[i]
      /\ nodes'[Len(nodes) + 1] = n
  BY <1>1, <1>2, <1>4
<1>7. visited' \subseteq Files \cup Paths
  BY <1>2, <1>4 DEF IInv, ChTypeOK
<1>8. \A i \in 1..Len(nodes') : i \in 1..Len(nodes) \/ i = Len(nodes) + 1
  BY <1>1, <1>5
<1>9. NodesVisited'
  <2>1. ASSUME NEW i \in 1..Len(nodes') PROVE at'[nodes'[i].path] \in Files \cap visited'
    <3>1. CASE i \in 1..Len(nodes)
      BY <3>1, <1>4, <1>6 DEF IInv, NodesVisited
    <3>2. CASE i = Len(nodes) + 1
      BY <3>2, <1>2, <1>4, <1>6
    <3> QED
      BY <3>1, <3>2, <1>8
  <2> QED
    BY <2>1 DEF NodesVisited
<1>10. NoFileTwice'
  <2>1. ASSUME NEW i \in 1..Len(nodes'), NEW j \in 1..Len(nodes'),
               at'[nodes'[i].path] = at'[nodes'[j].path]
        PROVE  i = j
    <3>1. CASE i \in 1..Len(nodes) /\ j \in 1..Len(nodes)
      BY <2>1, <3>1, <1>4, <1>6 DEF IInv, NoFileTwice
    <3>2. CASE i \in 1..Len(nodes) /\ j = Len(nodes) + 1
      BY <2>1, <3>2, <1>2, <1>3, <1>4, <1>6 DEF IInv, NodesVisited
    <3>3. CASE i = Len(nodes) + 1 /\ j \in 1..Len(nodes)
      BY <2>1, <3>3, <1>2, <1>3, <1>4, <1>6 DEF IInv, NodesVisited
    <3> QED
      BY <3>1, <3>2, <3>3, <1>8
  <2> QED
    BY <2>1 DEF NoFileTwice
<1> QED
  BY <1>5, <1>7, <1>9, <1>10

\* Steps that leave the walk's results alone keep what is said about them.
LEMMA NodesStay ==
    ASSUME IInv, UNCHANGED <<at, nodes, visited>>
    PROVE  NodesVisited' /\ NoFileTwice'
BY DEF IInv, NodesVisited, NoFileTwice

\* Before the first step nothing has been found.
LEMMA InitIInv == ChInit => IInv
<1> SUFFICES ASSUME ChInit PROVE IInv
  OBVIOUS
<1>1. nodes = <<>> /\ links = <<>> /\ next = 1 /\ visited = {}
  BY DEF ChInit
<1>2. nodes \in Seq(Node) /\ links \in Seq(Files) /\ Len(nodes) = 0 /\ Len(links) = 0
  BY <1>1
<1>3. disk \in [Files -> Disk]
  BY ChainAssumption DEF ChInit
<1>4. at \in [Paths -> Files \cup {Nil}] /\ skip_fsck \in BOOLEAN /\ leaf \in Paths
      /\ current \in Paths /\ pc \in Steps
  BY DEF ChInit, Steps
<1>5. ChTypeOK
  BY <1>1, <1>2, <1>3, <1>4 DEF ChTypeOK
<1>6. NoLinksYet /\ NodesVisited /\ NoFileTwice
  BY <1>1, <1>2 DEF NoLinksYet, NodesVisited, NoFileTwice
<1> QED
  BY <1>5, <1>6 DEF IInv

\* Giving up changes nothing but where the command is.
LEMMA FailKeeps ==
    ASSUME IInv, Fail
    PROVE  IInv'
<1>1. NodesVisited' /\ NoFileTwice'
  BY NodesStay DEF Fail
<1>2. ChTypeOK' /\ NoLinksYet'
  BY DEF IInv, Fail, ChTypeOK, Steps, NoLinksYet
<1> QED
  BY <1>1, <1>2 DEF IInv

\* Every step of flatten's preparation keeps the invariant.
LEMMA StepIInv == IInv /\ [ChNext]_cvars => IInv'
<1> SUFFICES ASSUME IInv, [ChNext]_cvars PROVE IInv'
  OBVIOUS
<1>0. ChTypeOK /\ Len(nodes) \in Nat /\ Len(links) \in Nat
  BY DEF IInv, ChTypeOK
<1>1. ASSUME FsckLeaf PROVE IInv'
  <2>1. NodesVisited' /\ NoFileTwice'
    BY <1>1, NodesStay DEF FsckLeaf
  <2>2. disk' \in [Files -> Disk]
    BY <1>0, <1>1, FsckType DEF FsckLeaf
  <2>3. ChTypeOK' /\ NoLinksYet'
    BY <1>1, <2>2 DEF FsckLeaf, IInv, ChTypeOK, Steps, NoLinksYet
  <2> QED
    BY <2>1, <2>3 DEF IInv
<1>2. ASSUME VisitChild PROVE IInv'
  <2> DEFINE p == resolve_parent(current, Found.locator)
  <2>1. /\ nodes' \in Seq(Node) /\ Len(nodes') = Len(nodes) + 1
        /\ visited' \subseteq Files \cup Paths
        /\ NodesVisited' /\ NoFileTwice'
    BY <1>2, VisitKeeps DEF VisitChild
  <2>2. Found.locator \in Locator
    <3>1. Found \in Disk
      BY <1>0, <1>2, OpensFile DEF VisitChild, Walking, Opens, Found, ChTypeOK
    <3> QED
      BY <3>1, <1>2 DEF VisitChild, Disk
  <2>3. p # Nil => p \in Paths
    BY <1>0, <2>2, ResolveType DEF ChTypeOK
  <2>4. pc' \in {"walk", "failed"} /\ current' \in Paths
    <3> HIDE DEF p
    <3>1. IF p = Nil THEN pc' = "failed" /\ UNCHANGED current
                     ELSE pc' = "walk" /\ current' = p
      BY <1>2 DEF VisitChild, p
    <3> QED
      BY <3>1, <2>3, <1>0 DEF ChTypeOK
  <2>5. UNCHANGED <<at, disk, skip_fsck, leaf, links, next>> /\ pc = "walk"
    BY <1>2 DEF VisitChild, Visit, Walking
  <2>6. ChTypeOK' /\ NoLinksYet'
    BY <1>0, <2>1, <2>4, <2>5 DEF IInv, ChTypeOK, Steps, NoLinksYet
  <2> QED
    BY <2>1, <2>6 DEF IInv
<1>3. ASSUME VisitRoot PROVE IInv'
  <2>1. /\ nodes' \in Seq(Node) /\ Len(nodes') = Len(nodes) + 1
        /\ visited' \subseteq Files \cup Paths
        /\ NodesVisited' /\ NoFileTwice'
    BY <1>3, VisitKeeps DEF VisitRoot
  <2>2. UNCHANGED <<at, disk, skip_fsck, leaf, links, next, current>>
        /\ pc = "walk" /\ pc' = "verify"
    BY <1>3 DEF VisitRoot, Visit, Walking
  <2>3. ChTypeOK' /\ NoLinksYet'
    BY <1>0, <2>1, <2>2 DEF IInv, ChTypeOK, Steps, NoLinksYet
  <2> QED
    BY <2>1, <2>3 DEF IInv
<1>4. ASSUME Verify PROVE IInv'
  <2>1. NodesVisited' /\ NoFileTwice'
    BY <1>4, NodesStay DEF Verify
  <2>2. pc = "verify" /\ pc' \in {"failed", "open", "fsck"}
        /\ UNCHANGED <<at, disk, skip_fsck, leaf, current, visited, nodes, links, next>>
    BY <1>4 DEF Verify
  <2>3. ChTypeOK' /\ NoLinksYet'
    BY <2>2 DEF IInv, ChTypeOK, Steps, NoLinksYet
  <2> QED
    BY <2>1, <2>3 DEF IInv
<1>5. ASSUME FsckNode PROVE IInv'
  <2>1. NodesVisited' /\ NoFileTwice'
    BY <1>5, NodesStay DEF FsckNode
  <2>2. disk' \in [Files -> Disk]
    BY <1>0, <1>5, FsckType DEF FsckNode
  <2>3. ChTypeOK' /\ NoLinksYet'
    BY <1>0, <1>5, <2>2 DEF FsckNode, IInv, ChTypeOK, Steps, NoLinksYet
  <2> QED
    BY <2>1, <2>3 DEF IInv
<1>6. ASSUME FsckDone PROVE IInv'
  <2>1. NodesVisited' /\ NoFileTwice'
    BY <1>6, NodesStay DEF FsckDone
  <2>2. links = <<>> /\ Len(links) = 0
    BY <1>6 DEF FsckDone, IInv, NoLinksYet
  <2>3. ChTypeOK' /\ NoLinksYet'
    BY <1>0, <1>6, <2>2 DEF FsckDone, IInv, ChTypeOK, Steps, NoLinksYet
  <2> QED
    BY <2>1, <2>3 DEF IInv
<1>7. ASSUME OpenLink PROVE IInv'
  <2>1. NodesVisited' /\ NoFileTwice'
    BY <1>7, NodesStay DEF OpenLink
  <2>2. at[nodes[next].path] \in Files
    BY <1>0, <1>7 DEF OpenLink, IInv, ChTypeOK, NodesVisited
  <2>3. links' \in Seq(Files) /\ Len(links') = Len(links) + 1
    BY <1>0, <1>7, <2>2 DEF OpenLink, ChTypeOK
  <2>4. pc = "open" /\ next' = next + 1 /\ next <= Len(nodes)
        /\ UNCHANGED <<at, disk, skip_fsck, leaf, pc, current, visited, nodes>>
    BY <1>7 DEF OpenLink
  <2>5. ChTypeOK' /\ NoLinksYet'
    BY <1>0, <2>3, <2>4 DEF ChTypeOK, NoLinksYet
  <2> QED
    BY <2>1, <2>5 DEF IInv
<1>8. ASSUME CheckSizes PROVE IInv'
  <2>1. NodesVisited' /\ NoFileTwice'
    BY <1>8, NodesStay DEF CheckSizes
  <2>2. pc' \in {"ready", "failed"}
        /\ UNCHANGED <<at, disk, skip_fsck, leaf, current, visited, nodes, links, next>>
    BY <1>8 DEF CheckSizes
  <2>3. ChTypeOK' /\ NoLinksYet'
    BY <1>0, <2>2 DEF ChTypeOK, Steps, NoLinksYet
  <2> QED
    BY <2>1, <2>3 DEF IInv
<1>9. ASSUME Fail PROVE IInv'
  BY <1>9, FailKeeps
<1>10. ASSUME UNCHANGED cvars PROVE IInv'
  BY <1>10 DEF cvars, IInv, ChTypeOK, NoLinksYet, NodesVisited, NoFileTwice
<1> QED
  BY <1>1, <1>2, <1>3, <1>4, <1>5, <1>6, <1>7, <1>8, <1>9, <1>10
     DEF ChNext, Advance, LeafUnreadable, VisitFails, FileFails

\* The invariant holds throughout.
LEMMA ChainInvariant == ChSpec => []IInv
BY InitIInv, StepIInv, PTL DEF ChSpec

-----------------------------------------------------------------------------
(* Theorems.                                                               *)

\* Discovery and what follows it stay well-typed: only paths that resolve_parent
\* found are followed, and every link that flatten opens is a file.
THEOREM ChainTypeCorrect == ChSpec => []ChTypeOK
BY ChainInvariant, PTL DEF IInv

\* Chain::discover never puts a file in the chain twice, through whatever
\* paths, symbolic links or locators it is reached again.  A file is what a
\* canonical path names: hard links are not recognised as one file.
THEOREM ChainNoFileTwice == ChSpec => []NoFileTwice
BY ChainInvariant, PTL DEF IInv

\* Chain::discover makes at most one node per file, for any number of files and
\* any locators in them: `visited` stops every walk in circles.
THEOREM WalkBounded == ChSpec => []BoundedWalk
<1>1. IInv => BoundedWalk
  <2> SUFFICES ASSUME IInv PROVE BoundedWalk
    OBVIOUS
  <2> DEFINE N == Len(nodes)
             F == [i \in 1..N |-> at[nodes[i].path]]
  <2>1. N \in Nat
    BY DEF IInv, ChTypeOK
  <2>2. F \in [1..N -> Files]
    BY DEF IInv, NodesVisited
  <2>3. \A i, j \in 1..N : F[i] = F[j] => i = j
    BY DEF IInv, NoFileTwice
  <2>4. F \in Injection(1..N, Files)
    BY <2>2, <2>3 DEF Injection, IsInjective
  <2>5. IsFiniteSet(Files)
    BY ChainAssumption
  <2>6. IsFiniteSet(1..N) /\ Cardinality(1..N) = N
    <3> HIDE DEF N
    <3>1. Cardinality(1..N) = (IF 1 > N THEN 0 ELSE N - 1 + 1) /\ IsFiniteSet(1..N)
      BY <2>1, FS_Interval
    <3> QED
      BY <2>1, <3>1
  <2>7. Cardinality(1..N) <= Cardinality(Files)
    <3> HIDE DEF F, N
    <3> QED
      BY <2>4, <2>5, FS_Injection
  <2> QED
    BY <2>6, <2>7 DEF BoundedWalk
<1> QED
  BY <1>1, ChainInvariant, PTL

-----------------------------------------------------------------------------
(* The parent that flatten reads.                                          *)

\* The leaf's contents; parent_link copies its locator.
Leaf == disk[at[leaf]]
LeafLink == IF Leaf.has_parent THEN Leaf.locator ELSE Nil

\* Whether and when files are repaired.
Repaired ==
    /\ skip_fsck => pc \notin {"fsck_leaf", "fsck"}
    /\ pc \in {"walk", "verify", "fsck", "open", "ready"} /\ ~skip_fsck => Leaf.logged = Nil

\* The walk begins at the leaf and goes on with what its locator names.
FirstNodes ==
    pc # "failed" =>
        /\ pc = "fsck_leaf" => nodes = <<>>
        /\ nodes = <<>> => current = leaf
        /\ nodes # <<>> => nodes[1].path = leaf /\ nodes[1].parent_link = LeafLink
        /\ (nodes # <<>> /\ pc = "walk") \/ Len(nodes) > 1 => LeafLink # Nil
        /\ Len(nodes) = 1 /\ pc = "walk" => current = resolve_parent(leaf, LeafLink)
        /\ Len(nodes) > 1 => nodes[2].path = resolve_parent(leaf, LeafLink)

\* fsck does not touch a file's DataWriteGuid.
NodeGuids == \A i \in 1..Len(nodes) : nodes[i].guid = disk[at[nodes[i].path]].guid

Verified == pc \in {"fsck", "open", "ready"} /\ Len(nodes) > 0 => ~Mismatch(1)

LinksOpened ==
    /\ Len(links) <= Len(nodes)
    /\ \A i \in 1..Len(links) : links[i] = at[nodes[i].path]
    /\ pc \in {"fsck_leaf", "walk", "verify"} => next = 1
    /\ pc = "open" => next = Len(links) + 1

LInv == Repaired /\ FirstNodes /\ NodeGuids /\ Verified /\ LinksOpened

\* What the leaf's locator leads to depends on the leaf and the directories only.
LEMMA LeafStays ==
    ASSUME UNCHANGED <<at, leaf, Leaf>>
    PROVE  UNCHANGED <<LeafLink, resolve_parent(leaf, LeafLink)>>
<1>1. UNCHANGED LeafLink
  BY DEF LeafLink
<1>2. at' = at /\ leaf' = leaf
  OBVIOUS
<1> QED
  BY <1>1, <1>2 DEF resolve_parent, Exists, Try, Candidate, Beside

\* An iteration of the walk leaves at least one node, and the leaf first.
LEMMA VisitFirst ==
    ASSUME IInv, LInv, Walking, Visit
    PROVE  /\ nodes' = Append(nodes, NodeOf(current)) /\ UNCHANGED <<at, disk, leaf>>
           /\ nodes' # <<>> /\ nodes'[1].path = leaf /\ nodes'[1].parent_link = LeafLink
           /\ \A i \in 1..Len(nodes) : nodes'[i] = nodes[i]
           /\ nodes'[Len(nodes) + 1] = NodeOf(current) /\ Len(nodes') = Len(nodes) + 1
           /\ nodes # <<>> => LeafLink # Nil /\ nodes'[2].path = resolve_parent(leaf, LeafLink)
           /\ NodeGuids'
<1>1. /\ nodes' = Append(nodes, NodeOf(current)) /\ UNCHANGED <<at, disk, leaf>>
      /\ nodes \in Seq(Node) /\ Len(nodes) \in Nat /\ current \in Paths /\ Exists(current)
      /\ pc = "walk"
  BY DEF Visit, IInv, ChTypeOK, Walking, Opens
<1>2. NodeOf(current) \in Node /\ NodeOf(current).path = current
  BY <1>1, NodeType DEF IInv
<1>3. /\ \A i \in 1..Len(nodes) : nodes'[i] = nodes[i]
      /\ nodes'[Len(nodes) + 1] = NodeOf(current) /\ Len(nodes') = Len(nodes) + 1
  <2> DEFINE n == NodeOf(current)
  <2> HIDE DEF n
  <2>1. nodes' = Append(nodes, n) /\ n \in Node
    BY <1>1, <1>2 DEF n
  <2>2. /\ \A i \in 1..Len(nodes) : nodes'[i] = nodes[i]
        /\ nodes'[Len(nodes) + 1] = n /\ Len(nodes') = Len(nodes) + 1
    BY <1>1, <2>1
  <2> QED
    BY <2>2 DEF n
<1>4. nodes' # <<>> /\ nodes'[1].path = leaf /\ nodes'[1].parent_link = LeafLink
  <2>1. nodes' # <<>>
    BY <1>1, <1>3
  <2>2. CASE nodes = <<>>
    <3>1. current = leaf /\ Len(nodes) = 0
      BY <1>1, <2>2 DEF LInv, FirstNodes
    <3>2. nodes'[1] = NodeOf(leaf)
      BY <1>3, <3>1
    <3> QED
      BY <2>1, <3>2 DEF NodeOf, LeafLink, Leaf
  <2>3. CASE nodes # <<>>
    <3>1. 1 \in 1..Len(nodes)
      BY <1>1, <2>3
    <3> QED
      BY <1>1, <1>3, <2>1, <2>3, <3>1 DEF LInv, FirstNodes
  <2> QED
    BY <2>2, <2>3
<1>5. NodeGuids'
  <2>1. ASSUME NEW i \in 1..Len(nodes') PROVE nodes'[i].guid = disk'[at'[nodes'[i].path]].guid
    <3>1. CASE i \in 1..Len(nodes)
      BY <1>1, <1>3, <3>1 DEF LInv, NodeGuids
    <3>2. CASE i = Len(nodes) + 1
      BY <1>1, <1>2, <1>3, <3>2 DEF NodeOf
    <3> QED
      BY <1>1, <1>3, <3>1, <3>2
  <2> QED
    BY <2>1 DEF NodeGuids
<1>6. ASSUME nodes # <<>> PROVE LeafLink # Nil /\ nodes'[2].path = resolve_parent(leaf, LeafLink)
  <2>1. LeafLink # Nil /\ Len(nodes) > 0
    BY <1>1, <1>6 DEF LInv, FirstNodes
  <2>2. CASE Len(nodes) = 1
    <3>1. nodes'[2] = NodeOf(current) /\ current = resolve_parent(leaf, LeafLink)
      BY <1>1, <1>3, <2>2 DEF LInv, FirstNodes
    <3> QED
      BY <1>2, <2>1, <3>1
  <2>3. CASE Len(nodes) > 1
    <3>1. nodes'[2] = nodes[2]
      BY <1>1, <1>3, <2>3
    <3> QED
      BY <1>1, <2>1, <2>3, <3>1 DEF LInv, FirstNodes
  <2>4. Len(nodes) = 1 \/ Len(nodes) > 1
    BY <1>1, <2>1
  <2> QED
    BY <2>2, <2>3, <2>4
<1> QED
  BY <1>1, <1>3, <1>4, <1>5, <1>6

\* A repair leaves guids alone, and the leaf as well once its log is replayed.
LEMMA FsckKeeps ==
    ASSUME IInv, NEW p \in Paths, fsck(p), NodeGuids, UNCHANGED <<at, nodes, leaf>>
    PROVE  /\ NodeGuids'
           /\ at[leaf] \in Files /\ Leaf.logged = Nil => Leaf' = Leaf
<1>1. disk \in [Files -> Disk] /\ disk' = [disk EXCEPT ![at[p]] = Replayed(@)]
  BY DEF IInv, ChTypeOK, fsck
<1>2. ASSUME NEW d \in Disk PROVE Replayed(d).guid = d.guid /\ (d.logged = Nil => Replayed(d) = d)
  BY DEF Replayed, Disk
<1>3. \A f \in Files : disk'[f].guid = disk[f].guid /\ (disk[f].logged = Nil => disk'[f] = disk[f])
  BY <1>1, <1>2
<1>4. NodeGuids'
  BY <1>3 DEF NodeGuids, IInv, NodesVisited
<1> QED
  BY <1>3, <1>4 DEF Leaf

\* At the start there are no nodes and no links.
LEMMA InitLInv == ChInit => LInv
<1> SUFFICES ASSUME ChInit PROVE LInv
  OBVIOUS
<1>1. /\ nodes = <<>> /\ links = <<>> /\ Len(nodes) = 0 /\ Len(links) = 0 /\ next = 1 /\ current = leaf
      /\ pc = IF skip_fsck THEN "walk" ELSE "fsck_leaf"
  BY DEF ChInit
<1>2. pc \in {"walk", "fsck_leaf"} /\ (skip_fsck => pc = "walk") /\ (~skip_fsck => pc = "fsck_leaf")
  BY <1>1
<1> QED
  BY <1>1, <1>2 DEF LInv, Repaired, FirstNodes, NodeGuids, Verified, LinksOpened

\* Giving up ends all that is said about the walk.
LEMMA FailKeepsL ==
    ASSUME IInv, LInv, Fail
    PROVE  LInv'
BY DEF LInv, Fail, Repaired, FirstNodes, NodeGuids, Verified, LinksOpened

\* Every step keeps what is known of the leaf and its parent.
LEMMA StepLInv == IInv /\ LInv /\ [ChNext]_cvars => LInv'
<1> SUFFICES ASSUME IInv, LInv, [ChNext]_cvars PROVE LInv'
  OBVIOUS
<1>0. /\ Len(nodes) \in Nat /\ Len(links) \in Nat /\ nodes \in Seq(Node) /\ links \in Seq(Files)
      /\ at \in [Paths -> Files \cup {Nil}] /\ disk \in [Files -> Disk] /\ leaf \in Paths
      /\ next \in Nat /\ Nil \notin Files /\ skip_fsck \in BOOLEAN
  BY ChainAssumption DEF IInv, ChTypeOK
<1>1. ASSUME FsckLeaf PROVE LInv'
  <2>1. /\ pc = "fsck_leaf" /\ pc' = "walk" /\ ~skip_fsck /\ fsck(leaf) /\ at[leaf] \in Files
        /\ UNCHANGED <<at, skip_fsck, leaf, current, visited, nodes, links, next>>
    BY <1>0, <1>1 DEF FsckLeaf, Opens, Exists, LInv, Repaired
  <2>2. nodes = <<>> /\ Len(nodes) = 0 /\ current = leaf
    BY <2>1 DEF LInv, FirstNodes
  <2>3. Leaf'.logged = Nil
    <3>1. disk[at[leaf]] \in Disk /\ Leaf' = Replayed(disk[at[leaf]])
      BY <1>0, <2>1 DEF fsck, Leaf
    <3> QED
      BY <3>1 DEF Replayed, Disk
  <2>4. NodeGuids'
    BY <2>1, <1>0, FsckKeeps DEF LInv
  <2> QED
    BY <1>0, <2>1, <2>2, <2>3, <2>4 DEF LInv, Repaired, FirstNodes, Verified, LinksOpened
<1>2. ASSUME VisitChild PROVE LInv'
  <2>1. /\ nodes' # <<>> /\ nodes'[1].path = leaf /\ nodes'[1].parent_link = LeafLink
        /\ Len(nodes') = Len(nodes) + 1 /\ NodeGuids' /\ UNCHANGED <<at, disk, leaf>>
        /\ nodes # <<>> => LeafLink # Nil /\ nodes'[2].path = resolve_parent(leaf, LeafLink)
    BY <1>2, VisitFirst DEF VisitChild
  <2>2. pc = "walk" /\ pc' \in {"walk", "failed"} /\ UNCHANGED <<skip_fsck, links, next>> /\ links = <<>>
    BY <1>2 DEF VisitChild, Visit, Walking, IInv, NoLinksYet
  <2>3. UNCHANGED <<Leaf, LeafLink, resolve_parent(leaf, LeafLink)>>
    BY <2>1, LeafStays DEF Leaf
  <2>4. FirstNodes'
    <3>1. CASE nodes = <<>>
      <4>1. current = leaf /\ Len(nodes) = 0
        BY <2>2, <3>1 DEF LInv, FirstNodes
      <4>2. Found = Leaf /\ LeafLink = Leaf.locator /\ LeafLink # Nil
        BY <1>2, <4>1 DEF VisitChild, Found, Leaf, LeafLink
      <4>3. pc' = "walk" => current' = resolve_parent(leaf, LeafLink)
        BY <1>2, <4>1, <4>2 DEF VisitChild
      <4> QED
        BY <2>1, <2>2, <2>3, <4>1, <4>2, <4>3 DEF FirstNodes
    <3>2. CASE nodes # <<>>
      <4>1. Len(nodes) > 0
        BY <1>0, <3>2
      <4> QED
        BY <1>0, <2>1, <2>2, <2>3, <3>2, <4>1 DEF FirstNodes
    <3> QED
      BY <3>1, <3>2
  <2>5. Repaired' /\ Verified'
    BY <2>2, <2>3 DEF LInv, Repaired, Verified
  <2>6. LinksOpened'
    BY <1>0, <2>1, <2>2 DEF LInv, LinksOpened
  <2> QED
    BY <2>1, <2>4, <2>5, <2>6 DEF LInv
<1>3. ASSUME VisitRoot PROVE LInv'
  <2>1. /\ nodes' # <<>> /\ nodes'[1].path = leaf /\ nodes'[1].parent_link = LeafLink
        /\ Len(nodes') = Len(nodes) + 1 /\ NodeGuids' /\ UNCHANGED <<at, disk, leaf>>
        /\ nodes # <<>> => LeafLink # Nil /\ nodes'[2].path = resolve_parent(leaf, LeafLink)
    BY <1>3, VisitFirst DEF VisitRoot
  <2>2. pc = "walk" /\ pc' = "verify" /\ UNCHANGED <<skip_fsck, links, next>> /\ links = <<>>
    BY <1>3 DEF VisitRoot, Visit, Walking, IInv, NoLinksYet
  <2>3. UNCHANGED <<Leaf, LeafLink, resolve_parent(leaf, LeafLink)>>
    BY <2>1, LeafStays DEF Leaf
  <2>4. FirstNodes'
    <3>1. CASE nodes = <<>>
      <4>1. Len(nodes') = 1
        BY <2>1, <3>1
      <4> QED
        BY <2>1, <2>2, <2>3, <4>1 DEF FirstNodes
    <3>2. CASE nodes # <<>>
      BY <1>0, <2>1, <2>2, <2>3, <3>2 DEF FirstNodes
    <3> QED
      BY <3>1, <3>2
  <2>5. Repaired' /\ Verified'
    BY <2>2, <2>3 DEF LInv, Repaired, Verified
  <2>6. LinksOpened'
    BY <1>0, <2>1, <2>2 DEF LInv, LinksOpened
  <2> QED
    BY <2>1, <2>4, <2>5, <2>6 DEF LInv
<1>4. ASSUME Verify PROVE LInv'
  <2>1. /\ pc = "verify" /\ pc' \in {"failed", "open", "fsck"} /\ (skip_fsck => pc' # "fsck")
        /\ UNCHANGED <<at, disk, skip_fsck, leaf, current, visited, nodes, links, next>>
        /\ pc' # "failed" => \A i \in 1..Len(nodes) : ~Mismatch(i)
        /\ links = <<>>
    BY <1>4 DEF Verify, IInv, NoLinksYet
  <2>2. UNCHANGED <<Leaf, LeafLink, resolve_parent(leaf, LeafLink)>> /\ UNCHANGED Mismatch(1)
    BY <2>1, LeafStays DEF Leaf, Mismatch
  <2>3. Repaired' /\ FirstNodes' /\ NodeGuids'
    BY <2>1, <2>2 DEF LInv, Repaired, FirstNodes, NodeGuids
  <2>4. Verified'
    BY <1>0, <2>1, <2>2 DEF Verified
  <2>5. LinksOpened'
    BY <1>0, <2>1 DEF LInv, LinksOpened
  <2> QED
    BY <2>3, <2>4, <2>5 DEF LInv
<1>5. ASSUME FsckNode PROVE LInv'
  <2>1. /\ pc = "fsck" /\ pc' = "fsck" /\ next \in 1..Len(nodes) /\ fsck(nodes[next].path)
        /\ UNCHANGED <<at, skip_fsck, leaf, current, visited, nodes, links>>
        /\ next' = next + 1 /\ ~skip_fsck /\ nodes # <<>> /\ Len(nodes) > 0
    BY <1>0, <1>5 DEF FsckNode, LInv, Repaired, IInv, ChTypeOK
  <2>2. nodes[next].path \in Paths
    <3>1. nodes[next] \in Node
      BY <1>0, <2>1, ElementOfSeq
    <3> QED
      BY <3>1 DEF Node
  <2>3. at[leaf] \in Files
    <3>1. 1 \in 1..Len(nodes) /\ nodes[1].path = leaf
      BY <1>0, <2>1 DEF LInv, FirstNodes
    <3> QED
      BY <3>1 DEF IInv, NodesVisited
  <2>4. Leaf.logged = Nil
    BY <2>1 DEF LInv, Repaired
  <2>5. NodeGuids' /\ Leaf' = Leaf
    BY <2>1, <2>2, <2>3, <2>4, FsckKeeps DEF LInv
  <2>6. UNCHANGED <<LeafLink, resolve_parent(leaf, LeafLink)>> /\ UNCHANGED Mismatch(1)
    BY <2>1, <2>5, LeafStays DEF Mismatch
  <2>7. Repaired' /\ FirstNodes' /\ Verified'
    BY <2>1, <2>4, <2>5, <2>6 DEF LInv, Repaired, FirstNodes, Verified
  <2>8. LinksOpened'
    BY <1>0, <2>1 DEF LInv, LinksOpened
  <2> QED
    BY <2>5, <2>7, <2>8 DEF LInv
<1>6. ASSUME \/ FsckDone /\ pc = "fsck" /\ pc' = "open" /\ links = <<>> /\ next' = 1
             \/ CheckSizes /\ pc = "open" /\ pc' \in {"ready", "failed"}
      PROVE  LInv'
  <2>1. UNCHANGED <<at, disk, skip_fsck, leaf, current, visited, nodes, links>>
    BY <1>6 DEF FsckDone, CheckSizes
  <2>2. UNCHANGED <<Leaf, LeafLink, resolve_parent(leaf, LeafLink)>> /\ UNCHANGED Mismatch(1)
    BY <2>1, LeafStays DEF Leaf, Mismatch
  <2>3. Repaired' /\ FirstNodes' /\ NodeGuids' /\ Verified'
    BY <1>6, <2>1, <2>2 DEF LInv, Repaired, FirstNodes, NodeGuids, Verified
  <2>4. LinksOpened'
    BY <1>0, <1>6, <2>1 DEF LInv, LinksOpened
  <2> QED
    BY <2>3, <2>4 DEF LInv
<1>7. ASSUME OpenLink PROVE LInv'
  <2>1. /\ pc = "open" /\ pc' = "open" /\ next \in 1..Len(nodes) /\ next' = next + 1
        /\ links' = Append(links, at[nodes[next].path])
        /\ UNCHANGED <<at, disk, skip_fsck, leaf, current, visited, nodes>>
        /\ next = Len(links) + 1
    BY <1>0, <1>7 DEF OpenLink, LInv, LinksOpened, IInv, ChTypeOK
  <2>2. UNCHANGED <<Leaf, LeafLink, resolve_parent(leaf, LeafLink)>> /\ UNCHANGED Mismatch(1)
    BY <2>1, LeafStays DEF Leaf, Mismatch
  <2>3. Repaired' /\ FirstNodes' /\ NodeGuids' /\ Verified'
    BY <2>1, <2>2 DEF LInv, Repaired, FirstNodes, NodeGuids, Verified
  <2>4. /\ Len(links') = Len(links) + 1
        /\ \A i \in 1..Len(links) : links'[i] = links[i]
        /\ links'[Len(links) + 1] = at[nodes[next].path]
    <3> DEFINE f == at[nodes[next].path]
    <3>1. f \in Files
      BY <2>1 DEF IInv, NodesVisited
    <3> HIDE DEF f
    <3>2. links' = Append(links, f)
      BY <2>1 DEF f
    <3>3. /\ Len(links') = Len(links) + 1
          /\ \A i \in 1..Len(links) : links'[i] = links[i]
          /\ links'[Len(links) + 1] = f
      BY <1>0, <3>1, <3>2
    <3> QED
      BY <3>3 DEF f
  <2>5. \A i \in 1..Len(links') : links'[i] = at'[nodes'[i].path]
    <3>1. \A i \in 1..Len(links') : i \in 1..Len(links) \/ i = next
      BY <1>0, <2>1, <2>4
    <3> QED
      BY <2>1, <2>4, <3>1 DEF LInv, LinksOpened
  <2>6. LinksOpened'
    BY <1>0, <2>1, <2>4, <2>5 DEF LinksOpened
  <2> QED
    BY <2>3, <2>6 DEF LInv
<1>8. ASSUME Fail PROVE LInv'
  BY <1>8, FailKeepsL
<1>9. ASSUME UNCHANGED cvars PROVE LInv'
  <2>1. UNCHANGED <<Leaf, LeafLink, resolve_parent(leaf, LeafLink)>> /\ UNCHANGED Mismatch(1)
    BY <1>9, LeafStays DEF cvars, Leaf, Mismatch
  <2> QED
    BY <1>9, <2>1 DEF cvars, LInv, Repaired, FirstNodes, NodeGuids, Verified, LinksOpened
<1>10. /\ FsckDone => pc = "fsck" /\ pc' = "open" /\ links = <<>> /\ next' = 1
       /\ CheckSizes => pc = "open" /\ pc' \in {"ready", "failed"}
  BY DEF FsckDone, CheckSizes, IInv, NoLinksYet
<1> QED
  BY <1>1, <1>2, <1>3, <1>4, <1>5, <1>6, <1>7, <1>8, <1>9, <1>10
     DEF ChNext, Advance, LeafUnreadable, VisitFails, FileFails

\* The file flatten reads below the leaf is the one that the leaf's repaired
\* locator names, and it has the DataWriteGuid the locator asks for, for every
\* directory and all contents: repair of the leaf comes before discover and
\* later repairs leave it alone.
THEOREM ParentVerified == ChSpec => []LeafParentVerified
<1>1. IInv /\ LInv => LeafParentVerified
  <2> SUFFICES ASSUME IInv, LInv, pc = "ready", Len(links) > 1
               PROVE  LET loc == disk[links[1]].locator
                          guid == disk[links[2]].guid
                      IN  /\ loc # Nil /\ Exists(resolve_parent(leaf, loc))
                          /\ at[resolve_parent(leaf, loc)] = links[2]
                          /\ loc.linkage \in {Nil, guid} \/ guid = Nil
    BY DEF LeafParentVerified
  <2>0. Len(nodes) \in Nat /\ Len(links) \in Nat /\ Len(links) <= Len(nodes) /\ Nil \notin Files
    BY ChainAssumption DEF IInv, ChTypeOK, LInv, LinksOpened
  <2>1. Len(nodes) > 1 /\ nodes # <<>> /\ 1 \in 1..Len(nodes) /\ 2 \in 1..Len(nodes)
        /\ 1 \in 1..Len(links) /\ 2 \in 1..Len(links)
    BY <2>0
  <2>2. links[1] = at[nodes[1].path] /\ links[2] = at[nodes[2].path]
    BY <2>1 DEF LInv, LinksOpened
  <2>3. nodes[1].path = leaf /\ nodes[1].parent_link = LeafLink /\ LeafLink # Nil
        /\ nodes[2].path = resolve_parent(leaf, LeafLink)
    BY <2>1 DEF LInv, FirstNodes
  <2>4. disk[links[1]].locator = LeafLink
    BY <2>2, <2>3 DEF LeafLink, Leaf
  <2>5. nodes[2].guid = disk[links[2]].guid
    BY <2>1, <2>2 DEF LInv, NodeGuids
  <2>6. at[nodes[2].path] \in Files
    BY <2>1 DEF IInv, NodesVisited
  <2>7. ~Mismatch(1) /\ 1 < Len(nodes)
    BY <2>1 DEF LInv, Verified
  <2>8. LeafLink.linkage = Nil \/ nodes[2].guid = LeafLink.linkage \/ nodes[2].guid = Nil
    BY <2>3, <2>7 DEF Mismatch
  <2> QED
    BY <2>0, <2>2, <2>3, <2>4, <2>5, <2>6, <2>8 DEF Exists
<1> QED
  BY <1>1, ChainInvariant, InitLInv, StepLInv, PTL DEF ChSpec

-----------------------------------------------------------------------------
(* The walk and the chain that the files define.                           *)

\* What has been walked: each node is the parent of the one before, and
\* `visited` holds nothing else.
Walked ==
    pc \in {"fsck_leaf", "walk", "verify"} =>
        /\ \A i \in 1..Len(nodes) : Opens(nodes[i].path)
        /\ \A i \in 1..(Len(nodes) - 1) : nodes[i + 1].path = ParentOf(nodes[i].path)
        /\ \A f \in visited : \E i \in 1..Len(nodes) : at[nodes[i].path] = f
        /\ pc = "walk" /\ nodes # <<>> => current = ParentOf(nodes[Len(nodes)].path)
        /\ pc = "verify" => nodes # <<>> /\ ~disk[at[nodes[Len(nodes)].path]].has_parent

\* A whole chain, if there is one, begins with the nodes and goes on with the
\* file to be visited.
OnCourse ==
    pc = "walk" =>
        \A s \in Seq(Paths) : WholeChain(s) =>
            /\ Len(nodes) < Len(s)
            /\ \A i \in 1..Len(nodes) : nodes[i].path = s[i]
            /\ current = s[Len(nodes) + 1]

\* The parent of a file, and whether s is the whole chain, depend on the files
\* and the leaf only.
LEMMA ChainStays ==
    ASSUME UNCHANGED <<at, disk, leaf>>
    PROVE  /\ \A p : (ParentOf(p)' = ParentOf(p)) /\ (Opens(p)' <=> Opens(p))
           /\ \A s : WholeChain(s)' <=> WholeChain(s)
<1>1. at' = at /\ disk' = disk /\ leaf' = leaf
  OBVIOUS
<1>2. \A p : Exists(p)' <=> Exists(p)
  BY <1>1 DEF Exists
<1>3. ASSUME NEW p, NEW l PROVE resolve_parent(p, l)' = resolve_parent(p, l)
  BY <1>1 DEF resolve_parent, Exists, Try, Candidate, Beside
<1>4. \A p : (ParentOf(p)' = ParentOf(p)) /\ (Opens(p)' <=> Opens(p))
  BY <1>1, <1>2, <1>3 DEF ParentOf, Opens
<1>5. \A s : WholeChain(s)' <=> WholeChain(s)
  BY <1>1, <1>4 DEF WholeChain
<1> QED
  BY <1>4, <1>5

\* One round of the loop, on a file that is opened and pushed.
LEMMA VisitWalks ==
    ASSUME IInv, LInv, Walked, Walking, Visit
    PROVE  /\ UNCHANGED <<at, disk, leaf>> /\ Len(nodes) \in Nat /\ nodes' \in Seq(Node)
           /\ nodes' # <<>> /\ Len(nodes') = Len(nodes) + 1
           /\ nodes'[Len(nodes')].path = current
           /\ \A i \in 1..Len(nodes) : nodes'[i] = nodes[i]
           /\ \A i \in 1..Len(nodes') : Opens(nodes'[i].path)
           /\ \A i \in 1..(Len(nodes') - 1) : nodes'[i + 1].path = ParentOf(nodes'[i].path)
           /\ \A f \in visited' : \E i \in 1..Len(nodes') : at[nodes'[i].path] = f
<1>1. /\ UNCHANGED <<at, disk, leaf>> /\ nodes' # <<>> /\ Len(nodes') = Len(nodes) + 1
      /\ nodes'[Len(nodes) + 1] = NodeOf(current)
      /\ \A i \in 1..Len(nodes) : nodes'[i] = nodes[i]
  BY VisitFirst
<1>2. Len(nodes) \in Nat /\ nodes' \in Seq(Node)
  BY VisitKeeps DEF IInv, ChTypeOK
<1>3. nodes'[Len(nodes')].path = current
  BY <1>1 DEF NodeOf
<1>4. pc = "walk" /\ Opens(current) /\ visited' = visited \cup {at[current]}
  BY DEF Walking, Visit, Canonical, Opens
<1>5. \A i \in 1..Len(nodes') : i \in 1..Len(nodes) \/ i = Len(nodes')
  BY <1>1, <1>2
<1>6. \A i \in 1..Len(nodes') : Opens(nodes'[i].path)
  BY <1>1, <1>3, <1>4, <1>5 DEF Walked
<1>7. ASSUME NEW i \in 1..(Len(nodes') - 1) PROVE nodes'[i + 1].path = ParentOf(nodes'[i].path)
  <2>1. i \in 1..Len(nodes) /\ nodes'[i] = nodes[i] /\ nodes # <<>>
    BY <1>1, <1>2
  <2>2. CASE i = Len(nodes)
    BY <1>1, <1>3, <1>4, <2>1, <2>2 DEF Walked
  <2>3. CASE i # Len(nodes)
    <3>1. i \in 1..(Len(nodes) - 1) /\ i + 1 \in 1..Len(nodes)
      BY <1>2, <2>1, <2>3
    <3> QED
      BY <1>1, <1>4, <2>1, <3>1 DEF Walked
  <2> QED
    BY <2>2, <2>3
<1>8. ASSUME NEW f \in visited' PROVE \E i \in 1..Len(nodes') : at[nodes'[i].path] = f
  <2>1. CASE f \in visited
    <3>1. PICK i \in 1..Len(nodes) : at[nodes[i].path] = f
      BY <1>4, <2>1 DEF Walked
    <3> QED
      BY <1>1, <1>2, <3>1
  <2>2. CASE f = at[current]
    BY <1>1, <1>2, <1>3, <2>2
  <2> QED
    BY <1>4, <1>8, <2>1, <2>2
<1> QED
  BY <1>1, <1>2, <1>3, <1>6, <1>7, <1>8

\* Every step keeps the account of what has been walked.
LEMMA StepWalked == IInv /\ LInv /\ Walked /\ [ChNext]_cvars => Walked'
<1> SUFFICES ASSUME IInv, LInv, Walked, [ChNext]_cvars PROVE Walked'
  OBVIOUS
<1>1. CASE FsckLeaf
  <2>1. nodes = <<>> /\ Len(nodes) = 0 /\ UNCHANGED <<at, visited, nodes>> /\ pc' = "walk"
        /\ pc = "fsck_leaf"
    BY <1>1 DEF FsckLeaf, LInv, FirstNodes
  <2>2. visited = {}
    BY <2>1 DEF Walked
  <2> QED
    BY <2>1, <2>2 DEF Walked
<1>2. CASE VisitChild
  <2>1. Walking /\ Visit /\ pc' \in {"walk", "failed"} /\ (pc' = "walk" => current' = ParentOf(current))
    BY <1>2 DEF VisitChild, ParentOf, Found
  <2> QED
    BY <2>1, VisitWalks, ChainStays DEF Walked
<1>3. CASE VisitRoot
  <2>1. Walking /\ Visit /\ pc' = "verify" /\ ~disk[at[current]].has_parent
    BY <1>3 DEF VisitRoot, Found
  <2> QED
    BY <2>1, VisitWalks, ChainStays DEF Walked
<1>4. CASE Verify \/ FsckNode \/ FsckDone \/ OpenLink \/ CheckSizes \/ Fail
  <2>1. pc' \notin {"fsck_leaf", "walk", "verify"}
    BY <1>4 DEF Verify, FsckNode, FsckDone, OpenLink, CheckSizes, Fail
  <2> QED
    BY <2>1 DEF Walked
<1>5. CASE UNCHANGED cvars
  BY <1>5, ChainStays DEF cvars, Walked
<1> QED
  BY <1>1, <1>2, <1>3, <1>4, <1>5 DEF ChNext, Advance, LeafUnreadable, VisitFails, FileFails

\* A whole chain goes on behind a file that has a parent.
LEMMA ChainGoesOn ==
    ASSUME NEW s \in Seq(Paths), WholeChain(s), NEW k \in 1..Len(s), disk[at[s[k]]].has_parent
    PROVE  /\ k < Len(s) /\ k + 1 \in 1..Len(s) /\ s[k + 1] = ParentOf(s[k])
           /\ ParentOf(s[k]) # Nil
<1>1. Len(s) \in Nat /\ k # Len(s)
  BY DEF WholeChain
<1>2. k < Len(s) /\ k \in 1..(Len(s) - 1) /\ k + 1 \in 1..Len(s)
  BY <1>1
<1>3. s[k + 1] = ParentOf(s[k])
  BY <1>2 DEF WholeChain
<1>4. s[k + 1] \in Paths
  BY <1>2, ElementOfSeq
<1> QED
  BY <1>2, <1>3, <1>4, ChainAssumption

\* Every step keeps the walk on the whole chain, if there is one.
LEMMA StepOnCourse == IInv /\ LInv /\ Walked /\ OnCourse /\ [ChNext]_cvars => OnCourse'
<1> SUFFICES ASSUME IInv, LInv, Walked, OnCourse, [ChNext]_cvars, pc' = "walk",
                    NEW s \in Seq(Paths), WholeChain(s)'
             PROVE  (/\ Len(nodes) < Len(s)
                     /\ \A i \in 1..Len(nodes) : nodes[i].path = s[i]
                     /\ current = s[Len(nodes) + 1])'
  BY DEF OnCourse
<1>1. CASE FsckLeaf
  <2>1. nodes' = <<>> /\ Len(nodes') = 0 /\ current' = leaf' /\ Len(s) \in Nat
    BY <1>1 DEF FsckLeaf, LInv, FirstNodes
  <2>2. s # <<>> /\ s[1] = leaf'
    BY DEF WholeChain
  <2>3. Len(s) > 0
    BY <2>2, EmptySeq
  <2> QED
    BY <2>1, <2>2, <2>3
<1>2. CASE VisitChild
  <2>1. Walking /\ Visit /\ pc = "walk" /\ current' = ParentOf(current) /\ disk[at[current]].has_parent
    BY <1>2 DEF VisitChild, ParentOf, Found, Walking
  <2>2. /\ UNCHANGED <<at, disk, leaf>> /\ Len(nodes) \in Nat /\ Len(nodes') = Len(nodes) + 1
        /\ nodes'[Len(nodes')].path = current
        /\ \A i \in 1..Len(nodes) : nodes'[i] = nodes[i]
    BY <2>1, VisitWalks
  <2>3. WholeChain(s)
    BY <2>2, ChainStays
  <2>4. /\ Len(nodes) < Len(s) /\ Len(s) \in Nat
        /\ \A i \in 1..Len(nodes) : nodes[i].path = s[i]
        /\ current = s[Len(nodes) + 1]
    BY <2>1, <2>3 DEF OnCourse
  <2>5. Len(nodes') \in 1..Len(s) /\ current = s[Len(nodes')]
    BY <2>2, <2>4
  <2>6. Len(nodes') < Len(s) /\ s[Len(nodes') + 1] = ParentOf(current)
    BY <2>1, <2>3, <2>5, ChainGoesOn
  <2>7. \A i \in 1..Len(nodes') : nodes'[i].path = s[i]
    <3>1. \A i \in 1..Len(nodes') : i \in 1..Len(nodes) \/ i = Len(nodes')
      BY <2>2
    <3> QED
      BY <2>2, <2>4, <2>5, <3>1
  <2> QED
    BY <2>1, <2>6, <2>7
<1>3. CASE VisitRoot \/ Verify \/ FsckNode \/ FsckDone \/ OpenLink \/ CheckSizes \/ Fail
  <2>1. pc' # "walk"
    BY <1>3 DEF VisitRoot, Verify, FsckNode, FsckDone, OpenLink, CheckSizes, Fail
  <2> QED
    BY <2>1
<1>4. CASE UNCHANGED cvars
  <2>1. UNCHANGED <<nodes, current, pc, at, disk, leaf>>
    BY <1>4 DEF cvars
  <2>2. WholeChain(s)
    BY <2>1, ChainStays
  <2> QED
    BY <2>1, <2>2 DEF OnCourse
<1> QED
  BY <1>1, <1>2, <1>3, <1>4 DEF ChNext, Advance, LeafUnreadable, VisitFails, FileFails

\* Before the first step nothing has been walked.
LEMMA InitWalked == ChInit => Walked /\ OnCourse
<1> SUFFICES ASSUME ChInit PROVE Walked /\ OnCourse
  OBVIOUS
<1>1. nodes = <<>> /\ Len(nodes) = 0 /\ visited = {} /\ current = leaf /\ pc # "verify"
  BY DEF ChInit
<1>2. Walked
  BY <1>1 DEF Walked
<1>3. ASSUME NEW s \in Seq(Paths), WholeChain(s)
      PROVE  Len(s) > 0 /\ s[1] = leaf
  BY <1>3, EmptySeq DEF WholeChain
<1>4. OnCourse
  BY <1>1, <1>3 DEF OnCourse
<1> QED
  BY <1>2, <1>4

\* The account of the walk holds throughout.
LEMMA WalkInvariant == ChSpec => [](IInv /\ LInv /\ Walked /\ OnCourse)
BY ChainInvariant, InitLInv, StepLInv, InitWalked, StepWalked, StepOnCourse, PTL DEF ChSpec

\* Chain::discover hands over the whole chain: from the leaf to a root, each
\* node the parent that the one before names, no file twice.
THEOREM DiscoverComplete == ChSpec => []WalksLineage
<1>1. IInv /\ LInv /\ Walked => WalksLineage
  <2> SUFFICES ASSUME IInv, LInv, Walked, pc = "verify"
               PROVE  WholeChain([i \in 1..Len(nodes) |-> nodes[i].path])
    BY DEF WalksLineage
  <2> DEFINE s == [i \in 1..Len(nodes) |-> nodes[i].path]
  <2>1. nodes \in Seq(Node) /\ Len(nodes) \in Nat /\ nodes # <<>>
    BY DEF IInv, ChTypeOK, Walked
  <2>2. Len(nodes) > 0
    BY <2>1, EmptySeq
  <2>3. s \in Seq(Paths) /\ Len(s) = Len(nodes) /\ s # <<>>
    <3>1. ASSUME NEW i \in 1..Len(nodes) PROVE nodes[i].path \in Paths
      <4>1. nodes[i] \in Node
        BY <2>1, ElementOfSeq
      <4> QED
        BY <4>1 DEF Node
    <3>2. s \in [1..Len(nodes) -> Paths]
      BY <3>1
    <3>3. s \in Seq(Paths)
      BY <2>1, <3>2, SeqDef
    <3>4. DOMAIN s = 1..Len(s) /\ Len(s) \in Nat /\ DOMAIN s = 1..Len(nodes)
      BY <3>2, <3>3, LenProperties
    <3> QED
      BY <2>1, <2>2, <3>3, <3>4, EmptySeq
  <2>4. \A i \in 1..Len(nodes) : s[i] = nodes[i].path
    OBVIOUS
  <2> HIDE DEF s
  <2>5. s[1] = leaf
    BY <2>1, <2>2, <2>4 DEF LInv, FirstNodes
  <2>6. \A i \in 1..(Len(s) - 1) : s[i + 1] = ParentOf(s[i])
    <3>1. \A i \in 1..(Len(s) - 1) : i \in 1..Len(nodes) /\ i + 1 \in 1..Len(nodes)
      BY <2>1, <2>3
    <3> QED
      BY <2>3, <2>4, <3>1 DEF Walked
  <2>7. (\A i \in 1..Len(s) : Opens(s[i])) /\ ~disk[at[s[Len(s)]]].has_parent
    BY <2>1, <2>2, <2>3, <2>4 DEF Walked
  <2>8. \A i, j \in 1..Len(s) : at[s[i]] = at[s[j]] => i = j
    BY <2>3, <2>4 DEF IInv, NoFileTwice
  <2>9. WholeChain(s)
    BY <2>3, <2>5, <2>6, <2>7, <2>8 DEF WholeChain
  <2> QED
    BY <2>9 DEF s
<1> QED
  BY <1>1, WalkInvariant, PTL

\* Chain::discover fails on no chain that is whole, however long: if it gives
\* up, some link cannot be opened or resolved, or leads back.
THEOREM FailureHasCause == ChSpec => FailsWithCause
<1>1. ASSUME IInv, LInv, Walked, OnCourse, [ChNext]_cvars, pc = "walk", pc' = "failed",
             NEW s \in Seq(Paths), WholeChain(s)
      PROVE  FALSE
  <2>1. /\ Len(nodes) < Len(s) /\ Len(s) \in Nat /\ Len(nodes) \in Nat
        /\ \A i \in 1..Len(nodes) : nodes[i].path = s[i]
        /\ current = s[Len(nodes) + 1]
    BY <1>1 DEF OnCourse, IInv, ChTypeOK
  <2> DEFINE k == Len(nodes) + 1
  <2>2. k \in 1..Len(s) /\ current = s[k]
    BY <2>1
  <2>3. Opens(current) /\ at[current] = Canonical(current)
    BY <1>1, <2>2 DEF WholeChain, Opens, Canonical
  <2>4. ~Seen(current)
    <3>1. SUFFICES ASSUME at[current] \in visited PROVE FALSE
      BY <2>3 DEF Seen
    <3>2. PICK i \in 1..Len(nodes) : at[nodes[i].path] = at[current]
      BY <1>1, <3>1 DEF Walked
    <3>3. i \in 1..Len(s) /\ at[s[i]] = at[s[k]] /\ i # k
      BY <2>1, <2>2, <3>2
    <3> QED
      BY <1>1, <2>2, <3>3 DEF WholeChain
  <2>5. disk[at[current]].has_parent => ParentOf(current) # Nil
    BY <1>1, <2>2, ChainGoesOn
  <2>6. disk[at[current]].has_parent => disk[at[current]].locator # Nil
    BY <2>5 DEF ParentOf
  <2>7. VisitChild \/ VisitFails
    BY <1>1 DEF ChNext, Advance, FsckLeaf, LeafUnreadable, VisitRoot, Verify, FsckNode, FsckDone,
                OpenLink, CheckSizes, FileFails, cvars
  <2>8. ~VisitFails
    BY <2>3, <2>4, <2>6 DEF VisitFails, Found
  <2>9. VisitChild => disk[at[current]].has_parent /\ ParentOf(current) = Nil
    BY <1>1 DEF VisitChild, Found, ParentOf
  <2> QED
    BY <2>5, <2>7, <2>8, <2>9
<1>2. ASSUME IInv, LInv, Walked, OnCourse, [ChNext]_cvars
      PROVE  [pc = "walk" /\ pc' = "failed" =>
                \A n \in 1..Cardinality(Files) : \A s \in [1..n -> Paths] : ~WholeChain(s)]_cvars
  <2>1. Cardinality(Files) \in Nat
    BY ChainAssumption, FS_CardinalityType
  <2>2. ASSUME NEW n \in 1..Cardinality(Files), NEW s \in [1..n -> Paths] PROVE s \in Seq(Paths)
    BY <2>1, <2>2, SeqDef
  <2> QED
    BY <1>1, <1>2, <2>2
<1> QED
  BY <1>2, WalkInvariant, PTL DEF ChSpec, FailsWithCause
=============================================================================
