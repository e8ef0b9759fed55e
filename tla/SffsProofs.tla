----------------------------- MODULE SffsProofs -----------------------------
(***************************************************************************)
(* Facts about the operators of Sffs, for every value of the constants:    *)
(* what a lookup can return, and that every edit of a superblock makes a   *)
(* superblock; then the FST and the FAT as graphs, and what becomes of     *)
(* them when pointers are set.                                             *)
(***************************************************************************)
EXTENDS Sffs, WellFoundedInduction, TLAPS

\* A set of numbers that is not empty has a least element, and Least finds it.
LEMMA LeastIsMember ==
    ASSUME NEW S \in SUBSET Nat, S # {}
    PROVE  Least(S) \in S /\ \A j \in S : Least(S) <= j
<1>1. PICK i \in S : \A j \in S : ~(<<j, i>> \in OpToRel(<, Nat))
  BY NatLessThanWellFounded, WFMin
<1>2. ASSUME NEW j \in S PROVE i <= j
  <2>1. i \in Nat /\ j \in Nat
    OBVIOUS
  <2>2. ~(j < i)
    BY <1>1, <2>1 DEF OpToRel
  <2> QED
    BY <2>1, <2>2
<1> QED
  BY <1>2 DEF Least

\* f gives the values of a loop of n rounds, each of which makes a step.
Loop(f, start, step, n) ==
    f[0] = start /\ \A i \in 1..n : f[i] = step[f[i - 1]][i]

\* There is no least number of rounds for which the values do not exist.
LEMMA LoopExists ==
    ASSUME NEW values, NEW start \in values,
           NEW step \in [values -> [Nat -> values]], NEW N \in Nat
    PROVE  \E f \in [Nat -> values] : Loop(f, start, step, N)
<1> DEFINE OK(f, n) == /\ f[0] = start
                       /\ \A i \in 1..n : f[i] = step[f[i - 1]][i]
           bad == {n \in Nat : \A f \in [Nat -> values] : ~OK(f, n)}
<1> SUFFICES ASSUME bad # {} PROVE FALSE
  BY DEF Loop
<1>1. 0 \notin bad
  <2> DEFINE f == [i \in Nat |-> start]
  <2>1. f \in [Nat -> values] /\ OK(f, 0)
    OBVIOUS
  <2> QED  BY <2>1
<1>2. bad \in SUBSET Nat
  OBVIOUS
<1> DEFINE n == Least(bad)
<1>3. n \in bad /\ \A j \in bad : n <= j
  <2> HIDE DEF bad
  <2> QED  BY <1>2, LeastIsMember
<1> HIDE DEF n
<1>4. n \in Nat /\ n # 0 /\ n - 1 \in Nat /\ n - 1 \notin bad
  <2> HIDE DEF bad
  <2> QED  BY <1>1, <1>2, <1>3
<1>5. PICK f \in [Nat -> values] : OK(f, n - 1)
  BY <1>4
<1> DEFINE longer == [i \in Nat |-> IF i = n THEN step[f[n - 1]][n] ELSE f[i]]
<1>6. longer \in [Nat -> values]
  BY <1>4
<1>7. longer[0] = start /\ longer[n] = step[f[n - 1]][n]
  BY <1>4, <1>5
<1>8. ASSUME NEW i \in 1..n PROVE longer[i] = step[longer[i - 1]][i]
  <2>1. i - 1 \in Nat /\ i \in Nat /\ i - 1 # n
    BY <1>4
  <2>2. longer[i - 1] = f[i - 1]
    BY <2>1
  <2>3. CASE i = n
    <3> HIDE DEF longer
    <3> QED  BY <1>7, <2>2, <2>3
  <2>4. CASE i # n
    <3>1. i \in 1..(n - 1)
      <4> HIDE DEF bad
      <4> QED  BY <1>4, <2>4
    <3>2. f[i] = step[f[i - 1]][i]
      BY <1>5, <3>1
    <3>3. longer[i] = f[i]
      BY <2>1, <2>4
    <3> HIDE DEF longer
    <3> QED  BY <2>2, <3>2, <3>3
  <2> QED  BY <2>3, <2>4
<1>9. OK(longer, n)
  BY <1>7, <1>8
<1> QED  BY <1>3, <1>6, <1>9

\* Two such loops take the same values.
LEMMA LoopsAgree ==
    ASSUME NEW f, NEW h, NEW N \in Nat, f[0] = h[0],
           \A i \in 1..N : f[i - 1] = h[i - 1] => f[i] = h[i]
    PROVE  \A i \in 0..N : f[i] = h[i]
<1> DEFINE bad == {i \in 0..N : f[i] # h[i]}
<1> SUFFICES ASSUME bad # {} PROVE FALSE
  OBVIOUS
<1>1. bad \in SUBSET Nat /\ bad \subseteq 0..N
  OBVIOUS
<1>2. PICK i \in bad : \A j \in bad : i <= j
  <2> HIDE DEF bad
  <2> QED  BY <1>1, LeastIsMember
<1>3. i \in 1..N /\ i - 1 \in 0..N
  BY <1>2
<1>4. i - 1 \notin bad
  <2> HIDE DEF bad
  <2> QED  BY <1>1, <1>2, <1>3
<1> QED  BY <1>2, <1>3, <1>4

\* The special values of a pointer, and the indices, are numbers of 16 bits.
LEMMA PointersInRange ==
    /\ FstIndices \subseteq U16 /\ Clusters \subseteq U16
    /\ NIL \in U16 /\ CLUSTER_LAST_IN_CHAIN \in U16
    /\ CLUSTER_RESERVED \in U16 /\ CLUSTER_UNUSED \in U16
    /\ 0 \in U16
<1>1. NIL \in Nat /\ NIL >= 65535
  BY DEF NIL
<1> QED
  BY <1>1, SffsAssumption
     DEF SffsAssumption, FstIndices, Clusters, U16, CLUSTER_LAST_IN_CHAIN,
         CLUSTER_RESERVED, CLUSTER_UNUSED

-----------------------------------------------------------------------------
(* Lookups.                                                                *)

\* A traversal visits nodes only.
LEMMA ReachableInDomain ==
    ASSUME NEW succ, NEW from
    PROVE  Reachable(succ, from) \subseteq DOMAIN succ
BY DEF Reachable

\* It visits the least set with the first nodes that is closed.
LEMMA ReachableIsClosed ==
    ASSUME NEW succ, NEW from \in SUBSET DOMAIN succ,
           \A x \in DOMAIN succ : succ[x] \subseteq DOMAIN succ
    PROVE  /\ from \subseteq Reachable(succ, from)
           /\ \A x \in Reachable(succ, from) :
                 succ[x] \subseteq Reachable(succ, from)
BY DEF Reachable

LEMMA ReachableIsLeast ==
    ASSUME NEW succ, NEW from, NEW S \in SUBSET DOMAIN succ, from \subseteq S,
           \A x \in S : succ[x] \subseteq S
    PROVE  Reachable(succ, from) \subseteq S
BY DEF Reachable

LEMMA SameReachable ==
    ASSUME NEW s1, NEW s2, NEW from, DOMAIN s1 = DOMAIN s2,
           \A x \in DOMAIN s1 : s1[x] = s2[x]
    PROVE  Reachable(s1, from) = Reachable(s2, from)
<1> DEFINE C(s) == {S \in SUBSET DOMAIN s :
                       from \subseteq S /\ \A x \in S : s[x] \subseteq S}
<1>1. C(s1) = C(s2)
  OBVIOUS
<1>2. \A s : Reachable(s, from) = DOMAIN s \ UNION {DOMAIN s \ S : S \in C(s)}
  BY Zenon DEF Reachable
<1> HIDE DEF C
<1> QED  BY <1>1, <1>2

LEMMA ClusterChainType ==
    ASSUME NEW sb, NEW first
    PROVE  ClusterChain(sb, first) \subseteq Clusters
BY ReachableInDomain DEF ClusterChain

LEMMA ChildrenType ==
    ASSUME NEW sb, NEW directory
    PROVE  Children(sb, directory) \subseteq FstIndices
BY ReachableInDomain DEF Children, Siblings

\* A lookup that succeeds returns the index of an entry.
LEMMA ChildIndexType ==
    ASSUME NEW sb, NEW parent, NEW name
    PROVE  ChildIndex(sb, parent, name) \in FstIndices \cup {NIL}
BY ChildrenType DEF ChildIndex

LEMMA GetFstIndexType ==
    ASSUME NEW sb, NEW path
    PROVE  GetFstIndex(sb, path) \in FstIndices \cup {NIL}
BY DEF GetFstIndex

LEMMA GetClusterForFileType ==
    ASSUME NEW sb, NEW first, NEW index
    PROVE  GetClusterForFile(sb, first, index) \in Clusters \cup {NIL}
BY DEF GetClusterForFile

\* NIL is no index, so that a lookup that does not return NIL has succeeded.
LEMMA NilIsNoIndex == NIL \notin FstIndices /\ NIL \notin Clusters
BY SffsAssumption DEF SffsAssumption, NIL, FstIndices, Clusters

\* The entry that Create takes is one that is not in use.
LEMMA GetUnusedFstIndexType ==
    ASSUME NEW sb, GetUnusedFstIndex(sb) # NIL
    PROVE  /\ GetUnusedFstIndex(sb) \in FstIndices
           /\ sb.fst[GetUnusedFstIndex(sb)].type = "none"
<1> DEFINE unused == {i \in FstIndices : sb.fst[i].type = "none"}
<1>1. unused # {} /\ GetUnusedFstIndex(sb) = Least(unused)
  BY DEF GetUnusedFstIndex
<1>2. unused \in SUBSET Nat
  BY SffsAssumption DEF SffsAssumption, FstIndices
<1> QED
  BY <1>1, <1>2, LeastIsMember

-----------------------------------------------------------------------------
(* Edits.                                                                  *)

LEMMA ClearModeType ==
    ASSUME NEW entry \in FstEntry
    PROVE  ClearMode(entry) \in FstEntry
BY DEF ClearMode, FstEntry, EntryType, FileMode

LEMMA FstUpdate ==
    ASSUME NEW sb \in Superblock, NEW i, NEW entry \in FstEntry
    PROVE  [sb EXCEPT !.fst[i] = entry] \in Superblock
BY DEF Superblock

LEMMA FreeClustersType ==
    ASSUME NEW fat \in [Clusters -> U16], NEW freed
    PROVE  FreeClusters(fat, freed) \in [Clusters -> U16]
BY PointersInRange DEF FreeClusters

LEMMA ReplaceInChainType ==
    ASSUME NEW fat \in [Clusters -> U16], NEW cluster, NEW old
    PROVE  ReplaceInChain(fat, cluster, old) \in [Clusters -> U16]
BY PointersInRange DEF ReplaceInChain

LEMMA SizeUpdate ==
    ASSUME NEW sb \in Superblock, NEW i \in FstIndices, NEW size \in U32
    PROVE  [sb EXCEPT !.fst[i].size = size] \in Superblock
<1> DEFINE entry == sb.fst[i]
<1>1. entry \in FstEntry
  BY DEF Superblock
<1>2. [entry EXCEPT !.size = size] \in FstEntry
  <2> HIDE DEF entry
  <2> QED
    BY <1>1 DEF FstEntry
<1> QED
  BY <1>2, FstUpdate

LEMMA FatUpdate ==
    ASSUME NEW sb \in Superblock, NEW fat \in [Clusters -> U16]
    PROVE  [sb EXCEPT !.fat = fat] \in Superblock
BY DEF Superblock

LEMMA ClearedType ==
    ASSUME NEW sb \in Superblock, NEW i \in FstIndices
    PROVE  Cleared(sb, i) \in Superblock
BY ClearModeType DEF Cleared, Superblock

LEMMA DeleteFileType ==
    ASSUME NEW sb \in Superblock, NEW file \in FstIndices
    PROVE  DeleteFile(sb, file) \in Superblock
<1>1. [sb EXCEPT !.fat = FreeClusters(@, ClusterChain(sb, sb.fst[file].sub))]
         \in Superblock
  BY FreeClustersType DEF Superblock
<1> QED
  BY <1>1, ClearedType DEF DeleteFile

LEMMA DeleteDirectoryContentsType ==
    ASSUME NEW sb \in Superblock, NEW directory
    PROVE  DeleteDirectoryContents(sb, directory) \in Superblock
BY FreeClustersType, ClearModeType DEF DeleteDirectoryContents, Superblock

\* Unlinking an entry changes one pointer and clears the mode of the entry.
LEMMA SubUpdate ==
    ASSUME NEW sb \in Superblock, NEW i \in FstIndices, NEW pointer \in U16
    PROVE  [sb EXCEPT !.fst[i].sub = pointer] \in Superblock
<1> DEFINE entry == sb.fst[i]
<1>1. entry \in FstEntry
  BY DEF Superblock
<1>2. [entry EXCEPT !.sub = pointer] \in FstEntry
  <2> HIDE DEF entry
  <2> QED
    BY <1>1 DEF FstEntry
<1> QED
  BY <1>2, FstUpdate

LEMMA SibUpdate ==
    ASSUME NEW sb \in Superblock, NEW i \in FstIndices, NEW pointer \in U16
    PROVE  [sb EXCEPT !.fst[i].sib = pointer] \in Superblock
<1> DEFINE entry == sb.fst[i]
<1>1. entry \in FstEntry
  BY DEF Superblock
<1>2. [entry EXCEPT !.sib = pointer] \in FstEntry
  <2> HIDE DEF entry
  <2> QED
    BY <1>1 DEF FstEntry
<1> QED
  BY <1>2, FstUpdate

LEMMA RemoveFstEntryFromChainType ==
    ASSUME NEW sb \in Superblock, NEW parent \in FstIndices,
           NEW child \in FstIndices
    PROVE  /\ RemoveFstEntryFromChain(sb, parent, child).sb \in Superblock
           /\ RemoveFstEntryFromChain(sb, parent, child).code
                 \in {"Success", "NotFound"}
<1> DEFINE next     == sb.fst[child].sib
           previous == {p \in Children(sb, parent) : sb.fst[p].sib = child}
           before   == CHOOSE p \in previous : TRUE
           first    == [sb EXCEPT !.fst[parent].sub = next]
           later    == [sb EXCEPT !.fst[before].sib = next]
<1>1. next \in U16
  BY DEF Superblock, FstEntry
<1>2. CASE sb.fst[parent].sub = child
  <2>1. first \in Superblock
    BY <1>1, SubUpdate
  <2>2. RemoveFstEntryFromChain(sb, parent, child) =
           [code |-> "Success", sb |-> Cleared(first, child)]
    BY <1>2 DEF RemoveFstEntryFromChain
  <2> HIDE DEF first
  <2> QED
    BY <2>1, <2>2, ClearedType
<1>3. CASE sb.fst[parent].sub # child /\ previous = {}
  BY <1>3 DEF RemoveFstEntryFromChain
<1>4. CASE sb.fst[parent].sub # child /\ previous # {}
  <2>1. later \in Superblock
    <3>1. before \in FstIndices
      BY <1>4, ChildrenType
    <3> HIDE DEF before, next
    <3> QED
      BY <1>1, <3>1, SibUpdate
  <2>2. RemoveFstEntryFromChain(sb, parent, child) =
           [code |-> "Success", sb |-> Cleared(later, child)]
    BY <1>4 DEF RemoveFstEntryFromChain
  <2> HIDE DEF later
  <2> QED
    BY <2>1, <2>2, ClearedType
<1> QED
  BY <1>2, <1>3, <1>4

LEMMA RootEntryType == RootEntry \in FstEntry /\ EmptyEntry \in FstEntry
<1>1. EmptyEntry \in FstEntry
  BY PointersInRange, SffsAssumption
     DEF SffsAssumption, EmptyEntry, FstEntry, EntryType, FileMode, U32
<1>2. RootEntry \in FstEntry
  BY <1>1, PointersInRange DEF RootEntry, FstEntry, EntryType, FileMode
<1> QED
  BY <1>1, <1>2

LEMMA FormattedSuperblockType == FormattedSuperblock \in Superblock
BY RootEntryType, PointersInRange DEF FormattedSuperblock, Superblock

LEMMA NormalisedType ==
    ASSUME NEW sb \in Superblock
    PROVE  Normalised(sb) \in Superblock
BY PointersInRange DEF Normalised, Superblock

-----------------------------------------------------------------------------
(***************************************************************************)
(* The FST as a graph: every entry has two pointers, one to the next       *)
(* sibling and one to the first child.  A graph g gives g[k][p], the       *)
(* pointer of kind k of entry p.  The graph is a tree when no two pointers *)
(* of entries below the root are equal.  These lemmas say what becomes of  *)
(* a tree when one pointer goes round an entry (Delete), when two are set  *)
(* to link a new entry (Create), and when both happens (Rename).  Nothing  *)
(* there is about names, types or paths.                                   *)
(***************************************************************************)

Kinds == {"sib", "sub"}

Targets(g, p) == {g[k][p] : k \in Kinds} \cap FstIndices

\* The entries that a walk down from entry x visits, without x.
Below(g, x) ==
    Reachable([p \in FstIndices |-> Targets(g, p)], {g["sub"][x]} \cap FstIndices)

Within(g, x) == {x} \cup Below(g, x)

FromRoot(g) == Within(g, 0)

\* The children of entry d: its first one, and the siblings of a child.
ChildrenOf(g, d) ==
    Reachable([p \in FstIndices |-> {g["sib"][p]} \cap FstIndices],
              {g["sub"][d]} \cap FstIndices)

\* No pointer leads out of S.
ClosedIn(g, S) ==
    \A p \in S, k \in Kinds : g[k][p] \in FstIndices => g[k][p] \in S

IsTree(g) ==
    /\ g["sib"][0] = NIL
    /\ \A p \in FromRoot(g), k \in Kinds :
          g[k][p] \in FstIndices \cup {NIL} /\ g[k][p] # 0
    /\ \A p, q \in FromRoot(g), k, l \in Kinds :
          g[k][p] = g[l][q] /\ g[k][p] # NIL => k = l /\ p = q

-----------------------------------------------------------------------------
(* What is below an entry is the least closed set.                         *)

LEMMA BelowIsClosed ==
    ASSUME NEW g, NEW x
    PROVE  /\ Below(g, x) \subseteq FstIndices
           /\ ClosedIn(g, Below(g, x))
           /\ g["sub"][x] \in FstIndices => g["sub"][x] \in Below(g, x)
<1> DEFINE succ == [p \in FstIndices |-> Targets(g, p)]
           from == {g["sub"][x]} \cap FstIndices
<1>1. Below(g, x) \subseteq FstIndices
  BY ReachableInDomain DEF Below
<1>2. /\ from \subseteq Reachable(succ, from)
      /\ \A p \in Reachable(succ, from) : succ[p] \subseteq Reachable(succ, from)
  <2>1. \A p \in DOMAIN succ : succ[p] \subseteq DOMAIN succ
    BY DEF Targets
  <2> HIDE DEF succ
  <2>2. from \in SUBSET DOMAIN succ
    BY DEF succ
  <2> QED  BY <2>1, <2>2, ReachableIsClosed
<1>3. Reachable(succ, from) = Below(g, x)
  BY DEF Below
<1> QED  BY <1>1, <1>2, <1>3 DEF Targets, ClosedIn

LEMMA BelowIsLeast ==
    ASSUME NEW g, NEW x, NEW S \in SUBSET FstIndices, ClosedIn(g, S),
           g["sub"][x] \in FstIndices => g["sub"][x] \in S
    PROVE  Below(g, x) \subseteq S
<1> DEFINE succ == [p \in FstIndices |-> Targets(g, p)]
           from == {g["sub"][x]} \cap FstIndices
<1>1. from \subseteq S /\ \A p \in S : succ[p] \subseteq S
  BY DEF ClosedIn, Targets
<1> HIDE DEF from, succ
<1>2. Reachable(succ, from) \subseteq S
  BY <1>1, ReachableIsLeast DEF succ
<1> QED  BY <1>2 DEF Below, succ, from

LEMMA ChildrenAreClosed ==
    ASSUME NEW g, NEW d
    PROVE  /\ ChildrenOf(g, d) \subseteq FstIndices
           /\ g["sub"][d] \in FstIndices => g["sub"][d] \in ChildrenOf(g, d)
           /\ \A p \in ChildrenOf(g, d) :
                 g["sib"][p] \in FstIndices => g["sib"][p] \in ChildrenOf(g, d)
<1> DEFINE succ == [p \in FstIndices |-> {g["sib"][p]} \cap FstIndices]
           from == {g["sub"][d]} \cap FstIndices
<1>1. ChildrenOf(g, d) \subseteq FstIndices
  BY ReachableInDomain DEF ChildrenOf
<1>2. /\ from \subseteq Reachable(succ, from)
      /\ \A p \in Reachable(succ, from) : succ[p] \subseteq Reachable(succ, from)
  <2>1. \A p \in DOMAIN succ : succ[p] \subseteq DOMAIN succ
    OBVIOUS
  <2> HIDE DEF succ
  <2>2. from \in SUBSET DOMAIN succ
    BY DEF succ
  <2> QED  BY <2>1, <2>2, ReachableIsClosed
<1>3. Reachable(succ, from) = ChildrenOf(g, d)
  BY DEF ChildrenOf
<1> QED  BY <1>1, <1>2, <1>3

LEMMA ChildrenAreLeast ==
    ASSUME NEW g, NEW d, NEW S \in SUBSET FstIndices,
           g["sub"][d] \in FstIndices => g["sub"][d] \in S,
           \A p \in S : g["sib"][p] \in FstIndices => g["sib"][p] \in S
    PROVE  ChildrenOf(g, d) \subseteq S
<1> DEFINE succ == [p \in FstIndices |-> {g["sib"][p]} \cap FstIndices]
           from == {g["sub"][d]} \cap FstIndices
<1>1. from \subseteq S /\ \A p \in S : succ[p] \subseteq S
  OBVIOUS
<1> HIDE DEF from, succ
<1>2. Reachable(succ, from) \subseteq S
  BY <1>1, ReachableIsLeast DEF succ
<1> QED  BY <1>2 DEF ChildrenOf, succ, from

-----------------------------------------------------------------------------
(* The shape of a tree.                                                    *)

LEMMA RootInTree ==
    ASSUME NEW g
    PROVE  0 \in FstIndices /\ 0 \in FromRoot(g) /\ FromRoot(g) \subseteq FstIndices
<1>1. 0 \in FstIndices
  BY SffsAssumption DEF SffsAssumption, FstIndices
<1> QED  BY <1>1, BelowIsClosed DEF FromRoot, Within

LEMMA TreeIsClosed ==
    ASSUME NEW g, g["sib"][0] = NIL
    PROVE  ClosedIn(g, FromRoot(g))
BY BelowIsClosed, NilIsNoIndex DEF FromRoot, Within, ClosedIn, Kinds

LEMMA TreeIsLeast ==
    ASSUME NEW g, NEW S \in SUBSET FstIndices, 0 \in S, ClosedIn(g, S)
    PROVE  FromRoot(g) \subseteq S
BY BelowIsLeast DEF FromRoot, Within, ClosedIn, Kinds

\* An entry below the root is there because a pointer leads to it.
LEMMA TreeHasPointer ==
    ASSUME NEW g, IsTree(g), NEW x \in FromRoot(g), x # 0
    PROVE  \E q \in FromRoot(g), k \in Kinds : g[k][q] = x
<1> SUFFICES ASSUME \A q \in FromRoot(g), k \in Kinds : g[k][q] # x PROVE FALSE
  OBVIOUS
<1> DEFINE S == FromRoot(g) \ {x}
<1>1. S \in SUBSET FstIndices /\ 0 \in S
  BY RootInTree
<1>2. ClosedIn(g, S)
  BY TreeIsClosed DEF IsTree, ClosedIn
<1> QED  BY <1>1, <1>2, TreeIsLeast

LEMMA BelowHasPointer ==
    ASSUME NEW g, NEW x, NEW y \in Below(g, x)
    PROVE  \/ g["sub"][x] = y
           \/ \E q \in Below(g, x), k \in Kinds : g[k][q] = y
<1> SUFFICES ASSUME g["sub"][x] # y,
                    \A q \in Below(g, x), k \in Kinds : g[k][q] # y
             PROVE  FALSE
  OBVIOUS
<1> DEFINE S == Below(g, x) \ {y}
<1>1. S \in SUBSET FstIndices /\ (g["sub"][x] \in FstIndices => g["sub"][x] \in S)
  BY BelowIsClosed
<1>2. ClosedIn(g, S)
  BY BelowIsClosed DEF ClosedIn
<1> QED  BY <1>1, <1>2, BelowIsLeast

LEMMA BelowInTree ==
    ASSUME NEW g, IsTree(g), NEW x \in FromRoot(g)
    PROVE  /\ Below(g, x) \subseteq FromRoot(g)
           /\ 0 \notin Below(g, x)
<1>1. ClosedIn(g, FromRoot(g))
  BY TreeIsClosed DEF IsTree
<1>2. Below(g, x) \subseteq FromRoot(g)
  BY <1>1, RootInTree, BelowIsLeast DEF ClosedIn, Kinds
<1> DEFINE S == Below(g, x) \ {0}
<1>3. S \in SUBSET FstIndices /\ (g["sub"][x] \in FstIndices => g["sub"][x] \in S)
  BY BelowIsClosed DEF IsTree, Kinds
<1>4. ClosedIn(g, S)
  BY <1>2, BelowIsClosed DEF ClosedIn, IsTree
<1> QED  BY <1>2, <1>3, <1>4, BelowIsLeast

\* A pointer to what is below entry x is the one of x or comes from below.
LEMMA IntoBelow ==
    ASSUME NEW g, IsTree(g), NEW x \in FromRoot(g), NEW p \in FromRoot(g),
           NEW k \in Kinds, g[k][p] \in Below(g, x)
    PROVE  p \in Below(g, x) \/ (p = x /\ k = "sub")
<1>1. g[k][p] # NIL
  BY BelowIsClosed, NilIsNoIndex
<1>2. Below(g, x) \subseteq FromRoot(g)
  BY BelowInTree
<1>3. \E q \in FromRoot(g), l \in Kinds :
         /\ g[l][q] = g[k][p]
         /\ q \in Below(g, x) \/ (q = x /\ l = "sub")
  BY <1>2, BelowHasPointer DEF Kinds
<1> QED  BY <1>1, <1>3 DEF IsTree

\* The pointer to an entry comes neither from it nor from below it.
LEMMA PointerFromOutside ==
    ASSUME NEW g, IsTree(g), NEW x \in FromRoot(g), x # 0,
           NEW q \in FromRoot(g), NEW k \in Kinds, g[k][q] = x
    PROVE  q \notin Within(g, x)
<1> SUFFICES ASSUME q \in Within(g, x) PROVE FALSE
  OBVIOUS
<1> DEFINE S == FromRoot(g) \ Within(g, x)
<1>1. S \in SUBSET FstIndices /\ 0 \in S
  BY RootInTree, BelowInTree DEF Within
<1>2. ClosedIn(g, S)
  <2> SUFFICES ASSUME NEW p \in S, NEW l \in Kinds, g[l][p] \in FstIndices
               PROVE  g[l][p] \notin Within(g, x)
    BY TreeIsClosed DEF IsTree, ClosedIn
  <2>1. CASE g[l][p] = x
    BY <2>1, RootInTree, NilIsNoIndex DEF IsTree
  <2>2. CASE g[l][p] \in Below(g, x)
    BY <2>2, IntoBelow DEF Within
  <2> QED  BY <2>1, <2>2 DEF Within
<1> QED  BY <1>1, <1>2, TreeIsLeast DEF Within

LEMMA NotBelowItself ==
    ASSUME NEW g, IsTree(g), NEW x \in FromRoot(g)
    PROVE  x \notin Below(g, x)
<1> SUFFICES ASSUME x \in Below(g, x) PROVE FALSE
  OBVIOUS
<1>1. x # 0
  BY BelowInTree
<1>2. \E q \in Within(g, x), k \in Kinds : g[k][q] = x
  BY BelowHasPointer DEF Within, Kinds
<1>3. Within(g, x) \subseteq FromRoot(g)
  BY BelowInTree DEF Within
<1> QED  BY <1>1, <1>2, <1>3, PointerFromOutside

LEMMA BelowIsTransitive ==
    ASSUME NEW g, NEW x, NEW y \in Below(g, x)
    PROVE  Below(g, y) \subseteq Below(g, x)
BY BelowIsClosed, BelowIsLeast DEF ClosedIn, Kinds

-----------------------------------------------------------------------------
(* Children.                                                               *)

LEMMA ChildrenAreBelow ==
    ASSUME NEW g, NEW d
    PROVE  ChildrenOf(g, d) \subseteq Below(g, d)
BY BelowIsClosed, ChildrenAreLeast DEF ClosedIn, Kinds

LEMMA ChildHasPointer ==
    ASSUME NEW g, NEW d, NEW x \in ChildrenOf(g, d)
    PROVE  \/ g["sub"][d] = x
           \/ \E p \in ChildrenOf(g, d) : g["sib"][p] = x
<1> SUFFICES ASSUME g["sub"][d] # x, \A p \in ChildrenOf(g, d) : g["sib"][p] # x
             PROVE  FALSE
  OBVIOUS
<1> DEFINE S == ChildrenOf(g, d) \ {x}
<1>1. S \in SUBSET FstIndices /\ (g["sub"][d] \in FstIndices => g["sub"][d] \in S)
  BY ChildrenAreClosed
<1>2. \A p \in S : g["sib"][p] \in FstIndices => g["sib"][p] \in S
  BY ChildrenAreClosed
<1> QED  BY <1>1, <1>2, ChildrenAreLeast

\* A pointer to a child of d is the one of d or comes from another child.
LEMMA IntoChildren ==
    ASSUME NEW g, IsTree(g), NEW d \in FromRoot(g), NEW p \in FromRoot(g),
           NEW k \in Kinds, g[k][p] \in ChildrenOf(g, d)
    PROVE  \/ p = d /\ k = "sub"
           \/ p \in ChildrenOf(g, d) /\ k = "sib"
<1>1. g[k][p] # NIL
  BY ChildrenAreClosed, NilIsNoIndex
<1>2. ChildrenOf(g, d) \subseteq FromRoot(g)
  BY ChildrenAreBelow, BelowInTree
<1>3. \E q \in FromRoot(g), l \in Kinds :
         /\ g[l][q] = g[k][p]
         /\ (q = d /\ l = "sub") \/ (q \in ChildrenOf(g, d) /\ l = "sib")
  BY <1>2, ChildHasPointer DEF Kinds
<1> QED  BY <1>1, <1>3 DEF IsTree

\* An entry is the child of one directory.
LEMMA OneParent ==
    ASSUME NEW g, IsTree(g), NEW d \in FromRoot(g), NEW e \in FromRoot(g),
           NEW x \in ChildrenOf(g, d), x \in ChildrenOf(g, e)
    PROVE  d = e
<1> SUFFICES ASSUME d # e PROVE FALSE
  OBVIOUS
<1> DEFINE S == ChildrenOf(g, d) \ ChildrenOf(g, e)
<1>1. ChildrenOf(g, d) \subseteq FromRoot(g)
  BY ChildrenAreBelow, BelowInTree
<1>2. S \in SUBSET FstIndices /\ (g["sub"][d] \in FstIndices => g["sub"][d] \in S)
  BY ChildrenAreClosed, IntoChildren DEF Kinds
<1>3. \A p \in S : g["sib"][p] \in FstIndices => g["sib"][p] \in S
  BY <1>1, ChildrenAreClosed, IntoChildren DEF Kinds
<1> QED  BY <1>2, <1>3, ChildrenAreLeast

\* What is not within x has no children below x.
LEMMA ChildrenOutside ==
    ASSUME NEW g, IsTree(g), NEW x \in FromRoot(g),
           NEW d \in FromRoot(g) \ Within(g, x)
    PROVE  ChildrenOf(g, d) \cap Below(g, x) = {}
<1> DEFINE S == ChildrenOf(g, d) \ Below(g, x)
<1>1. ChildrenOf(g, d) \subseteq FromRoot(g)
  BY ChildrenAreBelow, BelowInTree
<1>2. S \in SUBSET FstIndices /\ (g["sub"][d] \in FstIndices => g["sub"][d] \in S)
  BY ChildrenAreClosed, IntoBelow DEF Kinds, Within
<1>3. \A p \in S : g["sib"][p] \in FstIndices => g["sib"][p] \in S
  BY <1>1, ChildrenAreClosed, IntoBelow DEF Kinds
<1> QED  BY <1>2, <1>3, ChildrenAreLeast

\* The children of d depend on no pointers but d's and theirs.
LEMMA SameChildren ==
    ASSUME NEW g, NEW h, NEW d, h["sub"][d] = g["sub"][d],
           \A p \in ChildrenOf(g, d) : h["sib"][p] = g["sib"][p]
    PROVE  ChildrenOf(h, d) = ChildrenOf(g, d)
<1>1. ChildrenOf(h, d) \subseteq ChildrenOf(g, d)
  BY ChildrenAreClosed, ChildrenAreLeast
<1> DEFINE S == ChildrenOf(h, d) \cap ChildrenOf(g, d)
<1>2. S \in SUBSET FstIndices /\ (g["sub"][d] \in FstIndices => g["sub"][d] \in S)
  BY ChildrenAreClosed
<1>3. \A p \in S : g["sib"][p] \in FstIndices => g["sib"][p] \in S
  BY ChildrenAreClosed
<1>4. ChildrenOf(g, d) \subseteq S
  BY <1>2, <1>3, ChildrenAreLeast
<1> QED  BY <1>1, <1>4

\* Every entry but the root is the child of an entry.
LEMMA HasParent ==
    ASSUME NEW g, IsTree(g), NEW x \in FromRoot(g), x # 0
    PROVE  \E d \in FromRoot(g) : x \in ChildrenOf(g, d)
<1> DEFINE S == {0} \cup UNION {ChildrenOf(g, d) : d \in FromRoot(g)}
           T == S \cap FromRoot(g)
<1>1. T \in SUBSET FstIndices /\ 0 \in T
  BY RootInTree
<1>2. ClosedIn(g, T)
  <2> SUFFICES ASSUME NEW p \in T, NEW k \in Kinds, g[k][p] \in FstIndices
               PROVE  g[k][p] \in T
    BY DEF ClosedIn
  <2>1. g[k][p] \in FromRoot(g)
    BY TreeIsClosed DEF IsTree, ClosedIn
  <2>2. CASE k = "sub"
    BY <2>1, <2>2, ChildrenAreClosed
  <2>3. CASE k = "sib"
    <3>1. p # 0
      BY <2>3, NilIsNoIndex DEF IsTree
    <3>2. PICK d \in FromRoot(g) : p \in ChildrenOf(g, d)
      BY <3>1
    <3> QED  BY <2>1, <2>3, <3>2, ChildrenAreClosed
  <2> QED  BY <2>2, <2>3 DEF Kinds
<1>3. x \in T
  <2> HIDE DEF T
  <2> QED  BY <1>1, <1>2, TreeIsLeast
<1> QED  BY <1>3

\* The parent of an entry is not within it.
LEMMA ParentOutside ==
    ASSUME NEW g, IsTree(g), NEW d \in FromRoot(g), NEW x \in ChildrenOf(g, d)
    PROVE  /\ x \in FromRoot(g)
           /\ x # 0
           /\ d \notin Within(g, x)
<1>1. x \in Below(g, d)
  BY ChildrenAreBelow
<1>2. x \in FromRoot(g) /\ x # 0
  BY <1>1, BelowInTree
<1>3. d # x
  BY <1>1, NotBelowItself
<1>4. d \notin Below(g, x)
  BY <1>1, <1>2, BelowIsTransitive, NotBelowItself
<1> QED  BY <1>2, <1>3, <1>4 DEF Within

-----------------------------------------------------------------------------
(* Delete: the pointer of kind k of entry q goes round entry x.            *)

Unlinks(g, h, x, q, k) ==
    /\ x \in FromRoot(g) /\ x # 0
    /\ q \in FromRoot(g) /\ k \in Kinds /\ g[k][q] = x
    /\ h[k][q] = g["sib"][x]
    /\ \A p \in FromRoot(g) \ Within(g, x), l \in Kinds :
          p # q \/ l # k => h[l][p] = g[l][p]

LEMMA UnlinkTree ==
    ASSUME NEW g, NEW h, NEW x, NEW q, NEW k, IsTree(g), Unlinks(g, h, x, q, k)
    PROVE  IsTree(h) /\ FromRoot(h) = FromRoot(g) \ Within(g, x)
<1> DEFINE L == FromRoot(g)
           W == Within(g, x)
           M == L \ W
           N == FromRoot(h)
<1>1. x \in L /\ x # 0 /\ q \in L /\ k \in Kinds /\ g[k][q] = x
      /\ h[k][q] = g["sib"][x]
  BY DEF Unlinks
<1>2. \A p \in M, l \in Kinds : p # q \/ l # k => h[l][p] = g[l][p]
  BY DEF Unlinks
<1>3. q \in M
  BY <1>1, PointerFromOutside
<1>4. W \subseteq L /\ L \subseteq FstIndices /\ 0 \in M /\ x \in W
  BY <1>1, BelowInTree, RootInTree DEF Within
<1>5. ClosedIn(g, L)
  BY TreeIsClosed DEF IsTree
<1>6. h["sib"][0] = NIL
  <2>1. x # NIL
    BY <1>1, <1>4, NilIsNoIndex
  <2>2. "sib" \in Kinds /\ g["sib"][0] = NIL
    BY DEF Kinds, IsTree
  <2>3. 0 # q \/ "sib" # k
    BY <1>1, <2>1, <2>2
  <2> QED  BY <1>2, <1>4, <2>2, <2>3
<1>7. g["sib"][x] \in M \cup {NIL}
  <2>1. "sib" \in Kinds
    BY DEF Kinds
  <2>2. g["sib"][x] \in L \cup {NIL}
    BY <1>1, <1>5, <2>1 DEF IsTree, ClosedIn
  <2>3. g["sib"][x] # x
    BY <1>1, <1>4, <2>1, PointerFromOutside
  <2>4. g["sib"][x] \notin Below(g, x)
    BY <1>1, <2>1, IntoBelow, NotBelowItself
  <2> QED  BY <2>2, <2>3, <2>4 DEF Within
<1>8. \A p \in M, l \in Kinds : p # q \/ l # k => g[l][p] \in M \cup {NIL}
  <2> SUFFICES ASSUME NEW p \in M, NEW l \in Kinds, p # q \/ l # k
               PROVE  g[l][p] \in M \cup {NIL}
    OBVIOUS
  <2>1. g[l][p] \in L \cup {NIL}
    BY <1>5 DEF IsTree, ClosedIn
  <2>2. g[l][p] # x
    BY <1>1, <1>4, NilIsNoIndex DEF IsTree
  <2>3. g[l][p] \notin Below(g, x)
    BY <1>1, IntoBelow DEF Within
  <2> QED  BY <2>1, <2>2, <2>3 DEF Within
<1>9. \A p \in M, l \in Kinds : h[l][p] \in M \cup {NIL}
  BY <1>1, <1>2, <1>7, <1>8
<1>10. N \subseteq M
  <2>1. ClosedIn(h, M)
    BY <1>9, NilIsNoIndex DEF ClosedIn
  <2> QED  BY <1>4, <2>1, TreeIsLeast
<1>11. ClosedIn(h, N) /\ 0 \in N
  BY <1>6, TreeIsClosed, RootInTree
<1>12. q \in N
  <2> SUFFICES ASSUME q \notin N PROVE FALSE
    OBVIOUS
  <2>1. ClosedIn(g, N)
    BY <1>2, <1>10, <1>11 DEF ClosedIn
  <2> QED  BY <1>1, <1>4, <1>10, <1>11, <2>1, TreeIsLeast
<1>13. M \subseteq N
  <2>1. \A p \in N, l \in Kinds : g[l][p] \in FstIndices => g[l][p] \in N \cup W
    BY <1>1, <1>2, <1>4, <1>10, <1>11 DEF ClosedIn
  <2>2. \A p \in W, l \in Kinds : g[l][p] \in FstIndices => g[l][p] \in N \cup W
    <3>1. g["sub"][x] \in FstIndices => g["sub"][x] \in W
      BY BelowIsClosed DEF Within
    <3>2. g["sib"][x] \in FstIndices => g["sib"][x] \in N
      BY <1>1, <1>11, <1>12 DEF ClosedIn
    <3>3. \A p \in Below(g, x), l \in Kinds :
             g[l][p] \in FstIndices => g[l][p] \in W
      BY BelowIsClosed DEF Within, ClosedIn
    <3> QED  BY <3>1, <3>2, <3>3 DEF Within, Kinds
  <2>3. ClosedIn(g, N \cup W)
    BY <2>1, <2>2 DEF ClosedIn
  <2>4. L \subseteq N \cup W
    BY <1>4, <1>10, <1>11, <2>3, TreeIsLeast
  <2> QED  BY <2>4
<1>14. \A p \in M, l \in Kinds : h[l][p] # 0
  BY <1>1, <1>2 DEF IsTree, Kinds
<1>15. \A p1, p2 \in M, l1, l2 \in Kinds :
          h[l1][p1] = h[l2][p2] /\ h[l1][p1] # NIL => l1 = l2 /\ p1 = p2
  <2>1. \A p \in M, l \in Kinds :
           p # q \/ l # k => h[l][p] # g["sib"][x] \/ h[l][p] = NIL
    BY <1>1, <1>2, <1>4 DEF IsTree, Kinds
  <2>2. \A p1, p2 \in M, l1, l2 \in Kinds :
           /\ p1 # q \/ l1 # k
           /\ p2 # q \/ l2 # k
           /\ h[l1][p1] = h[l2][p2] /\ h[l1][p1] # NIL
           => l1 = l2 /\ p1 = p2
    BY <1>2, <1>4 DEF IsTree
  <2> QED  BY <1>1, <2>1, <2>2
<1>16. N = M
  BY <1>10, <1>13
<1>17. IsTree(h)
  BY <1>4, <1>6, <1>9, <1>14, <1>15, <1>16 DEF IsTree
<1> QED  BY <1>16, <1>17

\* No directory has other children than before.
LEMMA UnlinkChildren ==
    ASSUME NEW g, NEW h, NEW x, NEW q, NEW k, IsTree(g), Unlinks(g, h, x, q, k),
           NEW d \in FromRoot(g) \ Within(g, x)
    PROVE  ChildrenOf(h, d) \subseteq ChildrenOf(g, d) \ {x}
<1> DEFINE S == ChildrenOf(g, d) \ {x}
<1>1. x \in FromRoot(g) /\ x # NIL /\ "sib" \in Kinds /\ "sub" \in Kinds
  BY RootInTree, NilIsNoIndex DEF Unlinks, Kinds
<1>2. S \subseteq FromRoot(g) \ Within(g, x)
  BY <1>1, ChildrenOutside, ChildrenAreBelow, BelowInTree DEF Within
<1>3. x \in ChildrenOf(g, d) /\ g["sib"][x] \in FstIndices => g["sib"][x] \in S
  BY <1>1, ChildrenAreClosed, PointerFromOutside DEF Unlinks, Within
<1>4. h["sub"][d] \in FstIndices => h["sub"][d] \in S
  <2>1. CASE d = q /\ k = "sub"
    BY <2>1, <1>1, <1>3, RootInTree, ChildrenAreClosed DEF Unlinks
  <2>2. CASE ~(d = q /\ k = "sub")
    <3>1. h["sub"][d] = g["sub"][d]
      BY <2>2, <1>1 DEF Unlinks
    <3>2. g["sub"][d] # x
      BY <2>2, <1>1 DEF Unlinks, IsTree
    <3> QED  BY <3>1, <3>2, ChildrenAreClosed
  <2> QED  BY <2>1, <2>2
<1>5. \A p \in S : h["sib"][p] \in FstIndices => h["sib"][p] \in S
  <2> SUFFICES ASSUME NEW p \in S, h["sib"][p] \in FstIndices
               PROVE  h["sib"][p] \in S
    OBVIOUS
  <2>0. p \in FromRoot(g) \ Within(g, x)
    BY <1>2
  <2>1. CASE p = q /\ k = "sib"
    BY <2>1, <1>1, <1>3, RootInTree, ChildrenAreClosed DEF Unlinks
  <2>2. CASE ~(p = q /\ k = "sib")
    <3>1. h["sib"][p] = g["sib"][p]
      BY <2>0, <2>2, <1>1 DEF Unlinks
    <3>2. g["sib"][p] # x
      BY <2>0, <2>2, <1>1 DEF Unlinks, IsTree
    <3> QED  BY <3>1, <3>2, ChildrenAreClosed
  <2> QED  BY <2>1, <2>2
<1>6. S \in SUBSET FstIndices
  BY ChildrenAreClosed
<1> QED  BY <1>4, <1>5, <1>6, ChildrenAreLeast

\* The children of the other entries stay.
LEMMA UnlinkOthers ==
    ASSUME NEW g, NEW h, NEW x, NEW q, NEW k, IsTree(g), Unlinks(g, h, x, q, k),
           NEW d \in FromRoot(g) \ Within(g, x), x \notin ChildrenOf(g, d)
    PROVE  ChildrenOf(h, d) = ChildrenOf(g, d)
<1>1. /\ x \in FromRoot(g) /\ x \in FstIndices /\ g[k][q] = x
      /\ "sib" \in Kinds /\ "sub" \in Kinds
      /\ \A p \in FromRoot(g) \ Within(g, x), l \in Kinds :
            p # q \/ l # k => h[l][p] = g[l][p]
  BY RootInTree DEF Unlinks, Kinds
<1>2. h["sub"][d] = g["sub"][d]
  BY <1>1, ChildrenAreClosed
<1>3. ASSUME NEW p \in ChildrenOf(g, d)
      PROVE  h["sib"][p] = g["sib"][p]
  <2>1. p \in FromRoot(g) /\ p \notin Within(g, x)
    BY <1>1, ChildrenOutside, ChildrenAreBelow, BelowInTree DEF Within
  <2>2. p # q \/ "sib" # k
    BY <1>1, ChildrenAreClosed
  <2> QED  BY <1>1, <2>1, <2>2
<1> QED  BY <1>2, <1>3, SameChildren

\* Nor is anything below an entry that was not there before.
LEMMA UnlinkBelow ==
    ASSUME NEW g, NEW h, NEW x, NEW q, NEW k, IsTree(g), Unlinks(g, h, x, q, k),
           NEW d \in FromRoot(g) \ Within(g, x)
    PROVE  Below(h, d) \subseteq Below(g, d)
<1> DEFINE S == Below(g, d) \ Within(g, x)
<1>1. x \in FromRoot(g) /\ x # 0 /\ x # NIL /\ "sib" \in Kinds /\ "sub" \in Kinds
  BY RootInTree, NilIsNoIndex DEF Unlinks, Kinds
<1>2. Below(g, d) \subseteq FromRoot(g) /\ ClosedIn(g, Below(g, d))
      /\ Below(g, d) \subseteq FstIndices /\ NIL \notin FstIndices
  BY BelowInTree, BelowIsClosed, NilIsNoIndex
<1>3. ASSUME NEW p \in FromRoot(g) \ Within(g, x), NEW l \in Kinds,
             h[l][p] \in FstIndices,
             g[l][p] \in FstIndices => g[l][p] \in Below(g, d)
      PROVE  h[l][p] \in S
  <2>1. CASE p = q /\ l = k
    <3>1. h[l][p] = g["sib"][x] /\ g[l][p] = x
      BY <2>1 DEF Unlinks
    <3>2. x \in Below(g, d)
      BY <1>1, <1>3, <3>1, RootInTree
    <3>3. g["sib"][x] \in Below(g, d)
      BY <1>1, <1>2, <1>3, <3>1, <3>2 DEF ClosedIn
    <3>4. g["sib"][x] \notin Below(g, x)
      BY <1>1, IntoBelow, NotBelowItself
    <3>5. g["sib"][x] # x
      BY <1>1, PointerFromOutside DEF Within
    <3> QED  BY <3>1, <3>3, <3>4, <3>5 DEF Within
  <2>2. CASE p # q \/ l # k
    <3>1. h[l][p] = g[l][p]
      BY <2>2 DEF Unlinks
    <3>2. g[l][p] \in Below(g, d)
      BY <1>3, <3>1
    <3>3. g[l][p] \notin Below(g, x)
      BY <1>1, IntoBelow DEF Within
    <3>4. g[l][p] # x
      BY <1>1, <2>2 DEF Unlinks, IsTree
    <3> QED  BY <3>1, <3>2, <3>3, <3>4 DEF Within
  <2> QED  BY <2>1, <2>2
<1>4. h["sub"][d] \in FstIndices => h["sub"][d] \in S
  BY <1>1, <1>3, BelowIsClosed
<1>5. \A p \in S, l \in Kinds : h[l][p] \in FstIndices => h[l][p] \in S
  BY <1>2, <1>3 DEF ClosedIn
<1>6. S \in SUBSET FstIndices /\ ClosedIn(h, S)
  BY <1>2, <1>5 DEF ClosedIn
<1> HIDE DEF S
<1>7. Below(h, d) \subseteq S
  BY <1>4, <1>6, BelowIsLeast
<1> QED  BY <1>7 DEF S

-----------------------------------------------------------------------------
(* Create: the new entry c becomes the first child of entry d.             *)

Links(g, h, c, d) ==
    /\ c \in FstIndices \ FromRoot(g) /\ d \in FromRoot(g)
    /\ h["sub"][d] = c /\ h["sib"][c] = g["sub"][d] /\ h["sub"][c] = NIL
    /\ \A p \in FromRoot(g), l \in Kinds :
          p # d \/ l # "sub" => h[l][p] = g[l][p]

LEMMA LinkTree ==
    ASSUME NEW g, NEW h, NEW c, NEW d, IsTree(g), Links(g, h, c, d)
    PROVE  IsTree(h) /\ FromRoot(h) = FromRoot(g) \cup {c}
<1> DEFINE L == FromRoot(g)
           M == L \cup {c}
           N == FromRoot(h)
<1>1. /\ c \in FstIndices /\ c \notin L /\ d \in L /\ c # d
      /\ h["sub"][d] = c /\ h["sib"][c] = g["sub"][d] /\ h["sub"][c] = NIL
      /\ "sib" \in Kinds /\ "sub" \in Kinds
  BY DEF Links, Kinds
<1>2. \A p \in L, l \in Kinds : p # d \/ l # "sub" => h[l][p] = g[l][p]
  BY DEF Links
<1>3. L \subseteq FstIndices /\ 0 \in L /\ ClosedIn(g, L)
  BY RootInTree, TreeIsClosed DEF IsTree
<1>4. h["sib"][0] = NIL
  BY <1>1, <1>2, <1>3 DEF IsTree
<1>5. \A p \in L, l \in Kinds : g[l][p] \in L \cup {NIL}
  BY <1>3 DEF IsTree, ClosedIn
<1>6. \A p \in M, l \in Kinds : h[l][p] \in M \cup {NIL}
  BY <1>1, <1>2, <1>5 DEF Kinds
<1>7. N \subseteq M
  <2>1. ClosedIn(h, M)
    BY <1>6, NilIsNoIndex DEF ClosedIn
  <2> QED  BY <1>1, <1>3, <2>1, TreeIsLeast
<1>8. ClosedIn(h, N) /\ 0 \in N
  BY <1>4, TreeIsClosed, RootInTree
<1>9. L \subseteq N
  <2>1. ClosedIn(g, N \cap L)
    <3> SUFFICES ASSUME NEW p \in N \cap L, NEW l \in Kinds, g[l][p] \in FstIndices
                 PROVE  g[l][p] \in N \cap L
      BY DEF ClosedIn
    <3>1. CASE p = d /\ l = "sub"
      <4>1. c \in N
        BY <1>1, <1>8, <3>1 DEF ClosedIn
      <4>2. g["sub"][d] \in N
        BY <1>1, <1>8, <3>1, <4>1 DEF ClosedIn
      <4> QED  BY <1>3, <3>1, <4>2 DEF ClosedIn
    <3>2. CASE ~(p = d /\ l = "sub")
      BY <1>2, <1>3, <1>8, <3>2 DEF ClosedIn
    <3> QED  BY <3>1, <3>2
  <2> QED  BY <1>3, <1>8, <2>1, TreeIsLeast
<1>10. N = M
  <2>1. c \in N
    BY <1>1, <1>8, <1>9 DEF ClosedIn
  <2> QED  BY <1>7, <1>9, <2>1
<1>11. \A p \in M, l \in Kinds : h[l][p] # 0
  <2>1. NIL # 0 /\ c # 0
    BY <1>1, <1>3 DEF NIL
  <2> QED  BY <1>1, <1>2, <2>1 DEF IsTree, Kinds
<1>12. \A p1, p2 \in M, l1, l2 \in Kinds :
          h[l1][p1] = h[l2][p2] /\ h[l1][p1] # NIL => l1 = l2 /\ p1 = p2
  <2>1. \A p \in L, l \in Kinds : g[l][p] # c
    BY <1>1, <1>5, NilIsNoIndex
  <2>2. \A p \in L, l \in Kinds :
           (p # d \/ l # "sub") /\ h[l][p] = g["sub"][d] => h[l][p] = NIL
    BY <1>1, <1>2 DEF IsTree
  <2>3. \A p1, p2 \in L, l1, l2 \in Kinds :
           /\ p1 # d \/ l1 # "sub"
           /\ p2 # d \/ l2 # "sub"
           /\ h[l1][p1] = h[l2][p2] /\ h[l1][p1] # NIL
           => l1 = l2 /\ p1 = p2
    BY <1>2 DEF IsTree
  <2> QED  BY <1>1, <1>2, <2>1, <2>2, <2>3 DEF Kinds
<1>13. IsTree(h)
  BY <1>4, <1>6, <1>3, <1>1, <1>10, <1>11, <1>12 DEF IsTree
<1> QED  BY <1>10, <1>13

LEMMA LinkChildren ==
    ASSUME NEW g, NEW h, NEW c, NEW d, IsTree(g), Links(g, h, c, d),
           NEW e \in FromRoot(h)
    PROVE  ChildrenOf(h, e) \subseteq IF e = c THEN {}
                                     ELSE IF e = d THEN {c} \cup ChildrenOf(g, d)
                                     ELSE ChildrenOf(g, e)
<1>1. /\ c \in FstIndices /\ c \notin FromRoot(g) /\ d \in FromRoot(g)
      /\ h["sub"][d] = c /\ h["sib"][c] = g["sub"][d] /\ h["sub"][c] = NIL
      /\ "sib" \in Kinds /\ "sub" \in Kinds
  BY DEF Links, Kinds
<1>2. FromRoot(h) = FromRoot(g) \cup {c}
  BY LinkTree
<1>3. CASE e = c
  <2>1. h["sub"][e] \notin FstIndices
    BY <1>1, <1>3, NilIsNoIndex
  <2> DEFINE S == FstIndices \ FstIndices
  <2>2. /\ S \in SUBSET FstIndices
        /\ \A p \in S : h["sib"][p] \in FstIndices => h["sib"][p] \in S
    OBVIOUS
  <2>3. ChildrenOf(h, e) \subseteq S
    <3> HIDE DEF S
    <3> QED  BY <2>1, <2>2, ChildrenAreLeast
  <2> QED  BY <1>3, <2>3
<1>4. CASE e # c
  <2> DEFINE S == IF e = d THEN {c} \cup ChildrenOf(g, d) ELSE ChildrenOf(g, e)
  <2>1. e \in FromRoot(g)
    BY <1>2, <1>4
  <2>2. ChildrenOf(g, e) \subseteq FromRoot(g)
    BY <2>1, ChildrenAreBelow, BelowInTree
  <2>3. S \in SUBSET FstIndices
    BY <1>1, ChildrenAreClosed
  <2>4. h["sub"][e] \in FstIndices => h["sub"][e] \in S
    BY <1>1, <2>1, ChildrenAreClosed DEF Links
  <2>5. \A p \in S : h["sib"][p] \in FstIndices => h["sib"][p] \in S
    <3>1. \A p \in ChildrenOf(g, e) : h["sib"][p] = g["sib"][p]
      BY <1>1, <2>2 DEF Links
    <3> QED  BY <1>1, <3>1, ChildrenAreClosed
  <2>6. ChildrenOf(h, e) \subseteq S
    BY <2>3, <2>4, <2>5, ChildrenAreLeast
  <2> QED  BY <1>4, <2>6
<1> QED  BY <1>3, <1>4

LEMMA LinkOthers ==
    ASSUME NEW g, NEW h, NEW c, NEW d, IsTree(g), Links(g, h, c, d),
           NEW e \in FromRoot(g) \ {d}
    PROVE  ChildrenOf(h, e) = ChildrenOf(g, e)
<1>1. ChildrenOf(g, e) \subseteq FromRoot(g)
  BY ChildrenAreBelow, BelowInTree
<1> QED  BY <1>1, SameChildren DEF Links, Kinds

-----------------------------------------------------------------------------
(* Rename: the pointer of kind k of entry q goes round entry x, which then  *)
(* becomes the first child of entry d.  The entry d may be within x: then   *)
(* x and all below it are cut off from the root.                           *)

Moves(g, h, x, q, k, d) ==
    /\ x \in FromRoot(g) /\ x # 0 /\ d \in FromRoot(g)
    /\ q \in FromRoot(g) /\ k \in Kinds /\ g[k][q] = x
    /\ h["sub"][d] = x
    /\ h["sib"][x] = IF q = d /\ k = "sub" THEN g["sib"][x] ELSE g["sub"][d]
    /\ q # d \/ k # "sub" => h[k][q] = g["sib"][x]
    /\ \A p \in FromRoot(g), l \in Kinds :
          /\ p # q \/ l # k
          /\ p # x \/ l # "sib"
          /\ p # d \/ l # "sub"
          => h[l][p] = g[l][p]

LEMMA MoveTree ==
    ASSUME NEW g, NEW h, NEW x, NEW q, NEW k, NEW d, IsTree(g),
           Moves(g, h, x, q, k, d)
    PROVE  /\ IsTree(h)
           /\ FromRoot(h) \subseteq FromRoot(g)
           /\ FromRoot(g) \ Within(g, x) \subseteq FromRoot(h)
<1> DEFINE L == FromRoot(g)
           W == Within(g, x)
           M == L \ W
           N == FromRoot(h)
<1>1. /\ x \in L /\ x # 0 /\ q \in L /\ k \in Kinds /\ g[k][q] = x /\ d \in L
      /\ "sib" \in Kinds /\ "sub" \in Kinds
  BY DEF Moves, Kinds
<1>2. /\ h["sub"][d] = x
      /\ h["sib"][x] = IF q = d /\ k = "sub" THEN g["sib"][x] ELSE g["sub"][d]
      /\ q # d \/ k # "sub" => h[k][q] = g["sib"][x]
  BY DEF Moves
<1>3. \A p \in L, l \in Kinds :
         /\ p # q \/ l # k
         /\ p # x \/ l # "sib"
         /\ p # d \/ l # "sub"
         => h[l][p] = g[l][p]
  BY DEF Moves
<1>4. /\ W \subseteq L /\ L \subseteq FstIndices /\ 0 \in M /\ x \in W
      /\ ClosedIn(g, L) /\ x # NIL
  BY <1>1, BelowInTree, RootInTree, TreeIsClosed, NilIsNoIndex DEF Within, IsTree
<1>5. q \in M
  BY <1>1, PointerFromOutside
<1>6. \A p \in L, l \in Kinds : g[l][p] \in L \cup {NIL}
  BY <1>4 DEF IsTree, ClosedIn
<1>7. h["sib"][0] = NIL
  <2>1. g["sib"][0] = NIL
    BY DEF IsTree
  <2>2. 0 # q \/ "sib" # k
    BY <1>1, <1>4, <2>1
  <2> QED  BY <1>1, <1>3, <1>4, <2>1, <2>2
<1>8. \A p \in L, l \in Kinds : h[l][p] \in L \cup {NIL} /\ h[l][p] # 0
  <2>1. \A p \in L, l \in Kinds : g[l][p] \in L \cup {NIL} /\ g[l][p] # 0
    BY <1>6 DEF IsTree
  <2> QED  BY <1>1, <1>2, <1>3, <2>1
<1>9. N \subseteq L
  <2>1. ClosedIn(h, L)
    BY <1>8, NilIsNoIndex DEF ClosedIn
  <2> QED  BY <1>4, <2>1, TreeIsLeast
<1>10. ClosedIn(h, N) /\ 0 \in N
  BY <1>7, TreeIsClosed, RootInTree
<1>11. \A p \in N \cap M, l \in Kinds :
          (p # q \/ l # k) /\ g[l][p] \in FstIndices => g[l][p] \in N
  <2> SUFFICES ASSUME NEW p \in N \cap M, NEW l \in Kinds, p # q \/ l # k,
                      g[l][p] \in FstIndices
               PROVE  g[l][p] \in N
    OBVIOUS
  <2>1. CASE p = d /\ l = "sub"
    <3>1. h["sub"][d] \in N
      BY <1>1, <1>2, <1>4, <1>10, <2>1 DEF ClosedIn
    <3>2. h["sib"][x] = g["sub"][d]
      BY <1>2, <2>1
    <3> QED  BY <1>1, <1>2, <1>10, <2>1, <3>1, <3>2 DEF ClosedIn
  <2>2. CASE p # d \/ l # "sub"
    <3>1. h[l][p] = g[l][p]
      BY <1>3, <1>4, <2>2
    <3> QED  BY <1>10, <3>1 DEF ClosedIn
  <2> QED  BY <2>1, <2>2
<1>12. \A p \in M, l \in Kinds : p # q \/ l # k => g[l][p] \in M \cup {NIL}
  <2> SUFFICES ASSUME NEW p \in M, NEW l \in Kinds, p # q \/ l # k
               PROVE  g[l][p] \in M \cup {NIL}
    OBVIOUS
  <2>1. g[l][p] # x
    BY <1>1, <1>4 DEF IsTree
  <2>2. g[l][p] \notin Below(g, x)
    BY <1>1, IntoBelow DEF Within
  <2> QED  BY <1>6, <2>1, <2>2 DEF Within
<1>13. q \in N
  <2> SUFFICES ASSUME q \notin N PROVE FALSE
    OBVIOUS
  <2>1. ClosedIn(g, N \cap M)
    BY <1>11, <1>12, NilIsNoIndex DEF ClosedIn
  <2> QED  BY <1>1, <1>4, <1>10, <2>1, TreeIsLeast
<1>14. g["sib"][x] \in FstIndices => g["sib"][x] \in N \cap M
  <2> SUFFICES ASSUME g["sib"][x] \in FstIndices PROVE g["sib"][x] \in N \cap M
    OBVIOUS
  <2>1. g["sib"][x] # x
    BY <1>1, <1>4, PointerFromOutside
  <2>2. g["sib"][x] \notin Below(g, x)
    BY <1>1, IntoBelow, NotBelowItself
  <2>3. g["sib"][x] \in M
    BY <1>1, <1>6, <2>1, <2>2, NilIsNoIndex DEF Within
  <2>4. CASE q = d /\ k = "sub"
    <3>1. x \in N
      BY <1>1, <1>2, <1>4, <1>10, <1>13, <2>4 DEF ClosedIn
    <3> QED  BY <1>1, <1>2, <1>10, <2>3, <2>4, <3>1 DEF ClosedIn
  <2>5. CASE q # d \/ k # "sub"
    BY <1>1, <1>2, <1>10, <1>13, <2>3, <2>5 DEF ClosedIn
  <2> QED  BY <2>4, <2>5
<1>15. M \subseteq N
  <2> DEFINE S == (N \cap M) \cup W
  <2>1. \A p \in N \cap M, l \in Kinds : g[l][p] \in FstIndices => g[l][p] \in S
    BY <1>1, <1>4, <1>11, <1>12, NilIsNoIndex
  <2>2. \A p \in W, l \in Kinds : g[l][p] \in FstIndices => g[l][p] \in S
    <3>1. g["sub"][x] \in FstIndices => g["sub"][x] \in W
      BY BelowIsClosed DEF Within
    <3>2. \A p \in Below(g, x), l \in Kinds :
             g[l][p] \in FstIndices => g[l][p] \in W
      BY BelowIsClosed DEF Within, ClosedIn
    <3> QED  BY <1>14, <3>1, <3>2 DEF Within, Kinds
  <2>3. ClosedIn(g, S) /\ 0 \in S /\ S \in SUBSET FstIndices
    BY <1>4, <1>10, <2>1, <2>2 DEF ClosedIn
  <2>4. L \subseteq S
    BY <2>3, TreeIsLeast
  <2> QED  BY <2>4
<1>16. \A p1, p2 \in L, l1, l2 \in Kinds :
          h[l1][p1] = h[l2][p2] /\ h[l1][p1] # NIL => l1 = l2 /\ p1 = p2
  <2>1. \A p1, p2 \in L, l1, l2 \in Kinds :
           g[l1][p1] = g[l2][p2] /\ g[l1][p1] # NIL => l1 = l2 /\ p1 = p2
    BY DEF IsTree
  <2>2. CASE q = d /\ k = "sub"
    <3>1. \A p \in L, l \in Kinds : h[l][p] = g[l][p]
      BY <1>1, <1>2, <1>3, <2>2
    <3> QED  BY <2>1, <3>1
  <2>3. CASE q # d \/ k # "sub"
    <3> DEFINE From(p, l) == IF p = q /\ l = k THEN <<x, "sib">>
                             ELSE IF p = x /\ l = "sib" THEN <<d, "sub">>
                             ELSE IF p = d /\ l = "sub" THEN <<q, k>>
                             ELSE <<p, l>>
    <3>1. q # x \/ k # "sib"
      BY <1>4, <1>5
    <3>2. \A p \in L, l \in Kinds :
             /\ From(p, l)[1] \in L /\ From(p, l)[2] \in Kinds
             /\ h[l][p] = g[From(p, l)[2]][From(p, l)[1]]
      <4> SUFFICES ASSUME NEW p \in L, NEW l \in Kinds
                   PROVE  /\ From(p, l)[1] \in L /\ From(p, l)[2] \in Kinds
                          /\ h[l][p] = g[From(p, l)[2]][From(p, l)[1]]
        OBVIOUS
      <4>1. CASE p = q /\ l = k
        BY <1>1, <1>2, <2>3, <4>1
      <4>2. CASE p = x /\ l = "sib" /\ ~(p = q /\ l = k)
        BY <1>1, <1>2, <2>3, <4>2
      <4>3. CASE p = d /\ l = "sub" /\ ~(p = q /\ l = k)
        BY <1>1, <1>2, <4>3
      <4>4. CASE /\ ~(p = q /\ l = k) /\ ~(p = x /\ l = "sib")
                 /\ ~(p = d /\ l = "sub")
        BY <1>3, <4>4
      <4> QED  BY <4>1, <4>2, <4>3, <4>4
    <3>3. \A p1, p2 \in L, l1, l2 \in Kinds :
             From(p1, l1)[1] = From(p2, l2)[1] /\ From(p1, l1)[2] = From(p2, l2)[2]
             => p1 = p2 /\ l1 = l2
      BY <2>3, <3>1
    <3> HIDE DEF From
    <3> QED  BY <2>1, <3>2, <3>3
  <2> QED  BY <2>2, <2>3
<1>17. IsTree(h)
  BY <1>4, <1>7, <1>8, <1>9, <1>16 DEF IsTree
<1> QED  BY <1>9, <1>15, <1>17

\* Unless the entry moves to a place within itself, nothing is cut off.
LEMMA MoveKeepsEntries ==
    ASSUME NEW g, NEW h, NEW x, NEW q, NEW k, NEW d, IsTree(g),
           Moves(g, h, x, q, k, d), d \notin Within(g, x)
    PROVE  FromRoot(h) = FromRoot(g)
<1> DEFINE N == FromRoot(h)
           S == N \cap Below(g, x)
<1>1. /\ IsTree(h) /\ N \subseteq FromRoot(g)
      /\ FromRoot(g) \ Within(g, x) \subseteq N
  BY MoveTree
<1>2. /\ x \in FromRoot(g) /\ x # 0 /\ d \in FromRoot(g) /\ q \in FromRoot(g)
      /\ k \in Kinds /\ g[k][q] = x /\ h["sub"][d] = x
      /\ "sib" \in Kinds /\ "sub" \in Kinds
  BY DEF Moves, Kinds
<1>3. ClosedIn(h, N) /\ N \subseteq FstIndices /\ FromRoot(g) \subseteq FstIndices
  BY <1>1, TreeIsClosed, RootInTree DEF IsTree
<1>4. x \in N
  BY <1>1, <1>2, <1>3 DEF ClosedIn
<1>5. q \notin Within(g, x) /\ x \notin Below(g, x)
      /\ Below(g, x) \subseteq FromRoot(g)
  BY <1>2, PointerFromOutside, NotBelowItself, BelowInTree
<1>6. \A p \in Below(g, x), l \in Kinds : h[l][p] = g[l][p]
  BY <1>5 DEF Moves, Within
<1>7. h["sub"][x] = g["sub"][x]
  BY <1>2, <1>5 DEF Moves, Within
<1>8. S \in SUBSET FstIndices /\ (g["sub"][x] \in FstIndices => g["sub"][x] \in S)
  BY <1>2, <1>3, <1>4, <1>7, BelowIsClosed DEF ClosedIn
<1>9. ClosedIn(g, S)
  BY <1>3, <1>6, BelowIsClosed DEF ClosedIn
<1> HIDE DEF S
<1>10. Below(g, x) \subseteq S
  BY <1>8, <1>9, BelowIsLeast
<1> QED  BY <1>1, <1>4, <1>10 DEF S, Within

LEMMA MoveChildren ==
    ASSUME NEW g, NEW h, NEW x, NEW q, NEW k, NEW d, IsTree(g),
           Moves(g, h, x, q, k, d), NEW e \in FromRoot(g)
    PROVE  ChildrenOf(h, e) \subseteq IF e = d THEN {x} \cup ChildrenOf(g, d)
                                     ELSE ChildrenOf(g, e) \ {x}
<1>1. /\ x \in FromRoot(g) /\ x # 0 /\ q \in FromRoot(g) /\ k \in Kinds
      /\ g[k][q] = x /\ d \in FromRoot(g) /\ "sib" \in Kinds /\ "sub" \in Kinds
  BY DEF Moves, Kinds
<1>2. /\ h["sub"][d] = x
      /\ h["sib"][x] = IF q = d /\ k = "sub" THEN g["sib"][x] ELSE g["sub"][d]
      /\ q # d \/ k # "sub" => h[k][q] = g["sib"][x]
  BY DEF Moves
<1>3. \A p \in FromRoot(g), l \in Kinds :
         /\ p # q \/ l # k
         /\ p # x \/ l # "sib"
         /\ p # d \/ l # "sub"
         => h[l][p] = g[l][p]
  BY DEF Moves
<1>4. x \in FstIndices /\ x # NIL
  BY <1>1, RootInTree, NilIsNoIndex
<1>5. \A p \in FromRoot(g), l \in Kinds : p # q \/ l # k => g[l][p] # x
  BY <1>1, <1>4 DEF IsTree
<1>6. ChildrenOf(g, e) \subseteq FromRoot(g)
  BY ChildrenAreBelow, BelowInTree
<1>7. g["sib"][x] # x
  BY <1>1, PointerFromOutside DEF Within
<1> DEFINE S == IF e = d THEN {x} \cup ChildrenOf(g, d) ELSE ChildrenOf(g, e) \ {x}
<1>8. S \in SUBSET FstIndices
  BY <1>4, ChildrenAreClosed
<1>9. g[k][q] \in ChildrenOf(g, e) /\ g["sib"][x] \in FstIndices =>
         g["sib"][x] \in S
  BY <1>1, <1>7, ChildrenAreClosed
<1>10. h["sub"][e] \in FstIndices => h["sub"][e] \in S
  <2>1. CASE e = d
    BY <1>2, <2>1
  <2>2. CASE e # d /\ e = q /\ k = "sub"
    BY <1>1, <1>2, <1>4, <1>9, <2>2, ChildrenAreClosed
  <2>3. CASE e # d /\ ~(e = q /\ k = "sub")
    <3>1. h["sub"][e] = g["sub"][e] /\ g["sub"][e] # x
      BY <1>1, <1>3, <1>5, <2>3
    <3> QED  BY <2>3, <3>1, ChildrenAreClosed
  <2> QED  BY <2>1, <2>2, <2>3
<1>11. \A p \in S : h["sib"][p] \in FstIndices => h["sib"][p] \in S
  <2> SUFFICES ASSUME NEW p \in S, h["sib"][p] \in FstIndices
               PROVE  h["sib"][p] \in S
    OBVIOUS
  <2>1. CASE p = x
    <3>1. e = d
      BY <2>1
    <3>2. CASE q = d /\ k = "sub"
      BY <1>1, <1>2, <1>4, <1>9, <2>1, <3>1, <3>2, ChildrenAreClosed
    <3>3. CASE q # d \/ k # "sub"
      BY <1>2, <2>1, <3>1, <3>3, ChildrenAreClosed
    <3> QED  BY <3>2, <3>3
  <2>2. CASE p # x /\ p = q /\ k = "sib"
    <3>1. p \in ChildrenOf(g, e)
      BY <2>2
    <3>2. x \in ChildrenOf(g, e)
      BY <1>1, <1>4, <2>2, <3>1, ChildrenAreClosed
    <3> QED  BY <1>1, <1>2, <1>9, <2>2, <3>2
  <2>3. CASE p # x /\ ~(p = q /\ k = "sib")
    <3>1. p \in ChildrenOf(g, e)
      BY <2>3
    <3>2. h["sib"][p] = g["sib"][p] /\ g["sib"][p] # x
      BY <1>1, <1>3, <1>5, <1>6, <2>3, <3>1
    <3> QED  BY <3>1, <3>2, ChildrenAreClosed
  <2> QED  BY <2>1, <2>2, <2>3
<1> QED  BY <1>8, <1>10, <1>11, ChildrenAreLeast

LEMMA MoveOthers ==
    ASSUME NEW g, NEW h, NEW x, NEW q, NEW k, NEW d, IsTree(g),
           Moves(g, h, x, q, k, d), NEW e \in FromRoot(g) \ {d},
           x \notin ChildrenOf(g, e)
    PROVE  ChildrenOf(h, e) = ChildrenOf(g, e)
<1>1. /\ x \in FstIndices /\ g[k][q] = x /\ "sib" \in Kinds /\ "sub" \in Kinds
      /\ \A p \in FromRoot(g), l \in Kinds :
            /\ p # q \/ l # k
            /\ p # x \/ l # "sib"
            /\ p # d \/ l # "sub"
            => h[l][p] = g[l][p]
  BY RootInTree DEF Moves, Kinds
<1>2. ChildrenOf(g, e) \subseteq FromRoot(g)
  BY ChildrenAreBelow, BelowInTree
<1>3. h["sub"][e] = g["sub"][e]
  BY <1>1, ChildrenAreClosed
<1>4. \A p \in ChildrenOf(g, e) : h["sib"][p] = g["sib"][p]
  BY <1>1, <1>2, ChildrenAreClosed
<1> QED  BY <1>3, <1>4, SameChildren

-----------------------------------------------------------------------------
(***************************************************************************)
(* The FAT as a graph: the first cluster of a file and the cell of a       *)
(* cluster are pointers.  A graph g gives g["head"][f], the pointer of     *)
(* file f, and g["cell"][c], that of cluster c.  The graph consists of     *)
(* chains when no two pointers lead to one cluster and every cluster in    *)
(* use is reached from a file.  These lemmas say what becomes of chains    *)
(* when some are freed (Delete, Rename) and when a cluster is put in the   *)
(* place of another or at the end (WriteFileData).                         *)
(***************************************************************************)

PointerKinds == {"head", "cell"}

\* The clusters in use.
Taken(g) == {c \in Clusters :
                g["cell"][c] \in Clusters \cup {CLUSTER_LAST_IN_CHAIN}}

\* The clusters of file f.
Chain(g, f) ==
    Reachable([c \in Clusters |-> {g["cell"][c]} \cap Clusters],
              {g["head"][f]} \cap Clusters)

AreChains(g) ==
    /\ \A p \in U16, k \in PointerKinds :
          g[k][p] \in Clusters => g[k][p] \in Taken(g)
    /\ \A p, q \in U16, k, l \in PointerKinds :
          g[k][p] = g[l][q] /\ g[k][p] \in Clusters => k = l /\ p = q
    /\ \A c \in Taken(g) : \E f \in FstIndices : c \in Chain(g, f)

-----------------------------------------------------------------------------

LEMMA FatNumbers ==
    /\ Clusters \subseteq U16 /\ FstIndices \subseteq U16
    /\ "head" \in PointerKinds /\ "cell" \in PointerKinds
    /\ CLUSTER_LAST_IN_CHAIN \notin Clusters /\ CLUSTER_UNUSED \notin Clusters
    /\ NIL \notin Clusters /\ CLUSTER_RESERVED \notin Clusters
    /\ CLUSTER_LAST_IN_CHAIN # CLUSTER_UNUSED
    /\ CLUSTER_LAST_IN_CHAIN # NIL /\ CLUSTER_LAST_IN_CHAIN # CLUSTER_RESERVED
<1>1. \A c \in Clusters : c < 65531
  BY SffsAssumption DEF SffsAssumption, Clusters
<1> QED
  BY <1>1, PointersInRange
     DEF PointerKinds, CLUSTER_LAST_IN_CHAIN, CLUSTER_UNUSED, NIL, CLUSTER_RESERVED

LEMMA ChainIsClosed ==
    ASSUME NEW g, NEW f
    PROVE  /\ Chain(g, f) \subseteq Clusters
           /\ g["head"][f] \in Clusters => g["head"][f] \in Chain(g, f)
           /\ \A c \in Chain(g, f) :
                 g["cell"][c] \in Clusters => g["cell"][c] \in Chain(g, f)
<1> DEFINE succ == [c \in Clusters |-> {g["cell"][c]} \cap Clusters]
           from == {g["head"][f]} \cap Clusters
<1>1. Chain(g, f) \subseteq Clusters
  BY ReachableInDomain DEF Chain
<1>2. /\ from \subseteq Reachable(succ, from)
      /\ \A c \in Reachable(succ, from) : succ[c] \subseteq Reachable(succ, from)
  <2>1. \A c \in DOMAIN succ : succ[c] \subseteq DOMAIN succ
    OBVIOUS
  <2>2. from \in SUBSET DOMAIN succ
    OBVIOUS
  <2> HIDE DEF succ
  <2> QED  BY <2>1, <2>2, ReachableIsClosed
<1>3. Reachable(succ, from) = Chain(g, f)
  BY DEF Chain
<1> QED  BY <1>1, <1>2, <1>3

LEMMA ChainIsLeast ==
    ASSUME NEW g, NEW f, NEW S \in SUBSET Clusters,
           g["head"][f] \in Clusters => g["head"][f] \in S,
           \A c \in S : g["cell"][c] \in Clusters => g["cell"][c] \in S
    PROVE  Chain(g, f) \subseteq S
<1> DEFINE succ == [c \in Clusters |-> {g["cell"][c]} \cap Clusters]
           from == {g["head"][f]} \cap Clusters
<1>1. from \subseteq S /\ \A c \in S : succ[c] \subseteq S
  OBVIOUS
<1>2. S \in SUBSET DOMAIN succ
  OBVIOUS
<1> HIDE DEF from, succ
<1>3. Reachable(succ, from) \subseteq S
  BY <1>1, <1>2, ReachableIsLeast
<1> QED  BY <1>3 DEF Chain, succ, from

\* Every cluster of a chain is in use.
LEMMA ChainTaken ==
    ASSUME NEW g, AreChains(g), NEW f \in FstIndices
    PROVE  Chain(g, f) \subseteq Taken(g)
<1>1. Taken(g) \subseteq Clusters
  BY DEF Taken
<1>2. g["head"][f] \in Clusters => g["head"][f] \in Taken(g)
  BY FatNumbers DEF AreChains
<1>3. \A c \in Taken(g) : g["cell"][c] \in Clusters => g["cell"][c] \in Taken(g)
  BY FatNumbers, <1>1 DEF AreChains
<1> QED  BY <1>1, <1>2, <1>3, ChainIsLeast

\* A cluster of a chain is its first one, or another one of it leads to it.
LEMMA ChainHasPointer ==
    ASSUME NEW g, NEW f, NEW c \in Chain(g, f)
    PROVE  \/ g["head"][f] = c
           \/ \E d \in Chain(g, f) : g["cell"][d] = c
<1> SUFFICES ASSUME g["head"][f] # c, \A d \in Chain(g, f) : g["cell"][d] # c
             PROVE  FALSE
  OBVIOUS
<1> DEFINE S == Chain(g, f) \ {c}
<1>1. /\ S \in SUBSET Clusters
      /\ g["head"][f] \in Clusters => g["head"][f] \in S
      /\ \A d \in S : g["cell"][d] \in Clusters => g["cell"][d] \in S
  BY ChainIsClosed
<1> HIDE DEF S
<1>2. Chain(g, f) \subseteq S
  BY <1>1, ChainIsLeast
<1> QED  BY <1>2 DEF S

\* A pointer into a chain is one of it.
LEMMA IntoChain ==
    ASSUME NEW g, AreChains(g), NEW f \in FstIndices,
           NEW p \in U16, NEW k \in PointerKinds, g[k][p] \in Chain(g, f)
    PROVE  \/ k = "head" /\ p = f
           \/ k = "cell" /\ p \in Chain(g, f)
<1>1. g[k][p] \in Clusters /\ Chain(g, f) \subseteq Clusters
  BY ChainIsClosed
<1>2. CASE g["head"][f] = g[k][p]
  BY <1>1, <1>2, FatNumbers DEF AreChains
<1>3. CASE \E d \in Chain(g, f) : g["cell"][d] = g[k][p]
  <2>1. PICK d \in Chain(g, f) : g["cell"][d] = g[k][p]
    BY <1>3
  <2>2. d \in U16
    BY <1>1, <2>1, FatNumbers
  <2> QED  BY <1>1, <2>1, <2>2, FatNumbers DEF AreChains
<1> QED  BY <1>2, <1>3, ChainHasPointer

LEMMA ChainsDisjoint ==
    ASSUME NEW g, AreChains(g), NEW e \in FstIndices, NEW f \in FstIndices, e # f
    PROVE  Chain(g, e) \cap Chain(g, f) = {}
<1> DEFINE S == Chain(g, e) \ Chain(g, f)
<1>1. S \in SUBSET Clusters
  BY ChainIsClosed
<1>2. g["head"][e] \in Clusters => g["head"][e] \in S
  <2>1. g["head"][e] \notin Chain(g, f)
    BY IntoChain, FatNumbers
  <2> QED  BY <2>1, ChainIsClosed
<1>3. \A c \in S : g["cell"][c] \in Clusters => g["cell"][c] \in S
  <2> SUFFICES ASSUME NEW c \in S, g["cell"][c] \in Clusters
               PROVE  g["cell"][c] \in S
    OBVIOUS
  <2>1. c \in U16
    BY <1>1, FatNumbers
  <2>2. g["cell"][c] \notin Chain(g, f)
    BY <2>1, IntoChain, FatNumbers
  <2> QED  BY <2>2, ChainIsClosed
<1> HIDE DEF S
<1>4. Chain(g, e) \subseteq S
  BY <1>1, <1>2, <1>3, ChainIsLeast
<1> QED  BY <1>4 DEF S

\* No cluster leads to itself.
LEMMA NoLoop ==
    ASSUME NEW g, AreChains(g), NEW c \in Taken(g)
    PROVE  g["cell"][c] # c
<1> SUFFICES ASSUME g["cell"][c] = c PROVE FALSE
  OBVIOUS
<1>1. c \in Clusters /\ c \in U16
  BY FatNumbers DEF Taken
<1>2. PICK f \in FstIndices : c \in Chain(g, f)
  BY DEF AreChains
<1> DEFINE S == Chain(g, f) \ {c}
<1>3. S \in SUBSET Clusters
  BY ChainIsClosed
<1>4. g["head"][f] \in Clusters => g["head"][f] \in S
  <2>1. f \in U16 /\ g["head"][f] # c
    BY <1>1, FatNumbers DEF AreChains
  <2> QED  BY <2>1, ChainIsClosed
<1>5. \A d \in S : g["cell"][d] \in Clusters => g["cell"][d] \in S
  <2> SUFFICES ASSUME NEW d \in S, g["cell"][d] \in Clusters
               PROVE  g["cell"][d] \in S
    OBVIOUS
  <2>1. d \in U16 /\ d # c
    BY <1>3, FatNumbers
  <2>2. g["cell"][d] # c
    BY <1>1, <2>1, FatNumbers DEF AreChains
  <2> QED  BY <2>2, ChainIsClosed
<1> HIDE DEF S
<1>6. Chain(g, f) \subseteq S
  BY <1>3, <1>4, <1>5, ChainIsLeast
<1> QED  BY <1>2, <1>6 DEF S

LEMMA SameChain ==
    ASSUME NEW g, NEW h, NEW f, h["head"][f] = g["head"][f],
           \A c \in Chain(g, f) : h["cell"][c] = g["cell"][c]
    PROVE  Chain(h, f) = Chain(g, f)
<1>1. Chain(h, f) \subseteq Chain(g, f)
  BY ChainIsClosed, ChainIsLeast
<1>2. Chain(g, f) \subseteq Chain(h, f)
  <2> DEFINE S == Chain(h, f) \cap Chain(g, f)
  <2>1. /\ S \in SUBSET Clusters
        /\ g["head"][f] \in Clusters => g["head"][f] \in S
        /\ \A c \in S : g["cell"][c] \in Clusters => g["cell"][c] \in S
    BY ChainIsClosed
  <2> HIDE DEF S
  <2>2. Chain(g, f) \subseteq S
    BY <2>1, ChainIsLeast
  <2> QED  BY <2>2 DEF S
<1> QED  BY <1>1, <1>2

\* Only the pointers to clusters, and the last clusters of chains, matter.
LEMMA SamePointersSameChains ==
    ASSUME NEW g, NEW h, AreChains(g),
           \A p \in U16, k \in PointerKinds :
              \/ h[k][p] = g[k][p]
              \/ /\ h[k][p] \notin Clusters /\ g[k][p] \notin Clusters
                 /\ k = "cell" => CLUSTER_LAST_IN_CHAIN \notin {g[k][p], h[k][p]}
    PROVE  AreChains(h)
<1>1. Taken(h) = Taken(g)
  BY FatNumbers DEF Taken
<1>2. ASSUME NEW f \in FstIndices PROVE Chain(g, f) \subseteq Chain(h, f)
  <2>1. g["head"][f] \in Clusters => g["head"][f] \in Chain(h, f)
    BY ChainIsClosed, FatNumbers
  <2>2. \A c \in Chain(h, f) : g["cell"][c] \in Clusters => g["cell"][c] \in Chain(h, f)
    BY ChainIsClosed, FatNumbers
  <2>3. Chain(h, f) \in SUBSET Clusters
    BY ChainIsClosed
  <2> QED  BY <2>1, <2>2, <2>3, ChainIsLeast
<1> QED  BY <1>1, <1>2 DEF AreChains

-----------------------------------------------------------------------------
(* Freeing.                                                                *)

\* h is g without the chains of the files in D.
Frees(g, h, D) ==
    /\ D \subseteq FstIndices
    /\ \A f \in U16 \ D : h["head"][f] = g["head"][f]
    /\ \A f \in D : h["head"][f] \notin Clusters
    /\ \A c \in U16 :
          h["cell"][c] = IF c \in UNION {Chain(g, f) : f \in D}
                         THEN CLUSTER_UNUSED ELSE g["cell"][c]

LEMMA FreeingKeepsChains ==
    ASSUME NEW g, NEW h, NEW D, AreChains(g), Frees(g, h, D)
    PROVE  AreChains(h)
<1> DEFINE freed == UNION {Chain(g, f) : f \in D}
<1>1. \A c \in U16 : h["cell"][c] = IF c \in freed THEN CLUSTER_UNUSED
                                                   ELSE g["cell"][c]
  BY DEF Frees
<1>2. Taken(h) = Taken(g) \ freed
  BY <1>1, FatNumbers DEF Taken
<1>3. \A p \in U16, k \in PointerKinds :
         h[k][p] \in Clusters => h[k][p] = g[k][p] /\ g[k][p] \notin freed
  <2> SUFFICES ASSUME NEW p \in U16, NEW k \in PointerKinds, h[k][p] \in Clusters
               PROVE  h[k][p] = g[k][p] /\ g[k][p] \notin freed
    OBVIOUS
  <2>1. /\ h[k][p] = g[k][p]
        /\ k = "head" => p \notin D
        /\ k = "cell" => p \notin freed
    <3>1. CASE k = "head"
      BY <3>1 DEF Frees
    <3>2. CASE k = "cell"
      BY <1>1, <3>2, FatNumbers
    <3> QED  BY <3>1, <3>2 DEF PointerKinds
  <2>2. ASSUME NEW f \in D, g[k][p] \in Chain(g, f) PROVE FALSE
    <3>1. f \in FstIndices
      BY DEF Frees
    <3> QED  BY <2>1, <2>2, <3>1, IntoChain
  <2> QED  BY <2>1, <2>2
<1>4. ASSUME NEW c \in Taken(h) PROVE \E f \in FstIndices : c \in Chain(h, f)
  <2>1. PICK f \in FstIndices : c \in Chain(g, f)
    BY <1>2 DEF AreChains
  <2>2. f \notin D
    BY <1>2, <2>1
  <2>3. Chain(g, f) \cap freed = {}
    <3> SUFFICES ASSUME NEW e \in D PROVE Chain(g, f) \cap Chain(g, e) = {}
      OBVIOUS
    <3> QED  BY <2>2, ChainsDisjoint DEF Frees
  <2>4. \A d \in Chain(g, f) : h["cell"][d] = g["cell"][d]
    BY <1>1, <2>3, ChainIsClosed, FatNumbers
  <2>5. h["head"][f] = g["head"][f]
    BY <2>2, FatNumbers DEF Frees
  <2>6. Chain(h, f) = Chain(g, f)
    BY <2>4, <2>5, SameChain
  <2> QED  BY <2>1, <2>6
<1> HIDE DEF freed
<1>5. \A p \in U16, k \in PointerKinds :
         h[k][p] \in Clusters => h[k][p] \in Taken(h)
  BY <1>2, <1>3 DEF AreChains
<1>6. ASSUME NEW p \in U16, NEW q \in U16, NEW k \in PointerKinds,
             NEW l \in PointerKinds, h[k][p] = h[l][q], h[k][p] \in Clusters
      PROVE  k = l /\ p = q
  BY <1>3, <1>6 DEF AreChains
<1> QED  BY <1>4, <1>5, <1>6 DEF AreChains

-----------------------------------------------------------------------------
(* Splicing.                                                               *)

\* h is g with the cluster n, which was not in use, in the place of the one that
\* the pointer k of p leads to, or behind the end of a chain.
Splices(g, h, k, p, n) ==
    /\ n \in Clusters \ Taken(g)
    /\ \/ k = "head" /\ p \in FstIndices
       \/ k = "cell" /\ p \in Taken(g)
    /\ h[k][p] = n
    /\ h["cell"][n] = IF g[k][p] \in Clusters THEN g["cell"][g[k][p]]
                                              ELSE CLUSTER_LAST_IN_CHAIN
    /\ g[k][p] \in Clusters => h["cell"][g[k][p]] = CLUSTER_UNUSED
    /\ \A q \in U16, l \in PointerKinds :
          /\ l # k \/ q # p
          /\ l # "cell" \/ q \notin {n, g[k][p]} \cap Clusters
          => h[l][q] = g[l][q]

LEMMA SplicingKeepsChains ==
    ASSUME NEW g, NEW h, NEW k, NEW p, NEW n, AreChains(g), Splices(g, h, k, p, n)
    PROVE  AreChains(h)
<1> DEFINE v == g[k][p]
<1>1. /\ k \in PointerKinds /\ p \in U16 /\ n \in Clusters /\ n \in U16
      /\ n \notin Taken(g) /\ Taken(g) \subseteq Clusters
  BY FatNumbers DEF Splices, Taken
<1>2. g["cell"][n] \notin Clusters
  BY <1>1 DEF Taken
<1>3. \A q \in U16, l \in PointerKinds : g[l][q] # n
  BY <1>1 DEF AreChains
<1>4. v \in Clusters => /\ v \in Taken(g) /\ v # n /\ v \in U16
                        /\ g["cell"][v] # v /\ h["cell"][v] = CLUSTER_UNUSED
  BY <1>1, NoLoop, FatNumbers DEF AreChains, Splices
<1>5. k = "cell" => p \in Taken(g) /\ p # v /\ p # n
  BY <1>1, NoLoop, FatNumbers DEF Splices
<1>6. h["cell"][n] = IF v \in Clusters THEN g["cell"][v]
                                       ELSE CLUSTER_LAST_IN_CHAIN
  BY DEF Splices
<1>7. /\ h[k][p] = n
      /\ \A q \in U16, l \in PointerKinds :
            /\ l # k \/ q # p
            /\ l # "cell" \/ q \notin {n, v} \cap Clusters
            => h[l][q] = g[l][q]
  BY DEF Splices
<1> HIDE DEF v
<1>8. Taken(h) = (Taken(g) \ {v}) \cup {n}
  <2>1. n \in Taken(h)
    BY <1>1, <1>4, <1>6 DEF Taken
  <2>2. v \notin Taken(h)
    BY <1>4, FatNumbers DEF Taken
  <2>3. ASSUME NEW c \in Clusters \ {n, v} PROVE c \in Taken(h) <=> c \in Taken(g)
    <3>0. c \in U16 /\ "cell" \in PointerKinds
      BY FatNumbers
    <3>1. CASE k = "cell" /\ c = p
      BY <1>1, <1>5, <1>7, <3>1 DEF Taken
    <3>2. CASE ~(k = "cell" /\ c = p)
      BY <1>7, <3>0, <3>2 DEF Taken
    <3> QED  BY <3>1, <3>2
  <2> QED  BY <1>1, <2>1, <2>2, <2>3 DEF Taken
\* Where the pointers of h come from.
<1>9. ASSUME NEW q \in U16, NEW l \in PointerKinds, h[l][q] \in Clusters
      PROVE  \/ l = k /\ q = p /\ h[l][q] = n
             \/ /\ l = "cell" /\ q = n
                /\ v \in Clusters /\ h[l][q] = g["cell"][v]
             \/ /\ l # k \/ q # p
                /\ l # "cell" \/ q \notin {n, v} \cap Clusters
                /\ h[l][q] = g[l][q]
  <2>1. CASE l = k /\ q = p
    BY <1>7, <2>1
  <2>2. CASE l = "cell" /\ q = n
    BY <1>6, <1>9, <2>2, FatNumbers
  <2>3. CASE l = "cell" /\ q = v /\ v \in Clusters
    BY <1>4, <1>9, <2>3, FatNumbers
  <2>4. CASE ~(l = k /\ q = p) /\ ~(l = "cell" /\ q \in {n, v} \cap Clusters)
    BY <1>7, <2>4
  <2> QED  BY <2>1, <2>2, <2>3, <2>4
<1>10. \A q \in U16, l \in PointerKinds : h[l][q] \in Clusters => h[l][q] \in Taken(h)
  <2> SUFFICES ASSUME NEW q \in U16, NEW l \in PointerKinds, h[l][q] \in Clusters
               PROVE  h[l][q] \in Taken(h)
    OBVIOUS
  <2>1. CASE v \in Clusters /\ h[l][q] = g["cell"][v]
    <3>1. g["cell"][v] \in Taken(g)
      BY <1>4, <2>1, FatNumbers DEF AreChains
    <3> QED  BY <1>4, <1>8, <2>1, <3>1
  <2>2. CASE /\ l # k \/ q # p
             /\ l # "cell" \/ q \notin {n, v} \cap Clusters
             /\ h[l][q] = g[l][q]
    <3>1. g[l][q] \in Taken(g)
      BY <2>2 DEF AreChains
    <3>2. g[l][q] # v
      BY <1>1, <2>2 DEF AreChains, v
    <3> QED  BY <1>8, <2>2, <3>1, <3>2
  <2> QED  BY <1>8, <1>9, <2>1, <2>2
<1>11. ASSUME NEW q \in U16, NEW r \in U16, NEW l \in PointerKinds,
              NEW m \in PointerKinds, h[l][q] = h[m][r], h[l][q] \in Clusters
       PROVE  l = m /\ q = r
  <2>1. ASSUME NEW a \in U16, NEW b \in PointerKinds, g[b][a] = g["cell"][v],
               v \in Clusters, g[b][a] \in Clusters
        PROVE  b = "cell" /\ a = v
    BY <1>4, <2>1, FatNumbers DEF AreChains
  <2>2. v \in Clusters => g["cell"][v] # n
    BY <1>3, <1>4, FatNumbers
  <2> QED  BY <1>1, <1>3, <1>9, <1>11, <2>1, <2>2 DEF AreChains
\* Every cluster in use is in the chain of a file still.
<1> DEFINE U == UNION {Chain(h, f) : f \in FstIndices}
           S == (U \ {v}) \cup (IF n \in U /\ v \in Clusters THEN {v} ELSE {})
<1>12. /\ U \subseteq Clusters
       /\ \A f \in FstIndices : h["head"][f] \in Clusters => h["head"][f] \in U
       /\ \A c \in U : h["cell"][c] \in Clusters => h["cell"][c] \in U
  BY ChainIsClosed
<1> HIDE DEF U
<1>13. ASSUME NEW f \in FstIndices PROVE Chain(g, f) \subseteq S
  <2>1. S \in SUBSET Clusters
    BY <1>12
  <2>2. g["head"][f] \in Clusters => g["head"][f] \in S
    <3> SUFFICES ASSUME g["head"][f] \in Clusters PROVE g["head"][f] \in S
      OBVIOUS
    <3>0. f \in U16 /\ "head" \in PointerKinds /\ "head" # "cell"
      BY FatNumbers
    <3>1. CASE k = "head" /\ p = f
      BY <1>1, <1>7, <1>12, <3>1 DEF v
    <3>2. CASE ~(k = "head" /\ p = f)
      <4>1. h["head"][f] = g["head"][f]
        BY <1>7, <3>0, <3>2
      <4>2. g["head"][f] # v
        BY <1>1, <3>0, <3>2 DEF AreChains, v
      <4> QED  BY <1>12, <4>1, <4>2
    <3> QED  BY <3>1, <3>2
  <2>3. ASSUME NEW c \in S, g["cell"][c] \in Clusters PROVE g["cell"][c] \in S
    <3>0. c \in U16 /\ "cell" \in PointerKinds
      BY <2>1, FatNumbers
    <3>1. CASE c = v
      <4>1. n \in U /\ v \in Clusters
        BY <3>1
      <4>2. h["cell"][n] = g["cell"][v]
        BY <1>6, <4>1
      <4> QED  BY <1>4, <1>12, <2>3, <3>1, <4>1, <4>2
    <3>2. CASE c # v
      <4>1. c \in U /\ c # n
        BY <1>2, <2>3, <3>2
      <4>2. CASE k = "cell" /\ c = p
        BY <1>1, <1>7, <1>12, <2>3, <4>1, <4>2 DEF v
      <4>3. CASE ~(k = "cell" /\ c = p)
        <5>1. h["cell"][c] = g["cell"][c]
          BY <1>7, <3>0, <3>2, <4>1, <4>3
        <5>2. g["cell"][c] # v
          BY <1>1, <2>3, <3>0, <4>3 DEF AreChains, v
        <5> QED  BY <1>12, <2>3, <4>1, <5>1, <5>2
      <4> QED  BY <4>2, <4>3
    <3> QED  BY <3>1, <3>2
  <2> HIDE DEF S
  <2> QED  BY <2>1, <2>2, <2>3, ChainIsLeast
<1>14. Taken(g) \ {v} \subseteq U
  BY <1>13 DEF AreChains
<1>15. n \in U
  <2>1. CASE k = "head"
    BY <1>1, <1>7, <1>12, <2>1 DEF Splices
  <2>2. CASE k = "cell"
    BY <1>1, <1>5, <1>7, <1>12, <1>14, <2>2
  <2> QED  BY <1>1, <2>1, <2>2 DEF PointerKinds
<1>16. \A c \in Taken(h) : \E f \in FstIndices : c \in Chain(h, f)
  BY <1>8, <1>14, <1>15 DEF U
<1> QED  BY <1>10, <1>11, <1>16 DEF AreChains
=============================================================================
