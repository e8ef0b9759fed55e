-------------------------- MODULE RefinementProofs --------------------------
(***************************************************************************)
(* The driver implements Namespace, and answers like it: what its entries, *)
(* linked by index, mean as a tree of paths.  In a state whose FST is a    *)
(* tree with unique names in each directory (IsPathTree) every entry has   *)
(* one path, the lookup of a path finds the entry that has it, and what is *)
(* below an entry has the paths that its path is a prefix of.  From this,  *)
(* for each call: its code is the one that the tree of paths gives, what   *)
(* it returns is in that tree, and its edit of the pointers is the edit of *)
(* the paths.                                                              *)
(***************************************************************************)
EXTENDS HandleProofs, FsRefinement

-----------------------------------------------------------------------------
(* The path of an entry: the names on the way down from the root.          *)

IsPlacing(sb, P) ==
    /\ P[0] = <<>>
    /\ \A d \in FromRoot(Pointers(sb)) : \A i \in ChildrenOf(Pointers(sb), d) :
          P[i] = Append(P[d], sb.fst[i].name)

\* All that can be reached is reached from directories to their children.
LEMMA DownTheTree ==
    ASSUME NEW g, IsTree(g), NEW S, 0 \in S,
           \A d \in FromRoot(g) \cap S : ChildrenOf(g, d) \subseteq S
    PROVE  FromRoot(g) \subseteq S
<1> DEFINE T == {0} \cup UNION {ChildrenOf(g, d) : d \in FromRoot(g) \cap S}
<1>1. T \subseteq S
  OBVIOUS
<1>2. T \in SUBSET FstIndices
  BY RootInTree, ChildrenAreClosed
<1>3. ClosedIn(g, T)
  <2> SUFFICES ASSUME NEW p \in T, NEW k \in Kinds, g[k][p] \in FstIndices
               PROVE  g[k][p] \in T
    BY DEF ClosedIn
  <2>1. p \in FromRoot(g) /\ p \in S
    BY <1>1, RootInTree, ParentOutside
  <2>2. CASE k = "sub"
    <3>1. g[k][p] \in ChildrenOf(g, p)
      BY <2>2, ChildrenAreClosed
    <3> QED  BY <2>1, <3>1
  <2>3. CASE k = "sib"
    <3>1. p # 0
      BY <2>3, NilIsNoIndex DEF IsTree
    <3>2. PICK d \in FromRoot(g) \cap S : p \in ChildrenOf(g, d)
      BY <3>1
    <3>3. g[k][p] \in ChildrenOf(g, d)
      BY <2>3, <3>2, ChildrenAreClosed
    <3> QED  BY <3>3
  <2> QED  BY <2>2, <2>3 DEF Kinds
<1>4. FromRoot(g) \subseteq T
  BY <1>2, <1>3, TreeIsLeast
<1> QED  BY <1>1, <1>4

\* There is one such path.
LEMMA PlacingsAgree ==
    ASSUME NEW sb, IsFstTree(sb), NEW P, IsPlacing(sb, P), NEW Q, IsPlacing(sb, Q)
    PROVE  \A i \in FromRoot(Pointers(sb)) : P[i] = Q[i]
<1> DEFINE g == Pointers(sb)
           S == {i \in FromRoot(g) : P[i] = Q[i]}
<1>1. IsTree(g) /\ 0 \in S
  BY TreeFacts DEF IsPlacing
<1>2. ASSUME NEW d \in FromRoot(g) \cap S PROVE ChildrenOf(g, d) \subseteq S
  <2> SUFFICES ASSUME NEW i \in ChildrenOf(g, d) PROVE i \in S
    OBVIOUS
  <2>1. i \in FromRoot(g)
    BY <1>1, ParentOutside
  <2>2. P[i] = Append(P[d], sb.fst[i].name) /\ Q[i] = Append(Q[d], sb.fst[i].name)
    BY DEF IsPlacing
  <2> QED  BY <2>1, <2>2
<1> HIDE DEF S
<1>3. FromRoot(g) \subseteq S
  BY <1>1, <1>2, DownTheTree
<1> QED  BY <1>3 DEF S

Everything == Names \cup {"", "/"}

LEMMA PlacingType ==
    ASSUME NEW sb \in Superblock, IsFstTree(sb), NEW P, IsPlacing(sb, P)
    PROVE  \A i \in FromRoot(Pointers(sb)) :
              P[i] \in Seq(Everything) /\ (P[i] = <<>> <=> i = 0)
<1> DEFINE g == Pointers(sb)
           S == {i \in FromRoot(g) : P[i] \in Seq(Everything)
               /\ (P[i] = <<>> <=> i = 0)}
<1>0. P[0] = <<>> /\ <<>> \in Seq(Everything)
  BY DEF IsPlacing
<1>1. IsTree(g) /\ 0 \in S
  BY <1>0, TreeFacts
<1>2. ASSUME NEW d \in FromRoot(g) \cap S PROVE ChildrenOf(g, d) \subseteq S
  <2> SUFFICES ASSUME NEW i \in ChildrenOf(g, d) PROVE i \in S
    OBVIOUS
  <2>1. i \in FromRoot(g) /\ i # 0 /\ i \in FstIndices
    BY <1>1, ParentOutside, RootInTree
  <2>2. sb.fst[i].name \in Everything
    BY <2>1 DEF Superblock, FstEntry, Everything
  <2>3. P[i] = Append(P[d], sb.fst[i].name) /\ P[d] \in Seq(Everything)
    BY DEF IsPlacing
  <2>4. P[i] \in Seq(Everything) /\ P[i] # <<>>
    BY <2>2, <2>3
  <2> QED  BY <2>1, <2>4
<1> HIDE DEF S
<1>3. FromRoot(g) \subseteq S
  BY <1>1, <1>2, DownTheTree
<1> QED  BY <1>3 DEF S

\* What has children is a directory.
LEMMA ParentIsDirectory ==
    ASSUME NEW sb, NEW d \in FstIndices, NEW i \in ChildrenOf(Pointers(sb), d)
    PROVE  IsDirectory(sb.fst[d])
<1> SUFFICES ASSUME ~IsDirectory(sb.fst[d]) PROVE FALSE
  OBVIOUS
<1>1. Pointers(sb)["sub"][d] = NIL
  BY PointersOf
<1>2. {} \in SUBSET FstIndices /\ Pointers(sb)["sub"][d] \notin FstIndices
  BY <1>1, NilIsNoIndex
<1>3. ChildrenOf(Pointers(sb), d) \subseteq {}
  BY <1>2, ChildrenAreLeast
<1> QED  BY <1>3

LEMMA AppendFacts ==
    ASSUME NEW s \in Seq(Everything), NEW v \in Everything,
           NEW t \in Seq(Everything), NEW w \in Everything
    PROVE  /\ Len(s) \in Nat
           /\ Append(s, v) \in Seq(Everything) /\ Append(s, v) # <<>>
           /\ Len(Append(s, v)) = Len(s) + 1
           /\ Append(s, v) = Append(t, w) => s = t /\ v = w
BY AppendProperties, SMT

\* No two entries have the same path.
LEMMA PlacesDiffer ==
    ASSUME NEW sb \in Superblock, IsFstTree(sb), SiblingNamesUnique(sb),
           NEW P, IsPlacing(sb, P),
           NEW i \in FromRoot(Pointers(sb)), NEW j \in FromRoot(Pointers(sb)),
           P[i] = P[j]
    PROVE  i = j
<1> DEFINE g == Pointers(sb)
           S == {x \in FromRoot(g) : \A y \in FromRoot(g) : P[x] = P[y] => x = y}
<1>1. IsTree(g) /\ 0 \in FromRoot(g) /\ Live(sb) = FromRoot(g)
  BY TreeFacts
<1>2. 0 \in S
  BY <1>1, PlacingType
<1>3. ASSUME NEW d \in FromRoot(g) \cap S PROVE ChildrenOf(g, d) \subseteq S
  <2> SUFFICES ASSUME NEW x \in ChildrenOf(g, d), NEW y \in FromRoot(g),
                      P[x] = P[y]
               PROVE  x = y
    BY <1>1, ParentOutside
  <2>1. x \in FromRoot(g) /\ x # 0 /\ y # 0
    BY <1>1, ParentOutside, PlacingType
  <2>2. PICK e \in FromRoot(g) : y \in ChildrenOf(g, e)
    BY <1>1, <2>1, HasParent
  <2>3. /\ P[x] = Append(P[d], sb.fst[x].name)
        /\ P[y] = Append(P[e], sb.fst[y].name)
    BY <2>2 DEF IsPlacing
  <2>4. /\ P[d] \in Seq(Everything) /\ P[e] \in Seq(Everything)
        /\ sb.fst[x].name \in Everything /\ sb.fst[y].name \in Everything
    BY <2>1, PlacingType, RootInTree DEF Superblock, FstEntry, Everything
  <2>5. P[d] = P[e] /\ sb.fst[x].name = sb.fst[y].name
    <3>1. Append(P[d], sb.fst[x].name) = Append(P[e], sb.fst[y].name)
      BY <2>3
    <3>2. \A s, t \in Seq(Everything), v, w \in Everything :
             Append(s, v) = Append(t, w) => s = t /\ v = w
      BY AppendFacts
    <3> HIDE DEF g
    <3> QED  BY <2>4, <3>1, <3>2
  <2>6. d = e
    BY <2>5
  <2>7. /\ d \in LiveDirectories(sb) /\ Children(sb, d) = ChildrenOf(g, d)
    BY <1>1, TreeFacts, ParentIsDirectory DEF LiveDirectories
  <2> QED  BY <2>2, <2>5, <2>6, <2>7 DEF SiblingNamesUnique
<1> HIDE DEF S
<1>4. FromRoot(g) \subseteq S
  BY <1>1, <1>2, <1>3, DownTheTree
<1> QED  BY <1>4 DEF S

-----------------------------------------------------------------------------
(* Lookups.                                                                *)

\* Only the root has no name that a client could give.
EntriesNamed(sb) == \A i \in FromRoot(Pointers(sb)) :
    i # 0 => sb.fst[i].name \in Names

\* A tree of paths.
IsPathTree(sb) ==
    /\ sb \in Superblock /\ IsFstTree(sb) /\ SiblingNamesUnique(sb)
    /\ EntriesNamed(sb)

LEMMA PathTreeFacts ==
    ASSUME NEW sb, IsPathTree(sb)
    PROVE  LET g == Pointers(sb)
           IN  /\ IsTree(g) /\ IsDirectory(sb.fst[0]) /\ 0 \in FromRoot(g)
               /\ FromRoot(g) \subseteq FstIndices /\ Live(sb) = FromRoot(g)
               /\ \A i \in FromRoot(g) : /\ sb.fst[i].type \in {"file", "directory"}
                                         /\ i # 0 => sb.fst[i].name \in Names
               /\ \A d \in FromRoot(g) : \A i \in ChildrenOf(g, d) :
                     /\ i \in FromRoot(g) /\ i # 0 /\ IsDirectory(sb.fst[d])
                     /\ Children(sb, d) = ChildrenOf(g, d)
                     /\ \A j \in ChildrenOf(g, d) :
                           sb.fst[i].name = sb.fst[j].name => i = j
<1> DEFINE g == Pointers(sb)
<1>1. /\ IsTree(g) /\ IsDirectory(sb.fst[0]) /\ 0 \in FromRoot(g)
      /\ FromRoot(g) \subseteq FstIndices /\ Live(sb) = FromRoot(g)
  BY TreeFacts DEF IsPathTree, IsFstTree
<1>2. ASSUME NEW i \in FromRoot(g)
      PROVE  /\ sb.fst[i].type \in {"file", "directory"}
             /\ i # 0 => sb.fst[i].name \in Names
  <2>1. sb.fst[i].type # "none" /\ i \in FstIndices
    BY <1>1 DEF IsPathTree, IsFstTree
  <2>2. sb.fst[i].type \in EntryType
    BY <2>1 DEF IsPathTree, Superblock, FstEntry
  <2> QED  BY <2>1, <2>2 DEF EntryType, IsPathTree, EntriesNamed
<1>3. ASSUME NEW d \in FromRoot(g), NEW i \in ChildrenOf(g, d)
      PROVE  /\ i \in FromRoot(g) /\ i # 0 /\ IsDirectory(sb.fst[d])
             /\ Children(sb, d) = ChildrenOf(g, d)
             /\ \A j \in ChildrenOf(g, d) : sb.fst[i].name = sb.fst[j].name => i = j
  <2>1. i \in FromRoot(g) /\ i # 0
    BY <1>1, ParentOutside
  <2>2. IsDirectory(sb.fst[d])
    BY <1>1, ParentIsDirectory
  <2>3. Children(sb, d) = ChildrenOf(g, d)
    BY <2>2, TreeFacts DEF IsPathTree
  <2>4. d \in LiveDirectories(sb)
    BY <1>1, <2>2 DEF LiveDirectories
  <2> QED  BY <2>1, <2>2, <2>3, <2>4 DEF IsPathTree, SiblingNamesUnique
<1> HIDE DEF g
<1> QED  BY <1>1, <1>2, <1>3 DEF g

LEMMA SeqOfNames ==
    /\ <<>> \in Seq(Names) /\ Seq(Names) \subseteq Seq(Components)
    /\ Seq(Names) \subseteq Seq(Everything)
    /\ \A s \in Seq(Names), v \in Names :
          /\ Append(s, v) \in Seq(Names) /\ Len(Append(s, v)) = Len(s) + 1
          /\ Append(s, v)[Len(s) + 1] = v /\ Len(s) \in Nat
          /\ SubSeq(Append(s, v), 1, Len(s)) = s
<1>1. Names \subseteq Components /\ Names \subseteq Everything
  BY DEF Components, Everything
<1>2. \A s \in Seq(Names), v \in Names :
          /\ Append(s, v) \in Seq(Names) /\ Len(Append(s, v)) = Len(s) + 1
          /\ Append(s, v)[Len(s) + 1] = v /\ Len(s) \in Nat
          /\ SubSeq(Append(s, v), 1, Len(s)) = s
  OBVIOUS
<1>3. /\ <<>> \in Seq(Names) /\ Seq(Names) \subseteq Seq(Components)
      /\ Seq(Names) \subseteq Seq(Everything)
  BY <1>1
<1> QED  BY <1>2, <1>3

LEMMA PlacesAreNames ==
    ASSUME NEW sb, IsPathTree(sb), NEW P, IsPlacing(sb, P)
    PROVE  \A i \in FromRoot(Pointers(sb)) : P[i] \in Seq(Names)
<1> DEFINE g == Pointers(sb)
           S == {i \in FromRoot(g) : P[i] \in Seq(Names)}
<1>1. IsTree(g) /\ 0 \in FromRoot(g)
  BY PathTreeFacts
<1>2. 0 \in S
  BY <1>1, SeqOfNames DEF IsPlacing
<1>3. ASSUME NEW d \in FromRoot(g) \cap S PROVE ChildrenOf(g, d) \subseteq S
  <2> SUFFICES ASSUME NEW i \in ChildrenOf(g, d) PROVE i \in S
    OBVIOUS
  <2>1. i \in FromRoot(g) /\ i # 0 /\ sb.fst[i].name \in Names
    BY PathTreeFacts
  <2>2. P[i] = Append(P[d], sb.fst[i].name) /\ P[d] \in Seq(Names)
    BY DEF IsPlacing
  <2>3. P[i] \in Seq(Names)
    BY <2>1, <2>2, SeqOfNames
  <2> QED  BY <2>1, <2>3
<1> HIDE DEF S
<1>4. FromRoot(g) \subseteq S
  BY <1>1, <1>2, <1>3, DownTheTree
<1> QED  BY <1>4 DEF S

\* GetFstIndex finds an entry by its path.
LEMMA LookupFindsPlace ==
    ASSUME NEW sb, IsPathTree(sb), NEW P, IsPlacing(sb, P)
    PROVE  \A i \in FromRoot(Pointers(sb)) : GetFstIndex(sb, P[i]) = i
<1> DEFINE g == Pointers(sb)
           S == {i \in FromRoot(g) : GetFstIndex(sb, P[i]) = i}
<1>1. IsTree(g) /\ 0 \in FromRoot(g) /\ FromRoot(g) \subseteq FstIndices
  BY PathTreeFacts
<1>2. GetFstIndex(sb, P[0]) = 0
  <2>1. P[0] = <<>> /\ <<>> \in Seq(Components) /\ Len(<<>>) = 0
    BY DEF IsPlacing
  <2>2. At(sb, <<>>, 0) = 0 /\ At(sb, <<>>, 0) = GetFstIndex(sb, <<>>)
    BY <2>1, PathLookup
  <2> QED  BY <2>1, <2>2
<1>3. ASSUME NEW d \in FromRoot(g) \cap S PROVE ChildrenOf(g, d) \subseteq S
  <2> SUFFICES ASSUME NEW i \in ChildrenOf(g, d) PROVE GetFstIndex(sb, P[i]) = i
    BY PathTreeFacts
  <2> DEFINE name == sb.fst[i].name
             p == P[i]
  <2>1. /\ i \in FromRoot(g) /\ i # 0 /\ name \in Names /\ d # NIL /\ i # NIL
        /\ Children(sb, d) = ChildrenOf(g, d)
        /\ \A k, j \in ChildrenOf(g, d) : sb.fst[k].name = sb.fst[j].name => k = j
    BY <1>1, PathTreeFacts, NilIsNoIndex
  <2>2. p = Append(P[d], name) /\ P[d] \in Seq(Names) /\ GetFstIndex(sb, P[d]) = d
    BY PlacesAreNames DEF IsPlacing
  <2>3. /\ p \in Seq(Components) /\ Len(p) \in 1..Len(p) /\ p[Len(p)] = name
        /\ SubSeq(p, 1, Len(p) - 1) = P[d]
    <3> DEFINE s == P[d]
    <3>1. /\ p \in Seq(Names) /\ Len(p) = Len(s) + 1 /\ p[Len(s) + 1] = name
          /\ Len(s) \in Nat /\ SubSeq(p, 1, Len(s)) = s
      BY <2>1, <2>2, SeqOfNames
    <3> HIDE DEF s, p, name
    <3>2. Len(p) - 1 = Len(s) /\ Len(p) \in 1..Len(p)
      BY <3>1
    <3>3. p \in Seq(Components)
      BY <3>1, SeqOfNames
    <3> QED  BY <3>1, <3>2, <3>3 DEF s
  <2>4. At(sb, p, Len(p) - 1) = d
    BY <2>2, <2>3 DEF At
  <2> HIDE DEF p
  <2>5. /\ At(sb, p, Len(p)) = ChildIndex(sb, d, name)
        /\ At(sb, p, Len(p)) = GetFstIndex(sb, p)
    BY <2>1, <2>3, <2>4, PathLookup
  <2>6. name \notin LongNames
    BY <2>1, SffsAssumption
  <2>7. ChildIndex(sb, d, name) # NIL
    BY <2>1, <2>6, NoSuchChild
  <2>8. ChildIndex(sb, d, name) = i
    BY <2>1, <2>7, ChildFound
  <2> QED  BY <2>5, <2>8 DEF p
<1> HIDE DEF S
<1>4. 0 \in S
  BY <1>1, <1>2 DEF S
<1>5. FromRoot(g) \subseteq S
  BY <1>1, <1>3, <1>4, DownTheTree
<1> QED  BY <1>5 DEF S

\* Where a walk gets to is the entry of that path.
LEMMA LookupIsPlace ==
    ASSUME NEW sb, IsPathTree(sb), NEW P, IsPlacing(sb, P),
           NEW path \in Seq(Components), AvoidsFiles(sb, path),
           GetFstIndex(sb, path) # NIL
    PROVE  /\ GetFstIndex(sb, path) \in FromRoot(Pointers(sb))
           /\ P[GetFstIndex(sb, path)] = path
<1> DEFINE bad == {n \in 0..Len(path) :
                      At(sb, path, n) # NIL /\
                      P[At(sb, path, n)] # SubSeq(path, 1, n)}
<1>0. Len(path) \in Nat /\ SubSeq(path, 1, Len(path)) = path
          /\ SubSeq(path, 1, 0) = <<>>
  OBVIOUS
<1>1. bad = {}
  <2> SUFFICES ASSUME bad # {} PROVE FALSE
    OBVIOUS
  <2>1. bad \in SUBSET Nat /\ bad \subseteq 0..Len(path)
    BY <1>0
  <2>2. PICK n \in bad : \A j \in bad : n <= j
    <3> HIDE DEF bad
    <3> QED  BY <2>1, LeastIsMember
  <2>3. n \in 0..Len(path) /\ n - 1 \notin bad
    <3> HIDE DEF bad
    <3> QED  BY <1>0, <2>1, <2>2
  <2>4. n # 0
    <3>1. At(sb, path, 0) = 0 /\ P[0] = <<>>
      BY PathLookup DEF IsPlacing
    <3> QED  BY <1>0, <2>2, <3>1
  <2>5. n \in 1..Len(path) /\ n - 1 \in 0..Len(path)
    BY <1>0, <2>3, <2>4
  <2> DEFINE d == At(sb, path, n - 1)
             i == At(sb, path, n)
  <2>6. i # NIL /\ P[i] # SubSeq(path, 1, n)
    BY <2>2
  <2>7. /\ d # NIL /\ d \in FromRoot(Pointers(sb))
        /\ i \in ChildrenOf(Pointers(sb), d) /\ sb.fst[i].name = path[n]
    BY <2>5, <2>6, WalkStep DEF IsPathTree
  <2>8. P[d] = SubSeq(path, 1, n - 1)
    BY <2>3, <2>5, <2>7
  <2>9. P[i] = Append(P[d], path[n])
    BY <2>7 DEF IsPlacing
  <2>10. SubSeq(path, 1, n) = Append(SubSeq(path, 1, n - 1), path[n])
    <3> HIDE DEF bad
    <3> QED  BY <2>5
  <2> QED  BY <2>6, <2>8, <2>9, <2>10
<1>2. At(sb, path, Len(path)) = GetFstIndex(sb, path) /\ Len(path) \in 0..Len(path)
  BY <1>0, PathLookup
<1>3. P[At(sb, path, Len(path))] = path
  BY <1>0, <1>1, <1>2
<1>4. At(sb, path, Len(path)) \in FromRoot(Pointers(sb))
  BY <1>2, WalkStaysInTree DEF IsPathTree
<1> QED  BY <1>2, <1>3, <1>4

-----------------------------------------------------------------------------
(* The entries that the refinement mapping places.                         *)

Places == [dir : Seq(Everything), index : FstIndices]
RootPlace == [dir |-> <<>>, index |-> 0]

\* Where the pointer of kind k leads.
Led(sb, x, k) ==
    [dir |-> IF k = "sib" THEN x.dir ELSE PathTo(sb, x),
     index |-> Pointers(sb)[k][x.index]]

LEMMA FollowingIsLed ==
    ASSUME NEW sb, NEW x, x.index \in FstIndices
    PROVE  \A y : y \in Following(sb, x) <=>
              \E k \in Kinds : y = Led(sb, x, k) /\ y.index \in FstIndices
<1> DEFINE g == Pointers(sb)
           i == x.index
           sub == IF IsDirectory(sb.fst[i]) THEN sb.fst[i].sub ELSE NIL
<1>1. g["sib"][i] = sb.fst[i].sib /\ g["sub"][i] = sub
  BY PointersOf
<1>2. Led(sb, x, "sib") = [dir |-> x.dir, index |-> sb.fst[i].sib]
  BY <1>1 DEF Led
<1>3. Led(sb, x, "sub") = [dir |-> PathTo(sb, x), index |-> sub]
  BY <1>1 DEF Led
<1>4. Following(sb, x) =
          {y \in {Led(sb, x, "sib"), Led(sb, x, "sub")} : y.index \in FstIndices}
  BY <1>2, <1>3, Zenon DEF Following
<1> QED  BY <1>4 DEF Kinds

LEMMA LedType ==
    ASSUME NEW sb \in Superblock, NEW x \in Places, NEW k \in Kinds,
           Pointers(sb)[k][x.index] \in FstIndices
    PROVE  Led(sb, x, k) \in Places /\ PathTo(sb, x) \in Seq(Everything)
<1>1. x.dir \in Seq(Everything) /\ x.index \in FstIndices
  BY DEF Places
<1>2. sb.fst[x.index].name \in Everything
  BY <1>1 DEF Superblock, FstEntry, Everything
<1>3. PathTo(sb, x) \in Seq(Everything)
  BY <1>1, <1>2 DEF PathTo
<1> QED  BY <1>1, <1>3 DEF Led, Places

\* The rounds of the search for entries.
Further(sb, S) == UNION {{x} \cup Following(sb, x) : x \in S}
Rounds(sb, W) ==
    W = [n \in 0..FstSize |-> IF n = 0 THEN {RootPlace} ELSE Further(sb, W[n - 1])]

LEMMA RoundsExist ==
    ASSUME NEW sb \in Superblock
    PROVE  \E W : Rounds(sb, W)
<1> DEFINE values == SUBSET Places
           step   == [S \in values |-> [n \in Nat |-> Further(sb, S)]]
           start  == {RootPlace}
<1>1. FstSize \in Nat
  BY SffsAssumption
<1>2. start \in values
  BY RootInTree DEF RootPlace, Places
<1>3. \A S \in values : Further(sb, S) \in values
  <2> SUFFICES ASSUME NEW S \in values, NEW x \in S, NEW y \in Following(sb, x)
               PROVE  y \in Places
    BY DEF Further
  <2>1. x \in Places /\ x.index \in FstIndices
    BY DEF Places
  <2>2. PICK k \in Kinds : y = Led(sb, x, k) /\ y.index \in FstIndices
    BY <2>1, FollowingIsLed
  <2>3. Pointers(sb)[k][x.index] \in FstIndices
    BY <2>2 DEF Led
  <2> QED  BY <2>1, <2>2, <2>3, LedType
<1>4. step \in [values -> [Nat -> values]]
  <2> HIDE DEF values
  <2> QED  BY <1>3
<1>5. PICK f \in [Nat -> values] : Loop(f, start, step, FstSize)
  <2> HIDE DEF values, step, start
  <2> QED  BY <1>1, <1>2, <1>4, LoopExists
<1> DEFINE W == [n \in 0..FstSize |-> f[n]]
<1>6. \A n \in 0..FstSize :
         W[n] = IF n = 0 THEN {RootPlace} ELSE Further(sb, W[n - 1])
  <2> SUFFICES ASSUME NEW n \in 0..FstSize
               PROVE  W[n] = IF n = 0 THEN {RootPlace} ELSE Further(sb, W[n - 1])
    OBVIOUS
  <2>1. CASE n = 0
    BY <1>1, <1>5, <2>1 DEF Loop
  <2>2. CASE n # 0
    <3>1. n \in 1..FstSize /\ n - 1 \in 0..FstSize /\ n \in Nat /\ n - 1 \in Nat
      BY <1>1, <2>2
    <3>2. f[n] = step[f[n - 1]][n]
      BY <1>5, <3>1 DEF Loop
    <3>3. f[n - 1] \in values
      <4> HIDE DEF values
      <4> QED  BY <3>1
    <3>4. step[f[n - 1]][n] = Further(sb, f[n - 1])
      <4> HIDE DEF values
      <4> QED  BY <3>1, <3>3
    <3>5. W[n] = f[n] /\ W[n - 1] = f[n - 1]
      BY <3>1
    <3> HIDE DEF step, values, W
    <3> QED  BY <2>2, <3>2, <3>4, <3>5
  <2> QED  BY <2>1, <2>2
<1>7. DOMAIN W = 0..FstSize /\ W = [n \in DOMAIN W |-> W[n]]
  OBVIOUS
<1>8. Rounds(sb, W)
  <2> HIDE DEF W
  <2> QED  BY <1>6, <1>7 DEF Rounds
<1> QED  BY <1>8

LEMMA PlacedInRounds ==
    ASSUME NEW sb \in Superblock
    PROVE  \E W : Rounds(sb, W) /\ Placed(sb) = W[FstSize]
<1> DEFINE W == CHOOSE w : Rounds(sb, w)
<1>1. Rounds(sb, W)
  BY RoundsExist
<1>2. Placed(sb) = W[FstSize]
  BY DEF Placed, Rounds, Further, RootPlace
<1> QED  BY <1>1, <1>2

\* What a round finds, it finds in the tree, from what the round before found.
LEMMA RoundsFind ==
    ASSUME NEW sb \in Superblock, IsFstTree(sb), NEW W, Rounds(sb, W)
    PROVE  /\ W[0] = {RootPlace} /\ FstSize \in Nat
           /\ \A n \in 1..FstSize : W[n] = Further(sb, W[n - 1])
           /\ \A n \in 0..FstSize : \A x \in W[n] :
                 x \in Places /\ x.index \in FromRoot(Pointers(sb))
<1> DEFINE g == Pointers(sb)
           bad == {n \in 0..FstSize :
                      ~\A x \in W[n] : x \in Places /\ x.index \in FromRoot(g)}
<1>1. FstSize \in Nat
  BY SffsAssumption
<1>2. W[0] = {RootPlace} /\ \A n \in 1..FstSize : W[n] = Further(sb, W[n - 1])
  <2>1. \A n \in 0..FstSize :
           W[n] = IF n = 0 THEN {RootPlace} ELSE Further(sb, W[n - 1])
    BY Zenon DEF Rounds
  <2>2. 0 \in 0..FstSize /\ \A n \in 1..FstSize : n \in 0..FstSize /\ n # 0
    BY <1>1
  <2> QED  BY <2>1, <2>2
<1>3. bad = {}
  <2> SUFFICES ASSUME bad # {} PROVE FALSE
    OBVIOUS
  <2>1. bad \in SUBSET Nat /\ bad \subseteq 0..FstSize
    BY <1>1
  <2>2. PICK n \in bad : \A j \in bad : n <= j
    <3> HIDE DEF bad
    <3> QED  BY <2>1, LeastIsMember
  <2>3. n \in 0..FstSize /\ n - 1 \notin bad
    <3> HIDE DEF bad
    <3> QED  BY <1>1, <2>1, <2>2
  <2>4. n # 0
    <3>1. RootPlace \in Places /\ RootPlace.index \in FromRoot(g)
      BY TreeFacts, RootInTree DEF RootPlace, Places
    <3> QED  BY <1>2, <2>2, <3>1
  <2>5. n \in 1..FstSize /\ n - 1 \in 0..FstSize
    BY <1>1, <2>3, <2>4
  <2>6. PICK y \in W[n] : ~(y \in Places /\ y.index \in FromRoot(g))
    BY <2>2
  <2>7. PICK x \in W[n - 1] : y = x \/ y \in Following(sb, x)
    BY <1>2, <2>5, <2>6 DEF Further
  <2>8. x \in Places /\ x.index \in FromRoot(g)
    BY <2>3, <2>5
  <2>9. PICK k \in Kinds : y = Led(sb, x, k) /\ y.index \in FstIndices
    BY <2>6, <2>7, <2>8, FollowingIsLed DEF Places
  <2>10. y.index = g[k][x.index]
    BY <2>9 DEF Led
  <2>11. y \in Places
    BY <2>8, <2>9, <2>10, LedType
  <2>12. y.index \in FromRoot(g)
    BY <2>8, <2>9, <2>10, TreeIsClosed, TreeFacts DEF ClosedIn, IsTree
  <2> QED  BY <2>6, <2>11, <2>12
<1> QED  BY <1>1, <1>2, <1>3

\* It finds one way to every entry.
LEMMA RoundsPlaceOnce ==
    ASSUME NEW sb \in Superblock, IsFstTree(sb), NEW W, Rounds(sb, W)
    PROVE  \A n \in 0..FstSize :
              /\ RootPlace \in W[n]
              /\ \A x \in W[n] : x = RootPlace \/
                    \E z \in W[n], k \in Kinds :
                        /\ x = Led(sb, z, k) /\ x.index \in FstIndices
                        /\ z \in W[n - 1]
              /\ \A x, y \in W[n] : x.index = y.index => x = y
<1> DEFINE g == Pointers(sb)
           OK(n) ==
              /\ RootPlace \in W[n]
              /\ \A x \in W[n] : x = RootPlace \/
                    \E z \in W[n], k \in Kinds :
                        /\ x = Led(sb, z, k) /\ x.index \in FstIndices
                        /\ z \in W[n - 1]
              /\ \A x, y \in W[n] : x.index = y.index => x = y
           bad == {n \in 0..FstSize : ~OK(n)}
<1>1. FstSize \in Nat
  BY RoundsFind
<1>2. bad = {}
  <2> SUFFICES ASSUME bad # {} PROVE FALSE
    OBVIOUS
  <2>1. bad \in SUBSET Nat /\ bad \subseteq 0..FstSize
    <3> HIDE DEF OK
    <3> QED  BY <1>1
  <2>2. PICK n \in bad : \A j \in bad : n <= j
    <3> HIDE DEF bad
    <3> QED  BY <2>1, LeastIsMember
  <2>3. n \in 0..FstSize /\ n - 1 \notin bad
    <3> HIDE DEF bad
    <3> QED  BY <1>1, <2>1, <2>2
  <2>4. n # 0
    <3>1. OK(0)
      BY RoundsFind
    <3> QED  BY <2>2, <3>1
  <2>5. n \in 1..FstSize /\ n - 1 \in 0..FstSize
    BY <1>1, <2>3, <2>4
  <2>6. OK(n - 1)
    <3> HIDE DEF OK
    <3> QED  BY <2>3, <2>5
  <2>7. W[n] = Further(sb, W[n - 1])
    BY <2>5, RoundsFind
  <2>8. W[n - 1] \subseteq W[n]
    BY <2>7 DEF Further
  <2>9. \A x \in W[n] : x = RootPlace \/
           \E z \in W[n - 1], k \in Kinds :
               x = Led(sb, z, k) /\ x.index \in FstIndices
    <3> SUFFICES ASSUME NEW x \in W[n], x # RootPlace
                 PROVE  \E z \in W[n - 1], k \in Kinds :
                            x = Led(sb, z, k) /\ x.index \in FstIndices
      OBVIOUS
    <3>1. PICK z \in W[n - 1] : x = z \/ x \in Following(sb, z)
      BY <2>7 DEF Further
    <3>2. CASE x = z
      BY <2>6, <3>2
    <3>3. CASE x \in Following(sb, z)
      <4>1. z.index \in FstIndices
        BY <2>5, RoundsFind DEF Places
      <4> QED  BY <3>3, <4>1, FollowingIsLed
    <3> QED  BY <3>1, <3>2, <3>3
  <2>10. ASSUME NEW x \in W[n], NEW y \in W[n], x.index = y.index PROVE x = y
    <3>1. CASE x = RootPlace \/ y = RootPlace
      <4>1. ASSUME NEW v \in W[n], v.index = 0 PROVE v = RootPlace
        <5> SUFFICES ASSUME v # RootPlace PROVE FALSE
          OBVIOUS
        <5>1. PICK z \in W[n - 1], k \in Kinds : v = Led(sb, z, k)
          BY <2>9
        <5>2. g[k][z.index] = 0 /\ z.index \in FromRoot(g)
          BY <2>5, <4>1, <5>1, RoundsFind DEF Led
        <5> QED  BY <5>2, TreeFacts DEF IsTree
      <4> QED  BY <2>10, <3>1, <4>1 DEF RootPlace
    <3>2. CASE x # RootPlace /\ y # RootPlace
      <4>1. PICK z \in W[n - 1], k \in Kinds :
               x = Led(sb, z, k) /\ x.index \in FstIndices
        BY <2>9, <3>2
      <4>2. PICK v \in W[n - 1], l \in Kinds :
               y = Led(sb, v, l) /\ y.index \in FstIndices
        BY <2>9, <3>2
      <4>3. /\ g[k][z.index] = g[l][v.index] /\ g[k][z.index] \in FstIndices
            /\ z.index \in FromRoot(g) /\ v.index \in FromRoot(g)
        BY <2>5, <2>10, <4>1, <4>2, RoundsFind DEF Led
      <4>4. k = l /\ z.index = v.index
        BY <4>3, TreeFacts, NilIsNoIndex DEF IsTree
      <4> QED  BY <2>6, <4>1, <4>2, <4>4
    <3> QED  BY <3>1, <3>2
  <2>11. OK(n)
    BY <2>6, <2>8, <2>9, <2>10
  <2> QED  BY <2>2, <2>11
<1> QED  BY <1>2

\* A round that finds nothing new has found everything, and not all of the rounds
\* can find something new.
LEMMA RoundsFindAll ==
    ASSUME NEW sb \in Superblock, IsFstTree(sb), NEW W, Rounds(sb, W)
    PROVE  \A i \in FromRoot(Pointers(sb)) : \E x \in W[FstSize] : x.index = i
<1> DEFINE g == Pointers(sb)
           I == [n \in 0..FstSize |-> {x.index : x \in W[n]}]
           bad == {n \in 0..FstSize :
                      ~(ClosedIn(g, I[n]) \/ Cardinality(I[n]) >= n + 1)}
<1>1. FstSize \in Nat /\ W[0] = {RootPlace}
  BY RoundsFind
<1>2. IsFiniteSet(FstIndices) /\ Cardinality(FstIndices) = FstSize
  <2>1. FstIndices = 0..(FstSize - 1) /\ 0 \in Int /\ FstSize - 1 \in Int
    BY <1>1 DEF FstIndices
  <2>2. IsFiniteSet(FstIndices)
        /\ Cardinality(FstIndices) = IF 0 > FstSize - 1 THEN 0
                                     ELSE FstSize - 1 - 0 + 1
    BY <2>1, FS_Interval, Zenon
  <2> QED  BY <1>1, <2>2, SffsAssumption
<1>3. ASSUME NEW n \in 0..FstSize
      PROVE  /\ I[n] \subseteq FstIndices /\ IsFiniteSet(I[n])
             /\ Cardinality(I[n]) \in Nat /\ Cardinality(I[n]) <= FstSize
  <2>1. I[n] \subseteq FstIndices
    BY RoundsFind DEF Places
  <2> HIDE DEF I
  <2>2. IsFiniteSet(I[n]) /\ Cardinality(I[n]) <= Cardinality(FstIndices)
    BY <1>2, <2>1, FS_Subset
  <2> QED  BY <1>2, <2>1, <2>2, FS_CardinalityType
<1>4. bad = {}
  <2> SUFFICES ASSUME bad # {} PROVE FALSE
    OBVIOUS
  <2>1. bad \in SUBSET Nat /\ bad \subseteq 0..FstSize
    <3> HIDE DEF I
    <3> QED  BY <1>1
  <2>2. PICK n \in bad : \A j \in bad : n <= j
    <3> HIDE DEF bad
    <3> QED  BY <2>1, LeastIsMember
  <2>3. n \in 0..FstSize /\ n - 1 \notin bad
    <3> HIDE DEF bad
    <3> QED  BY <1>1, <2>1, <2>2
  <2>4. n # 0
    <3>1. I[0] = {0}
      <4>1. 0 \in 0..FstSize /\ RootPlace.index = 0
        BY <1>1 DEF RootPlace
      <4>2. I[0] = {x.index : x \in {RootPlace}}
        BY <1>1, <4>1
      <4> QED  BY <4>1, <4>2
    <3>2. Cardinality(I[0]) = 1
      BY <3>1, FS_Singleton
    <3> HIDE DEF I
    <3> QED  BY <2>2, <3>2
  <2>5. n \in 1..FstSize /\ n - 1 \in 0..FstSize /\ n - 1 + 1 = n
    BY <1>1, <2>3, <2>4
  <2>6. ClosedIn(g, I[n - 1]) \/ Cardinality(I[n - 1]) >= n
    <3> HIDE DEF I
    <3> QED  BY <2>3, <2>5
  <2>7. ~ClosedIn(g, I[n]) /\ ~(Cardinality(I[n]) >= n + 1)
    <3> HIDE DEF I
    <3> QED  BY <2>2
  <2>8. W[n] = Further(sb, W[n - 1])
    BY <2>5, RoundsFind
  <2>9. I[n - 1] \subseteq I[n]
    BY <2>5, <2>8 DEF Further
  <2>10. CASE ClosedIn(g, I[n - 1])
    <3>1. ASSUME NEW x \in W[n] PROVE x.index \in I[n - 1]
      <4>1. PICK z \in W[n - 1] : x = z \/ x \in Following(sb, z)
        BY <2>8 DEF Further
      <4>2. z.index \in I[n - 1] /\ z.index \in FstIndices
        BY <2>5, RoundsFind DEF Places
      <4>3. CASE x \in Following(sb, z)
        <5>1. PICK k \in Kinds : x = Led(sb, z, k) /\ x.index \in FstIndices
          BY <4>2, <4>3, FollowingIsLed
        <5>2. x.index = g[k][z.index]
          BY <5>1 DEF Led
        <5> HIDE DEF I
        <5> QED  BY <2>10, <4>2, <5>1, <5>2 DEF ClosedIn
      <4> QED  BY <4>1, <4>2, <4>3
    <3>2. I[n] = I[n - 1]
      BY <2>5, <2>9, <3>1
    <3> HIDE DEF I
    <3> QED  BY <2>7, <2>10, <3>2
  <2>11. CASE ~ClosedIn(g, I[n - 1])
    <3>1. PICK p \in I[n - 1], k \in Kinds :
             g[k][p] \in FstIndices /\ g[k][p] \notin I[n - 1]
      <4> HIDE DEF I
      <4> QED  BY <2>11 DEF ClosedIn
    <3>2. PICK z \in W[n - 1] : z.index = p
      BY <2>5, <3>1
    <3>3. p \in FstIndices
      BY <1>3, <2>5, <3>1
    <3>4. Led(sb, z, k).index = g[k][p]
      BY <3>2 DEF Led
    <3>5. Led(sb, z, k) \in W[n]
      BY <2>8, <3>1, <3>2, <3>3, <3>4, FollowingIsLed DEF Further
    <3>6. g[k][p] \in I[n]
      BY <2>5, <3>4, <3>5
    <3> HIDE DEF I
    <3>7. /\ Cardinality(I[n - 1]) <= Cardinality(I[n])
          /\ Cardinality(I[n - 1]) # Cardinality(I[n])
      <4>1. I[n - 1] \in SUBSET I[n] /\ I[n - 1] # I[n]
        BY <2>9, <3>1, <3>6
      <4>2. IsFiniteSet(I[n])
        BY <1>3, <2>5
      <4> QED  BY <4>1, <4>2, FS_Subset, Zenon
    <3> QED  BY <1>3, <2>5, <2>6, <2>7, <2>11, <3>7
  <2> QED  BY <2>10, <2>11
<1>5. FstSize \in 0..FstSize
  BY <1>1
<1>6. ClosedIn(g, I[FstSize])
  <2> HIDE DEF I
  <2>1. ClosedIn(g, I[FstSize]) \/ Cardinality(I[FstSize]) >= FstSize + 1
    BY <1>4, <1>5
  <2> QED  BY <1>1, <1>3, <1>5, <2>1
<1>7. 0 \in I[FstSize]
  <2>1. RootPlace \in W[FstSize]
    BY <1>5, RoundsPlaceOnce
  <2> QED  BY <1>5, <2>1 DEF RootPlace
<1>8. FromRoot(g) \subseteq I[FstSize]
  <2> HIDE DEF I
  <2> QED  BY <1>3, <1>5, <1>6, <1>7, TreeIsLeast
<1> QED  BY <1>5, <1>8

\* The path that the refinement mapping gives an entry.
PlaceOf(sb, i) == PathTo(sb, CHOOSE x \in Placed(sb) : x.index = i)

LEMMA PlacedOnce ==
    ASSUME NEW sb \in Superblock, IsFstTree(sb)
    PROVE  /\ RootPlace \in Placed(sb)
           /\ \A x \in Placed(sb) :
                 x \in Places /\ x.index \in FromRoot(Pointers(sb))
           /\ \A i \in FromRoot(Pointers(sb)) : \E x \in Placed(sb) : x.index = i
           /\ \A x, y \in Placed(sb) : x.index = y.index => x = y
           /\ \A x \in Placed(sb) : x = RootPlace \/
                 \E z \in Placed(sb), k \in Kinds :
                     x = Led(sb, z, k) /\ x.index \in FstIndices
<1>1. PICK W : Rounds(sb, W) /\ Placed(sb) = W[FstSize]
  BY PlacedInRounds
<1>2. FstSize \in 0..FstSize
  BY SffsAssumption
<1>3. /\ RootPlace \in Placed(sb)
      /\ \A x, y \in Placed(sb) : x.index = y.index => x = y
  BY <1>1, <1>2, RoundsPlaceOnce
<1>4. \A x \in Placed(sb) : x = RootPlace \/
         \E z \in Placed(sb), k \in Kinds :
             x = Led(sb, z, k) /\ x.index \in FstIndices
  BY <1>1, <1>2, RoundsPlaceOnce
<1>5. \A x \in Placed(sb) : x \in Places /\ x.index \in FromRoot(Pointers(sb))
  BY <1>1, <1>2, RoundsFind
<1> QED  BY <1>1, <1>3, <1>4, <1>5, RoundsFindAll

LEMMA PlaceOfPlaced ==
    ASSUME NEW sb \in Superblock, IsFstTree(sb), NEW x \in Placed(sb)
    PROVE  PlaceOf(sb, x.index) = PathTo(sb, x)
BY PlacedOnce DEF PlaceOf

\* The pointers of an entry lead on.
LEMMA PlacedLeadsOn ==
    ASSUME NEW sb \in Superblock, IsFstTree(sb), NEW z \in Placed(sb),
           NEW k \in Kinds,
           NEW x \in Placed(sb), x.index = Pointers(sb)[k][z.index]
    PROVE  x.dir = IF k = "sib" THEN z.dir ELSE PathTo(sb, z)
<1> DEFINE g == Pointers(sb)
<1>1. z.index \in FromRoot(g) /\ x.index \in FromRoot(g) /\ IsTree(g)
      /\ x.index \in FstIndices
  BY PlacedOnce, TreeFacts, RootInTree
<1>2. x # RootPlace
  BY <1>1 DEF IsTree, RootPlace
<1>3. PICK y \in Placed(sb), l \in Kinds : x = Led(sb, y, l)
  BY <1>2, PlacedOnce
<1>4. g[l][y.index] = g[k][z.index] /\ y.index \in FromRoot(g)
  BY <1>3, PlacedOnce DEF Led
<1>5. l = k /\ y.index = z.index
  BY <1>1, <1>4, NilIsNoIndex DEF IsTree
<1>6. y = z
  BY <1>5, PlacedOnce
<1> QED  BY <1>3, <1>5, <1>6 DEF Led

\* These paths are the names on the way down from the root.
LEMMA PlaceOfIsPlacing ==
    ASSUME NEW sb \in Superblock, IsFstTree(sb)
    PROVE  IsPlacing(sb, [i \in FromRoot(Pointers(sb)) |-> PlaceOf(sb, i)])
<1> DEFINE g == Pointers(sb)
           P == [i \in FromRoot(g) |-> PlaceOf(sb, i)]
<1>1. IsTree(g) /\ 0 \in FromRoot(g) /\ FromRoot(g) \subseteq FstIndices
  BY TreeFacts
<1>2. P[0] = <<>>
  <2>1. PlaceOf(sb, 0) = PathTo(sb, RootPlace)
    BY PlacedOnce, PlaceOfPlaced DEF RootPlace
  <2> QED  BY <1>1, <2>1 DEF PathTo, RootPlace
<1>3. ASSUME NEW d \in FromRoot(g), NEW i \in ChildrenOf(g, d)
      PROVE  P[i] = Append(P[d], sb.fst[i].name)
  <2>1. PICK z \in Placed(sb) : z.index = d
    BY PlacedOnce
  <2>2. P[d] = PathTo(sb, z)
    BY <2>1, PlaceOfPlaced
  <2> DEFINE S == {j \in FromRoot(g) : \E x \in Placed(sb) :
                      x.index = j /\ x.dir = PathTo(sb, z)}
  <2>3. S \in SUBSET FstIndices
    BY <1>1
  <2>4. g["sub"][d] \in FstIndices => g["sub"][d] \in S
    <3> SUFFICES ASSUME g["sub"][d] \in FstIndices PROVE g["sub"][d] \in S
      OBVIOUS
    <3>1. g["sub"][d] \in FromRoot(g)
      BY TreeIsClosed, <1>1 DEF ClosedIn, IsTree, Kinds
    <3>2. PICK x \in Placed(sb) : x.index = g["sub"][d]
      BY <3>1, PlacedOnce
    <3>3. x.dir = PathTo(sb, z)
      BY <2>1, <3>2, PlacedLeadsOn DEF Kinds
    <3> QED  BY <3>1, <3>2, <3>3
  <2>5. ASSUME NEW p \in S, g["sib"][p] \in FstIndices PROVE g["sib"][p] \in S
    <3>1. PICK y \in Placed(sb) : y.index = p /\ y.dir = PathTo(sb, z)
      OBVIOUS
    <3>2. g["sib"][p] \in FromRoot(g)
      BY TreeIsClosed, <1>1, <2>5 DEF ClosedIn, IsTree, Kinds
    <3>3. PICK x \in Placed(sb) : x.index = g["sib"][p]
      BY <3>2, PlacedOnce
    <3>4. x.dir = y.dir
      BY <3>1, <3>3, PlacedLeadsOn DEF Kinds
    <3> QED  BY <3>1, <3>2, <3>3, <3>4
  <2>6. ChildrenOf(g, d) \subseteq S
    <3> HIDE DEF S
    <3> QED  BY <2>3, <2>4, <2>5, ChildrenAreLeast
  <2>7. PICK x \in Placed(sb) : x.index = i /\ x.dir = PathTo(sb, z)
    BY <2>6
  <2>8. i \in FromRoot(g) /\ i # 0
    BY <1>1, ParentOutside
  <2>9. P[i] = PathTo(sb, x)
    BY <2>7, <2>8, PlaceOfPlaced
  <2> QED  BY <2>2, <2>7, <2>8, <2>9 DEF PathTo
<1> HIDE DEF P
<1>4. IsPlacing(sb, P)
  BY <1>2, <1>3 DEF IsPlacing
<1> QED  BY <1>4 DEF P

\* The nodes of the abstract tree.
LEMMA TreeOfPlacing ==
    ASSUME NEW sb \in Superblock, IsFstTree(sb), NEW P, IsPlacing(sb, P)
    PROVE  /\ TreeOf(sb) = {Node(sb.fst[i], P[i]) : i \in FromRoot(Pointers(sb))}
           /\ \A i \in FromRoot(Pointers(sb)) : PlaceOf(sb, i) = P[i]
<1>1. \A i \in FromRoot(Pointers(sb)) : PlaceOf(sb, i) = P[i]
  <2> DEFINE Q == [i \in FromRoot(Pointers(sb)) |-> PlaceOf(sb, i)]
  <2>1. IsPlacing(sb, Q)
    BY PlaceOfIsPlacing
  <2> HIDE DEF Q
  <2>2. \A i \in FromRoot(Pointers(sb)) : Q[i] = P[i]
    BY <2>1, PlacingsAgree
  <2>3. \A i \in FromRoot(Pointers(sb)) : Q[i] = PlaceOf(sb, i)
    BY DEF Q
  <2> QED  BY <2>2, <2>3
<1>2. \A x \in Placed(sb) : /\ x.index \in FromRoot(Pointers(sb))
                            /\ PathTo(sb, x) = P[x.index]
  BY <1>1, PlacedOnce, PlaceOfPlaced
<1>3. \A i \in FromRoot(Pointers(sb)) : \E x \in Placed(sb) : x.index = i
  BY PlacedOnce
<1> QED  BY <1>1, <1>2, <1>3 DEF TreeOf

-----------------------------------------------------------------------------
(* What is below an entry is what its path is a prefix of.                  *)

LEMMA PrefixOfAppend ==
    ASSUME NEW p \in Seq(Everything), NEW s \in Seq(Everything),
           NEW v \in Everything
    PROVE  Tree!IsPrefix(p, Append(s, v)) <=>
               p = Append(s, v) \/ Tree!IsPrefix(p, s)
<1> DEFINE q == Append(s, v)
<1>1. /\ Len(p) \in Nat /\ Len(s) \in Nat /\ Len(q) = Len(s) + 1
      /\ q \in Seq(Everything)
  OBVIOUS
<1>2. CASE Len(p) <= Len(s)
  <2>1. SubSeq(q, 1, Len(p)) = SubSeq(s, 1, Len(p))
    BY <1>1, <1>2
  <2>2. p # q /\ Len(p) <= Len(q)
    BY <1>1, <1>2
  <2> HIDE DEF q
  <2> QED  BY <1>2, <2>1, <2>2 DEF Tree!IsPrefix, q
<1>3. CASE Len(p) = Len(q)
  <2>1. SubSeq(p, 1, Len(p)) = p /\ SubSeq(q, 1, Len(p)) = q
    BY <1>1, <1>3
  <2>2. ~(Len(p) <= Len(s)) /\ Len(p) <= Len(q)
    BY <1>1, <1>3
  <2> HIDE DEF q
  <2> QED  BY <2>1, <2>2 DEF Tree!IsPrefix, q
<1>4. CASE ~(Len(p) <= Len(q))
  <2>1. ~(Len(p) <= Len(s)) /\ p # q
    BY <1>1, <1>4
  <2> QED  BY <1>4, <2>1 DEF Tree!IsPrefix
<1> QED  BY <1>1, <1>2, <1>3, <1>4

LEMMA WithinIsPrefix ==
    ASSUME NEW sb \in Superblock, IsFstTree(sb), SiblingNamesUnique(sb),
           NEW P, IsPlacing(sb, P), NEW x \in FromRoot(Pointers(sb))
    PROVE  \A i \in FromRoot(Pointers(sb)) :
              Tree!IsPrefix(P[x], P[i]) <=> i \in Within(Pointers(sb), x)
<1> DEFINE g == Pointers(sb)
           S == {i \in FromRoot(g) : Tree!IsPrefix(P[x], P[i])
               <=> i \in Within(g, x)}
<1>1. IsTree(g) /\ 0 \in FromRoot(g) /\ FromRoot(g) \subseteq FstIndices
  BY TreeFacts
<1>2. 0 \in S
  <2>1. P[0] = <<>> /\ P[x] \in Seq(Everything) /\ (P[x] = <<>> <=> x = 0)
    BY PlacingType DEF IsPlacing
  <2>2. Tree!IsPrefix(P[x], <<>>) <=> P[x] = <<>>
    <3> DEFINE p == P[x]
    <3>1. p \in Seq(Everything)
      BY <2>1
    <3> HIDE DEF p
    <3>2. Tree!IsPrefix(p, <<>>) <=> p = <<>>
      BY <3>1 DEF Tree!IsPrefix
    <3> QED  BY <3>2 DEF p
  <2>3. 0 \in Within(g, x) <=> x = 0
    BY <1>1, BelowInTree DEF Within
  <2> QED  BY <1>1, <2>1, <2>2, <2>3
<1>3. ASSUME NEW d \in FromRoot(g) \cap S PROVE ChildrenOf(g, d) \subseteq S
  <2> SUFFICES ASSUME NEW i \in ChildrenOf(g, d) PROVE i \in S
    OBVIOUS
  <2>1. i \in FromRoot(g) /\ i \in FstIndices
    BY <1>1, ParentOutside
  <2>2. P[i] = Append(P[d], sb.fst[i].name)
    BY DEF IsPlacing
  <2>3. /\ P[x] \in Seq(Everything) /\ P[d] \in Seq(Everything)
        /\ sb.fst[i].name \in Everything
    BY <2>1, PlacingType DEF Superblock, FstEntry, Everything
  <2>4. Tree!IsPrefix(P[x], P[i]) <=> P[x] = P[i] \/ Tree!IsPrefix(P[x], P[d])
    BY <2>2, <2>3, PrefixOfAppend
  <2>5. P[x] = P[i] <=> x = i
    BY <2>1, PlacesDiffer
  <2>6. i \in Within(g, x) <=> i = x \/ d \in Within(g, x)
    <3>1. ASSUME d \in Within(g, x) PROVE i \in Within(g, x)
      <4>1. i \in Below(g, d)
        BY ChildrenAreBelow
      <4> QED  BY <3>1, <4>1, BelowIsTransitive DEF Within
    <3>2. ASSUME i \in Below(g, x), d \notin Within(g, x) PROVE FALSE
      BY <1>1, <3>2, ChildrenOutside
    <3> QED  BY <3>1, <3>2 DEF Within
  <2> QED  BY <2>1, <2>4, <2>5, <2>6
<1> HIDE DEF S
<1>4. FromRoot(g) \subseteq S
  BY <1>1, <1>2, <1>3, DownTheTree
<1> QED  BY <1>4 DEF S

\* What the proofs below use of all that: the paths of the entries.
LEMMA PlaceFacts ==
    ASSUME NEW sb, IsPathTree(sb)
    PROVE  LET g == Pointers(sb)
           IN  /\ PlaceOf(sb, 0) = <<>>
               /\ \A d \in FromRoot(g) : \A i \in ChildrenOf(g, d) :
                     PlaceOf(sb, i) = Append(PlaceOf(sb, d), sb.fst[i].name)
               /\ \A i \in FromRoot(g) :
                     /\ PlaceOf(sb, i) \in Seq(Names)
                     /\ PlaceOf(sb, i) = <<>> <=> i = 0
                     /\ GetFstIndex(sb, PlaceOf(sb, i)) = i
                     /\ \A j \in FromRoot(g) :
                           PlaceOf(sb, i) = PlaceOf(sb, j) => i = j
                     /\ \A j \in FromRoot(g) :
                           Tree!IsPrefix(PlaceOf(sb, i), PlaceOf(sb, j)) <=>
                               j \in Within(g, i)
               /\ TreeOf(sb) = {Node(sb.fst[i], PlaceOf(sb, i)) : i \in FromRoot(g)}
<1> DEFINE g == Pointers(sb)
           P == [i \in FromRoot(g) |-> PlaceOf(sb, i)]
<1>1. /\ sb \in Superblock /\ IsFstTree(sb) /\ SiblingNamesUnique(sb)
      /\ IsTree(g) /\ 0 \in FromRoot(g)
  BY PathTreeFacts DEF IsPathTree
<1>2. IsPlacing(sb, P)
  BY <1>1, PlaceOfIsPlacing
<1>3. \A i \in FromRoot(g) : P[i] = PlaceOf(sb, i)
  OBVIOUS
<1> HIDE DEF P
<1>4. \A d \in FromRoot(g) : \A i \in ChildrenOf(g, d) : i \in FromRoot(g)
  BY PathTreeFacts
<1>5. P[0] = <<>> /\ \A d \in FromRoot(g) : \A i \in ChildrenOf(g, d) :
                        P[i] = Append(P[d], sb.fst[i].name)
  BY <1>2 DEF IsPlacing
<1>6. \A i \in FromRoot(g) : /\ P[i] \in Seq(Names) /\ (P[i] = <<>> <=> i = 0)
                             /\ GetFstIndex(sb, P[i]) = i
  BY <1>1, <1>2, PlacesAreNames, PlacingType, LookupFindsPlace
<1>7. \A i, j \in FromRoot(g) : P[i] = P[j] => i = j
  BY <1>1, <1>2, PlacesDiffer
<1>8. \A i, j \in FromRoot(g) : Tree!IsPrefix(P[i], P[j]) <=> j \in Within(g, i)
  BY <1>1, <1>2, WithinIsPrefix
<1>9. TreeOf(sb) = {Node(sb.fst[i], P[i]) : i \in FromRoot(g)}
  BY <1>1, <1>2, TreeOfPlacing
<1>10. {Node(sb.fst[i], P[i]) : i \in FromRoot(g)} =
          {Node(sb.fst[i], PlaceOf(sb, i)) : i \in FromRoot(g)}
  BY <1>3
<1> HIDE DEF g
<1> QED  BY <1>1, <1>3, <1>4, <1>5, <1>6, <1>7, <1>8, <1>9, <1>10 DEF g

LEMMA PlacesFollow ==
    ASSUME NEW sb \in Superblock, IsFstTree(sb), NEW P, IsPlacing(sb, P)
    PROVE  \A i \in FromRoot(Pointers(sb)) : PlaceOf(sb, i) = P[i]
BY TreeOfPlacing

\* A lookup returns the entry that has the path.
LEMMA PathFacts ==
    ASSUME NEW sb, IsPathTree(sb), NEW path \in Seq(Components),
           AvoidsFiles(sb, path), GetFstIndex(sb, path) # NIL
    PROVE  /\ GetFstIndex(sb, path) \in FromRoot(Pointers(sb))
           /\ PlaceOf(sb, GetFstIndex(sb, path)) = path
<1> DEFINE P == [i \in FromRoot(Pointers(sb)) |-> PlaceOf(sb, i)]
           index == GetFstIndex(sb, path)
<1>1. IsPlacing(sb, P)
  BY PlaceOfIsPlacing DEF IsPathTree
<1> HIDE DEF P
<1>2. index \in FromRoot(Pointers(sb)) /\ P[index] = path
  BY <1>1, LookupIsPlace
<1> QED  BY <1>2 DEF P

-----------------------------------------------------------------------------
(* What a call finds, in the tree of paths.                                *)

LEMMA NodeFields ==
    ASSUME NEW entry, NEW path
    PROVE  LET node == Node(entry, path)
           IN  /\ node.path = path /\ node.type = entry.type
               /\ node.owner = entry.owner /\ node.group = entry.group
               /\ node.other = entry.other /\ node.uid = entry.uid
               /\ node.gid = entry.gid /\ node.size = entry.size
BY DEF Node

LEMMA TreeAt ==
    ASSUME IsPathTree(superblock), NEW path \in Seq(Components),
           AvoidsFiles(superblock, path),
           NEW index, index = GetFstIndex(superblock, path)
    PROVE  LET node == Node(superblock.fst[index], path)
           IN  /\ Tree!At(path) = IF index = NIL THEN {} ELSE {node}
               /\ Tree!FileAt(path) =
                     IF index # NIL /\ IsFile(superblock.fst[index])
                     THEN {node} ELSE {}
               /\ Tree!DirectoryAt(path) =
                     IF index # NIL /\ IsDirectory(superblock.fst[index])
                     THEN {node} ELSE {}
<1> DEFINE g == Pointers(superblock)
           node == Node(superblock.fst[index], path)
           T == TreeOf(superblock)
<1>1. \A n \in T : \E i \in FromRoot(g) :
         n = Node(superblock.fst[i], PlaceOf(superblock, i))
  BY PlaceFacts
<1>2. \A i \in FromRoot(g) : Node(superblock.fst[i], PlaceOf(superblock, i)) \in T
  BY PlaceFacts
<1>3. \A i \in FromRoot(g) : GetFstIndex(superblock, PlaceOf(superblock, i)) = i
  BY PlaceFacts
<1>4. index # NIL => index \in FromRoot(g) /\ PlaceOf(superblock, index) = path
  BY PathFacts
<1>5. NIL \notin FromRoot(g)
  BY PathTreeFacts, NilIsNoIndex
<1>6. node.path = path /\ node.type = superblock.fst[index].type
  BY NodeFields
<1> HIDE DEF node, T, g
<1>7. \A n \in T : n.path = path => index # NIL /\ n = node
  <2> SUFFICES ASSUME NEW n \in T, n.path = path PROVE index # NIL /\ n = node
    OBVIOUS
  <2>1. PICK i \in FromRoot(g) : n = Node(superblock.fst[i], PlaceOf(superblock, i))
    BY <1>1
  <2>2. PlaceOf(superblock, i) = path
    BY <2>1, NodeFields
  <2>3. i = index
    BY <1>3, <2>2
  <2> QED  BY <1>5, <2>1, <2>2, <2>3 DEF node
<1>8. index # NIL => node \in T
  BY <1>2, <1>4 DEF node
<1>9. {n \in T : n.path = path} = IF index = NIL THEN {} ELSE {node}
  BY <1>6, <1>7, <1>8
<1>10. Tree!At(path) = IF index = NIL THEN {} ELSE {node}
  BY <1>9 DEF Tree!At, T
<1>11. Tree!FileAt(path) = IF index # NIL /\ IsFile(superblock.fst[index])
                           THEN {node} ELSE {}
  BY <1>6, <1>10 DEF Tree!FileAt, IsFile
<1>12. Tree!DirectoryAt(path) = IF index # NIL /\ IsDirectory(superblock.fst[index])
                                THEN {node} ELSE {}
  BY <1>6, <1>10 DEF Tree!DirectoryAt, IsDirectory
<1> QED  BY <1>10, <1>11, <1>12 DEF node

LEMMA MayAgrees ==
    ASSUME NEW entry, NEW path, NEW uid, NEW gid, NEW access
    PROVE  Tree!May(<<uid, gid>>, access, {Node(entry, path)}) <=>
              HasPermission(entry, uid, gid, access)
<1>1. Tree!May(<<uid, gid>>, access, {Node(entry, path)}) <=>
         LET node == Node(entry, path)
         IN  \/ uid = 0
             \/ access \subseteq IF node.uid = uid THEN node.owner
                                 ELSE IF node.gid = gid THEN node.group
                                 ELSE node.other
  BY DEF Tree!May
<1> QED  BY <1>1, NodeFields DEF HasPermission

LEMMA TreeFrom ==
    ASSUME IsPathTree(superblock), NEW x \in FromRoot(Pointers(superblock))
    PROVE  Tree!From(PlaceOf(superblock, x)) =
              {Node(superblock.fst[i], PlaceOf(superblock, i)) :
                  i \in Within(Pointers(superblock), x)}
<1> DEFINE g == Pointers(superblock)
           N(i) == Node(superblock.fst[i], PlaceOf(superblock, i))
<1>1. TreeOf(superblock) = {N(i) : i \in FromRoot(g)}
  BY PlaceFacts
<1>2. \A i \in FromRoot(g) :
         Tree!IsPrefix(PlaceOf(superblock, x), PlaceOf(superblock, i)) <=>
             i \in Within(g, x)
  BY PlaceFacts
<1>3. Within(g, x) \subseteq FromRoot(g)
  BY PathTreeFacts, BelowInTree DEF Within
<1>4. \A i : N(i).path = PlaceOf(superblock, i)
  BY NodeFields
<1> HIDE DEF N, g
<1>5. {n \in {N(i) : i \in FromRoot(g)} :
          Tree!IsPrefix(PlaceOf(superblock, x), n.path)} =
      {N(i) : i \in Within(g, x)}
  BY <1>2, <1>3, <1>4
<1>6. Tree!From(PlaceOf(superblock, x)) =
         {n \in TreeOf(superblock) : Tree!IsPrefix(PlaceOf(superblock, x), n.path)}
  BY DEF Tree!From
<1> QED  BY <1>1, <1>5, <1>6 DEF N, g

-----------------------------------------------------------------------------
(* What the edits do to the entries, links and names aside.                *)

Bare(entry) == Node(entry, <<>>)

LEMMA BareIsNode ==
    ASSUME NEW e, NEW f, Bare(e) = Bare(f), NEW path
    PROVE  Node(e, path) = Node(f, path) /\ e.type = f.type
<1>1. \A n : Bare(n).type = n.type /\ Bare(n).owner = n.owner
             /\ Bare(n).group = n.group /\ Bare(n).other = n.other
             /\ Bare(n).uid = n.uid /\ Bare(n).gid = n.gid /\ Bare(n).size = n.size
  BY NodeFields DEF Bare
<1>2. /\ e.type = f.type /\ e.owner = f.owner /\ e.group = f.group
      /\ e.other = f.other /\ e.uid = f.uid /\ e.gid = f.gid /\ e.size = f.size
  BY <1>1
<1> QED  BY <1>2 DEF Node

LEMMA BareKept ==
    ASSUME NEW entry \in FstEntry, NEW value
    PROVE  /\ Bare([entry EXCEPT !.sub = value]) = Bare(entry)
           /\ Bare([entry EXCEPT !.sib = value]) = Bare(entry)
           /\ Bare([entry EXCEPT !.size = value]) =
                 [Bare(entry) EXCEPT !.size = value]
           /\ ClearMode(entry).uid = entry.uid /\ ClearMode(entry).gid = entry.gid
           /\ ClearMode(entry).size = entry.size
<1>1. /\ Bare([entry EXCEPT !.sub = value]) = Bare(entry)
      /\ Bare([entry EXCEPT !.sib = value]) = Bare(entry)
  BY DEF FstEntry, Bare, Node
<1>2. Bare([entry EXCEPT !.size = value]) = [Bare(entry) EXCEPT !.size = value]
  <2> DEFINE sized == [entry EXCEPT !.size = value]
  <2>1. /\ sized.type = entry.type /\ sized.owner = entry.owner
        /\ sized.group = entry.group /\ sized.other = entry.other
        /\ sized.uid = entry.uid /\ sized.gid = entry.gid /\ sized.size = value
    BY DEF FstEntry
  <2> HIDE DEF sized
  <2>2. Bare(sized) = [Bare(entry) EXCEPT !.size = value]
    BY <2>1 DEF Bare, Node
  <2> QED  BY <2>2 DEF sized
<1>3. /\ ClearMode(entry).uid = entry.uid /\ ClearMode(entry).gid = entry.gid
      /\ ClearMode(entry).size = entry.size
  BY DEF FstEntry, ClearMode
<1> QED  BY <1>1, <1>2, <1>3

SameBare(s1, s2, S) == \A i \in S : Bare(s2.fst[i]) = Bare(s1.fst[i])

LEMMA BareUpdate ==
    ASSUME NEW sb \in Superblock, NEW k \in FstIndices, NEW entry
    PROVE  /\ SameBare(sb, [sb EXCEPT !.fst[k] = entry], FstIndices \ {k})
           /\ [sb EXCEPT !.fst[k] = entry].fst[k] = entry
BY DEF SameBare, Superblock

LEMMA LinksKeepBare ==
    ASSUME NEW sb \in Superblock, NEW k \in FstIndices, NEW pointer
    PROVE  /\ SameBare(sb, [sb EXCEPT !.fst[k].sub = pointer], FstIndices)
           /\ SameBare(sb, [sb EXCEPT !.fst[k].sib = pointer], FstIndices)
<1> DEFINE old == sb.fst[k]
           sub == [old EXCEPT !.sub = pointer]
           sib == [old EXCEPT !.sib = pointer]
<1>1. old \in FstEntry
  BY DEF Superblock
<1>2. Bare(sub) = Bare(old) /\ Bare(sib) = Bare(old)
  BY <1>1, BareKept
<1> HIDE DEF sub, sib
<1>3. /\ SameBare(sb, [sb EXCEPT !.fst[k] = sub], FstIndices)
      /\ SameBare(sb, [sb EXCEPT !.fst[k] = sib], FstIndices)
  BY <1>2, BareUpdate DEF SameBare
<1> QED  BY <1>3 DEF sub, sib

LEMMA UnlinkKeepsBare ==
    ASSUME NEW sb \in Superblock, NEW parent \in FstIndices,
           NEW child \in FstIndices
    PROVE  LET removed == RemoveFstEntryFromChain(sb, parent, child).sb
           IN  /\ SameBare(sb, removed, FstIndices \ {child})
               /\ removed.fst[child].uid = sb.fst[child].uid
               /\ removed.fst[child].gid = sb.fst[child].gid
               /\ removed.fst[child].size = sb.fst[child].size
<1> DEFINE next     == sb.fst[child].sib
           previous == {p \in Children(sb, parent) : sb.fst[p].sib = child}
           before   == CHOOSE p \in previous : TRUE
           first    == [sb EXCEPT !.fst[parent].sub = next]
           later    == [sb EXCEPT !.fst[before].sib = next]
           Keeps1(s) == /\ SameBare(sb, s, FstIndices \ {child})
                        /\ s.fst[child].uid = sb.fst[child].uid
                        /\ s.fst[child].gid = sb.fst[child].gid
                        /\ s.fst[child].size = sb.fst[child].size
<1>1. LET removed == RemoveFstEntryFromChain(sb, parent, child).sb
      IN  \/ removed \in {Cleared(first, child), sb}
          \/ previous # {} /\ removed = Cleared(later, child)
  BY DEF RemoveFstEntryFromChain
<1>2. next \in U16
  BY DEF Superblock, FstEntry
<1>3. first \in Superblock /\ SameBare(sb, first, FstIndices)
  <2> HIDE DEF next
  <2> QED  BY <1>2, SubUpdate, LinksKeepBare
<1>4. previous # {} => later \in Superblock /\ SameBare(sb, later, FstIndices)
  <2>1. previous # {} => before \in FstIndices
    BY ChildrenType
  <2> HIDE DEF next, before, previous
  <2> QED  BY <1>2, <2>1, SibUpdate, LinksKeepBare
<1> HIDE DEF first, later, previous
<1>5. ASSUME NEW s \in Superblock, SameBare(sb, s, FstIndices)
      PROVE  Keeps1(Cleared(s, child))
  <2> DEFINE off == ClearMode(s.fst[child])
  <2>1. s.fst[child] \in FstEntry
    BY DEF Superblock
  <2>2. /\ off.uid = s.fst[child].uid /\ off.gid = s.fst[child].gid
        /\ off.size = s.fst[child].size
    BY <2>1, BareKept
  <2>3. Bare(s.fst[child]) = Bare(sb.fst[child])
    BY <1>5 DEF SameBare
  <2>4. /\ s.fst[child].uid = sb.fst[child].uid
               /\ s.fst[child].gid = sb.fst[child].gid
        /\ s.fst[child].size = sb.fst[child].size
    BY <2>3, NodeFields DEF Bare
  <2> HIDE DEF off
  <2>5. /\ SameBare(s, [s EXCEPT !.fst[child] = off], FstIndices \ {child})
        /\ [s EXCEPT !.fst[child] = off].fst[child] = off
    BY BareUpdate
  <2>6. Cleared(s, child) = [s EXCEPT !.fst[child] = off]
    BY DEF Cleared, off
  <2> QED  BY <1>5, <2>2, <2>4, <2>5, <2>6 DEF SameBare
<1>6. Keeps1(sb)
  BY DEF SameBare
<1> QED  BY <1>1, <1>3, <1>4, <1>5, <1>6

LEMMA ContentsKeepBare ==
    ASSUME TypeOK, NEW index \in FstIndices
    PROVE  SameBare(superblock, DeleteContents(index),
                    FstIndices \ Within(Pointers(superblock), index))
<1> DEFINE deleted == DeleteContents(index)
<1>1. /\ \A i \in FstIndices :
            deleted.fst[i] = IF i \in Emptied(index)
                             THEN ClearMode(superblock.fst[i])
                             ELSE superblock.fst[i]
      /\ \A i \in Emptied(index) : i \in Within(Pointers(superblock), index)
  BY ContentsCleared
<1> HIDE DEF deleted
<1> QED  BY <1>1 DEF SameBare, deleted

\* Rename keeps all but the name of the entry that moves.
LEMMA RelinkedKeepsBare ==
    ASSUME NEW sb \in Superblock, NEW index \in FstIndices,
           NEW saved \in FstEntry, NEW parent \in FstIndices, NEW name,
           StoredName(name) \in Names, saved.uid = sb.fst[index].uid,
           saved.gid = sb.fst[index].gid, saved.size = sb.fst[index].size
    PROVE  LET new == Relinked(sb, index, saved, parent, name)
           IN  /\ SameBare(sb, new, FstIndices \ {index})
               /\ Bare(new.fst[index]) = Bare(saved)
<1> DEFINE before == sb.fst[index]
           sib    == sb.fst[parent].sub
           stored_name == StoredName(name)
           entry  == [before EXCEPT
                         !.type = saved.type, !.owner = saved.owner,
                         !.group = saved.group, !.other = saved.other,
                         !.name = stored_name, !.sib = sib]
           linked == [sb EXCEPT !.fst[index] = entry]
           new    == [linked EXCEPT !.fst[parent].sub = index]
<1>1. before \in FstEntry /\ sib \in U16
  BY DEF Superblock, FstEntry
<1>2. entry \in FstEntry /\ Bare(entry) = Bare(saved)
  <2>1. /\ entry \in FstEntry
        /\ entry.type = saved.type /\ entry.owner = saved.owner
        /\ entry.group = saved.group /\ entry.other = saved.other
        /\ entry.uid = before.uid /\ entry.gid = before.gid
        /\ entry.size = before.size
    <3> HIDE DEF before, sib, stored_name
    <3> QED  BY <1>1 DEF FstEntry, stored_name
  <2> HIDE DEF entry
  <2> QED  BY <2>1 DEF Bare, Node
<1>3. linked \in Superblock /\ SameBare(sb, linked, FstIndices \ {index})
      /\ linked.fst[index] = entry
  <2> HIDE DEF entry
  <2> QED  BY <1>2, FstUpdate, BareUpdate
<1>4. SameBare(linked, new, FstIndices)
  <2> HIDE DEF linked
  <2> QED  BY <1>3, LinksKeepBare
<1>5. Relinked(sb, index, saved, parent, name) = new
  BY Zenon DEF Relinked
<1> HIDE DEF linked, new, entry
<1> QED  BY <1>2, <1>3, <1>4, <1>5 DEF SameBare

LEMMA MovingKeepsBare ==
    ASSUME NEW sb \in Superblock, NEW old_parent \in FstIndices,
           NEW index \in FstIndices, NEW new_parent \in FstIndices, NEW name,
           StoredName(name) \in Names
    PROVE  LET unlinked == RemoveFstEntryFromChain(sb, old_parent, index)
               new == Relinked(unlinked.sb, index, sb.fst[index], new_parent, name)
           IN  SameBare(sb, new, FstIndices)
<1> DEFINE unlinked == RemoveFstEntryFromChain(sb, old_parent, index).sb
           new == Relinked(unlinked, index, sb.fst[index], new_parent, name)
<1>1. unlinked \in Superblock /\ sb.fst[index] \in FstEntry
  BY RemoveFstEntryFromChainType DEF Superblock
<1>2. /\ SameBare(sb, unlinked, FstIndices \ {index})
      /\ unlinked.fst[index].uid = sb.fst[index].uid
      /\ unlinked.fst[index].gid = sb.fst[index].gid
      /\ unlinked.fst[index].size = sb.fst[index].size
  BY UnlinkKeepsBare
<1> HIDE DEF unlinked
<1>3. /\ SameBare(unlinked, new, FstIndices \ {index})
      /\ Bare(new.fst[index]) = Bare(sb.fst[index])
  BY <1>1, <1>2, RelinkedKeepsBare
<1> HIDE DEF new
<1>4. SameBare(sb, new, FstIndices)
  BY <1>2, <1>3 DEF SameBare
<1> QED  BY <1>4 DEF new, unlinked

\* A write changes the size of its file, and nothing else that the tree shows.
Grows(s1, s2, index, size) ==
    /\ index \in FstIndices /\ s1.fst[index].size < size
    /\ SameBare(s1, s2, FstIndices \ {index})
    /\ Bare(s2.fst[index]) = [Bare(s1.fst[index]) EXCEPT !.size = size]

LEMMA WriteGrows ==
    ASSUME NEW sb \in Superblock, NEW nd, NEW index \in U16, NEW data,
           NEW chain_index \in U16, NEW size \in U32
    PROVE  LET write == WriteFileData(sb, nd, index, data, chain_index, size)
           IN  \/ write.code # "Success" /\ write.superblock = sb
               \/ write.code = "Success" /\ Grows(sb, write.superblock, index, size)
<1> DEFINE cluster == Least(UnusedClusters(sb))
           old     == GetClusterForFile(sb, sb.fst[index].sub, chain_index)
           prev    == GetClusterForFile(sb, sb.fst[index].sub, chain_index - 1)
           linked  == IF chain_index = 0
                      THEN [sb EXCEPT !.fst[index].sub = cluster]
                      ELSE [sb EXCEPT !.fat[prev] = cluster]
           sized   == [linked EXCEPT !.fst[index].size = size]
           fat     == ReplaceInChain(linked.fat, cluster, old)
           final   == [sized EXCEPT !.fat = fat]
           write   == WriteFileData(sb, nd, index, data, chain_index, size)
<1>1. \/ write.code # "Success" /\ write.superblock = sb
      \/ /\ write.code = "Success" /\ write.superblock = final
         /\ index \in FstIndices /\ UnusedClusters(sb) # {}
         /\ ~(size <= sb.fst[index].size)
         /\ chain_index = 0 \/ prev # NIL
  BY DEF WriteFileData
<1> SUFFICES ASSUME /\ index \in FstIndices /\ UnusedClusters(sb) # {}
                    /\ ~(size <= sb.fst[index].size)
                    /\ chain_index = 0 \/ prev # NIL
             PROVE  Grows(sb, final, index, size)
  <2> HIDE DEF write, final, prev
  <2> QED  BY <1>1 DEF write
<1>2. cluster \in U16
  BY UnusedClusterType, PointersInRange DEF UnusedClusters
<1>3. linked \in Superblock /\ SameBare(sb, linked, FstIndices)
  <2> HIDE DEF cluster, prev
  <2>1. CASE chain_index = 0
    <3>1. linked = [sb EXCEPT !.fst[index].sub = cluster]
      BY <2>1
    <3> HIDE DEF linked
    <3> QED  BY <1>2, <3>1, LinksKeepBare, SubUpdate
  <2>2. CASE chain_index # 0
    <3>1. linked = [sb EXCEPT !.fat[prev] = cluster]
      BY <2>2
    <3>2. linked \in Superblock /\ linked.fst = sb.fst
      <4> HIDE DEF linked
      <4> QED  BY <1>2, <3>1 DEF Superblock
    <3> HIDE DEF linked
    <3> QED  BY <3>2 DEF SameBare
  <2> QED  BY <2>1, <2>2
<1> HIDE DEF linked
<1>4. /\ SameBare(linked, sized, FstIndices \ {index})
      /\ Bare(sized.fst[index]) = [Bare(linked.fst[index]) EXCEPT !.size = size]
  <2> DEFINE before == linked.fst[index]
             entry  == [before EXCEPT !.size = size]
  <2>1. before \in FstEntry
    BY <1>3 DEF Superblock
  <2>2. Bare(entry) = [Bare(before) EXCEPT !.size = size]
    BY <2>1, BareKept
  <2> HIDE DEF entry
  <2>3. /\ SameBare(linked, [linked EXCEPT !.fst[index] = entry],
                   FstIndices \ {index})
        /\ [linked EXCEPT !.fst[index] = entry].fst[index] = entry
    BY <1>3, BareUpdate
  <2>4. sized = [linked EXCEPT !.fst[index] = entry]
    BY DEF entry
  <2> HIDE DEF sized
  <2> QED  BY <2>2, <2>3, <2>4
<1>5. final.fst = sized.fst
  <2>1. sized \in Superblock
    BY <1>3, SizeUpdate
  <2> HIDE DEF sized, fat
  <2> QED  BY <2>1 DEF Superblock
<1>6. sb.fst[index].size \in Nat /\ size \in Nat
  BY WordsAreNumbers DEF Superblock, FstEntry
<1> HIDE DEF final, sized
<1>7. /\ SameBare(sb, final, FstIndices \ {index})
      /\ Bare(final.fst[index]) = [Bare(sb.fst[index]) EXCEPT !.size = size]
  BY <1>3, <1>4, <1>5 DEF SameBare
<1> QED  BY <1>6, <1>7 DEF Grows

LEMMA FlushGrows ==
    ASSUME TypeOK
    PROVE  \/ FlushFileCache.superblock = superblock
           \/ /\ Dirty(cache) /\ FlushFileCache.code = "Success"
              /\ Grows(superblock, FlushFileCache.superblock,
                       handles[cache.handle].fst_index,
                       handles[cache.handle].file_size)
<1>1. CASE Dirty(cache)
  <2> DEFINE h == handles[cache.handle]
             write == WriteFileData(superblock, nand, h.fst_index, cache.data,
                                    cache.chain_index, h.file_size)
  <2>1. cache.handle \in HandleIds /\ cache.chain_index \in U16
    BY <1>1 DEF TypeOK, Cache, Dirty
  <2>2. h \in Handle /\ h.fst_index \in U16 /\ h.file_size \in U32
    BY <2>1 DEF TypeOK, Handle
  <2>3. \/ write.code # "Success" /\ write.superblock = superblock
        \/ write.code = "Success" /\ Grows(superblock, write.superblock,
               h.fst_index, h.file_size)
    <3> HIDE DEF h
    <3> QED  BY <2>1, <2>2, WriteGrows DEF TypeOK
  <2> HIDE DEF write
  <2>4. FlushFileCache.superblock = write.superblock
            /\ FlushFileCache.code = write.code
    BY <1>1 DEF FlushFileCache, FlushNeeded, Written, WriteBack, IoState, write
  <2> QED  BY <1>1, <2>3, <2>4
<1>2. CASE ~Dirty(cache)
  BY <1>2 DEF FlushFileCache, IoState
<1> QED  BY <1>1, <1>2

-----------------------------------------------------------------------------
(* What the edits do to the tree of paths.                                 *)

LEMMA SameShapeSamePlaces ==
    ASSUME NEW s1, IsPathTree(s1), NEW s2 \in Superblock, SameShape(s1, s2)
    PROVE  /\ IsPathTree(s2) /\ Pointers(s2) = Pointers(s1)
           /\ \A i \in FromRoot(Pointers(s1)) : PlaceOf(s2, i) = PlaceOf(s1, i)
<1> DEFINE g == Pointers(s1)
           P == [i \in FromRoot(g) |-> PlaceOf(s1, i)]
<1>1. Pointers(s2) = g
  BY SameShapeSamePointers
<1>2. FromRoot(g) \subseteq FstIndices
  BY PathTreeFacts
<1>3. \A i \in FromRoot(g) : s2.fst[i].name = s1.fst[i].name
  BY <1>2 DEF SameShape, SameEntry
<1>4. IsFstTree(s2) /\ SiblingNamesUnique(s2)
  BY SameShapeSameTree, SameShapeSameNames DEF IsPathTree
<1>5. EntriesNamed(s2)
  BY <1>1, <1>3 DEF EntriesNamed, IsPathTree
<1>6. \A d \in FromRoot(g) : ChildrenOf(g, d) \subseteq FromRoot(g)
  BY PathTreeFacts
<1>7. IsPlacing(s1, P)
  BY PlaceOfIsPlacing DEF IsPathTree
<1>8. IsPlacing(s2, P)
  <2> HIDE DEF P, g
  <2> QED  BY <1>1, <1>3, <1>6, <1>7 DEF IsPlacing, g
<1>9. \A i \in FromRoot(g) : P[i] = PlaceOf(s1, i)
  OBVIOUS
<1> HIDE DEF P
<1>10. \A i \in FromRoot(g) : PlaceOf(s2, i) = P[i]
  <2>1. \A i \in FromRoot(Pointers(s2)) : PlaceOf(s2, i) = P[i]
    BY <1>4, <1>8, PlacesFollow
  <2> QED  BY <1>1, <2>1
<1> QED  BY <1>1, <1>4, <1>5, <1>9, <1>10 DEF IsPathTree

\* Of one entry, something but its name and its links changes.
LEMMA OneNodeChanges ==
    ASSUME NEW s1, IsPathTree(s1), NEW s2 \in Superblock, SameShape(s1, s2),
           NEW x \in FromRoot(Pointers(s1)), SameBare(s1, s2, FstIndices \ {x})
    PROVE  TreeOf(s2) = (TreeOf(s1) \ {Node(s1.fst[x], PlaceOf(s1, x))}) \cup
                        {Node(s2.fst[x], PlaceOf(s1, x))}
<1> DEFINE g == Pointers(s1)
           N1(i) == Node(s1.fst[i], PlaceOf(s1, i))
           N2(i) == Node(s2.fst[i], PlaceOf(s1, i))
<1>1. /\ IsPathTree(s2) /\ Pointers(s2) = g
      /\ \A i \in FromRoot(g) : PlaceOf(s2, i) = PlaceOf(s1, i)
  BY SameShapeSamePlaces
<1>2. TreeOf(s1) = {N1(i) : i \in FromRoot(g)}
  BY PlaceFacts
<1>3. TreeOf(s2) = {Node(s2.fst[i], PlaceOf(s2, i)) : i \in FromRoot(g)}
  <2>1. TreeOf(s2) =
           {Node(s2.fst[i], PlaceOf(s2, i)) : i \in FromRoot(Pointers(s2))}
    BY <1>1, PlaceFacts
  <2> QED  BY <1>1, <2>1
<1>4. TreeOf(s2) = {N2(i) : i \in FromRoot(g)}
  BY <1>1, <1>3
<1>5. \A i \in FromRoot(g) \ {x} : N2(i) = N1(i)
  <2>1. FromRoot(g) \subseteq FstIndices
    BY PathTreeFacts
  <2> QED  BY <2>1, BareIsNode DEF SameBare
<1>6. \A i \in FromRoot(g) \ {x} : N1(i) # N1(x)
  <2>1. \A i \in FromRoot(g) : PlaceOf(s1, i) = PlaceOf(s1, x) => i = x
    BY PlaceFacts
  <2>2. \A i \in FromRoot(g) : N1(i).path = PlaceOf(s1, i)
    BY NodeFields
  <2> HIDE DEF N1
  <2> QED  BY <2>1, <2>2
<1> HIDE DEF N1, N2, g
<1>7. TreeOf(s2) = (TreeOf(s1) \ {N1(x)}) \cup {N2(x)}
  <2>1. x \in FromRoot(g)
    BY DEF g
  <2> QED  BY <1>2, <1>4, <1>5, <1>6, <2>1
<1> QED  BY <1>7 DEF N1, N2

LEMMA NoNodeChanges ==
    ASSUME NEW s1, IsPathTree(s1), NEW s2 \in Superblock, SameShape(s1, s2),
           SameBare(s1, s2, FstIndices)
    PROVE  TreeOf(s2) = TreeOf(s1)
<1>1. 0 \in FromRoot(Pointers(s1)) /\ 0 \in FstIndices
  BY PathTreeFacts, RootInTree
<1>2. TreeOf(s2) = (TreeOf(s1) \ {Node(s1.fst[0], PlaceOf(s1, 0))}) \cup
                   {Node(s2.fst[0], PlaceOf(s1, 0))}
  BY <1>1, OneNodeChanges DEF SameBare
<1>3. Node(s2.fst[0], PlaceOf(s1, 0)) = Node(s1.fst[0], PlaceOf(s1, 0))
  BY <1>1, BareIsNode DEF SameBare
<1>4. Node(s1.fst[0], PlaceOf(s1, 0)) \in TreeOf(s1)
  <2>1. TreeOf(s1) =
           {Node(s1.fst[i], PlaceOf(s1, i)) : i \in FromRoot(Pointers(s1))}
    BY PlaceFacts
  <2> QED  BY <1>1, <2>1
<1> QED  BY <1>2, <1>3, <1>4

\* In terms of the size of the node.
LEMMA GrowsTree ==
    ASSUME NEW s1, IsPathTree(s1), NEW s2 \in Superblock, SameShape(s1, s2),
           NEW x \in FromRoot(Pointers(s1)), NEW size, Grows(s1, s2, x, size)
    PROVE  LET node == Node(s1.fst[x], PlaceOf(s1, x))
           IN  /\ TreeOf(s2) = (TreeOf(s1) \ {node}) \cup
                               {[node EXCEPT !.size = size]}
               /\ node \in TreeOf(s1) /\ size > node.size
<1> DEFINE path == PlaceOf(s1, x)
           node == Node(s1.fst[x], path)
<1>1. TreeOf(s2) = (TreeOf(s1) \ {node}) \cup {Node(s2.fst[x], path)}
  BY OneNodeChanges DEF Grows
<1>2. Bare(s2.fst[x]) = [Bare(s1.fst[x]) EXCEPT !.size = size]
  BY DEF Grows
<1>3. Node(s2.fst[x], path) = [node EXCEPT !.size = size]
  <2> HIDE DEF path
  <2>1. \A e : Node(e, path) = [Bare(e) EXCEPT !.path = path]
    BY DEF Bare, Node
  <2>2. [[Bare(s1.fst[x]) EXCEPT !.size = size] EXCEPT !.path = path]
           = [[Bare(s1.fst[x]) EXCEPT !.path = path] EXCEPT !.size = size]
    BY DEF Bare, Node
  <2> QED  BY <1>2, <2>1, <2>2
<1>4. node \in TreeOf(s1)
  <2>1. TreeOf(s1) =
           {Node(s1.fst[i], PlaceOf(s1, i)) : i \in FromRoot(Pointers(s1))}
    BY PlaceFacts
  <2> QED  BY <2>1
<1>5. node.size = s1.fst[x].size
  BY NodeFields
<1>6. size > s1.fst[x].size
  BY DEF Grows
<1> HIDE DEF node, path
<1> QED  BY <1>1, <1>3, <1>4, <1>5, <1>6 DEF node, path

-----------------------------------------------------------------------------
(* Create.                                                                 *)

LEMMA PathSplit ==
    ASSUME NEW path \in Seq(Components), path # <<>>, NEW sb, AvoidsFiles(sb, path)
    PROVE  LET front == SplitPath(path).parent
               name  == path[Len(path)]
           IN  /\ front \in Seq(Components) /\ name \in Components
               /\ path = Append(front, name) /\ Len(path) \in Nat \ {0}
               /\ front = Tree!Front(path) /\ name = Tree!Last(path)
               /\ name = SplitPath(path).file_name
               /\ AvoidsFiles(sb, front)
<1> DEFINE front == SplitPath(path).parent
           name  == path[Len(path)]
           len   == Len(path)
<1>1. len \in Nat \ {0} /\ name \in Components
  OBVIOUS
<1>2. front = SubSeq(path, 1, len - 1) /\ name = SplitPath(path).file_name
  BY DEF SplitPath
<1>3. /\ front \in Seq(Components) /\ Len(front) = len - 1
      /\ \A i \in 1..(len - 1) : front[i] = path[i]
  <2>1. len - 1 \in 0..Len(path)
    BY <1>1
  <2> HIDE DEF len, front
  <2> QED  BY <1>2, <2>1, PrefixFacts
<1>4. path = Append(front, name)
  <2>1. Append(front, name) \in Seq(Components) /\ Len(Append(front, name)) = len
    <3> HIDE DEF front, name
    <3> QED  BY <1>1, <1>3
  <2>2. \A i \in 1..len : Append(front, name)[i] = path[i]
    <3>1. ASSUME NEW i \in 1..len PROVE Append(front, name)[i] = path[i]
      <4>1. CASE i = len
        <5>1. Append(front, name)[Len(front) + 1] = name
          <6> HIDE DEF front, name
          <6> QED  BY <1>1, <1>3
        <5>2. Len(front) + 1 = len
          <6> HIDE DEF front
          <6> QED  BY <1>1, <1>3
        <5> HIDE DEF front
        <5> QED  BY <4>1, <5>1, <5>2
      <4>2. CASE i # len
        <5>1. i \in 1..(len - 1)
          <6> HIDE DEF len
          <6> QED  BY <1>1, <4>2
        <5>2. Append(front, name)[i] = front[i]
          <6> HIDE DEF front, name, len
          <6> QED  BY <1>1, <1>3, <5>1
        <5> HIDE DEF front, len
        <5> QED  BY <1>3, <5>1, <5>2
      <4> QED  BY <4>1, <4>2
    <3> QED  BY <3>1
  <2> HIDE DEF front, name
  <2> QED  BY <2>1, <2>2, SeqEqual
<1>5. AvoidsFiles(sb, front)
  <2> SUFFICES ASSUME NEW n \in 1..(Len(front) - 1)
               PROVE  At(sb, front, n) = At(sb, path, n) /\ n \in 1..(len - 1)
    <3> HIDE DEF front, len
    <3> QED  BY DEF AvoidsFiles, len
  <2>1. n \in 1..(len - 1) /\ n \in 0..Len(front) /\ n \in 0..Len(path)
    <3> HIDE DEF front
    <3> QED  BY <1>1, <1>3
  <2>2. /\ SubSeq(front, 1, n) \in Seq(Components)
               /\ SubSeq(path, 1, n) \in Seq(Components)
        /\ Len(SubSeq(front, 1, n)) = n /\ Len(SubSeq(path, 1, n)) = n
        /\ \A i \in 1..n : SubSeq(front, 1, n)[i] = front[i]
               /\ SubSeq(path, 1, n)[i] = path[i]
    <3> HIDE DEF front
    <3> QED  BY <1>3, <2>1, PrefixFacts
  <2>3. \A i \in 1..n : i \in 1..(len - 1)
    <3> HIDE DEF len
    <3> QED  BY <1>1, <2>1
  <2>4. SubSeq(front, 1, n) = SubSeq(path, 1, n)
    <3> HIDE DEF front, len
    <3> QED  BY <1>3, <2>2, <2>3, SeqEqual
  <2> HIDE DEF front
  <2> QED  BY <2>1, <2>4 DEF At
<1>6. front = Tree!Front(path) /\ name = Tree!Last(path)
  BY <1>2 DEF Tree!Front, Tree!Last
<1> HIDE DEF front, name
<1> QED  BY <1>1, <1>2, <1>3, <1>4, <1>5, <1>6 DEF front, name

\* The node that Create adds.
NewNode(fd, path, type, perm) ==
    [path |-> path, type |-> type, owner |-> perm.owner,
     group |-> perm.group, other |-> perm.other,
     uid |-> handles[fd].uid, gid |-> handles[fd].gid, size |-> 0]

LEMMA NewChildBare ==
    ASSUME NEW sb \in Superblock, NEW parent \in FstIndices,
           NEW child \in FstIndices, NEW entry \in FstEntry
    PROVE  LET new == NewChild(sb, parent, child, entry)
           IN  /\ new \in Superblock
               /\ SameBare(sb, new, FstIndices \ {child})
               /\ Bare(new.fst[child]) = Bare(entry)
<1> DEFINE mid == [sb EXCEPT !.fst[child] = entry]
           new == [mid EXCEPT !.fst[parent].sub = child]
<1>1. mid \in Superblock
  BY FstUpdate
<1>2. SameBare(sb, mid, FstIndices \ {child}) /\ mid.fst[child] = entry
  BY BareUpdate
<1> HIDE DEF mid
<1>3. child \in U16
  BY PointersInRange
<1>4. new \in Superblock /\ SameBare(mid, new, FstIndices)
  BY <1>1, <1>3, SubUpdate, LinksKeepBare
<1>5. NewChild(sb, parent, child, entry) = new
  BY DEF NewChild, mid
<1> HIDE DEF new
<1> QED  BY <1>2, <1>4, <1>5 DEF SameBare

LEMMA CreatedBare ==
    ASSUME TypeOK, NEW fd \in HandleIds, NEW path \in Paths,
           NEW type \in {"file", "directory"}, NEW perm \in Permissions,
           CreateCode(fd, path, type) = "Success",
           NEW parent \in FstIndices,
           parent = GetFstIndex(superblock, SplitPath(path).parent),
           NEW child \in FstIndices, child = GetUnusedFstIndex(superblock)
    PROVE  LET new == Created(fd, path, type, perm)
           IN  /\ new \in Superblock
               /\ SameBare(superblock, new, FstIndices \ {child})
               /\ \A p : Node(new.fst[child], p) = NewNode(fd, p, type, perm)
<1> DEFINE split == SplitPath(path)
           entry == [name |-> StoredName(split.file_name), type |-> type,
                     owner |-> perm.owner, group |-> perm.group,
                     other |-> perm.other,
                     sub |-> IF type = "file" THEN CLUSTER_LAST_IN_CHAIN
                                              ELSE NIL,
                     sib |-> superblock.fst[parent].sub, size |-> 0,
                     uid |-> handles[fd].uid, gid |-> handles[fd].gid]
           new == NewChild(superblock, parent, child, entry)
<1>1. Created(fd, path, type, perm) = new
  BY Zenon DEF Created, NewChild
<1>2. entry \in FstEntry
  <2>1. perm \in [owner : FileMode, group : FileMode, other : FileMode]
    BY FileSystemAssumption DEF FileSystemAssumption
  <2>2. path # <<>>
    BY DEF CreateCode, IsValidNonRootPath
  <2>3. StoredName(split.file_name) \in Names
    BY <2>2, SplitPathType
  <2>4. superblock.fst[parent].sub \in U16
    BY DEF TypeOK, Superblock, FstEntry
  <2>5. handles[fd].uid \in Uids /\ handles[fd].gid \in Gids
    BY DEF TypeOK, Handle
  <2>6. 0 \in U32
    BY SffsAssumption DEF SffsAssumption, U32
  <2> HIDE DEF split
  <2> QED
    BY <2>1, <2>3, <2>4, <2>5, <2>6, PointersInRange DEF FstEntry, EntryType
<1>3. \A p : Node(entry, p) = NewNode(fd, p, type, perm)
  <2> HIDE DEF split
  <2> QED  BY DEF Node, NewNode
<1>4. superblock \in Superblock
  BY DEF TypeOK
<1> HIDE DEF entry
<1>5. /\ new \in Superblock /\ SameBare(superblock, new, FstIndices \ {child})
      /\ Bare(new.fst[child]) = Bare(entry)
  BY <1>2, <1>4, NewChildBare
<1> HIDE DEF new
<1>6. \A p : Node(new.fst[child], p) = Node(entry, p)
  BY <1>5, BareIsNode
<1> QED  BY <1>1, <1>3, <1>5, <1>6

LEMMA CreatedPlaces ==
    ASSUME TypeOK, IsPathTree(superblock), NEW fd \in HandleIds,
           NEW path \in Paths, NEW type \in {"file", "directory"},
           NEW perm \in Permissions, CreateCode(fd, path, type) = "Success",
           ~ThroughFile(path), path[Len(path)] \notin LongNames
    PROVE  LET new == Created(fd, path, type, perm)
           IN  /\ IsPathTree(new)
               /\ \A i \in FromRoot(Pointers(superblock)) :
                     PlaceOf(new, i) = PlaceOf(superblock, i)
               /\ TreeOf(new) = TreeOf(superblock) \cup
                                {NewNode(fd, path, type, perm)}
<1> DEFINE parent == GetFstIndex(superblock, SplitPath(path).parent)
           child  == GetUnusedFstIndex(superblock)
           new    == Created(fd, path, type, perm)
           name   == path[Len(path)]
           front  == SplitPath(path).parent
           g == Pointers(superblock)
           h == Pointers(new)
           Q == [i \in FromRoot(h) |-> IF i = child THEN path
                                                    ELSE PlaceOf(superblock, i)]
<1>1. /\ path # <<>> /\ path \in Seq(Components) /\ AvoidsFiles(superblock, path)
      /\ parent # NIL
  <2>1. path \in Seq(Components)
    BY FileSystemAssumption DEF FileSystemAssumption, Components
  <2> QED  BY <2>1, NotThroughFile DEF CreateCode, IsValidNonRootPath
<1>2. /\ parent \in FromRoot(g) /\ parent \in FstIndices /\ child \in FstIndices
      /\ IsDirectory(superblock.fst[parent])
      /\ new.fst[child].name = StoredName(name)
      /\ IsFstTree(new) /\ Links(g, h, child, parent)
      /\ \A i \in FstIndices \ {child} : SameEntry(superblock, new, i)
  BY CreatedChild DEF IsPathTree
<1>3. /\ new \in Superblock /\ SameBare(superblock, new, FstIndices \ {child})
      /\ \A p : Node(new.fst[child], p) = NewNode(fd, p, type, perm)
  BY <1>2, CreatedBare
<1>4. SiblingNamesUnique(new)
  BY CreatedTree DEF IsPathTree
<1>5. /\ front \in Seq(Components) /\ name \in Components
      /\ path = Append(front, name) /\ AvoidsFiles(superblock, front)
  BY <1>1, PathSplit
<1>6. PlaceOf(superblock, parent) = front
  BY <1>1, <1>5, PathFacts
<1>7. StoredName(name) = name /\ name \in Names
  BY <1>5 DEF StoredName, Components
<1> HIDE DEF new, parent, child, front, name
<1>8. /\ IsTree(g) /\ FromRoot(h) = FromRoot(g) \cup {child}
      /\ child \notin FromRoot(g) /\ 0 \in FromRoot(g)
      /\ FromRoot(g) \subseteq FstIndices
  BY <1>2, PathTreeFacts, LinkTree DEF Links
<1>9. EntriesNamed(new)
  BY <1>2, <1>7, <1>8 DEF EntriesNamed, IsPathTree, SameEntry
<1>10. IsPathTree(new)
  BY <1>2, <1>3, <1>4, <1>9 DEF IsPathTree
<1>11. /\ \A i \in FromRoot(h) \ {child} : Q[i] = PlaceOf(superblock, i)
       /\ Q[child] = path
  BY <1>8
<1> HIDE DEF Q
<1>12. IsPlacing(new, Q)
  <2>1. Q[0] = <<>>
    BY <1>8, <1>11, PlaceFacts
  <2>2. ASSUME NEW d \in FromRoot(h), NEW i \in ChildrenOf(h, d)
        PROVE  Q[i] = Append(Q[d], new.fst[i].name)
    <3>1. i \in IF d = child THEN {}
                ELSE IF d = parent THEN {child} \cup ChildrenOf(g, parent)
                ELSE ChildrenOf(g, d)
      BY <1>2, <1>8, <2>2, LinkChildren
    <3>2. d # child /\ d \in FromRoot(g)
      BY <1>8, <2>2, <3>1
    <3>3. CASE i = child
      <4>1. d = parent
        <5>1. \A e \in FromRoot(g) : ChildrenOf(g, e) \subseteq FromRoot(g)
          BY PathTreeFacts
        <5> QED  BY <1>8, <3>1, <3>2, <3>3, <5>1
      <4> QED  BY <1>2, <1>5, <1>6, <1>7, <1>8, <1>11, <3>2, <3>3, <4>1
    <3>4. CASE i # child
      <4>1. i \in ChildrenOf(g, d)
        BY <3>1, <3>2, <3>4
      <4>2. i \in FromRoot(g)
        BY <3>2, <4>1, PathTreeFacts
      <4>3. PlaceOf(superblock, i) = Append(PlaceOf(superblock, d),
                superblock.fst[i].name)
        BY <3>2, <4>1, PlaceFacts
      <4>4. new.fst[i].name = superblock.fst[i].name
        BY <1>2, <1>8, <3>4, <4>2 DEF SameEntry
      <4> QED  BY <1>8, <1>11, <3>2, <3>4, <4>2, <4>3, <4>4
    <3> QED  BY <3>3, <3>4
  <2> QED  BY <2>1, <2>2 DEF IsPlacing, h
<1>13. /\ TreeOf(new) = {Node(new.fst[i], Q[i]) : i \in FromRoot(h)}
       /\ \A i \in FromRoot(h) : PlaceOf(new, i) = Q[i]
  BY <1>2, <1>3, <1>12, TreeOfPlacing
<1>14. \A i \in FromRoot(g) : PlaceOf(new, i) = PlaceOf(superblock, i)
  BY <1>8, <1>11, <1>13
<1>15. TreeOf(new) = TreeOf(superblock) \cup {NewNode(fd, path, type, perm)}
  <2> DEFINE N1(i) == Node(superblock.fst[i], PlaceOf(superblock, i))
             N2(i) == Node(new.fst[i], Q[i])
  <2>1. TreeOf(superblock) = {N1(i) : i \in FromRoot(g)}
    BY PlaceFacts
  <2>2. \A i \in FromRoot(g) : N2(i) = N1(i)
    <3> SUFFICES ASSUME NEW i \in FromRoot(g) PROVE N2(i) = N1(i)
      OBVIOUS
    <3>1. Bare(new.fst[i]) = Bare(superblock.fst[i])
      BY <1>3, <1>8 DEF SameBare
    <3>2. Q[i] = PlaceOf(superblock, i)
      BY <1>8, <1>11
    <3> QED  BY <3>1, <3>2, BareIsNode
  <2>3. N2(child) = NewNode(fd, path, type, perm)
    BY <1>3, <1>11
  <2> HIDE DEF N1, N2, g, h
  <2>4. TreeOf(new) = {N2(i) : i \in FromRoot(h)}
    BY <1>13 DEF N2
  <2> QED  BY <1>8, <2>1, <2>2, <2>3, <2>4
<1> QED  BY <1>10, <1>14, <1>15 DEF new

-----------------------------------------------------------------------------
(* Delete.                                                                 *)

LEMMA RemovedPlaces ==
    ASSUME TypeOK, IsPathTree(superblock),
           NEW parent \in FromRoot(Pointers(superblock)),
           IsDirectory(superblock.fst[parent]),
           NEW index \in Children(superblock, parent)
    PROVE  LET s2 == RemoveFstEntryFromChain(DeleteContents(index), parent,
                                             index).sb
           IN  /\ IsPathTree(s2)
               /\ \A i \in FromRoot(Pointers(s2)) :
                     PlaceOf(s2, i) = PlaceOf(superblock, i)
               /\ TreeOf(s2) = {n \in TreeOf(superblock) :
                     ~Tree!IsPrefix(PlaceOf(superblock, index), n.path)}
<1> DEFINE contents == DeleteContents(index)
           s2 == RemoveFstEntryFromChain(contents, parent, index).sb
           g == Pointers(superblock)
           h == Pointers(s2)
           Q == [i \in FromRoot(h) |-> PlaceOf(superblock, i)]
<1>1. /\ s2 \in Superblock /\ Removed(superblock, s2, index)
  BY RemovalKeepsTree DEF IsPathTree
<1>2. /\ IsFstTree(s2) /\ FromRoot(h) = FromRoot(g) \ Within(g, index)
      /\ \A i \in FromRoot(h) : SameEntry(superblock, s2, i)
      /\ \A d \in FromRoot(h) : ChildrenOf(h, d) \subseteq ChildrenOf(g, d)
  BY <1>1 DEF Removed
<1>3. SiblingNamesUnique(s2)
  BY <1>1, RemovalKeepsNames DEF IsPathTree
<1>4. /\ 0 \in FromRoot(g) /\ FromRoot(g) \subseteq FstIndices /\ IsTree(g)
      /\ index \in ChildrenOf(g, parent) /\ parent \in FstIndices
  BY PathTreeFacts, ChildrenInGraph
<1>5. index \in FromRoot(g) /\ index # 0 /\ index \in FstIndices
  BY <1>4, PathTreeFacts
<1>6. index \in Within(g, index)
  BY DEF Within
<1>7. SameBare(superblock, s2, FstIndices \ Within(g, index))
  <2>1. SameBare(superblock, contents, FstIndices \ Within(g, index))
    BY <1>5, ContentsKeepBare
  <2>2. contents \in Superblock
    BY <1>5, DeleteContentsType
  <2> HIDE DEF contents
  <2>3. SameBare(contents, s2, FstIndices \ {index})
    BY <1>4, <1>5, <2>2, UnlinkKeepsBare
  <2> HIDE DEF s2, g
  <2> QED  BY <1>6, <2>1, <2>3 DEF SameBare
<1> HIDE DEF s2, contents
<1>8. EntriesNamed(s2)
  <2>1. \A i \in FromRoot(h) : i \in FromRoot(g)
            /\ s2.fst[i].name = superblock.fst[i].name
    BY <1>2 DEF SameEntry
  <2> QED  BY <2>1 DEF EntriesNamed, IsPathTree
<1>9. IsPathTree(s2)
  BY <1>1, <1>2, <1>3, <1>8 DEF IsPathTree
<1>10. \A i \in FromRoot(h) : Q[i] = PlaceOf(superblock, i)
  OBVIOUS
<1>11. 0 \in FromRoot(h)
  BY <1>9, PathTreeFacts
<1> HIDE DEF Q
<1>12. IsPlacing(s2, Q)
  <2>1. Q[0] = <<>>
    BY <1>10, <1>11, PlaceFacts
  <2>2. ASSUME NEW d \in FromRoot(h), NEW i \in ChildrenOf(h, d)
        PROVE  Q[i] = Append(Q[d], s2.fst[i].name)
    <3>1. i \in ChildrenOf(g, d) /\ d \in FromRoot(g) /\ i \in FromRoot(h)
      <4>1. i \in FromRoot(h)
        BY <1>9, PathTreeFacts
      <4> QED  BY <1>2, <4>1
    <3>2. PlaceOf(superblock, i) = Append(PlaceOf(superblock, d),
              superblock.fst[i].name)
      BY <3>1, PlaceFacts
    <3>3. s2.fst[i].name = superblock.fst[i].name
      BY <1>2, <3>1 DEF SameEntry
    <3> QED  BY <1>10, <3>1, <3>2, <3>3
  <2> QED  BY <2>1, <2>2 DEF IsPlacing, h
<1>13. /\ TreeOf(s2) = {Node(s2.fst[i], Q[i]) : i \in FromRoot(h)}
       /\ \A i \in FromRoot(h) : PlaceOf(s2, i) = Q[i]
  BY <1>1, <1>2, <1>12, TreeOfPlacing
<1>14. \A i \in FromRoot(h) : PlaceOf(s2, i) = PlaceOf(superblock, i)
  BY <1>10, <1>13
<1>15. TreeOf(s2) = {n \in TreeOf(superblock) :
                        ~Tree!IsPrefix(PlaceOf(superblock, index), n.path)}
  <2> DEFINE N1(i) == Node(superblock.fst[i], PlaceOf(superblock, i))
             N2(i) == Node(s2.fst[i], Q[i])
             Below1(n) == Tree!IsPrefix(PlaceOf(superblock, index), n.path)
  <2>1. TreeOf(superblock) = {N1(i) : i \in FromRoot(g)}
    BY PlaceFacts
  <2>2. \A i \in FromRoot(h) : N2(i) = N1(i)
    <3> SUFFICES ASSUME NEW i \in FromRoot(h) PROVE N2(i) = N1(i)
      OBVIOUS
    <3>1. Bare(s2.fst[i]) = Bare(superblock.fst[i])
      BY <1>2, <1>4, <1>7 DEF SameBare
    <3>2. Q[i] = PlaceOf(superblock, i)
      BY <1>10
    <3> QED  BY <3>1, <3>2, BareIsNode
  <2>3. \A i \in FromRoot(g) : Below1(N1(i)) <=> i \in Within(g, index)
    <3>1. \A i \in FromRoot(g) :
             Tree!IsPrefix(PlaceOf(superblock, index), PlaceOf(superblock, i)) <=>
                 i \in Within(g, index)
      BY <1>5, PlaceFacts
    <3>2. \A i : N1(i).path = PlaceOf(superblock, i)
      BY NodeFields
    <3> HIDE DEF N1
    <3> QED  BY <3>1, <3>2
  <2> HIDE DEF N1, N2, g, h, Below1
  <2>4. TreeOf(s2) = {N2(i) : i \in FromRoot(h)}
    BY <1>13 DEF N2
  <2>5. TreeOf(s2) = {n \in TreeOf(superblock) : ~Below1(n)}
    BY <1>2, <2>1, <2>2, <2>3, <2>4
  <2> QED  BY <2>5 DEF Below1
<1> QED  BY <1>9, <1>14, <1>15 DEF s2, contents

-----------------------------------------------------------------------------
(* Rename.                                                                 *)

\* The path with its first components replaced.
Rerooted(old, new, path) == new \o SubSeq(path, Len(old) + 1, Len(path))

LEMMA ConcatNames ==
    ASSUME NEW s \in Seq(Names), NEW t \in Seq(Names), NEW a, a = Len(s),
           NEW b, b = Len(t)
    PROVE  /\ s \o t \in Seq(Names) /\ Len(s \o t) = a + b
           /\ \A i \in 1..(a + b) : (s \o t)[i] = IF i <= a THEN s[i] ELSE t[i - a]
BY ConcatProperties

LEMMA Rerooting ==
    ASSUME NEW old \in Seq(Names), NEW new \in Seq(Names)
    PROVE  /\ Rerooted(old, new, old) = new
           /\ \A p \in Seq(Names), v \in Names : Len(old) <= Len(p) =>
                 Rerooted(old, new, Append(p, v)) = Append(Rerooted(old, new, p), v)
<1>1. Rerooted(old, new, old) = new
  <2>1. Len(old) \in Nat
    OBVIOUS
  <2>2. SubSeq(old, Len(old) + 1, Len(old)) = <<>>
    BY <2>1, SubSeqEmpty
  <2> QED  BY <2>2, ConcatEmptySeq DEF Rerooted
<1>2. ASSUME NEW p \in Seq(Names), NEW v \in Names, Len(old) <= Len(p)
      PROVE  Rerooted(old, new, Append(p, v)) = Append(Rerooted(old, new, p), v)
  <2> DEFINE m == Len(old)
             n == Len(p)
             k == Len(new)
             q == Append(p, v)
             tail == SubSeq(p, m + 1, n)
             long == SubSeq(q, m + 1, n + 1)
             left == new \o long
             right == Append(new \o tail, v)
  <2>1. /\ m \in Nat /\ n \in Nat /\ k \in Nat /\ m <= n
        /\ q \in Seq(Names) /\ Len(q) = n + 1
        /\ \A i \in 1..n : q[i] = p[i]
        /\ q[n + 1] = v
    BY <1>2
  <2> HIDE DEF q, m, n, k
  <2>2. /\ tail \in Seq(Names) /\ Len(tail) = n - m
        /\ \A i \in 1..(n - m) : tail[i] = p[m + i]
    <3>1. \A i \in (m + 1)..n : p[i] \in Names
      BY <2>1 DEF n
    <3>2. /\ SubSeq(p, m + 1, n) \in Seq(Names)
          /\ Len(SubSeq(p, m + 1, n)) = IF m + 1 <= n THEN n - (m + 1) + 1 ELSE 0
          /\ \A i \in 1..(n - (m + 1) + 1) :
                SubSeq(p, m + 1, n)[i] = p[m + 1 + i - 1]
      BY <2>1, <3>1, SubSeqProperties
    <3>3. /\ n - (m + 1) + 1 = n - m
          /\ m + 1 <= n \/ n - m = 0
          /\ \A i \in 1..(n - m) : m + 1 + i - 1 = m + i
      BY <2>1
    <3>4. Len(tail) = n - m
      BY <3>2, <3>3
    <3>5. ASSUME NEW i \in 1..(n - m) PROVE tail[i] = p[m + i]
      BY <3>2, <3>3
    <3> QED  BY <3>2, <3>4, <3>5
  <2>3. /\ long \in Seq(Names) /\ Len(long) = n + 1 - m
        /\ \A i \in 1..(n + 1 - m) : long[i] = q[m + i]
    <3>1. \A i \in (m + 1)..(n + 1) : q[i] \in Names
      BY <2>1
    <3>2. /\ SubSeq(q, m + 1, n + 1) \in Seq(Names)
          /\ Len(SubSeq(q, m + 1, n + 1)) =
                IF m + 1 <= n + 1 THEN n + 1 - (m + 1) + 1 ELSE 0
          /\ \A i \in 1..(n + 1 - (m + 1) + 1) :
                SubSeq(q, m + 1, n + 1)[i] = q[m + 1 + i - 1]
      BY <2>1, <3>1, SubSeqProperties
    <3>3. /\ m + 1 <= n + 1 /\ n + 1 - (m + 1) + 1 = n + 1 - m
          /\ \A i \in 1..(n + 1 - m) : m + 1 + i - 1 = m + i
      BY <2>1
    <3>4. ASSUME NEW i \in 1..(n + 1 - m) PROVE long[i] = q[m + i]
      BY <3>2, <3>3
    <3> QED  BY <3>2, <3>3, <3>4
  <2> HIDE DEF tail, long
  <2>4. /\ left \in Seq(Names) /\ Len(left) = k + (n + 1 - m)
        /\ \A i \in 1..(k + (n + 1 - m)) :
              left[i] = IF i <= k THEN new[i] ELSE long[i - k]
    <3>1. k = Len(new)
      BY DEF k
    <3> HIDE DEF k, left
    <3>2. /\ new \o long \in Seq(Names) /\ Len(new \o long) = k + (n + 1 - m)
          /\ \A i \in 1..(k + (n + 1 - m)) :
                (new \o long)[i] = IF i <= k THEN new[i] ELSE long[i - k]
      BY <2>3, <3>1, ConcatNames
    <3> QED  BY <3>2 DEF left
  <2>5. /\ new \o tail \in Seq(Names) /\ Len(new \o tail) = k + (n - m)
        /\ \A i \in 1..(k + (n - m)) :
              (new \o tail)[i] = IF i <= k THEN new[i] ELSE tail[i - k]
    <3>1. k = Len(new)
      BY DEF k
    <3> HIDE DEF k
    <3> QED  BY <2>2, <3>1, ConcatNames
  <2>6. /\ right \in Seq(Names) /\ Len(right) = k + (n - m) + 1
        /\ \A i \in 1..(k + (n - m)) : right[i] = (new \o tail)[i]
        /\ right[k + (n - m) + 1] = v
    <3> DEFINE s == new \o tail
               l == k + (n - m)
    <3>1. s \in Seq(Names) /\ Len(s) = l /\ l \in Nat
      BY <2>1, <2>5
    <3> HIDE DEF s, l
    <3>2. /\ Append(s, v) \in Seq(Names) /\ Len(Append(s, v)) = l + 1
          /\ \A i \in 1..l : Append(s, v)[i] = s[i]
          /\ Append(s, v)[l + 1] = v
      BY <1>2, <3>1
    <3> QED  BY <3>2 DEF s, l
  <2> HIDE DEF left, right
  <2>7. Len(left) = Len(right)
    BY <2>1, <2>4, <2>6
  <2>8. ASSUME NEW i \in 1..Len(left) PROVE left[i] = right[i]
    <3>0. /\ i \in Int /\ 1 <= i /\ i <= k + (n + 1 - m) /\ n + 1 - m \in Nat
          /\ n - m \in Nat
      BY <2>1, <2>4
    <3>1. CASE i <= k
      <4>1. i \in 1..(k + (n + 1 - m)) /\ i \in 1..(k + (n - m))
        BY <2>1, <3>0, <3>1
      <4>2. left[i] = new[i]
        BY <2>4, <3>1, <4>1
      <4>3. right[i] = new[i]
        BY <2>5, <2>6, <3>1, <4>1
      <4> QED  BY <4>2, <4>3
    <3>2. CASE k < i /\ i <= k + (n - m)
      <4>1. /\ i \in 1..(k + (n + 1 - m)) /\ i \in 1..(k + (n - m)) /\ ~(i <= k)
            /\ i - k \in 1..(n - m) /\ i - k \in 1..(n + 1 - m)
            /\ \A j \in 1..(n - m) : m + j \in 1..n
        BY <2>1, <3>0, <3>2
      <4>2. \A j \in 1..(n - m) : long[j] = p[m + j]
        <5>1. \A j \in 1..(n - m) : j \in 1..(n + 1 - m)
          BY <2>1
        <5>2. ASSUME NEW j \in 1..(n - m) PROVE long[j] = p[m + j]
          <6>1. j \in 1..(n + 1 - m) /\ m + j \in 1..n
            BY <4>1, <5>1
          <6>2. long[j] = q[m + j]
            BY <2>3, <6>1
          <6>3. q[m + j] = p[m + j]
            BY <2>1, <6>1
          <6> QED  BY <6>2, <6>3
        <5> QED  BY <5>2
      <4>3. long[i - k] = p[m + (i - k)] /\ tail[i - k] = p[m + (i - k)]
        BY <2>2, <4>1, <4>2
      <4>4. left[i] = long[i - k]
        BY <2>4, <4>1
      <4>5. right[i] = tail[i - k]
        BY <2>5, <2>6, <4>1
      <4> QED  BY <4>3, <4>4, <4>5
    <3>3. CASE i = k + (n - m) + 1
      <4>1. /\ i \in 1..(k + (n + 1 - m)) /\ ~(i <= k)
            /\ i - k = n + 1 - m /\ n + 1 - m \in 1..(n + 1 - m)
            /\ m + (n + 1 - m) = n + 1
        BY <2>1, <3>0, <3>3
      <4>2. long[n + 1 - m] = q[m + (n + 1 - m)]
        BY <2>3, <4>1
      <4>3. left[i] = long[i - k]
        BY <2>4, <4>1
      <4>4. left[i] = v
        BY <2>1, <4>1, <4>2, <4>3
      <4> QED  BY <2>6, <3>3, <4>4
    <3>4. i <= k \/ (k < i /\ i <= k + (n - m)) \/ i = k + (n - m) + 1
      BY <2>1, <3>0
    <3> QED  BY <3>1, <3>2, <3>3, <3>4
  <2>9. left = right
    BY <2>4, <2>6, <2>7, <2>8, SeqEqual
  <2> QED  BY <2>1, <2>9 DEF Rerooted, left, right, tail, long, q, m, n
<1> QED  BY <1>1, <1>2

\* A node that moves.
Moving(old, new, node) == [node EXCEPT !.path = Rerooted(old, new, @)]

LEMMA MovingNode ==
    ASSUME NEW e, NEW f, Bare(e) = Bare(f), NEW p, NEW old, NEW new
    PROVE  Node(e, Rerooted(old, new, p)) = Moving(old, new, Node(f, p))
BY DEF Bare, Node, Moving

\* Once nothing is at the new path, the entry and all below it move there.
LEMMA MovedPlaces ==
    ASSUME NEW s1, IsPathTree(s1), NEW old_parent \in FromRoot(Pointers(s1)),
           IsDirectory(s1.fst[old_parent]), NEW index \in Children(s1, old_parent),
           NEW new_parent \in FromRoot(Pointers(s1)),
           IsDirectory(s1.fst[new_parent]),
           new_parent \notin Within(Pointers(s1), index),
           NEW name \in Names, StoredName(name) = name,
           \A i \in ChildrenOf(Pointers(s1), new_parent) : s1.fst[i].name # name
    PROVE  LET unlinked == RemoveFstEntryFromChain(s1, old_parent, index)
               s2  == Relinked(unlinked.sb, index, s1.fst[index], new_parent, name)
               old == PlaceOf(s1, index)
               new == Append(PlaceOf(s1, new_parent), name)
           IN  /\ IsPathTree(s2) /\ FromRoot(Pointers(s2)) = FromRoot(Pointers(s1))
               /\ \A i \in FromRoot(Pointers(s1)) \ Within(Pointers(s1), index) :
                     PlaceOf(s2, i) = PlaceOf(s1, i)
               /\ TreeOf(s2) =
                     {n \in TreeOf(s1) : ~Tree!IsPrefix(old, n.path)} \cup
                     {Moving(old, new, n) :
                         n \in {m \in TreeOf(s1) : Tree!IsPrefix(old, m.path)}}
<1> DEFINE unlinked == RemoveFstEntryFromChain(s1, old_parent, index)
           s2 == Relinked(unlinked.sb, index, s1.fst[index], new_parent, name)
           old == PlaceOf(s1, index)
           new == Append(PlaceOf(s1, new_parent), name)
           g == Pointers(s1)
           h == Pointers(s2)
           W == Within(g, index)
           Q == [i \in FromRoot(h) |->
                    IF i \in W THEN Rerooted(old, new, PlaceOf(s1, i))
                               ELSE PlaceOf(s1, i)]
<1>1. /\ s1 \in Superblock /\ IsFstTree(s1) /\ SiblingNamesUnique(s1)
      /\ EntriesNamed(s1)
  BY DEF IsPathTree
<1>2. /\ 0 \in FromRoot(g) /\ FromRoot(g) \subseteq FstIndices /\ IsTree(g)
      /\ index \in ChildrenOf(g, old_parent) /\ old_parent \in FstIndices
      /\ new_parent \in FstIndices
  BY PathTreeFacts, ChildrenInGraph
<1>3. index \in FromRoot(g) /\ index # 0 /\ index \in FstIndices
  BY <1>2, PathTreeFacts
<1>4. Moved(s1, s2, index, new_parent, name)
  BY <1>1, MovingKeepsTree
<1>5. SameBare(s1, s2, FstIndices)
  BY <1>1, <1>2, <1>3, MovingKeepsBare
<1>6. s2 \in Superblock
  <2>1. unlinked.sb \in Superblock
    BY <1>1, <1>2, <1>3, RemovalUnlinks
  <2>2. s1.fst[index] \in FstEntry
    BY <1>1, <1>3 DEF Superblock
  <2> HIDE DEF unlinked
  <2> QED  BY <1>2, <1>3, <2>1, <2>2, RelinkedType
<1>7. SiblingNamesUnique(s2)
  BY <1>1, <1>4, MovingKeepsNames
<1>8. /\ IsFstTree(s2) /\ FromRoot(h) = FromRoot(g)
      /\ \A i \in FromRoot(g) \ {index} : SameEntry(s1, s2, i)
      /\ s2.fst[index].name = name
      /\ \A d \in FromRoot(g) :
            ChildrenOf(h, d) \subseteq
                IF d = new_parent THEN {index} \cup ChildrenOf(g, d)
                                  ELSE ChildrenOf(g, d) \ {index}
  BY <1>4 DEF Moved
<1> HIDE DEF s2, unlinked
<1>9. EntriesNamed(s2)
  <2>1. \A i \in FromRoot(g) \ {index} : s2.fst[i].name = s1.fst[i].name
    BY <1>8 DEF SameEntry
  <2> QED  BY <1>1, <1>8, <2>1 DEF EntriesNamed
<1>10. IsPathTree(s2)
  BY <1>6, <1>7, <1>8, <1>9 DEF IsPathTree
<1>11. /\ old \in Seq(Names) /\ new \in Seq(Names)
       /\ \A i \in FromRoot(g) : PlaceOf(s1, i) \in Seq(Names)
       /\ \A i \in FromRoot(g) :
             Tree!IsPrefix(old, PlaceOf(s1, i)) <=> i \in W
  <2>1. \A i \in FromRoot(g) : PlaceOf(s1, i) \in Seq(Names)
    BY PlaceFacts
  <2>2. \A i \in FromRoot(g) :
             Tree!IsPrefix(old, PlaceOf(s1, i)) <=> i \in W
    BY <1>3, PlaceFacts
  <2> QED  BY <1>3, <2>1, <2>2, SeqOfNames
<1>12. index \in W /\ new_parent \notin W
  BY DEF Within
<1>13. \A i \in FromRoot(g) :
          Q[i] = IF i \in W THEN Rerooted(old, new, PlaceOf(s1, i))
                            ELSE PlaceOf(s1, i)
  BY <1>8
<1> HIDE DEF Q
<1>14. IsPlacing(s2, Q)
  <2>1. Q[0] = <<>>
    <3>1. 0 \notin W
      BY <1>2, <1>3, BelowInTree DEF Within
    <3>2. PlaceOf(s1, 0) = <<>>
      BY PlaceFacts
    <3> QED  BY <1>2, <1>13, <3>1, <3>2
  <2>2. ASSUME NEW d \in FromRoot(h), NEW i \in ChildrenOf(h, d)
        PROVE  Q[i] = Append(Q[d], s2.fst[i].name)
    <3>0. d \in FromRoot(g)
      BY <1>8
    <3>1. CASE i = index
      <4>1. d = new_parent
        BY <1>8, <2>2, <3>0, <3>1
      <4>2. Q[i] = Rerooted(old, new, old)
        BY <1>3, <1>12, <1>13, <3>1
      <4>3. Rerooted(old, new, old) = new
        BY <1>11, Rerooting
      <4>4. Q[d] = PlaceOf(s1, new_parent)
        BY <1>12, <1>13, <3>0, <4>1
      <4>5. Q[i] = Append(PlaceOf(s1, new_parent), name)
        BY <4>2, <4>3
      <4> QED  BY <1>8, <3>1, <4>4, <4>5
    <3>2. CASE i # index
      <4>1. i \in ChildrenOf(g, d)
        BY <1>8, <2>2, <3>0, <3>2
      <4>2. i \in FromRoot(g) /\ s1.fst[i].name \in Names
        <5>1. i \in FromRoot(g) /\ i # 0
          BY <3>0, <4>1, PathTreeFacts
        <5> QED  BY <1>1, <5>1 DEF EntriesNamed
      <4>3. PlaceOf(s1, i) = Append(PlaceOf(s1, d), s1.fst[i].name)
        BY <3>0, <4>1, PlaceFacts
      <4>4. s2.fst[i].name = s1.fst[i].name
        BY <1>8, <3>2, <4>2 DEF SameEntry
      <4>5. CASE d \in W
        <5>1. i \in W
          <6>1. i \in Below(g, d)
            BY <4>1, ChildrenAreBelow
          <6> QED  BY <4>5, <6>1, BelowIsTransitive DEF Within
        <5>2. Len(old) <= Len(PlaceOf(s1, d))
          <6>1. Tree!IsPrefix(old, PlaceOf(s1, d))
            BY <1>11, <3>0, <4>5
          <6> QED  BY <6>1 DEF Tree!IsPrefix
        <5> DEFINE p == PlaceOf(s1, d)
                   v == s1.fst[i].name
        <5>3. p \in Seq(Names) /\ v \in Names /\ Len(old) <= Len(p)
          BY <1>11, <3>0, <4>2, <5>2
        <5>4. Q[d] = Rerooted(old, new, p)
          BY <1>13, <3>0, <4>5
        <5>5. Q[i] = Rerooted(old, new, Append(p, v))
          BY <1>13, <4>2, <4>3, <5>1
        <5> HIDE DEF p, v, old, new
        <5>6. \A r \in Seq(Names), w \in Names : Len(old) <= Len(r) =>
                 Rerooted(old, new, Append(r, w)) = Append(Rerooted(old, new, r), w)
          BY <1>11, Rerooting
        <5>7. Rerooted(old, new, Append(p, v)) = Append(Rerooted(old, new, p), v)
          BY <5>3, <5>6
        <5> QED  BY <4>4, <5>4, <5>5, <5>7 DEF v
      <4>6. CASE d \notin W
        <5>1. i \notin W
          BY <1>2, <1>3, <3>0, <3>2, <4>1, <4>6, ChildrenOutside DEF Within
        <5> QED  BY <1>13, <3>0, <4>2, <4>3, <4>4, <4>6, <5>1
      <4> QED  BY <4>5, <4>6
    <3> QED  BY <3>1, <3>2
  <2> QED  BY <2>1, <2>2 DEF IsPlacing, h
<1>15. /\ TreeOf(s2) = {Node(s2.fst[i], Q[i]) : i \in FromRoot(h)}
       /\ \A i \in FromRoot(h) : PlaceOf(s2, i) = Q[i]
  BY <1>6, <1>8, <1>14, TreeOfPlacing
<1>16. \A i \in FromRoot(g) \ W : PlaceOf(s2, i) = PlaceOf(s1, i)
  BY <1>8, <1>13, <1>15
<1>17. TreeOf(s2) =
          {n \in TreeOf(s1) : ~Tree!IsPrefix(old, n.path)} \cup
          {Moving(old, new, n) :
              n \in {m \in TreeOf(s1) : Tree!IsPrefix(old, m.path)}}
  <2> DEFINE N1(i) == Node(s1.fst[i], PlaceOf(s1, i))
             N2(i) == Node(s2.fst[i], Q[i])
             Inside(n) == Tree!IsPrefix(old, n.path)
             M(n) == Moving(old, new, n)
  <2>1. TreeOf(s1) = {N1(i) : i \in FromRoot(g)}
    BY PlaceFacts
  <2>2. ASSUME NEW i \in FromRoot(g)
        PROVE  N2(i) = IF i \in W THEN M(N1(i)) ELSE N1(i)
    <3>1. Bare(s2.fst[i]) = Bare(s1.fst[i])
      BY <1>2, <1>5 DEF SameBare
    <3>2. CASE i \in W
      <4>1. Q[i] = Rerooted(old, new, PlaceOf(s1, i))
        BY <1>13, <3>2
      <4>2. Node(s2.fst[i], Rerooted(old, new, PlaceOf(s1, i))) = M(N1(i))
        BY <3>1, MovingNode
      <4> QED  BY <3>2, <4>1, <4>2
    <3>3. CASE i \notin W
      <4>1. Q[i] = PlaceOf(s1, i)
        BY <1>13, <3>3
      <4>2. N2(i) = N1(i)
        BY <3>1, <4>1, BareIsNode
      <4> QED  BY <3>3, <4>2
    <3> QED  BY <3>2, <3>3
  <2>3. \A i \in FromRoot(g) : Inside(N1(i)) <=> i \in W
    <3>1. \A i : N1(i).path = PlaceOf(s1, i)
      BY NodeFields
    <3> HIDE DEF N1
    <3> QED  BY <1>11, <3>1
  <2> HIDE DEF N1, N2, g, h, Inside, M, W
  <2>4. TreeOf(s2) = {N2(i) : i \in FromRoot(g)}
    BY <1>8, <1>15 DEF N2
  <2>5. TreeOf(s2) = {n \in TreeOf(s1) : ~Inside(n)} \cup
                     {M(n) : n \in {m \in TreeOf(s1) : Inside(m)}}
    BY <2>1, <2>2, <2>3, <2>4
  <2> QED  BY <2>5 DEF Inside, M
<1> QED  BY <1>8, <1>10, <1>16, <1>17 DEF s2, unlinked

\* Above a place there are places.
LEMMA PlacesAbove ==
    ASSUME NEW sb, IsPathTree(sb), NEW p \in Seq(Everything)
    PROVE  \A i \in FromRoot(Pointers(sb)) : Tree!IsPrefix(p, PlaceOf(sb, i)) =>
              \E j \in FromRoot(Pointers(sb)) : PlaceOf(sb, j) = p
<1> DEFINE g == Pointers(sb)
           There == \E j \in FromRoot(g) : PlaceOf(sb, j) = p
           S == {i \in FromRoot(g) : Tree!IsPrefix(p, PlaceOf(sb, i)) => There}
<1>1. /\ IsTree(g) /\ 0 \in FromRoot(g) /\ PlaceOf(sb, 0) = <<>>
  BY PathTreeFacts, PlaceFacts
<1>2. 0 \in S
  <2>1. ASSUME Tree!IsPrefix(p, <<>>) PROVE p = <<>>
    <3>1. Len(p) <= 0 /\ Len(p) \in Nat
      BY <2>1 DEF Tree!IsPrefix
    <3> QED  BY <3>1
  <2> QED  BY <1>1, <2>1
<1>3. ASSUME NEW d \in FromRoot(g) \cap S, NEW i \in ChildrenOf(g, d)
      PROVE  i \in S
  <2>1. i \in FromRoot(g) /\ sb.fst[i].name \in Names
    BY <1>3, PathTreeFacts
  <2>2. PlaceOf(sb, i) = Append(PlaceOf(sb, d), sb.fst[i].name)
    BY <1>3, PlaceFacts
  <2>3. PlaceOf(sb, d) \in Seq(Everything) /\ sb.fst[i].name \in Everything
    <3>1. PlaceOf(sb, d) \in Seq(Names)
      BY <1>3, PlaceFacts
    <3> QED  BY <2>1, <3>1, SeqOfNames DEF Everything
  <2>4. Tree!IsPrefix(p, PlaceOf(sb, i)) <=>
           p = PlaceOf(sb, i) \/ Tree!IsPrefix(p, PlaceOf(sb, d))
    BY <2>2, <2>3, PrefixOfAppend
  <2> QED  BY <1>3, <2>1, <2>4
<1>4. FromRoot(g) \subseteq S
  <2> HIDE DEF S
  <2>1. \A d \in FromRoot(g) \cap S : ChildrenOf(g, d) \subseteq S
    BY <1>3
  <2> HIDE DEF g
  <2> QED  BY <1>1, <1>2, <2>1, DownTheTree
<1> QED  BY <1>4

\* What a call finds at a path that is not the root's.
LEMMA FoundByPath ==
    ASSUME IsPathTree(superblock), NEW path \in Paths, path # <<>>,
           AvoidsFiles(superblock, path),
           GetFstIndex(superblock, SplitPath(path).parent) # NIL
    PROVE  LET name   == SplitPath(path).file_name
               parent == GetFstIndex(superblock, SplitPath(path).parent)
               index  == ChildIndex(superblock, parent, name)
           IN  /\ path \in Seq(Components)
               /\ parent \in FromRoot(Pointers(superblock))
               /\ IsDirectory(superblock.fst[parent])
               /\ path = Append(PlaceOf(superblock, parent), name)
               /\ index = GetFstIndex(superblock, path)
               /\ index # NIL => /\ index \in FromRoot(Pointers(superblock))
                                 /\ index \in Children(superblock, parent)
                                 /\ PlaceOf(superblock, index) = path
               /\ index = NIL => Tree!From(path) = {}
<1> DEFINE name   == SplitPath(path).file_name
           parent == GetFstIndex(superblock, SplitPath(path).parent)
           index  == ChildIndex(superblock, parent, name)
           g      == Pointers(superblock)
<1>1. /\ path \in Seq(Components) /\ Len(path) \in 1..Len(path)
      /\ parent \in FromRoot(g) /\ IsDirectory(superblock.fst[parent])
      /\ index = At(superblock, path, Len(path))
      /\ index # NIL => /\ index \in Children(superblock, parent)
                        /\ index \in FromRoot(g)
  BY ParentOfPath DEF IsPathTree
<1>2. SubSeq(path, 1, Len(path)) = path
  BY <1>1
<1>3. index = GetFstIndex(superblock, path)
  BY <1>1, <1>2 DEF At
<1>4. /\ SplitPath(path).parent \in Seq(Components)
      /\ path = Append(SplitPath(path).parent, path[Len(path)])
      /\ name = path[Len(path)]
      /\ AvoidsFiles(superblock, SplitPath(path).parent)
  BY <1>1, PathSplit
<1>5. PlaceOf(superblock, parent) = SplitPath(path).parent
  BY <1>4, PathFacts
<1>6. index # NIL => PlaceOf(superblock, index) = path
  BY <1>1, <1>3, PathFacts
<1>7. ASSUME index = NIL PROVE Tree!From(path) = {}
  <2> SUFFICES ASSUME NEW n \in TreeOf(superblock), Tree!IsPrefix(path, n.path)
               PROVE  FALSE
    BY DEF Tree!From
  <2>1. PICK i \in FromRoot(g) : n = Node(superblock.fst[i], PlaceOf(superblock, i))
    BY PlaceFacts
  <2>2. n.path = PlaceOf(superblock, i)
    BY <2>1, NodeFields
  <2>3. ASSUME path \in Seq(Everything) PROVE FALSE
    <3>1. PICK j \in FromRoot(g) : PlaceOf(superblock, j) = path
      BY <2>2, <2>3, PlacesAbove
    <3>2. GetFstIndex(superblock, path) = j
      BY <3>1, PlaceFacts
    <3>3. j \in FstIndices
      BY PathTreeFacts
    <3> QED  BY <1>3, <1>7, <3>2, <3>3, NilIsNoIndex
  <2>4. ASSUME path \notin Seq(Everything) PROVE FALSE
    <3>1. PlaceOf(superblock, i) \in Seq(Names)
      BY PlaceFacts
    <3> DEFINE p == PlaceOf(superblock, i)
    <3>2. /\ Len(path) <= Len(p)
          /\ SubSeq(path, 1, Len(path)) = SubSeq(p, 1, Len(path))
      BY <2>2 DEF Tree!IsPrefix
    <3>3. path = SubSeq(p, 1, Len(path)) /\ Len(path) \in 0..Len(p)
      BY <1>1, <1>2, <3>1, <3>2
    <3>4. SubSeq(p, 1, Len(path)) \in Seq(Names)
      <4>1. \A k \in 1..Len(path) : p[k] \in Names
        BY <3>1, <3>3
      <4> HIDE DEF p
      <4> QED  BY <1>1, <3>1, <4>1, SubSeqProperties
    <3> QED  BY <2>4, <3>3, <3>4, SeqOfNames
  <2> QED  BY <2>3, <2>4
<1> QED  BY <1>1, <1>3, <1>4, <1>5, <1>6, <1>7

\* Of two places above a third, one is above the other.
LEMMA PrefixesCompare ==
    ASSUME NEW p \in Seq(Names), NEW q \in Seq(Names), NEW r \in Seq(Names),
           Tree!IsPrefix(p, r), Tree!IsPrefix(q, r), Len(p) <= Len(q)
    PROVE  Tree!IsPrefix(p, q)
<1> DEFINE n == Len(p)
<1>1. /\ n \in Nat /\ Len(q) \in Nat /\ n <= Len(q) /\ Len(q) <= Len(r)
      /\ SubSeq(p, 1, n) = SubSeq(r, 1, n)
      /\ SubSeq(q, 1, Len(q)) = SubSeq(r, 1, Len(q))
      /\ SubSeq(q, 1, Len(q)) = q
  BY DEF Tree!IsPrefix
<1> HIDE DEF n
<1>2. /\ p \in Seq(Components) /\ q \in Seq(Components) /\ r \in Seq(Components)
  BY SeqOfNames
<1>3. /\ SubSeq(q, 1, n) \in Seq(Components) /\ Len(SubSeq(q, 1, n)) = n
      /\ \A i \in 1..n : SubSeq(q, 1, n)[i] = q[i]
  BY <1>1, <1>2, PrefixFacts
<1>4. /\ SubSeq(r, 1, n) \in Seq(Components) /\ Len(SubSeq(r, 1, n)) = n
      /\ \A i \in 1..n : SubSeq(r, 1, n)[i] = r[i]
  BY <1>1, <1>2, PrefixFacts
<1>5. \A i \in 1..n : q[i] = r[i]
  <2>1. \A i \in 1..Len(q) : SubSeq(r, 1, Len(q))[i] = r[i]
    BY <1>1, <1>2, PrefixFacts
  <2> QED  BY <1>1, <2>1
<1>6. SubSeq(q, 1, n) = SubSeq(r, 1, n)
  BY <1>3, <1>4, <1>5, SeqEqual
<1> QED  BY <1>1, <1>6 DEF Tree!IsPrefix, n

\* The trees below two entries have nothing in common, unless one is below the
\* other.
LEMMA SubtreesDiffer ==
    ASSUME NEW sb, IsPathTree(sb), NEW x \in FromRoot(Pointers(sb)),
           NEW y \in FromRoot(Pointers(sb)), NEW i \in FromRoot(Pointers(sb)),
           i \in Within(Pointers(sb), x), i \in Within(Pointers(sb), y)
    PROVE  x \in Within(Pointers(sb), y) \/ y \in Within(Pointers(sb), x)
<1> DEFINE p == PlaceOf(sb, x)
           q == PlaceOf(sb, y)
           r == PlaceOf(sb, i)
<1>1. p \in Seq(Names) /\ q \in Seq(Names) /\ r \in Seq(Names)
  BY PlaceFacts
<1>2. Tree!IsPrefix(p, r) /\ Tree!IsPrefix(q, r)
  BY PlaceFacts
<1>3. Tree!IsPrefix(p, q) \/ Tree!IsPrefix(q, p)
  <2> HIDE DEF p, q, r
  <2>1. Len(p) <= Len(q) \/ Len(q) <= Len(p)
    BY <1>1
  <2> QED  BY <1>1, <1>2, <2>1, PrefixesCompare
<1>4. \A j, k \in FromRoot(Pointers(sb)) :
         Tree!IsPrefix(PlaceOf(sb, j), PlaceOf(sb, k)) <=>
             k \in Within(Pointers(sb), j)
  BY PlaceFacts
<1> QED  BY <1>3, <1>4

\* The open files stay where they are.
KeepsOpenPlaces(sb) == \A fd \in Fds, i \in Live(superblock) :
    Opens(fd, i) => PlaceOf(sb, i) = PlaceOf(superblock, i)

LEMMA RenamedPlaces ==
    ASSUME TypeOK, OpenFilesAreFiles, IsPathTree(superblock), NEW fd \in HandleIds,
           NEW old_path \in Paths, NEW new_path \in Paths,
           RenameCode(fd, old_path, new_path) = "Success",
           ~ThroughFile(old_path), ~ThroughFile(new_path),
           ~IsProperPrefix(new_path, old_path), ~IsProperPrefix(old_path, new_path),
           new_path[Len(new_path)] \notin LongNames
    PROVE  LET renamed == Renamed(old_path, new_path)
           IN  /\ renamed.code = "Success" /\ IsPathTree(renamed.sb)
               /\ KeepsOpenPlaces(renamed.sb)
               /\ TreeOf(renamed.sb) =
                     (TreeOf(superblock) \ (Tree!From(old_path) \cup
                                            Tree!From(new_path))) \cup
                     {Moving(old_path, new_path, n) : n \in Tree!From(old_path)}
<1> DEFINE split      == SplitPath(old_path)
           to         == SplitPath(new_path)
           old_parent == GetFstIndex(superblock, split.parent)
           new_parent == GetFstIndex(superblock, to.parent)
           index      == ChildIndex(superblock, old_parent, split.file_name)
           new_index  == ChildIndex(superblock, new_parent, to.file_name)
           replaced   == Replaced(new_parent, new_index)
           s1         == replaced.sb
           name       == to.file_name
           unlinked   == RemoveFstEntryFromChain(s1, old_parent, index)
           moved      == Relinked(unlinked.sb, index, s1.fst[index], new_parent,
                                  name)
           g          == Pointers(superblock)
           Was(n)     == Tree!IsPrefix(old_path, n.path)
           Gone(n)    == Tree!IsPrefix(new_path, n.path)
<1>0. /\ superblock \in Superblock /\ IsFstTree(superblock)
      /\ SiblingNamesUnique(superblock)
      /\ AvoidsFiles(superblock, old_path) /\ AvoidsFiles(superblock, new_path)
      /\ old_path # <<>> /\ new_path # <<>>
      /\ old_parent # NIL /\ new_parent # NIL /\ index # NIL
      /\ new_index # NIL => new_index # index
  BY NotThroughFile DEF IsPathTree, RenameCode, IsValidNonRootPath
<1>1. /\ old_parent \in FromRoot(g) /\ IsDirectory(superblock.fst[old_parent])
      /\ new_parent \in FromRoot(g) /\ IsDirectory(superblock.fst[new_parent])
      /\ index \in Children(superblock, old_parent)
      /\ index \in FstIndices /\ ~InUse(index)
      /\ name = new_path[Len(new_path)] /\ StoredName(name) \in Names
      /\ new_index # NIL => /\ new_index \in Children(superblock, new_parent)
                            /\ superblock.fst[new_index].name = name
                            /\ Deletable(new_index)
                            /\ index \notin Within(g, new_index)
      /\ new_parent \notin Within(g, index)
      /\ Renamed(old_path, new_path) =
            IF replaced.code # "Success" THEN replaced
            ELSE IF unlinked.code # "Success" THEN unlinked
            ELSE [code |-> "Success", sb |-> moved]
  BY <1>0, RenamePlaces
<1>2. index \in FromRoot(g) /\ PlaceOf(superblock, index) = old_path
  BY <1>0, FoundByPath
<1>3. /\ new_path = Append(PlaceOf(superblock, new_parent), name)
      /\ new_index # NIL => /\ new_index \in FromRoot(g)
                            /\ PlaceOf(superblock, new_index) = new_path
      /\ new_index = NIL => Tree!From(new_path) = {}
  BY <1>0, FoundByPath
<1>4. name \in Names /\ StoredName(name) = name
  BY <1>1 DEF StoredName
<1>5. /\ Tree!From(old_path) = {n \in TreeOf(superblock) : Was(n)}
      /\ Tree!From(new_path) = {n \in TreeOf(superblock) : Gone(n)}
  BY DEF Tree!From
<1>6. /\ Live(superblock) = FromRoot(g)
      /\ Children(superblock, new_parent) = ChildrenOf(g, new_parent)
      /\ IsTree(g)
  BY <1>0, <1>1, TreeFacts
<1> HIDE DEF split, to, old_parent, new_parent, index, new_index, name
<1>7. \A i, j \in Children(superblock, new_parent) :
         superblock.fst[i].name = superblock.fst[j].name => i = j
  <2>1. new_parent \in LiveDirectories(superblock)
    BY <1>1, <1>6 DEF LiveDirectories
  <2> QED  BY <1>0, <2>1 DEF SiblingNamesUnique
<1>8. \A k \in Fds, i \in FstIndices : Opens(k, i) => i \notin Within(g, index)
  BY <1>1, NothingOpenWithin
<1>9. /\ replaced.code = "Success" /\ s1 \in Superblock /\ IsPathTree(s1)
      /\ old_parent \in FromRoot(Pointers(s1)) /\ IsDirectory(s1.fst[old_parent])
      /\ new_parent \in FromRoot(Pointers(s1)) /\ IsDirectory(s1.fst[new_parent])
      /\ index \in Children(s1, old_parent)
      /\ Within(Pointers(s1), index) \subseteq Within(g, index)
      /\ FromRoot(Pointers(s1)) \subseteq FromRoot(g)
      /\ KeepsOpenLive(s1)
      /\ \A i \in ChildrenOf(Pointers(s1), new_parent) : s1.fst[i].name # name
      /\ \A i \in FromRoot(Pointers(s1)) : PlaceOf(s1, i) = PlaceOf(superblock, i)
      /\ TreeOf(s1) = {n \in TreeOf(superblock) : ~Gone(n)}
      /\ \A n \in TreeOf(superblock) : Was(n) => ~Gone(n)
  <2>1. CASE new_index = NIL
    <3>1. replaced = [code |-> "Success", sb |-> superblock]
      BY <2>1 DEF Replaced
    <3>2. KeepsOpenLive(superblock)
      BY DEF KeepsOpenLive
    <3>3. \A i \in Children(superblock, new_parent) :
             superblock.fst[i].name # name
      BY <1>1, <1>7, <2>1, NoSuchChild DEF new_index, name
    <3>4. \A n \in TreeOf(superblock) : ~Gone(n)
      <4> HIDE DEF Gone
      <4> QED  BY <1>3, <1>5, <2>1
    <3> HIDE DEF replaced, Gone, Was
    <3> QED  BY <1>0, <1>1, <1>6, <3>1, <3>2, <3>3, <3>4
  <2>2. CASE new_index # NIL
    <3>1. replaced = RemoveFstEntryFromChain(DeleteContents(new_index),
                                             new_parent, new_index)
      BY <2>2 DEF Replaced
    <3>2. LET sb == RemoveFstEntryFromChain(DeleteContents(new_index), new_parent,
                                            new_index).sb
          IN  /\ IsPathTree(sb)
              /\ \A i \in FromRoot(Pointers(sb)) :
                    PlaceOf(sb, i) = PlaceOf(superblock, i)
              /\ TreeOf(sb) = {n \in TreeOf(superblock) :
                    ~Tree!IsPrefix(PlaceOf(superblock, new_index), n.path)}
      BY <1>1, <2>2, RemovedPlaces
    <3> HIDE DEF replaced, s1
    <3>3. s1 = replaced.sb
      BY DEF s1
    <3>4. /\ replaced.code = "Success" /\ s1 \in Superblock
          /\ Removed(superblock, s1, new_index)
          /\ old_parent \in FromRoot(Pointers(s1))
          /\ IsDirectory(s1.fst[old_parent])
          /\ new_parent \in FromRoot(Pointers(s1))
          /\ IsDirectory(s1.fst[new_parent])
          /\ index \in Children(s1, old_parent)
          /\ Within(Pointers(s1), index) \subseteq Within(g, index)
          /\ KeepsOpenLive(s1)
      BY <1>0, <1>1, <2>2, <3>1, <3>3, ReplacedTree DEF Deletable
    <3>5. /\ IsPathTree(s1)
          /\ \A i \in FromRoot(Pointers(s1)) :
                PlaceOf(s1, i) = PlaceOf(superblock, i)
          /\ TreeOf(s1) = {n \in TreeOf(superblock) : ~Gone(n)}
      BY <1>3, <2>2, <3>1, <3>2, <3>3
    <3>6. FromRoot(Pointers(s1)) \subseteq FromRoot(g)
      BY <3>4 DEF Removed
    <3>7. ASSUME NEW i \in ChildrenOf(Pointers(s1), new_parent)
          PROVE  s1.fst[i].name # name
      <4>1. i \in Children(superblock, new_parent) /\ i # new_index
        BY <1>6, <3>4 DEF Removed
      <4>2. i \in FromRoot(Pointers(s1))
        BY <3>4, <3>5, PathTreeFacts
      <4>3. s1.fst[i].name = superblock.fst[i].name
        BY <3>4, <4>2 DEF Removed, SameEntry
      <4> QED  BY <1>1, <1>7, <2>2, <4>1, <4>3
    <3>8. ASSUME NEW n \in TreeOf(superblock), Was(n), Gone(n) PROVE FALSE
      <4>1. PICK i \in FromRoot(g) :
               n = Node(superblock.fst[i], PlaceOf(superblock, i))
        BY PlaceFacts
      <4>2. n.path = PlaceOf(superblock, i)
        BY <4>1, NodeFields
      <4>3. \A j \in FromRoot(g) :
               Tree!IsPrefix(PlaceOf(superblock, j), PlaceOf(superblock, i)) <=>
                   i \in Within(g, j)
        BY PlaceFacts
      <4>4. i \in Within(g, index) /\ i \in Within(g, new_index)
        BY <1>2, <1>3, <2>2, <3>8, <4>2, <4>3
      <4>5. new_index \in Within(g, index)
        BY <1>1, <1>2, <1>3, <2>2, <4>4, SubtreesDiffer
      <4>6. new_index \in Below(g, index)
        BY <1>0, <2>2, <4>5 DEF Within, index, new_index
      <4> QED  BY <1>1, <1>2, <1>6, <2>2, <4>6, ChildrenOutside
    <3> HIDE DEF Gone, Was
    <3> QED  BY <3>4, <3>5, <3>6, <3>7, <3>8
  <2> QED  BY <2>1, <2>2
<1> HIDE DEF replaced, s1
<1>10. unlinked.code = "Success"
  BY <1>4, <1>9, MovingKeepsTree DEF IsPathTree
<1>11. new_parent \notin Within(Pointers(s1), index)
  BY <1>1, <1>9
<1>12. index \in FromRoot(Pointers(s1))
  BY <1>9, PathTreeFacts, ChildrenInGraph
<1>13. /\ PlaceOf(s1, index) = old_path
       /\ Append(PlaceOf(s1, new_parent), name) = new_path
  BY <1>2, <1>3, <1>9, <1>12
<1>14. /\ IsPathTree(moved)
       /\ FromRoot(Pointers(moved)) = FromRoot(Pointers(s1))
       /\ \A i \in FromRoot(Pointers(s1)) \ Within(Pointers(s1), index) :
             PlaceOf(moved, i) = PlaceOf(s1, i)
       /\ TreeOf(moved) = {n \in TreeOf(s1) : ~Was(n)} \cup
                          {Moving(old_path, new_path, n) :
                               n \in {m \in TreeOf(s1) : Was(m)}}
  <2>1. LET old == PlaceOf(s1, index)
            new == Append(PlaceOf(s1, new_parent), name)
        IN  /\ IsPathTree(moved)
            /\ FromRoot(Pointers(moved)) = FromRoot(Pointers(s1))
            /\ \A i \in FromRoot(Pointers(s1)) \ Within(Pointers(s1), index) :
                  PlaceOf(moved, i) = PlaceOf(s1, i)
            /\ TreeOf(moved) =
                  {n \in TreeOf(s1) : ~Tree!IsPrefix(old, n.path)} \cup
                  {Moving(old, new, n) :
                      n \in {m \in TreeOf(s1) : Tree!IsPrefix(old, m.path)}}
    BY <1>4, <1>9, <1>11, MovedPlaces
  <2> HIDE DEF moved
  <2> QED  BY <1>13, <2>1
<1> HIDE DEF unlinked, moved
<1>15. Renamed(old_path, new_path) = [code |-> "Success", sb |-> moved]
  BY <1>1, <1>9, <1>10
<1>16. KeepsOpenPlaces(moved)
  <2> SUFFICES ASSUME NEW k \in Fds, NEW i \in Live(superblock), Opens(k, i)
               PROVE  PlaceOf(moved, i) = PlaceOf(superblock, i)
    BY DEF KeepsOpenPlaces
  <2>1. i \in FstIndices
    BY <1>0, <1>6, TreeFacts
  <2>2. i \in FromRoot(Pointers(s1))
    <3>1. Live(s1) = FromRoot(Pointers(s1))
      BY <1>9, PathTreeFacts
    <3> QED  BY <1>9, <3>1 DEF KeepsOpenLive
  <2>3. i \notin Within(Pointers(s1), index)
    BY <1>8, <1>9, <2>1
  <2> QED  BY <1>9, <1>14, <2>2, <2>3
<1>17. TreeOf(moved) =
          (TreeOf(superblock) \ (Tree!From(old_path) \cup Tree!From(new_path)))
          \cup {Moving(old_path, new_path, n) : n \in Tree!From(old_path)}
  <2> DEFINE M(n) == Moving(old_path, new_path, n)
  <2> HIDE DEF Was, Gone, M
  <2>1. TreeOf(moved) = {n \in TreeOf(s1) : ~Was(n)} \cup
                        {M(n) : n \in {m \in TreeOf(s1) : Was(m)}}
    BY <1>14 DEF M
  <2>2. TreeOf(moved) =
           (TreeOf(superblock) \ (Tree!From(old_path) \cup Tree!From(new_path)))
           \cup {M(n) : n \in Tree!From(old_path)}
    BY <1>5, <1>9, <2>1
  <2> QED  BY <2>2 DEF M
<1> QED  BY <1>14, <1>15, <1>16, <1>17

-----------------------------------------------------------------------------
(* The descriptors.                                                        *)

\* What the proofs of this part know of a state: the tree of paths, and the open
\* files in it.
PathState ==
    /\ TypeOK /\ IsPathTree(superblock)
    /\ OpenFilesAreFiles /\ OpenFilesLive

\* What the refinement mapping makes of a superblock and a handle table.
PlaceOfHandle(sb, h) == IF h.fst_index = NIL THEN <<>> ELSE PlaceOf(sb, h.fst_index)

OpenedIn(sb, hs) ==
    [fd \in Fds |->
        IF ~hs[fd].opened THEN Closed
        ELSE [user |-> <<hs[fd].uid, hs[fd].gid>>,
              path |-> PlaceOfHandle(sb, hs[fd]),
              mode |-> hs[fd].mode]]

LEMMA OpenedState == Opened = OpenedIn(superblock, handles)
BY DEF Opened, OpenedIn, PathOf, PlaceOf, PlaceOfHandle

\* The file of an open descriptor is in the tree.
LEMMA OpenFilePlaces ==
    ASSUME PathState, NEW fd \in Fds, handles[fd].opened,
           handles[fd].fst_index # NIL
    PROVE  LET i == handles[fd].fst_index
           IN  /\ i \in FromRoot(Pointers(superblock)) /\ i \in FstIndices
               /\ IsFile(superblock.fst[i]) /\ Opens(fd, i)
               /\ PlaceOf(superblock, i) \in Seq(Names)
<1>1. handles[fd].fst_index \in Live(superblock)
  BY DEF PathState, OpenFilesLive, LiveFiles
<1>2. handles[fd].fst_index \in FromRoot(Pointers(superblock))
  BY <1>1, PathTreeFacts DEF PathState
<1>3. PlaceOf(superblock, handles[fd].fst_index) \in Seq(Names)
  BY <1>2, PlaceFacts DEF PathState
<1> QED  BY <1>2, <1>3 DEF PathState, OpenFilesAreFiles, Opens

LEMMA OpenedFields ==
    ASSUME PathState, NEW fd \in Fds
    PROVE  /\ ~handles[fd].opened => Opened[fd] = Closed
           /\ handles[fd].opened =>
                 /\ Opened[fd] # Closed
                 /\ Opened[fd].user = <<handles[fd].uid, handles[fd].gid>>
                 /\ Opened[fd].path = PlaceOfHandle(superblock, handles[fd])
                 /\ Opened[fd].mode = handles[fd].mode
<1>1. handles[fd] \in Handle
  BY DEF PathState, TypeOK, HandleIds
<1>2. Opened[fd] = IF ~handles[fd].opened THEN Closed
                   ELSE [user |-> <<handles[fd].uid, handles[fd].gid>>,
                         path |-> PlaceOfHandle(superblock, handles[fd]),
                         mode |-> handles[fd].mode]
  BY OpenedState DEF OpenedIn
<1>3. ASSUME handles[fd].opened
      PROVE  PlaceOfHandle(superblock, handles[fd]) \in Seq(Names)
  <2>1. CASE handles[fd].fst_index = NIL
    BY <2>1, SeqOfNames DEF PlaceOfHandle
  <2>2. CASE handles[fd].fst_index # NIL
    BY <1>3, <2>2, OpenFilePlaces DEF PlaceOfHandle
  <2> QED  BY <2>1, <2>2
<1>4. ASSUME handles[fd].opened PROVE Opened[fd] # Closed
  <2> DEFINE path == PlaceOfHandle(superblock, handles[fd])
  <2>1. path \in Seq(Names)
    BY <1>3, <1>4
  <2> HIDE DEF path
  <2>2. [user |-> <<handles[fd].uid, handles[fd].gid>>, path |-> path,
         mode |-> handles[fd].mode]
           \in [user : Uids \X Gids, path : Seq(Names), mode : FileMode]
    BY <1>1, <2>1 DEF Handle
  <2> QED  BY <1>2, <1>4, <2>2, RefinementAssumption DEF path
<1> QED  BY <1>2, <1>4

LEMMA OpenDescriptors ==
    ASSUME PathState
    PROVE  /\ Tree!OpenFds = {fd \in Fds : handles[fd].opened}
           /\ Tree!OpenFds = Fds <=> FreeHandles = {}
<1>1. \A fd \in Fds : Opened[fd] # Closed <=> handles[fd].opened
  BY OpenedFields
<1>2. Tree!OpenFds = {fd \in Fds : handles[fd].opened}
  BY <1>1 DEF Tree!OpenFds
<1> QED  BY <1>2 DEF FreeHandles

\* A traversal that goes down into all that is not a file sees what is below.
LEMMA TraversalInTree ==
    ASSUME NEW sb, IsPathTree(sb), NEW d \in FromRoot(Pointers(sb)),
           IsDirectory(sb.fst[d])
    PROVE  Traversal(sb, d, LAMBDA entry : ~IsFile(entry)) = Below(Pointers(sb), d)
<1> DEFINE g == Pointers(sb)
           S == Below(g, d)
           visits == [i \in FstIndices |->
                         ({sb.fst[i].sib} \cup
                          (IF ~IsFile(sb.fst[i]) THEN {sb.fst[i].sub} ELSE {}))
                         \cap FstIndices]
           from == {sb.fst[d].sub} \cap FstIndices
<1>1. d \in FstIndices /\ IsTree(g)
  BY PathTreeFacts
<1>2. S \subseteq Traversal(sb, d, LAMBDA entry : ~IsFile(entry))
  BY <1>1, TraversalIsBelow, DeletionIsChecked
<1>3. /\ S \subseteq FstIndices /\ ClosedIn(g, S)
      /\ g["sub"][d] \in FstIndices => g["sub"][d] \in S
  BY BelowIsClosed
<1>4. from \subseteq S
  BY <1>1, <1>3, PointersOf
<1>5. \A x \in S : visits[x] \subseteq S
  <2> SUFFICES ASSUME NEW x \in S PROVE visits[x] \subseteq S
    OBVIOUS
  <2>1. x \in FstIndices /\ x \in FromRoot(g)
    BY <1>1, <1>3, BelowInTree
  <2>2. ~IsFile(sb.fst[x]) => IsDirectory(sb.fst[x])
    BY <2>1, PathTreeFacts DEF IsFile, IsDirectory
  <2>3. /\ g["sib"][x] = sb.fst[x].sib
        /\ IsDirectory(sb.fst[x]) => g["sub"][x] = sb.fst[x].sub
    BY <2>1, PointersOf
  <2>4. \A k \in Kinds : g[k][x] \in FstIndices => g[k][x] \in S
    BY <1>3 DEF ClosedIn
  <2> HIDE DEF g, S
  <2> QED  BY <2>1, <2>2, <2>3, <2>4 DEF Kinds
<1>6. Traversal(sb, d, LAMBDA entry : ~IsFile(entry)) = Reachable(visits, from)
  BY DEF Traversal
<1>7. Reachable(visits, from) \subseteq S
  <2>1. S \in SUBSET DOMAIN visits
    BY <1>3
  <2> HIDE DEF visits, from, S
  <2> QED  BY <1>4, <1>5, <2>1, ReachableIsLeast
<1> QED  BY <1>2, <1>6, <1>7

\* The in-use checks, of an entry and of a path.
LEMMA InUseAgrees ==
    ASSUME PathState, NEW index \in FromRoot(Pointers(superblock)), index # 0
    PROVE  InUse(index) <=> Tree!InUse(PlaceOf(superblock, index))
<1> DEFINE g    == Pointers(superblock)
           path == PlaceOf(superblock, index)
           W    == Within(g, index)
<1>1. /\ IsPathTree(superblock) /\ TypeOK /\ OpenFilesAreFiles
      /\ index \in FstIndices /\ IsTree(g)
      /\ superblock.fst[index].type \in {"file", "directory"}
  BY PathTreeFacts DEF PathState
<1>2. \A i \in FromRoot(g) : Tree!IsPrefix(path, PlaceOf(superblock, i)) <=> i \in W
  BY <1>1, PlaceFacts
<1>3. ~Tree!IsPrefix(path, <<>>)
  <2>1. path \in Seq(Names) /\ path # <<>>
    BY <1>1, PlaceFacts
  <2> HIDE DEF path
  <2>2. Len(path) \in Nat \ {0}
    BY <2>1
  <2> QED  BY <2>2 DEF Tree!IsPrefix
<1>4. ASSUME InUse(index) PROVE Tree!InUse(path)
  <2>1. PICK i \in W : IsFileOpened(i)
    <3>1. CASE IsDirectory(superblock.fst[index])
      <4>1. PICK i \in Traversal(superblock, index, LAMBDA entry : ~IsFile(entry)) :
               IsFileOpened(i)
        BY <1>4, <3>1 DEF InUse, IsDirectoryInUse
      <4>2. i \in Below(g, index)
        BY <1>1, <3>1, <4>1, TraversalInTree
      <4> QED  BY <4>1, <4>2 DEF Within
    <3>2. CASE ~IsDirectory(superblock.fst[index])
      BY <1>4, <3>2 DEF InUse, Within
    <3> QED  BY <3>1, <3>2
  <2>2. PICK fd \in Fds : handles[fd].opened /\ handles[fd].fst_index = i
    BY <2>1 DEF IsFileOpened
  <2>3. W \subseteq FromRoot(g) /\ FromRoot(g) \subseteq FstIndices
    BY <1>1, BelowInTree, PathTreeFacts DEF Within
  <2>4. i # NIL /\ i \in FromRoot(g)
    BY <2>1, <2>3, NilIsNoIndex
  <2>5. Tree!IsPrefix(path, PlaceOf(superblock, i))
    BY <1>2, <2>1, <2>4
  <2>6. Opened[fd].path = PlaceOf(superblock, i) /\ fd \in Tree!OpenFds
    BY <2>2, <2>4, OpenedFields, OpenDescriptors DEF PlaceOfHandle
  <2> QED  BY <2>5, <2>6 DEF Tree!InUse
<1>5. ASSUME Tree!InUse(path), ~InUse(index) PROVE FALSE
  <2>1. PICK fd \in Tree!OpenFds : Tree!IsPrefix(path, Opened[fd].path)
    BY <1>5 DEF Tree!InUse
  <2>2. fd \in Fds /\ handles[fd].opened
    BY <2>1, OpenDescriptors
  <2>3. Opened[fd].path = PlaceOfHandle(superblock, handles[fd])
    BY <2>2, OpenedFields
  <2>4. handles[fd].fst_index # NIL
    BY <1>3, <2>1, <2>3 DEF PlaceOfHandle
  <2> DEFINE i == handles[fd].fst_index
  <2>5. i \in FromRoot(g) /\ i \in FstIndices /\ Opens(fd, i)
    BY <2>2, <2>4, OpenFilePlaces
  <2>6. i \in W
    BY <1>2, <2>1, <2>3, <2>4, <2>5 DEF PlaceOfHandle
  <2> QED  BY <1>1, <1>5, <2>2, <2>5, <2>6, NothingOpenWithin
<1> QED  BY <1>4, <1>5

-----------------------------------------------------------------------------
(* The result codes.                                                       *)

\* What a call finds at a path that is not the root's, and what the tree has there.
LEMMA LookupAgrees ==
    ASSUME PathState, NEW path \in Paths, path # <<>>, ~ThroughFile(path)
    PROVE  LET front  == Tree!Front(path)
               parent == GetFstIndex(superblock, SplitPath(path).parent)
               index  == ChildIndex(superblock, parent, SplitPath(path).file_name)
           IN  /\ Tree!DirectoryAt(front) = {} <=> parent = NIL
               /\ parent # NIL =>
                     /\ index = GetFstIndex(superblock, path)
                     /\ Tree!At(front) = {Node(superblock.fst[parent], front)}
                     /\ Tree!At(path) = {} <=> index = NIL
                     /\ index # NIL =>
                           /\ index \in FstIndices
                           /\ superblock.fst[index].type \in {"file", "directory"}
                           /\ Tree!At(path) = {Node(superblock.fst[index], path)}
                           /\ InUse(index) <=> Tree!InUse(path)
                     /\ Tree!FileAt(path) = {} <=>
                           (index = NIL \/ ~IsFile(superblock.fst[index]))
<1> DEFINE front  == Tree!Front(path)
           parent == GetFstIndex(superblock, SplitPath(path).parent)
           index  == ChildIndex(superblock, parent, SplitPath(path).file_name)
<1>1. IsPathTree(superblock) /\ AvoidsFiles(superblock, path)
  BY NotThroughFile DEF PathState
<1>2. path \in Seq(Components)
  BY FileSystemAssumption DEF Components
<1>3. /\ front = SplitPath(path).parent /\ front \in Seq(Components)
      /\ AvoidsFiles(superblock, front)
  BY <1>1, <1>2, PathSplit
<1>4. parent = GetFstIndex(superblock, front)
  BY <1>3
<1>5. ASSUME parent # NIL
      PROVE  /\ parent \in FromRoot(Pointers(superblock))
             /\ IsDirectory(superblock.fst[parent])
             /\ index = GetFstIndex(superblock, path)
             /\ index # NIL => /\ index \in FromRoot(Pointers(superblock))
                               /\ PlaceOf(superblock, index) = path
  BY <1>1, <1>5, FoundByPath
<1>6. /\ Tree!At(front) = IF parent = NIL THEN {}
                          ELSE {Node(superblock.fst[parent], front)}
      /\ Tree!DirectoryAt(front) =
            IF parent # NIL /\ IsDirectory(superblock.fst[parent])
            THEN {Node(superblock.fst[parent], front)} ELSE {}
  BY <1>1, <1>3, <1>4, TreeAt
<1>7. Tree!DirectoryAt(front) = {} <=> parent = NIL
  BY <1>5, <1>6
<1>8. ASSUME parent # NIL, index # NIL
      PROVE  /\ index \in FstIndices
             /\ superblock.fst[index].type \in {"file", "directory"}
             /\ InUse(index) <=> Tree!InUse(path)
  <2>1. index \in FromRoot(Pointers(superblock))
            /\ PlaceOf(superblock, index) = path
    BY <1>5, <1>8
  <2>2. index # 0
    BY <1>1, <2>1, PlaceFacts
  <2>3. InUse(index) <=> Tree!InUse(PlaceOf(superblock, index))
    BY <2>1, <2>2, InUseAgrees
  <2> QED  BY <1>1, <2>1, <2>3, PathTreeFacts
<1>9. ASSUME parent # NIL
      PROVE  /\ Tree!At(path) = IF index = NIL THEN {}
                                ELSE {Node(superblock.fst[index], path)}
             /\ Tree!FileAt(path) =
                   IF index # NIL /\ IsFile(superblock.fst[index])
                   THEN {Node(superblock.fst[index], path)} ELSE {}
  BY <1>1, <1>2, <1>5, <1>9, TreeAt
<1> HIDE DEF front, parent, index
<1>10. /\ parent # NIL =>
             /\ index = GetFstIndex(superblock, path)
             /\ Tree!At(front) = {Node(superblock.fst[parent], front)}
             /\ Tree!At(path) = {} <=> index = NIL
             /\ Tree!FileAt(path) = {} <=>
                   (index = NIL \/ ~IsFile(superblock.fst[index]))
       /\ parent # NIL /\ index # NIL =>
             Tree!At(path) = {Node(superblock.fst[index], path)}
  BY <1>5, <1>6, <1>9
<1> QED  BY <1>7, <1>8, <1>10 DEF front, parent, index

LEMMA CreateCodeAgrees ==
    ASSUME PathState, NEW fd, IsOpen(fd), NEW path \in Paths, ~ThroughFile(path),
           NEW type \in {"file", "directory"}
    PROVE  Tree!CreateCode(UserOf(fd), path, type) =
              LET code == CreateCode(fd, path, type)
              IN  IF code = "FstFull" THEN "Success" ELSE code
<1> DEFINE front  == Tree!Front(path)
           parent == GetFstIndex(superblock, SplitPath(path).parent)
           index  == ChildIndex(superblock, parent, SplitPath(path).file_name)
<1>1. CASE path = <<>>
  BY <1>1 DEF CreateCode, Tree!CreateCode, IsValidNonRootPath
<1>2. CASE path # <<>>
  <2>1. /\ Tree!DirectoryAt(front) = {} <=> parent = NIL
        /\ parent # NIL =>
              /\ Tree!At(front) = {Node(superblock.fst[parent], front)}
              /\ Tree!At(path) = {} <=> index = NIL
    BY <1>2, LookupAgrees
  <2>2. parent # NIL =>
           (Tree!May(UserOf(fd), {"Write"}, Tree!At(front))
               <=> MayWrite(fd, parent))
    BY <2>1, MayAgrees DEF UserOf, MayWrite
  <2>3. CreateCode(fd, path, type) =
           IF type = "directory" /\ Len(path) > MaxComponents
           THEN "TooManyPathComponents"
           ELSE IF parent = NIL THEN "NotFound"
           ELSE IF ~MayWrite(fd, parent) THEN "AccessDenied"
           ELSE IF index # NIL THEN "AlreadyExists"
           ELSE IF GetUnusedFstIndex(superblock) = NIL THEN "FstFull" ELSE "Success"
    BY <1>2 DEF CreateCode, IsValidNonRootPath
  <2>4. Tree!CreateCode(UserOf(fd), path, type) =
           IF type = "directory" /\ Len(path) > MaxComponents
           THEN "TooManyPathComponents"
           ELSE IF Tree!DirectoryAt(front) = {} THEN "NotFound"
           ELSE IF ~Tree!May(UserOf(fd), {"Write"}, Tree!At(front))
           THEN "AccessDenied"
           ELSE IF Tree!At(path) # {} THEN "AlreadyExists"
           ELSE "Success"
    BY <1>2, Zenon DEF Tree!CreateCode
  <2> HIDE DEF front, parent, index
  <2> QED  BY <2>1, <2>2, <2>3, <2>4
<1> QED  BY <1>1, <1>2

LEMMA DeleteCodeAgrees ==
    ASSUME PathState, NEW fd, IsOpen(fd), NEW path \in Paths, ~ThroughFile(path)
    PROVE  Tree!DeleteCode(UserOf(fd), path) = DeleteCode(fd, path)
<1> DEFINE front  == Tree!Front(path)
           parent == GetFstIndex(superblock, SplitPath(path).parent)
           index  == ChildIndex(superblock, parent, SplitPath(path).file_name)
<1>1. CASE path = <<>>
  BY <1>1 DEF DeleteCode, Tree!DeleteCode, IsValidNonRootPath
<1>2. CASE path # <<>>
  <2>1. /\ Tree!DirectoryAt(front) = {} <=> parent = NIL
        /\ parent # NIL =>
              /\ Tree!At(front) = {Node(superblock.fst[parent], front)}
              /\ Tree!At(path) = {} <=> index = NIL
              /\ index # NIL =>
                    /\ superblock.fst[index].type \in {"file", "directory"}
                    /\ InUse(index) <=> Tree!InUse(path)
    BY <1>2, LookupAgrees
  <2>2. parent # NIL =>
           (Tree!May(UserOf(fd), {"Write"}, Tree!At(front))
               <=> MayWrite(fd, parent))
    BY <2>1, MayAgrees DEF UserOf, MayWrite
  <2>3. DeleteCode(fd, path) =
           IF parent = NIL THEN "NotFound"
           ELSE IF ~MayWrite(fd, parent) THEN "AccessDenied"
           ELSE IF index = NIL THEN "NotFound"
           ELSE IF ~Deletable(index) THEN "InUse"
           ELSE "Success"
    BY <1>2 DEF DeleteCode, IsValidNonRootPath
  <2>4. Tree!DeleteCode(UserOf(fd), path) =
           IF Tree!DirectoryAt(front) = {} THEN "NotFound"
           ELSE IF ~Tree!May(UserOf(fd), {"Write"}, Tree!At(front))
           THEN "AccessDenied"
           ELSE IF Tree!At(path) = {} THEN "NotFound"
           ELSE IF Tree!InUse(path) THEN "InUse"
           ELSE "Success"
    BY <1>2, Zenon DEF Tree!DeleteCode
  <2>5. parent # NIL /\ index # NIL => (Deletable(index) <=> ~Tree!InUse(path))
    BY <2>1 DEF Deletable
  <2> HIDE DEF front, parent, index
  <2> QED  BY <2>1, <2>2, <2>3, <2>4, <2>5
<1> QED  BY <1>1, <1>2

LEMMA SetMetadataCodeAgrees ==
    ASSUME PathState, NEW fd, IsOpen(fd), NEW path \in Paths, ~ThroughFile(path),
           NEW uid
    PROVE  Tree!SetMetadataCode(UserOf(fd), path, uid) =
              SetMetadataCode(fd, path, uid)
<1> DEFINE index == GetFstIndex(superblock, path)
           entry == superblock.fst[index]
           user  == handles[fd].uid
<1>1. /\ Tree!At(path) = IF index = NIL THEN {} ELSE {Node(entry, path)}
      /\ Tree!FileAt(path) = IF index # NIL /\ IsFile(entry)
                             THEN {Node(entry, path)} ELSE {}
  <2>1. path \in Seq(Components) /\ AvoidsFiles(superblock, path)
    BY NotThroughFile, FileSystemAssumption DEF Components
  <2> QED  BY <2>1, TreeAt DEF PathState
<1>2. Node(entry, path).uid = entry.uid /\ Node(entry, path).size = entry.size
  BY NodeFields
<1>3. UserOf(fd)[1] = user
  BY DEF UserOf
<1>4. SetMetadataCode(fd, path, uid) =
         IF index = NIL THEN "NotFound"
         ELSE IF user # 0 /\ user # entry.uid THEN "AccessDenied"
         ELSE IF user # 0 /\ entry.uid # uid THEN "AccessDenied"
         ELSE IF IsFile(entry) /\ entry.size # 0 THEN "FileNotEmpty"
         ELSE "Success"
  BY Zenon DEF SetMetadataCode
<1>5. Tree!SetMetadataCode(UserOf(fd), path, uid) =
         IF Tree!At(path) = {} THEN "NotFound"
         ELSE IF user # 0 /\ \E node \in Tree!At(path) : {user, uid} # {node.uid}
         THEN "AccessDenied"
         ELSE IF \E node \in Tree!FileAt(path) : node.size # 0 THEN "FileNotEmpty"
         ELSE "Success"
  BY <1>3 DEF Tree!SetMetadataCode
<1> HIDE DEF index, entry, user
<1>6. index # NIL =>
         ((\E node \in Tree!At(path) : {user, uid} # {node.uid}) <=>
             (user # entry.uid \/ entry.uid # uid))
  BY <1>1, <1>2
<1>7. index # NIL =>
         ((\E node \in Tree!FileAt(path) : node.size # 0) <=>
             (IsFile(entry) /\ entry.size # 0))
  BY <1>1, <1>2
<1>8. Tree!At(path) = {} <=> index = NIL
  BY <1>1
<1> QED  BY <1>4, <1>5, <1>6, <1>7, <1>8

LEMMA OpenFileCodeAgrees ==
    ASSUME PathState, NEW uid, NEW gid, NEW path \in Paths, ~ThroughFile(path),
           NEW mode
    PROVE  Tree!OpenCode(<<uid, gid>>, path, mode) =
               OpenFileCode(uid, gid, path, mode)
<1> DEFINE index == GetFstIndex(superblock, path)
           entry == superblock.fst[index]
<1>1. /\ Tree!At(path) = IF index = NIL THEN {} ELSE {Node(entry, path)}
      /\ Tree!DirectoryAt(path) = IF index # NIL /\ IsDirectory(entry)
                                  THEN {Node(entry, path)} ELSE {}
      /\ index # NIL => index \in FromRoot(Pointers(superblock))
  <2>1. path \in Seq(Components) /\ AvoidsFiles(superblock, path)
    BY NotThroughFile, FileSystemAssumption DEF Components
  <2> QED  BY <2>1, TreeAt, PathFacts DEF PathState
<1>2. index # NIL => (IsDirectory(entry) <=> ~IsFile(entry))
  BY <1>1, PathTreeFacts DEF PathState, IsFile, IsDirectory
<1>3. path = <<>> => index # NIL /\ IsDirectory(entry)
  <2>1. GetFstIndex(superblock, <<>>) = 0
    BY PathTreeFacts, PlaceFacts DEF PathState
  <2>2. 0 # NIL
    BY DEF NIL
  <2> QED  BY <2>1, <2>2, PathTreeFacts DEF PathState
<1>4. index # NIL =>
         (Tree!May(<<uid, gid>>, mode, Tree!At(path)) <=>
             HasPermission(entry, uid, gid, mode))
  BY <1>1, MayAgrees
<1>5. OpenFileCode(uid, gid, path, mode) =
         IF path = <<>> THEN "Invalid"
         ELSE IF index = NIL THEN "NotFound"
         ELSE IF ~IsFile(entry) THEN "Invalid"
         ELSE IF ~HasPermission(entry, uid, gid, mode) THEN "AccessDenied"
         ELSE IF FreeHandles = {} THEN "NoFreeHandle"
         ELSE "Success"
  BY DEF OpenFileCode, IsValidNonRootPath
<1>6. Tree!OpenCode(<<uid, gid>>, path, mode) =
         IF Tree!DirectoryAt(path) # {} THEN "Invalid"
         ELSE IF Tree!At(path) = {} THEN "NotFound"
         ELSE IF ~Tree!May(<<uid, gid>>, mode, Tree!At(path)) THEN "AccessDenied"
         ELSE IF Tree!OpenFds = Fds THEN "NoFreeHandle"
         ELSE "Success"
  BY Zenon DEF Tree!OpenCode
<1>7. Tree!OpenFds = Fds <=> FreeHandles = {}
  BY OpenDescriptors
<1>8. /\ Tree!At(path) = {} <=> index = NIL
      /\ Tree!DirectoryAt(path) # {} <=> (index # NIL /\ IsDirectory(entry))
  BY <1>1
<1> HIDE DEF index, entry
<1> QED  BY <1>2, <1>3, <1>4, <1>5, <1>6, <1>7, <1>8

LEMMA RenameCodeAgrees ==
    ASSUME PathState, NEW fd, IsOpen(fd), NEW old \in Paths, ~ThroughFile(old),
           NEW new \in Paths, ~ThroughFile(new),
           new # <<>> => new[Len(new)] \notin LongNames
    PROVE  Tree!RenameCode(UserOf(fd), old, new) = RenameCode(fd, old, new)
<1> DEFINE OldFront  == Tree!Front(old)
           NewFront  == Tree!Front(new)
           OldName   == SplitPath(old).file_name
           NewName   == SplitPath(new).file_name
           OldParent == GetFstIndex(superblock, SplitPath(old).parent)
           NewParent == GetFstIndex(superblock, SplitPath(new).parent)
           index     == ChildIndex(superblock, OldParent, OldName)
           other     == ChildIndex(superblock, NewParent, NewName)
           entry     == superblock.fst[index]
           user      == UserOf(fd)
<1>1. CASE old = <<>> \/ new = <<>>
  BY <1>1 DEF RenameCode, Tree!RenameCode, IsValidNonRootPath
<1>2. CASE old # <<>> /\ new # <<>>
  <2>1. /\ Tree!DirectoryAt(OldFront) = {} <=> OldParent = NIL
        /\ OldParent # NIL =>
              /\ index = GetFstIndex(superblock, old)
              /\ Tree!At(OldFront) = {Node(superblock.fst[OldParent], OldFront)}
              /\ Tree!At(old) = {} <=> index = NIL
              /\ index # NIL =>
                    /\ superblock.fst[index].type \in {"file", "directory"}
                    /\ InUse(index) <=> Tree!InUse(old)
              /\ Tree!FileAt(old) = {} <=>
                    (index = NIL \/ ~IsFile(superblock.fst[index]))
    BY <1>2, LookupAgrees
  <2>2. /\ Tree!DirectoryAt(NewFront) = {} <=> NewParent = NIL
        /\ NewParent # NIL =>
              /\ other = GetFstIndex(superblock, new)
              /\ Tree!At(NewFront) = {Node(superblock.fst[NewParent], NewFront)}
              /\ Tree!At(new) = {} <=> other = NIL
              /\ other # NIL =>
                    /\ superblock.fst[other].type \in {"file", "directory"}
                    /\ InUse(other) <=> Tree!InUse(new)
              /\ Tree!FileAt(new) = {} <=>
                    (other = NIL \/ ~IsFile(superblock.fst[other]))
    BY <1>2, LookupAgrees
  <2>3. OldParent # NIL =>
           (Tree!May(user, {"Write"}, Tree!At(OldFront))
               <=> MayWrite(fd, OldParent))
    BY <2>1, MayAgrees DEF UserOf, MayWrite
  <2>4. NewParent # NIL =>
           (Tree!May(user, {"Write"}, Tree!At(NewFront))
               <=> MayWrite(fd, NewParent))
    BY <2>2, MayAgrees DEF UserOf, MayWrite
  <2>5. Tree!May(user, {"Write"}, Tree!At(OldFront) \cup Tree!At(NewFront)) <=>
           /\ Tree!May(user, {"Write"}, Tree!At(OldFront))
           /\ Tree!May(user, {"Write"}, Tree!At(NewFront))
    <3> HIDE DEF user
    <3> QED  BY DEF Tree!May
  <2>6. OldParent # NIL /\ index # NIL /\ NewParent # NIL =>
           (StoredName(OldName) = StoredName(NewName) <=>
               Tree!Last(old) = Tree!Last(new))
    <3>1. /\ old \in Seq(Components) /\ new \in Seq(Components)
          /\ AvoidsFiles(superblock, old) /\ AvoidsFiles(superblock, new)
      BY NotThroughFile, FileSystemAssumption DEF Components
    <3>2. /\ OldName = Tree!Last(old) /\ NewName = Tree!Last(new)
          /\ NewName = new[Len(new)]
      BY <1>2, <3>1, PathSplit
    <3>3. index # NIL => OldName \notin LongNames
      BY DEF ChildIndex
    <3> QED  BY <1>2, <3>2, <3>3 DEF StoredName
  <2>7. OldParent # NIL /\ index # NIL /\ NewParent # NIL /\ other # NIL =>
           (other = index <=> new = old)
    <3> SUFFICES ASSUME OldParent # NIL, index # NIL, NewParent # NIL, other # NIL
                 PROVE  other = index <=> new = old
      OBVIOUS
    <3>1. /\ old \in Seq(Components) /\ new \in Seq(Components)
          /\ AvoidsFiles(superblock, old) /\ AvoidsFiles(superblock, new)
      BY NotThroughFile, FileSystemAssumption DEF Components
    <3>2. /\ index = GetFstIndex(superblock, old)
          /\ other = GetFstIndex(superblock, new)
      BY <2>1, <2>2
    <3>3. IsPathTree(superblock)
      BY DEF PathState
    <3>4. PlaceOf(superblock, GetFstIndex(superblock, old)) = old
      BY <3>1, <3>2, <3>3, PathFacts
    <3>5. PlaceOf(superblock, GetFstIndex(superblock, new)) = new
      BY <3>1, <3>2, <3>3, PathFacts
    <3> HIDE DEF index, other
    <3> QED  BY <3>2, <3>4, <3>5
  <2>8. RenameCode(fd, old, new) =
           IF OldParent = NIL \/ NewParent = NIL THEN "NotFound"
           ELSE IF ~MayWrite(fd, OldParent) \/ ~MayWrite(fd, NewParent)
           THEN "AccessDenied"
           ELSE IF index = NIL THEN "NotFound"
           ELSE IF IsFile(entry) /\ StoredName(OldName) = StoredName(NewName)
           THEN "Invalid"
           ELSE IF InUse(index) THEN "InUse"
           ELSE IF other = NIL THEN "Success"
           ELSE IF superblock.fst[other].type # entry.type \/ other = index
           THEN "Invalid"
           ELSE IF ~Deletable(other) THEN "InUse"
           ELSE "Success"
    BY <1>2, Zenon DEF RenameCode, IsValidNonRootPath
  <2>9. Tree!RenameCode(user, old, new) =
           IF Tree!DirectoryAt(OldFront) = {} \/ Tree!DirectoryAt(NewFront) = {}
           THEN "NotFound"
           ELSE IF ~Tree!May(user, {"Write"},
                              Tree!At(OldFront) \cup Tree!At(NewFront))
           THEN "AccessDenied"
           ELSE IF Tree!At(old) = {} THEN "NotFound"
           ELSE IF Tree!FileAt(old) # {} /\ Tree!Last(old) = Tree!Last(new)
           THEN "Invalid"
           ELSE IF Tree!InUse(old) THEN "InUse"
           ELSE IF Tree!At(new) = {} THEN "Success"
           ELSE IF new = old \/ (Tree!FileAt(new) = {}) # (Tree!FileAt(old) = {})
           THEN "Invalid"
           ELSE IF Tree!InUse(new) THEN "InUse"
           ELSE "Success"
    BY <1>2, Zenon DEF Tree!RenameCode
  <2>10. OldParent # NIL /\ index # NIL /\ NewParent # NIL /\ other # NIL =>
            /\ superblock.fst[other].type # entry.type <=>
                  (Tree!FileAt(new) = {}) # (Tree!FileAt(old) = {})
            /\ Deletable(other) <=> ~Tree!InUse(new)
    BY <2>1, <2>2 DEF Deletable, IsFile
  <2>11. OldParent # NIL /\ index # NIL =>
            /\ IsFile(entry) <=> Tree!FileAt(old) # {}
            /\ InUse(index) <=> Tree!InUse(old)
    BY <2>1
  <2>12. /\ OldParent # NIL => (Tree!At(old) = {} <=> index = NIL)
         /\ NewParent # NIL => (Tree!At(new) = {} <=> other = NIL)
    BY <2>1, <2>2
  <2> HIDE DEF OldFront, NewFront, OldName, NewName, OldParent, NewParent, index,
               other, entry, user
  <2>13. CASE OldParent = NIL \/ NewParent = NIL
    BY <2>1, <2>2, <2>8, <2>9, <2>13 DEF user
  <2>14. CASE /\ OldParent # NIL /\ NewParent # NIL
              /\ index = NIL \/ ~MayWrite(fd, OldParent) \/ ~MayWrite(fd, NewParent)
    BY <2>1, <2>2, <2>3, <2>4, <2>5, <2>8, <2>9, <2>12, <2>14 DEF user
  <2>15. CASE /\ OldParent # NIL /\ NewParent # NIL /\ index # NIL
              /\ MayWrite(fd, OldParent) /\ MayWrite(fd, NewParent)
    <3>1. /\ RenameCode(fd, old, new) =
             IF IsFile(entry) /\ StoredName(OldName) = StoredName(NewName)
             THEN "Invalid"
             ELSE IF InUse(index) THEN "InUse"
             ELSE IF other = NIL THEN "Success"
             ELSE IF superblock.fst[other].type # entry.type \/ other = index
             THEN "Invalid"
             ELSE IF ~Deletable(other) THEN "InUse"
             ELSE "Success"
      BY <2>8, <2>15
    <3>2. Tree!RenameCode(user, old, new) =
             IF Tree!FileAt(old) # {} /\ Tree!Last(old) = Tree!Last(new)
             THEN "Invalid"
             ELSE IF Tree!InUse(old) THEN "InUse"
             ELSE IF Tree!At(new) = {} THEN "Success"
             ELSE IF new = old \/ (Tree!FileAt(new) = {}) # (Tree!FileAt(old) = {})
             THEN "Invalid"
             ELSE IF Tree!InUse(new) THEN "InUse"
             ELSE "Success"
      BY <2>1, <2>2, <2>3, <2>4, <2>5, <2>9, <2>12, <2>15
    <3> QED  BY <2>6, <2>7, <2>10, <2>11, <2>12, <2>15, <3>1, <3>2 DEF user
  <2> QED  BY <2>13, <2>14, <2>15
<1> QED  BY <1>1, <1>2

-----------------------------------------------------------------------------
(* What the calls that only read return.                                   *)

\* The children of a directory are the nodes one name below it.
LEMMA ListingAgrees ==
    ASSUME IsPathTree(superblock), NEW d \in FromRoot(Pointers(superblock)),
           IsDirectory(superblock.fst[d])
    PROVE  {superblock.fst[i].name : i \in Children(superblock, d)} =
              Tree!Listing(PlaceOf(superblock, d))
<1> DEFINE g     == Pointers(superblock)
           path  == PlaceOf(superblock, d)
           Named(n) == n.path # <<>> /\ Tree!Front(n.path) = path
<1>1. /\ IsTree(g) /\ FromRoot(g) \subseteq FstIndices
      /\ Children(superblock, d) = ChildrenOf(g, d)
  BY PathTreeFacts, TreeFacts DEF IsPathTree
<1>2. TreeOf(superblock) =
         {Node(superblock.fst[i], PlaceOf(superblock, i)) : i \in FromRoot(g)}
  BY PlaceFacts
<1>3. \A e \in FromRoot(g) : \A i \in ChildrenOf(g, e) :
         LET n == Node(superblock.fst[i], PlaceOf(superblock, i))
         IN  /\ i \in FromRoot(g) /\ n.path # <<>>
             /\ Tree!Front(n.path) = PlaceOf(superblock, e)
             /\ Tree!Last(n.path) = superblock.fst[i].name
  <2> SUFFICES ASSUME NEW e \in FromRoot(g), NEW i \in ChildrenOf(g, e)
               PROVE  LET n == Node(superblock.fst[i], PlaceOf(superblock, i))
                      IN  /\ i \in FromRoot(g) /\ n.path # <<>>
                          /\ Tree!Front(n.path) = PlaceOf(superblock, e)
                          /\ Tree!Last(n.path) = superblock.fst[i].name
    OBVIOUS
  <2>1. i \in FromRoot(g) /\ superblock.fst[i].name \in Names
    BY PathTreeFacts
  <2>2. /\ PlaceOf(superblock, i) =
              Append(PlaceOf(superblock, e), superblock.fst[i].name)
        /\ PlaceOf(superblock, e) \in Seq(Names)
    BY PlaceFacts
  <2>3. Node(superblock.fst[i], PlaceOf(superblock, i)).path =
            PlaceOf(superblock, i)
    BY NodeFields
  <2> HIDE DEF g
  <2>4. \A s \in Seq(Names), v \in Names :
           /\ Append(s, v) # <<>> /\ Tree!Front(Append(s, v)) = s
           /\ Tree!Last(Append(s, v)) = v
    <3> SUFFICES ASSUME NEW s \in Seq(Names), NEW v \in Names
                 PROVE  /\ Append(s, v) # <<>> /\ Tree!Front(Append(s, v)) = s
                        /\ Tree!Last(Append(s, v)) = v
      OBVIOUS
    <3>1. /\ Len(Append(s, v)) = Len(s) + 1 /\ Append(s, v)[Len(s) + 1] = v
          /\ Len(s) \in Nat /\ SubSeq(Append(s, v), 1, Len(s)) = s
      BY SeqOfNames
    <3>2. Append(s, v) # <<>>
      OBVIOUS
    <3>3. Len(s) + 1 - 1 = Len(s)
      BY <3>1
    <3> QED  BY <3>1, <3>2, <3>3 DEF Tree!Front, Tree!Last
  <2> QED  BY <2>1, <2>2, <2>3, <2>4
<1>4. ASSUME NEW n \in TreeOf(superblock), Named(n)
      PROVE  \E i \in ChildrenOf(g, d) : Tree!Last(n.path) = superblock.fst[i].name
  <2>1. PICK i \in FromRoot(g) : n = Node(superblock.fst[i], PlaceOf(superblock, i))
    BY <1>2
  <2>2. n.path = PlaceOf(superblock, i)
    BY <2>1, NodeFields
  <2>3. i # 0
    BY <1>4, <2>2, PlaceFacts
  <2>4. PICK e \in FromRoot(g) : i \in ChildrenOf(g, e)
    BY <1>1, <2>3, HasParent
  <2>5. /\ PlaceOf(superblock, e) = path
        /\ Tree!Last(n.path) = superblock.fst[i].name
    BY <1>3, <1>4, <2>1, <2>4
  <2>6. e = d
    BY <2>5, PlaceFacts
  <2> QED  BY <2>4, <2>5, <2>6
<1>5. \A i \in ChildrenOf(g, d) :
         \E n \in TreeOf(superblock) :
            Named(n) /\ Tree!Last(n.path) = superblock.fst[i].name
  <2> SUFFICES ASSUME NEW i \in ChildrenOf(g, d)
               PROVE  \E n \in TreeOf(superblock) :
                         Named(n) /\ Tree!Last(n.path) = superblock.fst[i].name
    OBVIOUS
  <2> DEFINE n == Node(superblock.fst[i], PlaceOf(superblock, i))
  <2>1. n \in TreeOf(superblock)
    BY <1>2, <1>3
  <2>2. Named(n) /\ Tree!Last(n.path) = superblock.fst[i].name
    BY <1>3
  <2> HIDE DEF n
  <2> QED  BY <2>1, <2>2
<1>6. Tree!Listing(path) = {Tree!Last(n.path) : n \in {m \in TreeOf(superblock) :
                                                          Named(m)}}
  BY DEF Tree!Listing
<1> HIDE DEF g, path, Named
<1> QED  BY <1>1, <1>4, <1>5, <1>6 DEF g, path

\* Distinct entries have distinct nodes.
LEMMA CountedOnce ==
    ASSUME NEW S, IsFiniteSet(S), NEW f,
           \A i, j \in S : f[i] = f[j] => i = j
    PROVE  Cardinality({f[i] : i \in S}) = Cardinality(S)
<1> DEFINE T == {f[i] : i \in S}
           b == [i \in S |-> f[i]]
<1>1. /\ b \in [S -> T] /\ \A t \in T : \E i \in S : b[i] = t
      /\ \A i, j \in S : b[i] = b[j] => i = j
  OBVIOUS
<1> HIDE DEF T, b
<1>2. b \in Bijection(S, T)
  BY <1>1 DEF Bijection, Injection, Surjection, IsInjective
<1>3. Cardinality(T) = Cardinality(S)
  BY <1>2, FS_Bijection DEF ExistsBijection
<1> QED  BY <1>3 DEF T

LEMMA StatsAgreeWithTree ==
    ASSUME IsPathTree(superblock), NEW d \in FromRoot(Pointers(superblock)),
           IsDirectory(superblock.fst[d])
    PROVE  DirectoryStats(superblock, d).used_inodes =
              Cardinality(Tree!From(PlaceOf(superblock, d)))
<1> DEFINE g == Pointers(superblock)
           B == Below(g, d)
           W == Within(g, d)
           f == [i \in W |-> Node(superblock.fst[i], PlaceOf(superblock, i))]
<1>1. /\ IsTree(g) /\ FromRoot(g) \subseteq FstIndices
      /\ Traversal(superblock, d, LAMBDA entry : ~IsFile(entry)) = B
  BY PathTreeFacts, TraversalInTree
<1>2. W \subseteq FromRoot(g) /\ d \notin B /\ W = B \cup {d}
  BY <1>1, BelowInTree, NotBelowItself DEF Within
<1>3. IsFiniteSet(W) /\ IsFiniteSet(B)
  <2>1. IsFiniteSet(FstIndices)
    <3>1. 0 \in Int /\ FstSize - 1 \in Int
      BY SffsAssumption
    <3> QED  BY <3>1, FS_Interval DEF FstIndices
  <2>2. W \in SUBSET FstIndices /\ B \in SUBSET FstIndices
    BY <1>1, <1>2
  <2> HIDE DEF W, B
  <2> QED  BY <2>1, <2>2, FS_Subset
<1>4. Cardinality(W) = Cardinality(B) + 1 /\ Cardinality(B) \in Nat
  <2> HIDE DEF W, B
  <2>1. Cardinality(B) \in Nat
    BY <1>3, FS_CardinalityType
  <2> QED  BY <1>2, <1>3, <2>1, FS_AddElement
<1>5. \A i, j \in W : f[i] = f[j] => i = j
  <2> SUFFICES ASSUME NEW i \in W, NEW j \in W, f[i] = f[j] PROVE i = j
    OBVIOUS
  <2>1. PlaceOf(superblock, i) = PlaceOf(superblock, j)
    BY NodeFields
  <2> QED  BY <1>2, <2>1, PlaceFacts
<1>6. Cardinality({f[i] : i \in W}) = Cardinality(W)
  <2> HIDE DEF W, f
  <2> QED  BY <1>3, <1>5, CountedOnce
<1>7. Tree!From(PlaceOf(superblock, d)) = {f[i] : i \in W}
  BY TreeFrom
<1>8. DirectoryStats(superblock, d).used_inodes = 1 + Cardinality(B)
  BY <1>1, Zenon DEF DirectoryStats
<1> HIDE DEF B, W, f
<1> QED  BY <1>4, <1>6, <1>7, <1>8

\* What ReadDirectory follows in a directory of the tree are pointers to entries, or
\* NIL: its loop ends at the end of the list.
LEMMA ListEnds ==
    ASSUME NEW sb, IsFstTree(sb), NEW d \in FromRoot(Pointers(sb)),
           IsDirectory(sb.fst[d])
    PROVE  {sb.fst[d].sub} \cup {sb.fst[i].sib : i \in Children(sb, d)}
              \subseteq FstIndices \cup {NIL}
<1> DEFINE g == Pointers(sb)
<1>1. /\ IsTree(g) /\ FromRoot(g) \subseteq FstIndices
      /\ Children(sb, d) \subseteq FromRoot(g)
  BY TreeFacts
<1>2. \A p \in FromRoot(g), k \in Kinds : g[k][p] \in FstIndices \cup {NIL}
  BY <1>1 DEF IsTree
<1>3. \A p \in FstIndices :
         /\ "sib" \in Kinds /\ "sub" \in Kinds /\ g["sib"][p] = sb.fst[p].sib
         /\ IsDirectory(sb.fst[p]) => g["sub"][p] = sb.fst[p].sub
  BY PointersOf
<1> HIDE DEF g
<1>4. sb.fst[d].sub \in FstIndices \cup {NIL}
  BY <1>1, <1>2, <1>3 DEF g
<1>5. ASSUME NEW i \in Children(sb, d)
      PROVE  sb.fst[i].sib \in FstIndices \cup {NIL}
  BY <1>1, <1>2, <1>3
<1> QED  BY <1>4, <1>5

LEMMA ReadsAgree ==
    ASSUME PathState, NEW fd, IsOpen(fd), NEW path \in Paths, ~ThroughFile(path)
    PROVE  LET listing  == ReadDirectory(fd, path)
               count    == GetDirectoryStats(fd, path)
           IN  /\ listing.code = Tree!ReadDirectoryCode(UserOf(fd), path)
               /\ count.code = Tree!GetDirectoryStatsCode(path)
               /\ count.code = "Success" =>
                     count.stats.used_inodes = Cardinality(Tree!From(path))
               /\ listing.code = "Success" => listing.names = Tree!Listing(path)
<1> DEFINE index == GetFstIndex(superblock, path)
           entry == superblock.fst[index]
           names == {superblock.fst[i].name : i \in Children(superblock, index)}
<1>1. /\ Tree!At(path) = IF index = NIL THEN {} ELSE {Node(entry, path)}
      /\ Tree!DirectoryAt(path) = IF index # NIL /\ IsDirectory(entry)
                                  THEN {Node(entry, path)} ELSE {}
      /\ index # NIL => /\ index \in FromRoot(Pointers(superblock))
                        /\ PlaceOf(superblock, index) = path
  <2>1. path \in Seq(Components) /\ AvoidsFiles(superblock, path)
    BY NotThroughFile, FileSystemAssumption DEF Components
  <2> QED  BY <2>1, TreeAt, PathFacts DEF PathState
<1>2. index # NIL =>
         (Tree!May(UserOf(fd), {"Read"}, Tree!At(path)) <=>
             HasPermission(entry, handles[fd].uid, handles[fd].gid, {"Read"}))
  BY <1>1, MayAgrees DEF UserOf
<1>3. index # NIL /\ IsDirectory(entry) =>
         /\ names = Tree!Listing(path)
         /\ DirectoryStats(superblock, index).used_inodes =
               Cardinality(Tree!From(path))
  BY <1>1, ListingAgrees, StatsAgreeWithTree DEF PathState
<1>4. /\ Tree!At(path) = {} <=> index = NIL
      /\ Tree!DirectoryAt(path) = {} <=> (index = NIL \/ ~IsDirectory(entry))
  BY <1>1
<1>5. ReadDirectory(fd, path) =
         IF index = NIL THEN [code |-> "NotFound", names |-> {}]
         ELSE IF ~HasPermission(entry, handles[fd].uid, handles[fd].gid, {"Read"})
         THEN [code |-> "AccessDenied", names |-> {}]
         ELSE IF ~IsDirectory(entry) THEN [code |-> "Invalid", names |-> {}]
         ELSE [code |-> "Success", names |-> names]
  <2> DEFINE ends == {entry.sub} \cup
                        {superblock.fst[i].sib : i \in Children(superblock, index)}
                        \subseteq FstIndices \cup {NIL}
  <2>1. index # NIL /\ IsDirectory(entry) => ends
    BY <1>1, ListEnds DEF PathState, IsPathTree
  <2>2. ReadDirectory(fd, path) =
           IF index = NIL THEN [code |-> "NotFound", names |-> {}]
           ELSE IF ~HasPermission(entry, handles[fd].uid, handles[fd].gid, {"Read"})
           THEN [code |-> "AccessDenied", names |-> {}]
           ELSE IF ~IsDirectory(entry) THEN [code |-> "Invalid", names |-> {}]
           ELSE IF ends THEN [code |-> "Success", names |-> names]
           ELSE [code |-> "Undefined", names |-> {}]
    BY Zenon DEF ReadDirectory
  <2> HIDE DEF index, entry, names, ends
  <2> QED  BY <2>1, <2>2
<1>6. Tree!ReadDirectoryCode(UserOf(fd), path) =
         IF Tree!At(path) = {} THEN "NotFound"
         ELSE IF ~Tree!May(UserOf(fd), {"Read"}, Tree!At(path)) THEN "AccessDenied"
         ELSE IF Tree!DirectoryAt(path) = {} THEN "Invalid"
         ELSE "Success"
  BY Zenon DEF Tree!ReadDirectoryCode
<1>7. GetDirectoryStats(fd, path) =
         IF index = NIL THEN [code |-> "NotFound"]
         ELSE IF ~IsDirectory(entry) THEN [code |-> "Invalid"]
         ELSE [code |-> "Success", stats |-> DirectoryStats(superblock, index)]
  BY Zenon DEF GetDirectoryStats
<1>8. Tree!GetDirectoryStatsCode(path) =
         IF Tree!At(path) = {} THEN "NotFound"
         ELSE IF Tree!DirectoryAt(path) = {} THEN "Invalid" ELSE "Success"
  BY Zenon DEF Tree!GetDirectoryStatsCode
<1> HIDE DEF index, entry, names
<1>9. /\ ReadDirectory(fd, path).code = Tree!ReadDirectoryCode(UserOf(fd), path)
      /\ ReadDirectory(fd, path).code = "Success" =>
            ReadDirectory(fd, path).names = Tree!Listing(path)
  BY <1>2, <1>3, <1>4, <1>5, <1>6
<1>10. /\ GetDirectoryStats(fd, path).code = Tree!GetDirectoryStatsCode(path)
       /\ GetDirectoryStats(fd, path).code = "Success" =>
             GetDirectoryStats(fd, path).stats.used_inodes =
                 Cardinality(Tree!From(path))
  BY <1>3, <1>4, <1>7, <1>8
<1> QED  BY <1>9, <1>10

LEMMA MetadataAgrees ==
    ASSUME PathState, NEW fd, IsOpen(fd), NEW path \in Paths, ~ThroughFile(path)
    PROVE  LET metadata == GetMetadata(fd, path)
           IN  /\ metadata.code = Tree!GetMetadataCode(UserOf(fd), path)
               /\ metadata.code = "Success" =>
                     /\ Tree!At(path) =
                           {Node(superblock.fst[metadata.fst_index], path)}
                     /\ metadata.is_file = (Tree!FileAt(path) # {})
<1> DEFINE front  == Tree!Front(path)
           parent == GetFstIndex(superblock, SplitPath(path).parent)
           child  == ChildIndex(superblock, parent, SplitPath(path).file_name)
           index  == GetFstIndex(superblock, path)
           entry  == superblock.fst[index]
           code   == GetMetadataCode(fd, path)
<1>1. /\ Tree!At(path) = IF index = NIL THEN {} ELSE {Node(entry, path)}
      /\ Tree!FileAt(path) = IF index # NIL /\ IsFile(entry)
                             THEN {Node(entry, path)} ELSE {}
  <2>1. path \in Seq(Components) /\ AvoidsFiles(superblock, path)
    BY NotThroughFile, FileSystemAssumption DEF Components
  <2> QED  BY <2>1, TreeAt DEF PathState
<1>2. /\ code = Tree!GetMetadataCode(UserOf(fd), path)
      /\ code = "Success" => index # NIL
  <2>1. CASE path = <<>>
    <3>1. index = 0
      BY <2>1, PathTreeFacts, PlaceFacts DEF PathState
    <3>2. index # NIL
      BY <3>1 DEF NIL
    <3> QED  BY <2>1, <3>2 DEF GetMetadataCode, Tree!GetMetadataCode,
                               IsValidNonRootPath
  <2>2. CASE path # <<>>
    <3>1. /\ Tree!DirectoryAt(front) = {} <=> parent = NIL
          /\ parent # NIL =>
                /\ child = index
                /\ Tree!At(front) = {Node(superblock.fst[parent], front)}
                /\ Tree!At(path) = {} <=> child = NIL
      BY <2>2, LookupAgrees
    <3>2. parent # NIL =>
             (Tree!May(UserOf(fd), {"Read"}, Tree!At(front)) <=>
                 HasPermission(superblock.fst[parent], handles[fd].uid,
                               handles[fd].gid, {"Read"}))
      BY <3>1, MayAgrees DEF UserOf
    <3>3. code =
             IF parent = NIL THEN "NotFound"
             ELSE IF ~HasPermission(superblock.fst[parent], handles[fd].uid,
                                    handles[fd].gid, {"Read"})
             THEN "AccessDenied"
             ELSE IF child = NIL THEN "NotFound"
             ELSE "Success"
      BY <2>2 DEF GetMetadataCode, IsValidNonRootPath
    <3>4. Tree!GetMetadataCode(UserOf(fd), path) =
             IF Tree!DirectoryAt(front) = {} THEN "NotFound"
             ELSE IF ~Tree!May(UserOf(fd), {"Read"}, Tree!At(front))
             THEN "AccessDenied"
             ELSE IF Tree!At(path) = {} THEN "NotFound"
             ELSE "Success"
      BY <2>2, Zenon DEF Tree!GetMetadataCode
    <3> HIDE DEF front, parent, child, index, code
    <3> QED  BY <3>1, <3>2, <3>3, <3>4
  <2> QED  BY <2>1, <2>2
<1>3. GetMetadata(fd, path) =
         IF code # "Success" THEN [code |-> code]
         ELSE [code |-> code, fst_index |-> index, is_file |-> IsFile(entry),
               uid |-> entry.uid, gid |-> entry.gid, owner_mode |-> entry.owner,
               group_mode |-> entry.group, other_mode |-> entry.other,
               size |-> entry.size]
  BY Zenon DEF GetMetadata
<1> HIDE DEF code
<1>4. GetMetadata(fd, path).code = code
  BY <1>3
<1>5. ASSUME code = "Success"
      PROVE  /\ GetMetadata(fd, path).fst_index = index
             /\ GetMetadata(fd, path).is_file = IsFile(entry)
  BY <1>3, <1>5
<1>6. ASSUME code = "Success"
      PROVE  /\ Tree!At(path) = {Node(entry, path)}
             /\ IsFile(entry) = (Tree!FileAt(path) # {})
  <2>1. IsFile(entry) \in BOOLEAN
    BY DEF IsFile
  <2> HIDE DEF index, entry
  <2> QED  BY <1>1, <1>2, <1>6, <2>1
<1> QED  BY <1>2, <1>4, <1>5, <1>6 DEF entry

\* The calls answer as the tree of paths has it.
LEMMA AllAnswersAgree ==
    ASSUME PathState, "through_file" \notin Uses, "long_name" \notin Uses
    PROVE  AnswersAgree
<1>1. \A path \in PlainPaths : path \in Paths /\ ~ThroughFile(path)
  BY DEF PlainPaths, PlainPath, Permitted
<1>2. \A fd \in Callers : IsOpen(fd)
  BY DEF Callers
<1>3. CodesAgree
  <2> SUFFICES ASSUME NEW fd \in Callers, NEW path \in PlainPaths
               PROVE  /\ DeleteCode(fd, path) = Tree!DeleteCode(UserOf(fd), path)
                      /\ \A type \in {"file", "directory"} :
                            LET code == CreateCode(fd, path, type)
                            IN  Tree!CreateCode(UserOf(fd), path, type) =
                                   IF code = "FstFull" THEN "Success" ELSE code
                      /\ \A new \in {p \in Paths : PlainRename(path, p)} :
                            RenameCode(fd, path, new) =
                               Tree!RenameCode(UserOf(fd), path, new)
                      /\ \A user \in Users : SetMetadataCode(fd, path, user[1]) =
                            Tree!SetMetadataCode(UserOf(fd), path, user[1])
                      /\ \A user \in Users, mode \in FileMode :
                            OpenFileCode(user[1], user[2], path, mode) =
                               Tree!OpenCode(user, path, mode)
    BY Zenon DEF CodesAgree
  <2>1. IsOpen(fd) /\ path \in Paths /\ ~ThroughFile(path)
    BY <1>1, <1>2
  <2>2. \A new \in {p \in Paths : PlainRename(path, p)} :
           /\ new \in Paths /\ ~ThroughFile(new)
           /\ new # <<>> => new[Len(new)] \notin LongNames
    BY DEF PlainRename, PlainPath, PlainName, Permitted
  <2>3. \A new \in {p \in Paths : PlainRename(path, p)} :
           RenameCode(fd, path, new) = Tree!RenameCode(UserOf(fd), path, new)
    BY <2>1, <2>2, RenameCodeAgrees
  <2>4. \A user \in Users : user = <<user[1], user[2]>>
    BY FileSystemAssumption
  <2>5. \A user \in Users, mode \in FileMode :
           OpenFileCode(user[1], user[2], path, mode) =
              Tree!OpenCode(<<user[1], user[2]>>, path, mode)
    BY <2>1, OpenFileCodeAgrees
  <2>6. \A user \in Users, mode \in FileMode :
           OpenFileCode(user[1], user[2], path, mode) =
              Tree!OpenCode(user, path, mode)
    BY <2>4, <2>5
  <2>7. DeleteCode(fd, path) = Tree!DeleteCode(UserOf(fd), path)
    BY <2>1, DeleteCodeAgrees
  <2>8. \A type \in {"file", "directory"} :
           LET code == CreateCode(fd, path, type)
           IN  Tree!CreateCode(UserOf(fd), path, type) =
                  IF code = "FstFull" THEN "Success" ELSE code
    BY <2>1, CreateCodeAgrees
  <2>9. \A user \in Users : SetMetadataCode(fd, path, user[1]) =
           Tree!SetMetadataCode(UserOf(fd), path, user[1])
    BY <2>1, SetMetadataCodeAgrees
  <2> QED  BY <2>3, <2>6, <2>7, <2>8, <2>9
<1>4. ValuesAgree
  <2> SUFFICES ASSUME NEW fd \in Callers, NEW path \in PlainPaths
               PROVE  LET listing  == ReadDirectory(fd, path)
                          metadata == GetMetadata(fd, path)
                          count    == GetDirectoryStats(fd, path)
                      IN  /\ listing.code = Tree!ReadDirectoryCode(UserOf(fd), path)
                          /\ metadata.code = Tree!GetMetadataCode(UserOf(fd), path)
                          /\ count.code = Tree!GetDirectoryStatsCode(path)
                          /\ count.code = "Success" =>
                                count.stats.used_inodes =
                                    Cardinality(Tree!From(path))
                          /\ listing.code = "Success" =>
                                listing.names = Tree!Listing(path)
                          /\ metadata.code = "Success" =>
                                /\ Tree!At(path) = {Node(
                                      superblock.fst[metadata.fst_index], path)}
                                /\ metadata.is_file = (Tree!FileAt(path) # {})
    BY Zenon DEF ValuesAgree
  <2>1. IsOpen(fd) /\ path \in Paths /\ ~ThroughFile(path)
    BY <1>1, <1>2
  <2> QED  BY <2>1, ReadsAgree, MetadataAgrees
<1> QED  BY <1>3, <1>4 DEF AnswersAgree

-----------------------------------------------------------------------------
(* The other edits of the tree.                                            *)

\* The node of an entry whose owner and access modes are set.
Owned(node, uid, gid, perm) ==
    [node EXCEPT !.uid = uid, !.gid = gid, !.owner = perm.owner,
                 !.group = perm.group, !.other = perm.other]
AllOwned(nodes, uid, gid, perm) == {Owned(node, uid, gid, perm) : node \in nodes}

\* What SetMetadata makes of a superblock.
Reowned(sb, index, uid, gid, perm) ==
    [sb EXCEPT !.fst[index] =
        SetAccessMode([@ EXCEPT !.uid = uid, !.gid = gid], perm)]

LEMMA OwnedNode ==
    ASSUME NEW old, NEW entry, NEW path, NEW uid, NEW gid, NEW perm,
           entry.type = old.type, entry.size = old.size,
           entry.uid = uid, entry.gid = gid, entry.owner = perm.owner,
           entry.group = perm.group, entry.other = perm.other
    PROVE  Node(entry, path) = Owned(Node(old, path), uid, gid, perm)
<1> DEFINE n == Node(old, path)
<1>1. [n EXCEPT !.uid = uid, !.gid = gid, !.owner = perm.owner,
                !.group = perm.group, !.other = perm.other] =
      [path |-> path, type |-> old.type, owner |-> perm.owner,
       group |-> perm.group, other |-> perm.other,
       uid |-> uid, gid |-> gid, size |-> old.size]
  <2> DEFINE a == [n EXCEPT !.uid = uid]
             b == [a EXCEPT !.gid = gid]
             c == [b EXCEPT !.owner = perm.owner]
             d == [c EXCEPT !.group = perm.group]
  <2>1. a = [path |-> path, type |-> old.type, owner |-> old.owner,
             group |-> old.group, other |-> old.other,
             uid |-> uid, gid |-> old.gid, size |-> old.size]
    BY DEF Node
  <2>2. b = [path |-> path, type |-> old.type, owner |-> old.owner,
             group |-> old.group, other |-> old.other,
             uid |-> uid, gid |-> gid, size |-> old.size]
    <3> HIDE DEF a
    <3> QED  BY <2>1
  <2>3. c = [path |-> path, type |-> old.type, owner |-> perm.owner,
             group |-> old.group, other |-> old.other,
             uid |-> uid, gid |-> gid, size |-> old.size]
    <3> HIDE DEF b
    <3> QED  BY <2>2
  <2>4. d = [path |-> path, type |-> old.type, owner |-> perm.owner,
             group |-> perm.group, other |-> old.other,
             uid |-> uid, gid |-> gid, size |-> old.size]
    <3> HIDE DEF c
    <3> QED  BY <2>3
  <2>5. [d EXCEPT !.other = perm.other] =
           [path |-> path, type |-> old.type, owner |-> perm.owner,
             group |-> perm.group, other |-> perm.other,
             uid |-> uid, gid |-> gid, size |-> old.size]
    <3> HIDE DEF d
    <3> QED  BY <2>4
  <2> HIDE DEF n
  <2> QED  BY <2>5, Zenon
<1> QED  BY <1>1 DEF Node, Owned

LEMMA SetMetadataPlaces ==
    ASSUME PathState, NEW path \in Paths, ~ThroughFile(path),
           NEW uid \in Uids, NEW gid \in Gids, NEW perm \in Permissions,
           NEW index, index = GetFstIndex(superblock, path), index # NIL
    PROVE  LET new == Reowned(superblock, index, uid, gid, perm)
           IN  /\ new \in Superblock /\ IsPathTree(new) /\ KeepsOpenPlaces(new)
               /\ TreeOf(new) = (TreeOf(superblock) \ Tree!At(path)) \cup
                                AllOwned(Tree!At(path), uid, gid, perm)
<1> DEFINE old   == superblock.fst[index]
           entry == SetAccessMode([old EXCEPT !.uid = uid, !.gid = gid], perm)
           new   == [superblock EXCEPT !.fst[index] = entry]
<1>1. TypeOK /\ IsPathTree(superblock)
  BY DEF PathState
<1>2. path \in Seq(Components) /\ AvoidsFiles(superblock, path)
  BY NotThroughFile, FileSystemAssumption DEF FileSystemAssumption, Components
<1>3. index \in FromRoot(Pointers(superblock)) /\ PlaceOf(superblock, index) = path
  BY <1>1, <1>2, PathFacts
<1>4. index \in FstIndices /\ superblock \in Superblock
  BY <1>1, <1>3, PathTreeFacts DEF TypeOK
<1>5. old \in FstEntry
  BY <1>4 DEF Superblock
<1>6. perm \in [owner : FileMode, group : FileMode, other : FileMode]
  BY FileSystemAssumption DEF FileSystemAssumption
<1>7. /\ entry \in FstEntry /\ entry.type = old.type /\ entry.name = old.name
      /\ entry.sib = old.sib /\ entry.sub = old.sub /\ entry.size = old.size
      /\ entry.uid = uid /\ entry.gid = gid /\ entry.owner = perm.owner
      /\ entry.group = perm.group /\ entry.other = perm.other
  <2> HIDE DEF old
  <2> QED  BY <1>5, <1>6 DEF SetAccessMode, FstEntry
<1>8. Node(entry, path) = Owned(Node(old, path), uid, gid, perm)
  <2> HIDE DEF entry, old
  <2>1. /\ entry.type = old.type /\ entry.size = old.size
        /\ entry.uid = uid /\ entry.gid = gid /\ entry.owner = perm.owner
        /\ entry.group = perm.group /\ entry.other = perm.other
    BY <1>7
  <2> QED  BY <2>1, OwnedNode
<1>9. new \in Superblock
  <2> HIDE DEF entry
  <2> QED  BY <1>4, <1>7 DEF Superblock
<1>10. SameShape(superblock, new)
  <2> HIDE DEF entry
  <2> QED  BY <1>4, <1>7, ReplaceKeepsShape
<1>11. /\ SameBare(superblock, new, FstIndices \ {index})
       /\ new.fst[index] = entry
  <2> HIDE DEF entry
  <2>1. superblock \in Superblock /\ index \in FstIndices
    BY <1>4
  <2>2. \A k \in FstIndices :
           /\ SameBare(superblock, [superblock EXCEPT !.fst[k] = entry],
                       FstIndices \ {k})
           /\ [superblock EXCEPT !.fst[k] = entry].fst[k] = entry
    BY <2>1, BareUpdate
  <2> QED  BY <2>1, <2>2
<1> HIDE DEF entry
<1>12. IsPathTree(new) /\ KeepsOpenPlaces(new)
  <2> HIDE DEF new
  <2>1. /\ IsPathTree(new)
        /\ \A i \in FromRoot(Pointers(superblock)) :
              PlaceOf(new, i) = PlaceOf(superblock, i)
    BY <1>1, <1>9, <1>10, SameShapeSamePlaces
  <2>2. Live(superblock) = FromRoot(Pointers(superblock))
    BY <1>1, PathTreeFacts
  <2> QED  BY <2>1, <2>2 DEF KeepsOpenPlaces
<1>13. TreeOf(new) = (TreeOf(superblock) \ {Node(old, path)}) \cup
                     {Node(entry, path)}
  <2> HIDE DEF new
  <2> QED  BY <1>1, <1>3, <1>9, <1>10, <1>11, OneNodeChanges
<1>14. Tree!At(path) = {Node(old, path)}
  BY <1>1, <1>2, TreeAt
<1>15. new = Reowned(superblock, index, uid, gid, perm)
  BY DEF entry, Reowned
<1> HIDE DEF new, old
<1>16. AllOwned(Tree!At(path), uid, gid, perm) =
       {Owned(Node(old, path), uid, gid, perm)}
  BY <1>14 DEF AllOwned
<1> QED  BY <1>8, <1>9, <1>12, <1>13, <1>14, <1>15, <1>16

\* A formatted superblock is the root alone.
LEMMA FormattedPlaces ==
    IsPathTree(FormattedSuperblock) /\ TreeOf(FormattedSuperblock) = {Tree!Root}
<1> DEFINE sb == FormattedSuperblock
           g  == Pointers(sb)
           root == {0}
<1>1. /\ sb \in Superblock /\ sb.fst[0] = RootEntry
      /\ sb.fst[0].sib = NIL /\ sb.fst[0].sub = NIL
  BY RootInTree, FormattedSuperblockType DEF FormattedSuperblock, RootEntry
<1>2. IsFstTree(sb) /\ SiblingNamesUnique(sb)
  BY FormattedTree
<1>3. Node(RootEntry, <<>>) = Tree!Root
  BY DEF RootEntry, EmptyEntry, Node, Tree!Root
<1> HIDE DEF sb
<1>4. g["sib"][0] = NIL /\ g["sub"][0] = NIL
  BY <1>1, PointersOf, RootInTree
<1> HIDE DEF g
<1>5. \A p \in root, k \in Kinds : g[k][p] = NIL
  BY <1>4 DEF Kinds
<1>6. FromRoot(g) \subseteq root
  <2>1. root \subseteq FstIndices /\ 0 \in root /\ ClosedIn(g, root)
    BY <1>5, RootInTree, NilIsNoIndex DEF ClosedIn
  <2> HIDE DEF root
  <2> QED  BY <2>1, TreeIsLeast
<1>7. FromRoot(g) = root
  BY <1>6, RootInTree
<1>8. IsPathTree(sb)
  BY <1>1, <1>2, <1>7 DEF IsPathTree, EntriesNamed, g
<1>9. TreeOf(sb) = {Node(sb.fst[i], PlaceOf(sb, i)) : i \in root}
      /\ PlaceOf(sb, 0) = <<>>
  BY <1>7, <1>8, PlaceFacts DEF g
<1> QED  BY <1>1, <1>3, <1>8, <1>9 DEF sb

\* Superblocks that differ in their FATs only are the same tree.
LEMMA SameFstSameTree ==
    ASSUME NEW s1, IsPathTree(s1), NEW s2 \in Superblock, s2.fst = s1.fst
    PROVE  IsPathTree(s2) /\ TreeOf(s2) = TreeOf(s1)
<1>1. SameShape(s1, s2)
  BY SameFstSameShape
<1>2. SameBare(s1, s2, FstIndices)
  BY DEF SameBare
<1> QED  BY <1>1, <1>2, SameShapeSamePlaces, NoNodeChanges

LEMMA NormalisedTree ==
    ASSUME NEW sb, IsPathTree(sb)
    PROVE  IsPathTree(Normalised(sb)) /\ TreeOf(Normalised(sb)) = TreeOf(sb)
<1>1. sb \in Superblock
  BY DEF IsPathTree
<1>2. Normalised(sb).fst = sb.fst /\ Normalised(sb) \in Superblock
  BY <1>1, NormalisedType DEF Normalised, Superblock
<1> QED  BY <1>2, SameFstSameTree

-----------------------------------------------------------------------------
(* The descriptors, after a step.                                          *)

LEMMA OpenedAfter == Opened' = OpenedIn(superblock', handles')
<1>1. (Opened = OpenedIn(superblock, handles))'
  BY OpenedState, PTL
<1> QED  BY <1>1

\* A descriptor that stays open keeps its user, its mode and the place of its file.
LEMMA OpenedKept ==
    ASSUME NEW s1, NEW h1, NEW s2, NEW h2,
           \A fd \in Fds :
               /\ h2[fd].opened = h1[fd].opened
               /\ h1[fd].opened =>
                     /\ h2[fd].uid = h1[fd].uid /\ h2[fd].gid = h1[fd].gid
                     /\ h2[fd].mode = h1[fd].mode
                     /\ h2[fd].fst_index = h1[fd].fst_index
                     /\ h1[fd].fst_index # NIL =>
                           PlaceOf(s2, h1[fd].fst_index) =
                               PlaceOf(s1, h1[fd].fst_index)
    PROVE  OpenedIn(s2, h2) = OpenedIn(s1, h1)
<1>1. \A fd \in Fds : h1[fd].opened =>
          PlaceOfHandle(s2, h2[fd]) = PlaceOfHandle(s1, h1[fd])
  BY DEF PlaceOfHandle
<1> QED  BY <1>1 DEF OpenedIn

\* The handles stay as they are, and so do the places of the open files.
LEMMA OpenedUnchanged ==
    ASSUME PathState, KeepsOpenPlaces(superblock'), handles' = handles
    PROVE  Opened' = Opened
<1>1. \A fd \in Fds : handles[fd].opened /\ handles[fd].fst_index # NIL =>
          PlaceOf(superblock', handles[fd].fst_index) =
              PlaceOf(superblock, handles[fd].fst_index)
  <2> SUFFICES ASSUME NEW fd \in Fds, handles[fd].opened,
                      handles[fd].fst_index # NIL
               PROVE  PlaceOf(superblock', handles[fd].fst_index) =
                          PlaceOf(superblock, handles[fd].fst_index)
    OBVIOUS
  <2>1. handles[fd].fst_index \in Live(superblock)
            /\ Opens(fd, handles[fd].fst_index)
    BY OpenFilePlaces, PathTreeFacts DEF PathState
  <2> QED  BY <2>1 DEF KeepsOpenPlaces
<1>2. OpenedIn(superblock', handles') = OpenedIn(superblock, handles)
  BY <1>1, OpenedKept
<1> QED  BY <1>2, OpenedState, OpenedAfter

LEMMA SamePlacesKept == KeepsOpenPlaces(superblock)
BY DEF KeepsOpenPlaces

-----------------------------------------------------------------------------
(* The namespace calls.                                                    *)

\* What a caller does to the tree of paths.
EditsTree(user) ==
    \E path \in Tree!Places :
        \/ \E type \in {"file", "directory"}, perm \in Permissions :
               Tree!Create(user, path, type, perm)
        \/ Tree!Delete(user, path)
        \/ \E new \in Tree!Places : Tree!Rename(user, path, new)
        \/ \E owner \in Owners, perm \in Permissions :
               Tree!SetMetadata(user, path, owner[1], owner[2], perm)

\* A call that is refused changes nothing; another edits the tree, in memory and on
\* the NAND, and moves no open file.
CallOutcome(fd) ==
    \/ superblock' = superblock /\ stored' = stored
    \/ /\ IsPathTree(superblock') /\ stored' = superblock'
       /\ KeepsOpenPlaces(superblock')
       /\ IsOpen(fd) /\ EditsTree(UserOf(fd))

LEMMA PlacesInTree ==
    ASSUME IsPathTree(superblock), NEW i \in FromRoot(Pointers(superblock))
    PROVE  /\ PlaceOf(superblock, i) \in Tree!Places
           /\ \A name \in Names :
                 Append(PlaceOf(superblock, i), name) \in Tree!Places
<1> DEFINE node == Node(superblock.fst[i], PlaceOf(superblock, i))
<1>1. TreeOf(superblock) = {Node(superblock.fst[k], PlaceOf(superblock, k)) :
                               k \in FromRoot(Pointers(superblock))}
  BY PlaceFacts
<1>2. node \in TreeOf(superblock)
  BY <1>1
<1>3. node.path = PlaceOf(superblock, i)
  BY NodeFields
<1> HIDE DEF node
<1> QED  BY <1>2, <1>3 DEF Tree!Places

\* A path that a call may take for a new name.
LEMMA NewPlaceInTree ==
    ASSUME IsPathTree(superblock), NEW path \in Paths, path # <<>>,
           AvoidsFiles(superblock, path), path[Len(path)] \notin LongNames,
           GetFstIndex(superblock, SplitPath(path).parent) # NIL
    PROVE  path \in Tree!Places
<1> DEFINE name   == SplitPath(path).file_name
           parent == GetFstIndex(superblock, SplitPath(path).parent)
<1>1. /\ path \in Seq(Components) /\ parent \in FromRoot(Pointers(superblock))
      /\ path = Append(PlaceOf(superblock, parent), name)
  BY FoundByPath
<1>2. name = path[Len(path)] /\ path[Len(path)] \in Components
  BY <1>1, PathSplit
<1>3. name \in Names
  BY <1>2 DEF Components
<1> HIDE DEF name, parent
<1> QED  BY <1>1, <1>3, PlacesInTree

LEMMA CreateOutcome ==
    ASSUME PathState, NEW fd \in HandleIds, NEW path \in Paths, ~ThroughFile(path),
           path # <<>> => path[Len(path)] \notin LongNames,
           NEW type \in {"file", "directory"}, NEW perm \in Permissions,
           Create(fd, path, type, perm)
    PROVE  CallOutcome(fd)
<1>1. CASE CreateCode(fd, path, type) # "Success"
  BY <1>1, Zenon DEF Create, Finishes, CallOutcome
<1>2. CASE CreateCode(fd, path, type) = "Success"
  <2> DEFINE new == Created(fd, path, type, perm)
  <2>1. superblock' = new /\ stored' = new
    BY <1>2, Zenon DEF Create, Finishes
  <2>2. /\ IsOpen(fd) /\ path # <<>>
        /\ GetFstIndex(superblock, SplitPath(path).parent) # NIL
    BY <1>2, Zenon DEF CreateCode, IsValidNonRootPath
  <2>3. TypeOK /\ IsPathTree(superblock)
    BY DEF PathState
  <2>4. path \in Seq(Components) /\ AvoidsFiles(superblock, path)
    BY NotThroughFile, FileSystemAssumption DEF FileSystemAssumption, Components
  <2>5. path \in Tree!Places
    BY <2>2, <2>3, <2>4, NewPlaceInTree
  <2>6. Tree!CreateCode(UserOf(fd), path, type) = "Success"
    BY <1>2, <2>2, CreateCodeAgrees
  <2>7. /\ IsPathTree(new)
        /\ \A i \in FromRoot(Pointers(superblock)) :
              PlaceOf(new, i) = PlaceOf(superblock, i)
        /\ TreeOf(new) = TreeOf(superblock) \cup {NewNode(fd, path, type, perm)}
    BY <1>2, <2>2, <2>3, CreatedPlaces
  <2> HIDE DEF new
  <2>8. KeepsOpenPlaces(superblock')
    BY <2>1, <2>3, <2>7, PathTreeFacts DEF KeepsOpenPlaces
  <2>9. Tree!Create(UserOf(fd), path, type, perm)
    BY <2>1, <2>6, <2>7 DEF Tree!Create, NewNode, UserOf
  <2>10. EditsTree(UserOf(fd))
    BY <2>5, <2>9 DEF EditsTree
  <2> QED  BY <2>1, <2>2, <2>7, <2>8, <2>10 DEF CallOutcome
<1> QED  BY <1>1, <1>2

\* What is in the tree after Delete or Rename was there before.
LEMMA OpenPlacesStay ==
    ASSUME PathState, NEW sb, IsPathTree(sb), KeepsOpenLive(sb),
           \A i \in FromRoot(Pointers(sb)) : PlaceOf(sb, i) = PlaceOf(superblock, i)
    PROVE  KeepsOpenPlaces(sb)
<1>1. Live(sb) = FromRoot(Pointers(sb))
  BY PathTreeFacts
<1> QED  BY <1>1 DEF KeepsOpenLive, KeepsOpenPlaces

LEMMA DeleteOutcome ==
    ASSUME PathState, NEW fd \in PathFds, NEW path \in Paths, ~ThroughFile(path),
           Delete(fd, path)
    PROVE  CallOutcome(fd)
<1> DEFINE parent  == GetFstIndex(superblock, SplitPath(path).parent)
           index   == ChildIndex(superblock, parent, SplitPath(path).file_name)
           removed == RemoveFstEntryFromChain(DeleteContents(index), parent, index)
<1>1. CASE DeleteCode(fd, path) # "Success"
  BY <1>1, Zenon DEF Delete, Finishes, CallOutcome
<1>2. CASE DeleteCode(fd, path) = "Success"
  <2>1. Finishes(removed.code, removed.sb)
    BY <1>2, Zenon DEF Delete
  <2>2. IsOpen(fd) /\ path # <<>> /\ parent # NIL /\ index # NIL
    BY <1>2, Zenon DEF DeleteCode, IsValidNonRootPath
  <2>3. TypeOK /\ IsPathTree(superblock)
    BY DEF PathState
  <2>4. path \in Seq(Components) /\ AvoidsFiles(superblock, path)
    BY NotThroughFile, FileSystemAssumption DEF FileSystemAssumption, Components
  <2>5. /\ parent \in FromRoot(Pointers(superblock))
        /\ IsDirectory(superblock.fst[parent])
        /\ index \in FromRoot(Pointers(superblock))
        /\ index \in Children(superblock, parent)
        /\ PlaceOf(superblock, index) = path
    BY <2>2, <2>3, <2>4, FoundByPath
  <2>6. Tree!DeleteCode(UserOf(fd), path) = "Success"
    BY <1>2, <2>2, DeleteCodeAgrees
  <2>7. KeepsOpenLive(superblock')
    <3>1. StepKeeps(WritableBy(fd))
      BY <2>3, DeleteKeeps DEF PathState, IsPathTree
    <3> QED  BY <3>1 DEF StepKeeps, Keeps
  <2> HIDE DEF parent, index
  <2>8. removed.code = "Success"
    BY <2>3, <2>5, RemovalKeepsTree DEF IsPathTree
  <2>9. /\ IsPathTree(removed.sb)
        /\ \A i \in FromRoot(Pointers(removed.sb)) :
              PlaceOf(removed.sb, i) = PlaceOf(superblock, i)
        /\ TreeOf(removed.sb) = {n \in TreeOf(superblock) :
                                    ~Tree!IsPrefix(path, n.path)}
    BY <2>3, <2>5, RemovedPlaces
  <2> HIDE DEF removed
  <2>10. superblock' = removed.sb /\ stored' = removed.sb
    BY <2>1, <2>8 DEF Finishes
  <2>11. KeepsOpenPlaces(superblock')
    BY <2>7, <2>9, <2>10, OpenPlacesStay
  <2>12. Tree!Delete(UserOf(fd), path)
    BY <2>6, <2>9, <2>10 DEF Tree!Delete, Tree!From
  <2>13. EditsTree(UserOf(fd))
    BY <2>3, <2>5, <2>12, PlacesInTree DEF EditsTree
  <2> QED  BY <2>2, <2>9, <2>10, <2>11, <2>13 DEF CallOutcome
<1> QED  BY <1>1, <1>2

LEMMA RenameOutcome ==
    ASSUME PathState, NEW fd \in HandleIds, NEW old \in Paths, NEW new \in Paths,
           ~ThroughFile(old), ~ThroughFile(new),
           ~IsProperPrefix(new, old), ~IsProperPrefix(old, new),
           new # <<>> => new[Len(new)] \notin LongNames, Rename(fd, old, new)
    PROVE  CallOutcome(fd)
<1>1. CASE RenameCode(fd, old, new) # "Success"
  BY <1>1, Zenon DEF Rename, Finishes, CallOutcome
<1>2. CASE RenameCode(fd, old, new) = "Success"
  <2> DEFINE renamed == Renamed(old, new)
             parent  == GetFstIndex(superblock, SplitPath(old).parent)
             index   == ChildIndex(superblock, parent, SplitPath(old).file_name)
  <2>1. Finishes(renamed.code, renamed.sb)
    BY <1>2, Zenon DEF Rename
  <2>2. /\ IsOpen(fd) /\ old # <<>> /\ new # <<>>
        /\ parent # NIL /\ index # NIL
        /\ GetFstIndex(superblock, SplitPath(new).parent) # NIL
    BY <1>2, Zenon DEF RenameCode, IsValidNonRootPath
  <2>3. TypeOK /\ IsPathTree(superblock) /\ OpenFilesAreFiles
    BY DEF PathState
  <2>4. AvoidsFiles(superblock, old) /\ AvoidsFiles(superblock, new)
    BY NotThroughFile, FileSystemAssumption DEF FileSystemAssumption, Components
  <2>5. index \in FromRoot(Pointers(superblock)) /\ PlaceOf(superblock, index) = old
    BY <2>2, <2>3, <2>4, FoundByPath
  <2>6. Tree!RenameCode(UserOf(fd), old, new) = "Success"
    BY <1>2, <2>2, RenameCodeAgrees
  <2>7. old \in Tree!Places /\ new \in Tree!Places
    BY <2>2, <2>3, <2>4, <2>5, PlacesInTree, NewPlaceInTree
  <2>8. /\ renamed.code = "Success" /\ IsPathTree(renamed.sb)
        /\ KeepsOpenPlaces(renamed.sb)
        /\ TreeOf(renamed.sb) =
              (TreeOf(superblock) \ (Tree!From(old) \cup Tree!From(new))) \cup
              {Moving(old, new, n) : n \in Tree!From(old)}
    BY <1>2, <2>2, <2>3, RenamedPlaces
  <2> HIDE DEF renamed
  <2>9. superblock' = renamed.sb /\ stored' = renamed.sb
    BY <2>1, <2>8 DEF Finishes
  <2>10. KeepsOpenPlaces(superblock')
    BY <2>8, <2>9
  <2>11. Tree!Rename(UserOf(fd), old, new)
    BY <2>6, <2>8, <2>9 DEF Tree!Rename, Moving, Rerooted
  <2>12. EditsTree(UserOf(fd))
    BY <2>7, <2>11 DEF EditsTree
  <2> QED  BY <2>2, <2>8, <2>9, <2>10, <2>12 DEF CallOutcome
<1> QED  BY <1>1, <1>2

LEMMA SetMetadataOutcome ==
    ASSUME PathState, NEW fd \in HandleIds, NEW path \in Paths, ~ThroughFile(path),
           NEW owner \in Owners, NEW perm \in Permissions,
           SetMetadata(fd, path, owner[1], owner[2], perm)
    PROVE  CallOutcome(fd)
<1> DEFINE uid   == owner[1]
           gid   == owner[2]
           index == GetFstIndex(superblock, path)
           new   == Reowned(superblock, index, uid, gid, perm)
<1>1. CASE SetMetadataCode(fd, path, uid) # "Success"
  BY <1>1, Zenon DEF SetMetadata, Finishes, CallOutcome
<1>2. CASE SetMetadataCode(fd, path, uid) = "Success"
  <2>1. superblock' = new /\ stored' = new
    BY <1>2, Zenon DEF SetMetadata, Finishes, Reowned
  <2>2. IsOpen(fd) /\ index # NIL
    BY <1>2, Zenon DEF SetMetadataCode
  <2>3. uid \in Uids /\ gid \in Gids
    BY UserTypes
  <2>4. /\ IsPathTree(new) /\ KeepsOpenPlaces(new)
        /\ TreeOf(new) = (TreeOf(superblock) \ Tree!At(path)) \cup
                         AllOwned(Tree!At(path), uid, gid, perm)
    <3>1. index = GetFstIndex(superblock, path)
      OBVIOUS
    <3> HIDE DEF uid, gid, index
    <3> QED  BY <2>2, <2>3, <3>1, SetMetadataPlaces
  <2>5. Tree!SetMetadataCode(UserOf(fd), path, uid) = "Success"
    BY <1>2, <2>2, SetMetadataCodeAgrees
  <2>6. path \in Tree!Places
    <3>1. path \in Seq(Components) /\ AvoidsFiles(superblock, path)
      BY NotThroughFile, FileSystemAssumption DEF FileSystemAssumption, Components
    <3>2. IsPathTree(superblock)
      BY DEF PathState
    <3>3. index \in FromRoot(Pointers(superblock))
              /\ PlaceOf(superblock, index) = path
      BY <2>2, <3>1, <3>2, PathFacts
    <3> HIDE DEF index
    <3> QED  BY <3>2, <3>3, PlacesInTree
  <2> HIDE DEF new
  <2>7. KeepsOpenPlaces(superblock')
    BY <2>1, <2>4
  <2>8. Tree!SetMetadata(UserOf(fd), path, uid, gid, perm)
    BY <2>1, <2>4, <2>5 DEF Tree!SetMetadata, Owned, AllOwned
  <2>9. EditsTree(UserOf(fd))
    BY <2>6, <2>8 DEF EditsTree
  <2> QED  BY <2>1, <2>2, <2>4, <2>7, <2>9 DEF CallOutcome
<1> QED  BY <1>1, <1>2

LEMMA NamespaceOutcomes ==
    ASSUME PathState, "through_file" \notin Uses, "onto_ancestor" \notin Uses,
           "long_name" \notin Uses, "below_itself" \notin Uses, NamespaceCall
    PROVE  handles' = handles /\ \E fd \in PathFds : CallOutcome(fd)
<1>1. PICK fd \in PathFds, path \in Paths :
          /\ PlainPath(path)
          /\ \/ /\ PlainName(path)
                /\ \E perm \in Permissions : \/ CreateFile(fd, path, perm)
                                             \/ CreateDirectory(fd, path, perm)
             \/ Delete(fd, path)
             \/ \E new_path \in Paths :
                    PlainRename(path, new_path) /\ Rename(fd, path, new_path)
             \/ \E user \in Owners, perm \in Permissions :
                    SetMetadata(fd, path, user[1], user[2], perm)
  BY DEF NamespaceCall, NamespaceCallOn
<1>2. ~ThroughFile(path) /\ fd \in HandleIds
  BY <1>1, FileSystemAssumption DEF FileSystemAssumption, PlainPath, Permitted
<1>3. CASE /\ PlainName(path)
           /\ \E perm \in Permissions : \/ CreateFile(fd, path, perm)
                                        \/ CreateDirectory(fd, path, perm)
  <2>1. path # <<>> => path[Len(path)] \notin LongNames
    BY <1>3 DEF PlainName, Permitted
  <2>2. PICK perm \in Permissions : \/ Create(fd, path, "file", perm)
                                    \/ Create(fd, path, "directory", perm)
    BY <1>3 DEF CreateFile, CreateDirectory
  <2>3. CallOutcome(fd)
    BY <1>2, <2>1, <2>2, CreateOutcome
  <2>4. handles' = handles
    BY <2>2, Zenon DEF Create, Finishes
  <2> QED  BY <2>3, <2>4
<1>4. CASE Delete(fd, path)
  <2>1. CallOutcome(fd)
    BY <1>2, <1>4, DeleteOutcome
  <2>2. handles' = handles
    BY <1>4, Zenon DEF Delete, Finishes
  <2> QED  BY <2>1, <2>2
<1>5. CASE \E new_path \in Paths :
              PlainRename(path, new_path) /\ Rename(fd, path, new_path)
  <2>1. PICK new_path \in Paths :
            PlainRename(path, new_path) /\ Rename(fd, path, new_path)
    BY <1>5
  <2>2. /\ ~ThroughFile(new_path)
        /\ new_path # <<>> => new_path[Len(new_path)] \notin LongNames
        /\ ~IsProperPrefix(new_path, path) /\ ~IsProperPrefix(path, new_path)
    BY <2>1 DEF PlainRename, PlainPath, PlainName, Permitted
  <2>3. CallOutcome(fd)
    BY <1>2, <2>1, <2>2, RenameOutcome
  <2>4. handles' = handles
    BY <2>1, Zenon DEF Rename, Finishes
  <2> QED  BY <2>3, <2>4
<1>6. CASE \E user \in Owners, perm \in Permissions :
              SetMetadata(fd, path, user[1], user[2], perm)
  <2>1. PICK user \in Owners, perm \in Permissions :
            SetMetadata(fd, path, user[1], user[2], perm)
    BY <1>6
  <2>2. CallOutcome(fd)
    BY <1>2, <2>1, SetMetadataOutcome
  <2>3. handles' = handles
    BY <2>1, Zenon DEF SetMetadata, Finishes
  <2> QED  BY <2>2, <2>3
<1> QED  BY <1>1, <1>3, <1>4, <1>5, <1>6

-----------------------------------------------------------------------------
(* The invariant: both superblocks are trees of paths.                      *)

PathInv ==
    /\ TypeOK /\ OpenFilesAreFiles /\ OpenFilesLive
    /\ IsPathTree(superblock) /\ IsPathTree(stored)

\* The uses that break the tree, those that break the names in it, and a Rename of
\* a directory below itself, which takes the directory out of the tree.
PathSafeUses ==
    /\ "through_file" \notin Uses /\ "onto_ancestor" \notin Uses
    /\ "long_name" \notin Uses /\ "below_itself" \notin Uses

\* What a file call does to the superblocks.
FileCallOutcome ==
    /\ superblock' \in {superblock, FlushFileCache.superblock}
    /\ stored' \in {stored, superblock'}

LEMMA CloseEdits == ASSUME NEW fd, Close(fd) PROVE FileCallOutcome
<1> DEFINE flush == IF cache.handle = fd THEN FlushFileCache ELSE IoState
<1>1. flush.superblock \in {superblock, FlushFileCache.superblock}
  BY DEF IoState
<1>2. \/ superblock' = superblock /\ stored' = stored
      \/ superblock' = flush.superblock /\ stored' \in {stored, flush.superblock}
  BY DEF Close
<1> HIDE DEF flush
<1> QED  BY <1>1, <1>2 DEF FileCallOutcome

LEMMA LoopEdits ==
    ASSUME TypeOK, ReadFileStep \/ WriteFileStep PROVE FileCallOutcome
<1>1. PICK op \in {"ReadFile", "WriteFile"}, write \in BOOLEAN : Advance(op, write)
  BY Zenon DEF ReadFileStep, WriteFileStep
<1>2. superblock' \in {superblock, FlushFileCache.superblock}
  BY <1>1, RunningCall, AdvanceSuperblock
<1>3. stored' = stored
  BY <1>1, Zenon DEF Advance, Copy
<1> QED  BY <1>2, <1>3 DEF FileCallOutcome

\* It keeps the shape of the tree.
LEMMA FileCallShape ==
    ASSUME TypeOK, TypeOK', IsPathTree(superblock), FileCallOutcome
    PROVE  /\ SameShape(superblock, superblock') /\ IsPathTree(superblock')
           /\ \A i \in FromRoot(Pointers(superblock)) :
                 PlaceOf(superblock', i) = PlaceOf(superblock, i)
           /\ KeepsOpenPlaces(superblock')
<1>1. superblock' \in Superblock
  BY DEF TypeOK
<1>2. SameShape(superblock, superblock')
  BY FlushFileCacheKeepsShape, SameFstSameShape DEF FileCallOutcome
<1>3. /\ IsPathTree(superblock')
      /\ \A i \in FromRoot(Pointers(superblock)) :
            PlaceOf(superblock', i) = PlaceOf(superblock, i)
  BY <1>1, <1>2, SameShapeSamePlaces
<1> QED  BY <1>2, <1>3, PathTreeFacts DEF KeepsOpenPlaces

LEMMA NextPathTree ==
    ASSUME PathInv, PathSafeUses, [Next]_vars
    PROVE  IsPathTree(superblock') /\ IsPathTree(stored')
<1>1. /\ TypeOK /\ PathState /\ IsPathTree(superblock) /\ IsPathTree(stored)
      /\ TypeOK'
  BY NextType DEF PathInv, PathState
<1>2. CASE superblock' = superblock /\ stored' = stored
  BY <1>1, <1>2
<1>3. CASE NamespaceCall
  BY <1>1, <1>3, NamespaceOutcomes DEF PathSafeUses, CallOutcome
<1>4. CASE FileCallOutcome
  BY <1>1, <1>4, FileCallShape DEF FileCallOutcome
<1>5. CASE OpenCall
  BY <1>2, <1>5 DEF OpenCall, OpenFs, OpenFile
<1>6. CASE FileCall
  <2>1. CASE \E fd \in HandleIds : Close(fd)
    BY <2>1, <1>4, CloseEdits
  <2>2. CASE ~\E fd \in HandleIds : Close(fd)
    BY <1>2, <1>6, <2>2 DEF FileCall, SeekFile, ReadFile, WriteFile, Begin
  <2> QED  BY <2>1, <2>2
<1>7. CASE FormatCall
  BY <1>2, <1>7, FormattedPlaces DEF FormatCall, Format
<1>8. CASE ReadFileStep \/ WriteFileStep
  BY <1>1, <1>8, <1>4, LoopEdits
<1>9. CASE Remount
  BY <1>1, <1>9, NormalisedTree DEF Remount
<1>10. CASE UNCHANGED vars
  BY <1>2, <1>10 DEF vars
<1> QED  BY <1>3, <1>5, <1>6, <1>7, <1>8, <1>9, <1>10 DEF Next

LEMMA InitPath == Init => PathInv
<1> SUFFICES ASSUME Init PROVE PathInv
  OBVIOUS
<1>1. stored.fst = FormattedSuperblock.fst
  BY FormattedSuperblockType DEF Init, Superblock
<1>2. TypeOK /\ OpenFilesAreFiles /\ superblock = Normalised(stored)
  BY InitType, InitOpenFiles DEF Init
<1>3. IsPathTree(stored)
  BY <1>1, <1>2, FormattedPlaces, SameFstSameTree DEF TypeOK
<1>4. IsPathTree(superblock)
  BY <1>2, <1>3, NormalisedTree
<1>5. \A fd \in Fds : ~handles[fd].opened
  BY HandleIdTypes DEF Init, NewHandle
<1> QED  BY <1>2, <1>3, <1>4, <1>5 DEF PathInv, OpenFilesLive

LEMMA NextPath ==
    ASSUME PathInv, PathSafeUses, [Next]_vars
    PROVE  PathInv'
<1>1. /\ TypeOK /\ OpenFilesAreFiles /\ OpenFilesLive
      /\ IsPathTree(superblock) /\ IsFstTree(superblock) /\ TreeSafeUses
  BY DEF PathInv, IsPathTree, PathSafeUses, TreeSafeUses
<1>2. TypeOK' /\ OpenFilesAreFiles' /\ OpenFilesLive'
  BY <1>1, NextType, NextOpenFiles, OpenFilesStayLive
<1>3. IsPathTree(superblock') /\ IsPathTree(stored')
  BY NextPathTree
<1> QED  BY <1>2, <1>3 DEF PathInv

\* With the uses of the interface that keep the tree: every call on every path by
\* every user returns the code, and what it reads the values, that a tree of paths
\* has.  This is so for any bounds, tables, names, users and access modes.
THEOREM AnswersAlwaysAgree ==
    ASSUME PathSafeUses
    PROVE  Spec => []AnswersAgree
<1>1. Init => PathInv
  BY InitPath
<1>2. PathInv /\ [Next]_vars => PathInv'
  BY NextPath
<1>3. PathInv => AnswersAgree
  BY AllAnswersAgree DEF PathInv, PathState, PathSafeUses
<1> QED  BY <1>1, <1>2, <1>3, PTL DEF Spec

-----------------------------------------------------------------------------
(* What the file calls keep of the descriptors.                            *)

\* Only the handle that the cache belongs to learns that the superblock changed.
KeepsDescriptors(hs) ==
    \A k \in HandleIds :
        /\ hs[k].opened = handles[k].opened
        /\ hs[k].fst_index = handles[k].fst_index
        /\ hs[k].mode = handles[k].mode
        /\ hs[k].uid = handles[k].uid /\ hs[k].gid = handles[k].gid
        /\ k # cache.handle => hs[k].superblock_flush_needed =
                                  handles[k].superblock_flush_needed

LEMMA HandleUpdates ==
    ASSUME NEW hs \in [HandleIds -> Handle], NEW fd \in HandleIds,
           NEW k \in HandleIds, NEW offset, NEW size
    PROVE  LET flagged == [hs EXCEPT ![fd].superblock_flush_needed = TRUE]
               moved   == [hs EXCEPT ![fd].file_offset = offset]
               sized   == [hs EXCEPT ![fd].file_size = size]
           IN  /\ flagged[k].uid = hs[k].uid /\ flagged[k].gid = hs[k].gid
               /\ moved[k].uid = hs[k].uid /\ moved[k].gid = hs[k].gid
               /\ moved[k].opened = hs[k].opened /\ moved[k].mode = hs[k].mode
               /\ moved[k].fst_index = hs[k].fst_index
               /\ moved[k].superblock_flush_needed = hs[k].superblock_flush_needed
               /\ sized[k].uid = hs[k].uid /\ sized[k].gid = hs[k].gid
BY DEF Handle

LEMMA FlushDescriptors ==
    ASSUME TypeOK
    PROVE  KeepsDescriptors(FlushFileCache.handles)
<1> DEFINE flush == FlushFileCache
           flagged ==
               [handles EXCEPT ![cache.handle].superblock_flush_needed = TRUE]
<1>1. FlushOutcome(flush)
  BY FlushOutcomes
<1>2. flush.handles = handles \/ (Dirty(cache) /\ flush.handles = flagged)
  BY Zenon DEF FlushFileCache, FlushNeeded, Written, IoState
<1>3. Dirty(cache) => cache.handle \in HandleIds
  BY DEF TypeOK, Cache, Dirty
<1>4. \A k \in HandleIds : /\ flush.handles[k].uid = handles[k].uid
                           /\ flush.handles[k].gid = handles[k].gid
  <2>1. Dirty(cache) => \A k \in HandleIds : /\ flagged[k].uid = handles[k].uid
                                             /\ flagged[k].gid = handles[k].gid
    BY <1>3, HandleUpdates DEF TypeOK
  <2> HIDE DEF flush, flagged
  <2> QED  BY <1>2, <2>1
<1> HIDE DEF flush
<1> QED  BY <1>1, <1>4 DEF KeepsDescriptors, FlushOutcome, SameHandles, Flushed,
        flush

LEMMA TwoUpdates ==
    ASSUME NEW hs \in [HandleIds -> Handle], NEW fd \in HandleIds,
           NEW offset, NEW write, NEW longer
    PROVE  LET new == [hs EXCEPT ![fd].file_offset = offset,
                                 ![fd].file_size = IF write THEN longer ELSE @]
           IN  \A k \in HandleIds : new[k].uid = hs[k].uid /\ new[k].gid = hs[k].gid
BY DEF Handle

LEMMA LoopDescriptors ==
    ASSUME TypeOK, ReadFileStep \/ WriteFileStep
    PROVE  KeepsDescriptors(handles')
<1>1. PICK op \in {"ReadFile", "WriteFile"}, write \in BOOLEAN : Advance(op, write)
  BY Zenon DEF ReadFileStep, WriteFileStep
<1> DEFINE fd     == call.fd
           start  == handles[fd].file_offset
           pop    == PopulateFileCache(fd, start, write)
           length == CopyLength(start, pop.cache)
           offset == (start + length) % WordSize
           longer == IF handles[fd].file_size < offset THEN offset
                                                       ELSE handles[fd].file_size
<1>2. fd \in HandleIds /\ start \in U32 /\ call # Idle
  BY <1>1, RunningCall DEF TypeOK, Call, Handle
<1>3. pop \in IoStates
  BY <1>2, PopulateFileCacheType
<1>4. PopulateOutcome(pop, fd, start, write)
  BY <1>2, PopulateOutcomes
<1>5. KeepsDescriptors(pop.handles)
  <2>1. KeepsDescriptors(handles)
    BY DEF KeepsDescriptors
  <2>2. pop.handles \in {handles, FlushFileCache.handles}
    <3> HIDE DEF pop
    <3> QED  BY <1>4 DEF PopulateOutcome
  <2> HIDE DEF pop
  <2> QED  BY <2>1, <2>2, FlushDescriptors
<1>6. AdvanceOutcome(pop, write)
  BY <1>1, <1>2, AdvanceOutcomes
<1>7. \A k \in HandleIds : /\ handles'[k].uid = pop.handles[k].uid
                           /\ handles'[k].gid = pop.handles[k].gid
  <2>1. \/ handles' = pop.handles
        \/ handles' = [pop.handles EXCEPT
                          ![fd].file_offset = offset,
                          ![fd].file_size = IF write THEN longer ELSE @]
    BY <1>1, Zenon DEF Advance, Copy
  <2> HIDE DEF pop, offset, longer, length
  <2>2. pop.handles \in [HandleIds -> Handle]
    BY <1>3 DEF IoStates
  <2>3. CASE handles' = [pop.handles EXCEPT
                           ![fd].file_offset = offset,
                           ![fd].file_size = IF write THEN longer ELSE @]
    BY <1>2, <2>2, <2>3, TwoUpdates
  <2> QED  BY <2>1, <2>3
<1> HIDE DEF pop
<1>8. \A k \in HandleIds :
         /\ handles'[k].opened = pop.handles[k].opened
         /\ handles'[k].fst_index = pop.handles[k].fst_index
         /\ handles'[k].mode = pop.handles[k].mode
         /\ handles'[k].superblock_flush_needed =
               pop.handles[k].superblock_flush_needed
  <2>1. CASE handles' = pop.handles
    BY <2>1
  <2>2. CASE \E l \in Nat : Advanced(pop, write, l)
    BY <2>2, Zenon DEF Advanced
  <2> QED  BY <1>6, <2>1, <2>2, Zenon DEF AdvanceOutcome
<1> QED  BY <1>5, <1>7, <1>8 DEF KeepsDescriptors

-----------------------------------------------------------------------------
(* The internal handle acts for the superuser and never waits for a flush.  *)

InternalHandle ==
    /\ handles[INTERNAL_FD].uid = 0 /\ handles[INTERNAL_FD].gid = 0
    /\ ~handles[INTERNAL_FD].superblock_flush_needed

LEMMA InternalIsApart ==
    ASSUME HandlesInv
    PROVE  /\ INTERNAL_FD \notin Fds /\ INTERNAL_FD \in HandleIds
           /\ Fds \subseteq HandleIds /\ cache.handle # INTERNAL_FD
<1>1. /\ INTERNAL_FD \notin Fds /\ INTERNAL_FD \in HandleIds
      /\ Fds \subseteq HandleIds /\ INTERNAL_FD # NoHandle
  BY HandleIdTypes, FileIoAssumption DEF FileIoAssumption, Fds, INTERNAL_FD,
     HandleIds
<1>2. cache.handle # NoHandle => cache.handle \in Fds
  BY DEF HandlesInv, FileOpen
<1> QED  BY <1>1, <1>2

LEMMA NewHandleFields ==
    ASSUME NEW value
    PROVE  LET h == [NewHandle EXCEPT !.opened = value]
           IN  /\ h.opened = value /\ h.uid = 0 /\ h.gid = 0
               /\ ~h.superblock_flush_needed
               /\ NewHandle.uid = 0 /\ NewHandle.gid = 0
               /\ ~NewHandle.opened /\ ~NewHandle.superblock_flush_needed
BY DEF NewHandle

LEMMA SameInternal ==
    ASSUME InternalHandle, handles'[INTERNAL_FD] = handles[INTERNAL_FD]
    PROVE  InternalHandle'
BY DEF InternalHandle

LEMMA NextInternal ==
    ASSUME TypeOK, HandlesInv, InternalHandle, [Next]_vars
    PROVE  InternalHandle'
<1>1. INTERNAL_FD \notin Fds /\ INTERNAL_FD \in HandleIds /\ Fds \subseteq HandleIds
      /\ cache.handle # INTERNAL_FD
  BY InternalIsApart
<1>2. handles \in [HandleIds -> Handle]
  BY DEF TypeOK
<1>3. CASE handles' = handles
  BY <1>3, SameInternal
<1>4. CASE NamespaceCall
  BY <1>3, <1>4, NamespaceSteps DEF NamespaceStep
<1>5. CASE OpenCall
  <2>1. CASE \E h : FreeHandles # {} /\
                    handles' = [handles EXCEPT ![Least(FreeHandles)] = h]
    <3>1. Least(FreeHandles) # INTERNAL_FD
      BY <1>1, <2>1, FreeHandleType
    <3> QED  BY <1>1, <1>2, <2>1, <3>1, SameInternal
  <2> QED  BY <1>3, <1>5, <2>1, OpenCallAssigns
<1>6. ASSUME NEW fd \in HandleIds, Close(fd)
      PROVE  InternalHandle'
  <2>1. CloseOutcome(FlushFileCache, fd)
    BY <1>6, CloseOutcomes
  <2>2. KeepsDescriptors(FlushFileCache.handles)
    BY FlushDescriptors
  <2>3. /\ FlushFileCache.handles[INTERNAL_FD].uid = 0
        /\ FlushFileCache.handles[INTERNAL_FD].gid = 0
        /\ ~FlushFileCache.handles[INTERNAL_FD].superblock_flush_needed
    BY <1>1, <2>2 DEF KeepsDescriptors, InternalHandle
  <2> QED  BY <1>1, <1>3, <2>1, <2>3, NewHandleFields
           DEF CloseOutcome, ClosedWithCache, ClosedWithout, InternalHandle
<1>7. ASSUME NEW fd \in HandleIds, NEW offset, NEW whence,
             SeekFile(fd, offset, whence)
      PROVE  InternalHandle'
  <2>1. PICK position : handles' \in {handles,
                            [handles EXCEPT ![fd].file_offset = position]}
    BY <1>7 DEF SeekFile
  <2>2. CASE handles' = [handles EXCEPT ![fd].file_offset = position]
    BY <1>1, <1>2, <2>2, HandleUpdates DEF InternalHandle
  <2> QED  BY <1>3, <2>1, <2>2
<1>8. CASE FileCall
  BY <1>3, <1>6, <1>7, <1>8 DEF FileCall, ReadFile, WriteFile, Begin
<1>9. CASE FormatCall
  BY <1>1, <1>3, <1>9, SameInternal DEF FormatCall, Format
<1>10. CASE ReadFileStep \/ WriteFileStep
  BY <1>1, <1>10, LoopDescriptors DEF KeepsDescriptors, InternalHandle
<1>11. CASE Remount
  BY <1>1, <1>11, NewHandleFields DEF Remount, InternalHandle
<1>12. CASE UNCHANGED vars
  BY <1>3, <1>12 DEF vars
<1> QED  BY <1>4, <1>5, <1>8, <1>9, <1>10, <1>11, <1>12 DEF Next

LEMMA InitInternal == Init => InternalHandle
BY HandleIdTypes, NewHandleFields DEF Init, InternalHandle, HandleIds

-----------------------------------------------------------------------------
(* Every step is a step of the tree of paths or none.                      *)

TreeStep == Tree!Next \/ UNCHANGED Tree!vars

LEMMA NothingHappens ==
    ASSUME TreeOf(superblock') = TreeOf(superblock),
           TreeOf(stored') = TreeOf(stored), Opened' = Opened
    PROVE  TreeStep
BY DEF TreeStep, Tree!vars

LEMMA CallerInTree ==
    ASSUME PathState, InternalHandle, NEW fd \in PathFds, IsOpen(fd)
    PROVE  UserOf(fd) \in Tree!Callers
<1>1. fd \in HandleIds
  BY FileSystemAssumption DEF FileSystemAssumption
<1>2. CASE fd = INTERNAL_FD
  <2>1. UserOf(fd) = <<0, 0>> /\ INTERNAL_FD \in PathFds
    BY <1>2 DEF UserOf, InternalHandle
  <2> QED  BY <2>1 DEF Tree!Callers
<1>3. CASE fd # INTERNAL_FD
  <2>1. fd \in Fds /\ handles[fd].opened
    BY <1>1, <1>3 DEF HandleIds, IsOpen
  <2>2. fd \in Tree!OpenFds /\ Opened[fd].user = UserOf(fd)
    BY <2>1, OpenDescriptors, OpenedFields DEF UserOf
  <2> QED  BY <2>2 DEF Tree!Callers
<1> QED  BY <1>2, <1>3

LEMMA NamespaceTreeStep ==
    ASSUME PathState, InternalHandle, PathSafeUses, NamespaceCall
    PROVE  TreeStep
<1>1. PICK fd \in PathFds : CallOutcome(fd)
  BY NamespaceOutcomes DEF PathSafeUses
<1>2. handles' = handles
  BY NamespaceOutcomes DEF PathSafeUses
<1>3. CASE superblock' = superblock /\ stored' = stored
  <2>1. Opened' = Opened
    BY <1>2, <1>3, SamePlacesKept, OpenedUnchanged
  <2> QED  BY <1>3, <2>1, NothingHappens
<1>4. CASE /\ stored' = superblock' /\ KeepsOpenPlaces(superblock')
           /\ IsOpen(fd) /\ EditsTree(UserOf(fd))
  <2>1. Opened' = Opened
    BY <1>2, <1>4, OpenedUnchanged
  <2>2. UserOf(fd) \in Tree!Callers
    BY <1>4, CallerInTree
  <2>3. TreeOf(stored)' = TreeOf(superblock)'
    BY <1>4
  <2>4. Tree!NamespaceCall
    BY <1>4, <2>1, <2>2, <2>3 DEF EditsTree, Tree!NamespaceCall
  <2> QED  BY <2>4 DEF TreeStep, Tree!Next
<1> QED  BY <1>1, <1>3, <1>4 DEF CallOutcome

\* A descriptor is assigned.
LEMMA OpenedAssigned ==
    ASSUME TypeOK, NEW fd \in Fds, NEW h, superblock' = superblock,
           handles' = [handles EXCEPT ![fd] = h], h.opened
    PROVE  Opened' = [Opened EXCEPT ![fd] =
                         [user |-> <<h.uid, h.gid>>,
                          path |-> PlaceOfHandle(superblock, h),
                          mode |-> h.mode]]
<1>1. \A k \in Fds : handles'[k] = IF k = fd THEN h ELSE handles[k]
  BY HandleIdTypes DEF TypeOK
<1>2. OpenedIn(superblock', handles') =
         [OpenedIn(superblock, handles) EXCEPT ![fd] =
             [user |-> <<h.uid, h.gid>>, path |-> PlaceOfHandle(superblock, h),
              mode |-> h.mode]]
  BY <1>1 DEF OpenedIn
<1> QED  BY <1>2, OpenedState, OpenedAfter

LEMMA OpenFsTreeStep ==
    ASSUME PathState, NEW user \in Users, OpenFs(user[1], user[2])
    PROVE  TreeStep
<1> DEFINE fd == Least(FreeHandles)
           h  == AssignedHandle(user[1], user[2])
<1>1. superblock' = superblock /\ stored' = stored /\ TypeOK
  BY DEF OpenFs, PathState
<1>2. CASE handles' = handles
  <2>1. Opened' = Opened
    BY <1>1, <1>2, SamePlacesKept, OpenedUnchanged
  <2> QED  BY <1>1, <2>1, NothingHappens
<1>3. CASE FreeHandles # {} /\ handles' = [handles EXCEPT ![fd] = h]
  <2>1. fd \in Fds /\ ~handles[fd].opened
    BY <1>3, FreeHandleType
  <2>2. /\ h.opened /\ h.uid = user[1] /\ h.gid = user[2]
        /\ h.fst_index = NIL /\ h.mode = {}
    BY DEF AssignedHandle, NewHandle
  <2>3. user = <<user[1], user[2]>>
    BY FileSystemAssumption DEF FileSystemAssumption
  <2>4. PlaceOfHandle(superblock, h) = <<>>
    BY <2>2 DEF PlaceOfHandle
  <2> HIDE DEF fd, h
  <2>5. Opened' = [Opened EXCEPT ![fd] =
                      [user |-> <<h.uid, h.gid>>,
                       path |-> PlaceOfHandle(superblock, h), mode |-> h.mode]]
    BY <1>1, <1>3, <2>1, <2>2, OpenedAssigned
  <2>6. Opened' = [Opened EXCEPT ![fd] =
                      [user |-> user, path |-> <<>>, mode |-> {}]]
    BY <2>2, <2>3, <2>4, <2>5
  <2>7. Opened[fd] = Closed
    BY <2>1, OpenedFields
  <2>8. Tree!OpenFs(fd, user)
    BY <1>1, <2>6, <2>7 DEF Tree!OpenFs
  <2> QED  BY <2>1, <2>8 DEF TreeStep, Tree!Next, Tree!OpenCall
<1> QED  BY <1>2, <1>3 DEF OpenFs

LEMMA OpenFileTreeStep ==
    ASSUME PathState, NEW user \in Users, NEW path \in Paths, ~ThroughFile(path),
           NEW mode \in OpenModes, OpenFile(user[1], user[2], path, mode)
    PROVE  TreeStep
<1> DEFINE code  == OpenFileCode(user[1], user[2], path, mode)
           index == GetFstIndex(superblock, path)
           fd == Least(FreeHandles)
           h  == [AssignedHandle(user[1], user[2]) EXCEPT
                     !.fst_index = index, !.mode = mode,
                     !.file_size = superblock.fst[index].size]
<1>1. superblock' = superblock /\ stored' = stored /\ TypeOK
      /\ IsPathTree(superblock)
  BY Zenon DEF OpenFile, PathState
<1>2. CASE handles' = handles
  <2>1. Opened' = Opened
    BY <1>1, <1>2, SamePlacesKept, OpenedUnchanged
  <2> QED  BY <1>1, <2>1, NothingHappens
<1>3. CASE code = "Success" /\ handles' = [handles EXCEPT ![fd] = h]
  <2>1. FreeHandles # {} /\ index # NIL
    BY <1>3, Zenon DEF OpenFileCode
  <2>2. fd \in Fds /\ ~handles[fd].opened
    BY <2>1, FreeHandleType
  <2>3. /\ h.opened /\ h.uid = user[1] /\ h.gid = user[2]
        /\ h.fst_index = index /\ h.mode = mode
    <3> HIDE DEF index
    <3> QED  BY DEF AssignedHandle, NewHandle
  <2>4. user = <<user[1], user[2]>>
    BY FileSystemAssumption DEF FileSystemAssumption
  <2>5. path \in Seq(Components) /\ AvoidsFiles(superblock, path)
    BY NotThroughFile, FileSystemAssumption DEF FileSystemAssumption, Components
  <2>6. index \in FromRoot(Pointers(superblock))
            /\ PlaceOf(superblock, index) = path
    BY <1>1, <2>1, <2>5, PathFacts
  <2>7. Tree!OpenCode(<<user[1], user[2]>>, path, mode) = "Success"
    BY <1>3, OpenFileCodeAgrees
  <2> HIDE DEF fd, h, index
  <2>8. PlaceOfHandle(superblock, h) = path /\ path \in Tree!Places
    BY <1>1, <2>1, <2>3, <2>6, PlacesInTree DEF PlaceOfHandle
  <2>9. Opened' = [Opened EXCEPT ![fd] =
                      [user |-> <<h.uid, h.gid>>,
                       path |-> PlaceOfHandle(superblock, h), mode |-> h.mode]]
    BY <1>1, <1>3, <2>2, <2>3, OpenedAssigned
  <2>10. Opened' = [Opened EXCEPT ![fd] =
                       [user |-> user, path |-> path, mode |-> mode]]
    BY <2>3, <2>4, <2>8, <2>9
  <2>11. Opened[fd] = Closed
    BY <2>2, OpenedFields
  <2>12. Tree!Open(fd, user, path, mode)
    BY <1>1, <2>4, <2>7, <2>10, <2>11 DEF Tree!Open
  <2> QED  BY <2>2, <2>8, <2>12 DEF TreeStep, Tree!Next, Tree!OpenCall
<1> QED  BY <1>2, <1>3, Zenon DEF OpenFile

-----------------------------------------------------------------------------
(* The file calls, in the tree of paths.                                   *)

LEMMA DescriptorsKept ==
    ASSUME PathState, KeepsDescriptors(handles'), KeepsOpenPlaces(superblock')
    PROVE  Opened' = Opened
<1>1. \A fd \in Fds : handles[fd].opened /\ handles[fd].fst_index # NIL =>
          PlaceOf(superblock', handles[fd].fst_index) =
              PlaceOf(superblock, handles[fd].fst_index)
  <2> SUFFICES ASSUME NEW fd \in Fds, handles[fd].opened,
                      handles[fd].fst_index # NIL
               PROVE  PlaceOf(superblock', handles[fd].fst_index) =
                          PlaceOf(superblock, handles[fd].fst_index)
    OBVIOUS
  <2>1. handles[fd].fst_index \in Live(superblock)
            /\ Opens(fd, handles[fd].fst_index)
    BY OpenFilePlaces, PathTreeFacts DEF PathState
  <2> QED  BY <2>1 DEF KeepsOpenPlaces
<1>2. OpenedIn(superblock', handles') = OpenedIn(superblock, handles)
  BY <1>1, OpenedKept, HandleIdTypes DEF KeepsDescriptors
<1> QED  BY <1>2, OpenedState, OpenedAfter

\* What is flushed makes the file of the cache longer, which is open for writing.
LEMMA FlushGrowsTree ==
    ASSUME PathState, HandlesInv, TypeOK', superblock' = FlushFileCache.superblock
    PROVE  \/ superblock' = superblock
           \/ /\ Dirty(cache) /\ FlushFileCache.code = "Success"
              /\ cache.handle \in Tree!OpenFds
              /\ TreeOf(superblock') \in Tree!Grown(cache.handle)
<1> DEFINE fd    == cache.handle
           index == handles[fd].fst_index
           size  == handles[fd].file_size
           path  == PlaceOf(superblock, index)
           node  == Node(superblock.fst[index], path)
<1>1. TypeOK /\ IsPathTree(superblock)
  BY DEF PathState
<1>2. CASE FlushFileCache.superblock = superblock
  BY <1>2
<1>3. CASE /\ Dirty(cache) /\ FlushFileCache.code = "Success"
           /\ Grows(superblock, superblock', index, size)
  <2>1. /\ fd \in Fds /\ handles[fd].opened /\ index # NIL
        /\ "Write" \in handles[fd].mode
    BY <1>3 DEF Dirty, HandlesInv, FileOpen, Writable
  <2>2. /\ index \in FromRoot(Pointers(superblock))
        /\ IsFile(superblock.fst[index])
    BY <2>1, OpenFilePlaces
  <2>3. superblock' \in Superblock
    BY DEF TypeOK
  <2>4. SameShape(superblock, superblock')
    BY <1>1, FlushFileCacheKeepsShape
  <2>5. /\ TreeOf(superblock') = (TreeOf(superblock) \ {node}) \cup
                                 {[node EXCEPT !.size = size]}
        /\ node \in TreeOf(superblock) /\ size > node.size
    <3> HIDE DEF index, size
    <3> QED  BY <1>1, <1>3, <2>2, <2>3, <2>4, GrowsTree
  <2>6. node.path = path /\ node.type = "file"
    BY <2>2, NodeFields DEF IsFile
  <2>7. Opened[fd].path = path /\ Opened[fd].mode = handles[fd].mode
        /\ fd \in Tree!OpenFds
    BY <2>1, OpenedFields, OpenDescriptors DEF PlaceOfHandle
  <2>8. size \in U32
    BY <2>1, HandleIdTypes, <1>1 DEF TypeOK, Handle
  <2> HIDE DEF fd, index, size, path, node
  <2>9. node \in {n \in Tree!FileAt(Opened[fd].path) : "Write" \in Opened[fd].mode}
    BY <2>1, <2>5, <2>6, <2>7 DEF Tree!FileAt, Tree!At
  <2>10. size \in {n \in U32 : n > node.size}
    BY <2>5, <2>8
  <2>11. TreeOf(superblock') \in Tree!Grown(fd)
    BY <2>5, <2>9, <2>10 DEF Tree!Grown
  <2> QED  BY <1>3, <2>7, <2>11 DEF fd
<1> QED  BY <1>1, <1>2, <1>3, FlushGrows

LEMMA LoopTreeStep ==
    ASSUME PathState, HandlesInv, TypeOK', ReadFileStep \/ WriteFileStep
    PROVE  TreeStep
<1>1. TypeOK /\ IsPathTree(superblock)
  BY DEF PathState
<1>2. FileCallOutcome /\ KeepsDescriptors(handles')
  BY <1>1, LoopEdits, LoopDescriptors
<1>3. Opened' = Opened
  BY <1>1, <1>2, FileCallShape, DescriptorsKept
<1>4. stored' = stored
  BY Zenon DEF ReadFileStep, WriteFileStep, Advance, Copy
<1>5. CASE superblock' = superblock
  BY <1>3, <1>4, <1>5, NothingHappens
<1>6. CASE superblock' = FlushFileCache.superblock /\ superblock' # superblock
  <2>1. cache.handle \in Tree!OpenFds
        /\ TreeOf(superblock)' \in Tree!Grown(cache.handle)
    BY <1>6, FlushGrowsTree
  <2>2. Tree!Write(cache.handle)
    BY <1>3, <1>4, <2>1 DEF Tree!Write
  <2> QED  BY <2>1, <2>2 DEF TreeStep, Tree!Next, Tree!WriteOrClose
<1> QED  BY <1>2, <1>5, <1>6 DEF FileCallOutcome

\* A descriptor is closed.
LEMMA OpenedClosed ==
    ASSUME PathState, NEW fd \in Fds, NEW hs, KeepsDescriptors(hs),
           \A k \in HandleIds : handles'[k] = IF k = fd THEN NewHandle ELSE hs[k],
           KeepsOpenPlaces(superblock')
    PROVE  Opened' = [Opened EXCEPT ![fd] = Closed]
<1> DEFINE open == OpenedIn(superblock, handles)
<1>1. \A k \in Fds : handles[k].opened /\ handles[k].fst_index # NIL =>
          PlaceOf(superblock', handles[k].fst_index) =
              PlaceOf(superblock, handles[k].fst_index)
  <2> SUFFICES ASSUME NEW k \in Fds, handles[k].opened, handles[k].fst_index # NIL
               PROVE  PlaceOf(superblock', handles[k].fst_index) =
                          PlaceOf(superblock, handles[k].fst_index)
    OBVIOUS
  <2>1. handles[k].fst_index \in Live(superblock) /\ Opens(k, handles[k].fst_index)
    BY OpenFilePlaces, PathTreeFacts DEF PathState
  <2> QED  BY <2>1 DEF KeepsOpenPlaces
<1>2. OpenedIn(superblock', hs) = open
  BY <1>1, OpenedKept, HandleIdTypes DEF KeepsDescriptors
<1>3. OpenedIn(superblock', handles') =
         [OpenedIn(superblock', hs) EXCEPT ![fd] = Closed]
  <2>1. ~NewHandle.opened
    BY DEF NewHandle
  <2>2. \A k \in Fds : handles'[k] = IF k = fd THEN NewHandle ELSE hs[k]
    BY HandleIdTypes
  <2> QED  BY <2>1, <2>2 DEF OpenedIn
<1> HIDE DEF open
<1> QED  BY <1>2, <1>3, OpenedState, OpenedAfter DEF open

\* Closing the last descriptor leaves nothing that is only in memory.
LEMMA CloseTreeStep ==
    ASSUME PathState, IsPathTree(stored), HandlesInv, InternalHandle,
           UnflushedHasOwner, TypeOK', NEW fd \in HandleIds, Close(fd)
    PROVE  TreeStep
<1> DEFINE flush == FlushFileCache
<1>1. TypeOK /\ IsPathTree(superblock) /\ FileCallOutcome
  BY CloseEdits DEF PathState
<1>2. CloseOutcome(flush, fd)
  BY <1>1, CloseOutcomes
<1>3. KeepsOpenPlaces(superblock')
  BY <1>1, FileCallShape
<1>4. FlushOutcome(flush) /\ KeepsDescriptors(flush.handles)
  BY <1>1, FlushOutcomes, FlushDescriptors
<1>5. KeepsDescriptors(handles)
  BY DEF KeepsDescriptors
<1>6. /\ INTERNAL_FD \notin Fds /\ INTERNAL_FD \in HandleIds
      /\ Fds \subseteq HandleIds /\ cache.handle # INTERNAL_FD
  BY InternalIsApart
<1>7. CASE UNCHANGED <<superblock, stored, handles, cache>>
  <2>1. Opened' = Opened
    BY <1>7, SamePlacesKept, OpenedUnchanged
  <2> QED  BY <1>7, <2>1, NothingHappens
<1>8. CASE ~IsOpen(fd)
  BY <1>7, <1>8 DEF Close
\* What the last descriptor has nothing to flush of is on the NAND.
<1>9. ASSUME fd \in Fds, ~handles[fd].superblock_flush_needed, Tree!OpenFds = {fd}
      PROVE  TreeOf(superblock) = TreeOf(stored)
  <2>1. \A k \in Fds : handles[k].opened => k = fd
    BY <1>9, OpenDescriptors
  <2>2. superblock = Normalised(stored)
    BY <1>9, <2>1 DEF UnflushedHasOwner
  <2> QED  BY <2>2, NormalisedTree
<1>10. TreeOf(superblock) \in Tree!Grown(fd)
  BY DEF Tree!Grown
<1>11. CASE ClosedWithCache(flush, fd)
  <2>1. /\ superblock' = flush.superblock /\ cache.handle = fd
        /\ stored' = IF flush.handles[fd].superblock_flush_needed
                     THEN superblock' ELSE stored
        /\ \A k \in HandleIds :
              handles'[k] = IF k = fd THEN NewHandle ELSE flush.handles[k]
    BY <1>11 DEF ClosedWithCache
  <2>2. fd \in Fds /\ fd \in Tree!OpenFds
    <3>1. cache.handle # NoHandle
      BY <2>1, HandleIdTypes
    <3> QED  BY <2>1, <3>1, OpenDescriptors DEF HandlesInv, FileOpen
  <2>3. Opened' = [Opened EXCEPT ![fd] = Closed]
    <3>1. KeepsDescriptors(flush.handles)
      BY <1>4
    <3> HIDE DEF flush
    <3> QED  BY <1>3, <2>1, <2>2, <3>1, OpenedClosed
  <2>4. TreeOf(superblock') \in Tree!Grown(fd)
    <3>1. \/ superblock' = superblock
          \/ TreeOf(superblock') \in Tree!Grown(cache.handle)
      BY <2>1, FlushGrowsTree
    <3> QED  BY <1>10, <2>1, <3>1
  <2>5. flush.handles[fd].superblock_flush_needed
        \/ (superblock' = superblock /\ ~handles[fd].superblock_flush_needed)
    <3> HIDE DEF flush
    <3> QED  BY <1>4, <1>6, <2>1, <2>2 DEF FlushOutcome, Flushed
  <2>6. TreeOf(stored') \in {TreeOf(superblock')} \cup
            (IF Tree!OpenFds = {fd} THEN {} ELSE {TreeOf(stored)})
    BY <1>9, <2>1, <2>2, <2>5
  <2>7. Tree!Close(fd)
    BY <2>3, <2>4, <2>6 DEF Tree!Close
  <2> QED  BY <2>2, <2>7 DEF TreeStep, Tree!Next, Tree!WriteOrClose
<1>12. CASE ClosedWithout(fd) /\ IsOpen(fd) /\ fd \in Fds
  <2>1. /\ superblock' = superblock
        /\ stored' = IF handles[fd].superblock_flush_needed THEN superblock'
                                                            ELSE stored
        /\ \A k \in HandleIds :
              handles'[k] = IF k = fd THEN NewHandle ELSE handles[k]
    BY <1>12 DEF ClosedWithout
  <2>2. fd \in Tree!OpenFds
    BY <1>6, <1>12, OpenDescriptors DEF IsOpen
  <2>3. Opened' = [Opened EXCEPT ![fd] = Closed]
    BY <1>3, <1>5, <1>12, <2>1, OpenedClosed
  <2>4. TreeOf(superblock') \in Tree!Grown(fd)
    BY <1>10, <2>1
  <2>5. TreeOf(stored') \in {TreeOf(superblock')} \cup
            (IF Tree!OpenFds = {fd} THEN {} ELSE {TreeOf(stored)})
    BY <1>9, <1>12, <2>1
  <2>6. Tree!Close(fd)
    BY <2>3, <2>4, <2>5 DEF Tree!Close
  <2> QED  BY <2>2, <2>6 DEF TreeStep, Tree!Next, Tree!WriteOrClose
\* The internal handle is nobody's descriptor.
<1>13. CASE ClosedWithout(fd) /\ fd = INTERNAL_FD
  <2>1. /\ superblock' = superblock /\ stored' = stored
        /\ \A k \in Fds : handles'[k] = handles[k]
    BY <1>6, <1>13 DEF ClosedWithout, InternalHandle
  <2>2. OpenedIn(superblock', handles') = OpenedIn(superblock, handles)
    BY <2>1, OpenedKept
  <2> QED  BY <2>1, <2>2, OpenedState, OpenedAfter, NothingHappens
<1> QED
  <2>1. fd \in Fds \/ fd = INTERNAL_FD
    BY DEF HandleIds
  <2> HIDE DEF flush
  <2> QED  BY <2>1, <1>2, <1>7, <1>8, <1>11, <1>12, <1>13 DEF CloseOutcome

-----------------------------------------------------------------------------
(* The other calls, and the client.                                        *)

LEMMA SeekTreeStep ==
    ASSUME PathState, NEW fd \in HandleIds, NEW offset, NEW whence,
           SeekFile(fd, offset, whence)
    PROVE  TreeStep
<1>1. superblock' = superblock /\ stored' = stored /\ TypeOK
  BY DEF SeekFile, PathState
<1>2. PICK position : handles' \in {handles,
                          [handles EXCEPT ![fd].file_offset = position]}
  BY DEF SeekFile
<1>3. KeepsDescriptors(handles')
  <2>1. CASE handles' = handles
    BY <2>1 DEF KeepsDescriptors
  <2>2. CASE handles' = [handles EXCEPT ![fd].file_offset = position]
    BY <1>1, <2>2, HandleUpdates DEF KeepsDescriptors, TypeOK
  <2> QED  BY <1>2, <2>1, <2>2
<1>4. Opened' = Opened
  BY <1>1, <1>3, SamePlacesKept, DescriptorsKept
<1> QED  BY <1>1, <1>4, NothingHappens

LEMMA NothingOpened ==
    ASSUME \A fd \in Fds : ~handles'[fd].opened
    PROVE  Opened' = [fd \in Fds |-> Closed]
BY OpenedAfter DEF OpenedIn

LEMMA FormatTreeStep ==
    ASSUME PathState, NEW uid, Format(uid)
    PROVE  TreeStep
<1>1. CASE UNCHANGED <<superblock, stored, handles>>
  <2>1. Opened' = Opened
    BY <1>1, SamePlacesKept, OpenedUnchanged
  <2> QED  BY <1>1, <2>1, NothingHappens
<1>2. CASE /\ superblock' = FormattedSuperblock /\ stored' = FormattedSuperblock
           /\ handles' = [fd \in HandleIds |->
                  IF fd \in Fds THEN [handles[fd] EXCEPT !.opened = FALSE]
                                ELSE handles[fd]]
  <2>1. \A fd \in Fds : ~handles'[fd].opened
    BY <1>2, HandleIdTypes DEF PathState, TypeOK, Handle
  <2>2. Opened' = [fd \in Fds |-> Closed]
    BY <2>1, NothingOpened
  <2>3. TreeOf(superblock)' = {Tree!Root} /\ TreeOf(stored)' = {Tree!Root}
    BY <1>2, FormattedPlaces
  <2>4. Tree!Format
    BY <2>2, <2>3 DEF Tree!Format
  <2> QED  BY <2>4 DEF TreeStep, Tree!Next
<1> QED  BY <1>1, <1>2 DEF Format

LEMMA RemountTreeStep ==
    ASSUME IsPathTree(stored), Remount
    PROVE  TreeStep
<1>1. superblock' \in {Normalised(stored), stored} /\ stored' = stored
  BY DEF Remount
<1>2. \A fd \in Fds : ~handles'[fd].opened
  BY HandleIdTypes, NewHandleFields DEF Remount
<1>3. Opened' = [fd \in Fds |-> Closed]
  BY <1>2, NothingOpened
<1>4. TreeOf(superblock)' = TreeOf(stored)
  BY <1>1, NormalisedTree
<1>5. Tree!Restart
  BY <1>1, <1>3, <1>4 DEF Tree!Restart
<1> QED  BY <1>5 DEF TreeStep, Tree!Next

-----------------------------------------------------------------------------
(* The refinement.                                                         *)

RefinementInv ==
    /\ PathInv /\ HandlesInv /\ InternalHandle
    /\ HasNoNil(superblock) /\ UnflushedHasOwner

\* Format with a cluster in the cache leaves its handle behind, and a mount whose
\* check failed leaves the foreign marks of free clusters in memory.
RefinementUses ==
    /\ PathSafeUses
    /\ "format_with_cache" \notin Uses /\ "unverified_mount" \notin Uses

LEMMA InitRefinement == Init => RefinementInv
BY InitPath, InitHandles, InitInternal, InitHasNoNil
   DEF RefinementInv, Init, UnflushedHasOwner

LEMMA NextRefinement ==
    ASSUME RefinementInv, RefinementUses, [Next]_vars
    PROVE  RefinementInv'
<1>1. /\ PathInv /\ HandlesInv /\ InternalHandle
      /\ HasNoNil(superblock) /\ UnflushedHasOwner
      /\ TypeOK /\ OpenFilesAreFiles /\ TreeInv
  BY DEF RefinementInv, PathInv, TreeInv, IsPathTree
<1>2. /\ PathSafeUses /\ TreeSafeUses
      /\ "format_with_cache" \notin Uses /\ "unverified_mount" \notin Uses
  BY DEF RefinementUses, PathSafeUses, TreeSafeUses
<1>3. TypeOK' /\ PathInv'
  BY <1>1, <1>2, NextType, NextPath
<1>4. HandlesInv' /\ InternalHandle' /\ HasNoNil(superblock')
  BY <1>1, <1>2, NextHandles, NextInternal, NextHasNoNil
<1>5. UnflushedHasOwner'
  BY <1>1, <1>2, <1>3, <1>4, NextHasOwner
<1> QED  BY <1>3, <1>4, <1>5 DEF RefinementInv

LEMMA NextTreeStep ==
    ASSUME RefinementInv, RefinementUses, [Next]_vars
    PROVE  TreeStep
<1>1. /\ PathState /\ HandlesInv /\ InternalHandle /\ UnflushedHasOwner
      /\ IsPathTree(stored) /\ TypeOK
  BY DEF RefinementInv, PathInv, PathState
<1>2. PathSafeUses /\ "through_file" \notin Uses
  BY DEF RefinementUses, PathSafeUses
<1>3. TypeOK'
  BY <1>1, NextType
<1>4. CASE UNCHANGED <<superblock, stored, handles>>
  <2>1. Opened' = Opened
    BY <1>1, <1>4, SamePlacesKept, OpenedUnchanged
  <2> QED  BY <1>4, <2>1, NothingHappens
<1>5. CASE NamespaceCall
  BY <1>1, <1>2, <1>5, NamespaceTreeStep
<1>6. CASE OpenCall
  <2>1. CASE \E user \in FsUsers : OpenFs(user[1], user[2])
    <3>1. FsUsers \subseteq Users
      BY FileSystemAssumption DEF FileSystemAssumption
    <3> QED  BY <1>1, <2>1, <3>1, OpenFsTreeStep
  <2>2. CASE \E user \in Users, path \in Paths, mode \in OpenModes :
                PlainOpen(path, mode) /\ OpenFile(user[1], user[2], path, mode)
    <3>1. PICK user \in Users, path \in Paths, mode \in OpenModes :
              PlainOpen(path, mode) /\ OpenFile(user[1], user[2], path, mode)
      BY <2>2
    <3>2. ~ThroughFile(path)
      BY <1>2, <3>1 DEF PlainOpen, PlainPath, Permitted
    <3> QED  BY <1>1, <3>1, <3>2, OpenFileTreeStep
  <2> QED  BY <1>6, <2>1, <2>2 DEF OpenCall
<1>7. CASE FileCall
  <2>1. ASSUME NEW fd \in HandleIds, Close(fd) PROVE TreeStep
    BY <1>1, <1>3, <2>1, CloseTreeStep
  <2>2. ASSUME NEW fd \in HandleIds, NEW offset, NEW whence,
               SeekFile(fd, offset, whence)
        PROVE  TreeStep
    BY <1>1, <2>2, SeekTreeStep
  <2> QED  BY <1>4, <1>7, <2>1, <2>2 DEF FileCall, ReadFile, WriteFile, Begin
<1>8. CASE FormatCall
  BY <1>1, <1>8, FormatTreeStep DEF FormatCall
<1>9. CASE ReadFileStep \/ WriteFileStep
  BY <1>1, <1>3, <1>9, LoopTreeStep
<1>10. CASE Remount
  BY <1>1, <1>10, RemountTreeStep
<1>11. CASE UNCHANGED vars
  BY <1>4, <1>11 DEF vars
<1> QED  BY <1>5, <1>6, <1>7, <1>8, <1>9, <1>10, <1>11 DEF Next

LEMMA InitTreeOfPaths == Init => Tree!Init
<1> SUFFICES ASSUME Init PROVE Tree!Init
  OBVIOUS
<1>1. stored.fst = FormattedSuperblock.fst
  BY FormattedSuperblockType DEF Init, Superblock
<1>2. IsPathTree(stored) /\ superblock = Normalised(stored) /\ TypeOK
  BY InitPath DEF PathInv, Init
<1>3. TreeOf(stored) = {Tree!Root}
  BY <1>1, <1>2, FormattedPlaces, SameFstSameTree DEF TypeOK
<1>4. TreeOf(superblock) = {Tree!Root}
  BY <1>2, <1>3, NormalisedTree
<1>5. \A fd \in Fds : ~handles[fd].opened
  BY HandleIdTypes, NewHandleFields DEF Init
<1>6. Opened = [fd \in Fds |-> Closed]
  BY <1>5, OpenedState DEF OpenedIn
<1> QED  BY <1>3, <1>4, <1>6 DEF Tree!Init

\* With the uses of the interface that keep the tree and the cache: every step of
\* the driver, seen as a tree of paths, is a step that Namespace allows, or none;
\* crashes and remounts included.
THEOREM DriverImplementsNamespace ==
    ASSUME RefinementUses
    PROVE  Spec => ImplementsNamespace
<1>1. Init => RefinementInv
  BY InitRefinement
<1>2. RefinementInv /\ [Next]_vars => RefinementInv'
  BY NextRefinement
<1>3. Init => Tree!Init
  BY InitTreeOfPaths
<1>4. RefinementInv /\ [Next]_vars =>
          [Tree!vars' # Tree!vars /\ Tree!Next]_(Tree!vars)
  BY NextTreeStep DEF TreeStep
<1> QED  BY <1>1, <1>2, <1>3, <1>4, PTL DEF Spec, ImplementsNamespace, Tree!Spec

=============================================================================
