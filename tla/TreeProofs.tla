----------------------------- MODULE TreeProofs -----------------------------
(***************************************************************************)
(* The shape of the FST and of the FAT.  The entries that can be reached   *)
(* from the root are a tree, in memory and on the NAND, no directory has   *)
(* two children of one name, open files stay in the tree, and only who may *)
(* write to a directory changes what it lists.  The chains of the files    *)
(* are disjoint lists of data clusters, and no cluster in use is outside   *)
(* them.                                                                   *)
(***************************************************************************)
EXTENDS FileSystemProofs, FiniteSetTheorems, SequenceTheorems

Field(entry, k) == IF k = "sib" THEN entry.sib ELSE entry.sub

\* The FST as a graph: only directories have children.
Pointers(sb) ==
    [k \in Kinds |->
        [p \in FstIndices |->
            IF k = "sib" \/ IsDirectory(sb.fst[p]) THEN Field(sb.fst[p], k)
                                                   ELSE NIL]]

IsFstTree(sb) ==
    /\ IsDirectory(sb.fst[0])
    /\ IsTree(Pointers(sb))
    /\ \A i \in FromRoot(Pointers(sb)) : sb.fst[i].type # "none"

-----------------------------------------------------------------------------
(* The definitions of the model in terms of the graph.                     *)

LEMMA PointersOf ==
    ASSUME NEW sb, NEW p \in FstIndices
    PROVE  /\ "sib" \in Kinds /\ "sub" \in Kinds
           /\ Pointers(sb)["sib"][p] = sb.fst[p].sib
           /\ Pointers(sb)["sub"][p] =
                 IF IsDirectory(sb.fst[p]) THEN sb.fst[p].sub ELSE NIL
BY DEF Pointers, Kinds, Field

LEMMA TraversalIsBelow ==
    ASSUME NEW sb, NEW directory \in FstIndices, IsDirectory(sb.fst[directory])
    PROVE  Traversal(sb, directory, IsDirectory) = Below(Pointers(sb), directory)
<1> DEFINE g == Pointers(sb)
           visits == [i \in FstIndices |->
                         ({sb.fst[i].sib} \cup
                          (IF IsDirectory(sb.fst[i]) THEN {sb.fst[i].sub} ELSE {}))
                         \cap FstIndices]
<1>1. \A i \in FstIndices : visits[i] = Targets(g, i)
  <2> SUFFICES ASSUME NEW i \in FstIndices
               PROVE  ({sb.fst[i].sib} \cup
                       (IF IsDirectory(sb.fst[i]) THEN {sb.fst[i].sub} ELSE {}))
                      \cap FstIndices = Targets(g, i)
    OBVIOUS
  <2>1. Targets(g, i) = {g["sib"][i], g["sub"][i]} \cap FstIndices
    BY DEF Targets, Kinds
  <2> HIDE DEF g
  <2> QED  BY <2>1, PointersOf, NilIsNoIndex DEF g
<1>2. visits = [p \in FstIndices |-> Targets(g, p)]
  <2> HIDE DEF g
  <2> QED  BY <1>1
<1>3. g["sub"][directory] = sb.fst[directory].sub
  BY PointersOf
<1>4. Traversal(sb, directory, IsDirectory) =
         Reachable(visits, {sb.fst[directory].sub} \cap FstIndices)
  BY DEF Traversal
<1> HIDE DEF visits, g
<1> QED  BY <1>2, <1>3, <1>4 DEF Below, g

LEMMA LiveIsFromRoot ==
    ASSUME NEW sb, IsDirectory(sb.fst[0])
    PROVE  Live(sb) = FromRoot(Pointers(sb))
BY TraversalIsBelow, RootInTree DEF Live, FromRoot, Within

LEMMA ChildrenInGraph ==
    ASSUME NEW sb, NEW d \in FstIndices, IsDirectory(sb.fst[d])
    PROVE  Children(sb, d) = ChildrenOf(Pointers(sb), d)
<1> DEFINE g == Pointers(sb)
           next == [i \in FstIndices |-> {sb.fst[i].sib} \cap FstIndices]
<1>1. g["sub"][d] = sb.fst[d].sub
  BY PointersOf
<1>2. \A i \in FstIndices : g["sib"][i] = sb.fst[i].sib
  BY PointersOf
<1>3. next = [p \in FstIndices |-> {g["sib"][p]} \cap FstIndices]
  <2> HIDE DEF g
  <2> QED  BY <1>2
<1>4. Children(sb, d) = Reachable(next, {sb.fst[d].sub} \cap FstIndices)
  BY DEF Children, Siblings
<1> HIDE DEF next, g
<1> QED  BY <1>1, <1>3, <1>4 DEF ChildrenOf, g

\* What the proofs keep is what the property says.
LEMMA FstTreeIsWellFormed ==
    ASSUME NEW sb, IsFstTree(sb)
    PROVE  TreeWellFormed(sb)
<1> DEFINE g == Pointers(sb)
<1>1. IsDirectory(sb.fst[0]) /\ IsTree(g)
  BY DEF IsFstTree
<1>2. Live(sb) = FromRoot(g) /\ Live(sb) \subseteq FstIndices /\ 0 \in Live(sb)
  BY <1>1, LiveIsFromRoot, RootInTree
<1>3. \A i \in FstIndices : PointersTo(sb, i) =
         {t \in Kinds \X Live(sb) : g[t[1]][t[2]] = i}
  <2> SUFFICES ASSUME NEW i \in FstIndices
               PROVE  PointersTo(sb, i) =
                         {t \in Kinds \X Live(sb) : g[t[1]][t[2]] = i}
    OBVIOUS
  <2>1. {<<"sib", p>> : p \in {q \in Live(sb) : sb.fst[q].sib = i}} =
           {<<"sib", p>> : p \in {q \in Live(sb) : g["sib"][q] = i}}
    BY <1>2, PointersOf
  <2>2. {q \in LiveDirectories(sb) : sb.fst[q].sub = i} =
           {q \in Live(sb) : g["sub"][q] = i}
    BY <1>2, PointersOf, NilIsNoIndex DEF LiveDirectories
  <2> HIDE DEF g
  <2> QED  BY <2>1, <2>2 DEF PointersTo, Kinds
<1>4. sb.fst[0].sib = NIL
  BY <1>1, <1>2, PointersOf DEF IsTree
<1>5. PointersTo(sb, 0) = {}
  BY <1>1, <1>2, <1>3 DEF IsTree
<1>6. \A i \in Live(sb) :
         /\ sb.fst[i].type # "none"
         /\ sb.fst[i].sib \in FstIndices \cup {NIL}
         /\ IsDirectory(sb.fst[i]) => sb.fst[i].sub \in FstIndices \cup {NIL}
  BY <1>1, <1>2, PointersOf DEF IsTree, IsFstTree
<1>7. ASSUME NEW i \in Live(sb) \ {0}
      PROVE  Cardinality(PointersTo(sb, i)) = 1
  <2>1. PICK q \in Live(sb), k \in Kinds : g[k][q] = i
    BY <1>1, <1>2, TreeHasPointer
  <2>2. i # NIL
    BY <1>2, NilIsNoIndex
  <2>3. PointersTo(sb, i) = {<<k, q>>}
    BY <1>1, <1>2, <1>3, <2>1, <2>2 DEF IsTree
  <2> QED  BY <2>3, FS_Singleton
<1> QED  BY <1>1, <1>4, <1>5, <1>6, <1>7 DEF TreeWellFormed

-----------------------------------------------------------------------------
(* What the file calls keep.                                               *)

\* The types, the names, and all pointers but those to the clusters of a file.
SameShape(s1, s2) ==
    \A i \in FstIndices :
        /\ SameEntry(s1, s2, i)
        /\ s2.fst[i].sib = s1.fst[i].sib
        /\ IsDirectory(s1.fst[i]) => s2.fst[i].sub = s1.fst[i].sub

LEMMA SameShapeSamePointers ==
    ASSUME NEW s1, NEW s2, SameShape(s1, s2)
    PROVE  Pointers(s2) = Pointers(s1)
<1>1. \A k \in Kinds, p \in FstIndices :
         (IF k = "sib" \/ IsDirectory(s2.fst[p])
          THEN Field(s2.fst[p], k) ELSE NIL) =
         (IF k = "sib" \/ IsDirectory(s1.fst[p])
          THEN Field(s1.fst[p], k) ELSE NIL)
  BY DEF SameShape, SameEntry, IsDirectory, Field
<1> QED  BY <1>1 DEF Pointers

LEMMA SameShapeSameTree ==
    ASSUME NEW s1, NEW s2, SameShape(s1, s2), IsFstTree(s1)
    PROVE  IsFstTree(s2) /\ Live(s2) = Live(s1)
<1>1. Pointers(s2) = Pointers(s1)
  BY SameShapeSamePointers
<1>2. \A i \in FstIndices : s2.fst[i].type = s1.fst[i].type
  BY DEF SameShape, SameEntry
<1>3. IsDirectory(s1.fst[0]) /\ IsDirectory(s2.fst[0])
  BY <1>2, RootInTree DEF IsFstTree, IsDirectory
<1>4. IsFstTree(s2)
  BY <1>1, <1>2, <1>3, RootInTree DEF IsFstTree
<1> QED  BY <1>1, <1>3, <1>4, LiveIsFromRoot

LEMMA SameShapeSameNames ==
    ASSUME NEW s1, NEW s2, SameShape(s1, s2), IsFstTree(s1), SiblingNamesUnique(s1)
    PROVE  SiblingNamesUnique(s2)
<1>1. Pointers(s2) = Pointers(s1) /\ Live(s2) = Live(s1)
  BY SameShapeSamePointers, SameShapeSameTree
<1>2. Live(s1) \subseteq FstIndices
  BY LiveIsFromRoot, RootInTree DEF IsFstTree
<1>3. \A i \in FstIndices : /\ s2.fst[i].name = s1.fst[i].name
                            /\ IsDirectory(s2.fst[i]) = IsDirectory(s1.fst[i])
  BY DEF SameShape, SameEntry, IsDirectory
<1>4. \A d \in LiveDirectories(s2) :
         d \in LiveDirectories(s1) /\ Children(s2, d) = Children(s1, d)
  BY <1>1, <1>2, <1>3, ChildrenInGraph DEF LiveDirectories
<1> QED  BY <1>3, <1>4, ChildrenType DEF SiblingNamesUnique

-----------------------------------------------------------------------------
(* What directories list.                                                  *)

Listing(sb, d) == {sb.fst[i].name : i \in Children(sb, d)}

\* The directories that are there in both superblocks list the same names, those
\* in D perhaps not.
KeepsListings(s1, s2, D) ==
    \A d \in (LiveDirectories(s1) \cap LiveDirectories(s2)) \ D :
        Listing(s2, d) = Listing(s1, d)

LEMMA SameListing ==
    ASSUME NEW s1, NEW s2, NEW d \in FstIndices,
           IsDirectory(s1.fst[d]), IsDirectory(s2.fst[d]),
           ChildrenOf(Pointers(s2), d) = ChildrenOf(Pointers(s1), d),
           \A i \in ChildrenOf(Pointers(s1), d) : s2.fst[i].name = s1.fst[i].name
    PROVE  Listing(s2, d) = Listing(s1, d)
BY ChildrenInGraph DEF Listing

LEMMA SameShapeKeepsListings ==
    ASSUME NEW s1, NEW s2, IsFstTree(s1), SameShape(s1, s2)
    PROVE  KeepsListings(s1, s2, {})
<1>1. Pointers(s2) = Pointers(s1) /\ Live(s1) \subseteq FstIndices
  BY SameShapeSamePointers, LiveIsFromRoot, RootInTree DEF IsFstTree
<1>2. \A d, i \in FstIndices : i \in ChildrenOf(Pointers(s1), d) =>
                                  s2.fst[i].name = s1.fst[i].name
  BY DEF SameShape, SameEntry
<1> QED  BY <1>1, <1>2, SameListing, ChildrenAreClosed
         DEF KeepsListings, LiveDirectories

-----------------------------------------------------------------------------
(* Create.                                                                 *)

\* Directories have children; what is in the tree is an entry.
LEMMA TreeFacts ==
    ASSUME NEW sb, IsFstTree(sb)
    PROVE  /\ IsTree(Pointers(sb))
           /\ FromRoot(Pointers(sb)) \subseteq FstIndices
           /\ 0 \in FromRoot(Pointers(sb))
           /\ Live(sb) = FromRoot(Pointers(sb))
           /\ \A d \in FromRoot(Pointers(sb)) :
                 IsDirectory(sb.fst[d]) =>
                     /\ Children(sb, d) = ChildrenOf(Pointers(sb), d)
                     /\ Children(sb, d) \subseteq FromRoot(Pointers(sb))
<1>1. IsTree(Pointers(sb)) /\ FromRoot(Pointers(sb)) \subseteq FstIndices
      /\ 0 \in FromRoot(Pointers(sb)) /\ Live(sb) = FromRoot(Pointers(sb))
  BY RootInTree, LiveIsFromRoot DEF IsFstTree
<1> QED  BY <1>1, ChildrenInGraph, ChildrenAreBelow, BelowInTree

LEMMA NewChildEntries ==
    ASSUME NEW sb \in Superblock, NEW parent \in FstIndices,
           NEW child \in FstIndices \ {parent}, NEW entry \in FstEntry
    PROVE  LET new == NewChild(sb, parent, child, entry)
           IN  /\ new.fst[child] = entry
               /\ new.fst[parent] = [sb.fst[parent] EXCEPT !.sub = child]
               /\ \A i \in FstIndices \ {parent, child} : new.fst[i] = sb.fst[i]
BY DEF NewChild, Superblock

LEMMA CreateKeepsTree ==
    ASSUME NEW sb \in Superblock, IsFstTree(sb),
           NEW parent \in FromRoot(Pointers(sb)), IsDirectory(sb.fst[parent]),
           NEW child \in FstIndices, sb.fst[child].type = "none",
           NEW entry \in FstEntry, entry.type # "none",
           entry.sib = sb.fst[parent].sub, IsDirectory(entry) => entry.sub = NIL
    PROVE  LET new == NewChild(sb, parent, child, entry)
           IN  /\ IsFstTree(new) /\ new.fst[child] = entry
               /\ Links(Pointers(sb), Pointers(new), child, parent)
               /\ \A i \in FstIndices \ {child} : SameEntry(sb, new, i)
               /\ \A i \in FstIndices \ {parent, child} : new.fst[i] = sb.fst[i]
<1> DEFINE new == NewChild(sb, parent, child, entry)
           g   == Pointers(sb)
           h   == Pointers(new)
<1>1. /\ IsTree(g) /\ FromRoot(g) \subseteq FstIndices /\ 0 \in FromRoot(g)
      /\ child \notin FromRoot(g) /\ child # parent /\ child # 0
  BY TreeFacts DEF IsFstTree, IsDirectory
<1>2. /\ new.fst[child] = entry
      /\ new.fst[parent] = [sb.fst[parent] EXCEPT !.sub = child]
      /\ \A i \in FstIndices \ {parent, child} : new.fst[i] = sb.fst[i]
  BY <1>1, NewChildEntries
<1>3. sb.fst[parent] \in FstEntry
  BY <1>1 DEF Superblock
<1>4. /\ new.fst[parent].sub = child
      /\ new.fst[parent].sib = sb.fst[parent].sib
      /\ new.fst[parent].type = sb.fst[parent].type
      /\ new.fst[parent].name = sb.fst[parent].name
  BY <1>2, <1>3 DEF FstEntry
<1>5. \A i \in FstIndices \ {child} : SameEntry(sb, new, i)
  BY <1>2, <1>4 DEF SameEntry
<1>6. Links(g, h, child, parent)
  <2>1. h["sub"][parent] = child
    BY <1>1, <1>4, PointersOf DEF IsDirectory
  <2>2. h["sib"][child] = g["sub"][parent]
    BY <1>1, <1>2, PointersOf
  <2>3. h["sub"][child] = NIL
    BY <1>2, PointersOf
  <2>4. ASSUME NEW p \in FromRoot(g), NEW l \in Kinds, p # parent \/ l # "sub"
        PROVE  h[l][p] = g[l][p]
    <3>1. p \in FstIndices /\ p # child
      BY <1>1
    <3>2. CASE p # parent
      BY <1>2, <3>1, <3>2, PointersOf DEF Kinds
    <3>3. CASE p = parent
      BY <1>4, <2>4, <3>1, <3>3, PointersOf DEF Kinds
    <3> QED  BY <3>2, <3>3
  <2> QED  BY <1>1, <2>1, <2>2, <2>3, <2>4 DEF Links
<1>7. IsTree(h) /\ FromRoot(h) = FromRoot(g) \cup {child}
  BY <1>1, <1>6, LinkTree
<1>8. \A i \in FromRoot(h) : new.fst[i].type # "none"
  BY <1>1, <1>2, <1>5, <1>7 DEF SameEntry, IsFstTree
<1>9. IsDirectory(new.fst[0])
  BY <1>1, <1>5 DEF SameEntry, IsFstTree, IsDirectory
<1> HIDE DEF new
<1> QED  BY <1>2, <1>5, <1>6, <1>7, <1>8, <1>9 DEF IsFstTree, new

\* Only the parent lists a new name.
LEMMA CreateKeepsListings ==
    ASSUME NEW s1, NEW s2, IsFstTree(s1), IsFstTree(s2),
           NEW parent, NEW child, Links(Pointers(s1), Pointers(s2), child, parent),
           \A i \in FstIndices \ {child} : SameEntry(s1, s2, i)
    PROVE  KeepsListings(s1, s2, {parent})
<1> DEFINE g == Pointers(s1)
           h == Pointers(s2)
<1> SUFFICES ASSUME NEW d \in (LiveDirectories(s1) \cap LiveDirectories(s2))
                            \ {parent}
             PROVE  Listing(s2, d) = Listing(s1, d)
  BY DEF KeepsListings
<1>1. /\ IsTree(g) /\ FromRoot(g) \subseteq FstIndices
      /\ d \in FromRoot(g) /\ child \notin FromRoot(g)
      /\ IsDirectory(s1.fst[d]) /\ IsDirectory(s2.fst[d])
  BY TreeFacts DEF Links, LiveDirectories
<1>2. ChildrenOf(h, d) = ChildrenOf(g, d)
  BY <1>1, LinkOthers
<1>3. ChildrenOf(g, d) \subseteq FromRoot(g)
  BY <1>1, TreeFacts
<1>4. \A i \in ChildrenOf(g, d) : s2.fst[i].name = s1.fst[i].name
  BY <1>1, <1>3 DEF SameEntry
<1> HIDE DEF g, h
<1> QED  BY <1>1, <1>2, <1>4, SameListing DEF g, h

\* CreateFileOrDirectory has looked the new name up among the children.
LEMMA CreateKeepsNames ==
    ASSUME NEW s1, NEW s2, IsFstTree(s1), IsFstTree(s2), SiblingNamesUnique(s1),
           NEW parent, NEW child, Links(Pointers(s1), Pointers(s2), child, parent),
           IsDirectory(s1.fst[parent]),
           \A i \in FstIndices \ {child} : SameEntry(s1, s2, i),
           \A i \in Children(s1, parent) : s1.fst[i].name # s2.fst[child].name
    PROVE  SiblingNamesUnique(s2)
<1> DEFINE g == Pointers(s1)
           h == Pointers(s2)
<1>1. /\ child \notin FromRoot(g) /\ parent \in FromRoot(g)
      /\ FromRoot(h) = FromRoot(g) \cup {child} /\ IsTree(g)
  BY LinkTree DEF Links, IsFstTree
<1> SUFFICES ASSUME NEW e \in LiveDirectories(s2), NEW i \in Children(s2, e),
                    NEW j \in Children(s2, e), s2.fst[i].name = s2.fst[j].name
             PROVE  i = j
  BY DEF SiblingNamesUnique
<1>2. e \in FromRoot(h) /\ IsDirectory(s2.fst[e])
  BY TreeFacts DEF LiveDirectories
<1>3. {i, j} \subseteq IF e = child THEN {}
                      ELSE IF e = parent THEN {child} \cup ChildrenOf(g, parent)
                      ELSE ChildrenOf(g, e)
  BY <1>1, <1>2, TreeFacts, LinkChildren
<1>4. e \in FromRoot(g) /\ IsDirectory(s1.fst[e]) /\ e \in LiveDirectories(s1)
  BY <1>1, <1>2, <1>3, TreeFacts DEF SameEntry, IsDirectory, LiveDirectories
<1>5. Children(s1, e) = ChildrenOf(g, e) /\ Children(s1, e) \subseteq FromRoot(g)
  BY <1>4, TreeFacts
<1>6. \A k \in Children(s1, e) : s2.fst[k].name = s1.fst[k].name
  BY <1>1, <1>5, TreeFacts DEF SameEntry
<1> HIDE DEF g, h
<1>7. CASE e # parent
  BY <1>3, <1>4, <1>5, <1>6, <1>7 DEF SiblingNamesUnique
<1>8. CASE e = parent
  <2>1. \A k \in Children(s1, e) : s2.fst[k].name # s2.fst[child].name
    BY <1>6, <1>8
  <2>2. {i, j} \subseteq {child} \cup Children(s1, e)
    BY <1>3, <1>5, <1>8
  <2> QED  BY <1>4, <1>6, <2>1, <2>2 DEF SiblingNamesUnique
<1> QED  BY <1>7, <1>8

-----------------------------------------------------------------------------
(* Delete.                                                                 *)

\* The pointer of kind k of entry q goes round entry x, whose mode is cleared.
Unlinked(s1, s2, x, q, k) ==
    /\ \A p \in FstIndices, l \in Kinds :
          Field(s2.fst[p], l) = IF p = q /\ l = k THEN s1.fst[x].sib
                                                 ELSE Field(s1.fst[p], l)
    /\ \A i \in FstIndices \ {x} : SameEntry(s1, s2, i)
    /\ s2.fst[x].name = s1.fst[x].name /\ s2.fst[x].type = "none"

LEMMA FieldUpdates ==
    ASSUME NEW entry \in FstEntry, NEW pointer
    PROVE  LET sub == [entry EXCEPT !.sub = pointer]
               sib == [entry EXCEPT !.sib = pointer]
               off == ClearMode(entry)
           IN  /\ sub.sub = pointer /\ sub.sib = entry.sib
               /\ sub.type = entry.type /\ sub.name = entry.name
               /\ sib.sib = pointer /\ sib.sub = entry.sub
               /\ sib.type = entry.type /\ sib.name = entry.name
               /\ off.sub = entry.sub /\ off.sib = entry.sib
               /\ off.type = "none" /\ off.name = entry.name
BY DEF FstEntry, ClearMode

LEMMA ClearedUnlinks ==
    ASSUME NEW s1 \in Superblock, NEW s2 \in Superblock,
           NEW x \in FstIndices, NEW q \in FstIndices, NEW k \in Kinds,
           \/ k = "sub" /\ s2 = [s1 EXCEPT !.fst[q].sub = s1.fst[x].sib]
           \/ k = "sib" /\ s2 = [s1 EXCEPT !.fst[q].sib = s1.fst[x].sib]
    PROVE  Unlinked(s1, Cleared(s2, x), x, q, k)
<1> DEFINE s3 == Cleared(s2, x)
<1>1. s1.fst \in [FstIndices -> FstEntry] /\ s2.fst \in [FstIndices -> FstEntry]
  BY DEF Superblock
<1>2. /\ \A i \in FstIndices \ {q} : s2.fst[i] = s1.fst[i]
      /\ s2.fst[q] = IF k = "sub" THEN [s1.fst[q] EXCEPT !.sub = s1.fst[x].sib]
                                  ELSE [s1.fst[q] EXCEPT !.sib = s1.fst[x].sib]
  BY DEF Superblock
<1>3. /\ \A i \in FstIndices \ {x} : s3.fst[i] = s2.fst[i]
      /\ s3.fst[x] = ClearMode(s2.fst[x])
  BY DEF Superblock, Cleared
<1> DEFINE to == s1.fst[x].sib
<1>0. /\ s2.fst[q].type = s1.fst[q].type /\ s2.fst[q].name = s1.fst[q].name
      /\ s2.fst[q].sub = IF k = "sub" THEN to ELSE s1.fst[q].sub
      /\ s2.fst[q].sib = IF k = "sib" THEN to ELSE s1.fst[q].sib
  <2>1. s1.fst[q] \in FstEntry
    BY <1>1
  <2> HIDE DEF to
  <2>2. CASE k = "sub"
    <3>1. s2.fst[q] = [s1.fst[q] EXCEPT !.sub = to]
      BY <1>2, <2>2 DEF to
    <3> QED  BY <2>1, <2>2, <3>1, FieldUpdates
  <2>3. CASE k = "sib"
    <3>1. s2.fst[q] = [s1.fst[q] EXCEPT !.sib = to]
      BY <1>2, <2>3 DEF to
    <3> QED  BY <2>1, <2>3, <3>1, FieldUpdates
  <2> QED  BY <2>2, <2>3 DEF Kinds
<1>4. \A i \in FstIndices : /\ s2.fst[i].type = s1.fst[i].type
                            /\ s2.fst[i].name = s1.fst[i].name
  BY <1>0, <1>2
<1>5. \A i \in FstIndices : /\ s3.fst[i].sib = s2.fst[i].sib
                            /\ s3.fst[i].sub = s2.fst[i].sub
                            /\ s3.fst[i].name = s2.fst[i].name
  BY <1>1, <1>3, FieldUpdates
<1>6. s3.fst[x].type = "none"
  BY <1>1, <1>3, FieldUpdates
<1>7. \A p \in FstIndices, l \in Kinds :
         Field(s2.fst[p], l) = IF p = q /\ l = k THEN s1.fst[x].sib
                                                ELSE Field(s1.fst[p], l)
  BY <1>0, <1>2 DEF Field, Kinds
<1>8. \A i \in FstIndices \ {x} : SameEntry(s1, s3, i)
  BY <1>3, <1>4 DEF SameEntry
<1> HIDE DEF s3
<1> QED  BY <1>4, <1>5, <1>6, <1>7, <1>8 DEF Unlinked, Field, s3

\* RemoveFstEntryFromChain always finds the pointer to a child.
LEMMA RemovalUnlinks ==
    ASSUME NEW sb \in Superblock, NEW parent \in FstIndices,
           IsDirectory(sb.fst[parent]), NEW child \in Children(sb, parent)
    PROVE  LET removed == RemoveFstEntryFromChain(sb, parent, child)
           IN  /\ removed.code = "Success" /\ removed.sb \in Superblock
               /\ \E q \in FstIndices, k \in Kinds :
                     /\ Field(sb.fst[q], k) = child
                     /\ \/ q = parent /\ k = "sub"
                        \/ q \in Children(sb, parent) /\ k = "sib"
                     /\ Unlinked(sb, removed.sb, child, q, k)
<1> DEFINE next     == sb.fst[child].sib
           previous == {p \in Children(sb, parent) : sb.fst[p].sib = child}
           before   == CHOOSE p \in previous : TRUE
           first    == [sb EXCEPT !.fst[parent].sub = next]
           later    == [sb EXCEPT !.fst[before].sib = next]
           removed  == RemoveFstEntryFromChain(sb, parent, child)
<1>1. child \in FstIndices /\ Children(sb, parent) \subseteq FstIndices
  BY ChildrenType
<1>2. removed.sb \in Superblock
  BY <1>1, RemoveFstEntryFromChainType
<1>3. next \in U16
  BY <1>1 DEF Superblock, FstEntry
<1>4. CASE sb.fst[parent].sub = child
  <2>1. removed = [code |-> "Success", sb |-> Cleared(first, child)]
    BY <1>4 DEF RemoveFstEntryFromChain
  <2>2. first \in Superblock
    BY <1>3, SubUpdate
  <2>3. "sub" \in Kinds
    BY DEF Kinds
  <2>4. Unlinked(sb, Cleared(first, child), child, parent, "sub")
    BY <1>1, <2>2, <2>3, ClearedUnlinks
  <2>5. Field(sb.fst[parent], "sub") = child
    BY <1>4 DEF Field
  <2> HIDE DEF removed, first
  <2> QED  BY <1>2, <2>1, <2>3, <2>4, <2>5 DEF removed
<1>5. CASE sb.fst[parent].sub # child
  <2>1. previous # {}
    <3>1. Children(sb, parent) = ChildrenOf(Pointers(sb), parent)
      BY ChildrenInGraph
    <3>2. \A p \in FstIndices : Pointers(sb)["sib"][p] = sb.fst[p].sib
      BY PointersOf
    <3>3. Pointers(sb)["sub"][parent] = sb.fst[parent].sub
      BY PointersOf
    <3> QED  BY <1>1, <1>5, <3>1, <3>2, <3>3, ChildHasPointer
  <2>2. before \in Children(sb, parent) /\ sb.fst[before].sib = child
    BY <2>1
  <2>3. removed = [code |-> "Success", sb |-> Cleared(later, child)]
    BY <1>5, <2>1 DEF RemoveFstEntryFromChain
  <2> HIDE DEF before, previous
  <2>4. later \in Superblock
    BY <1>1, <1>3, <2>2, SibUpdate
  <2>5. "sib" \in Kinds
    BY DEF Kinds
  <2>6. Unlinked(sb, Cleared(later, child), child, before, "sib")
    BY <1>1, <2>2, <2>4, <2>5, ClearedUnlinks
  <2>7. Field(sb.fst[before], "sib") = child
    BY <2>2 DEF Field
  <2> HIDE DEF removed, later
  <2> QED  BY <1>1, <1>2, <2>2, <2>3, <2>5, <2>6, <2>7 DEF removed
<1> QED  BY <1>4, <1>5

\* In the graph, with the entries within x cleared or not.
LEMMA UnlinkedPointers ==
    ASSUME NEW s1, NEW s2, NEW parent, NEW x, NEW q \in FstIndices, NEW k \in Kinds,
           IsTree(Pointers(s1)), parent \in FromRoot(Pointers(s1)),
           IsDirectory(s1.fst[parent]),
           x \in ChildrenOf(Pointers(s1), parent), Field(s1.fst[q], k) = x,
           \/ q = parent /\ k = "sub"
           \/ q \in ChildrenOf(Pointers(s1), parent) /\ k = "sib",
           Unlinked(s1, s2, x, q, k)
    PROVE  /\ Pointers(s1)[k][q] = x
           /\ Unlinks(Pointers(s1), Pointers(s2), x, q, k)
<1> DEFINE g == Pointers(s1)
           h == Pointers(s2)
           L == FromRoot(g)
<1>1. x \in L /\ x # 0 /\ parent \notin Within(g, x) /\ L \subseteq FstIndices
  BY ParentOutside, RootInTree
<1>2. q \in L
  BY ChildrenAreBelow, BelowInTree
<1>3. k = "sib" \/ IsDirectory(s1.fst[q])
  OBVIOUS
<1>4. \A s : \A p \in FstIndices, l \in Kinds :
         Pointers(s)[l][p] = IF l = "sib" \/ IsDirectory(s.fst[p])
                             THEN Field(s.fst[p], l) ELSE NIL
  BY DEF Pointers
<1>5. g[k][q] = x
  BY <1>3, <1>4
<1>6. q \notin Within(g, x)
  BY <1>1, <1>2, <1>5, PointerFromOutside
<1>7. q # x /\ x \in FstIndices
  BY <1>1, <1>6 DEF Within
<1>8. \A i \in FstIndices \ {x} : IsDirectory(s2.fst[i]) <=> IsDirectory(s1.fst[i])
  BY DEF Unlinked, SameEntry, IsDirectory
<1>9. h[k][q] = g["sib"][x]
  <2>1. g["sib"][x] = s1.fst[x].sib
    BY <1>7, PointersOf
  <2>2. h[k][q] = Field(s2.fst[q], k)
    BY <1>3, <1>4, <1>7, <1>8
  <2> QED  BY <2>1, <2>2 DEF Unlinked
<1>10. ASSUME NEW p \in L \ Within(g, x), NEW l \in Kinds, p # q \/ l # k
       PROVE  h[l][p] = g[l][p]
  <2>1. p \in FstIndices \ {x}
    BY <1>1 DEF Within
  <2>2. Field(s2.fst[p], l) = Field(s1.fst[p], l)
    BY <1>10, <2>1 DEF Unlinked
  <2> HIDE DEF g, h
  <2> QED  BY <1>4, <1>8, <2>1, <2>2 DEF g, h
<1> HIDE DEF g, h
<1> QED  BY <1>1, <1>2, <1>5, <1>9, <1>10 DEF Unlinks, g, h

LEMMA SameFieldsSamePointers ==
    ASSUME NEW s1, NEW s2,
           \A i \in FstIndices :
               /\ s2.fst[i].sib = s1.fst[i].sib /\ s2.fst[i].sub = s1.fst[i].sub
               /\ IsDirectory(s2.fst[i]) <=> IsDirectory(s1.fst[i])
    PROVE  Pointers(s2) = Pointers(s1)
<1>1. \A k \in Kinds, p \in FstIndices :
         (IF k = "sib" \/ IsDirectory(s2.fst[p])
          THEN Field(s2.fst[p], k) ELSE NIL) =
         (IF k = "sib" \/ IsDirectory(s1.fst[p])
          THEN Field(s1.fst[p], k) ELSE NIL)
  BY DEF Field
<1> QED  BY <1>1 DEF Pointers

\* The entries that a deletion clears.
Emptied(index) ==
    IF IsDirectory(superblock.fst[index])
    THEN {i \in Traversal(superblock, index, IsDirectory) :
             ~IsDirectory(superblock.fst[i])}
    ELSE {index}

LEMMA ContentsCleared ==
    ASSUME TypeOK, NEW index \in FstIndices
    PROVE  LET deleted == DeleteContents(index)
           IN  /\ \A i \in FstIndices :
                     deleted.fst[i] = IF i \in Emptied(index)
                                      THEN ClearMode(superblock.fst[i])
                                      ELSE superblock.fst[i]
               /\ deleted.fat = FreeClusters(superblock.fat,
                     UNION {ClusterChain(superblock, superblock.fst[f].sub) :
                                f \in Emptied(index)})
               /\ \A i \in Emptied(index) :
                     /\ i \in FstIndices /\ ~IsDirectory(superblock.fst[i])
                     /\ i \in Within(Pointers(superblock), index)
<1> DEFINE deleted == DeleteContents(index)
           cleared == Emptied(index)
           Freed(files) ==
               FreeClusters(superblock.fat,
                   UNION {ClusterChain(superblock, superblock.fst[f].sub) :
                              f \in files})
<1>1. superblock \in Superblock /\ superblock.fst \in [FstIndices -> FstEntry]
  BY DEF TypeOK, Superblock
<1>3. /\ \A i \in FstIndices : deleted.fst[i] = IF i \in cleared
                                                THEN ClearMode(superblock.fst[i])
                                                ELSE superblock.fst[i]
      /\ deleted.fat = Freed(cleared)
  <2>1. CASE IsDirectory(superblock.fst[index])
    <3> DEFINE files == {i \in Traversal(superblock, index, IsDirectory) :
                            ~IsDirectory(superblock.fst[i])}
    <3>1. deleted = DeleteDirectoryContents(superblock, index)
      BY <2>1 DEF DeleteContents
    <3>2. DeleteDirectoryContents(superblock, index) =
             [superblock EXCEPT
                !.fat = Freed(files),
                !.fst = [i \in FstIndices |->
                            IF i \in files THEN ClearMode(superblock.fst[i])
                                           ELSE superblock.fst[i]]]
      BY Zenon DEF DeleteDirectoryContents
    <3>3. cleared = files
      BY <2>1 DEF Emptied
    <3> HIDE DEF files, cleared, deleted, Freed
    <3> QED  BY <1>1, <3>1, <3>2, <3>3 DEF Superblock
  <2>2. CASE ~IsDirectory(superblock.fst[index])
    <3> DEFINE chain == ClusterChain(superblock, superblock.fst[index].sub)
               fat   == FreeClusters(superblock.fat, chain)
               freed == [superblock EXCEPT !.fat = fat]
    <3>1. deleted = Cleared(freed, index)
      BY <2>2 DEF DeleteContents, DeleteFile
    <3>2. freed.fst = superblock.fst /\ freed \in Superblock /\ freed.fat = fat
      BY <1>1, FreeClustersType DEF Superblock
    <3>3. cleared = {index}
      BY <2>2 DEF Emptied
    <3>4. fat = Freed(cleared)
      <4>1. UNION {ClusterChain(superblock, superblock.fst[f].sub) : f \in cleared}
               = chain
        BY <3>3
      <4> QED  BY <4>1
    <3> HIDE DEF freed, deleted, cleared, Freed, fat
    <3> QED  BY <3>1, <3>2, <3>3, <3>4 DEF Cleared, Superblock
  <2> QED  BY <2>1, <2>2
<1>4. \A i \in cleared : i \in FstIndices /\ ~IsDirectory(superblock.fst[i])
                         /\ i \in Within(Pointers(superblock), index)
  <2>1. CASE IsDirectory(superblock.fst[index])
    BY <2>1, TraversalIsBelow, BelowIsClosed DEF Within, Emptied
  <2>2. CASE ~IsDirectory(superblock.fst[index])
    BY <2>2 DEF Within, Emptied
  <2> QED  BY <2>1, <2>2
<1> QED  BY <1>3, <1>4

\* Deleting what is below an entry clears modes within the entry, and only of
\* entries that are no directories: it changes no pointer.
LEMMA ContentsKeepPointers ==
    ASSUME TypeOK, NEW index \in FstIndices
    PROVE  LET deleted == DeleteContents(index)
           IN  /\ deleted \in Superblock
               /\ Pointers(deleted) = Pointers(superblock)
               /\ \A i \in FstIndices :
                     /\ deleted.fst[i].name = superblock.fst[i].name
                     /\ IsDirectory(deleted.fst[i]) <=>
                            IsDirectory(superblock.fst[i])
                     /\ i \notin Within(Pointers(superblock), index) =>
                            SameEntry(superblock, deleted, i)
<1> DEFINE deleted == DeleteContents(index)
           cleared == Emptied(index)
<1>1. superblock \in Superblock /\ superblock.fst \in [FstIndices -> FstEntry]
  BY DEF TypeOK, Superblock
<1>2. deleted \in Superblock
  BY DeleteContentsType
<1>3. \A i \in FstIndices : deleted.fst[i] = IF i \in cleared
                                             THEN ClearMode(superblock.fst[i])
                                             ELSE superblock.fst[i]
  BY ContentsCleared
<1>4. \A i \in cleared : i \in FstIndices /\ ~IsDirectory(superblock.fst[i])
                         /\ i \in Within(Pointers(superblock), index)
  BY ContentsCleared
<1> HIDE DEF deleted, cleared
<1>5. \A i \in FstIndices :
         /\ deleted.fst[i].name = superblock.fst[i].name
         /\ deleted.fst[i].sib = superblock.fst[i].sib
         /\ deleted.fst[i].sub = superblock.fst[i].sub
         /\ IsDirectory(deleted.fst[i]) <=> IsDirectory(superblock.fst[i])
  <2> SUFFICES ASSUME NEW i \in FstIndices
               PROVE  /\ deleted.fst[i].name = superblock.fst[i].name
                      /\ deleted.fst[i].sib = superblock.fst[i].sib
                      /\ deleted.fst[i].sub = superblock.fst[i].sub
                      /\ IsDirectory(deleted.fst[i]) <=>
                             IsDirectory(superblock.fst[i])
    OBVIOUS
  <2>1. superblock.fst[i] \in FstEntry
    BY <1>1
  <2>2. CASE i \in cleared
    <3>1. deleted.fst[i] = ClearMode(superblock.fst[i])
      BY <1>3, <2>2
    <3>2. ~IsDirectory(deleted.fst[i]) /\ ~IsDirectory(superblock.fst[i])
      BY <1>4, <2>1, <2>2, <3>1, FieldUpdates DEF IsDirectory
    <3> QED  BY <2>1, <3>1, <3>2, FieldUpdates
  <2>3. CASE i \notin cleared
    BY <1>3, <2>3
  <2> QED  BY <2>2, <2>3
<1>6. \A i \in FstIndices : i \notin Within(Pointers(superblock), index) =>
                                SameEntry(superblock, deleted, i)
  BY <1>3, <1>4 DEF SameEntry
<1>7. Pointers(deleted) = Pointers(superblock)
  BY <1>5, SameFieldsSamePointers
<1> QED  BY <1>2, <1>5, <1>6, <1>7 DEF deleted

\* What Delete makes of the tree: the entry and all below it are gone.
Removed(s1, s2, index) ==
    LET g == Pointers(s1)
        h == Pointers(s2)
    IN  /\ IsFstTree(s2)
        /\ FromRoot(h) = FromRoot(g) \ Within(g, index)
        /\ \A i \in FromRoot(h) : SameEntry(s1, s2, i)
        /\ \A d \in FromRoot(h) :
              /\ ChildrenOf(h, d) \subseteq ChildrenOf(g, d) \ {index}
              /\ index \notin ChildrenOf(g, d) =>
                    ChildrenOf(h, d) = ChildrenOf(g, d)
              /\ Below(h, d) \subseteq Below(g, d)

LEMMA RemovalKeepsTree ==
    ASSUME TypeOK, IsFstTree(superblock),
           NEW parent \in FromRoot(Pointers(superblock)),
           IsDirectory(superblock.fst[parent]),
           NEW index \in Children(superblock, parent)
    PROVE  LET removed == RemoveFstEntryFromChain(DeleteContents(index), parent,
                                                  index)
           IN  /\ removed.code = "Success" /\ removed.sb \in Superblock
               /\ Removed(superblock, removed.sb, index)
<1> DEFINE deleted == DeleteContents(index)
           removed == RemoveFstEntryFromChain(deleted, parent, index)
           g == Pointers(superblock)
           h == Pointers(removed.sb)
<1>1. /\ parent \in FstIndices /\ FromRoot(g) \subseteq FstIndices
      /\ IsTree(g) /\ index \in ChildrenOf(g, parent) /\ index \in FstIndices
      /\ 0 \in FromRoot(g)
  BY TreeFacts
<1>2. /\ deleted \in Superblock /\ Pointers(deleted) = g
      /\ IsDirectory(deleted.fst[parent])
      /\ \A i \in FstIndices \ Within(g, index) : SameEntry(superblock, deleted, i)
  BY <1>1, ContentsKeepPointers
<1>3. Children(deleted, parent) = ChildrenOf(g, parent)
  BY <1>1, <1>2, ChildrenInGraph
<1> HIDE DEF deleted
<1>4. removed.code = "Success" /\ removed.sb \in Superblock
  BY <1>1, <1>2, <1>3, RemovalUnlinks
<1>5. PICK q \in FstIndices, k \in Kinds :
         /\ Field(deleted.fst[q], k) = index
         /\ \/ q = parent /\ k = "sub"
            \/ q \in Children(deleted, parent) /\ k = "sib"
         /\ Unlinked(deleted, removed.sb, index, q, k)
  BY <1>1, <1>2, <1>3, RemovalUnlinks
<1> HIDE DEF removed
<1>6. Unlinks(g, h, index, q, k)
  <2>1. /\ IsTree(Pointers(deleted)) /\ parent \in FromRoot(Pointers(deleted))
        /\ index \in ChildrenOf(Pointers(deleted), parent)
    BY <1>1, <1>2
  <2>2. \/ q = parent /\ k = "sub"
        \/ q \in ChildrenOf(Pointers(deleted), parent) /\ k = "sib"
    BY <1>2, <1>3, <1>5
  <2> HIDE DEF g, h
  <2>3. Unlinks(Pointers(deleted), Pointers(removed.sb), index, q, k)
    BY <1>2, <1>5, <2>1, <2>2, UnlinkedPointers
  <2> QED  BY <1>2, <2>3 DEF h
<1>7. IsTree(h) /\ FromRoot(h) = FromRoot(g) \ Within(g, index)
  BY <1>1, <1>6, UnlinkTree
<1>8. \A i \in FromRoot(h) : SameEntry(superblock, removed.sb, i)
  BY <1>1, <1>2, <1>5, <1>7 DEF Unlinked, SameEntry, Within
<1>9. \A d \in FromRoot(h) :
         /\ ChildrenOf(h, d) \subseteq ChildrenOf(g, d) \ {index}
         /\ index \notin ChildrenOf(g, d) => ChildrenOf(h, d) = ChildrenOf(g, d)
         /\ Below(h, d) \subseteq Below(g, d)
  <2> HIDE DEF g, h
  <2> QED  BY <1>1, <1>6, <1>7, UnlinkChildren, UnlinkOthers, UnlinkBelow
<1>10. IsFstTree(removed.sb)
  <2>1. 0 \in FromRoot(h)
    BY RootInTree
  <2> QED  BY <1>7, <1>8, <2>1 DEF IsFstTree, SameEntry, IsDirectory
<1> QED  BY <1>4, <1>7, <1>8, <1>9, <1>10 DEF Removed, removed, deleted

LEMMA RemovalKeepsNames ==
    ASSUME NEW s1, NEW s2, NEW index, IsFstTree(s1), SiblingNamesUnique(s1),
           Removed(s1, s2, index)
    PROVE  SiblingNamesUnique(s2)
<1> DEFINE g == Pointers(s1)
           h == Pointers(s2)
<1>1. /\ IsFstTree(s2) /\ FromRoot(h) \subseteq FromRoot(g)
      /\ \A i \in FromRoot(h) : SameEntry(s1, s2, i)
      /\ \A d \in FromRoot(h) : ChildrenOf(h, d) \subseteq ChildrenOf(g, d)
  BY DEF Removed
<1> SUFFICES ASSUME NEW e \in LiveDirectories(s2), NEW i \in Children(s2, e),
                    NEW j \in Children(s2, e), s2.fst[i].name = s2.fst[j].name
             PROVE  i = j
  BY DEF SiblingNamesUnique
<1>2. e \in FromRoot(h) /\ IsDirectory(s2.fst[e])
  BY <1>1, TreeFacts DEF LiveDirectories
<1>3. e \in FromRoot(g) /\ IsDirectory(s1.fst[e]) /\ e \in LiveDirectories(s1)
  BY <1>1, <1>2, TreeFacts DEF SameEntry, IsDirectory, LiveDirectories
<1>4. /\ Children(s1, e) = ChildrenOf(g, e) /\ Children(s2, e) = ChildrenOf(h, e)
      /\ Children(s2, e) \subseteq FromRoot(h)
  BY <1>1, <1>2, <1>3, TreeFacts
<1> HIDE DEF g, h
<1>5. s1.fst[i].name = s1.fst[j].name
  BY <1>1, <1>4 DEF SameEntry
<1> QED  BY <1>1, <1>2, <1>3, <1>4, <1>5 DEF SiblingNamesUnique

LEMMA RemovalKeepsListings ==
    ASSUME NEW s1, NEW s2, NEW index, IsFstTree(s1), Removed(s1, s2, index),
           NEW parent \in FromRoot(Pointers(s1)),
           index \in ChildrenOf(Pointers(s1), parent)
    PROVE  KeepsListings(s1, s2, {parent})
<1> DEFINE g == Pointers(s1)
           h == Pointers(s2)
<1> SUFFICES ASSUME NEW d \in (LiveDirectories(s1) \cap LiveDirectories(s2))
                            \ {parent}
             PROVE  Listing(s2, d) = Listing(s1, d)
  BY DEF KeepsListings
<1>1. /\ IsTree(g) /\ IsFstTree(s2) /\ FromRoot(g) \subseteq FstIndices
      /\ d \in FromRoot(g) /\ d \in FromRoot(h)
      /\ IsDirectory(s1.fst[d]) /\ IsDirectory(s2.fst[d])
  BY TreeFacts DEF Removed, LiveDirectories
<1>2. index \notin ChildrenOf(g, d)
  BY <1>1, OneParent
<1>3. ChildrenOf(h, d) = ChildrenOf(g, d)
  BY <1>1, <1>2 DEF Removed
<1>4. ChildrenOf(h, d) \subseteq FromRoot(h)
  BY <1>1, TreeFacts
<1>5. \A i \in ChildrenOf(g, d) : s2.fst[i].name = s1.fst[i].name
  BY <1>3, <1>4 DEF Removed, SameEntry
<1> HIDE DEF g, h
<1> QED  BY <1>1, <1>3, <1>5, SameListing DEF g, h

-----------------------------------------------------------------------------
(* Rename.                                                                 *)

LEMMA RelinkedFields ==
    ASSUME NEW sb \in Superblock, NEW index \in FstIndices,
           NEW saved \in FstEntry, NEW parent \in FstIndices, NEW name,
           StoredName(name) \in Names, NEW i \in FstIndices
    PROVE  LET new == Relinked(sb, index, saved, parent, name)
           IN  /\ new.fst[i].sub = IF i = parent THEN index ELSE sb.fst[i].sub
               /\ new.fst[i].sib = IF i = index THEN sb.fst[parent].sub
                                                ELSE sb.fst[i].sib
               /\ new.fst[i].type = IF i = index THEN saved.type
                                                 ELSE sb.fst[i].type
               /\ new.fst[i].name = IF i = index THEN StoredName(name)
                                                 ELSE sb.fst[i].name
<1> DEFINE before == sb.fst[index]
           sib    == sb.fst[parent].sub
           stored_name == StoredName(name)
           entry  == [before EXCEPT
                         !.type = saved.type, !.owner = saved.owner,
                         !.group = saved.group, !.other = saved.other,
                         !.name = stored_name, !.sib = sib]
           linked == [sb EXCEPT !.fst[index] = entry]
           new    == [linked EXCEPT !.fst[parent].sub = index]
<1>1. before \in FstEntry /\ sib \in U16
  <2>1. before \in FstEntry /\ sb.fst[parent] \in FstEntry
    BY DEF Superblock
  <2> HIDE DEF before
  <2> QED  BY <2>1 DEF FstEntry
<1>2. /\ entry \in FstEntry /\ entry.sub = before.sub /\ entry.sib = sib
      /\ entry.type = saved.type /\ entry.name = stored_name
  <2> HIDE DEF before, sib, stored_name
  <2> QED  BY <1>1 DEF FstEntry, stored_name
<1>3. linked \in Superblock
  <2> HIDE DEF entry
  <2> QED  BY <1>2, FstUpdate
<1>4. linked.fst[i] = IF i = index THEN entry ELSE sb.fst[i]
  <2> HIDE DEF entry
  <2> QED  BY DEF Superblock
<1>5. new.fst[i] = IF i = parent THEN [linked.fst[i] EXCEPT !.sub = index]
                                 ELSE linked.fst[i]
  <2> HIDE DEF linked
  <2> QED  BY <1>3 DEF Superblock
<1>6. linked.fst[i] \in FstEntry
  <2> HIDE DEF linked
  <2> QED  BY <1>3 DEF Superblock
<1>7. /\ new.fst[i].sub = IF i = parent THEN index ELSE linked.fst[i].sub
      /\ new.fst[i].sib = linked.fst[i].sib
      /\ new.fst[i].type = linked.fst[i].type
      /\ new.fst[i].name = linked.fst[i].name
  <2> HIDE DEF linked, new
  <2>1. CASE i = parent
    BY <1>5, <1>6, <2>1, FieldUpdates
  <2>2. CASE i # parent
    BY <1>5, <2>2
  <2> QED  BY <2>1, <2>2
<1>8. Relinked(sb, index, saved, parent, name) = new
  BY Zenon DEF Relinked
<1> HIDE DEF new, linked, entry
<1> QED  BY <1>2, <1>4, <1>7, <1>8 DEF before, sib, stored_name

\* The new parent may be within the entry that moves.
LEMMA RelinkedMoves ==
    ASSUME NEW s1 \in Superblock, NEW s2 \in Superblock, IsTree(Pointers(s1)),
           NEW index \in FromRoot(Pointers(s1)), index # 0,
           NEW q \in FromRoot(Pointers(s1)), NEW k \in Kinds,
           Pointers(s1)[k][q] = index, Unlinked(s1, s2, index, q, k),
           NEW parent \in FromRoot(Pointers(s1)), IsDirectory(s1.fst[parent]),
           NEW name, StoredName(name) \in Names
    PROVE  LET new == Relinked(s2, index, s1.fst[index], parent, name)
           IN  /\ Moves(Pointers(s1), Pointers(new), index, q, k, parent)
               /\ new.fst[index].type = s1.fst[index].type
               /\ new.fst[index].name = StoredName(name)
               /\ \A i \in FstIndices \ {index} : SameEntry(s1, new, i)
<1> DEFINE saved == s1.fst[index]
           new   == Relinked(s2, index, saved, parent, name)
           g     == Pointers(s1)
           h     == Pointers(new)
           L     == FromRoot(g)
<1>1. L \subseteq FstIndices /\ index \in FstIndices /\ parent \in FstIndices
      /\ q \in FstIndices /\ index # NIL
  BY RootInTree, NilIsNoIndex
<1>2. saved \in FstEntry
  BY <1>1 DEF Superblock
<1> HIDE DEF saved
<1>3. \A i \in FstIndices :
         /\ new.fst[i].sub = IF i = parent THEN index ELSE s2.fst[i].sub
         /\ new.fst[i].sib = IF i = index THEN s2.fst[parent].sub
                                          ELSE s2.fst[i].sib
         /\ new.fst[i].type = IF i = index THEN saved.type ELSE s2.fst[i].type
         /\ new.fst[i].name = IF i = index THEN StoredName(name)
                                           ELSE s2.fst[i].name
  BY <1>1, <1>2, RelinkedFields
<1> HIDE DEF new
<1>4. \A p \in FstIndices :
         /\ s2.fst[p].sib = IF p = q /\ k = "sib" THEN s1.fst[index].sib
                                                 ELSE s1.fst[p].sib
         /\ s2.fst[p].sub = IF p = q /\ k = "sub" THEN s1.fst[index].sib
                                                 ELSE s1.fst[p].sub
  <2>1. \A p \in FstIndices, l \in Kinds :
           Field(s2.fst[p], l) = IF p = q /\ l = k THEN s1.fst[index].sib
                                                   ELSE Field(s1.fst[p], l)
    BY DEF Unlinked
  <2>2. "sib" \in Kinds /\ "sub" \in Kinds /\ "sib" # "sub"
    BY DEF Kinds
  <2> QED  BY <2>1, <2>2 DEF Field
<1>5. /\ new.fst[index].type = s1.fst[index].type
      /\ new.fst[index].name = StoredName(name)
      /\ \A i \in FstIndices \ {index} : SameEntry(s1, new, i)
  BY <1>1, <1>3 DEF Unlinked, SameEntry, saved
<1>6. \A i \in FstIndices : IsDirectory(new.fst[i]) <=> IsDirectory(s1.fst[i])
  BY <1>5 DEF SameEntry, IsDirectory
<1>7. \A p \in FstIndices :
         /\ g["sib"][p] = s1.fst[p].sib
         /\ g["sub"][p] = IF IsDirectory(s1.fst[p]) THEN s1.fst[p].sub ELSE NIL
         /\ h["sib"][p] = new.fst[p].sib
         /\ h["sub"][p] = IF IsDirectory(s1.fst[p]) THEN new.fst[p].sub ELSE NIL
  BY <1>6, PointersOf
<1> HIDE DEF g, h
<1>8. k = "sub" => IsDirectory(s1.fst[q])
  BY <1>1, <1>7 DEF g
<1>9. h["sub"][parent] = index
  BY <1>1, <1>3, <1>7
<1>10. h["sib"][index] = IF q = parent /\ k = "sub" THEN g["sib"][index]
                                                   ELSE g["sub"][parent]
  BY <1>1, <1>3, <1>4, <1>7
<1>11. g[k][q] = index
  BY DEF g
<1>12. q # index
  <2>1. q \notin Within(g, index)
    BY <1>11, PointerFromOutside DEF g
  <2> QED  BY <2>1 DEF Within
<1>13. q # parent \/ k # "sub" => h[k][q] = g["sib"][index]
  BY <1>1, <1>3, <1>4, <1>7, <1>8, <1>12 DEF Kinds
<1>14. ASSUME NEW p \in L, NEW l \in Kinds, p # q \/ l # k,
              p # index \/ l # "sib", p # parent \/ l # "sub"
       PROVE  h[l][p] = g[l][p]
  <2>1. p \in FstIndices
    BY <1>1
  <2>2. CASE l = "sib"
    BY <1>3, <1>4, <1>7, <1>14, <2>1, <2>2
  <2>3. CASE l = "sub"
    BY <1>3, <1>4, <1>7, <1>14, <2>1, <2>3
  <2> QED  BY <2>2, <2>3 DEF Kinds
<1>15. Moves(g, h, index, q, k, parent)
  BY <1>9, <1>10, <1>11, <1>13, <1>14 DEF Moves, g
<1> QED  BY <1>5, <1>15 DEF g, h, new, saved

\* What Rename makes of the tree, once what was at the new path is gone.
Moved(s1, s2, index, parent, name) ==
    LET g == Pointers(s1)
        h == Pointers(s2)
    IN  /\ IsFstTree(s2)
        /\ FromRoot(h) \subseteq FromRoot(g)
        /\ FromRoot(g) \ Within(g, index) \subseteq FromRoot(h)
        /\ parent \notin Within(g, index) => FromRoot(h) = FromRoot(g)
        /\ \A i \in FromRoot(g) \ {index} : SameEntry(s1, s2, i)
        /\ s2.fst[index].type = s1.fst[index].type
        /\ s2.fst[index].name = StoredName(name)
        /\ \A d \in FromRoot(g) :
              ChildrenOf(h, d) \subseteq
                  IF d = parent THEN {index} \cup ChildrenOf(g, d)
                                ELSE ChildrenOf(g, d) \ {index}
        /\ \A d \in FromRoot(g) \ {parent} :
              index \notin ChildrenOf(g, d) =>
                  ChildrenOf(h, d) = ChildrenOf(g, d)

LEMMA MovingKeepsTree ==
    ASSUME NEW sb \in Superblock, IsFstTree(sb),
           NEW old_parent \in FromRoot(Pointers(sb)),
           IsDirectory(sb.fst[old_parent]),
           NEW index \in Children(sb, old_parent),
           NEW new_parent \in FromRoot(Pointers(sb)),
           IsDirectory(sb.fst[new_parent]),
           NEW name, StoredName(name) \in Names
    PROVE  LET unlinked == RemoveFstEntryFromChain(sb, old_parent, index)
               new == Relinked(unlinked.sb, index, sb.fst[index], new_parent, name)
           IN  /\ unlinked.code = "Success"
               /\ Moved(sb, new, index, new_parent, name)
<1> DEFINE unlinked == RemoveFstEntryFromChain(sb, old_parent, index)
           middle == unlinked.sb
           new == Relinked(middle, index, sb.fst[index], new_parent, name)
           g == Pointers(sb)
           h == Pointers(new)
<1>1. /\ IsTree(g) /\ FromRoot(g) \subseteq FstIndices /\ 0 \in FromRoot(g)
      /\ Children(sb, old_parent) = ChildrenOf(g, old_parent)
      /\ index \in FstIndices /\ old_parent \in FstIndices
  BY TreeFacts
<1>2. index \in FromRoot(g) /\ index # 0
  BY <1>1, ParentOutside
<1>3. unlinked.code = "Success" /\ middle \in Superblock
  BY <1>1, RemovalUnlinks
<1>4. PICK q \in FstIndices, k \in Kinds :
         /\ Field(sb.fst[q], k) = index
         /\ \/ q = old_parent /\ k = "sub"
            \/ q \in Children(sb, old_parent) /\ k = "sib"
         /\ Unlinked(sb, middle, index, q, k)
  BY <1>1, RemovalUnlinks
<1> HIDE DEF unlinked, middle
<1>5. g[k][q] = index
  <2>1. CASE q = old_parent /\ k = "sub"
    BY <1>1, <1>4, <2>1, PointersOf DEF Field
  <2>2. CASE k = "sib"
    BY <1>1, <1>4, <2>2, PointersOf DEF Field
  <2> QED  BY <1>4, <2>1, <2>2
<1>6. q \in FromRoot(g)
  BY <1>1, <1>4, TreeFacts
<1>7. /\ Moves(g, h, index, q, k, new_parent)
      /\ new.fst[index].type = sb.fst[index].type
      /\ new.fst[index].name = StoredName(name)
      /\ \A i \in FstIndices \ {index} : SameEntry(sb, new, i)
  BY <1>1, <1>2, <1>3, <1>4, <1>5, <1>6, RelinkedMoves
<1> HIDE DEF new
<1>8. /\ IsTree(h) /\ FromRoot(h) \subseteq FromRoot(g)
      /\ FromRoot(g) \ Within(g, index) \subseteq FromRoot(h)
      /\ new_parent \notin Within(g, index) => FromRoot(h) = FromRoot(g)
  BY <1>1, <1>7, MoveTree, MoveKeepsEntries
<1>9. \A d \in FromRoot(g) :
         ChildrenOf(h, d) \subseteq
             IF d = new_parent THEN {index} \cup ChildrenOf(g, d)
                               ELSE ChildrenOf(g, d) \ {index}
  <2> HIDE DEF g, h
  <2> QED  BY <1>1, <1>7, MoveChildren
<1>12. \A d \in FromRoot(g) \ {new_parent} :
          index \notin ChildrenOf(g, d) => ChildrenOf(h, d) = ChildrenOf(g, d)
  <2> HIDE DEF g, h
  <2> QED  BY <1>1, <1>7, MoveOthers
<1>10. \A i \in FstIndices : new.fst[i].type = sb.fst[i].type
  BY <1>7 DEF SameEntry
<1>11. IsFstTree(new)
  BY <1>1, <1>8, <1>10 DEF IsFstTree, IsDirectory
<1> QED  BY <1>1, <1>3, <1>7, <1>8, <1>9, <1>11, <1>12
         DEF Moved, new, middle, unlinked

\* The check of Rename has found no child of the new name.
LEMMA MovingKeepsNames ==
    ASSUME NEW s1, NEW s2, NEW index, NEW parent, NEW name,
           IsFstTree(s1), SiblingNamesUnique(s1),
           Moved(s1, s2, index, parent, name),
           \A i \in ChildrenOf(Pointers(s1), parent) :
               s1.fst[i].name # StoredName(name)
    PROVE  SiblingNamesUnique(s2)
<1> DEFINE g == Pointers(s1)
           h == Pointers(s2)
<1>1. /\ IsFstTree(s2) /\ FromRoot(h) \subseteq FromRoot(g)
      /\ \A i \in FromRoot(g) \ {index} : SameEntry(s1, s2, i)
      /\ s2.fst[index].type = s1.fst[index].type
      /\ s2.fst[index].name = StoredName(name)
  BY DEF Moved
<1> SUFFICES ASSUME NEW e \in LiveDirectories(s2), NEW i \in Children(s2, e),
                    NEW j \in Children(s2, e), s2.fst[i].name = s2.fst[j].name
             PROVE  i = j
  BY DEF SiblingNamesUnique
<1>2. e \in FromRoot(h) /\ IsDirectory(s2.fst[e])
  BY <1>1, TreeFacts DEF LiveDirectories
<1>3. e \in FromRoot(g) /\ IsDirectory(s1.fst[e]) /\ e \in LiveDirectories(s1)
  BY <1>1, <1>2, TreeFacts DEF SameEntry, IsDirectory, LiveDirectories
<1>4. /\ Children(s1, e) = ChildrenOf(g, e) /\ Children(s2, e) = ChildrenOf(h, e)
      /\ Children(s1, e) \subseteq FromRoot(g)
  BY <1>1, <1>2, <1>3, TreeFacts
<1>5. {i, j} \subseteq IF e = parent THEN {index} \cup Children(s1, e)
                                    ELSE Children(s1, e) \ {index}
  BY <1>3, <1>4 DEF Moved
<1> HIDE DEF g, h
<1>6. \A c \in Children(s1, e) \ {index} : s2.fst[c].name = s1.fst[c].name
  BY <1>1, <1>4 DEF SameEntry
<1>7. \A c, d \in Children(s1, e) : s1.fst[c].name = s1.fst[d].name => c = d
  BY <1>3 DEF SiblingNamesUnique
<1>8. CASE e # parent
  BY <1>5, <1>6, <1>7, <1>8
<1>9. CASE e = parent
  <2>1. \A c \in Children(s1, e) : s1.fst[c].name # StoredName(name)
    BY <1>4, <1>9 DEF g
  <2> QED  BY <1>1, <1>5, <1>6, <1>7, <1>9, <2>1
<1> QED  BY <1>8, <1>9

LEMMA MovingKeepsListings ==
    ASSUME NEW s1, NEW s2, NEW index, NEW parent, NEW name, IsFstTree(s1),
           Moved(s1, s2, index, parent, name),
           NEW old_parent \in FromRoot(Pointers(s1)),
           index \in ChildrenOf(Pointers(s1), old_parent)
    PROVE  KeepsListings(s1, s2, {old_parent, parent})
<1> DEFINE g == Pointers(s1)
           h == Pointers(s2)
<1> SUFFICES ASSUME NEW d \in (LiveDirectories(s1) \cap LiveDirectories(s2))
                                  \ {old_parent, parent}
             PROVE  Listing(s2, d) = Listing(s1, d)
  BY DEF KeepsListings
<1>1. /\ IsTree(g) /\ FromRoot(g) \subseteq FstIndices /\ d \in FromRoot(g)
      /\ IsDirectory(s1.fst[d]) /\ IsDirectory(s2.fst[d])
  BY TreeFacts DEF LiveDirectories
<1>2. index \notin ChildrenOf(g, d)
  BY <1>1, OneParent
<1>3. ChildrenOf(h, d) = ChildrenOf(g, d)
  BY <1>1, <1>2 DEF Moved
<1>4. ChildrenOf(g, d) \subseteq FromRoot(g)
  BY <1>1, TreeFacts
<1>5. \A i \in ChildrenOf(g, d) : s2.fst[i].name = s1.fst[i].name
  BY <1>2, <1>4 DEF Moved, SameEntry
<1> HIDE DEF g, h
<1> QED  BY <1>1, <1>3, <1>5, SameListing DEF g, h

-----------------------------------------------------------------------------
(* Paths.  GetFstIndex walks from the root to the entry of a path.         *)

Step(sb, path, index, n) ==
    IF index \in FstIndices THEN ChildIndex(sb, index, path[n]) ELSE NIL

\* The walk of GetFstIndex along the path.
Walks(sb, path, walk) ==
    walk = [n \in 0..Len(path) |->
               IF n = 0 THEN 0
               ELSE IF walk[n - 1] \in FstIndices
                    THEN ChildIndex(sb, walk[n - 1], path[n])
                    ELSE NIL]

LEMMA WalkExists ==
    ASSUME NEW sb, NEW path, Len(path) \in Nat
    PROVE  \E walk : Walks(sb, path, walk)
<1> DEFINE values == FstIndices \cup {NIL}
           step   == [v \in values |-> [n \in Nat |-> Step(sb, path, v, n)]]
           last   == Len(path)
<1>1. 0 \in values /\ step \in [values -> [Nat -> values]] /\ last \in Nat
  BY RootInTree, ChildIndexType DEF Step
<1> DEFINE start == 0
<1>2. PICK f \in [Nat -> values] : Loop(f, start, step, last)
  <2>1. start \in values
    BY <1>1
  <2> HIDE DEF values, step, last, start
  <2> QED  BY <1>1, <2>1, LoopExists
<1>3. \A i \in 1..Len(path) : f[i] = Step(sb, path, f[i - 1], i)
  <2> SUFFICES ASSUME NEW i \in 1..last PROVE f[i] = Step(sb, path, f[i - 1], i)
    OBVIOUS
  <2>1. i \in Nat /\ i - 1 \in Nat
    BY <1>1
  <2>2. f[i - 1] \in values
    <3> HIDE DEF values
    <3> QED  BY <1>2, <2>1
  <2>3. step[f[i - 1]][i] = Step(sb, path, f[i - 1], i)
    BY <2>1, <2>2
  <2>4. f[i] = step[f[i - 1]][i]
    BY <1>2 DEF Loop
  <2> QED  BY <2>3, <2>4
<1> DEFINE walk == [n \in 0..Len(path) |-> f[n]]
<1>4. \A n \in 0..Len(path) :
         walk[n] = IF n = 0 THEN 0 ELSE Step(sb, path, walk[n - 1], n)
  <2> SUFFICES ASSUME NEW n \in 0..Len(path)
               PROVE  walk[n] = IF n = 0 THEN 0
                                ELSE Step(sb, path, walk[n - 1], n)
    OBVIOUS
  <2>1. CASE n = 0
    BY <1>2, <2>1 DEF Loop
  <2>2. CASE n # 0
    <3>1. n \in 1..Len(path) /\ n - 1 \in 0..Len(path)
      BY <2>2
    <3>2. walk[n - 1] = f[n - 1] /\ walk[n] = f[n]
      BY <3>1
    <3> QED  BY <1>3, <2>2, <3>1, <3>2
  <2> QED  BY <2>1, <2>2
<1>5. DOMAIN walk = 0..Len(path) /\ walk = [n \in DOMAIN walk |-> walk[n]]
  OBVIOUS
<1>6. Walks(sb, path, walk)
  <2> HIDE DEF walk
  <2> QED  BY <1>4, <1>5 DEF Walks, Step
<1> QED  BY <1>6

LEMMA LookupWalks ==
    ASSUME NEW sb, NEW path, Len(path) \in Nat
    PROVE  \E walk : /\ Walks(sb, path, walk)
                     /\ GetFstIndex(sb, path) =
                           IF walk[Len(path)] \in FstIndices
                           THEN walk[Len(path)] ELSE NIL
<1> DEFINE walk == CHOOSE w : Walks(sb, path, w)
<1>1. Walks(sb, path, walk)
  BY WalkExists
<1>2. GetFstIndex(sb, path) = IF walk[Len(path)] \in FstIndices
                              THEN walk[Len(path)] ELSE NIL
  BY DEF GetFstIndex, Walks
<1> QED  BY <1>1, <1>2

Components == Names \cup LongNames

\* The entry that the first n components lead to.
At(sb, path, n) == GetFstIndex(sb, SubSeq(path, 1, n))

LEMMA PrefixFacts ==
    ASSUME NEW path \in Seq(Components), NEW n \in 0..Len(path)
    PROVE  /\ Len(path) \in Nat /\ SubSeq(path, 1, n) \in Seq(Components)
           /\ Len(SubSeq(path, 1, n)) = n
           /\ \A i \in 1..n : SubSeq(path, 1, n)[i] = path[i]
<1>1. Len(path) \in Nat /\ \A i \in 1..n : path[i] \in Components
  OBVIOUS
<1>2. /\ SubSeq(path, 1, n) \in Seq(Components)
      /\ Len(SubSeq(path, 1, n)) = IF 1 <= n THEN n - 1 + 1 ELSE 0
      /\ \A i \in 1..(n - 1 + 1) : SubSeq(path, 1, n)[i] = path[1 + i - 1]
  BY <1>1, SubSeqProperties
<1> QED  BY <1>1, <1>2

\* The walk along a path begins with the walks along its prefixes.
LEMMA WalkAt ==
    ASSUME NEW sb, NEW path \in Seq(Components), NEW walk,
           Walks(sb, path, walk), NEW n \in 0..Len(path)
    PROVE  At(sb, path, n) = walk[n]
<1> DEFINE p == SubSeq(path, 1, n)
<1>1. /\ Len(path) \in Nat /\ Len(p) = n /\ n \in Nat
      /\ \A i \in 1..n : p[i] = path[i]
  BY PrefixFacts
<1>2. PICK w : /\ Walks(sb, p, w)
               /\ GetFstIndex(sb, p) = IF w[Len(p)] \in FstIndices
                                       THEN w[Len(p)] ELSE NIL
  BY <1>1, LookupWalks
<1> HIDE DEF p
<1>3. \A i \in 0..n : w[i] = IF i = 0 THEN 0
                             ELSE IF w[i - 1] \in FstIndices
                                  THEN ChildIndex(sb, w[i - 1], p[i]) ELSE NIL
  BY <1>1, <1>2 DEF Walks
<1>4. \A i \in 0..Len(path) :
         walk[i] = IF i = 0 THEN 0
                   ELSE IF walk[i - 1] \in FstIndices
                        THEN ChildIndex(sb, walk[i - 1], path[i]) ELSE NIL
  BY <1>1 DEF Walks
<1>5. \A i \in 0..n : w[i] = walk[i]
  <2>1. w[0] = walk[0] /\ n \in Nat
    BY <1>1, <1>3, <1>4
  <2>2. \A i \in 1..n : w[i - 1] = walk[i - 1] => w[i] = walk[i]
    <3> SUFFICES ASSUME NEW i \in 1..n, w[i - 1] = walk[i - 1]
                 PROVE  w[i] = walk[i]
      OBVIOUS
    <3>1. i \in 0..n /\ i \in 0..Len(path) /\ i # 0 /\ p[i] = path[i]
      BY <1>1
    <3> QED  BY <1>3, <1>4, <3>1
  <2> QED  BY <2>1, <2>2, LoopsAgree
<1>6. w[n] = walk[n] /\ w[n] \in FstIndices \cup {NIL}
  BY <1>1, <1>3, <1>5, ChildIndexType, RootInTree
<1> QED  BY <1>1, <1>2, <1>6 DEF At, p

\* GetFstIndex looks one component after the other up.
LEMMA PathLookup ==
    ASSUME NEW sb, NEW path \in Seq(Components)
    PROVE  /\ At(sb, path, 0) = 0 /\ At(sb, path, Len(path)) = GetFstIndex(sb, path)
           /\ \A n \in 0..Len(path) : At(sb, path, n) \in FstIndices \cup {NIL}
           /\ \A n \in 1..Len(path) :
                 At(sb, path, n) = IF At(sb, path, n - 1) = NIL THEN NIL
                                   ELSE ChildIndex(sb, At(sb, path, n - 1), path[n])
<1>1. Len(path) \in Nat
  OBVIOUS
<1>2. PICK walk : Walks(sb, path, walk)
  BY <1>1, WalkExists
<1>3. \A n \in 0..Len(path) : At(sb, path, n) = walk[n]
  BY <1>2, WalkAt
<1>4. \A i \in 0..Len(path) :
         walk[i] = IF i = 0 THEN 0
                   ELSE IF walk[i - 1] \in FstIndices
                        THEN ChildIndex(sb, walk[i - 1], path[i]) ELSE NIL
  BY <1>1, <1>2 DEF Walks
<1>5. \A n \in 0..Len(path) : At(sb, path, n) \in FstIndices \cup {NIL}
  BY GetFstIndexType DEF At
<1>6. \A n \in 1..Len(path) : n \in 0..Len(path) /\ n - 1 \in 0..Len(path) /\ n # 0
  BY <1>1
<1>7. SubSeq(path, 1, Len(path)) = path
  BY SubSeqFull
<1>8. 0 \in 0..Len(path)
  BY <1>1
<1> QED  BY <1>3, <1>4, <1>5, <1>6, <1>7, <1>8, NilIsNoIndex DEF At

\* What a lookup finds is a child of that name, and no long name is found.
LEMMA ChildFound ==
    ASSUME NEW sb, NEW parent, NEW name, ChildIndex(sb, parent, name) # NIL
    PROVE  /\ ChildIndex(sb, parent, name) \in Children(sb, parent)
           /\ sb.fst[ChildIndex(sb, parent, name)].name = name
           /\ name \notin LongNames
BY DEF ChildIndex

\* A lookup that finds nothing has seen all the children.
LEMMA NoSuchChild ==
    ASSUME NEW sb, NEW parent, NEW name, name \notin LongNames,
           ChildIndex(sb, parent, name) = NIL,
           \A i, j \in Children(sb, parent) :
               sb.fst[i].name = sb.fst[j].name => i = j
    PROVE  \A i \in Children(sb, parent) : sb.fst[i].name # name
<1> DEFINE matches == {i \in Children(sb, parent) : sb.fst[i].name = name}
           first   == {i \in matches : matches \subseteq Siblings(sb, i)}
<1> SUFFICES ASSUME NEW i \in matches PROVE FALSE
  OBVIOUS
<1>1. matches = {i}
  OBVIOUS
<1>2. i \in FstIndices
  BY ChildrenType
<1>3. i \in Siblings(sb, i)
  BY <1>2, ReachableIsClosed DEF Siblings
<1>4. first # {} /\ first \subseteq FstIndices
  BY <1>1, <1>3, ChildrenType
<1>5. ChildIndex(sb, parent, name) = CHOOSE j \in first : TRUE
  BY <1>4 DEF ChildIndex
<1> HIDE DEF first
<1> QED  BY <1>4, <1>5, NilIsNoIndex

\* No component of the path but the last is a file.
AvoidsFiles(sb, path) ==
    \A n \in 1..(Len(path) - 1) :
        At(sb, path, n) # NIL => ~IsFile(sb.fst[At(sb, path, n)])

LEMMA NotThroughFile ==
    ASSUME NEW path, ~ThroughFile(path)
    PROVE  AvoidsFiles(superblock, path)
BY DEF ThroughFile, AvoidsFiles, At

\* Such a path leads down the tree, from one directory to the next.
LEMMA WalkStaysInTree ==
    ASSUME NEW sb \in Superblock, IsFstTree(sb), NEW path \in Seq(Components),
           AvoidsFiles(sb, path), NEW n \in 0..Len(path), At(sb, path, n) # NIL
    PROVE  /\ At(sb, path, n) \in FromRoot(Pointers(sb))
           /\ n # Len(path) => IsDirectory(sb.fst[At(sb, path, n)])
           /\ n # 0 => At(sb, path, n - 1) # NIL
<1> DEFINE OK(m) == At(sb, path, m) # NIL =>
                       /\ At(sb, path, m) \in FromRoot(Pointers(sb))
                       /\ m # Len(path) => IsDirectory(sb.fst[At(sb, path, m)])
           bad == {m \in 0..Len(path) : ~OK(m)}
<1>1. Len(path) \in Nat /\ At(sb, path, 0) = 0
  BY PathLookup
<1>2. \A m \in 1..Len(path) :
         At(sb, path, m) = IF At(sb, path, m - 1) = NIL THEN NIL
                           ELSE ChildIndex(sb, At(sb, path, m - 1), path[m])
  BY PathLookup
<1>3. bad = {}
  <2> SUFFICES ASSUME bad # {} PROVE FALSE
    OBVIOUS
  <2>1. bad \in SUBSET Nat /\ bad \subseteq 0..Len(path)
    BY <1>1
  <2>2. PICK m \in bad : \A j \in bad : m <= j
    <3> HIDE DEF bad
    <3> QED  BY <2>1, LeastIsMember
  <2>3. m # 0
    BY <1>1, <2>2, TreeFacts DEF IsFstTree
  <2>4. m \in 1..Len(path) /\ m - 1 \in 0..Len(path) /\ m - 1 \notin bad
        /\ m - 1 # Len(path)
    <3> HIDE DEF bad
    <3> QED  BY <1>1, <2>1, <2>2, <2>3
  <2> DEFINE d == At(sb, path, m - 1)
             i == At(sb, path, m)
  <2>5. i # NIL /\ d # NIL /\ i = ChildIndex(sb, d, path[m])
    BY <1>2, <2>2, <2>4
  <2>6. d \in FromRoot(Pointers(sb)) /\ IsDirectory(sb.fst[d])
    BY <2>4, <2>5
  <2>7. i \in FromRoot(Pointers(sb))
    <3> HIDE DEF d, i
    <3> QED  BY <2>5, <2>6, ChildFound, TreeFacts
  <2>8. i \in FstIndices /\ sb.fst[i].type \in EntryType /\ sb.fst[i].type # "none"
    <3> HIDE DEF d, i
    <3> QED  BY <2>7, TreeFacts DEF IsFstTree, Superblock, FstEntry
  <2>9. m # Len(path) => IsDirectory(sb.fst[i])
    <3>1. m # Len(path) => m \in 1..(Len(path) - 1)
      BY <1>1, <2>4
    <3>2. m # Len(path) => ~IsFile(sb.fst[i])
      BY <2>5, <3>1 DEF AvoidsFiles
    <3> HIDE DEF i
    <3> QED  BY <2>8, <3>2 DEF IsFile, IsDirectory, EntryType
  <2> QED  BY <2>2, <2>7, <2>9
<1>4. n # 0 => n \in 1..Len(path)
  BY <1>1
<1> QED  BY <1>2, <1>3, <1>4

\* Each component is the name of a child of the entry before it.
LEMMA WalkStep ==
    ASSUME NEW sb \in Superblock, IsFstTree(sb), NEW path \in Seq(Components),
           AvoidsFiles(sb, path), NEW n \in 1..Len(path), At(sb, path, n) # NIL
    PROVE  LET d == At(sb, path, n - 1)
               i == At(sb, path, n)
           IN  /\ d # NIL /\ d \in FromRoot(Pointers(sb))
               /\ IsDirectory(sb.fst[d])
               /\ i \in Children(sb, d) /\ i \in ChildrenOf(Pointers(sb), d)
               /\ i = ChildIndex(sb, d, path[n])
               /\ sb.fst[i].name = path[n] /\ path[n] \notin LongNames
<1> DEFINE d == At(sb, path, n - 1)
           i == At(sb, path, n)
<1>1. n \in 0..Len(path) /\ n - 1 \in 0..Len(path) /\ n # 0 /\ n - 1 # Len(path)
  OBVIOUS
<1>2. d # NIL
  BY <1>1, WalkStaysInTree
<1>3. d \in FromRoot(Pointers(sb)) /\ IsDirectory(sb.fst[d])
  BY <1>1, <1>2, WalkStaysInTree
<1>4. i = ChildIndex(sb, d, path[n])
  BY <1>2, PathLookup
<1>5. i \in Children(sb, d) /\ sb.fst[i].name = path[n] /\ path[n] \notin LongNames
  BY <1>4, ChildFound
<1>6. Children(sb, d) = ChildrenOf(Pointers(sb), d)
  BY <1>3, TreeFacts
<1> QED  BY <1>2, <1>3, <1>4, <1>5, <1>6

\* Two paths to one entry are the same path.
LEMMA PathsAreUnique ==
    ASSUME NEW sb \in Superblock, IsFstTree(sb),
           NEW p \in Seq(Components), AvoidsFiles(sb, p),
           NEW q \in Seq(Components), AvoidsFiles(sb, q),
           NEW n \in 0..Len(p), NEW m \in 0..Len(q),
           At(sb, p, n) = At(sb, q, m), At(sb, p, n) # NIL
    PROVE  n = m /\ \A k \in 1..n : p[k] = q[k]
<1> DEFINE g == Pointers(sb)
           Differ(i, j) == ~(i = j /\ \A k \in 1..i : p[k] = q[k])
           bad == {i \in 0..Len(p) : \E j \in 0..Len(q) :
                      /\ At(sb, p, i) = At(sb, q, j) /\ At(sb, p, i) # NIL
                      /\ Differ(i, j)}
<1>0. Len(p) \in Nat /\ Len(q) \in Nat
  OBVIOUS
<1>1. At(sb, p, 0) = 0 /\ At(sb, q, 0) = 0
  BY PathLookup
<1>2. IsTree(g)
  BY TreeFacts
<1>3. ASSUME NEW r \in Seq(Components), AvoidsFiles(sb, r), NEW i \in 1..Len(r)
      PROVE  At(sb, r, i) # 0
  <2> SUFFICES ASSUME At(sb, r, i) = 0 PROVE FALSE
    OBVIOUS
  <2>1. At(sb, r, i) # NIL
    BY RootInTree, NilIsNoIndex
  <2> QED  BY <1>2, <1>3, <2>1, WalkStep, ParentOutside
<1>4. bad = {}
  <2> SUFFICES ASSUME bad # {} PROVE FALSE
    OBVIOUS
  <2>1. bad \in SUBSET Nat /\ bad \subseteq 0..Len(p)
    BY <1>0
  <2>2. PICK i \in bad : \A j \in bad : i <= j
    <3> HIDE DEF bad
    <3> QED  BY <2>1, LeastIsMember
  <2>3. PICK j \in 0..Len(q) : /\ At(sb, p, i) = At(sb, q, j)
                               /\ At(sb, p, i) # NIL /\ Differ(i, j)
    BY <2>2
  <2>4. i \in 0..Len(p) /\ (i \in bad => ~\E k \in bad : k < i)
    <3> HIDE DEF bad
    <3> QED  BY <1>0, <2>1, <2>2
  <2>5. i # 0 /\ j # 0
    <3>1. i = 0 => j = 0
      BY <1>0, <1>1, <1>3, <2>3
    <3>2. j = 0 => i = 0
      BY <1>0, <1>1, <1>3, <2>3, <2>4
    <3>3. ~(i = 0 /\ j = 0)
      BY <2>3
    <3> QED  BY <3>1, <3>2, <3>3
  <2>6. i \in 1..Len(p) /\ j \in 1..Len(q)
        /\ i - 1 \in 0..Len(p) /\ j - 1 \in 0..Len(q)
    BY <1>0, <2>3, <2>4, <2>5
  <2> DEFINE x == At(sb, p, i)
             d == At(sb, p, i - 1)
             e == At(sb, q, j - 1)
  <2>7. /\ d # NIL /\ d \in FromRoot(g) /\ x \in ChildrenOf(g, d)
        /\ sb.fst[x].name = p[i]
    BY <2>3, <2>6, WalkStep
  <2>8. /\ e # NIL /\ e \in FromRoot(g) /\ x \in ChildrenOf(g, e)
        /\ sb.fst[x].name = q[j]
    BY <2>3, <2>6, WalkStep
  <2>9. d = e
    <3> HIDE DEF d, e, x, g
    <3> QED  BY <1>2, <2>7, <2>8, OneParent
  <2>10. i - 1 \notin bad
    <3> HIDE DEF bad
    <3> QED  BY <1>0, <2>2, <2>4
  <2>11. ~Differ(i - 1, j - 1)
    BY <2>6, <2>7, <2>9, <2>10
  <2>12. i = j
    BY <1>0, <2>6, <2>11
  <2>13. \A k \in 1..i : k = i \/ k \in 1..(i - 1)
    BY <1>0, <2>6
  <2>14. \A k \in 1..i : p[k] = q[k]
    BY <2>7, <2>8, <2>11, <2>12, <2>13
  <2> QED  BY <2>3, <2>12, <2>14
<1> QED  BY <1>4

\* A path to an entry below x leads over x.
LEMMA PathLeadsOver ==
    ASSUME NEW sb \in Superblock, IsFstTree(sb), NEW path \in Seq(Components),
           AvoidsFiles(sb, path), NEW n \in 0..Len(path),
           NEW x \in FromRoot(Pointers(sb)),
           At(sb, path, n) \in Below(Pointers(sb), x)
    PROVE  \E m \in 0..Len(path) : m < n /\ At(sb, path, m) = x
<1> DEFINE g == Pointers(sb)
           bad == {m \in 0..n : At(sb, path, m) \in Below(g, x)}
<1>0. Len(path) \in Nat /\ n \in Nat
  OBVIOUS
<1>1. IsTree(g) /\ At(sb, path, 0) = 0
  BY TreeFacts, PathLookup
<1>2. bad # {} /\ bad \in SUBSET Nat /\ bad \subseteq 0..n
  BY <1>0
<1>3. PICK m \in bad : \A j \in bad : m <= j
  <2> HIDE DEF bad
  <2> QED  BY <1>2, LeastIsMember
<1>4. m # 0
  BY <1>1, <1>3, BelowInTree
<1>5. /\ m \in 1..Len(path) /\ m - 1 \in 0..n /\ m - 1 \notin bad /\ m - 1 < n
      /\ m - 1 \in 0..Len(path)
  <2> HIDE DEF bad
  <2> QED  BY <1>0, <1>2, <1>3, <1>4
<1> DEFINE d == At(sb, path, m - 1)
           i == At(sb, path, m)
<1>6. i \in Below(g, x) /\ i # NIL
  BY <1>3, BelowIsClosed, NilIsNoIndex
<1>7. d \in FromRoot(g) /\ i \in ChildrenOf(g, d)
  BY <1>5, <1>6, WalkStep
<1>8. d \in Within(g, x)
  <2> HIDE DEF d, i, g
  <2> QED  BY <1>1, <1>6, <1>7, ChildrenOutside DEF g
<1>9. d \notin Below(g, x)
  BY <1>5
<1>10. d = x
  BY <1>8, <1>9 DEF Within
<1> QED  BY <1>5, <1>10

-----------------------------------------------------------------------------
(* The namespace calls.                                                    *)

\* What a call finds out about the last component of a path and its parent.
LEMMA ParentOfPath ==
    ASSUME NEW sb \in Superblock, IsFstTree(sb), NEW path \in Paths, path # <<>>,
           AvoidsFiles(sb, path), GetFstIndex(sb, SplitPath(path).parent) # NIL
    PROVE  LET name   == SplitPath(path).file_name
               parent == GetFstIndex(sb, SplitPath(path).parent)
               index  == ChildIndex(sb, parent, name)
           IN  /\ path \in Seq(Components) /\ Len(path) \in 1..Len(path)
               /\ name = path[Len(path)]
               /\ parent \in FromRoot(Pointers(sb)) /\ parent \in FstIndices
               /\ IsDirectory(sb.fst[parent])
               /\ index = At(sb, path, Len(path))
               /\ index # NIL =>
                     /\ index \in Children(sb, parent) /\ index \in FstIndices
                     /\ index \in FromRoot(Pointers(sb))
                     /\ sb.fst[index].name = name /\ name \notin LongNames
<1> DEFINE name   == SplitPath(path).file_name
           parent == GetFstIndex(sb, SplitPath(path).parent)
           index  == ChildIndex(sb, parent, name)
           n      == Len(path)
<1>1. path \in Seq(Components)
  BY FileSystemAssumption DEF FileSystemAssumption, Components
<1>2. n \in 1..n /\ n - 1 \in 0..n /\ n - 1 # n
  BY <1>1
<1>3. name = path[n] /\ parent = At(sb, path, n - 1)
  BY DEF SplitPath, At
<1>4. parent \in FromRoot(Pointers(sb)) /\ IsDirectory(sb.fst[parent])
  BY <1>1, <1>2, <1>3, WalkStaysInTree
<1>5. index = At(sb, path, n)
  BY <1>1, <1>2, <1>3, PathLookup
<1>6. index # NIL =>
         /\ index \in Children(sb, parent)
         /\ sb.fst[index].name = name /\ name \notin LongNames
  BY ChildFound
<1> HIDE DEF name, parent, index
<1> QED  BY <1>1, <1>2, <1>3, <1>4, <1>5, <1>6, TreeFacts DEF name, parent, index

\* What Create makes: a new first child of the directory that the path leads to
\* before its last component.
LEMMA CreatedChild ==
    ASSUME TypeOK, IsFstTree(superblock), NEW fd \in HandleIds,
           NEW path \in Paths, NEW type \in {"file", "directory"},
           NEW perm \in Permissions, CreateCode(fd, path, type) = "Success",
           ~ThroughFile(path),
           NEW parent, parent = GetFstIndex(superblock, SplitPath(path).parent),
           NEW child, child = GetUnusedFstIndex(superblock),
           NEW new, new = Created(fd, path, type, perm)
    PROVE  /\ parent \in FromRoot(Pointers(superblock)) /\ parent \in FstIndices
           /\ IsDirectory(superblock.fst[parent])
           /\ ChildIndex(superblock, parent, path[Len(path)]) = NIL
           /\ child \in FstIndices /\ superblock.fst[child].type = "none"
           /\ new.fat = superblock.fat
           /\ new.fst[child].name = StoredName(path[Len(path)])
           /\ new.fst[child].type = type
           /\ type = "file" => new.fst[child].sub = CLUSTER_LAST_IN_CHAIN
           /\ new.fst[child].size = 0
           /\ \A i \in FstIndices \ {parent, child} :
                 new.fst[i] = superblock.fst[i]
           /\ IsFstTree(new)
           /\ Links(Pointers(superblock), Pointers(new), child, parent)
           /\ \A i \in FstIndices \ {child} : SameEntry(superblock, new, i)
<1> DEFINE split == SplitPath(path)
<1>1. /\ path # <<>> /\ parent # NIL /\ child # NIL
      /\ ChildIndex(superblock, parent, split.file_name) = NIL
  BY DEF CreateCode, IsValidNonRootPath
<1>2. superblock \in Superblock /\ AvoidsFiles(superblock, path)
  BY NotThroughFile DEF TypeOK
<1>3. /\ parent \in FromRoot(Pointers(superblock)) /\ parent \in FstIndices
      /\ IsDirectory(superblock.fst[parent])
      /\ split.file_name = path[Len(path)]
  BY <1>1, <1>2, ParentOfPath
<1>4. child \in FstIndices /\ superblock.fst[child].type = "none"
  BY <1>1, GetUnusedFstIndexType
<1>5. PICK entry \in FstEntry :
         /\ entry.name = StoredName(split.file_name)
         /\ entry.type = type
         /\ entry.sib = superblock.fst[parent].sub
         /\ entry.sub = IF type = "file" THEN CLUSTER_LAST_IN_CHAIN ELSE NIL
         /\ entry.size = 0 /\ new = NewChild(superblock, parent, child, entry)
  BY CreatedEntry
<1> HIDE DEF split
<1>6. entry.type # "none" /\ (IsDirectory(entry) => entry.sub = NIL)
  BY <1>5 DEF IsDirectory
<1>7. /\ IsFstTree(new) /\ new.fst[child] = entry
      /\ Links(Pointers(superblock), Pointers(new), child, parent)
      /\ \A i \in FstIndices \ {child} : SameEntry(superblock, new, i)
      /\ \A i \in FstIndices \ {parent, child} : new.fst[i] = superblock.fst[i]
  BY <1>2, <1>3, <1>4, <1>5, <1>6, CreateKeepsTree
<1>8. new.fat = superblock.fat
  BY <1>2, <1>5 DEF NewChild, Superblock
<1> QED  BY <1>1, <1>3, <1>4, <1>5, <1>7, <1>8

LEMMA CreatedTree ==
    ASSUME TypeOK, IsFstTree(superblock), NEW fd \in HandleIds,
           NEW path \in Paths, NEW type \in {"file", "directory"},
           NEW perm \in Permissions, CreateCode(fd, path, type) = "Success",
           ~ThroughFile(path)
    PROVE  LET new == Created(fd, path, type, perm)
           IN  /\ IsFstTree(new) /\ Live(superblock) \subseteq Live(new)
               /\ KeepsListings(superblock, new,
                                {GetFstIndex(superblock, SplitPath(path).parent)})
               /\ /\ SiblingNamesUnique(superblock)
                  /\ path[Len(path)] \notin LongNames
                  => SiblingNamesUnique(new)
<1> DEFINE parent == GetFstIndex(superblock, SplitPath(path).parent)
           child  == GetUnusedFstIndex(superblock)
           new    == Created(fd, path, type, perm)
           name   == path[Len(path)]
<1>1. superblock \in Superblock
  BY DEF TypeOK
<1>2. /\ parent \in FromRoot(Pointers(superblock)) /\ parent \in FstIndices
      /\ IsDirectory(superblock.fst[parent])
      /\ ChildIndex(superblock, parent, name) = NIL
      /\ child \in FstIndices
      /\ new.fst[child].name = StoredName(name)
      /\ IsFstTree(new)
      /\ Links(Pointers(superblock), Pointers(new), child, parent)
      /\ \A i \in FstIndices \ {child} : SameEntry(superblock, new, i)
  BY CreatedChild
<1> HIDE DEF new, parent, child
<1>3. Live(superblock) \subseteq Live(new)
  BY <1>2, LinkTree, TreeFacts
<1>4. ASSUME SiblingNamesUnique(superblock), name \notin LongNames
      PROVE  SiblingNamesUnique(new)
  <2>1. parent \in LiveDirectories(superblock)
    BY <1>2, TreeFacts DEF LiveDirectories
  <2>2. \A i, j \in Children(superblock, parent) :
           superblock.fst[i].name = superblock.fst[j].name => i = j
    BY <1>4, <2>1 DEF SiblingNamesUnique
  <2>3. \A i \in Children(superblock, parent) : superblock.fst[i].name # name
    BY <1>2, <1>4, <2>2, NoSuchChild
  <2>4. \A i \in Children(superblock, parent) :
           superblock.fst[i].name # new.fst[child].name
    BY <1>2, <1>4, <2>3 DEF StoredName
  <2> QED  BY <1>2, <1>4, <2>4, CreateKeepsNames
<1>5. KeepsListings(superblock, new, {parent})
  BY <1>2, CreateKeepsListings
<1> QED  BY <1>2, <1>3, <1>4, <1>5 DEF new, parent, name

\* What a call deletes is not open.
LEMMA NothingOpenWithin ==
    ASSUME TypeOK, OpenFilesAreFiles, NEW index \in FstIndices, ~InUse(index),
           NEW fd \in Fds, NEW i \in FstIndices, Opens(fd, i)
    PROVE  i \notin Within(Pointers(superblock), index)
<1> DEFINE g == Pointers(superblock)
<1>1. i # index /\ IsFile(superblock.fst[i])
  BY OpenFileInUse
<1>2. CASE IsDirectory(superblock.fst[index])
  <2>1. Below(g, index) \subseteq
           Traversal(superblock, index, LAMBDA entry : ~IsFile(entry))
    BY <1>2, TraversalIsBelow, DeletionIsChecked
  <2>2. ~IsDirectoryInUse(superblock, index)
    BY <1>2 DEF InUse
  <2>3. i \notin Below(g, index)
    BY <1>1, <2>1, <2>2 DEF IsDirectoryInUse, IsFileOpened, Opens
  <2> QED  BY <1>1, <2>3 DEF Within
<1>3. CASE ~IsDirectory(superblock.fst[index])
  <2>1. g["sub"][index] = NIL
    BY <1>3, PointersOf
  <2> DEFINE none == FstIndices \ FstIndices
  <2>2. Below(g, index) \subseteq none
    <3>1. none \in SUBSET FstIndices /\ ClosedIn(g, none)
          /\ (g["sub"][index] \in FstIndices => g["sub"][index] \in none)
      BY <2>1, NilIsNoIndex DEF ClosedIn
    <3> HIDE DEF none, g
    <3> QED  BY <3>1, BelowIsLeast
  <2> QED  BY <1>1, <2>2 DEF Within
<1> QED  BY <1>2, <1>3

\* The entries of the open files stay in the tree.
KeepsOpenLive(sb) == \A fd \in Fds, i \in Live(superblock) :
    Opens(fd, i) => i \in Live(sb)

LEMMA DeletedTree ==
    ASSUME TypeOK, OpenFilesAreFiles, IsFstTree(superblock), NEW fd \in HandleIds,
           NEW path \in Paths, DeleteCode(fd, path) = "Success",
           ~ThroughFile(path)
    PROVE  LET parent  == GetFstIndex(superblock, SplitPath(path).parent)
               index   == ChildIndex(superblock, parent, SplitPath(path).file_name)
               removed == RemoveFstEntryFromChain(DeleteContents(index), parent,
                                                  index)
           IN  /\ removed.code = "Success"
               /\ IsFstTree(removed.sb) /\ KeepsOpenLive(removed.sb)
               /\ KeepsListings(superblock, removed.sb, {parent})
               /\ SiblingNamesUnique(superblock) => SiblingNamesUnique(removed.sb)
<1> DEFINE parent  == GetFstIndex(superblock, SplitPath(path).parent)
           index   == ChildIndex(superblock, parent, SplitPath(path).file_name)
           removed == RemoveFstEntryFromChain(DeleteContents(index), parent, index)
<1>1. path # <<>> /\ parent # NIL /\ index # NIL /\ Deletable(index)
  BY DEF DeleteCode, IsValidNonRootPath
<1>2. superblock \in Superblock /\ AvoidsFiles(superblock, path)
  BY NotThroughFile DEF TypeOK
<1>3. /\ parent \in FromRoot(Pointers(superblock))
      /\ IsDirectory(superblock.fst[parent])
      /\ index \in Children(superblock, parent) /\ index \in FstIndices
  BY <1>1, <1>2, ParentOfPath
<1> HIDE DEF parent, index
<1>4. removed.code = "Success" /\ Removed(superblock, removed.sb, index)
  BY <1>3, RemovalKeepsTree
<1> HIDE DEF removed
<1>5. SiblingNamesUnique(superblock) => SiblingNamesUnique(removed.sb)
  BY <1>4, RemovalKeepsNames
<1>6. KeepsOpenLive(removed.sb)
  <2>1. \A fd_2 \in Fds, i \in FstIndices :
           Opens(fd_2, i) => i \notin Within(Pointers(superblock), index)
    BY <1>1, <1>3, NothingOpenWithin DEF Deletable
  <2> QED  BY <1>4, <2>1, TreeFacts DEF KeepsOpenLive, Removed
<1>7. KeepsListings(superblock, removed.sb, {parent})
  BY <1>3, <1>4, TreeFacts, RemovalKeepsListings
<1> QED  BY <1>4, <1>5, <1>6, <1>7 DEF Removed, removed, parent, index

\* Rename when nothing is at the new path any more: s1 is the superblock after
\* that was deleted.
LEMMA MovedTree ==
    ASSUME TypeOK, IsFstTree(superblock), NEW s1 \in Superblock, IsFstTree(s1),
           NEW old_parent \in FromRoot(Pointers(s1)),
           IsDirectory(s1.fst[old_parent]), NEW index \in Children(s1, old_parent),
           NEW new_parent \in FromRoot(Pointers(s1)),
           IsDirectory(s1.fst[new_parent]), NEW name, StoredName(name) \in Names,
           Within(Pointers(s1), index) \subseteq
               Within(Pointers(superblock), index),
           \A fd \in Fds, i \in FstIndices :
               Opens(fd, i) => i \notin Within(Pointers(superblock), index),
           KeepsOpenLive(s1)
    PROVE  LET unlinked == RemoveFstEntryFromChain(s1, old_parent, index)
               new == Relinked(unlinked.sb, index, s1.fst[index], new_parent, name)
           IN  /\ unlinked.code = "Success"
               /\ Moved(s1, new, index, new_parent, name)
               /\ KeepsOpenLive(new)
<1> DEFINE unlinked == RemoveFstEntryFromChain(s1, old_parent, index)
           new == Relinked(unlinked.sb, index, s1.fst[index], new_parent, name)
<1>1. unlinked.code = "Success" /\ Moved(s1, new, index, new_parent, name)
  BY MovingKeepsTree
<1> HIDE DEF new, unlinked
<1>2. /\ Live(s1) = FromRoot(Pointers(s1))
      /\ Live(superblock) = FromRoot(Pointers(superblock))
      /\ FromRoot(Pointers(superblock)) \subseteq FstIndices
      /\ IsFstTree(new) /\ Live(new) = FromRoot(Pointers(new))
  BY <1>1, TreeFacts DEF Moved
<1>3. FromRoot(Pointers(s1)) \ Within(Pointers(s1), index)
         \subseteq FromRoot(Pointers(new))
  BY <1>1 DEF Moved
<1>4. KeepsOpenLive(new)
  BY <1>2, <1>3 DEF KeepsOpenLive
<1> QED  BY <1>1, <1>4 DEF new, unlinked

\* An entry that Rename replaces has the one that it moves neither as itself nor
\* below it, when the new path does not lead to a directory above the old one.
LEMMA ReplacedIsElsewhere ==
    ASSUME NEW sb \in Superblock, IsFstTree(sb),
           NEW p \in Seq(Components), AvoidsFiles(sb, p),
           NEW q \in Seq(Components), AvoidsFiles(sb, q),
           At(sb, p, Len(p)) # NIL, At(sb, q, Len(q)) # NIL,
           At(sb, p, Len(p)) # At(sb, q, Len(q)), ~IsProperPrefix(q, p)
    PROVE  At(sb, p, Len(p)) \notin Within(Pointers(sb), At(sb, q, Len(q)))
<1> DEFINE i == At(sb, p, Len(p))
           x == At(sb, q, Len(q))
           n == Len(q)
<1>1. Len(p) \in 0..Len(p) /\ n \in 0..n /\ n \in Nat
  OBVIOUS
<1>2. x \in FromRoot(Pointers(sb))
  BY <1>1, WalkStaysInTree
<1> SUFFICES ASSUME i \in Below(Pointers(sb), x) PROVE FALSE
  BY DEF Within
<1>3. PICK m \in 0..Len(p) : m < Len(p) /\ At(sb, p, m) = x
  BY <1>1, <1>2, PathLeadsOver
<1>4. n = m /\ \A k \in 1..n : q[k] = p[k]
  BY <1>1, <1>3, PathsAreUnique
<1>5. /\ SubSeq(p, 1, n) \in Seq(Components) /\ Len(SubSeq(p, 1, n)) = n
      /\ \A k \in 1..n : SubSeq(p, 1, n)[k] = p[k]
  BY <1>3, <1>4, PrefixFacts
<1>6. SubSeq(p, 1, n) = q
  BY <1>4, <1>5
<1> QED  BY <1>3, <1>4, <1>6 DEF IsProperPrefix

\* After the deletion of what Rename replaces, the entry that it moves and both
\* parents are where they were.
LEMMA ReplacedTree ==
    ASSUME TypeOK, OpenFilesAreFiles, IsFstTree(superblock),
           NEW old_parent \in FromRoot(Pointers(superblock)),
           IsDirectory(superblock.fst[old_parent]),
           NEW index \in Children(superblock, old_parent),
           NEW new_parent \in FromRoot(Pointers(superblock)),
           IsDirectory(superblock.fst[new_parent]),
           NEW new_index \in Children(superblock, new_parent),
           ~InUse(new_index), index \notin Within(Pointers(superblock), new_index)
    PROVE  LET replaced == RemoveFstEntryFromChain(DeleteContents(new_index),
                                                   new_parent, new_index)
               s1 == replaced.sb
               h  == Pointers(s1)
           IN  /\ replaced.code = "Success" /\ s1 \in Superblock
               /\ Removed(superblock, s1, new_index)
               /\ old_parent \in FromRoot(h) /\ IsDirectory(s1.fst[old_parent])
               /\ new_parent \in FromRoot(h) /\ IsDirectory(s1.fst[new_parent])
               /\ index \in Children(s1, old_parent)
               /\ Within(h, index) \subseteq Within(Pointers(superblock), index)
               /\ KeepsOpenLive(s1)
<1> DEFINE g == Pointers(superblock)
           replaced == RemoveFstEntryFromChain(DeleteContents(new_index),
                                               new_parent, new_index)
           s1 == replaced.sb
           h  == Pointers(s1)
<1>1. /\ replaced.code = "Success" /\ s1 \in Superblock
      /\ Removed(superblock, s1, new_index)
  BY RemovalKeepsTree
<1> HIDE DEF replaced, s1
<1>2. /\ IsTree(g) /\ FromRoot(g) \subseteq FstIndices
      /\ index \in ChildrenOf(g, old_parent) /\ index \in FromRoot(g)
      /\ new_index \in ChildrenOf(g, new_parent) /\ new_index \in FstIndices
      /\ Live(superblock) = FromRoot(g)
  BY TreeFacts
<1>3. /\ IsFstTree(s1) /\ FromRoot(h) = FromRoot(g) \ Within(g, new_index)
      /\ \A i \in FromRoot(h) : SameEntry(superblock, s1, i)
      /\ \A d \in FromRoot(h) :
            /\ ChildrenOf(h, d) \subseteq ChildrenOf(g, d)
            /\ Below(h, d) \subseteq Below(g, d)
  BY <1>1 DEF Removed
<1>4. old_parent \notin Within(g, new_index)
  <2>1. index \in Below(g, old_parent)
    BY <1>2, ChildrenAreBelow
  <2> SUFFICES ASSUME old_parent \in Within(g, new_index) PROVE FALSE
    OBVIOUS
  <2>2. Below(g, old_parent) \subseteq Below(g, new_index)
    BY BelowIsTransitive DEF Within
  <2> QED  BY <2>1, <2>2 DEF Within
<1>5. new_parent \notin Within(g, new_index)
  BY <1>2, ParentOutside
<1>6. /\ old_parent \in FromRoot(h) /\ IsDirectory(s1.fst[old_parent])
      /\ new_parent \in FromRoot(h) /\ IsDirectory(s1.fst[new_parent])
      /\ index \in FromRoot(h)
  BY <1>2, <1>3, <1>4, <1>5 DEF SameEntry, IsDirectory
<1>7. index \in Children(s1, old_parent)
  <2>1. index # 0
    BY <1>2, ParentOutside
  <2>2. PICK d \in FromRoot(h) : index \in ChildrenOf(h, d)
    BY <1>3, <1>6, <2>1, HasParent, TreeFacts
  <2>3. d \in FromRoot(g) /\ index \in ChildrenOf(g, d)
    BY <1>3, <2>2
  <2>4. d = old_parent
    BY <1>2, <2>3, OneParent
  <2> QED  BY <1>3, <1>6, <2>2, <2>4, TreeFacts
<1>8. Within(h, index) \subseteq Within(g, index)
  BY <1>3, <1>6 DEF Within
<1>9. KeepsOpenLive(s1)
  <2>1. \A fd \in Fds, i \in FstIndices :
           Opens(fd, i) => i \notin Within(g, new_index)
    BY <1>2, NothingOpenWithin
  <2>2. Live(s1) = FromRoot(h)
    BY <1>3, TreeFacts
  <2> QED  BY <1>2, <1>3, <2>1, <2>2 DEF KeepsOpenLive
<1> QED  BY <1>1, <1>6, <1>7, <1>8, <1>9 DEF replaced, s1

\* An entry that moves takes its new parent with it only when the new path is
\* below the old one.
LEMMA NewParentIsElsewhere ==
    ASSUME NEW sb \in Superblock, IsFstTree(sb),
           NEW p \in Seq(Components), AvoidsFiles(sb, p),
           NEW q \in Seq(Components), AvoidsFiles(sb, q), Len(q) \in 1..Len(q),
           At(sb, p, Len(p)) # NIL, At(sb, q, Len(q) - 1) # NIL,
           ~IsProperPrefix(p, q)
    PROVE  At(sb, q, Len(q) - 1) \notin Within(Pointers(sb), At(sb, p, Len(p)))
<1> DEFINE i == At(sb, q, Len(q) - 1)
           x == At(sb, p, Len(p))
           n == Len(p)
<1>1. /\ n \in 0..n /\ n \in Nat /\ Len(q) - 1 \in 0..Len(q)
      /\ Len(q) \in Nat
  OBVIOUS
<1>2. x \in FromRoot(Pointers(sb))
  BY <1>1, WalkStaysInTree
<1> SUFFICES ASSUME i \in Within(Pointers(sb), x) PROVE FALSE
  OBVIOUS
<1>3. PICK m \in 0..Len(q) : m < Len(q) /\ At(sb, q, m) = x
  <2>1. CASE i = x
    BY <1>1, <2>1
  <2>2. CASE i \in Below(Pointers(sb), x)
    <3>1. PICK m \in 0..Len(q) : m < Len(q) - 1 /\ At(sb, q, m) = x
      BY <1>1, <1>2, <2>2, PathLeadsOver
    <3> QED  BY <1>1, <3>1
  <2> QED  BY <2>1, <2>2 DEF Within
<1>4. n = m /\ \A k \in 1..n : p[k] = q[k]
  BY <1>1, <1>3, PathsAreUnique
<1>5. /\ SubSeq(q, 1, n) \in Seq(Components) /\ Len(SubSeq(q, 1, n)) = n
      /\ \A k \in 1..n : SubSeq(q, 1, n)[k] = q[k]
  BY <1>3, <1>4, PrefixFacts
<1>6. SubSeq(q, 1, n) = p
  BY <1>4, <1>5
<1> QED  BY <1>3, <1>4, <1>6 DEF IsProperPrefix

\* What Rename does first: it deletes what is at the new path, if anything is.
Replaced(parent, index) ==
    IF index = NIL
    THEN [code |-> "Success", sb |-> superblock]
    ELSE RemoveFstEntryFromChain(DeleteContents(index), parent, index)

\* What Rename finds at the two paths, and what it then makes of the superblock.
LEMMA RenamePlaces ==
    ASSUME TypeOK, IsFstTree(superblock), NEW fd \in HandleIds,
           NEW old_path \in Paths, NEW new_path \in Paths,
           RenameCode(fd, old_path, new_path) = "Success",
           ~ThroughFile(old_path), ~ThroughFile(new_path),
           ~IsProperPrefix(new_path, old_path)
    PROVE  LET old        == SplitPath(old_path)
               new        == SplitPath(new_path)
               old_parent == GetFstIndex(superblock, old.parent)
               new_parent == GetFstIndex(superblock, new.parent)
               index      == ChildIndex(superblock, old_parent, old.file_name)
               new_index  == ChildIndex(superblock, new_parent, new.file_name)
               name       == new.file_name
               replaced   == Replaced(new_parent, new_index)
               unlinked   == RemoveFstEntryFromChain(replaced.sb, old_parent, index)
               g          == Pointers(superblock)
           IN  /\ old_parent \in FromRoot(g)
               /\ IsDirectory(superblock.fst[old_parent])
               /\ new_parent \in FromRoot(g)
               /\ IsDirectory(superblock.fst[new_parent])
               /\ index \in Children(superblock, old_parent)
               /\ index \in FstIndices /\ ~InUse(index)
               /\ name = new_path[Len(new_path)] /\ StoredName(name) \in Names
               /\ new_index # NIL =>
                     /\ new_index \in Children(superblock, new_parent)
                     /\ superblock.fst[new_index].name = name
                     /\ Deletable(new_index)
                     /\ index \notin Within(g, new_index)
               /\ ~IsProperPrefix(old_path, new_path) =>
                     new_parent \notin Within(g, index)
               /\ Renamed(old_path, new_path) =
                     IF replaced.code # "Success" THEN replaced
                     ELSE IF unlinked.code # "Success" THEN unlinked
                     ELSE [code |-> "Success",
                           sb |-> Relinked(unlinked.sb, index,
                                           replaced.sb.fst[index], new_parent,
                                           name)]
<1> DEFINE old        == SplitPath(old_path)
           new        == SplitPath(new_path)
           old_parent == GetFstIndex(superblock, old.parent)
           new_parent == GetFstIndex(superblock, new.parent)
           index      == ChildIndex(superblock, old_parent, old.file_name)
           new_index  == ChildIndex(superblock, new_parent, new.file_name)
           name       == new.file_name
           replaced   == Replaced(new_parent, new_index)
           unlinked   == RemoveFstEntryFromChain(replaced.sb, old_parent, index)
           g          == Pointers(superblock)
<1>1. /\ old_path # <<>> /\ new_path # <<>>
      /\ old_parent # NIL /\ new_parent # NIL /\ index # NIL /\ ~InUse(index)
      /\ new_index # NIL => new_index # index /\ Deletable(new_index)
  BY DEF RenameCode, IsValidNonRootPath
<1>2. /\ superblock \in Superblock
      /\ AvoidsFiles(superblock, old_path) /\ AvoidsFiles(superblock, new_path)
  BY NotThroughFile DEF TypeOK
<1>3. /\ old_path \in Seq(Components)
      /\ old_parent \in FromRoot(g) /\ IsDirectory(superblock.fst[old_parent])
      /\ index = At(superblock, old_path, Len(old_path))
      /\ index \in Children(superblock, old_parent) /\ index \in FstIndices
  BY <1>1, <1>2, ParentOfPath
<1>4. /\ new_path \in Seq(Components) /\ name = new_path[Len(new_path)]
      /\ Len(new_path) \in 1..Len(new_path)
      /\ new_parent \in FromRoot(g) /\ IsDirectory(superblock.fst[new_parent])
      /\ new_index = At(superblock, new_path, Len(new_path))
      /\ new_index # NIL => /\ new_index \in Children(superblock, new_parent)
                            /\ superblock.fst[new_index].name = name
  BY <1>1, <1>2, ParentOfPath
<1>5. StoredName(name) \in Names
  BY <1>1, SplitPathType
<1>6. new_parent = At(superblock, new_path, Len(new_path) - 1)
  BY DEF SplitPath, At
<1>7. Renamed(old_path, new_path) =
         IF replaced.code # "Success" THEN replaced
         ELSE IF unlinked.code # "Success" THEN unlinked
         ELSE [code |-> "Success",
               sb |-> Relinked(unlinked.sb, index, replaced.sb.fst[index],
                               new_parent, name)]
  BY Zenon DEF Renamed, Replaced
<1> HIDE DEF index, new_index, new_parent, g
<1>8. new_index # NIL => index \notin Within(g, new_index)
  BY <1>1, <1>2, <1>3, <1>4, ReplacedIsElsewhere DEF g
<1>9. ~IsProperPrefix(old_path, new_path) => new_parent \notin Within(g, index)
  BY <1>1, <1>2, <1>3, <1>4, <1>6, NewParentIsElsewhere DEF g
<1> HIDE DEF old, new, old_parent, name, replaced, unlinked
<1> QED  BY <1>1, <1>3, <1>4, <1>5, <1>7, <1>8, <1>9
         DEF old, new, old_parent, new_parent, index, new_index, name, replaced,
             unlinked, g

LEMMA RenamedTree ==
    ASSUME TypeOK, OpenFilesAreFiles, IsFstTree(superblock), NEW fd \in HandleIds,
           NEW old_path \in Paths, NEW new_path \in Paths,
           RenameCode(fd, old_path, new_path) = "Success",
           ~ThroughFile(old_path), ~ThroughFile(new_path),
           ~IsProperPrefix(new_path, old_path)
    PROVE  LET renamed == Renamed(old_path, new_path)
           IN  /\ renamed.code = "Success"
               /\ IsFstTree(renamed.sb) /\ KeepsOpenLive(renamed.sb)
               /\ KeepsListings(superblock, renamed.sb,
                      {GetFstIndex(superblock, SplitPath(old_path).parent),
                       GetFstIndex(superblock, SplitPath(new_path).parent)})
               /\ /\ SiblingNamesUnique(superblock)
                  /\ new_path[Len(new_path)] \notin LongNames
                  => SiblingNamesUnique(renamed.sb)
<1> DEFINE old        == SplitPath(old_path)
           new        == SplitPath(new_path)
           old_parent == GetFstIndex(superblock, old.parent)
           new_parent == GetFstIndex(superblock, new.parent)
           index      == ChildIndex(superblock, old_parent, old.file_name)
           new_index  == ChildIndex(superblock, new_parent, new.file_name)
           replaced   == Replaced(new_parent, new_index)
           s1         == replaced.sb
           name       == new.file_name
           unlinked   == RemoveFstEntryFromChain(s1, old_parent, index)
           moved      == Relinked(unlinked.sb, index, s1.fst[index], new_parent,
                                  name)
           g          == Pointers(superblock)
           short      == new_path[Len(new_path)] \notin LongNames
<1>1. superblock \in Superblock
  BY DEF TypeOK
<1>2. /\ old_parent \in FromRoot(g) /\ IsDirectory(superblock.fst[old_parent])
      /\ new_parent \in FromRoot(g) /\ IsDirectory(superblock.fst[new_parent])
      /\ index \in Children(superblock, old_parent)
      /\ index \in FstIndices /\ ~InUse(index)
      /\ name = new_path[Len(new_path)] /\ StoredName(name) \in Names
      /\ new_index # NIL => /\ new_index \in Children(superblock, new_parent)
                            /\ superblock.fst[new_index].name = name
                            /\ Deletable(new_index)
                            /\ index \notin Within(g, new_index)
      /\ Renamed(old_path, new_path) =
            IF replaced.code # "Success" THEN replaced
            ELSE IF unlinked.code # "Success" THEN unlinked
            ELSE [code |-> "Success", sb |-> moved]
  BY RenamePlaces
<1>3. /\ index \in FromRoot(g) /\ Live(superblock) = FromRoot(g)
      /\ FromRoot(g) \subseteq FstIndices
      /\ Children(superblock, new_parent) = ChildrenOf(g, new_parent)
  BY <1>2, TreeFacts
<1> HIDE DEF new, old, old_parent, new_parent, index, new_index, name
<1>4. ASSUME SiblingNamesUnique(superblock)
      PROVE  \A i, j \in Children(superblock, new_parent) :
                superblock.fst[i].name = superblock.fst[j].name => i = j
  <2>1. new_parent \in LiveDirectories(superblock)
    BY <1>2, <1>3 DEF LiveDirectories
  <2> QED  BY <1>4, <2>1 DEF SiblingNamesUnique
<1>5. /\ replaced.code = "Success" /\ s1 \in Superblock /\ IsFstTree(s1)
      /\ old_parent \in FromRoot(Pointers(s1)) /\ IsDirectory(s1.fst[old_parent])
      /\ new_parent \in FromRoot(Pointers(s1)) /\ IsDirectory(s1.fst[new_parent])
      /\ index \in Children(s1, old_parent)
      /\ Within(Pointers(s1), index) \subseteq Within(g, index)
      /\ KeepsOpenLive(s1)
      /\ KeepsListings(superblock, s1, {new_parent})
      /\ SiblingNamesUnique(superblock) /\ short =>
            /\ SiblingNamesUnique(s1)
            /\ \A i \in ChildrenOf(Pointers(s1), new_parent) : s1.fst[i].name # name
  <2>1. CASE new_index = NIL
    <3>1. replaced = [code |-> "Success", sb |-> superblock]
      BY <2>1 DEF Replaced
    <3>2. KeepsOpenLive(superblock)
      BY DEF KeepsOpenLive
    <3>3. SiblingNamesUnique(superblock) /\ short =>
             \A i \in Children(superblock, new_parent) :
                superblock.fst[i].name # name
      BY <1>2, <1>4, <2>1, NoSuchChild DEF new_index, name
    <3>4. KeepsListings(superblock, superblock, {new_parent})
      BY DEF KeepsListings
    <3> HIDE DEF replaced
    <3> QED  BY <1>1, <1>2, <1>3, <3>1, <3>2, <3>3, <3>4
  <2>2. CASE new_index # NIL
    <3>1. replaced = RemoveFstEntryFromChain(DeleteContents(new_index),
                                             new_parent, new_index)
      BY <2>2 DEF Replaced
    <3> HIDE DEF replaced, s1
    <3>2. s1 = replaced.sb
      BY DEF s1
    <3>3. /\ replaced.code = "Success" /\ s1 \in Superblock
          /\ Removed(superblock, s1, new_index)
          /\ old_parent \in FromRoot(Pointers(s1))
          /\ IsDirectory(s1.fst[old_parent])
          /\ new_parent \in FromRoot(Pointers(s1))
          /\ IsDirectory(s1.fst[new_parent])
          /\ index \in Children(s1, old_parent)
          /\ Within(Pointers(s1), index) \subseteq Within(g, index)
          /\ KeepsOpenLive(s1)
      BY <1>2, <2>2, <3>1, <3>2, ReplacedTree DEF Deletable
    <3>4. IsFstTree(s1)
      BY <3>3 DEF Removed
    <3>5. ASSUME SiblingNamesUnique(superblock)
          PROVE  /\ SiblingNamesUnique(s1)
                 /\ \A i \in ChildrenOf(Pointers(s1), new_parent) :
                       s1.fst[i].name # name
      <4>1. SiblingNamesUnique(s1)
        BY <3>3, <3>5, RemovalKeepsNames
      <4>2. ASSUME NEW i \in ChildrenOf(Pointers(s1), new_parent)
            PROVE  s1.fst[i].name # name
        <5>1. i \in Children(superblock, new_parent) /\ i # new_index
          BY <1>3, <3>3 DEF Removed
        <5>2. i \in FromRoot(Pointers(s1))
          BY <3>3, <3>4, TreeFacts
        <5>3. s1.fst[i].name = superblock.fst[i].name
          BY <3>3, <5>2 DEF Removed, SameEntry
        <5> QED  BY <1>2, <1>4, <2>2, <3>5, <5>1, <5>3
      <4> QED  BY <4>1, <4>2
    <3>6. KeepsListings(superblock, s1, {new_parent})
      BY <1>2, <1>3, <2>2, <3>3, RemovalKeepsListings
    <3> QED  BY <3>3, <3>4, <3>5, <3>6
  <2> QED  BY <2>1, <2>2
<1> HIDE DEF replaced, s1
<1>6. \A k \in Fds, i \in FstIndices : Opens(k, i) => i \notin Within(g, index)
  BY <1>2, NothingOpenWithin
<1>7. /\ unlinked.code = "Success"
       /\ Moved(s1, moved, index, new_parent, name)
       /\ KeepsOpenLive(moved)
  BY <1>2, <1>5, <1>6, MovedTree
<1> HIDE DEF unlinked, moved
<1>8. SiblingNamesUnique(superblock) /\ short => SiblingNamesUnique(moved)
  <2>1. short => StoredName(name) = name
    BY <1>2 DEF StoredName
  <2> QED  BY <1>5, <1>7, <2>1, MovingKeepsNames
<1>9. Renamed(old_path, new_path) = [code |-> "Success", sb |-> moved]
  BY <1>2, <1>5, <1>7
<1>10. KeepsListings(superblock, moved, {old_parent, new_parent})
  <2>1. KeepsListings(s1, moved, {old_parent, new_parent})
    BY <1>5, <1>7, TreeFacts, MovingKeepsListings
  <2>2. LiveDirectories(moved) \subseteq Live(s1)
    BY <1>5, <1>7, TreeFacts DEF Moved, LiveDirectories
  <2>3. \A i \in Live(s1) : SameEntry(s1, moved, i) \/ i = index
    BY <1>5, <1>7, TreeFacts DEF Moved
  <2>4. moved.fst[index].type = s1.fst[index].type
    BY <1>7 DEF Moved
  <2>5. LiveDirectories(moved) \subseteq LiveDirectories(s1)
    BY <2>2, <2>3, <2>4 DEF SameEntry, IsDirectory, LiveDirectories
  <2> QED  BY <1>5, <2>1, <2>5 DEF KeepsListings
<1> QED  BY <1>7, <1>8, <1>9, <1>10
         DEF Moved, old_parent, new_parent, old, new

-----------------------------------------------------------------------------
(* The file calls change no shape.                                         *)

LEMMA SameShapeTransitive ==
    ASSUME NEW s1, NEW s2, NEW s3, SameShape(s1, s2), SameShape(s2, s3)
    PROVE  SameShape(s1, s3)
BY DEF SameShape, SameEntry, IsDirectory

LEMMA SameShapeSymmetric ==
    ASSUME NEW s1, NEW s2, SameShape(s1, s2)
    PROVE  SameShape(s2, s1)
BY DEF SameShape, SameEntry, IsDirectory

LEMMA SameFstSameShape ==
    ASSUME NEW s1, NEW s2, s2.fst = s1.fst
    PROVE  SameShape(s1, s2)
BY DEF SameShape, SameEntry

LEMMA ReplaceKeepsShape ==
    ASSUME NEW sb \in Superblock, NEW k \in FstIndices, NEW entry \in FstEntry,
           entry.type = sb.fst[k].type, entry.name = sb.fst[k].name,
           entry.sib = sb.fst[k].sib,
           IsDirectory(sb.fst[k]) => entry.sub = sb.fst[k].sub
    PROVE  SameShape(sb, [sb EXCEPT !.fst[k] = entry])
<1> DEFINE new == [sb EXCEPT !.fst[k] = entry]
<1>1. \A i \in FstIndices : new.fst[i] = IF i = k THEN entry ELSE sb.fst[i]
  BY DEF Superblock
<1> HIDE DEF new
<1> QED  BY <1>1 DEF SameShape, SameEntry, new

LEMMA SubKeepsShape ==
    ASSUME NEW sb \in Superblock, NEW k \in FstIndices, NEW pointer \in U16,
           ~IsDirectory(sb.fst[k])
    PROVE  SameShape(sb, [sb EXCEPT !.fst[k].sub = pointer])
<1> DEFINE old == sb.fst[k]
           new == [old EXCEPT !.sub = pointer]
<1>1. old \in FstEntry
  BY DEF Superblock
<1>2. new \in FstEntry /\ new.type = old.type /\ new.name = old.name
      /\ new.sib = old.sib
  <2> HIDE DEF old
  <2> QED  BY <1>1 DEF FstEntry
<1>3. SameShape(sb, [sb EXCEPT !.fst[k] = new])
  <2> HIDE DEF new
  <2> QED  BY <1>2, ReplaceKeepsShape
<1> QED  BY <1>3

LEMMA SizeKeepsShape ==
    ASSUME NEW sb \in Superblock, NEW k \in FstIndices, NEW size \in U32
    PROVE  SameShape(sb, [sb EXCEPT !.fst[k].size = size])
<1> DEFINE old == sb.fst[k]
           new == [old EXCEPT !.size = size]
<1>1. old \in FstEntry
  BY DEF Superblock
<1>2. new \in FstEntry /\ new.type = old.type /\ new.name = old.name
      /\ new.sib = old.sib /\ new.sub = old.sub
  <2> HIDE DEF old
  <2> QED  BY <1>1 DEF FstEntry
<1>3. SameShape(sb, [sb EXCEPT !.fst[k] = new])
  <2> HIDE DEF new
  <2> QED  BY <1>2, ReplaceKeepsShape
<1> QED  BY <1>3

\* WriteFileData has checked that it writes to a file: the pointer it changes is
\* one to a cluster.
LEMMA WriteFileDataKeepsShape ==
    ASSUME NEW sb \in Superblock, NEW nd, NEW index \in U16, NEW data,
           NEW chain_index, NEW new_size \in U32
    PROVE  SameShape(sb, WriteFileData(sb, nd, index, data, chain_index,
                                       new_size).superblock)
<1> DEFINE cluster == Least(UnusedClusters(sb))
           old     == GetClusterForFile(sb, sb.fst[index].sub, chain_index)
           prev    == GetClusterForFile(sb, sb.fst[index].sub, chain_index - 1)
           linked  == IF chain_index = 0
                      THEN [sb EXCEPT !.fst[index].sub = cluster]
                      ELSE [sb EXCEPT !.fat[prev] = cluster]
           sized   == [linked EXCEPT !.fst[index].size = new_size]
           final   == [sized EXCEPT !.fat =
                          ReplaceInChain(linked.fat, cluster, old)]
           write   == WriteFileData(sb, nd, index, data, chain_index, new_size)
<1>1. \/ write.superblock = sb
      \/ /\ index \in FstIndices /\ UnusedClusters(sb) # {}
         /\ IsFile(sb.fst[index])
         /\ write.superblock = final
  BY DEF WriteFileData
<1>2. CASE write.superblock = sb
  BY <1>2, SameFstSameShape
<1>3. CASE /\ index \in FstIndices /\ UnusedClusters(sb) # {}
           /\ IsFile(sb.fst[index])
           /\ write.superblock = final
  <2>1. cluster \in U16
    BY <1>3, UnusedClusterType, PointersInRange DEF UnusedClusters
  <2>2. linked \in Superblock /\ SameShape(sb, linked)
    <3> HIDE DEF cluster, prev
    <3>1. CASE chain_index = 0
      BY <1>3, <2>1, <3>1, SubUpdate, SubKeepsShape DEF IsFile, IsDirectory
    <3>2. CASE chain_index # 0
      <4>1. linked \in Superblock /\ linked.fst = sb.fst
        BY <2>1, <3>2 DEF Superblock
      <4> HIDE DEF linked
      <4> QED  BY <4>1, SameFstSameShape
    <3> QED  BY <3>1, <3>2
  <2>3. SameShape(linked, sized) /\ sized \in Superblock
    <3> HIDE DEF linked
    <3> QED  BY <1>3, <2>2, SizeUpdate, SizeKeepsShape
  <2>4. SameShape(sized, final)
    <3>1. final.fst = sized.fst
      <4> HIDE DEF linked, sized, cluster, old
      <4> QED  BY <2>3 DEF Superblock
    <3> HIDE DEF sized, final
    <3> QED  BY <3>1, SameFstSameShape
  <2> HIDE DEF linked, sized, final
  <2> QED  BY <1>3, <2>2, <2>3, <2>4, SameShapeTransitive
<1> HIDE DEF final, prev
<1> QED  BY <1>1, <1>2, <1>3

LEMMA FlushFileCacheKeepsShape ==
    ASSUME TypeOK PROVE SameShape(superblock, FlushFileCache.superblock)
<1> DEFINE h     == handles[cache.handle]
           write == WriteFileData(superblock, nand, h.fst_index, cache.data,
                                  cache.chain_index, h.file_size)
<1>1. CASE ~Dirty(cache)
  BY <1>1, SameFstSameShape DEF FlushFileCache, IoState
<1>2. CASE Dirty(cache)
  <2>1. cache.handle \in HandleIds
    BY <1>2 DEF TypeOK, Cache, Dirty
  <2>2. h.fst_index \in U16 /\ h.file_size \in U32
    BY <2>1 DEF TypeOK, Handle
  <2>3. SameShape(superblock, write.superblock)
    BY <2>2, WriteFileDataKeepsShape DEF TypeOK
  <2>4. FlushFileCache.superblock = write.superblock
    <3> HIDE DEF write
    <3> QED
      BY <1>2 DEF FlushFileCache, FlushNeeded, Written, WriteBack, IoState, write
  <2> HIDE DEF write
  <2> QED  BY <2>3, <2>4
<1> QED  BY <1>1, <1>2

LEMMA PopulateFileCacheKeepsShape ==
    ASSUME TypeOK, NEW fd, NEW offset, NEW write
    PROVE  SameShape(superblock, PopulateFileCache(fd, offset, write).superblock)
<1> DEFINE populate == PopulateFileCache(fd, offset, write)
           flush    == FlushFileCache
<1>1. \/ populate = IoState
      \/ populate.superblock = flush.superblock
  <2>1. flush \in IoStates
    BY FlushFileCacheType
  <2> HIDE DEF flush
  <2> QED  BY <2>1 DEF PopulateFileCache, Populated, IoStates, flush
<1>2. IoState.superblock = superblock
  BY DEF IoState
<1> HIDE DEF populate, flush
<1> QED  BY <1>1, <1>2, FlushFileCacheKeepsShape, SameFstSameShape
         DEF flush, populate

-----------------------------------------------------------------------------
(* The steps.                                                              *)

\* The directories that the user of an open descriptor may write to.
WritableBy(fd) == {d \in FstIndices : IsOpen(fd) /\ MayWrite(fd, d)}

\* What a step must keep: the tree, the open files in it, what the directories list
\* that are not in D, and the names, when no name is cut off.
Keeps(sb, D) ==
    /\ IsFstTree(sb)
    /\ KeepsOpenLive(sb)
    /\ KeepsListings(superblock, sb, D)
    /\ "long_name" \notin Uses /\ SiblingNamesUnique(superblock) =>
          SiblingNamesUnique(sb)

LEMMA NothingChangesTree ==
    ASSUME NEW D, IsFstTree(superblock) PROVE Keeps(superblock, D)
BY DEF Keeps, KeepsOpenLive, KeepsListings

LEMMA SameShapeKeeps ==
    ASSUME NEW sb, NEW D, IsFstTree(superblock), SameShape(superblock, sb)
    PROVE  Keeps(sb, D)
<1>1. IsFstTree(sb) /\ Live(sb) = Live(superblock)
  BY SameShapeSameTree
<1>2. SiblingNamesUnique(superblock) => SiblingNamesUnique(sb)
  BY SameShapeSameNames
<1>3. KeepsListings(superblock, sb, {})
  BY SameShapeKeepsListings
<1> QED  BY <1>1, <1>2, <1>3 DEF Keeps, KeepsOpenLive, KeepsListings

\* The superblock after the step keeps all that.  It is flushed, unless what
\* changes is no more than the file calls change.
StepKeeps(D) ==
    /\ Keeps(superblock', D)
    /\ \/ stored' = superblock'
       \/ stored' = stored /\ SameShape(superblock, superblock')

LEMMA FinishesKeeps ==
    ASSUME NEW code, NEW sb, NEW D, Keeps(sb, D), Finishes(code, sb),
           code = "Success" \/ SameShape(superblock, sb)
    PROVE  StepKeeps(D)
<1>1. /\ superblock' = sb
      /\ stored' = IF code = "Success" THEN sb ELSE stored
  BY DEF Finishes
<1> QED  BY <1>1 DEF StepKeeps

\* A call that fails its checks changes nothing.
LEMMA RefusedKeeps ==
    ASSUME NEW code, NEW D, Finishes(code, superblock), IsFstTree(superblock)
    PROVE  StepKeeps(D)
BY NothingChangesTree, FinishesKeeps, SameFstSameShape

LEMMA WritersKeepListings ==
    ASSUME NEW sb, IsFstTree(superblock), NEW D, NEW fd, IsOpen(fd),
           KeepsListings(superblock, sb, D), \A d \in D : MayWrite(fd, d)
    PROVE  KeepsListings(superblock, sb, WritableBy(fd))
BY TreeFacts DEF KeepsListings, LiveDirectories, WritableBy

LEMMA CreateKeeps ==
    ASSUME TypeOK, IsFstTree(superblock), NEW fd \in PathFds,
           NEW path \in Paths, ~ThroughFile(path), PlainName(path),
           NEW type \in {"file", "directory"}, NEW perm \in Permissions,
           Create(fd, path, type, perm)
    PROVE  StepKeeps(WritableBy(fd))
<1> DEFINE code   == CreateCode(fd, path, type)
           new    == Created(fd, path, type, perm)
           parent == GetFstIndex(superblock, SplitPath(path).parent)
<1> fd \in HandleIds
  BY FileSystemAssumption DEF FileSystemAssumption
<1>1. Finishes(code, IF code = "Success" THEN new ELSE superblock)
  BY DEF Create
<1>2. CASE code # "Success"
  BY <1>1, <1>2, RefusedKeeps
<1>3. CASE code = "Success"
  <2>1. path # <<>> /\ IsOpen(fd) /\ MayWrite(fd, parent)
    BY <1>3 DEF CreateCode, IsValidNonRootPath
  <2>2. "long_name" \notin Uses => path[Len(path)] \notin LongNames
    BY <2>1 DEF PlainName, Permitted
  <2>3. /\ IsFstTree(new) /\ Live(superblock) \subseteq Live(new)
        /\ KeepsListings(superblock, new, {parent})
        /\ SiblingNamesUnique(superblock) /\ path[Len(path)] \notin LongNames
              => SiblingNamesUnique(new)
    BY <1>3, CreatedTree
  <2> HIDE DEF new, parent
  <2>4. KeepsListings(superblock, new, WritableBy(fd))
    BY <2>1, <2>3, WritersKeepListings
  <2>5. Keeps(new, WritableBy(fd))
    BY <2>2, <2>3, <2>4 DEF Keeps, KeepsOpenLive
  <2> QED  BY <1>1, <1>3, <2>5, FinishesKeeps
<1> QED  BY <1>2, <1>3

LEMMA DeleteKeeps ==
    ASSUME TypeOK, OpenFilesAreFiles, IsFstTree(superblock), NEW fd \in PathFds,
           NEW path \in Paths, ~ThroughFile(path), Delete(fd, path)
    PROVE  StepKeeps(WritableBy(fd))
<1> DEFINE parent  == GetFstIndex(superblock, SplitPath(path).parent)
           index   == ChildIndex(superblock, parent, SplitPath(path).file_name)
           removed == RemoveFstEntryFromChain(DeleteContents(index), parent, index)
<1> fd \in HandleIds
  BY FileSystemAssumption DEF FileSystemAssumption
<1>1. CASE DeleteCode(fd, path) # "Success"
  BY <1>1, RefusedKeeps DEF Delete
<1>2. CASE DeleteCode(fd, path) = "Success"
  <2>1. Finishes(removed.code, removed.sb)
    BY <1>2 DEF Delete
  <2>2. /\ removed.code = "Success"
        /\ IsFstTree(removed.sb) /\ KeepsOpenLive(removed.sb)
        /\ KeepsListings(superblock, removed.sb, {parent})
        /\ SiblingNamesUnique(superblock) => SiblingNamesUnique(removed.sb)
    BY <1>2, DeletedTree
  <2>3. IsOpen(fd) /\ MayWrite(fd, parent)
    BY <1>2 DEF DeleteCode
  <2> HIDE DEF removed, parent
  <2>4. KeepsListings(superblock, removed.sb, WritableBy(fd))
    BY <2>2, <2>3, WritersKeepListings
  <2> QED  BY <2>1, <2>2, <2>4, FinishesKeeps DEF Keeps
<1> QED  BY <1>1, <1>2

LEMMA RenameKeeps ==
    ASSUME TypeOK, OpenFilesAreFiles, IsFstTree(superblock), NEW fd \in PathFds,
           NEW old_path \in Paths, NEW new_path \in Paths,
           ~ThroughFile(old_path), ~ThroughFile(new_path), PlainName(new_path),
           ~IsProperPrefix(new_path, old_path), Rename(fd, old_path, new_path)
    PROVE  StepKeeps(WritableBy(fd))
<1> DEFINE renamed    == Renamed(old_path, new_path)
           old_parent == GetFstIndex(superblock, SplitPath(old_path).parent)
           new_parent == GetFstIndex(superblock, SplitPath(new_path).parent)
<1> fd \in HandleIds
  BY FileSystemAssumption DEF FileSystemAssumption
<1>1. CASE RenameCode(fd, old_path, new_path) # "Success"
  BY <1>1, RefusedKeeps DEF Rename
<1>2. CASE RenameCode(fd, old_path, new_path) = "Success"
  <2>1. new_path # <<>>
    BY <1>2 DEF RenameCode, IsValidNonRootPath
  <2>2. "long_name" \notin Uses => new_path[Len(new_path)] \notin LongNames
    BY <2>1 DEF PlainName, Permitted
  <2>3. Finishes(renamed.code, renamed.sb)
    BY <1>2 DEF Rename
  <2>4. /\ renamed.code = "Success"
        /\ IsFstTree(renamed.sb) /\ KeepsOpenLive(renamed.sb)
        /\ KeepsListings(superblock, renamed.sb, {old_parent, new_parent})
        /\ /\ SiblingNamesUnique(superblock)
           /\ new_path[Len(new_path)] \notin LongNames
           => SiblingNamesUnique(renamed.sb)
    BY <1>2, RenamedTree
  <2>5. IsOpen(fd) /\ MayWrite(fd, old_parent) /\ MayWrite(fd, new_parent)
    BY <1>2 DEF RenameCode
  <2> HIDE DEF renamed, old_parent, new_parent
  <2>6. KeepsListings(superblock, renamed.sb, WritableBy(fd))
    BY <2>4, <2>5, WritersKeepListings
  <2> QED  BY <2>2, <2>3, <2>4, <2>6, FinishesKeeps DEF Keeps
<1> QED  BY <1>1, <1>2

LEMMA SetMetadataKeeps ==
    ASSUME TypeOK, IsFstTree(superblock), NEW fd \in HandleIds, NEW path \in Paths,
           NEW uid \in Uids, NEW gid \in Gids, NEW perm \in Permissions,
           SetMetadata(fd, path, uid, gid, perm), NEW D
    PROVE  StepKeeps(D)
<1> DEFINE index == GetFstIndex(superblock, path)
           old   == superblock.fst[index]
           entry == SetAccessMode([old EXCEPT !.uid = uid, !.gid = gid], perm)
<1>1. CASE SetMetadataCode(fd, path, uid) # "Success"
  BY <1>1, RefusedKeeps DEF SetMetadata
<1>2. CASE SetMetadataCode(fd, path, uid) = "Success"
  <2>1. index \in FstIndices
    BY <1>2, GetFstIndexType DEF SetMetadataCode
  <2>2. old \in FstEntry
    BY <2>1 DEF TypeOK, Superblock
  <2>3. perm \in [owner : FileMode, group : FileMode, other : FileMode]
    BY FileSystemAssumption DEF FileSystemAssumption
  <2>4. /\ entry \in FstEntry /\ entry.type = old.type /\ entry.name = old.name
        /\ entry.sib = old.sib /\ entry.sub = old.sub
    <3> HIDE DEF old
    <3> QED  BY <2>2, <2>3 DEF SetAccessMode, FstEntry
  <2>5. SameShape(superblock, [superblock EXCEPT !.fst[index] = entry])
    <3> HIDE DEF entry, index
    <3> QED  BY <2>1, <2>4, ReplaceKeepsShape DEF TypeOK
  <2>6. Finishes(SetMetadataCode(fd, path, uid),
                 [superblock EXCEPT !.fst[index] = entry])
    BY <1>2, Zenon DEF SetMetadata
  <2> HIDE DEF entry, index
  <2> QED  BY <2>5, <2>6, SameShapeKeeps, FinishesKeeps
<1> QED  BY <1>1, <1>2

LEMMA CloseKeeps ==
    ASSUME TypeOK, IsFstTree(superblock), NEW fd, Close(fd)
    PROVE  StepKeeps({})
<1> DEFINE flush == IF cache.handle = fd THEN FlushFileCache ELSE IoState
<1>1. SameShape(superblock, flush.superblock)
  BY FlushFileCacheKeepsShape, SameFstSameShape DEF IoState
<1>2. \/ superblock' = superblock /\ stored' = stored
      \/ superblock' = flush.superblock /\ stored' \in {stored, flush.superblock}
  BY DEF Close
<1> HIDE DEF flush
<1> QED  BY <1>1, <1>2, NothingChangesTree, SameShapeKeeps, SameFstSameShape
         DEF StepKeeps

LEMMA AdvanceKeeps ==
    ASSUME TypeOK, IsFstTree(superblock), NEW op, NEW write, Advance(op, write)
    PROVE  StepKeeps({})
<1> DEFINE pop == PopulateFileCache(call.fd, handles[call.fd].file_offset, write)
<1>1. superblock' = pop.superblock /\ stored' = stored
  BY Zenon DEF Advance, Copy
<1>2. SameShape(superblock, pop.superblock)
  BY PopulateFileCacheKeepsShape
<1> HIDE DEF pop
<1> QED  BY <1>1, <1>2, SameShapeKeeps DEF StepKeeps

\* A formatted superblock is a tree of one entry.
LEMMA FormattedTree ==
    IsFstTree(FormattedSuperblock) /\ SiblingNamesUnique(FormattedSuperblock)
<1> DEFINE sb == FormattedSuperblock
           g  == Pointers(sb)
           root == {0}
<1>1. /\ sb.fst[0] = RootEntry
      /\ IsDirectory(sb.fst[0]) /\ sb.fst[0].type # "none"
      /\ sb.fst[0].sib = NIL /\ sb.fst[0].sub = NIL
  BY RootInTree DEF FormattedSuperblock, RootEntry, IsDirectory
<1> HIDE DEF sb
<1>2. g["sib"][0] = NIL /\ g["sub"][0] = NIL
  BY <1>1, PointersOf, RootInTree
<1> HIDE DEF g
<1>3. \A p \in root, k \in Kinds : g[k][p] = NIL
  BY <1>2 DEF Kinds
<1>4. FromRoot(g) \subseteq root
  <2>1. root \subseteq FstIndices /\ 0 \in root /\ ClosedIn(g, root)
    BY <1>3, RootInTree, NilIsNoIndex DEF ClosedIn
  <2> HIDE DEF root
  <2> QED  BY <2>1, TreeIsLeast
<1>5. FromRoot(g) = root
  BY <1>4, RootInTree
<1>6. IsTree(g)
  <2>1. \A p \in FromRoot(g), k \in Kinds : g[k][p] = NIL
    BY <1>3, <1>5
  <2>2. NIL # 0
    BY NilIsNoIndex, RootInTree
  <2> QED  BY <1>2, <2>1, <2>2 DEF IsTree
<1>7. IsFstTree(sb)
  BY <1>1, <1>5, <1>6 DEF IsFstTree, g
<1>8. SiblingNamesUnique(sb)
  <2>1. Live(sb) = root
    BY <1>5, <1>7, TreeFacts DEF g
  <2>2. Children(sb, 0) \subseteq root
    BY <1>1, <1>5, <1>7, <2>1, TreeFacts DEF g
  <2> QED  BY <2>1, <2>2 DEF SiblingNamesUnique, LiveDirectories
<1> QED  BY <1>7, <1>8 DEF sb

LEMMA NormalisedShape == ASSUME NEW sb \in Superblock
                         PROVE  SameShape(sb, Normalised(sb))
<1>1. Normalised(sb).fst = sb.fst
  BY DEF Normalised, Superblock
<1> QED  BY <1>1, SameFstSameShape

LEMMA FormatKeeps ==
    ASSUME TypeOK, IsFstTree(superblock), NEW uid, Format(uid)
    PROVE  \/ StepKeeps({})
           \/ /\ superblock' = FormattedSuperblock
              /\ stored' = FormattedSuperblock
              /\ \A fd \in Fds : ~handles'[fd].opened
<1>1. \/ superblock' = superblock /\ stored' = stored
      \/ /\ superblock' = FormattedSuperblock /\ stored' = FormattedSuperblock
         /\ \A fd \in Fds : ~handles'[fd].opened
  BY HandleIdTypes DEF Format, TypeOK, Handle
<1> QED  BY <1>1, NothingChangesTree, SameFstSameShape DEF StepKeeps

LEMMA RemountKeeps ==
    ASSUME TypeOK, Remount
    PROVE  /\ SameShape(stored, superblock') /\ stored' = stored
           /\ \A fd \in Fds : ~handles'[fd].opened
<1>1. superblock' \in {Normalised(stored), stored} /\ stored' = stored
  BY DEF Remount
<1>2. \A fd \in Fds : ~handles'[fd].opened
  BY HandleIdTypes DEF Remount, NewHandle
<1>3. SameShape(stored, superblock')
  BY <1>1, NormalisedShape, SameFstSameShape DEF TypeOK
<1> QED  BY <1>1, <1>2, <1>3

\* The uses of the interface that break the tree: a path through a file, whose
\* first cluster GetFstIndex takes for the index of its first child; and the
\* replacement of a directory above the entry that moves.
TreeSafeUses == "through_file" \notin Uses /\ "onto_ancestor" \notin Uses

LEMMA NamespaceKeeps ==
    ASSUME TypeOK, OpenFilesAreFiles, IsFstTree(superblock), TreeSafeUses,
           NEW fd \in PathFds, NamespaceCallOn(fd)
    PROVE  StepKeeps(WritableBy(fd))
<1>1. PICK path \in Paths :
          /\ PlainPath(path)
          /\ \/ /\ PlainName(path)
                /\ \E perm \in Permissions : \/ CreateFile(fd, path, perm)
                                             \/ CreateDirectory(fd, path, perm)
             \/ Delete(fd, path)
             \/ \E new_path \in Paths :
                    PlainRename(path, new_path) /\ Rename(fd, path, new_path)
             \/ \E user \in Owners, perm \in Permissions :
                    SetMetadata(fd, path, user[1], user[2], perm)
  BY DEF NamespaceCallOn
<1>2. ~ThroughFile(path) /\ fd \in HandleIds
  BY <1>1, FileSystemAssumption
     DEF FileSystemAssumption, TreeSafeUses, PlainPath, Permitted
<1>3. CASE /\ PlainName(path)
           /\ \E perm \in Permissions : \/ CreateFile(fd, path, perm)
                                        \/ CreateDirectory(fd, path, perm)
  BY <1>2, <1>3, CreateKeeps DEF CreateFile, CreateDirectory
<1>4. CASE Delete(fd, path)
  BY <1>2, <1>4, DeleteKeeps
<1>5. CASE \E new_path \in Paths :
              PlainRename(path, new_path) /\ Rename(fd, path, new_path)
  <2>1. PICK new_path \in Paths :
            PlainRename(path, new_path) /\ Rename(fd, path, new_path)
    BY <1>5
  <2>2. /\ ~ThroughFile(new_path) /\ PlainName(new_path)
        /\ ~IsProperPrefix(new_path, path)
    BY <2>1 DEF PlainRename, TreeSafeUses, PlainPath, Permitted
  <2> QED  BY <1>2, <2>1, <2>2, RenameKeeps
<1>6. CASE \E user \in Owners, perm \in Permissions :
              SetMetadata(fd, path, user[1], user[2], perm)
  BY <1>2, <1>6, SetMetadataKeeps, UserTypes
<1> QED  BY <1>1, <1>3, <1>4, <1>5, <1>6

LEMMA NextKeeps ==
    ASSUME TypeOK, OpenFilesAreFiles, IsFstTree(superblock), TreeSafeUses,
           [Next]_vars
    PROVE  \/ StepKeeps({})
           \/ \E fd \in PathFds : NamespaceCallOn(fd) /\ StepKeeps(WritableBy(fd))
           \/ /\ \/ FormatCall /\ superblock' = FormattedSuperblock
                    /\ stored' = superblock'
                 \/ SameShape(stored, superblock') /\ stored' = stored
              /\ \A fd \in Fds : ~handles'[fd].opened
<1>1. CASE superblock' = superblock /\ stored' = stored
  BY <1>1, NothingChangesTree, SameFstSameShape DEF StepKeeps
<1>2. CASE NamespaceCall
  BY <1>2, NamespaceKeeps DEF NamespaceCall
<1>3. CASE OpenCall
  BY <1>1, <1>3 DEF OpenCall, OpenFs, OpenFile
<1>4. CASE FileCall
  <2>1. CASE \E fd \in HandleIds : Close(fd)
    BY <2>1, CloseKeeps
  <2>2. CASE ~\E fd \in HandleIds : Close(fd)
    BY <1>1, <1>4, <2>2 DEF FileCall, SeekFile, ReadFile, WriteFile, Begin
  <2> QED  BY <2>1, <2>2
<1>5. CASE FormatCall
  BY <1>5, FormatKeeps DEF FormatCall
<1>6. CASE ReadFileStep \/ WriteFileStep
  BY <1>6, AdvanceKeeps, Zenon DEF ReadFileStep, WriteFileStep
<1>7. CASE Remount
  BY <1>7, RemountKeeps
<1>8. CASE UNCHANGED vars
  BY <1>1, <1>8 DEF vars
<1> QED  BY <1>2, <1>3, <1>4, <1>5, <1>6, <1>7, <1>8 DEF Next

-----------------------------------------------------------------------------
(* The theorems.                                                           *)

\* An open descriptor refers to an entry in the tree: it did before, or the walk
\* along its path has just stayed in the tree.
LEMMA OpenFilesStayLive ==
    ASSUME TypeOK, OpenFilesAreFiles, IsFstTree(superblock), TreeSafeUses,
           OpenFilesLive, [Next]_vars
    PROVE  OpenFilesLive'
<1> SUFFICES ASSUME NEW fd \in Fds, handles'[fd].opened,
                    handles'[fd].fst_index # NIL
             PROVE  handles'[fd].fst_index \in LiveFiles(superblock')
  BY DEF OpenFilesLive
<1> DEFINE i == handles[fd].fst_index
           j == handles'[fd].fst_index
<1>1. StaysSafe(fd)
  BY NextSafe
<1>2. IsFile(superblock'.fst[j])
  BY NextOpenFiles DEF OpenFilesAreFiles
<1>3. CASE handles[fd].opened
  <2>1. i = j
    BY <1>1, <1>3 DEF StaysSafe
  <2>2. Opens(fd, i) /\ i \in Live(superblock)
    BY <1>3, <2>1 DEF OpenFilesLive, LiveFiles, Opens
  <2>3. KeepsOpenLive(superblock')
    BY NextKeeps DEF StepKeeps, Keeps
  <2> QED  BY <1>2, <2>1, <2>2, <2>3 DEF KeepsOpenLive, LiveFiles
<1>4. CASE ~handles[fd].opened
  <2>1. superblock' = superblock /\ Found(j)
    BY <1>1, <1>4 DEF StaysSafe
  <2>2. PICK path \in Paths : PlainPath(path) /\ j = GetFstIndex(superblock, path)
    BY <2>1 DEF Found
  <2>3. path \in Seq(Components) /\ AvoidsFiles(superblock, path)
    BY <2>2, NotThroughFile, FileSystemAssumption
       DEF FileSystemAssumption, Components, TreeSafeUses, PlainPath, Permitted
  <2>4. j = At(superblock, path, Len(path)) /\ Len(path) \in 0..Len(path)
    BY <2>2, <2>3, PathLookup
  <2>5. j \in Live(superblock)
    BY <2>3, <2>4, WalkStaysInTree, TreeFacts DEF TypeOK
  <2> QED  BY <1>2, <2>1, <2>5 DEF LiveFiles
<1> QED  BY <1>3, <1>4

TreeInv == IsFstTree(superblock) /\ IsFstTree(stored)

LEMMA NextTree ==
    ASSUME TypeOK, OpenFilesAreFiles, TreeInv, TreeSafeUses, [Next]_vars
    PROVE  TreeInv'
<1>1. IsFstTree(superblock) /\ IsFstTree(stored)
  BY DEF TreeInv
<1>2. IsFstTree(superblock') /\ IsFstTree(stored')
  <2>1. CASE \E D : StepKeeps(D)
    BY <1>1, <2>1 DEF StepKeeps, Keeps
  <2>2. CASE superblock' = FormattedSuperblock /\ stored' = superblock'
    BY <2>2, FormattedTree
  <2>3. CASE SameShape(stored, superblock') /\ stored' = stored
    BY <1>1, <2>3, SameShapeSameTree
  <2> QED  BY <1>1, <2>1, <2>2, <2>3, NextKeeps
<1> QED  BY <1>2 DEF TreeInv

LEMMA NextNames ==
    ASSUME TypeOK, OpenFilesAreFiles, TreeInv, TreeSafeUses,
           "long_name" \notin Uses, NamesUnique, [Next]_vars
    PROVE  NamesUnique'
<1>1. IsFstTree(superblock) /\ IsFstTree(stored)
      /\ SiblingNamesUnique(superblock) /\ SiblingNamesUnique(stored)
  BY DEF TreeInv, NamesUnique
<1>2. SiblingNamesUnique(superblock') /\ SiblingNamesUnique(stored')
  <2>1. CASE \E D : StepKeeps(D)
    BY <1>1, <2>1 DEF StepKeeps, Keeps
  <2>2. CASE superblock' = FormattedSuperblock /\ stored' = superblock'
    BY <2>2, FormattedTree
  <2>3. CASE SameShape(stored, superblock') /\ stored' = stored
    BY <1>1, <2>3, SameShapeSameNames
  <2> QED  BY <1>1, <2>1, <2>2, <2>3, NextKeeps
<1> QED  BY <1>2 DEF NamesUnique

\* What is on the NAND and what is in memory at first differ in the FAT only.
LEMMA InitTree == Init => TreeInv /\ NamesUnique
<1> SUFFICES ASSUME Init PROVE TreeInv /\ NamesUnique
  OBVIOUS
<1>1. stored.fst = FormattedSuperblock.fst
  BY FormattedSuperblockType DEF Init, Superblock
<1>2. stored \in Superblock /\ superblock = Normalised(stored)
  BY InitType DEF Init, TypeOK
<1>3. SameShape(FormattedSuperblock, stored)
  BY <1>1, SameFstSameShape
<1>4. SameShape(stored, superblock)
  BY <1>2, NormalisedShape
<1> QED  BY <1>3, <1>4, FormattedTree, SameShapeSameTree, SameShapeSameNames
         DEF TreeInv, NamesUnique

\* With no path through a file and no rename onto a directory above, whatever
\* else the client does: what can be reached from the root is always a tree, in
\* memory and in the superblock that a mount after a crash loads.
THEOREM TreeStaysWellFormed ==
    ASSUME TreeSafeUses
    PROVE  Spec => []TreeOK
<1>1. Init => TypeOK /\ OpenFilesAreFiles /\ TreeInv
  BY InitType, InitOpenFiles, InitTree
<1>2. TypeOK /\ OpenFilesAreFiles /\ TreeInv /\ [Next]_vars =>
         TypeOK' /\ OpenFilesAreFiles' /\ TreeInv'
  BY NextType, NextOpenFiles, NextTree
<1>3. TreeInv => TreeOK
  BY FstTreeIsWellFormed DEF TreeInv, TreeOK
<1> QED  BY <1>1, <1>2, <1>3, PTL DEF Spec

\* What the NAND holds has the shape of what is in memory: only the file calls
\* leave something unflushed.
FlushedShape == SameShape(stored, superblock)

LEMMA NextFlushedShape ==
    ASSUME TypeOK, OpenFilesAreFiles, IsFstTree(superblock), TreeSafeUses,
           FlushedShape, [Next]_vars
    PROVE  FlushedShape'
<1>1. SameShape(stored, superblock)
  BY DEF FlushedShape
<1>2. SameShape(stored', superblock')
  BY <1>1, NextKeeps, SameShapeTransitive, SameFstSameShape DEF StepKeeps
<1> QED  BY <1>2 DEF FlushedShape

\* A step that is neither a call on the tree nor Format leaves all listings as they
\* are: also mounting the image again.
LEMMA OthersKeepListings ==
    ASSUME TypeOK, OpenFilesAreFiles, IsFstTree(superblock), TreeSafeUses,
           FlushedShape, [Next]_vars
    PROVE  \/ NamespaceCall \/ FormatCall
           \/ KeepsListings(superblock, superblock', {})
<1>1. CASE StepKeeps({})
  BY <1>1 DEF StepKeeps, Keeps
<1>2. CASE SameShape(stored, superblock')
  <2>1. SameShape(superblock, superblock')
    BY <1>2, SameShapeSymmetric, SameShapeTransitive DEF FlushedShape
  <2> QED  BY <2>1, SameShapeKeepsListings
<1>3. CASE NamespaceCall \/ FormatCall
  BY <1>3
<1> QED  BY <1>1, <1>2, <1>3, NextKeeps DEF NamespaceCall

\* The user of every descriptor on which the call can be made may write to the
\* directory.
LEMMA NextOnlyWriters ==
    ASSUME TypeOK, OpenFilesAreFiles, IsFstTree(superblock), TreeSafeUses,
           FlushedShape, [Next]_vars, NEW d \in FstIndices, DirectoryChanges(d)
    PROVE  /\ FormatCall \/ NamespaceCall
           /\ \A fd \in PathFds :
                 \/ IsOpen(fd) /\ HasPermission(superblock.fst[d], handles[fd].uid,
                                               handles[fd].gid, {"Write"})
                 \/ ~NamespaceCallOn(fd)
<1>1. /\ d \in LiveDirectories(superblock) \cap LiveDirectories(superblock')
      /\ Listing(superblock', d) # Listing(superblock, d)
  BY DEF DirectoryChanges, Listing
<1>2. FormatCall \/ NamespaceCall
  BY <1>1, OthersKeepListings DEF KeepsListings
<1>3. ASSUME NEW fd \in PathFds, NamespaceCallOn(fd)
      PROVE  IsOpen(fd) /\ HasPermission(superblock.fst[d], handles[fd].uid,
                                         handles[fd].gid, {"Write"})
  <2>1. KeepsListings(superblock, superblock', WritableBy(fd))
    BY <1>3, NamespaceKeeps DEF StepKeeps, Keeps
  <2>2. d \in WritableBy(fd)
    BY <1>1, <2>1 DEF KeepsListings
  <2> QED  BY <2>2 DEF WritableBy, MayWrite
<1> QED  BY <1>2, <1>3

\* When no name is longer than an entry holds, no directory ever has two children
\* of one name.
THEOREM NamesStayUnique ==
    ASSUME TreeSafeUses, "long_name" \notin Uses
    PROVE  Spec => []NamesUnique
<1>1. Init => TypeOK /\ OpenFilesAreFiles /\ TreeInv /\ NamesUnique
  BY InitType, InitOpenFiles, InitTree
<1>2. TypeOK /\ OpenFilesAreFiles /\ TreeInv /\ NamesUnique /\ [Next]_vars =>
         TypeOK' /\ OpenFilesAreFiles' /\ TreeInv' /\ NamesUnique'
  BY NextType, NextOpenFiles, NextTree, NextNames
<1> QED  BY <1>1, <1>2, PTL DEF Spec

\* What a directory lists changes only by Format, or when the user of the descriptor
\* of the call may write to it, and to the other directory of a Rename: not when
\* entries are moved or deleted elsewhere, though all lists of children share one
\* table, and not when the image is mounted again.
THEOREM OnlyWritersChangeListings ==
    ASSUME TreeSafeUses
    PROVE  Spec => OnlyWritersChangeDirectories
<1> DEFINE Inv == TypeOK /\ OpenFilesAreFiles /\ TreeInv /\ FlushedShape
<1>1. Init => Inv
  <2>1. Init => FlushedShape
    BY InitType, NormalisedShape DEF Init, TypeOK, FlushedShape
  <2> QED  BY <2>1, InitType, InitOpenFiles, InitTree
<1>2. Inv /\ [Next]_vars => Inv'
  BY NextType, NextOpenFiles, NextTree, NextFlushedShape DEF TreeInv
<1>3. Inv /\ [Next]_vars =>
         [\A d \in FstIndices : DirectoryChanges(d) =>
             /\ FormatCall \/ NamespaceCall
             /\ \A fd \in PathFds :
                   \/ IsOpen(fd) /\ HasPermission(superblock.fst[d], handles[fd].uid,
                                                 handles[fd].gid, {"Write"})
                   \/ ~NamespaceCallOn(fd)]_vars
  BY NextOnlyWriters DEF TreeInv
<1> QED  BY <1>1, <1>2, <1>3, PTL DEF Spec, OnlyWritersChangeDirectories

\* An open file can always be reached from the root: no directory above it is
\* deleted, replaced or moved away, into itself even.
THEOREM OpenFilesStayLiveFiles ==
    ASSUME TreeSafeUses
    PROVE  Spec => []OpenFilesLive
<1>1. Init => TypeOK /\ OpenFilesAreFiles /\ TreeInv /\ OpenFilesLive
  <2>1. Init => OpenFilesLive
    BY HandleIdTypes DEF Init, OpenFilesLive, NewHandle
  <2> QED  BY <2>1, InitType, InitOpenFiles, InitTree
<1>2. TypeOK /\ OpenFilesAreFiles /\ TreeInv /\ OpenFilesLive /\ [Next]_vars =>
         TypeOK' /\ OpenFilesAreFiles' /\ TreeInv' /\ OpenFilesLive'
  BY NextType, NextOpenFiles, NextTree, OpenFilesStayLive DEF TreeInv
<1> QED  BY <1>1, <1>2, PTL DEF Spec

-----------------------------------------------------------------------------
(* The chains of the files stay disjoint lists of data clusters in memory  *)
(* and on the NAND, and no cluster in use is outside them, whatever the    *)
(* client calls but paths through a file, renames onto a directory above   *)
(* or to a path below itself.                                              *)

Chains(sb) ==
    [k \in PointerKinds |->
        [p \in U16 |->
            IF k = "head"
            THEN IF p \in FstIndices /\ IsFile(sb.fst[p]) THEN sb.fst[p].sub ELSE NIL
            ELSE IF p \in Clusters THEN sb.fat[p] ELSE NIL]]

\* What holds of all files, also those out of reach from the root.
FatSound(sb) ==
    /\ AreChains(Chains(sb))
    /\ \A f \in FstIndices : IsFile(sb.fst[f]) =>
          sb.fst[f].sub \in Clusters \cup {CLUSTER_LAST_IN_CHAIN}
    /\ \A c \in Clusters \ DataClusters : sb.fat[c] = CLUSTER_RESERVED

FilesLive(sb) == \A f \in FstIndices : IsFile(sb.fst[f]) => f \in Live(sb)

-----------------------------------------------------------------------------

LEMMA ChainPointers ==
    ASSUME NEW sb
    PROVE  /\ \A c \in Clusters : Chains(sb)["cell"][c] = sb.fat[c]
           /\ \A f \in FstIndices :
                 Chains(sb)["head"][f] = IF IsFile(sb.fst[f]) THEN sb.fst[f].sub
                                                              ELSE NIL
           /\ \A p \in U16 :
                 /\ Chains(sb)["cell"][p] = IF p \in Clusters THEN sb.fat[p] ELSE NIL
                 /\ Chains(sb)["head"][p] = IF p \in FstIndices /\ IsFile(sb.fst[p])
                                            THEN sb.fst[p].sub ELSE NIL
BY FatNumbers DEF Chains

LEMMA ChainOfFile ==
    ASSUME NEW sb, NEW f \in FstIndices
    PROVE  Chain(Chains(sb), f) = IF IsFile(sb.fst[f]) THEN ChainOf(sb, f) ELSE {}
<1> DEFINE g == Chains(sb)
           A == [c \in Clusters |-> {g["cell"][c]} \cap Clusters]
           B == [c \in Clusters |-> {sb.fat[c]} \cap Clusters]
<1>1. \A from : Reachable(A, from) = Reachable(B, from)
  <2>1. \A c \in Clusters : g["cell"][c] = sb.fat[c]
    BY ChainPointers
  <2> HIDE DEF g
  <2>2. DOMAIN A = DOMAIN B /\ \A c \in DOMAIN A : A[c] = B[c]
    BY <2>1
  <2> HIDE DEF A, B
  <2> QED  BY <2>2, SameReachable
<1>2. CASE IsFile(sb.fst[f])
  <2>1. g["head"][f] = sb.fst[f].sub
    BY <1>2, ChainPointers
  <2> HIDE DEF g
  <2>2. Chain(g, f) = Reachable(A, {sb.fst[f].sub} \cap Clusters)
    BY <2>1, Zenon DEF Chain
  <2>3. ChainOf(sb, f) = Reachable(B, {sb.fst[f].sub} \cap Clusters)
    BY Zenon DEF ChainOf, ClusterChain
  <2> HIDE DEF A, B
  <2> QED  BY <1>1, <1>2, <2>2, <2>3 DEF g
<1>3. CASE ~IsFile(sb.fst[f])
  <2>1. g["head"][f] \notin Clusters
    BY <1>3, ChainPointers, FatNumbers
  <2> DEFINE none == Clusters \ Clusters
  <2>2. Chain(g, f) \subseteq none
    <3>1. none \in SUBSET Clusters /\ \A c \in none : FALSE
      OBVIOUS
    <3> HIDE DEF none, g
    <3> QED  BY <2>1, <3>1, ChainIsLeast
  <2> QED  BY <1>3, <2>2
<1> QED  BY <1>2, <1>3

\* In that case FatOK says the same of the files that can be reached.
LEMMA SoundFatIsWellFormed ==
    ASSUME NEW sb, FatSound(sb), FilesLive(sb)
    PROVE  FatWellFormed(sb)
<1> DEFINE g == Chains(sb)
           chains == {[first |-> sb.fst[f].sub, file |-> f,
                       clusters |-> ChainOf(sb, f)] : f \in LiveFiles(sb)}
<1>1. /\ LiveFiles(sb) \subseteq FstIndices
      /\ \A f \in FstIndices : f \in LiveFiles(sb) <=> IsFile(sb.fst[f])
  <2>1. Live(sb) \subseteq FstIndices
    BY ReachableInDomain, RootInTree DEF Live, Traversal
  <2> QED  BY <2>1 DEF FilesLive, LiveFiles
<1>2. AreChains(g)
  BY DEF FatSound
<1>3. \A f \in LiveFiles(sb) :
         /\ ChainOf(sb, f) = Chain(g, f)
         /\ ChainOf(sb, f) \subseteq Taken(g)
         /\ g["head"][f] = sb.fst[f].sub
         /\ sb.fst[f].sub \in Clusters \cup {CLUSTER_LAST_IN_CHAIN}
  <2>1. \A f \in FstIndices : Chain(g, f) \subseteq Taken(g)
    BY <1>2, ChainTaken
  <2> QED  BY <1>1, <2>1, ChainOfFile, ChainPointers DEF FatSound
<1>4. Taken(g) = {c \in Clusters :
                     sb.fat[c] \in Clusters \cup {CLUSTER_LAST_IN_CHAIN}}
  BY ChainPointers DEF Taken
<1>5. Taken(g) \subseteq DataClusters
  BY <1>4, FatNumbers DEF FatSound
<1>6. \A f \in LiveFiles(sb) :
         {sb.fst[f].sub} \cup {sb.fat[c] : c \in ChainOf(sb, f)} \subseteq
             ChainOf(sb, f) \cup {CLUSTER_LAST_IN_CHAIN}
  <2> SUFFICES ASSUME NEW f \in LiveFiles(sb)
               PROVE  /\ sb.fst[f].sub \in ChainOf(sb, f) \cup {CLUSTER_LAST_IN_CHAIN}
                      /\ \A c \in ChainOf(sb, f) : sb.fat[c] \in
                            ChainOf(sb, f) \cup {CLUSTER_LAST_IN_CHAIN}
    OBVIOUS
  <2>1. \A c \in ChainOf(sb, f) :
           /\ sb.fat[c] = g["cell"][c]
           /\ sb.fat[c] \in Clusters \cup {CLUSTER_LAST_IN_CHAIN}
    BY <1>3, <1>4, ChainPointers
  <2> HIDE DEF g
  <2> QED  BY <1>3, <2>1, ChainIsClosed
<1>7. \A e, f \in LiveFiles(sb) : e # f => ChainOf(sb, e) \cap ChainOf(sb, f) = {}
  <2> HIDE DEF g
  <2> QED  BY <1>1, <1>2, <1>3, ChainsDisjoint
<1>8. Taken(g) = UNION {ChainOf(sb, f) : f \in LiveFiles(sb)}
  <2>1. ASSUME NEW c \in Taken(g) PROVE \E f \in LiveFiles(sb) : c \in ChainOf(sb, f)
    <3>1. PICK f \in FstIndices : c \in Chain(g, f)
      BY <1>2 DEF AreChains
    <3> QED  BY <1>1, <3>1, ChainOfFile
  <2> QED  BY <1>3, <2>1
<1>9. UNION {x.clusters : x \in chains} = UNION {ChainOf(sb, f) : f \in LiveFiles(sb)}
  <2>1. \A x \in chains : x.file \in LiveFiles(sb) /\ x.clusters = ChainOf(sb, x.file)
    OBVIOUS
  <2>2. ASSUME NEW f \in LiveFiles(sb)
        PROVE  \E x \in chains : x.clusters = ChainOf(sb, f)
    <3> DEFINE x == [first |-> sb.fst[f].sub, file |-> f, clusters |-> ChainOf(sb, f)]
    <3>1. x \in chains /\ x.clusters = ChainOf(sb, f)
      OBVIOUS
    <3> QED  BY <3>1
  <2> HIDE DEF chains
  <2> QED  BY <2>1, <2>2
<1> HIDE DEF g
<1>10. /\ \A x \in chains :
             /\ x.clusters \subseteq DataClusters
             /\ {x.first} \cup {sb.fat[c] : c \in x.clusters} \subseteq
                   x.clusters \cup {CLUSTER_LAST_IN_CHAIN}
       /\ \A x, y \in chains :
             x.file # y.file => x.clusters \cap y.clusters = {}
  BY <1>3, <1>5, <1>6, <1>7
<1>11. {c \in Clusters : sb.fat[c] \in Clusters \cup {CLUSTER_LAST_IN_CHAIN}}
          = UNION {x.clusters : x \in chains}
  BY <1>4, <1>8, <1>9
<1> QED  BY <1>10, <1>11 DEF FatWellFormed

-----------------------------------------------------------------------------
(* Edits of the superblock.                                                *)

\* s2 has the files of s1 without those in D, with the same first clusters.
FilesWithout(s1, s2, D) ==
    \A f \in FstIndices :
        /\ IsFile(s2.fst[f]) <=> IsFile(s1.fst[f]) /\ f \notin D
        /\ IsFile(s2.fst[f]) => s2.fst[f].sub = s1.fst[f].sub

SameFiles(s1, s2) == s2.fat = s1.fat /\ FilesWithout(s1, s2, {})

LEMMA SameFilesKeepFat ==
    ASSUME NEW s1, NEW s2, FatSound(s1), SameFiles(s1, s2)
    PROVE  FatSound(s2)
<1>1. Chains(s2) = Chains(s1)
  BY DEF Chains, SameFiles, FilesWithout
<1> QED  BY <1>1 DEF FatSound, SameFiles, FilesWithout

\* The chains of the deleted files are freed.
LEMMA FreeingKeepsFat ==
    ASSUME NEW s1, NEW s2, NEW D \in SUBSET FstIndices, FatSound(s1),
           \A f \in D : IsFile(s1.fst[f]), FilesWithout(s1, s2, D),
           s2.fat = FreeClusters(s1.fat, UNION {ChainOf(s1, f) : f \in D})
    PROVE  FatSound(s2)
<1> DEFINE g == Chains(s1)
           h == Chains(s2)
           freed == UNION {Chain(g, f) : f \in D}
<1>1. freed = UNION {ChainOf(s1, f) : f \in D}
  <2>1. \A f \in D : Chain(g, f) = ChainOf(s1, f)
    BY ChainOfFile
  <2> QED  BY <2>1
<1>2. freed \subseteq Taken(g)
  <2> SUFFICES ASSUME NEW f \in D PROVE Chain(g, f) \subseteq Taken(g)
    OBVIOUS
  <2> QED  BY ChainTaken DEF FatSound
<1>3. \A c \in Clusters : s2.fat[c] = IF c \in freed THEN CLUSTER_UNUSED
                                                   ELSE s1.fat[c]
  BY <1>1 DEF FreeClusters
<1>4. Taken(g) \subseteq Clusters
  BY DEF Taken
<1>5. Frees(g, h, D)
  <2>1. \A f \in U16 \ D : h["head"][f] = g["head"][f]
    BY ChainPointers DEF FilesWithout
  <2>2. \A f \in D : h["head"][f] \notin Clusters
    BY ChainPointers, FatNumbers DEF FilesWithout
  <2>3. \A c \in U16 : h["cell"][c] = IF c \in freed THEN CLUSTER_UNUSED
                                                    ELSE g["cell"][c]
    <3> SUFFICES ASSUME NEW c \in U16
                 PROVE  h["cell"][c] = IF c \in freed THEN CLUSTER_UNUSED
                                                      ELSE g["cell"][c]
      OBVIOUS
    <3>1. CASE c \in Clusters
      BY <1>3, <3>1, ChainPointers
    <3>2. CASE c \notin Clusters
      BY <1>2, <1>4, <3>2, ChainPointers
    <3> QED  BY <3>1, <3>2
  <2> QED  BY <2>1, <2>2, <2>3 DEF Frees
<1>6. AreChains(h)
  <2> HIDE DEF g, h
  <2> QED  BY <1>5, FreeingKeepsChains DEF FatSound, g
<1>7. \A c \in Clusters \ DataClusters : s2.fat[c] = CLUSTER_RESERVED
  <2>1. \A c \in Clusters \ DataClusters : g["cell"][c] = CLUSTER_RESERVED
    BY ChainPointers DEF FatSound
  <2>2. \A c \in Clusters \ DataClusters : c \notin Taken(g)
    BY <2>1, FatNumbers DEF Taken
  <2> QED  BY <1>2, <1>3, <2>2 DEF FatSound
<1> QED  BY <1>6, <1>7 DEF FatSound, FilesWithout

\* A new file has no clusters.
LEMMA NewFileKeepsFat ==
    ASSUME NEW s1, NEW s2, NEW child \in FstIndices, FatSound(s1), s2.fat = s1.fat,
           ~IsFile(s1.fst[child]), s2.fst[child].sub = CLUSTER_LAST_IN_CHAIN,
           \A f \in FstIndices \ {child} :
              /\ IsFile(s2.fst[f]) <=> IsFile(s1.fst[f])
              /\ IsFile(s2.fst[f]) => s2.fst[f].sub = s1.fst[f].sub
    PROVE  FatSound(s2)
<1> DEFINE g == Chains(s1)
           h == Chains(s2)
<1>1. \A p \in U16 : /\ h["cell"][p] = g["cell"][p]
                     /\ \/ h["head"][p] = g["head"][p]
                        \/ h["head"][p] \notin Clusters /\ g["head"][p] \notin Clusters
  <2> SUFFICES ASSUME NEW p \in U16
               PROVE  /\ h["cell"][p] = g["cell"][p]
                      /\ \/ h["head"][p] = g["head"][p]
                         \/ h["head"][p] \notin Clusters /\ g["head"][p] \notin Clusters
    OBVIOUS
  <2>1. h["cell"][p] = g["cell"][p]
    BY ChainPointers
  <2>2. CASE p = child
    BY <2>1, <2>2, ChainPointers, FatNumbers
  <2>3. CASE p # child
    BY <2>1, <2>3, ChainPointers
  <2> QED  BY <2>2, <2>3
<1>2. AreChains(h)
  <2> HIDE DEF g, h
  <2> QED  BY <1>1, SamePointersSameChains DEF FatSound, g, PointerKinds
<1> QED  BY <1>2 DEF FatSound

LEMMA NormalisedKeepsFat ==
    ASSUME NEW sb \in Superblock, FatSound(sb)
    PROVE  FatSound(Normalised(sb))
<1> DEFINE g == Chains(sb)
           s2 == Normalised(sb)
           h == Chains(s2)
<1>1. /\ s2.fst = sb.fst
      /\ \A c \in Clusters : s2.fat[c] = IF sb.fat[c] = NIL THEN CLUSTER_UNUSED
                                                        ELSE sb.fat[c]
  BY DEF Normalised, Superblock
<1> HIDE DEF s2
<1>2. \A p \in U16 : /\ h["head"][p] = g["head"][p]
                     /\ \/ h["cell"][p] = g["cell"][p]
                        \/ h["cell"][p] = CLUSTER_UNUSED /\ g["cell"][p] = NIL
  BY <1>1, ChainPointers
<1>3. AreChains(h)
  <2> HIDE DEF g, h
  <2> QED  BY <1>2, FatNumbers, SamePointersSameChains DEF FatSound, g, PointerKinds
<1>4. \A f \in FstIndices : IsFile(s2.fst[f]) =>
         s2.fst[f].sub \in Clusters \cup {CLUSTER_LAST_IN_CHAIN}
  BY <1>1 DEF FatSound
<1>5. CLUSTER_RESERVED # NIL
  BY DEF CLUSTER_RESERVED, NIL
<1>6. \A c \in Clusters \ DataClusters : s2.fat[c] = CLUSTER_RESERVED
  BY <1>1, <1>5 DEF FatSound
<1> QED  BY <1>3, <1>4, <1>6 DEF FatSound, s2

LEMMA EmptyFatIsSound ==
    ASSUME NEW sb, \A f \in FstIndices : ~IsFile(sb.fst[f]),
           \A c \in Clusters : sb.fat[c] \in {CLUSTER_UNUSED, NIL, CLUSTER_RESERVED},
           \A c \in Clusters \ DataClusters : sb.fat[c] = CLUSTER_RESERVED
    PROVE  FatSound(sb) /\ FilesLive(sb)
<1> DEFINE g == Chains(sb)
<1>1. \A p \in U16, k \in PointerKinds : g[k][p] \notin Clusters
  BY ChainPointers, FatNumbers DEF PointerKinds
<1>2. \A c \in Clusters : c \notin Taken(g)
  BY ChainPointers, FatNumbers DEF Taken
<1>3. AreChains(g)
  <2> HIDE DEF g
  <2> QED  BY <1>1, <1>2 DEF AreChains, Taken
<1> QED  BY <1>3 DEF FatSound, FilesLive

LEMMA FormattedFields ==
    LET sb == FormattedSuperblock
    IN  /\ \A f \in FstIndices : ~IsFile(sb.fst[f])
        /\ \A c \in Clusters :
              /\ sb.fat[c] \in {CLUSTER_UNUSED, CLUSTER_RESERVED}
              /\ c \notin DataClusters => sb.fat[c] = CLUSTER_RESERVED
<1> DEFINE sb == FormattedSuperblock
<1>1. \A f \in FstIndices : ~IsFile(sb.fst[f])
  BY DEF FormattedSuperblock, IsFile, RootEntry, EmptyEntry
<1>2. \A c \in Clusters : /\ sb.fat[c] \in {CLUSTER_UNUSED, CLUSTER_RESERVED}
                          /\ c \notin DataClusters => sb.fat[c] = CLUSTER_RESERVED
  BY SffsAssumption
     DEF SffsAssumption, FormattedSuperblock, DataClusters, Clusters
<1> QED  BY <1>1, <1>2

LEMMA FormattedFat ==
    FatSound(FormattedSuperblock) /\ FilesLive(FormattedSuperblock)
BY FormattedFields, EmptyFatIsSound

-----------------------------------------------------------------------------
(* The namespace calls.                                                    *)

LEMMA CreatedFat ==
    ASSUME TypeOK, IsFstTree(superblock), FatSound(superblock),
           NEW fd \in HandleIds, NEW path \in Paths,
           NEW type \in {"file", "directory"}, NEW perm \in Permissions,
           CreateCode(fd, path, type) = "Success", ~ThroughFile(path)
    PROVE  LET new == Created(fd, path, type, perm)
           IN  FatSound(new) /\ (FilesLive(superblock) => FilesLive(new))
<1> DEFINE parent == GetFstIndex(superblock, SplitPath(path).parent)
           child  == GetUnusedFstIndex(superblock)
           new    == Created(fd, path, type, perm)
           g      == Pointers(superblock)
           h      == Pointers(new)
<1>1. /\ IsDirectory(superblock.fst[parent]) /\ parent \in FstIndices
      /\ child \in FstIndices /\ superblock.fst[child].type = "none"
      /\ new.fat = superblock.fat /\ new.fst[child].type = type
      /\ type = "file" => new.fst[child].sub = CLUSTER_LAST_IN_CHAIN
      /\ \A i \in FstIndices \ {parent, child} : new.fst[i] = superblock.fst[i]
      /\ IsFstTree(new) /\ Links(g, h, child, parent)
      /\ \A i \in FstIndices \ {child} : SameEntry(superblock, new, i)
  BY CreatedChild
<1> HIDE DEF new, parent, child
<1>2. /\ ~IsFile(superblock.fst[child])
      /\ \A f \in FstIndices \ {child} :
            /\ IsFile(new.fst[f]) <=> IsFile(superblock.fst[f])
            /\ IsFile(new.fst[f]) => new.fst[f].sub = superblock.fst[f].sub
  BY <1>1 DEF IsFile, IsDirectory, SameEntry
<1>3. FatSound(new)
  <2>1. CASE type = "file"
    BY <1>1, <1>2, <2>1, NewFileKeepsFat
  <2>2. CASE type = "directory"
    <3>1. ~IsFile(new.fst[child])
      BY <1>1, <2>2 DEF IsFile
    <3>2. SameFiles(superblock, new)
      BY <1>1, <1>2, <3>1 DEF SameFiles, FilesWithout
    <3> QED  BY <3>2, SameFilesKeepFat
  <2> QED  BY <2>1, <2>2
<1>4. FilesLive(superblock) => FilesLive(new)
  <2>1. /\ Live(superblock) = FromRoot(g) /\ Live(new) = FromRoot(h)
        /\ FromRoot(h) = FromRoot(g) \cup {child}
    BY <1>1, LinkTree, TreeFacts
  <2> QED  BY <1>2, <2>1 DEF FilesLive
<1> QED  BY <1>3, <1>4 DEF new

LEMMA RemovalKeepsAllocation ==
    ASSUME NEW sb \in Superblock, NEW parent, NEW child
    PROVE  RemoveFstEntryFromChain(sb, parent, child).sb.fat = sb.fat
BY DEF RemoveFstEntryFromChain, Cleared, Superblock

\* Unlinking edits neither the FAT nor the first cluster of a file.
LEMMA UnlinkedFiles ==
    ASSUME NEW s1 \in Superblock, NEW parent \in FstIndices,
           IsDirectory(s1.fst[parent]), NEW child \in Children(s1, parent)
    PROVE  LET s2 == RemoveFstEntryFromChain(s1, parent, child).sb
           IN  /\ s2.fat = s1.fat
               /\ \A f \in FstIndices \ {child} :
                     s2.fst[f].type = s1.fst[f].type
               /\ s2.fst[child].type = "none"
               /\ \A f \in FstIndices : IsFile(s1.fst[f]) =>
                     s2.fst[f].sub = s1.fst[f].sub
<1> DEFINE s2 == RemoveFstEntryFromChain(s1, parent, child).sb
<1>1. PICK q \in FstIndices, k \in Kinds :
         /\ \/ q = parent /\ k = "sub"
            \/ q \in Children(s1, parent) /\ k = "sib"
         /\ Unlinked(s1, s2, child, q, k)
  BY RemovalUnlinks
<1>2. s2.fat = s1.fat
  BY RemovalKeepsAllocation
<1> HIDE DEF s2
<1>3. ASSUME NEW f \in FstIndices, IsFile(s1.fst[f])
      PROVE  s2.fst[f].sub = s1.fst[f].sub
  <2>1. Field(s2.fst[f], "sub") = Field(s1.fst[f], "sub")
    <3>1. f # parent
      BY <1>3 DEF IsFile, IsDirectory
    <3> QED  BY <1>1, <3>1 DEF Unlinked, Kinds
  <2> QED  BY <2>1 DEF Field
<1>4. /\ \A f \in FstIndices \ {child} : s2.fst[f].type = s1.fst[f].type
      /\ s2.fst[child].type = "none"
  BY <1>1 DEF Unlinked, SameEntry
<1> QED  BY <1>2, <1>3, <1>4 DEF s2

\* A deletion clears every file within the entry.
LEMMA EmptiedFiles ==
    ASSUME NEW index \in FstIndices,
           NEW i \in Within(Pointers(superblock), index),
           ~IsDirectory(superblock.fst[i])
    PROVE  i \in Emptied(index)
<1> DEFINE g == Pointers(superblock)
<1>1. CASE IsDirectory(superblock.fst[index])
  <2>1. i \in Traversal(superblock, index, IsDirectory)
    BY <1>1, TraversalIsBelow DEF Within
  <2> QED  BY <1>1, <2>1 DEF Emptied
<1>2. CASE ~IsDirectory(superblock.fst[index])
  <2>1. g["sub"][index] = NIL
    BY <1>2, PointersOf
  <2> DEFINE none == FstIndices \ FstIndices
  <2>2. Below(g, index) \subseteq none
    <3>1. none \in SUBSET FstIndices /\ ClosedIn(g, none)
          /\ (g["sub"][index] \in FstIndices => g["sub"][index] \in none)
      BY <2>1, NilIsNoIndex DEF ClosedIn
    <3> HIDE DEF none, g
    <3> QED  BY <3>1, BelowIsLeast
  <2> QED  BY <1>2, <2>2 DEF Within, Emptied
<1> QED  BY <1>1, <1>2

LEMMA ContentsFat ==
    ASSUME TypeOK, IsFstTree(superblock), FatSound(superblock),
           NEW index \in FromRoot(Pointers(superblock))
    PROVE  /\ FatSound(DeleteContents(index))
           /\ FilesWithout(superblock, DeleteContents(index), Emptied(index))
<1> DEFINE deleted == DeleteContents(index)
           D == Emptied(index)
           g == Pointers(superblock)
<1>1. /\ IsTree(g) /\ FromRoot(g) \subseteq FstIndices /\ index \in FstIndices
      /\ \A i \in FromRoot(g) : superblock.fst[i].type # "none"
  BY TreeFacts DEF IsFstTree
<1>2. superblock.fst \in [FstIndices -> FstEntry]
  BY DEF TypeOK, Superblock
<1>3. /\ \A i \in FstIndices : deleted.fst[i] = IF i \in D
                                               THEN ClearMode(superblock.fst[i])
                                               ELSE superblock.fst[i]
      /\ deleted.fat = FreeClusters(superblock.fat,
            UNION {ClusterChain(superblock, superblock.fst[f].sub) : f \in D})
      /\ \A i \in D : /\ i \in FstIndices /\ ~IsDirectory(superblock.fst[i])
                      /\ i \in Within(g, index)
  BY <1>1, ContentsCleared
<1> HIDE DEF deleted, D, g
<1>4. Within(g, index) \subseteq FromRoot(g)
  BY <1>1, BelowInTree DEF Within, g
<1>5. \A f \in D : IsFile(superblock.fst[f])
  <2> SUFFICES ASSUME NEW f \in D PROVE IsFile(superblock.fst[f])
    OBVIOUS
  <2>1. superblock.fst[f].type \in EntryType /\ superblock.fst[f].type # "none"
    BY <1>1, <1>2, <1>3, <1>4 DEF FstEntry
  <2> QED  BY <1>3, <2>1 DEF IsFile, IsDirectory, EntryType
<1>6. FilesWithout(superblock, deleted, D)
  <2>1. ASSUME NEW f \in D PROVE ~IsFile(deleted.fst[f])
    <3>1. superblock.fst[f] \in FstEntry /\ f \in FstIndices
      BY <1>2, <1>3
    <3>2. deleted.fst[f].type = "none"
      BY <1>3, <3>1, FieldUpdates
    <3> QED  BY <3>2 DEF IsFile
  <2> QED  BY <1>3, <2>1 DEF FilesWithout
<1>7. D \in SUBSET FstIndices
  BY <1>3
<1>8. deleted.fat = FreeClusters(superblock.fat,
                        UNION {ChainOf(superblock, f) : f \in D})
  BY <1>3 DEF ChainOf
<1>9. FatSound(deleted)
  BY <1>5, <1>6, <1>7, <1>8, FreeingKeepsFat
<1> QED  BY <1>6, <1>9 DEF deleted, D

LEMMA RemovedFat ==
    ASSUME TypeOK, IsFstTree(superblock), FatSound(superblock),
           NEW parent \in FromRoot(Pointers(superblock)),
           IsDirectory(superblock.fst[parent]),
           NEW index \in Children(superblock, parent)
    PROVE  LET new == RemoveFstEntryFromChain(DeleteContents(index), parent,
                                              index).sb
           IN  FatSound(new) /\ (FilesLive(superblock) => FilesLive(new))
<1> DEFINE deleted == DeleteContents(index)
           new == RemoveFstEntryFromChain(deleted, parent, index).sb
           g   == Pointers(superblock)
<1>1. /\ parent \in FstIndices /\ index \in FromRoot(g) /\ index \in FstIndices
      /\ Children(superblock, parent) = ChildrenOf(g, parent)
      /\ Live(superblock) = FromRoot(g) /\ FromRoot(g) \subseteq FstIndices
  BY TreeFacts
<1>2. /\ FatSound(deleted)
      /\ FilesWithout(superblock, deleted, Emptied(index))
  BY <1>1, ContentsFat
<1>3. /\ deleted \in Superblock /\ Pointers(deleted) = g
      /\ \A i \in FstIndices :
            IsDirectory(deleted.fst[i]) <=> IsDirectory(superblock.fst[i])
  BY <1>1, ContentsKeepPointers
<1>4. Removed(superblock, new, index)
  BY RemovalKeepsTree
<1> HIDE DEF deleted
<1>5. index \in Children(deleted, parent) /\ IsDirectory(deleted.fst[parent])
  BY <1>1, <1>3, ChildrenInGraph
<1>6. /\ new.fat = deleted.fat
      /\ \A f \in FstIndices \ {index} : new.fst[f].type = deleted.fst[f].type
      /\ new.fst[index].type = "none"
      /\ \A f \in FstIndices : IsFile(deleted.fst[f]) =>
            new.fst[f].sub = deleted.fst[f].sub
  BY <1>1, <1>3, <1>5, UnlinkedFiles
<1> HIDE DEF new
<1>7. ASSUME NEW f \in FstIndices, IsFile(deleted.fst[f])
      PROVE  /\ IsFile(superblock.fst[f])
             /\ f # index /\ f \notin Within(g, index)
  <2>1. IsFile(superblock.fst[f]) /\ f \notin Emptied(index)
    BY <1>2, <1>7 DEF FilesWithout
  <2>2. f \notin Within(g, index)
    BY <1>1, <2>1, EmptiedFiles DEF IsFile, IsDirectory
  <2> QED  BY <2>1, <2>2 DEF Within
<1>8. \A f \in FstIndices : IsFile(new.fst[f]) <=> IsFile(deleted.fst[f])
  BY <1>6, <1>7 DEF IsFile
<1>9. FatSound(new)
  <2>1. SameFiles(deleted, new)
    BY <1>6, <1>8 DEF SameFiles, FilesWithout
  <2> QED  BY <1>2, <2>1, SameFilesKeepFat
<1>10. FilesLive(superblock) => FilesLive(new)
  <2>1. Live(new) = FromRoot(g) \ Within(g, index)
    BY <1>4, TreeFacts DEF Removed
  <2> QED  BY <1>1, <1>7, <1>8, <2>1 DEF FilesLive
<1> QED  BY <1>9, <1>10 DEF new, deleted

LEMMA RelinkedAllocation ==
    ASSUME NEW sb \in Superblock, NEW index, NEW saved, NEW parent, NEW name
    PROVE  Relinked(sb, index, saved, parent, name).fat = sb.fat
BY DEF Relinked, Superblock

LEMMA MovedFiles ==
    ASSUME NEW s1 \in Superblock,
           NEW old_parent \in FstIndices, IsDirectory(s1.fst[old_parent]),
           NEW index \in Children(s1, old_parent), index \in FstIndices,
           NEW new_parent \in FstIndices, IsDirectory(s1.fst[new_parent]),
           NEW name, StoredName(name) \in Names
    PROVE  LET unlinked == RemoveFstEntryFromChain(s1, old_parent, index)
           IN  SameFiles(s1, Relinked(unlinked.sb, index, s1.fst[index],
                                      new_parent, name))
<1> DEFINE s2  == RemoveFstEntryFromChain(s1, old_parent, index).sb
           new == Relinked(s2, index, s1.fst[index], new_parent, name)
<1>1. s2 \in Superblock
  BY RemovalUnlinks
<1>2. /\ s2.fat = s1.fat
      /\ \A f \in FstIndices \ {index} : s2.fst[f].type = s1.fst[f].type
      /\ \A f \in FstIndices : IsFile(s1.fst[f]) =>
            s2.fst[f].sub = s1.fst[f].sub
  BY UnlinkedFiles
<1> HIDE DEF s2
<1>3. s1.fst[index] \in FstEntry
  BY DEF Superblock
<1>4. /\ new.fat = s2.fat
      /\ \A f \in FstIndices :
            /\ new.fst[f].sub = IF f = new_parent THEN index ELSE s2.fst[f].sub
            /\ new.fst[f].type = IF f = index THEN s1.fst[index].type
                                              ELSE s2.fst[f].type
  BY <1>1, <1>3, RelinkedAllocation, RelinkedFields
<1> HIDE DEF new
<1>5. \A f \in FstIndices : new.fst[f].type = s1.fst[f].type
  BY <1>2, <1>4
<1>6. ~IsFile(s1.fst[new_parent])
  BY DEF IsFile, IsDirectory
<1>7. SameFiles(s1, new)
  BY <1>2, <1>4, <1>5, <1>6 DEF SameFiles, FilesWithout, IsFile
<1> QED  BY <1>7 DEF new, s2

LEMMA RenamedFat ==
    ASSUME TypeOK, OpenFilesAreFiles, IsFstTree(superblock),
           FatSound(superblock), NEW fd \in HandleIds,
           NEW old_path \in Paths, NEW new_path \in Paths,
           RenameCode(fd, old_path, new_path) = "Success",
           ~ThroughFile(old_path), ~ThroughFile(new_path),
           ~IsProperPrefix(new_path, old_path)
    PROVE  LET new == Renamed(old_path, new_path).sb
           IN  /\ FatSound(new)
               /\ FilesLive(superblock) /\ ~IsProperPrefix(old_path, new_path)
                     => FilesLive(new)
<1> DEFINE old_parent == GetFstIndex(superblock, SplitPath(old_path).parent)
           new_parent == GetFstIndex(superblock, SplitPath(new_path).parent)
           index      == ChildIndex(superblock, old_parent,
                                    SplitPath(old_path).file_name)
           new_index  == ChildIndex(superblock, new_parent,
                                    SplitPath(new_path).file_name)
           name       == SplitPath(new_path).file_name
           replaced   == Replaced(new_parent, new_index)
           s1         == replaced.sb
           unlinked   == RemoveFstEntryFromChain(s1, old_parent, index)
           new        == Relinked(unlinked.sb, index, s1.fst[index], new_parent,
                                  name)
           g          == Pointers(superblock)
           outside    == ~IsProperPrefix(old_path, new_path)
<1>1. /\ old_parent \in FromRoot(g) /\ IsDirectory(superblock.fst[old_parent])
      /\ new_parent \in FromRoot(g) /\ IsDirectory(superblock.fst[new_parent])
      /\ index \in Children(superblock, old_parent)
      /\ index \in FstIndices /\ StoredName(name) \in Names
      /\ new_index # NIL => /\ new_index \in Children(superblock, new_parent)
                            /\ Deletable(new_index)
                            /\ index \notin Within(g, new_index)
      /\ outside => new_parent \notin Within(g, index)
      /\ Renamed(old_path, new_path) =
            IF replaced.code # "Success" THEN replaced
            ELSE IF unlinked.code # "Success" THEN unlinked
            ELSE [code |-> "Success", sb |-> new]
  BY RenamePlaces
<1>2. superblock \in Superblock
  BY DEF TypeOK
<1> HIDE DEF old_parent, new_parent, index, new_index, name, outside
<1>3. /\ replaced.code = "Success" /\ s1 \in Superblock /\ IsFstTree(s1)
      /\ old_parent \in FromRoot(Pointers(s1)) /\ IsDirectory(s1.fst[old_parent])
      /\ new_parent \in FromRoot(Pointers(s1)) /\ IsDirectory(s1.fst[new_parent])
      /\ index \in Children(s1, old_parent)
      /\ Within(Pointers(s1), index) \subseteq Within(g, index)
      /\ FatSound(s1) /\ (FilesLive(superblock) => FilesLive(s1))
  <2>1. CASE new_index = NIL
    <3>1. replaced = [code |-> "Success", sb |-> superblock]
      BY <2>1 DEF Replaced
    <3> HIDE DEF replaced
    <3> QED  BY <1>1, <1>2, <3>1
  <2>2. CASE new_index # NIL
    <3>1. replaced = RemoveFstEntryFromChain(DeleteContents(new_index),
                                             new_parent, new_index)
      BY <2>2 DEF Replaced
    <3>2. FatSound(s1) /\ (FilesLive(superblock) => FilesLive(s1))
      <4> HIDE DEF replaced
      <4> QED  BY <1>1, <2>2, <3>1, RemovedFat
    <3> HIDE DEF replaced, s1
    <3>3. s1 = replaced.sb
      BY DEF s1
    <3>4. /\ replaced.code = "Success" /\ s1 \in Superblock
          /\ Removed(superblock, s1, new_index)
          /\ old_parent \in FromRoot(Pointers(s1))
          /\ IsDirectory(s1.fst[old_parent])
          /\ new_parent \in FromRoot(Pointers(s1))
          /\ IsDirectory(s1.fst[new_parent])
          /\ index \in Children(s1, old_parent)
          /\ Within(Pointers(s1), index) \subseteq Within(g, index)
      BY <1>1, <2>2, <3>1, <3>3, ReplacedTree DEF Deletable
    <3> QED  BY <3>2, <3>4 DEF Removed
  <2> QED  BY <2>1, <2>2
<1> HIDE DEF replaced, s1
<1>4. /\ unlinked.code = "Success"
      /\ Moved(s1, new, index, new_parent, name)
  BY <1>1, <1>3, MovingKeepsTree
<1>5. SameFiles(s1, new)
  <2>1. old_parent \in FstIndices /\ new_parent \in FstIndices
    BY <1>3, TreeFacts
  <2> QED  BY <1>1, <1>3, <2>1, MovedFiles
<1> HIDE DEF unlinked, new
<1>6. FatSound(new)
  BY <1>3, <1>5, SameFilesKeepFat
<1>7. FilesLive(superblock) /\ outside => FilesLive(new)
  <2> SUFFICES ASSUME FilesLive(superblock), outside PROVE FilesLive(new)
    OBVIOUS
  <2>1. FromRoot(Pointers(new)) = FromRoot(Pointers(s1)) /\ IsFstTree(new)
    BY <1>1, <1>3, <1>4 DEF Moved
  <2>2. Live(new) = Live(s1)
    BY <1>3, <2>1, TreeFacts
  <2> QED  BY <1>3, <1>5, <2>2 DEF FilesLive, SameFiles, FilesWithout
<1>8. Renamed(old_path, new_path) = [code |-> "Success", sb |-> new]
  BY <1>1, <1>3, <1>4
<1> QED  BY <1>6, <1>7, <1>8 DEF outside

-----------------------------------------------------------------------------
(* Following the chain of a file.                                          *)

\* The clusters that GetClusterForFile comes across.
ClusterWalk(sb, first, index, walk) ==
    walk = [i \in 0..index |->
               IF i = 0 THEN first
               ELSE IF walk[i - 1] \in Clusters THEN sb.fat[walk[i - 1]]
                    ELSE NIL]

LEMMA ClusterWalkExists ==
    ASSUME NEW sb, NEW first, NEW index \in Nat
    PROVE  \E walk : ClusterWalk(sb, first, index, walk)
<1> DEFINE After(v) == IF v \in Clusters THEN sb.fat[v] ELSE NIL
           values == {first, NIL} \cup {sb.fat[c] : c \in Clusters}
           step   == [v \in values |-> [n \in Nat |-> After(v)]]
<1>1. first \in values /\ step \in [values -> [Nat -> values]]
  OBVIOUS
<1>2. PICK f \in [Nat -> values] : Loop(f, first, step, index)
  <2> HIDE DEF values, step
  <2> QED  BY <1>1, LoopExists
<1>3. \A i \in 1..index : f[i] = After(f[i - 1])
  <2> SUFFICES ASSUME NEW i \in 1..index PROVE f[i] = After(f[i - 1])
    OBVIOUS
  <2>1. i \in Nat /\ i - 1 \in Nat
    OBVIOUS
  <2>2. f[i - 1] \in values
    <3> HIDE DEF values
    <3> QED  BY <1>2, <2>1
  <2>3. step[f[i - 1]][i] = After(f[i - 1])
    BY <2>1, <2>2
  <2>4. f[i] = step[f[i - 1]][i]
    BY <1>2 DEF Loop
  <2> QED  BY <2>3, <2>4
<1> DEFINE walk == [i \in 0..index |-> f[i]]
<1>4. \A i \in 0..index : walk[i] = IF i = 0 THEN first ELSE After(walk[i - 1])
  <2> SUFFICES ASSUME NEW i \in 0..index
               PROVE  walk[i] = IF i = 0 THEN first ELSE After(walk[i - 1])
    OBVIOUS
  <2>1. CASE i = 0
    BY <1>2, <2>1 DEF Loop
  <2>2. CASE i # 0
    <3>1. i \in 1..index /\ i - 1 \in 0..index
      BY <2>2
    <3>2. walk[i - 1] = f[i - 1] /\ walk[i] = f[i]
      BY <3>1
    <3> QED  BY <1>3, <2>2, <3>1, <3>2
  <2> QED  BY <2>1, <2>2
<1>5. DOMAIN walk = 0..index /\ walk = [i \in DOMAIN walk |-> walk[i]]
  OBVIOUS
<1>6. ClusterWalk(sb, first, index, walk)
  <2> HIDE DEF walk
  <2> QED  BY <1>4, <1>5 DEF ClusterWalk
<1> QED  BY <1>6

LEMMA ClusterLookup ==
    ASSUME NEW sb, NEW first, NEW index \in Nat
    PROVE  \E walk : /\ ClusterWalk(sb, first, index, walk)
                     /\ GetClusterForFile(sb, first, index) =
                           IF walk[index] \in Clusters THEN walk[index] ELSE NIL
<1> DEFINE walk == CHOOSE w : ClusterWalk(sb, first, index, w)
<1>1. ClusterWalk(sb, first, index, walk)
  BY ClusterWalkExists
<1>2. GetClusterForFile(sb, first, index) =
         IF walk[index] \in Clusters THEN walk[index] ELSE NIL
  BY DEF GetClusterForFile, ClusterWalk
<1> QED  BY <1>1, <1>2

\* One cluster after the other.
LEMMA ClusterStep ==
    ASSUME NEW sb, NEW first, NEW index \in Nat
    PROVE  LET cluster == GetClusterForFile(sb, first, index)
               prev    == GetClusterForFile(sb, first, index - 1)
           IN  /\ index = 0 => cluster = IF first \in Clusters THEN first ELSE NIL
               /\ index # 0 =>
                     cluster = IF prev \in Clusters /\ sb.fat[prev] \in Clusters
                               THEN sb.fat[prev] ELSE NIL
<1> DEFINE cluster == GetClusterForFile(sb, first, index)
           prev    == GetClusterForFile(sb, first, index - 1)
<1>1. PICK v : /\ ClusterWalk(sb, first, index, v)
               /\ cluster = IF v[index] \in Clusters THEN v[index] ELSE NIL
  BY ClusterLookup
<1>2. \A i \in 0..index : v[i] = IF i = 0 THEN first
                                  ELSE IF v[i - 1] \in Clusters
                                       THEN sb.fat[v[i - 1]] ELSE NIL
  BY <1>1 DEF ClusterWalk
<1> HIDE DEF cluster, prev
<1>3. CASE index = 0
  BY <1>1, <1>2, <1>3 DEF cluster
<1>4. CASE index # 0
  <2> DEFINE last == index - 1
  <2>1. last \in Nat /\ last \in 0..index
    BY <1>4
  <2>2. PICK w : /\ ClusterWalk(sb, first, last, w)
                 /\ prev = IF w[last] \in Clusters THEN w[last] ELSE NIL
    BY <2>1, ClusterLookup DEF prev
  <2>3. \A i \in 0..last : w[i] = IF i = 0 THEN first
                                   ELSE IF w[i - 1] \in Clusters
                                        THEN sb.fat[w[i - 1]] ELSE NIL
    BY <2>2 DEF ClusterWalk
  <2>4. v[0] = w[0]
    BY <1>2, <2>1, <2>3
  <2>5. \A i \in 1..last : v[i - 1] = w[i - 1] => v[i] = w[i]
    <3> SUFFICES ASSUME NEW i \in 1..last, v[i - 1] = w[i - 1]
                 PROVE  v[i] = w[i]
      OBVIOUS
    <3>1. i \in 0..index /\ i \in 0..last /\ i # 0
      BY <2>1
    <3> QED  BY <1>2, <2>3, <3>1
  <2>6. v[last] = w[last]
    <3>1. last \in 0..last
      BY <2>1
    <3> HIDE DEF last
    <3> QED  BY <2>1, <2>4, <2>5, <3>1, LoopsAgree
  <2>7. v[index] = IF v[last] \in Clusters THEN sb.fat[v[last]] ELSE NIL
    BY <1>2, <1>4
  <2> HIDE DEF last
  <2> QED  BY <1>1, <1>4, <2>2, <2>6, <2>7, NilIsNoIndex DEF cluster, prev
<1> QED  BY <1>3, <1>4 DEF cluster, prev

LEMMA ClusterInChain ==
    ASSUME NEW sb, NEW f \in FstIndices, IsFile(sb.fst[f]), NEW index \in Nat,
           GetClusterForFile(sb, sb.fst[f].sub, index) \in Clusters
    PROVE  GetClusterForFile(sb, sb.fst[f].sub, index) \in Chain(Chains(sb), f)
<1> DEFINE g == Chains(sb)
           ClusterAt(n) == GetClusterForFile(sb, sb.fst[f].sub, n)
           bad == {n \in Nat : /\ ClusterAt(n) \in Clusters
                               /\ ClusterAt(n) \notin Chain(g, f)}
<1> SUFFICES ASSUME bad # {} PROVE FALSE
  OBVIOUS
<1>1. bad \in SUBSET Nat
  OBVIOUS
<1>2. PICK n \in bad : \A j \in bad : n <= j
  <2> HIDE DEF bad
  <2> QED  BY <1>1, LeastIsMember
<1>3. n \in Nat /\ ClusterAt(n) \in Clusters /\ ClusterAt(n) \notin Chain(g, f)
  OBVIOUS
<1>4. CASE n = 0
  <2>1. ClusterAt(n) = sb.fst[f].sub
    BY <1>3, <1>4, ClusterStep, NilIsNoIndex
  <2>2. g["head"][f] = sb.fst[f].sub
    BY ChainPointers
  <2> HIDE DEF g
  <2> QED  BY <1>3, <2>1, <2>2, ChainIsClosed
<1>5. CASE n # 0
  <2>1. ClusterAt(n - 1) \in Clusters /\ ClusterAt(n) = sb.fat[ClusterAt(n - 1)]
    BY <1>3, <1>5, ClusterStep, NilIsNoIndex
  <2>2. n - 1 \in Nat /\ n - 1 \notin bad
    <3> HIDE DEF bad
    <3> QED  BY <1>2, <1>3, <1>5
  <2>3. ClusterAt(n - 1) \in Chain(g, f)
    BY <2>1, <2>2
  <2>4. g["cell"][ClusterAt(n - 1)] = sb.fat[ClusterAt(n - 1)]
    BY <2>1, ChainPointers
  <2> HIDE DEF g
  <2> QED  BY <1>3, <2>1, <2>3, <2>4, ChainIsClosed
<1> QED  BY <1>4, <1>5

-----------------------------------------------------------------------------
(* The file calls.                                                         *)

LEMMA SubFields ==
    ASSUME NEW sb \in Superblock, NEW k \in FstIndices, NEW pointer \in U16
    PROVE  LET new == [sb EXCEPT !.fst[k].sub = pointer]
           IN  /\ new.fat = sb.fat
               /\ \A i \in FstIndices :
                     /\ new.fst[i].type = sb.fst[i].type
                     /\ new.fst[i].sub = IF i = k THEN pointer ELSE sb.fst[i].sub
<1> DEFINE old   == sb.fst[k]
           entry == [old EXCEPT !.sub = pointer]
           new   == [sb EXCEPT !.fst[k] = entry]
<1>1. old \in FstEntry
  BY DEF Superblock
<1>2. entry.type = old.type /\ entry.sub = pointer
  <2> HIDE DEF old
  <2> QED  BY <1>1 DEF FstEntry
<1> HIDE DEF entry
<1>3. /\ new.fat = sb.fat
      /\ \A i \in FstIndices : new.fst[i] = IF i = k THEN entry ELSE sb.fst[i]
  BY DEF Superblock
<1> HIDE DEF new
<1>4. new.fat = sb.fat /\ \A i \in FstIndices :
         /\ new.fst[i].type = sb.fst[i].type
         /\ new.fst[i].sub = IF i = k THEN pointer ELSE sb.fst[i].sub
  BY <1>2, <1>3
<1> QED  BY <1>4 DEF new, entry

LEMMA SizeFields ==
    ASSUME NEW sb \in Superblock, NEW k \in FstIndices, NEW size
    PROVE  LET new == [sb EXCEPT !.fst[k].size = size]
           IN  /\ new.fat = sb.fat
               /\ \A i \in FstIndices : /\ new.fst[i].type = sb.fst[i].type
                                        /\ new.fst[i].sub = sb.fst[i].sub
<1> DEFINE old   == sb.fst[k]
           entry == [old EXCEPT !.size = size]
           new   == [sb EXCEPT !.fst[k] = entry]
<1>1. old \in FstEntry
  BY DEF Superblock
<1>2. entry.type = old.type /\ entry.sub = old.sub
  <2> HIDE DEF old
  <2> QED  BY <1>1 DEF FstEntry
<1> HIDE DEF entry
<1>3. /\ new.fat = sb.fat
      /\ \A i \in FstIndices : new.fst[i] = IF i = k THEN entry ELSE sb.fst[i]
  BY DEF Superblock
<1> HIDE DEF new
<1>4. new.fat = sb.fat /\ \A i \in FstIndices :
         new.fst[i].type = sb.fst[i].type /\ new.fst[i].sub = sb.fst[i].sub
  BY <1>2, <1>3
<1> QED  BY <1>4 DEF new, entry

\* What a successful WriteFileData does to the FAT and to the files.
LEMMA WriteFields ==
    ASSUME NEW sb \in Superblock, NEW nd, NEW index \in U16, NEW data,
           NEW chain_index \in U16, NEW new_size \in U32,
           NEW cluster, cluster = Least(UnusedClusters(sb)),
           NEW old, old = GetClusterForFile(sb, sb.fst[index].sub, chain_index),
           NEW prev, prev = GetClusterForFile(sb, sb.fst[index].sub,
                                              chain_index - 1),
           NEW new, new = WriteFileData(sb, nd, index, data, chain_index,
                                        new_size).superblock
    PROVE  \/ new = sb
           \/ /\ index \in FstIndices /\ IsFile(sb.fst[index])
              /\ cluster \in UnusedClusters(sb)
              /\ chain_index # 0 => prev # NIL
              /\ \A i \in FstIndices :
                    /\ new.fst[i].type = sb.fst[i].type
                    /\ new.fst[i].sub = IF i = index /\ chain_index = 0
                                        THEN cluster ELSE sb.fst[i].sub
              /\ \E fat \in [Clusters -> U16] :
                    /\ new.fat = ReplaceInChain(fat, cluster, old)
                    /\ \A c \in Clusters :
                          fat[c] = IF chain_index # 0 /\ c = prev
                                   THEN cluster ELSE sb.fat[c]
<1> DEFINE linked  == IF chain_index = 0
                      THEN [sb EXCEPT !.fst[index].sub = cluster]
                      ELSE [sb EXCEPT !.fat[prev] = cluster]
           sized   == [linked EXCEPT !.fst[index].size = new_size]
           fat     == ReplaceInChain(linked.fat, cluster, old)
           final   == [sized EXCEPT !.fat = fat]
<1> SUFFICES ASSUME new # sb
             PROVE  /\ index \in FstIndices /\ IsFile(sb.fst[index])
                    /\ cluster \in UnusedClusters(sb)
                    /\ chain_index # 0 => prev # NIL
                    /\ \A i \in FstIndices :
                          /\ new.fst[i].type = sb.fst[i].type
                          /\ new.fst[i].sub = IF i = index /\ chain_index = 0
                                              THEN cluster ELSE sb.fst[i].sub
                    /\ \E f \in [Clusters -> U16] :
                          /\ new.fat = ReplaceInChain(f, cluster, old)
                          /\ \A c \in Clusters :
                                f[c] = IF chain_index # 0 /\ c = prev
                                       THEN cluster ELSE sb.fat[c]
  OBVIOUS
<1>1. /\ index \in FstIndices /\ UnusedClusters(sb) # {}
      /\ IsFile(sb.fst[index]) /\ (chain_index # 0 => prev # NIL)
      /\ new = final
  BY DEF WriteFileData
<1>2. cluster \in UnusedClusters(sb) /\ cluster \in U16
  <2>1. cluster \in UnusedClusters(sb)
    BY <1>1, UnusedClusterType
  <2> QED  BY <2>1, PointersInRange DEF UnusedClusters
<1>3. /\ linked \in Superblock
      /\ \A i \in FstIndices :
            /\ linked.fst[i].type = sb.fst[i].type
            /\ linked.fst[i].sub = IF i = index /\ chain_index = 0
                                   THEN cluster ELSE sb.fst[i].sub
      /\ \A c \in Clusters : linked.fat[c] = IF chain_index # 0 /\ c = prev
                                             THEN cluster ELSE sb.fat[c]
  <2>1. CASE chain_index = 0
    <3>1. linked = [sb EXCEPT !.fst[index].sub = cluster]
      BY <2>1
    <3> HIDE DEF linked
    <3> QED  BY <1>1, <1>2, <2>1, <3>1, SubUpdate, SubFields
  <2>2. CASE chain_index # 0
    BY <1>2, <2>2 DEF Superblock
  <2> QED  BY <2>1, <2>2
<1> HIDE DEF linked
<1>4. /\ sized \in Superblock /\ sized.fat = linked.fat
      /\ \A i \in FstIndices : /\ sized.fst[i].type = linked.fst[i].type
                               /\ sized.fst[i].sub = linked.fst[i].sub
  BY <1>1, <1>3, SizeUpdate, SizeFields
<1> HIDE DEF sized
<1>5. final.fst = sized.fst /\ final.fat = fat
  <2> HIDE DEF fat
  <2> QED  BY <1>4 DEF Superblock
<1>6. linked.fat \in [Clusters -> U16]
  BY <1>3 DEF Superblock
<1> HIDE DEF final
<1> QED  BY <1>1, <1>2, <1>3, <1>4, <1>5, <1>6

LEMMA U16Steps == \A n \in U16 : n \in Nat /\ (n # 0 => n - 1 \in Nat)
BY DEF U16, NIL

LEMMA WrittenFat ==
    ASSUME NEW sb \in Superblock, FatSound(sb), NEW nd, NEW index \in U16, NEW data,
           NEW chain_index \in U16, NEW new_size \in U32
    PROVE  FatSound(WriteFileData(sb, nd, index, data, chain_index,
                                  new_size).superblock)
<1> DEFINE cluster == Least(UnusedClusters(sb))
           old  == GetClusterForFile(sb, sb.fst[index].sub, chain_index)
           prev == GetClusterForFile(sb, sb.fst[index].sub, chain_index - 1)
           new  == WriteFileData(sb, nd, index, data, chain_index, new_size).superblock
           g == Chains(sb)
           h == Chains(new)
           k == IF chain_index = 0 THEN "head" ELSE "cell"
           p == IF chain_index = 0 THEN index ELSE prev
<1>0. chain_index \in Nat /\ (chain_index # 0 => chain_index - 1 \in Nat)
  BY U16Steps
<1> SUFFICES ASSUME new # sb PROVE FatSound(new)
  OBVIOUS
<1>1. /\ index \in FstIndices /\ IsFile(sb.fst[index])
      /\ cluster \in UnusedClusters(sb)
      /\ chain_index # 0 => prev # NIL
      /\ \A i \in FstIndices :
            /\ new.fst[i].type = sb.fst[i].type
            /\ new.fst[i].sub = IF i = index /\ chain_index = 0
                                THEN cluster ELSE sb.fst[i].sub
      /\ \E fat \in [Clusters -> U16] :
            /\ new.fat = ReplaceInChain(fat, cluster, old)
            /\ \A c \in Clusters : fat[c] = IF chain_index # 0 /\ c = prev
                                            THEN cluster ELSE sb.fat[c]
  BY WriteFields
<1>2. PICK fat \in [Clusters -> U16] :
         /\ new.fat = ReplaceInChain(fat, cluster, old)
         /\ \A c \in Clusters : fat[c] = IF chain_index # 0 /\ c = prev
                                         THEN cluster ELSE sb.fat[c]
  BY <1>1
<1>3. /\ cluster \in Clusters /\ sb.fat[cluster] = CLUSTER_UNUSED
      /\ cluster \notin Taken(g)
  <2>1. CLUSTER_UNUSED \notin Clusters \cup {CLUSTER_LAST_IN_CHAIN}
    BY FatNumbers
  <2>2. \A c \in Clusters : g["cell"][c] = sb.fat[c]
    BY ChainPointers
  <2> HIDE DEF cluster, g
  <2> QED  BY <1>1, <2>1, <2>2 DEF UnusedClusters, Taken
<1>4. /\ chain_index = 0 => old = IF sb.fst[index].sub \in Clusters
                                  THEN sb.fst[index].sub ELSE NIL
      /\ chain_index # 0 => old = IF prev \in Clusters /\ sb.fat[prev] \in Clusters
                                  THEN sb.fat[prev] ELSE NIL
  BY <1>0, ClusterStep
<1>5. chain_index # 0 => prev \in Taken(g) /\ prev \in Clusters
  <2> SUFFICES ASSUME chain_index # 0 PROVE prev \in Taken(g) /\ prev \in Clusters
    OBVIOUS
  <2>1. chain_index - 1 \in Nat
    BY <1>0
  <2>2. prev \in Clusters
    <3>1. PICK walk : prev = IF walk[chain_index - 1] \in Clusters
                             THEN walk[chain_index - 1] ELSE NIL
      BY <2>1, ClusterLookup
    <3> QED  BY <1>1, <3>1
  <2>3. prev \in Chain(g, index)
    BY <1>1, <2>1, <2>2, ClusterInChain
  <2>4. AreChains(g)
    BY DEF FatSound
  <2> HIDE DEF g, prev
  <2> QED  BY <1>1, <2>2, <2>3, <2>4, ChainTaken
<1>6. /\ k \in PointerKinds /\ p \in U16
      /\ g[k][p] \in Clusters <=> old \in Clusters
      /\ old \in Clusters => g[k][p] = old /\ old \in Taken(g) /\ old # cluster
      /\ old \in Clusters /\ k = "cell" => old # p
  <2>1. /\ k \in PointerKinds /\ p \in U16
        /\ g[k][p] \in Clusters <=> old \in Clusters
        /\ old \in Clusters => g[k][p] = old
    BY <1>1, <1>4, <1>5, ChainPointers, FatNumbers
  <2>2. AreChains(g)
    BY DEF FatSound
  <2> HIDE DEF g, k, p, old
  <2>3. old \in Clusters => old \in Taken(g)
    BY <2>1, <2>2 DEF AreChains
  <2>4. ASSUME old \in Clusters, k = "cell" PROVE old # p
    <3>1. p \in Taken(g)
      BY <1>5, <2>4 DEF k, p
    <3>2. g["cell"][p] = old
      BY <2>1, <2>4
    <3> QED  BY <2>2, <3>1, <3>2, NoLoop
  <2> QED  BY <1>3, <2>1, <2>3, <2>4
<1>7. \A c \in Clusters :
         /\ c \notin {old, cluster} =>
               new.fat[c] = IF k = "cell" /\ c = p THEN cluster ELSE sb.fat[c]
         /\ c = old => new.fat[c] = CLUSTER_UNUSED
         /\ c = cluster => new.fat[c] = IF old \in Clusters THEN sb.fat[old]
                                        ELSE CLUSTER_LAST_IN_CHAIN
  <2>1. \A c \in Clusters :
           new.fat[c] = IF c = old THEN CLUSTER_UNUSED
                        ELSE IF c = cluster
                        THEN IF old \in Clusters THEN fat[old]
                                                 ELSE CLUSTER_LAST_IN_CHAIN
                        ELSE fat[c]
    <3> HIDE DEF new, old, cluster
    <3> QED  BY <1>2 DEF ReplaceInChain
  <2>2. \A c \in Clusters : fat[c] = IF k = "cell" /\ c = p THEN cluster
                                                            ELSE sb.fat[c]
    BY <1>2
  <2> HIDE DEF new, old, cluster, k, p
  <2> QED  BY <1>6, <2>1, <2>2
<1>8. \A c \in Clusters : h["cell"][c] = new.fat[c] /\ g["cell"][c] = sb.fat[c]
  BY ChainPointers
<1>9. \A i \in FstIndices : h["head"][i] = IF k = "head" /\ i = p THEN cluster
                                           ELSE g["head"][i]
  <2>1. \A i \in FstIndices :
           /\ h["head"][i] = IF IsFile(new.fst[i]) THEN new.fst[i].sub ELSE NIL
           /\ g["head"][i] = IF IsFile(sb.fst[i]) THEN sb.fst[i].sub ELSE NIL
    BY ChainPointers
  <2>2. k = "head" <=> chain_index = 0
    OBVIOUS
  <2>3. chain_index = 0 => p = index
    OBVIOUS
  <2> HIDE DEF g, h, k, p, new, cluster
  <2> QED  BY <1>1, <2>1, <2>2, <2>3 DEF IsFile
<1>10. \A q \in U16 : /\ q \notin Clusters => h["cell"][q] = g["cell"][q]
                      /\ q \notin FstIndices => h["head"][q] = g["head"][q]
  BY ChainPointers
<1>11. \/ k = "head" /\ p \in FstIndices
       \/ k = "cell" /\ p \in Taken(g)
  <2> HIDE DEF g, prev
  <2> QED  BY <1>1, <1>5
<1>12. AreChains(g)
  BY DEF FatSound
<1> HIDE DEF g, h, k, p, old, cluster, new
<1>13. Splices(g, h, k, p, cluster)
  <2>1. p \in Clusters \/ k = "head"
    BY <1>11 DEF Taken
  <2>2. h[k][p] = cluster
    <3>1. CASE k = "head"
      BY <1>9, <1>11, <3>1
    <3>2. CASE k = "cell"
      BY <1>3, <1>6, <1>7, <1>8, <1>11, <2>1, <3>2
    <3> QED  BY <1>11, <3>1, <3>2
  <2>3. h["cell"][cluster] = IF g[k][p] \in Clusters THEN g["cell"][g[k][p]]
                                                     ELSE CLUSTER_LAST_IN_CHAIN
    BY <1>3, <1>6, <1>7, <1>8
  <2>4. g[k][p] \in Clusters => h["cell"][g[k][p]] = CLUSTER_UNUSED
    BY <1>6, <1>7, <1>8
  <2>5. ASSUME NEW q \in U16, NEW l \in PointerKinds, l # k \/ q # p,
               l # "cell" \/ q \notin {cluster, g[k][p]} \cap Clusters
        PROVE  h[l][q] = g[l][q]
    <3>1. CASE l = "head"
      BY <1>9, <1>10, <2>5, <3>1
    <3>2. CASE l = "cell" /\ q \in Clusters
      BY <1>6, <1>7, <1>8, <2>5, <3>2
    <3>3. CASE l = "cell" /\ q \notin Clusters
      BY <1>10, <3>3
    <3> QED  BY <3>1, <3>2, <3>3 DEF PointerKinds
  <2> QED  BY <1>3, <1>11, <2>2, <2>3, <2>4, <2>5 DEF Splices
<1>14. AreChains(h)
  BY <1>12, <1>13, SplicingKeepsChains
<1>15. ASSUME NEW f \in FstIndices, IsFile(new.fst[f])
       PROVE  new.fst[f].sub \in Clusters \cup {CLUSTER_LAST_IN_CHAIN}
  BY <1>1, <1>3, <1>15 DEF FatSound, IsFile
<1>16. ASSUME NEW c \in Clusters \ DataClusters PROVE new.fat[c] = CLUSTER_RESERVED
  <2>1. sb.fat[c] = CLUSTER_RESERVED
    BY DEF FatSound
  <2>2. c \notin Taken(g) /\ c # cluster
    BY <1>3, <1>8, <2>1, FatNumbers DEF Taken, CLUSTER_RESERVED, CLUSTER_UNUSED
  <2> QED  BY <1>6, <1>7, <1>11, <2>1, <2>2
<1> QED  BY <1>14, <1>15, <1>16 DEF FatSound, h

-----------------------------------------------------------------------------
(* The steps.                                                              *)

LEMMA SameShapeFilesLive ==
    ASSUME NEW s1, NEW s2, IsFstTree(s1), SameShape(s1, s2), FilesLive(s1)
    PROVE  FilesLive(s2)
<1>1. Live(s2) = Live(s1)
  BY SameShapeSameTree
<1> QED  BY <1>1 DEF FilesLive, SameShape, SameEntry, IsFile

\* What a step must keep.
KeepsFat(sb) ==
    /\ FatSound(sb)
    /\ "below_itself" \notin Uses /\ FilesLive(superblock) => FilesLive(sb)

StepKeepsFat == KeepsFat(superblock') /\ stored' \in {stored, superblock'}

LEMMA FlushFileCacheFat ==
    ASSUME TypeOK, IsFstTree(superblock), FatSound(superblock)
    PROVE  KeepsFat(FlushFileCache.superblock)
<1> DEFINE h     == handles[cache.handle]
           write == WriteFileData(superblock, nand, h.fst_index, cache.data,
                                  cache.chain_index, h.file_size)
           flush == FlushFileCache
<1>1. FilesLive(superblock) => FilesLive(flush.superblock)
  <2> HIDE DEF flush
  <2> QED  BY FlushFileCacheKeepsShape, SameShapeFilesLive DEF flush
<1>2. CASE ~Dirty(cache)
  BY <1>1, <1>2 DEF FlushFileCache, IoState, KeepsFat
<1>3. CASE Dirty(cache)
  <2>1. cache.handle \in HandleIds /\ cache.chain_index \in U16
    BY <1>3 DEF TypeOK, Cache, Dirty
  <2>2. h.fst_index \in U16 /\ h.file_size \in U32
    BY <2>1 DEF TypeOK, Handle
  <2>3. FatSound(write.superblock)
    BY <2>1, <2>2, WrittenFat DEF TypeOK
  <2>4. FlushFileCache.superblock = write.superblock
    <3> HIDE DEF write
    <3> QED
      BY <1>3 DEF FlushFileCache, FlushNeeded, Written, WriteBack, IoState, write
  <2> HIDE DEF write
  <2> QED  BY <1>1, <2>3, <2>4 DEF KeepsFat
<1> QED  BY <1>2, <1>3

LEMMA PopulateFileCacheFat ==
    ASSUME TypeOK, IsFstTree(superblock), FatSound(superblock),
           NEW fd, NEW offset, NEW write
    PROVE  KeepsFat(PopulateFileCache(fd, offset, write).superblock)
<1> DEFINE populate == PopulateFileCache(fd, offset, write)
           flush    == FlushFileCache
<1>1. \/ populate = IoState
      \/ populate.superblock = flush.superblock
  <2>1. flush \in IoStates
    BY FlushFileCacheType
  <2> HIDE DEF flush
  <2> QED  BY <2>1 DEF PopulateFileCache, Populated, IoStates, flush
<1>2. IoState.superblock = superblock
  BY DEF IoState
<1>3. KeepsFat(superblock)
  BY DEF KeepsFat
<1> HIDE DEF populate, flush
<1> QED  BY <1>1, <1>2, <1>3, FlushFileCacheFat DEF flush, populate

LEMMA CloseFat ==
    ASSUME TypeOK, IsFstTree(superblock), FatSound(superblock), NEW fd, Close(fd)
    PROVE  StepKeepsFat
<1> DEFINE flush == IF cache.handle = fd THEN FlushFileCache ELSE IoState
<1>1. KeepsFat(superblock)
  BY DEF KeepsFat
<1>2. KeepsFat(flush.superblock)
  BY <1>1, FlushFileCacheFat DEF IoState
<1>3. \/ superblock' = superblock /\ stored' = stored
      \/ superblock' = flush.superblock /\ stored' \in {stored, flush.superblock}
  BY DEF Close
<1> HIDE DEF flush
<1> QED  BY <1>1, <1>2, <1>3 DEF StepKeepsFat

LEMMA AdvanceFat ==
    ASSUME TypeOK, IsFstTree(superblock), FatSound(superblock),
           NEW op, NEW write, Advance(op, write)
    PROVE  StepKeepsFat
<1> DEFINE pop == PopulateFileCache(call.fd, handles[call.fd].file_offset, write)
<1>1. superblock' = pop.superblock /\ stored' = stored
  BY Zenon DEF Advance, Copy
<1>2. KeepsFat(pop.superblock)
  BY PopulateFileCacheFat
<1> HIDE DEF pop
<1> QED  BY <1>1, <1>2 DEF StepKeepsFat

LEMMA FinishesFat ==
    ASSUME NEW code, NEW sb, KeepsFat(sb), Finishes(code, sb)
    PROVE  StepKeepsFat
BY DEF Finishes, StepKeepsFat

LEMMA RefusedFat ==
    ASSUME NEW code, Finishes(code, superblock), FatSound(superblock)
    PROVE  StepKeepsFat
BY FinishesFat DEF KeepsFat

LEMMA CreateFat ==
    ASSUME TypeOK, IsFstTree(superblock), FatSound(superblock),
           NEW fd \in HandleIds, NEW path \in Paths, ~ThroughFile(path),
           NEW type \in {"file", "directory"}, NEW perm \in Permissions,
           Create(fd, path, type, perm)
    PROVE  StepKeepsFat
<1> DEFINE new == Created(fd, path, type, perm)
<1>1. CASE CreateCode(fd, path, type) # "Success"
  BY <1>1, RefusedFat DEF Create
<1>2. CASE CreateCode(fd, path, type) = "Success"
  <2>1. Finishes(CreateCode(fd, path, type), new)
    BY <1>2 DEF Create
  <2>2. FatSound(new) /\ (FilesLive(superblock) => FilesLive(new))
    BY <1>2, CreatedFat
  <2> HIDE DEF new
  <2> QED  BY <2>1, <2>2, FinishesFat DEF KeepsFat
<1> QED  BY <1>1, <1>2

LEMMA DeleteFat ==
    ASSUME TypeOK, IsFstTree(superblock), FatSound(superblock),
           NEW fd \in HandleIds, NEW path \in Paths, ~ThroughFile(path),
           Delete(fd, path)
    PROVE  StepKeepsFat
<1> DEFINE parent  == GetFstIndex(superblock, SplitPath(path).parent)
           index   == ChildIndex(superblock, parent, SplitPath(path).file_name)
           removed == RemoveFstEntryFromChain(DeleteContents(index), parent, index)
<1>1. CASE DeleteCode(fd, path) # "Success"
  BY <1>1, RefusedFat DEF Delete
<1>2. CASE DeleteCode(fd, path) = "Success"
  <2>1. Finishes(removed.code, removed.sb)
    BY <1>2 DEF Delete
  <2>2. /\ parent \in FromRoot(Pointers(superblock))
        /\ IsDirectory(superblock.fst[parent])
        /\ index \in Children(superblock, parent)
    <3>1. path # <<>> /\ parent # NIL /\ index # NIL
      BY <1>2 DEF DeleteCode, IsValidNonRootPath
    <3>2. superblock \in Superblock /\ AvoidsFiles(superblock, path)
      BY NotThroughFile DEF TypeOK
    <3> QED  BY <3>1, <3>2, ParentOfPath
  <2>3. FatSound(removed.sb) /\ (FilesLive(superblock) => FilesLive(removed.sb))
    BY <2>2, RemovedFat
  <2> HIDE DEF removed
  <2> QED  BY <2>1, <2>3, FinishesFat DEF KeepsFat
<1> QED  BY <1>1, <1>2

LEMMA RenameFat ==
    ASSUME TypeOK, OpenFilesAreFiles, IsFstTree(superblock), FatSound(superblock),
           NEW fd \in HandleIds, NEW old_path \in Paths, NEW new_path \in Paths,
           ~ThroughFile(old_path), ~ThroughFile(new_path),
           ~IsProperPrefix(new_path, old_path),
           "below_itself" \notin Uses => ~IsProperPrefix(old_path, new_path),
           Rename(fd, old_path, new_path)
    PROVE  StepKeepsFat
<1> DEFINE renamed == Renamed(old_path, new_path)
<1>1. CASE RenameCode(fd, old_path, new_path) # "Success"
  BY <1>1, RefusedFat DEF Rename
<1>2. CASE RenameCode(fd, old_path, new_path) = "Success"
  <2>1. Finishes(renamed.code, renamed.sb)
    BY <1>2 DEF Rename
  <2>2. /\ FatSound(renamed.sb)
        /\ FilesLive(superblock) /\ ~IsProperPrefix(old_path, new_path) =>
              FilesLive(renamed.sb)
    BY <1>2, RenamedFat
  <2> HIDE DEF renamed
  <2> QED  BY <2>1, <2>2, FinishesFat DEF KeepsFat
<1> QED  BY <1>1, <1>2

LEMMA SetMetadataFat ==
    ASSUME TypeOK, IsFstTree(superblock), FatSound(superblock),
           NEW fd \in HandleIds, NEW path \in Paths,
           NEW uid \in Uids, NEW gid \in Gids, NEW perm \in Permissions,
           SetMetadata(fd, path, uid, gid, perm)
    PROVE  StepKeepsFat
<1> DEFINE index == GetFstIndex(superblock, path)
           old   == superblock.fst[index]
           entry == SetAccessMode([old EXCEPT !.uid = uid, !.gid = gid], perm)
           new   == [superblock EXCEPT !.fst[index] = entry]
<1>1. CASE SetMetadataCode(fd, path, uid) # "Success"
  BY <1>1, RefusedFat DEF SetMetadata
<1>2. CASE SetMetadataCode(fd, path, uid) = "Success"
  <2>1. index \in FstIndices
    BY <1>2, GetFstIndexType DEF SetMetadataCode
  <2>2. old \in FstEntry
    BY <2>1 DEF TypeOK, Superblock
  <2>3. perm \in [owner : FileMode, group : FileMode, other : FileMode]
    BY FileSystemAssumption DEF FileSystemAssumption
  <2>4. /\ entry \in FstEntry /\ entry.type = old.type /\ entry.name = old.name
        /\ entry.sib = old.sib /\ entry.sub = old.sub
    <3> HIDE DEF old
    <3> QED  BY <2>2, <2>3 DEF SetAccessMode, FstEntry
  <2>5. SameShape(superblock, new)
    <3> HIDE DEF entry, index
    <3> QED  BY <2>1, <2>4, ReplaceKeepsShape DEF TypeOK
  <2>6. SameFiles(superblock, new)
    <3> HIDE DEF entry, index
    <3>1. new.fat = superblock.fat
      BY DEF TypeOK, Superblock
    <3>2. \A f \in FstIndices : /\ new.fst[f].type = superblock.fst[f].type
                                /\ new.fst[f].sub = superblock.fst[f].sub
      BY <2>1, <2>4 DEF TypeOK, Superblock
    <3> HIDE DEF new
    <3> QED  BY <3>1, <3>2 DEF SameFiles, FilesWithout, IsFile
  <2>7. Finishes(SetMetadataCode(fd, path, uid), new)
    BY <1>2, Zenon DEF SetMetadata
  <2> HIDE DEF new
  <2> QED  BY <2>5, <2>6, <2>7, SameFilesKeepFat, SameShapeFilesLive, FinishesFat
           DEF KeepsFat
<1> QED  BY <1>1, <1>2

LEMMA NamespaceFat ==
    ASSUME TypeOK, OpenFilesAreFiles, IsFstTree(superblock), FatSound(superblock),
           TreeSafeUses, NamespaceCall
    PROVE  StepKeepsFat
<1>1. PICK fd \in PathFds, path \in Paths :
          /\ PlainPath(path)
          /\ \/ /\ PlainName(path)
                /\ \E perm \in Permissions : \/ CreateFile(fd, path, perm)
                                             \/ CreateDirectory(fd, path, perm)
             \/ Delete(fd, path)
             \/ \E new_path \in Paths :
                    PlainRename(path, new_path) /\ Rename(fd, path, new_path)
             \/ \E user \in Owners, perm \in Permissions :
                    SetMetadata(fd, path, user[1], user[2], perm)
  BY DEF NamespaceCall, NamespaceCallOn
<1>2. ~ThroughFile(path) /\ fd \in HandleIds
  BY <1>1, FileSystemAssumption
     DEF FileSystemAssumption, TreeSafeUses, PlainPath, Permitted
<1>3. CASE \E perm \in Permissions : \/ CreateFile(fd, path, perm)
                                     \/ CreateDirectory(fd, path, perm)
  BY <1>2, <1>3, CreateFat DEF CreateFile, CreateDirectory
<1>4. CASE Delete(fd, path)
  BY <1>2, <1>4, DeleteFat
<1>5. CASE \E new_path \in Paths :
              PlainRename(path, new_path) /\ Rename(fd, path, new_path)
  <2>1. PICK new_path \in Paths :
            PlainRename(path, new_path) /\ Rename(fd, path, new_path)
    BY <1>5
  <2>2. /\ ~ThroughFile(new_path) /\ ~IsProperPrefix(new_path, path)
        /\ "below_itself" \notin Uses => ~IsProperPrefix(path, new_path)
    BY <2>1 DEF PlainRename, TreeSafeUses, PlainPath, Permitted
  <2> QED  BY <1>2, <2>1, <2>2, RenameFat
<1>6. CASE \E user \in Owners, perm \in Permissions :
              SetMetadata(fd, path, user[1], user[2], perm)
  BY <1>2, <1>6, SetMetadataFat, UserTypes
<1> QED  BY <1>1, <1>3, <1>4, <1>5, <1>6

LEMMA NextKeepsFat ==
    ASSUME TypeOK, OpenFilesAreFiles, TreeInv, FatSound(superblock), TreeSafeUses,
           [Next]_vars
    PROVE  \/ StepKeepsFat
           \/ superblock' = FormattedSuperblock /\ stored' = superblock'
           \/ superblock' \in {stored, Normalised(stored)} /\ stored' = stored
<1>1. CASE superblock' = superblock /\ stored' = stored
  BY <1>1 DEF StepKeepsFat, KeepsFat
<1>2. CASE NamespaceCall
  BY <1>2, NamespaceFat DEF TreeInv
<1>3. CASE OpenCall
  BY <1>1, <1>3 DEF OpenCall, OpenFs, OpenFile
<1>4. CASE FileCall
  <2>1. CASE \E fd \in HandleIds : Close(fd)
    BY <2>1, CloseFat DEF TreeInv
  <2>2. CASE ~\E fd \in HandleIds : Close(fd)
    BY <1>1, <1>4, <2>2 DEF FileCall, SeekFile, ReadFile, WriteFile, Begin
  <2> QED  BY <2>1, <2>2
<1>5. CASE FormatCall
  BY <1>1, <1>5 DEF FormatCall, Format
<1>6. CASE ReadFileStep \/ WriteFileStep
  BY <1>6, AdvanceFat, Zenon DEF ReadFileStep, WriteFileStep, TreeInv
<1>7. CASE Remount
  BY <1>7 DEF Remount
<1>8. CASE UNCHANGED vars
  BY <1>1, <1>8 DEF vars
<1> QED  BY <1>2, <1>3, <1>4, <1>5, <1>6, <1>7, <1>8 DEF Next

-----------------------------------------------------------------------------
(* The theorems.                                                           *)

FatInv   == FatSound(superblock) /\ FatSound(stored)
FilesInv == FilesLive(superblock) /\ FilesLive(stored)

LEMMA NextFat ==
    ASSUME TypeOK, OpenFilesAreFiles, TreeInv, FatInv, TreeSafeUses, [Next]_vars
    PROVE  /\ FatInv'
           /\ "below_itself" \notin Uses /\ FilesInv => FilesInv'
<1>1. FatSound(superblock) /\ FatSound(stored) /\ stored \in Superblock
  BY DEF FatInv, TypeOK
<1>2. SameShape(stored, Normalised(stored)) /\ IsFstTree(stored)
  BY <1>1, NormalisedShape DEF TreeInv
<1>3. /\ FatSound(superblock') /\ FatSound(stored')
      /\ "below_itself" \notin Uses /\ FilesLive(superblock) /\ FilesLive(stored) =>
            FilesLive(superblock') /\ FilesLive(stored')
  <2>1. CASE StepKeepsFat
    BY <1>1, <2>1 DEF StepKeepsFat, KeepsFat
  <2>2. CASE superblock' = FormattedSuperblock /\ stored' = superblock'
    BY <2>2, FormattedFat
  <2>3. CASE superblock' \in {stored, Normalised(stored)} /\ stored' = stored
    BY <1>1, <1>2, <2>3, NormalisedKeepsFat, SameShapeFilesLive
  <2> QED  BY <1>1, <2>1, <2>2, <2>3, NextKeepsFat
<1> QED  BY <1>3 DEF FatInv, FilesInv

LEMMA InitFat == Init => FatInv /\ FilesInv
<1> SUFFICES ASSUME Init PROVE FatInv /\ FilesInv
  OBVIOUS
<1>1. stored \in Superblock /\ superblock = Normalised(stored)
  BY InitType DEF Init, TypeOK
<1>2. stored.fst = FormattedSuperblock.fst
  BY FormattedSuperblockType DEF Init, Superblock
<1>3. FatSound(stored) /\ FilesLive(stored)
  <2>1. \A f \in FstIndices : ~IsFile(stored.fst[f])
    BY <1>2, FormattedFields
  <2>2. \A c \in Clusters :
           /\ FormattedSuperblock.fat[c] = CLUSTER_RESERVED =>
                 stored.fat[c] = CLUSTER_RESERVED
           /\ stored.fat[c] \in {FormattedSuperblock.fat[c], NIL}
    <3> DEFINE other == [FormattedSuperblock EXCEPT !.fat =
                           [c \in Clusters |-> IF @[c] = CLUSTER_UNUSED
                                               THEN NIL ELSE @[c]]]
    <3>1. \A c \in Clusters :
             other.fat[c] = IF FormattedSuperblock.fat[c] = CLUSTER_UNUSED
                            THEN NIL ELSE FormattedSuperblock.fat[c]
      BY FormattedSuperblockType DEF Superblock
    <3>2. stored \in {FormattedSuperblock, other}
      BY DEF Init
    <3> HIDE DEF other
    <3> QED  BY <3>1, <3>2 DEF CLUSTER_RESERVED, CLUSTER_UNUSED
  <2> QED  BY <2>1, <2>2, FormattedFields, EmptyFatIsSound
<1>4. IsFstTree(stored) /\ SameShape(stored, superblock)
  BY <1>1, InitTree, NormalisedShape DEF TreeInv
<1> QED  BY <1>1, <1>3, <1>4, NormalisedKeepsFat, SameShapeFilesLive
         DEF FatInv, FilesInv

\* With no path through a file, no rename onto a directory above and none to a path
\* below itself, whatever else the client does: the chains of the files are
\* disjoint lists of data clusters and every cluster in use is in one of them, in
\* memory and in the superblock that a mount after a crash loads.
THEOREM FatStaysWellFormed ==
    ASSUME TreeSafeUses, "below_itself" \notin Uses
    PROVE  Spec => []FatOK
<1>1. Init => TypeOK /\ OpenFilesAreFiles /\ TreeInv /\ FatInv /\ FilesInv
  BY InitType, InitOpenFiles, InitTree, InitFat
<1>2. TypeOK /\ OpenFilesAreFiles /\ TreeInv /\ FatInv /\ FilesInv /\ [Next]_vars =>
         TypeOK' /\ OpenFilesAreFiles' /\ TreeInv' /\ FatInv' /\ FilesInv'
  BY NextType, NextOpenFiles, NextTree, NextFat
<1>3. FatInv /\ FilesInv => FatOK
  BY SoundFatIsWellFormed DEF FatInv, FilesInv, FatOK
<1> QED  BY <1>1, <1>2, <1>3, PTL DEF Spec

\* No call frees or links a cluster of the boot area or of the superblocks.
THEOREM ReservedClustersAreNeverTouched ==
    ASSUME TreeSafeUses
    PROVE  Spec => ReservedClustersStay
<1>1. Init => TypeOK /\ OpenFilesAreFiles /\ TreeInv /\ FatInv
  BY InitType, InitOpenFiles, InitTree, InitFat
<1>2. TypeOK /\ OpenFilesAreFiles /\ TreeInv /\ FatInv /\ [Next]_vars =>
         TypeOK' /\ OpenFilesAreFiles' /\ TreeInv' /\ FatInv'
  BY NextType, NextOpenFiles, NextTree, NextFat
<1>3. FatInv /\ FatInv' =>
         \A c \in Clusters \ DataClusters : superblock'.fat[c] = superblock.fat[c]
  BY DEF FatInv, FatSound
<1>4. TypeOK /\ OpenFilesAreFiles /\ TreeInv /\ FatInv /\ [Next]_vars =>
         [\A c \in Clusters \ DataClusters :
             superblock'.fat[c] = superblock.fat[c]]_vars
  BY <1>2, <1>3
<1> QED  BY <1>1, <1>2, <1>4, PTL DEF Spec, ReservedClustersStay

=============================================================================
