----------------------------- MODULE DataProofs -----------------------------
(***************************************************************************)
(* The data of files.  First the lengths of chains: sizes are kept in the  *)
(* FST, chains in the FAT, and what a descriptor believes in its handle.   *)
(* SizedInv counts the clusters that GetClusterForFile finds; PendingAtEnd *)
(* says of what waits in the cache that it goes to the last cluster of the *)
(* file or behind it.  Then the data path: Salted says of each cluster of  *)
(* a file that its HMAC was made for its place, CacheInv what the cache    *)
(* holds; DriverInv has all of it.  Last, what a reader sees.              *)
(***************************************************************************)
EXTENDS HandleProofs

-----------------------------------------------------------------------------
(* The clusters of a file by their position in it.                         *)

ClusterAt(sb, f, k) == GetClusterForFile(sb, sb.fst[f].sub, k)

\* The chain has n clusters.
LengthIs(sb, f, n) == \A k \in Nat : ClusterAt(sb, f, k) # NIL <=> k < n

LEMMA FirstCluster ==
    ASSUME NEW sb, NEW f
    PROVE  ClusterAt(sb, f, 0) = IF sb.fst[f].sub \in Clusters
                                 THEN sb.fst[f].sub ELSE NIL
BY ClusterStep DEF ClusterAt

LEMMA NextCluster ==
    ASSUME NEW sb, NEW f, NEW k \in Nat, k # 0
    PROVE  LET c == ClusterAt(sb, f, k - 1)
           IN  ClusterAt(sb, f, k) = IF c \in Clusters /\ sb.fat[c] \in Clusters
                                     THEN sb.fat[c] ELSE NIL
BY ClusterStep DEF ClusterAt

LEMMA ClusterOrNil ==
    ASSUME NEW sb, NEW f, NEW k \in Nat
    PROVE  ClusterAt(sb, f, k) \in Clusters <=> ClusterAt(sb, f, k) # NIL
<1>1. PICK walk : ClusterAt(sb, f, k) = IF walk[k] \in Clusters THEN walk[k]
                                                                ELSE NIL
  BY ClusterLookup DEF ClusterAt
<1> QED  BY <1>1, FatNumbers

\* The two superblocks agree on where the clusters of the file lead.
SameLinks(s1, s2, f) ==
    /\ s2.fst[f].sub = s1.fst[f].sub
    /\ \A k \in Nat :
          LET c == ClusterAt(s1, f, k)
          IN  c \in Clusters =>
                 \/ s2.fat[c] = s1.fat[c]
                 \/ s1.fat[c] \notin Clusters /\ s2.fat[c] \notin Clusters

LEMMA SamePositions ==
    ASSUME NEW s1, NEW s2, NEW f, SameLinks(s1, s2, f)
    PROVE  \A k \in Nat : ClusterAt(s2, f, k) = ClusterAt(s1, f, k)
<1> DEFINE bad == {k \in Nat : ClusterAt(s2, f, k) # ClusterAt(s1, f, k)}
<1> SUFFICES ASSUME bad # {} PROVE FALSE
  OBVIOUS
<1>1. bad \in SUBSET Nat
  OBVIOUS
<1>2. PICK k \in bad : \A j \in bad : k <= j
  <2> HIDE DEF bad
  <2> QED  BY <1>1, LeastIsMember
<1>3. k \in Nat /\ ClusterAt(s2, f, k) # ClusterAt(s1, f, k)
  OBVIOUS
<1>4. k # 0
  BY <1>3, FirstCluster DEF SameLinks
<1>5. k - 1 \in Nat /\ k - 1 \notin bad
  <2> HIDE DEF bad
  <2> QED  BY <1>2, <1>3, <1>4
<1>6. ClusterAt(s2, f, k - 1) = ClusterAt(s1, f, k - 1)
  BY <1>5
<1> HIDE DEF bad
<1>7. /\ s2.fst[f].sub = s1.fst[f].sub
      /\ \A m \in Nat : ClusterAt(s1, f, m) \in Clusters =>
            \/ s2.fat[ClusterAt(s1, f, m)] = s1.fat[ClusterAt(s1, f, m)]
            \/ /\ s1.fat[ClusterAt(s1, f, m)] \notin Clusters
               /\ s2.fat[ClusterAt(s1, f, m)] \notin Clusters
  BY DEF SameLinks
<1>8. /\ ClusterAt(s1, f, k) = IF /\ ClusterAt(s1, f, k - 1) \in Clusters
                                  /\ s1.fat[ClusterAt(s1, f, k - 1)] \in Clusters
                               THEN s1.fat[ClusterAt(s1, f, k - 1)] ELSE NIL
      /\ ClusterAt(s2, f, k) = IF /\ ClusterAt(s2, f, k - 1) \in Clusters
                                  /\ s2.fat[ClusterAt(s2, f, k - 1)] \in Clusters
                               THEN s2.fat[ClusterAt(s2, f, k - 1)] ELSE NIL
  BY <1>3, <1>4, NextCluster
<1> QED  BY <1>3, <1>5, <1>6, <1>7, <1>8

\* In a sound FAT no position of a file repeats.
LEMMA PositionsDiffer ==
    ASSUME NEW sb, FatSound(sb), NEW f \in FstIndices, IsFile(sb.fst[f]),
           NEW i \in Nat, NEW j \in Nat, ClusterAt(sb, f, i) \in Clusters,
           ClusterAt(sb, f, i) = ClusterAt(sb, f, j)
    PROVE  i = j
<1> DEFINE g == Chains(sb)
           Pos(k) == ClusterAt(sb, f, k)
           bad == {k \in Nat : /\ Pos(k) \in Clusters
                               /\ \E l \in Nat : l > k /\ Pos(l) = Pos(k)}
<1> SUFFICES ASSUME bad # {} PROVE FALSE
  <2>1. CASE i < j
    BY <2>1
  <2>2. CASE j < i
    BY <2>2
  <2> QED  BY <2>1, <2>2
<1>1. bad \in SUBSET Nat
  OBVIOUS
<1>2. PICK k \in bad : \A m \in bad : k <= m
  <2> HIDE DEF bad
  <2> QED  BY <1>1, LeastIsMember
<1>3. k \in Nat /\ Pos(k) \in Clusters
  OBVIOUS
<1>4. PICK l \in Nat : l > k /\ Pos(l) = Pos(k)
  OBVIOUS
<1>5. AreChains(g)
  BY DEF FatSound
<1>6. /\ g["head"][f] = sb.fst[f].sub
      /\ \A c \in Clusters : g["cell"][c] = sb.fat[c]
  BY ChainPointers
<1>7. /\ l - 1 \in Nat /\ l # 0 /\ Pos(l - 1) \in Clusters
      /\ Pos(l) = sb.fat[Pos(l - 1)]
  <2>1. l - 1 \in Nat /\ l # 0
    BY <1>3, <1>4
  <2> QED  BY <1>3, <1>4, <2>1, NextCluster, FatNumbers
<1> HIDE DEF g, bad
<1>8. CASE k = 0
  <2>1. Pos(k) = sb.fst[f].sub
    BY <1>3, <1>8, FirstCluster, FatNumbers
  <2> HIDE DEF Pos
  <2>2. g["head"][f] = g["cell"][Pos(l - 1)] /\ g["head"][f] \in Clusters
    BY <1>3, <1>4, <1>6, <1>7, <2>1
  <2>3. f \in U16 /\ Pos(l - 1) \in U16 /\ {"head", "cell"} \subseteq PointerKinds
    BY <1>7, FatNumbers
  <2> QED  BY <1>5, <2>2, <2>3 DEF AreChains
<1>9. CASE k # 0
  <2>1. k - 1 \in Nat /\ k - 1 \notin bad /\ l - 1 > k - 1
    BY <1>2, <1>3, <1>4, <1>9
  <2>2. Pos(k - 1) \in Clusters /\ Pos(k) = sb.fat[Pos(k - 1)]
    BY <1>3, <1>9, NextCluster, FatNumbers
  <2>3. Pos(l - 1) # Pos(k - 1)
    BY <1>7, <2>1, <2>2 DEF bad
  <2> HIDE DEF Pos
  <2>4. /\ g["cell"][Pos(k - 1)] = g["cell"][Pos(l - 1)]
        /\ g["cell"][Pos(k - 1)] \in Clusters
    BY <1>3, <1>4, <1>6, <1>7, <2>2
  <2>5. Pos(k - 1) \in U16 /\ Pos(l - 1) \in U16 /\ "cell" \in PointerKinds
    BY <1>7, <2>2, FatNumbers
  <2> QED  BY <1>5, <2>3, <2>4, <2>5 DEF AreChains
<1> QED  BY <1>8, <1>9

\* The chain of a file is what is at its positions.
LEMMA ChainIsPositions ==
    ASSUME NEW sb, NEW f \in FstIndices, IsFile(sb.fst[f]), NEW n \in Nat,
           LengthIs(sb, f, n)
    PROVE  ChainOf(sb, f) = {ClusterAt(sb, f, k) : k \in 0..(n - 1)}
<1> DEFINE g == Chains(sb)
           S == {ClusterAt(sb, f, k) : k \in 0..(n - 1)}
<1>1. \A k \in Nat : k < n <=> ClusterAt(sb, f, k) \in Clusters
  BY ClusterOrNil DEF LengthIs
<1>2. Chain(g, f) = ChainOf(sb, f)
  BY ChainOfFile
<1>3. /\ g["head"][f] = sb.fst[f].sub
      /\ \A c \in Clusters : g["cell"][c] = sb.fat[c]
  BY ChainPointers
<1>4. S \subseteq Chain(g, f)
  <2> SUFFICES ASSUME NEW k \in 0..(n - 1)
               PROVE  ClusterAt(sb, f, k) \in Chain(g, f)
    OBVIOUS
  <2>1. k \in Nat /\ ClusterAt(sb, f, k) \in Clusters
    BY <1>1
  <2> QED  BY <2>1, ClusterInChain DEF ClusterAt
<1>5. Chain(g, f) \subseteq S
  <2>1. S \in SUBSET Clusters
    BY <1>1
  <2>2. g["head"][f] \in Clusters => g["head"][f] \in S
    <3> SUFFICES ASSUME g["head"][f] \in Clusters PROVE g["head"][f] \in S
      OBVIOUS
    <3>1. ClusterAt(sb, f, 0) = g["head"][f]
      BY <1>3, FirstCluster
    <3>2. 0 \in 0..(n - 1)
      BY <1>1, <3>1
    <3> QED  BY <3>1, <3>2
  <2>3. ASSUME NEW c \in S, g["cell"][c] \in Clusters PROVE g["cell"][c] \in S
    <3>1. PICK k \in 0..(n - 1) : c = ClusterAt(sb, f, k)
      OBVIOUS
    <3>2. k + 1 \in Nat /\ k + 1 # 0 /\ (k + 1) - 1 = k /\ k \in Nat
      OBVIOUS
    <3>3. c \in Clusters
      BY <2>1
    <3> DEFINE next == k + 1
    <3>4. next \in Nat /\ next # 0 /\ next - 1 = k
      BY <3>2
    <3> HIDE DEF next, S, g
    <3>5. ClusterAt(sb, f, next) = g["cell"][c]
      BY <1>3, <2>3, <3>1, <3>3, <3>4, NextCluster
    <3>6. next \in 0..(n - 1)
      BY <1>1, <2>3, <3>4, <3>5
    <3> QED  BY <3>5, <3>6 DEF S
  <2> HIDE DEF g, S
  <2> QED  BY <2>1, <2>2, <2>3, ChainIsLeast
<1> QED  BY <1>2, <1>4, <1>5

LEMMA ClustersFinite == IsFiniteSet(Clusters) /\ Cardinality(Clusters) = FatSize
<1>1. 0 \in Int /\ FatSize - 1 \in Int /\ FatSize \in Nat \ {0}
  BY SffsAssumption DEF SffsAssumption
<1>2. /\ IsFiniteSet(Clusters)
      /\ Cardinality(Clusters) = IF 0 > FatSize - 1 THEN 0
                                 ELSE FatSize - 1 - 0 + 1
  BY <1>1, FS_Interval, Zenon DEF Clusters
<1> HIDE DEF Clusters
<1> QED  BY <1>1, <1>2

LEMMA LengthIsCardinality ==
    ASSUME NEW sb, FatSound(sb), NEW f \in FstIndices, IsFile(sb.fst[f]),
           NEW n \in Nat, LengthIs(sb, f, n)
    PROVE  Cardinality(ChainOf(sb, f)) = n /\ n <= FatSize
<1> DEFINE I == 0..(n - 1)
           S == {ClusterAt(sb, f, k) : k \in I}
           b == [k \in I |-> ClusterAt(sb, f, k)]
<1>1. ChainOf(sb, f) = S
  BY ChainIsPositions
<1>2. IsFiniteSet(I) /\ Cardinality(I) = n
  <2>1. 0 \in Int /\ n - 1 \in Int
    OBVIOUS
  <2>2. IsFiniteSet(I) /\ Cardinality(I) = IF 0 > n - 1 THEN 0 ELSE n - 1 - 0 + 1
    BY <2>1, FS_Interval, Zenon
  <2> HIDE DEF I
  <2> QED  BY <2>2
<1>3. \A k \in I : k \in Nat /\ ClusterAt(sb, f, k) \in Clusters
  BY ClusterOrNil DEF LengthIs
<1>4. b \in Bijection(I, S)
  <2>1. b \in [I -> S] /\ \A t \in S : \E k \in I : b[k] = t
    OBVIOUS
  <2>2. \A i, j \in I : b[i] = b[j] => i = j
    BY <1>3, PositionsDiffer
  <2> HIDE DEF I, S, b
  <2> QED  BY <2>1, <2>2 DEF Bijection, Injection, Surjection, IsInjective
<1>5. S \subseteq Clusters
  BY <1>3
<1> HIDE DEF I, S, b
<1>6. Cardinality(S) = n
  BY <1>2, <1>4, FS_Bijection DEF ExistsBijection
<1>7. Cardinality(S) <= FatSize
  BY <1>5, ClustersFinite, FS_Subset
<1> QED  BY <1>1, <1>6, <1>7

\* The last cluster of a file is marked; an empty file has none.
LEMMA LastIsMarked ==
    ASSUME NEW sb, FatSound(sb), NEW f \in FstIndices, IsFile(sb.fst[f]),
           NEW k \in Nat, ClusterAt(sb, f, k) \in Clusters
    PROVE  LET c == ClusterAt(sb, f, k)
           IN  /\ c \in Chain(Chains(sb), f)
               /\ sb.fat[c] \in Clusters \cup {CLUSTER_LAST_IN_CHAIN}
<1> DEFINE c == ClusterAt(sb, f, k)
           g == Chains(sb)
<1>1. c \in Chain(g, f)
  BY ClusterInChain DEF ClusterAt
<1>2. AreChains(g)
  BY DEF FatSound
<1>3. g["cell"][c] = sb.fat[c]
  BY ChainPointers
<1> HIDE DEF g, c
<1>4. c \in Taken(g)
  BY <1>1, <1>2, ChainTaken
<1> QED  BY <1>1, <1>3, <1>4 DEF Taken, c, g

-----------------------------------------------------------------------------
(* WriteFileData.                                                          *)

\* The cells and first clusters after a successful write.
Relinks(sb, new, index, chain_index, cluster) ==
    LET old  == ClusterAt(sb, index, chain_index)
        prev == ClusterAt(sb, index, chain_index - 1)
    IN  /\ index \in FstIndices /\ IsFile(sb.fst[index])
        /\ cluster \in Clusters /\ sb.fat[cluster] = CLUSTER_UNUSED
        /\ chain_index # 0 => prev \in Clusters
        /\ \A i \in FstIndices :
              /\ new.fst[i].type = sb.fst[i].type
              /\ new.fst[i].sub = IF i = index /\ chain_index = 0
                                  THEN cluster ELSE sb.fst[i].sub
        /\ \A c \in Clusters :
              /\ c \notin {old, cluster} =>
                    new.fat[c] = IF chain_index # 0 /\ c = prev THEN cluster
                                                               ELSE sb.fat[c]
              /\ c = cluster =>
                    new.fat[c] = IF old \in Clusters THEN sb.fat[old]
                                                     ELSE CLUSTER_LAST_IN_CHAIN

LEMMA WriteRelinks ==
    ASSUME NEW sb \in Superblock, FatSound(sb), NEW nd, NEW index \in U16, NEW data,
           NEW chain_index \in U16, NEW new_size \in U32, NEW write,
           write = WriteFileData(sb, nd, index, data, chain_index, new_size),
           write.code = "Success"
    PROVE  Relinks(sb, write.superblock, index, chain_index,
                   Least(UnusedClusters(sb)))
<1> DEFINE cluster == Least(UnusedClusters(sb))
           old  == ClusterAt(sb, index, chain_index)
           prev == ClusterAt(sb, index, chain_index - 1)
           new  == write.superblock
<1>1. /\ index \in FstIndices
      /\ \A i \in FstIndices : new.fst[i].size =
             IF i = index THEN new_size ELSE sb.fst[i].size
      /\ sb.fst[index].size < new_size
  <2>1. WriteOutcome(sb, write, index, new_size)
    BY WriteOutcomes
  <2> QED  BY <2>1, Zenon DEF WriteOutcome
<1>2. new # sb
  <2>1. new_size \in Nat /\ sb.fst[index].size \in Nat
    BY <1>1, WordsAreNumbers DEF Superblock, FstEntry
  <2>2. new.fst[index].size # sb.fst[index].size
    <3> HIDE DEF new
    <3> QED  BY <1>1, <2>1
  <2> QED  BY <2>2
<1>3. chain_index \in Nat /\ (chain_index # 0 => chain_index - 1 \in Nat)
  BY U16Steps
<1>4. /\ IsFile(sb.fst[index])
      /\ cluster \in UnusedClusters(sb)
      /\ chain_index # 0 => prev # NIL
      /\ \A i \in FstIndices :
            /\ new.fst[i].type = sb.fst[i].type
            /\ new.fst[i].sub = IF i = index /\ chain_index = 0
                                THEN cluster ELSE sb.fst[i].sub
      /\ \E fat \in [Clusters -> U16] :
            /\ new.fat = ReplaceInChain(fat, cluster, old)
            /\ \A c \in Clusters : fat[c] = IF chain_index # 0 /\ c = prev
                                            THEN cluster ELSE sb.fat[c]
  BY <1>2, WriteFields DEF ClusterAt
<1>5. PICK fat \in [Clusters -> U16] :
         /\ new.fat = ReplaceInChain(fat, cluster, old)
         /\ \A c \in Clusters : fat[c] = IF chain_index # 0 /\ c = prev
                                         THEN cluster ELSE sb.fat[c]
  BY <1>4
<1>6. cluster \in Clusters /\ sb.fat[cluster] = CLUSTER_UNUSED
  <2> HIDE DEF cluster
  <2> QED  BY <1>4 DEF UnusedClusters
<1>7. chain_index # 0 => prev \in Clusters
  <2> HIDE DEF prev
  <2> QED  BY <1>3, <1>4, ClusterOrNil DEF prev
<1>8. old \in Clusters =>
         /\ sb.fat[old] # CLUSTER_UNUSED
         /\ chain_index # 0 => old # prev
  <2> SUFFICES ASSUME old \in Clusters
               PROVE  /\ sb.fat[old] # CLUSTER_UNUSED
                      /\ chain_index # 0 => old # prev
    OBVIOUS
  <2>1. sb.fat[old] \in Clusters \cup {CLUSTER_LAST_IN_CHAIN}
    BY <1>1, <1>3, <1>4, LastIsMarked
  <2>2. ASSUME chain_index # 0, old = prev PROVE FALSE
    <3>1. chain_index = chain_index - 1
      BY <1>1, <1>3, <1>4, <2>2, PositionsDiffer
    <3> QED  BY <1>3, <3>1
  <2> QED  BY <2>1, <2>2, FatNumbers
<1>9. \A c \in Clusters :
         new.fat[c] = IF c = old THEN CLUSTER_UNUSED
                      ELSE IF c = cluster
                      THEN IF old \in Clusters THEN fat[old]
                                               ELSE CLUSTER_LAST_IN_CHAIN
                      ELSE fat[c]
  <2> HIDE DEF new, old, cluster
  <2> QED  BY <1>5 DEF ReplaceInChain
<1> HIDE DEF new, old, cluster, prev
<1>10. old # cluster
  BY <1>6, <1>8
<1>11. \A c \in Clusters :
          /\ c \notin {old, cluster} =>
                new.fat[c] = IF chain_index # 0 /\ c = prev THEN cluster
                                                            ELSE sb.fat[c]
          /\ c = cluster =>
                new.fat[c] = IF old \in Clusters THEN sb.fat[old]
                                                 ELSE CLUSTER_LAST_IN_CHAIN
  BY <1>5, <1>8, <1>9, <1>10
<1> QED
  BY <1>1, <1>4, <1>6, <1>7, <1>11 DEF Relinks, new, old, cluster, prev

\* The written cluster takes its place, the clusters before it stay, and it is the
\* last one.
LEMMA WrittenPositions ==
    ASSUME NEW sb \in Superblock, FatSound(sb), NEW new, NEW index, NEW cluster,
           NEW k \in Nat, NEW n \in Nat, LengthIs(sb, index, n), k \in {n - 1, n},
           Relinks(sb, new, index, k, cluster)
    PROVE  \A j \in Nat : ClusterAt(new, index, j) =
               IF j < k THEN ClusterAt(sb, index, j)
               ELSE IF j = k THEN cluster ELSE NIL
<1> DEFINE Was(j) == ClusterAt(sb, index, j)
           Now(j) == ClusterAt(new, index, j)
           bad == {j \in Nat : Now(j) # IF j < k THEN Was(j)
                                        ELSE IF j = k THEN cluster ELSE NIL}
<1> SUFFICES ASSUME bad # {} PROVE FALSE
  OBVIOUS
<1>1. bad \in SUBSET Nat
  OBVIOUS
<1>2. PICK j \in bad : \A m \in bad : j <= m
  <2> HIDE DEF bad
  <2> QED  BY <1>1, LeastIsMember
<1>3. /\ j \in Nat
      /\ Now(j) # IF j < k THEN Was(j) ELSE IF j = k THEN cluster ELSE NIL
  OBVIOUS
<1>4. j # 0 => /\ j - 1 \in Nat
               /\ Now(j - 1) = IF j - 1 < k THEN Was(j - 1)
                               ELSE IF j - 1 = k THEN cluster ELSE NIL
  <2> SUFFICES ASSUME j # 0
               PROVE  /\ j - 1 \in Nat
                      /\ Now(j - 1) = IF j - 1 < k THEN Was(j - 1)
                                      ELSE IF j - 1 = k THEN cluster ELSE NIL
    OBVIOUS
  <2>1. j - 1 \in Nat /\ j - 1 \notin bad
    <3> HIDE DEF bad
    <3> QED  BY <1>2, <1>3
  <2> QED  BY <2>1
<1> HIDE DEF bad
<1>5. /\ index \in FstIndices /\ IsFile(sb.fst[index])
      /\ cluster \in Clusters /\ sb.fat[cluster] = CLUSTER_UNUSED
      /\ k # 0 => Was(k - 1) \in Clusters
      /\ new.fst[index].sub = IF k = 0 THEN cluster ELSE sb.fst[index].sub
      /\ \A c \in Clusters :
            /\ c \notin {Was(k), cluster} =>
                  new.fat[c] = IF k # 0 /\ c = Was(k - 1) THEN cluster
                                                          ELSE sb.fat[c]
            /\ c = cluster =>
                  new.fat[c] = IF Was(k) \in Clusters THEN sb.fat[Was(k)]
                                                      ELSE CLUSTER_LAST_IN_CHAIN
  BY Zenon DEF Relinks
<1>6. \A i \in Nat : i < n <=> Was(i) \in Clusters
  BY ClusterOrNil DEF LengthIs
<1>7. \A i \in Nat : i < n =>
         /\ Was(i) # cluster
         /\ \A l \in Nat : l # i => Was(l) # Was(i)
  <2> SUFFICES ASSUME NEW i \in Nat, i < n
               PROVE  /\ Was(i) # cluster
                      /\ \A l \in Nat : l # i => Was(l) # Was(i)
    OBVIOUS
  <2>1. Was(i) \in Clusters
    BY <1>6
  <2>2. sb.fat[Was(i)] # CLUSTER_UNUSED
    BY <1>5, <2>1, LastIsMarked, FatNumbers
  <2> QED  BY <1>5, <2>1, <2>2, PositionsDiffer
<1>8. j = 0 => Now(j) = IF new.fst[index].sub \in Clusters
                        THEN new.fst[index].sub ELSE NIL
  BY FirstCluster
<1>9. j # 0 => Now(j) = IF /\ Now(j - 1) \in Clusters
                           /\ new.fat[Now(j - 1)] \in Clusters
                        THEN new.fat[Now(j - 1)] ELSE NIL
  BY <1>3, NextCluster
<1>10. Was(0) = IF sb.fst[index].sub \in Clusters
                THEN sb.fst[index].sub ELSE NIL
  BY FirstCluster
<1>11. \A i \in Nat : i # 0 =>
          Was(i) = IF Was(i - 1) \in Clusters /\ sb.fat[Was(i - 1)] \in Clusters
                   THEN sb.fat[Was(i - 1)] ELSE NIL
  BY NextCluster
<1> HIDE DEF Was, Now
<1>12. CASE j = 0
  BY <1>3, <1>5, <1>8, <1>10, <1>12
<1>13. CASE j # 0 /\ j < k
  <2>1. j - 1 \in Nat /\ j - 1 < n /\ j - 1 # k /\ j - 1 # k - 1 /\ k \in Nat
        /\ k # 0 /\ k - 1 \in Nat
    BY <1>3, <1>13
  <2>2. Now(j - 1) = Was(j - 1)
    BY <1>3, <1>4, <1>13
  <2>3. Was(j - 1) \in Clusters /\ Was(j - 1) \notin {Was(k), cluster, Was(k - 1)}
    BY <1>6, <1>7, <2>1
  <2>4. new.fat[Was(j - 1)] = sb.fat[Was(j - 1)]
    BY <1>5, <2>1, <2>3
  <2> QED  BY <1>3, <1>9, <1>11, <1>13, <2>2, <2>4
<1>14. CASE j # 0 /\ j = k
  <2>1. j - 1 \in Nat /\ j - 1 < n /\ j - 1 # k
    BY <1>3, <1>14
  <2>2. Now(j - 1) = Was(k - 1)
    BY <1>3, <1>4, <1>14
  <2>3. Was(k - 1) \in Clusters /\ Was(k - 1) \notin {Was(k), cluster}
    BY <1>6, <1>7, <1>14, <2>1
  <2>4. new.fat[Was(k - 1)] = cluster
    BY <1>5, <1>14, <2>3
  <2> QED  BY <1>3, <1>5, <1>9, <1>14, <2>2, <2>3, <2>4
<1>15. CASE j = k + 1
  <2>1. Now(j - 1) = cluster
    BY <1>3, <1>4, <1>15
  <2>2. new.fat[cluster] = IF Was(k) \in Clusters THEN sb.fat[Was(k)]
                           ELSE CLUSTER_LAST_IN_CHAIN
    BY <1>5
  <2>3. new.fat[cluster] \notin Clusters
    <3>1. CASE Was(k) \notin Clusters
      BY <2>2, <3>1, FatNumbers
    <3>2. CASE Was(k) \in Clusters
      <4>1. k < n /\ ~(k + 1 < n)
        BY <1>6, <3>2
      <4>2. Was(k + 1) \notin Clusters
        BY <1>6, <4>1
      <4>3. Was(k + 1) = IF Was(k) \in Clusters /\ sb.fat[Was(k)] \in Clusters
                         THEN sb.fat[Was(k)] ELSE NIL
        <5>1. k + 1 \in Nat /\ k + 1 # 0 /\ (k + 1) - 1 = k
          OBVIOUS
        <5> DEFINE m == k + 1
        <5>2. m \in Nat /\ m # 0 /\ m - 1 = k
          BY <5>1
        <5> HIDE DEF m
        <5>3. Was(m) = IF Was(k) \in Clusters /\ sb.fat[Was(k)] \in Clusters
                       THEN sb.fat[Was(k)] ELSE NIL
          BY <1>11, <5>2
        <5> QED  BY <5>3 DEF m
      <4> QED  BY <2>2, <3>2, <4>2, <4>3
    <3> QED  BY <3>1, <3>2
  <2> QED  BY <1>3, <1>9, <1>15, <2>1, <2>3
<1>16. CASE j > k + 1
  <2>1. Now(j - 1) = NIL
    BY <1>3, <1>4, <1>16
  <2> QED  BY <1>3, <1>9, <1>16, <2>1, FatNumbers
<1>17. j < k \/ j = k \/ j = k + 1 \/ j > k + 1
  BY <1>3
<1> QED  BY <1>12, <1>13, <1>14, <1>15, <1>16, <1>17

LEMMA OtherPositions ==
    ASSUME NEW sb \in Superblock, FatSound(sb), NEW new, NEW index, NEW cluster,
           NEW k \in Nat, Relinks(sb, new, index, k, cluster),
           NEW e \in FstIndices, e # index, IsFile(sb.fst[e])
    PROVE  \A j \in Nat : ClusterAt(new, e, j) = ClusterAt(sb, e, j)
<1> DEFINE old  == ClusterAt(sb, index, k)
           prev == ClusterAt(sb, index, k - 1)
           g == Chains(sb)
<1>1. /\ index \in FstIndices /\ IsFile(sb.fst[index])
      /\ cluster \in Clusters /\ sb.fat[cluster] = CLUSTER_UNUSED
      /\ k # 0 => prev \in Clusters
      /\ new.fst[e].sub = sb.fst[e].sub
      /\ \A c \in Clusters :
            c \notin {old, cluster} =>
                new.fat[c] = IF k # 0 /\ c = prev THEN cluster ELSE sb.fat[c]
  BY Zenon DEF Relinks
<1>2. /\ old \in Clusters => old \in Chain(g, index)
      /\ k # 0 => prev \in Chain(g, index)
  BY <1>1, LastIsMarked
<1>3. Chain(g, e) \cap Chain(g, index) = {}
  <2>1. AreChains(g)
    BY DEF FatSound
  <2> HIDE DEF g
  <2> QED  BY <1>1, <2>1, ChainsDisjoint
<1>4. ASSUME NEW j \in Nat, ClusterAt(sb, e, j) \in Clusters
      PROVE  new.fat[ClusterAt(sb, e, j)] = sb.fat[ClusterAt(sb, e, j)]
  <2> DEFINE c == ClusterAt(sb, e, j)
  <2>1. /\ c \in Chain(g, e)
        /\ sb.fat[c] \in Clusters \cup {CLUSTER_LAST_IN_CHAIN}
    BY <1>4, LastIsMarked
  <2> HIDE DEF c, g, old, prev
  <2>2. c \in Clusters /\ c # cluster
    BY <1>1, <1>4, <2>1, FatNumbers DEF c
  <2>3. c # old /\ (k # 0 => c # prev)
    BY <1>2, <1>3, <2>1, <2>2
  <2> QED  BY <1>1, <2>2, <2>3 DEF c
<1>5. SameLinks(sb, new, e)
  BY <1>1, <1>4, Zenon DEF SameLinks
<1> QED  BY <1>5, SamePositions

-----------------------------------------------------------------------------
(* Sizes.                                                                  *)

\* Every file has the clusters that its size needs, also one out of reach from the
\* root.
Sized(sb) == \A f \in FstIndices :
    IsFile(sb.fst[f]) => LengthIs(sb, f, RoundedUp(sb.fst[f].size))

LEMMA ClusterSize == CLUSTER_DATA_SIZE \in Nat /\ CLUSTER_DATA_SIZE > 0
BY SffsAssumption DEF SffsAssumption

LEMMA RoundedUpNumber ==
    ASSUME NEW size \in Nat
    PROVE  /\ RoundedUp(size) \in Nat
           /\ size <= RoundedUp(size) * CLUSTER_DATA_SIZE
           /\ RoundedUp(size) * CLUSTER_DATA_SIZE < size + CLUSTER_DATA_SIZE
<1>1. size + CLUSTER_DATA_SIZE - 1 \in Nat
  BY ClusterSize
<1> DEFINE x == size + CLUSTER_DATA_SIZE - 1
           q == x \div CLUSTER_DATA_SIZE
<1>2. q \in Nat /\ q * CLUSTER_DATA_SIZE <= x
      /\ x < q * CLUSTER_DATA_SIZE + CLUSTER_DATA_SIZE
  <2> HIDE DEF x
  <2> QED  BY <1>1, ClusterSize, SMT DEF x
<1>3. q * CLUSTER_DATA_SIZE \in Int
  <2> HIDE DEF q
  <2> QED  BY <1>2, ClusterSize
<1> HIDE DEF q
<1>4. q = RoundedUp(size)
  BY DEF q, RoundedUp
<1> QED  BY <1>2, <1>3, <1>4, ClusterSize

LEMMA Multiples ==
    ASSUME NEW i \in Nat, NEW j \in Nat, i < j
    PROVE  /\ i * CLUSTER_DATA_SIZE \in Nat /\ j * CLUSTER_DATA_SIZE \in Nat
           /\ i * CLUSTER_DATA_SIZE + CLUSTER_DATA_SIZE <= j * CLUSTER_DATA_SIZE
BY ClusterSize, SMT

\* A size within cluster k.
LEMMA RoundedUpIs ==
    ASSUME NEW size \in Nat, NEW k \in Nat, k * CLUSTER_DATA_SIZE < size,
           size <= k * CLUSTER_DATA_SIZE + CLUSTER_DATA_SIZE
    PROVE  RoundedUp(size) = k + 1
<1> DEFINE n == RoundedUp(size)
<1>1. /\ n \in Nat /\ size <= n * CLUSTER_DATA_SIZE
      /\ n * CLUSTER_DATA_SIZE < size + CLUSTER_DATA_SIZE
  BY RoundedUpNumber
<1> HIDE DEF n
<1>2. /\ n * CLUSTER_DATA_SIZE \in Nat /\ k * CLUSTER_DATA_SIZE \in Nat
  BY <1>1, ClusterSize
<1>3. ~(n < k) /\ n # k
  BY <1>1, <1>2, ClusterSize, Multiples
<1>4. ~(k + 1 < n)
  <2> SUFFICES ASSUME k + 1 < n PROVE FALSE
    OBVIOUS
  <2> DEFINE m == k + 1
  <2>1. m \in Nat /\ k < m /\ m < n
    BY <1>1
  <2> HIDE DEF m
  <2>2. k * CLUSTER_DATA_SIZE + CLUSTER_DATA_SIZE <= m * CLUSTER_DATA_SIZE
        /\ m * CLUSTER_DATA_SIZE + CLUSTER_DATA_SIZE <= n * CLUSTER_DATA_SIZE
        /\ m * CLUSTER_DATA_SIZE \in Nat
    BY <1>1, <2>1, Multiples
  <2> QED  BY <1>1, <1>2, <2>2, ClusterSize
<1> QED  BY <1>1, <1>3, <1>4 DEF n

\* A size that is not behind cluster k needs as many clusters or one more.
LEMMA RoundedUpAtEdge ==
    ASSUME NEW size \in Nat, NEW k \in Nat, k * CLUSTER_DATA_SIZE <= size,
           size < k * CLUSTER_DATA_SIZE + CLUSTER_DATA_SIZE
    PROVE  RoundedUp(size) \in {k, k + 1}
<1> DEFINE n == RoundedUp(size)
<1>1. /\ n \in Nat /\ size <= n * CLUSTER_DATA_SIZE
      /\ n * CLUSTER_DATA_SIZE < size + CLUSTER_DATA_SIZE
  BY RoundedUpNumber
<1> HIDE DEF n
<1>2. /\ n * CLUSTER_DATA_SIZE \in Nat /\ k * CLUSTER_DATA_SIZE \in Nat
  BY <1>1, ClusterSize
<1>3. CASE k * CLUSTER_DATA_SIZE < size
  BY <1>3, <1>2, RoundedUpIs, ClusterSize
<1>4. CASE size = k * CLUSTER_DATA_SIZE
  <2>1. ~(n < k)
    BY <1>1, <1>2, <1>4, ClusterSize, Multiples
  <2>2. ~(k < n)
    BY <1>1, <1>2, <1>4, ClusterSize, Multiples
  <2> QED  BY <1>1, <2>1, <2>2 DEF n
<1> QED  BY <1>2, <1>3, <1>4

LEMMA SizedSuffices ==
    ASSUME NEW sb \in Superblock, FatSound(sb), Sized(sb)
    PROVE  ChainsMatch(sb)
<1> SUFFICES ASSUME NEW f \in LiveFiles(sb)
             PROVE  Cardinality(ChainOf(sb, f)) = RoundedUp(sb.fst[f].size)
  BY DEF ChainsMatch
<1>1. f \in FstIndices /\ IsFile(sb.fst[f])
  <2>1. Live(sb) \subseteq FstIndices
    BY ReachableInDomain, RootInTree DEF Live, Traversal
  <2> QED  BY <2>1 DEF LiveFiles
<1>2. RoundedUp(sb.fst[f].size) \in Nat
  <2>1. sb.fst[f].size \in Nat
    BY <1>1, WordsAreNumbers DEF Superblock, FstEntry
  <2> QED  BY <2>1, RoundedUpNumber
<1> QED  BY <1>1, <1>2, LengthIsCardinality DEF Sized

LEMMA SizeIsNumber ==
    ASSUME NEW sb \in Superblock, NEW f \in FstIndices
    PROVE  sb.fst[f].size \in Nat /\ RoundedUp(sb.fst[f].size) \in Nat
<1>1. sb.fst[f].size \in Nat
  BY WordsAreNumbers DEF Superblock, FstEntry
<1> QED  BY <1>1, RoundedUpNumber

\* The same clusters and the same sizes.
LEMMA SamePositionsSized ==
    ASSUME NEW s1, NEW s2, Sized(s1),
           \A f \in FstIndices : IsFile(s2.fst[f]) =>
               /\ IsFile(s1.fst[f]) /\ s2.fst[f].size = s1.fst[f].size
               /\ SameLinks(s1, s2, f)
    PROVE  Sized(s2)
<1> SUFFICES ASSUME NEW f \in FstIndices, IsFile(s2.fst[f]), NEW k \in Nat
             PROVE  ClusterAt(s2, f, k) # NIL <=> k < RoundedUp(s2.fst[f].size)
  BY DEF Sized, LengthIs
<1>1. ClusterAt(s2, f, k) = ClusterAt(s1, f, k)
  BY SamePositions
<1>2. ClusterAt(s1, f, k) # NIL <=> k < RoundedUp(s1.fst[f].size)
  BY DEF Sized, LengthIs
<1> QED  BY <1>1, <1>2

\* The last cluster of the file is written, or one is put behind it.
LEMMA WriteKeepsSized ==
    ASSUME NEW sb \in Superblock, FatSound(sb), Sized(sb), NEW nd,
           NEW index \in U16, NEW data, NEW chain_index \in U16,
           NEW new_size \in U32, NEW write,
           write = WriteFileData(sb, nd, index, data, chain_index, new_size),
           write.code = "Success", RoundedUp(new_size) = chain_index + 1,
           chain_index - RoundedUp(sb.fst[index].size) \in {-1, 0}
    PROVE  Sized(write.superblock)
<1> DEFINE cluster == Least(UnusedClusters(sb))
           new == write.superblock
           n   == RoundedUp(sb.fst[index].size)
<1>1. Relinks(sb, new, index, chain_index, cluster)
  BY WriteRelinks
<1>2. /\ index \in FstIndices
      /\ \A i \in FstIndices : new.fst[i].size =
             IF i = index THEN new_size ELSE sb.fst[i].size
  <2>1. WriteOutcome(sb, write, index, new_size)
    BY WriteOutcomes
  <2> QED  BY <2>1, Zenon DEF WriteOutcome
<1> HIDE DEF cluster, new
<1>3. /\ IsFile(sb.fst[index]) /\ cluster \in Clusters
      /\ \A i \in FstIndices : IsFile(new.fst[i]) <=> IsFile(sb.fst[i])
  BY <1>1, <1>2 DEF Relinks, IsFile
<1>4. /\ chain_index \in Nat /\ n \in Nat
      /\ chain_index \in {n - 1, n} /\ LengthIs(sb, index, n)
  <2>1. chain_index \in Nat /\ n \in Nat
    BY <1>2, SizeIsNumber, PointersAreNumbers
  <2>2. LengthIs(sb, index, n)
    BY <1>2, <1>3 DEF Sized
  <2> HIDE DEF n
  <2>3. chain_index - n \in {-1, 0}
    BY DEF n
  <2> QED  BY <2>1, <2>2, <2>3
<1> HIDE DEF n
<1>5. ASSUME NEW f \in FstIndices, IsFile(new.fst[f])
      PROVE  LengthIs(new, f, RoundedUp(new.fst[f].size))
  <2>1. CASE f = index
    <3>1. \A j \in Nat : ClusterAt(new, index, j) =
             IF j < chain_index THEN ClusterAt(sb, index, j)
             ELSE IF j = chain_index THEN cluster ELSE NIL
      BY <1>1, <1>4, WrittenPositions
    <3>2. \A j \in Nat : j < chain_index => ClusterAt(sb, index, j) # NIL
      BY <1>4 DEF LengthIs
    <3>3. \A j \in Nat : ClusterAt(new, index, j) # NIL <=> j < chain_index + 1
      BY <1>3, <1>4, <3>1, <3>2, FatNumbers
    <3> QED  BY <1>2, <2>1, <3>3 DEF LengthIs
  <2>2. CASE f # index
    <3>1. \A j \in Nat : ClusterAt(new, f, j) = ClusterAt(sb, f, j)
      BY <1>1, <1>3, <1>4, <1>5, <2>2, OtherPositions
    <3>2. LengthIs(sb, f, RoundedUp(sb.fst[f].size))
      BY <1>3, <1>5 DEF Sized
    <3> QED  BY <1>2, <2>2, <3>1, <3>2 DEF LengthIs
  <2> QED  BY <2>1, <2>2
<1> QED  BY <1>5 DEF Sized, new

-----------------------------------------------------------------------------
(* What waits in the cache.                                                *)

\* The data of the cache go to the last cluster of the file or behind it, and the
\* new size ends in that cluster.
AtEnd(c, size, old) ==
    /\ RoundedUp(size) = c.chain_index + 1
    /\ c.chain_index - RoundedUp(old) \in {-1, 0}

\* Data that do not make the file longer are never accepted.
PendingHolds(sb, hs, c) ==
    Dirty(c) => LET h   == hs[c.handle]
                    old == sb.fst[h.fst_index].size
                IN  h.file_size > old => AtEnd(c, h.file_size, old)

PendingAtEnd == PendingHolds(superblock, handles, cache)

LEMMA FlushKeepsSized ==
    ASSUME TypeOK, FatSound(superblock), Sized(superblock), PendingAtEnd
    PROVE  Sized(FlushFileCache.superblock)
<1>1. CASE ~Dirty(cache)
  BY <1>1 DEF FlushFileCache, IoState
<1>2. CASE Dirty(cache)
  <2> DEFINE h == handles[cache.handle]
             write == WriteFileData(superblock, nand, h.fst_index, cache.data,
                                    cache.chain_index, h.file_size)
  <2>1. FlushFileCache.superblock = write.superblock
    <3> HIDE DEF write
    <3> QED
      BY <1>2 DEF FlushFileCache, FlushNeeded, Written, WriteBack, IoState, write
  <2>2. cache.handle \in HandleIds /\ cache.chain_index \in U16
    BY <1>2 DEF TypeOK, Cache, Dirty
  <2>3. /\ h.fst_index \in U16 /\ h.file_size \in U32
        /\ superblock \in Superblock
    BY <2>2 DEF TypeOK, Handle
  <2>4. WriteOutcome(superblock, write, h.fst_index, h.file_size)
    <3> HIDE DEF h
    <3> QED  BY <2>2, <2>3, WriteOutcomes
  <2>5. CASE write.code # "Success"
    BY <2>1, <2>4, <2>5 DEF WriteOutcome
  <2>6. CASE write.code = "Success"
    <3>1. h.file_size > superblock.fst[h.fst_index].size
      <4>1. /\ h.fst_index \in FstIndices
            /\ superblock.fst[h.fst_index].size < h.file_size
        BY <2>4, <2>6, Zenon DEF WriteOutcome
      <4> QED  BY <4>1
    <3>2. AtEnd(cache, h.file_size, superblock.fst[h.fst_index].size)
      BY <1>2, <3>1 DEF PendingAtEnd, PendingHolds
    <3> HIDE DEF h
    <3>3. Sized(write.superblock)
      BY <2>2, <2>3, <2>6, <3>2, WriteKeepsSized DEF AtEnd
    <3> QED  BY <2>1, <3>3
  <2> QED  BY <2>5, <2>6
<1> QED  BY <1>1, <1>2

-----------------------------------------------------------------------------
(* The namespace calls.                                                    *)

\* Every file was one, with the first cluster and the owner it has now, and with
\* its name unless it is entry x.
FilesStay(s1, s2, x) == \A f \in FstIndices :
    IsFile(s2.fst[f]) =>
        /\ IsFile(s1.fst[f])
        /\ s2.fst[f].sub = s1.fst[f].sub /\ s2.fst[f].uid = s1.fst[f].uid
        /\ f # x => s2.fst[f].name = s1.fst[f].name

LEMMA RemovedFiles ==
    ASSUME TypeOK, IsFstTree(superblock), FatSound(superblock),
           NEW parent \in FromRoot(Pointers(superblock)),
           IsDirectory(superblock.fst[parent]),
           NEW index \in Children(superblock, parent)
    PROVE  LET new == RemoveFstEntryFromChain(DeleteContents(index), parent,
                                              index).sb
           IN  /\ FilesStay(superblock, new, NIL)
               /\ OnlyFrees(superblock, new)
<1> DEFINE deleted == DeleteContents(index)
           new == RemoveFstEntryFromChain(deleted, parent, index).sb
           g   == Pointers(superblock)
<1>1. /\ parent \in FstIndices /\ index \in FromRoot(g) /\ index \in FstIndices
      /\ Children(superblock, parent) = ChildrenOf(g, parent)
  BY TreeFacts
<1>2. /\ FilesWithout(superblock, deleted, Emptied(index))
      /\ OnlyFrees(superblock, deleted)
  BY <1>1, ContentsFat, ContentsOnlyFree
<1>3. /\ deleted \in Superblock /\ Pointers(deleted) = g
      /\ \A i \in FstIndices :
            /\ deleted.fst[i].name = superblock.fst[i].name
            /\ IsDirectory(deleted.fst[i]) <=> IsDirectory(superblock.fst[i])
  BY <1>1, ContentsKeepPointers
<1> HIDE DEF deleted
<1>4. index \in Children(deleted, parent) /\ IsDirectory(deleted.fst[parent])
  BY <1>1, <1>3, ChildrenInGraph
<1>5. /\ \A f \in FstIndices \ {index} : new.fst[f].type = deleted.fst[f].type
      /\ new.fst[index].type = "none"
      /\ \A f \in FstIndices : IsFile(deleted.fst[f]) =>
            new.fst[f].sub = deleted.fst[f].sub
  BY <1>1, <1>3, <1>4, UnlinkedFiles
<1>6. \A f \in FstIndices : new.fst[f].name = deleted.fst[f].name
  <2>1. PICK q \in FstIndices, k \in Kinds : Unlinked(deleted, new, index, q, k)
    BY <1>1, <1>3, <1>4, RemovalUnlinks
  <2> HIDE DEF new
  <2> QED  BY <2>1 DEF Unlinked, SameEntry
<1>7. OnlyFrees(superblock, new)
  BY <1>1, <1>2, <1>3, RemovalOnlyFrees, OnlyFreesTransitive
<1> HIDE DEF new
<1>8. \A f \in FstIndices : IsFile(new.fst[f]) =>
         IsFile(deleted.fst[f]) /\ new.fst[f].sub = deleted.fst[f].sub
  BY <1>5 DEF IsFile
<1>9. \A f \in FstIndices : IsFile(deleted.fst[f]) =>
         IsFile(superblock.fst[f]) /\ deleted.fst[f].sub = superblock.fst[f].sub
  BY <1>2 DEF FilesWithout
<1>10. FilesStay(superblock, new, NIL)
  BY <1>3, <1>6, <1>7, <1>8, <1>9 DEF FilesStay, OnlyFrees
<1> QED  BY <1>7, <1>10 DEF new, deleted

LEMMA RenamedFiles ==
    ASSUME TypeOK, OpenFilesAreFiles, IsFstTree(superblock),
           FatSound(superblock), NEW fd \in HandleIds,
           NEW old_path \in Paths, NEW new_path \in Paths,
           RenameCode(fd, old_path, new_path) = "Success",
           ~ThroughFile(old_path), ~ThroughFile(new_path),
           ~IsProperPrefix(new_path, old_path)
    PROVE  FilesStay(superblock, Renamed(old_path, new_path).sb,
                     GetFstIndex(superblock, old_path))
<1> DEFINE old_parent == GetFstIndex(superblock, SplitPath(old_path).parent)
           new_parent == GetFstIndex(superblock, SplitPath(new_path).parent)
           index      == ChildIndex(superblock, old_parent,
                                    SplitPath(old_path).file_name)
           new_index  == ChildIndex(superblock, new_parent,
                                    SplitPath(new_path).file_name)
           name       == SplitPath(new_path).file_name
           replaced   == Replaced(new_parent, new_index)
           s1         == replaced.sb
           unlinked   == RemoveFstEntryFromChain(s1, old_parent, index)
           s2         == unlinked.sb
           new        == Relinked(s2, index, s1.fst[index], new_parent, name)
           g          == Pointers(superblock)
<1>1. /\ old_parent \in FromRoot(g) /\ IsDirectory(superblock.fst[old_parent])
      /\ new_parent \in FromRoot(g) /\ IsDirectory(superblock.fst[new_parent])
      /\ index \in Children(superblock, old_parent)
      /\ index \in FstIndices /\ StoredName(name) \in Names
      /\ new_index # NIL => /\ new_index \in Children(superblock, new_parent)
                            /\ Deletable(new_index)
                            /\ index \notin Within(g, new_index)
      /\ Renamed(old_path, new_path) =
            IF replaced.code # "Success" THEN replaced
            ELSE IF unlinked.code # "Success" THEN unlinked
            ELSE [code |-> "Success", sb |-> new]
  BY RenamePlaces
<1>2. superblock \in Superblock
  BY DEF TypeOK
<1>3. index = GetFstIndex(superblock, old_path)
  <2>1. old_path # <<>> /\ old_parent # NIL
    BY DEF RenameCode, IsValidNonRootPath
  <2>2. AvoidsFiles(superblock, old_path)
    BY NotThroughFile
  <2>3. /\ index = At(superblock, old_path, Len(old_path))
        /\ old_path \in Seq(Components)
    BY <1>2, <2>1, <2>2, ParentOfPath
  <2> QED  BY <2>3, PathLookup
<1>4. OnlyFrees(superblock, Renamed(old_path, new_path).sb)
  BY RenamedOnlyFrees
<1> HIDE DEF old_parent, new_parent, index, new_index, name
<1>5. /\ replaced.code = "Success" /\ s1 \in Superblock /\ IsFstTree(s1)
      /\ old_parent \in FromRoot(Pointers(s1)) /\ IsDirectory(s1.fst[old_parent])
      /\ new_parent \in FromRoot(Pointers(s1)) /\ IsDirectory(s1.fst[new_parent])
      /\ index \in Children(s1, old_parent) /\ FilesStay(superblock, s1, NIL)
  <2>1. CASE new_index = NIL
    <3>1. replaced = [code |-> "Success", sb |-> superblock]
      BY <2>1 DEF Replaced
    <3> HIDE DEF replaced
    <3> QED  BY <1>1, <1>2, <3>1 DEF FilesStay
  <2>2. CASE new_index # NIL
    <3>1. replaced = RemoveFstEntryFromChain(DeleteContents(new_index),
                                             new_parent, new_index)
      BY <2>2 DEF Replaced
    <3>2. FilesStay(superblock, s1, NIL)
      <4> HIDE DEF replaced
      <4> QED  BY <1>1, <2>2, <3>1, RemovedFiles
    <3> HIDE DEF replaced, s1
    <3>3. s1 = replaced.sb
      BY DEF s1
    <3>4. /\ replaced.code = "Success" /\ s1 \in Superblock
          /\ Removed(superblock, s1, new_index)
          /\ old_parent \in FromRoot(Pointers(s1))
          /\ IsDirectory(s1.fst[old_parent])
          /\ new_parent \in FromRoot(Pointers(s1))
          /\ IsDirectory(s1.fst[new_parent])
          /\ index \in Children(s1, old_parent)
      BY <1>1, <2>2, <3>1, <3>3, ReplacedTree DEF Deletable
    <3> QED  BY <3>2, <3>4 DEF Removed
  <2> QED  BY <2>1, <2>2
<1> HIDE DEF replaced, s1
<1>6. old_parent \in FstIndices /\ new_parent \in FstIndices
  BY <1>5, TreeFacts
<1>7. unlinked.code = "Success"
  BY <1>1, <1>5, MovingKeepsTree
<1>8. SameFiles(s1, new)
  BY <1>1, <1>5, <1>6, MovedFiles
<1>9. \A f \in FstIndices \ {index} : new.fst[f].name = s1.fst[f].name
  <2>1. /\ s2 \in Superblock /\ s1.fst[index] \in FstEntry
        /\ \A f \in FstIndices \ {index} : s2.fst[f].name = s1.fst[f].name
    <3>1. s2 \in Superblock
      BY <1>1, <1>5, <1>6, RemovalUnlinks
    <3>2. PICK q \in FstIndices, k \in Kinds : Unlinked(s1, s2, index, q, k)
      BY <1>1, <1>5, <1>6, RemovalUnlinks
    <3> HIDE DEF s2
    <3> QED  BY <1>1, <1>5, <3>1, <3>2 DEF Unlinked, SameEntry, Superblock
  <2> HIDE DEF s2
  <2> QED  BY <1>1, <1>6, <2>1, RelinkedFields
<1> HIDE DEF unlinked, s2, new
<1>10. Renamed(old_path, new_path) = [code |-> "Success", sb |-> new]
  BY <1>1, <1>5, <1>7
<1>11. OnlyFrees(superblock, new)
  BY <1>4, <1>10
<1>12. \A f \in FstIndices : IsFile(new.fst[f]) =>
          IsFile(s1.fst[f]) /\ new.fst[f].sub = s1.fst[f].sub
  BY <1>8 DEF SameFiles, FilesWithout
<1>13. \A f \in FstIndices : IsFile(s1.fst[f]) =>
          /\ IsFile(superblock.fst[f]) /\ s1.fst[f].sub = superblock.fst[f].sub
          /\ s1.fst[f].name = superblock.fst[f].name
  BY <1>5, NilIsNoIndex DEF FilesStay
<1>14. FilesStay(superblock, new, index)
  BY <1>9, <1>11, <1>12, <1>13 DEF FilesStay, OnlyFrees
<1> QED  BY <1>3, <1>10, <1>14

\* A file that stays has its first cluster and, once it has data, its owner and its
\* name; a new one is empty.
KeptFiles(s1, s2) == \A f \in FstIndices : IsFile(s2.fst[f]) =>
    \/ /\ IsFile(s1.fst[f]) /\ s2.fst[f].sub = s1.fst[f].sub
       /\ s1.fst[f].size # 0 =>
             /\ s2.fst[f].uid = s1.fst[f].uid
             /\ "rename_written_file" \notin Uses =>
                   s2.fst[f].name = s1.fst[f].name
    \/ /\ ~IsFile(s1.fst[f])
       /\ s2.fst[f].sub = CLUSTER_LAST_IN_CHAIN /\ s2.fst[f].size = 0

LEMMA FilesStayKept ==
    ASSUME NEW s1, NEW s2, NEW x, FilesStay(s1, s2, x),
           /\ x \in FstIndices /\ IsFile(s1.fst[x]) /\ s1.fst[x].size # 0
           => "rename_written_file" \in Uses
    PROVE  KeptFiles(s1, s2)
BY DEF FilesStay, KeptFiles

LEMMA CreatedFiles ==
    ASSUME TypeOK, IsFstTree(superblock),
           NEW fd \in HandleIds, NEW path \in Paths,
           NEW type \in {"file", "directory"}, NEW perm \in Permissions,
           CreateCode(fd, path, type) = "Success", ~ThroughFile(path)
    PROVE  KeptFiles(superblock, Created(fd, path, type, perm))
<1> DEFINE parent == GetFstIndex(superblock, SplitPath(path).parent)
           child  == GetUnusedFstIndex(superblock)
           new    == Created(fd, path, type, perm)
<1>1. /\ IsDirectory(superblock.fst[parent]) /\ parent \in FstIndices
      /\ child \in FstIndices /\ superblock.fst[child].type = "none"
      /\ new.fst[child].type = type /\ new.fst[child].size = 0
      /\ type = "file" => new.fst[child].sub = CLUSTER_LAST_IN_CHAIN
      /\ \A i \in FstIndices \ {parent, child} : new.fst[i] = superblock.fst[i]
      /\ \A i \in FstIndices \ {child} : SameEntry(superblock, new, i)
  BY CreatedChild
<1> HIDE DEF new, parent, child
<1>2. ~IsFile(new.fst[parent]) /\ ~IsFile(superblock.fst[child])
  BY <1>1 DEF IsFile, IsDirectory, SameEntry
<1>3. KeptFiles(superblock, new)
  BY <1>1, <1>2 DEF KeptFiles, IsFile
<1> QED  BY <1>3 DEF new

LEMMA SetMetadataFiles ==
    ASSUME TypeOK, NEW fd \in HandleIds, NEW path \in Paths,
           NEW uid \in Uids, NEW gid \in Gids, NEW perm \in Permissions,
           SetMetadata(fd, path, uid, gid, perm)
    PROVE  KeptFiles(superblock, superblock')
<1> DEFINE index == GetFstIndex(superblock, path)
           old   == superblock.fst[index]
           entry == SetAccessMode([old EXCEPT !.uid = uid, !.gid = gid], perm)
           new   == [superblock EXCEPT !.fst[index] = entry]
<1>1. CASE SetMetadataCode(fd, path, uid) # "Success"
  <2>1. superblock' = superblock
    BY <1>1 DEF SetMetadata, Finishes
  <2> QED  BY <2>1 DEF KeptFiles
<1>2. CASE SetMetadataCode(fd, path, uid) = "Success"
  <2>1. index \in FstIndices /\ ~(IsFile(old) /\ old.size # 0)
    BY <1>2, GetFstIndexType DEF SetMetadataCode
  <2>2. old \in FstEntry /\ superblock \in Superblock
    BY <2>1 DEF TypeOK, Superblock
  <2>3. entry.type = old.type /\ entry.sub = old.sub
    <3> HIDE DEF old
    <3> QED  BY <2>2 DEF SetAccessMode, FstEntry
  <2>4. superblock' = new
    BY <1>2, Zenon DEF SetMetadata, Finishes
  <2>5. KeptFiles(superblock, new)
    <3> HIDE DEF entry, index
    <3>1. \A f \in FstIndices :
             new.fst[f] = IF f = index THEN entry ELSE superblock.fst[f]
      BY <2>2 DEF Superblock
    <3> HIDE DEF new
    <3> QED  BY <2>1, <2>3, <3>1 DEF KeptFiles, IsFile
  <2> HIDE DEF new
  <2> QED  BY <2>4, <2>5
<1> QED  BY <1>1, <1>2

LEMMA DeleteFiles ==
    ASSUME TypeOK, IsFstTree(superblock), FatSound(superblock),
           NEW fd \in HandleIds, NEW path \in Paths, ~ThroughFile(path),
           Delete(fd, path)
    PROVE  KeptFiles(superblock, superblock')
<1> DEFINE parent  == GetFstIndex(superblock, SplitPath(path).parent)
           index   == ChildIndex(superblock, parent, SplitPath(path).file_name)
           removed == RemoveFstEntryFromChain(DeleteContents(index), parent, index)
<1>1. CASE DeleteCode(fd, path) # "Success"
  <2>1. superblock' = superblock
    BY <1>1 DEF Delete, Finishes
  <2> QED  BY <2>1 DEF KeptFiles
<1>2. CASE DeleteCode(fd, path) = "Success"
  <2>1. superblock' = removed.sb
    BY <1>2 DEF Delete, Finishes
  <2>2. /\ parent \in FromRoot(Pointers(superblock))
        /\ IsDirectory(superblock.fst[parent])
        /\ index \in Children(superblock, parent)
    <3>1. path # <<>> /\ parent # NIL /\ index # NIL
      BY <1>2 DEF DeleteCode, IsValidNonRootPath
    <3>2. superblock \in Superblock /\ AvoidsFiles(superblock, path)
      BY NotThroughFile DEF TypeOK
    <3> QED  BY <3>1, <3>2, ParentOfPath
  <2>3. FilesStay(superblock, removed.sb, NIL)
    BY <2>2, RemovedFiles
  <2> HIDE DEF removed
  <2> QED  BY <2>1, <2>3, FilesStayKept, NilIsNoIndex
<1> QED  BY <1>1, <1>2

LEMMA RenameFiles ==
    ASSUME TypeOK, OpenFilesAreFiles, IsFstTree(superblock), FatSound(superblock),
           NEW fd \in HandleIds, NEW old_path \in Paths, NEW new_path \in Paths,
           ~ThroughFile(old_path), ~ThroughFile(new_path),
           ~IsProperPrefix(new_path, old_path), PlainRename(old_path, new_path),
           Rename(fd, old_path, new_path)
    PROVE  KeptFiles(superblock, superblock')
<1> DEFINE renamed == Renamed(old_path, new_path)
           index   == GetFstIndex(superblock, old_path)
<1>1. CASE RenameCode(fd, old_path, new_path) # "Success"
  <2>1. superblock' = superblock
    BY <1>1 DEF Rename, Finishes
  <2> QED  BY <2>1 DEF KeptFiles
<1>2. CASE RenameCode(fd, old_path, new_path) = "Success"
  <2>1. superblock' = renamed.sb
    BY <1>2 DEF Rename, Finishes
  <2>2. FilesStay(superblock, renamed.sb, index)
    BY <1>2, RenamedFiles
  <2>3. /\ index \in FstIndices /\ IsFile(superblock.fst[index])
        /\ superblock.fst[index].size # 0
        => "rename_written_file" \in Uses
    BY NilIsNoIndex DEF PlainRename, Permitted, IsWrittenFile
  <2> HIDE DEF renamed, index
  <2> QED  BY <2>1, <2>2, <2>3, FilesStayKept
<1> QED  BY <1>1, <1>2

LEMMA NamespaceFiles ==
    ASSUME TypeOK, OpenFilesAreFiles, IsFstTree(superblock), FatSound(superblock),
           TreeSafeUses, NamespaceCall
    PROVE  KeptFiles(superblock, superblock')
<1>1. PICK fd \in PathFds, path \in Paths :
          /\ PlainPath(path)
          /\ \/ \E perm \in Permissions : \/ CreateFile(fd, path, perm)
                                          \/ CreateDirectory(fd, path, perm)
             \/ Delete(fd, path)
             \/ \E new_path \in Paths :
                    PlainRename(path, new_path) /\ Rename(fd, path, new_path)
             \/ \E user \in Owners, perm \in Permissions :
                    SetMetadata(fd, path, user[1], user[2], perm)
  BY DEF NamespaceCall, NamespaceCallOn
<1>2. ~ThroughFile(path) /\ fd \in HandleIds
  BY <1>1, FileSystemAssumption
     DEF FileSystemAssumption, TreeSafeUses, PlainPath, Permitted
<1>3. ASSUME NEW type \in {"file", "directory"}, NEW perm \in Permissions,
             Create(fd, path, type, perm)
      PROVE  KeptFiles(superblock, superblock')
  <2> DEFINE new == Created(fd, path, type, perm)
  <2>1. CASE CreateCode(fd, path, type) # "Success"
    <3>1. superblock' = superblock
      BY <1>3, <2>1 DEF Create, Finishes
    <3> QED  BY <3>1 DEF KeptFiles
  <2>2. CASE CreateCode(fd, path, type) = "Success"
    <3>1. superblock' = new
      BY <1>3, <2>2 DEF Create, Finishes
    <3>2. KeptFiles(superblock, new)
      BY <1>2, <2>2, CreatedFiles
    <3> HIDE DEF new
    <3> QED  BY <3>1, <3>2
  <2> QED  BY <2>1, <2>2
<1>4. CASE \E perm \in Permissions : \/ CreateFile(fd, path, perm)
                                     \/ CreateDirectory(fd, path, perm)
  BY <1>3, <1>4 DEF CreateFile, CreateDirectory
<1>5. CASE Delete(fd, path)
  BY <1>2, <1>5, DeleteFiles
<1>6. CASE \E new_path \in Paths :
              PlainRename(path, new_path) /\ Rename(fd, path, new_path)
  <2>1. PICK new_path \in Paths :
            PlainRename(path, new_path) /\ Rename(fd, path, new_path)
    BY <1>6
  <2>2. ~ThroughFile(new_path) /\ ~IsProperPrefix(new_path, path)
    BY <2>1 DEF PlainRename, TreeSafeUses, PlainPath, Permitted
  <2> QED  BY <1>2, <2>1, <2>2, RenameFiles
<1>7. CASE \E user \in Owners, perm \in Permissions :
              SetMetadata(fd, path, user[1], user[2], perm)
  BY <1>2, <1>7, SetMetadataFiles, UserTypes
<1> QED  BY <1>1, <1>4, <1>5, <1>6, <1>7

\* Freeing clusters of other files leaves the chain of a file as it is: what is
\* still at its positions is in use.
LEMMA KeptLinks ==
    ASSUME NEW s1, NEW s2, FatSound(s2), NEW f \in FstIndices, IsFile(s2.fst[f]),
           s2.fst[f].sub = s1.fst[f].sub,
           \A c \in Clusters : s2.fat[c] \in {s1.fat[c], CLUSTER_UNUSED}
    PROVE  SameLinks(s1, s2, f)
<1> DEFINE bad == {k \in Nat : ClusterAt(s2, f, k) # ClusterAt(s1, f, k)}
<1>1. ASSUME NEW k \in Nat, ClusterAt(s2, f, k) = ClusterAt(s1, f, k),
             ClusterAt(s1, f, k) \in Clusters
      PROVE  s2.fat[ClusterAt(s1, f, k)] = s1.fat[ClusterAt(s1, f, k)]
  <2>1. s2.fat[ClusterAt(s2, f, k)] \in Clusters \cup {CLUSTER_LAST_IN_CHAIN}
    BY <1>1, LastIsMarked
  <2> QED  BY <1>1, <2>1, FatNumbers
<1>2. bad = {}
  <2> SUFFICES ASSUME bad # {} PROVE FALSE
    OBVIOUS
  <2>1. bad \in SUBSET Nat
    OBVIOUS
  <2>2. PICK k \in bad : \A j \in bad : k <= j
    <3> HIDE DEF bad
    <3> QED  BY <2>1, LeastIsMember
  <2>3. k \in Nat /\ ClusterAt(s2, f, k) # ClusterAt(s1, f, k)
    OBVIOUS
  <2>4. k # 0
    BY <2>3, FirstCluster
  <2>5. k - 1 \in Nat /\ k - 1 \notin bad
    <3> HIDE DEF bad
    <3> QED  BY <2>2, <2>3, <2>4
  <2>6. ClusterAt(s2, f, k - 1) = ClusterAt(s1, f, k - 1)
    BY <2>5
  <2> HIDE DEF bad
  <2>7. ClusterAt(s1, f, k - 1) \in Clusters =>
           s2.fat[ClusterAt(s1, f, k - 1)] = s1.fat[ClusterAt(s1, f, k - 1)]
    BY <1>1, <2>5, <2>6
  <2>8. /\ ClusterAt(s1, f, k) = IF /\ ClusterAt(s1, f, k - 1) \in Clusters
                                    /\ s1.fat[ClusterAt(s1, f, k - 1)] \in Clusters
                                 THEN s1.fat[ClusterAt(s1, f, k - 1)] ELSE NIL
        /\ ClusterAt(s2, f, k) = IF /\ ClusterAt(s2, f, k - 1) \in Clusters
                                    /\ s2.fat[ClusterAt(s2, f, k - 1)] \in Clusters
                                 THEN s2.fat[ClusterAt(s2, f, k - 1)] ELSE NIL
    BY <2>3, <2>4, NextCluster
  <2> QED  BY <2>3, <2>6, <2>7, <2>8
<1>3. \A k \in Nat : ClusterAt(s1, f, k) \in Clusters =>
         s2.fat[ClusterAt(s1, f, k)] = s1.fat[ClusterAt(s1, f, k)]
  BY <1>1, <1>2
<1> QED  BY <1>3, Zenon DEF SameLinks

LEMMA KeptFilesSized ==
    ASSUME NEW s1, NEW s2, FatSound(s2), Sized(s1), KeptFiles(s1, s2),
           \A c \in Clusters : s2.fat[c] \in {s1.fat[c], CLUSTER_UNUSED},
           \A i \in FstIndices : s1.fst[i].type # "none" =>
               s2.fst[i].size = s1.fst[i].size
    PROVE  Sized(s2)
<1> SUFFICES ASSUME NEW f \in FstIndices, IsFile(s2.fst[f])
             PROVE  LengthIs(s2, f, RoundedUp(s2.fst[f].size))
  BY DEF Sized
<1>1. CASE IsFile(s1.fst[f])
  <2>1. s2.fst[f].sub = s1.fst[f].sub
    BY <1>1 DEF KeptFiles
  <2>2. s2.fst[f].size = s1.fst[f].size
    BY <1>1 DEF IsFile
  <2>3. \A k \in Nat : ClusterAt(s2, f, k) = ClusterAt(s1, f, k)
    BY <2>1, KeptLinks, SamePositions
  <2>4. LengthIs(s1, f, RoundedUp(s1.fst[f].size))
    BY <1>1 DEF Sized
  <2> QED  BY <2>2, <2>3, <2>4 DEF LengthIs
<1>2. CASE ~IsFile(s1.fst[f])
  <2>1. s2.fst[f].sub = CLUSTER_LAST_IN_CHAIN /\ s2.fst[f].size = 0
    BY <1>2 DEF KeptFiles
  <2>2. RoundedUp(0) = 0
    BY ClusterSize, SMT DEF RoundedUp
  <2>3. \A k \in Nat : ClusterAt(s2, f, k) = NIL
    <3> SUFFICES ASSUME NEW k \in Nat PROVE ClusterAt(s2, f, k) = NIL
      OBVIOUS
    <3> DEFINE some == {j \in Nat : ClusterAt(s2, f, j) # NIL}
    <3>1. ASSUME some # {} PROVE FALSE
      <4>1. some \in SUBSET Nat
        OBVIOUS
      <4>2. PICK j \in some : \A i \in some : j <= i
        <5> HIDE DEF some
        <5> QED  BY <3>1, <4>1, LeastIsMember
      <4>3. j \in Nat /\ ClusterAt(s2, f, j) # NIL
        OBVIOUS
      <4>4. j # 0
        BY <2>1, <4>3, FirstCluster, FatNumbers
      <4>5. j - 1 \in Nat /\ j - 1 \notin some
        <5> HIDE DEF some
        <5> QED  BY <4>2, <4>3, <4>4
      <4>6. ClusterAt(s2, f, j - 1) = NIL
        BY <4>5
      <4> QED  BY <4>3, <4>4, <4>6, NextCluster, FatNumbers
    <3> QED  BY <3>1
  <2>4. \A k \in Nat : ~(k < 0)
    OBVIOUS
  <2> QED  BY <2>1, <2>2, <2>3, <2>4 DEF LengthIs
<1> QED  BY <1>1, <1>2

-----------------------------------------------------------------------------
(* The steps.                                                              *)

LEMMA NoFilesSized ==
    ASSUME NEW sb, \A f \in FstIndices : ~IsFile(sb.fst[f])
    PROVE  Sized(sb)
BY DEF Sized

LEMMA NormalisedSized ==
    ASSUME NEW sb \in Superblock, Sized(sb)
    PROVE  Sized(Normalised(sb))
<1> DEFINE new == Normalised(sb)
<1>1. /\ new.fst = sb.fst
      /\ \A c \in Clusters : new.fat[c] = IF sb.fat[c] = NIL THEN CLUSTER_UNUSED
                                                             ELSE sb.fat[c]
  BY DEF Normalised, Superblock
<1> HIDE DEF new
<1>2. ASSUME NEW f \in FstIndices, IsFile(new.fst[f])
      PROVE  SameLinks(sb, new, f)
  BY <1>1, FatNumbers DEF SameLinks
<1>3. Sized(new)
  BY <1>1, <1>2, SamePositionsSized
<1> QED  BY <1>3 DEF new

SizedInv == Sized(superblock) /\ Sized(stored)

LEMMA NextSized ==
    ASSUME TypeOK, OpenFilesAreFiles, TreeInv, FatInv, FatInv', TreeSafeUses,
           SizedInv, PendingAtEnd, [Next]_vars
    PROVE  SizedInv'
<1>1. CASE NamespaceCall
  <2>1. KeptFiles(superblock, superblock')
    BY <1>1, NamespaceFiles DEF TreeInv, FatInv
  <2>2. NamespaceEdit(superblock')
    BY <1>1, NamespaceSteps DEF NamespaceStep
  <2>3. Sized(superblock')
    BY <2>1, <2>2, KeptFilesSized DEF FatInv, SizedInv, NamespaceEdit
  <2>4. stored' \in {stored, superblock'}
    BY <1>1, NamespaceFat DEF TreeInv, FatInv, StepKeepsFat
  <2> QED  BY <2>3, <2>4 DEF SizedInv
<1>2. CASE superblock' \in {superblock, FlushFileCache.superblock} /\
           stored' \in {stored, superblock'}
  <2>1. Sized(FlushFileCache.superblock)
    BY FlushKeepsSized DEF SizedInv, FatInv
  <2> QED  BY <1>2, <2>1 DEF SizedInv
<1>3. CASE superblock' = FormattedSuperblock /\ stored' = superblock'
  <2>1. Sized(FormattedSuperblock)
    BY NoFilesSized, FormattedFields
  <2> QED  BY <1>3, <2>1 DEF SizedInv
<1>4. CASE superblock' \in {stored, Normalised(stored)} /\ stored' = stored
  <2>1. Sized(Normalised(stored))
    BY NormalisedSized DEF SizedInv, TypeOK
  <2> QED  BY <1>4, <2>1 DEF SizedInv
<1>5. CASE OpenCall
  BY <1>2, <1>5, OpenCallHandles
<1>6. CASE FileCall
  <2>1. ASSUME NEW fd \in HandleIds, Close(fd)
        PROVE  SizedInv'
    <3>1. CloseOutcome(FlushFileCache, fd)
      BY <2>1, CloseOutcomes
    <3>2. superblock' \in {superblock, FlushFileCache.superblock} /\
          stored' \in {stored, superblock'}
      BY <3>1, Zenon DEF CloseOutcome, ClosedWithCache, ClosedWithout
    <3> QED  BY <1>2, <3>2
  <2>2. CASE ~\E fd \in HandleIds : Close(fd)
    <3>1. superblock' = superblock /\ stored' = stored
      BY <1>6, <2>2 DEF FileCall, SeekFile, ReadFile, WriteFile, Begin
    <3> QED  BY <1>2, <3>1
  <2> QED  BY <2>1, <2>2
<1>7. CASE FormatCall
  <2>1. \/ superblock' = superblock /\ stored' = stored
        \/ superblock' = FormattedSuperblock /\ stored' = superblock'
    BY <1>7 DEF FormatCall, Format
  <2> QED  BY <1>2, <1>3, <2>1
<1>8. CASE ReadFileStep \/ WriteFileStep
  <2>1. PICK op \in {"ReadFile", "WriteFile"}, write \in BOOLEAN :
            Advance(op, write)
    BY <1>8 DEF ReadFileStep, WriteFileStep
  <2>2. call # Idle
    BY <2>1 DEF Advance, Idle
  <2>3. superblock' \in {superblock, FlushFileCache.superblock}
    BY <2>1, <2>2, AdvanceSuperblock
  <2>4. stored' = stored
    BY <2>1 DEF Advance, Copy
  <2> QED  BY <1>2, <2>3, <2>4
<1>9. CASE Remount
  BY <1>4, <1>9 DEF Remount
<1>10. CASE UNCHANGED vars
  BY <1>2, <1>10 DEF vars
<1> QED  BY <1>1, <1>5, <1>6, <1>7, <1>8, <1>9, <1>10 DEF Next

\* What waits, the handle that it belongs to and the entry are the ones of before.
LEMMA PendingCarriesOver ==
    ASSUME NEW s1, NEW h1, NEW c1, PendingHolds(s1, h1, c1),
           NEW s2, NEW h2, NEW c2,
           Dirty(c2) =>
               /\ Dirty(c1) /\ c2.handle = c1.handle
               /\ c2.chain_index = c1.chain_index
               /\ h2[c1.handle].fst_index = h1[c1.handle].fst_index
               /\ h2[c1.handle].file_size = h1[c1.handle].file_size
               /\ s2.fst[h1[c1.handle].fst_index].size =
                     s1.fst[h1[c1.handle].fst_index].size
    PROVE  PendingHolds(s2, h2, c2)
BY DEF PendingHolds, AtEnd

LEMMA PopulatedPending ==
    ASSUME TypeOK, OpenFilesAreFiles, HandlesInv, SizesInv, PendingAtEnd,
           NEW fd \in Fds, FileOpen(fd), NEW offset, NEW write \in BOOLEAN,
           write => Writable(fd), NEW pop, PopulateOutcome(pop, fd, offset, write)
    PROVE  PendingHolds(pop.superblock, pop.handles, pop.cache)
<1> DEFINE flush == FlushFileCache
<1>1. FlushOutcome(flush)
  BY FlushOutcomes
<1>2. flush.code = "Success" => CleanSizes(flush.superblock, flush.handles)
  <2> HIDE DEF flush
  <2> QED  BY <1>1, FlushedSizes DEF SizesInv
<1> HIDE DEF flush
<1>3. CASE CacheHit(fd, offset)
  BY <1>3 DEF PopulateOutcome, PendingAtEnd
<1>4. CASE ~CacheHit(fd, offset) /\ flush.code # "Success"
  <2>1. flush.superblock = superblock /\ flush.handles = handles
    BY <1>1, <1>4 DEF FlushOutcome, Flushed
  <2>2. /\ pop.superblock = superblock /\ pop.handles = handles
        /\ pop.cache = cache
    BY <1>4, <2>1 DEF PopulateOutcome, flush
  <2> QED  BY <2>2 DEF PendingAtEnd
<1>5. CASE ~CacheHit(fd, offset) /\ flush.code = "Success"
  <2>1. /\ pop.superblock = flush.superblock /\ pop.handles = flush.handles
        /\ pop.cache.handle = fd /\ pop.cache.for_write = write
    BY <1>5 DEF PopulateOutcome, flush
  <2>2. SUFFICES ASSUME Dirty(pop.cache) PROVE PendingHolds(pop.superblock,
                                                   pop.handles, pop.cache)
    BY DEF PendingHolds
  <2>3. Writable(fd)
    BY <2>1, <2>2 DEF Dirty
  <2>4. OfFile(pop.handles[fd]) /\ "Write" \in pop.handles[fd].mode
    BY <1>1, <2>1, <2>3, HandleIdTypes
       DEF FlushOutcome, SameHandles, FileOpen, OfFile, Writable
  <2>5. pop.handles[fd].file_size =
           pop.superblock.fst[pop.handles[fd].fst_index].size
    BY <1>2, <1>5, <2>1, <2>4 DEF CleanSizes, Bounded
  <2>6. pop.handles[fd].file_size \in Nat
    <3>1. pop.handles[fd].file_size = handles[fd].file_size
      BY <1>1, <2>1, HandleIdTypes DEF FlushOutcome, SameHandles
    <3>2. handles[fd].file_size \in U32
      BY HandleIdTypes DEF TypeOK, Handle
    <3> QED  BY <3>1, <3>2, WordsAreNumbers
  <2> QED  BY <2>1, <2>5, <2>6 DEF PendingHolds
<1> QED  BY <1>3, <1>4, <1>5

\* A copy that makes the file longer ends in the cluster that it starts in.
LEMMA CopiedAtEnd ==
    ASSUME NEW c, c.chain_index \in Nat, NEW from \in Nat, NEW size \in Nat,
           NEW to \in Nat, NEW old \in Nat,
           c.chain_index * CLUSTER_DATA_SIZE <= from, from <= size, size < to,
           to <= c.chain_index * CLUSTER_DATA_SIZE + CLUSTER_DATA_SIZE,
           old <= size, size > old => AtEnd(c, size, old)
    PROVE  AtEnd(c, to, old)
<1> DEFINE k == c.chain_index
           start == k * CLUSTER_DATA_SIZE
<1>1. start \in Nat /\ CLUSTER_DATA_SIZE \in Nat
  BY ClusterSize
<1>2. start < to /\ to <= start + CLUSTER_DATA_SIZE
  <2> HIDE DEF start
  <2> QED  BY <1>1 DEF start
<1>3. RoundedUp(to) = k + 1
  <2> HIDE DEF k
  <2> QED  BY <1>2, RoundedUpIs DEF k
<1>4. CASE size > old
  BY <1>3, <1>4 DEF AtEnd
<1>5. CASE size = old
  <2>1. start <= old /\ old < start + CLUSTER_DATA_SIZE
    <3> HIDE DEF start
    <3> QED  BY <1>1, <1>2, <1>5 DEF start
  <2>2. RoundedUp(old) \in {k, k + 1}
    <3> HIDE DEF k
    <3> QED  BY <2>1, RoundedUpAtEdge DEF k
  <2> QED  BY <1>3, <2>2 DEF AtEnd
<1> QED  BY <1>4, <1>5

LEMMA FullClusterLength ==
    ASSUME NEW data \in ClusterData \cup {<<>>}, data # <<>>
    PROVE  Len(data) = CLUSTER_DATA_SIZE
<1>1. data \in Seq(Bytes) /\ DOMAIN data = 1..CLUSTER_DATA_SIZE
  BY SffsAssumption DEF SffsAssumption, ClusterData
<1> QED  BY <1>1, ClusterSize

LEMMA AdvancePending ==
    ASSUME TypeOK, OpenFilesAreFiles, HandlesInv, SizesInv, PendingAtEnd,
           call # Idle, NEW op, NEW write \in BOOLEAN, write <=> op = "WriteFile",
           op \in {"ReadFile", "WriteFile"}, Advance(op, write)
    PROVE  PendingAtEnd'
<1> DEFINE fd   == call.fd
           h    == handles[fd]
           pop  == PopulateFileCache(fd, h.file_offset, write)
           left == call.count - call.done
<1>1. /\ call.op = op /\ FileOpen(fd) /\ (write => Writable(fd))
      /\ call.count \in Nat /\ call.done \in Nat
  <2>1. call.op = op
    BY Zenon DEF Advance
  <2>2. call \in Call
    BY DEF TypeOK
  <2>3. call.count \in Nat /\ call.done \in Nat
    BY <2>2, WordsAreNumbers DEF Call
  <2> QED  BY <2>1, <2>3 DEF HandlesInv
<1>2. /\ fd \in Fds /\ fd \in HandleIds
      /\ h.file_offset \in U32 /\ h.file_size \in U32
  BY <1>1, HandleIdTypes DEF FileOpen, TypeOK, Handle
<1>3. h.file_offset \in Nat /\ h.file_size \in Nat
  <2> HIDE DEF h
  <2> QED  BY <1>2, WordsAreNumbers
<1>4. /\ PopulateOutcome(pop, fd, h.file_offset, write)
      /\ AdvanceOutcome(pop, write) /\ pop \in IoStates
  <2>1. PopulateOutcome(pop, fd, h.file_offset, write) /\ pop \in IoStates
    <3> HIDE DEF fd, h
    <3> QED  BY <1>2, PopulateOutcomes, PopulateFileCacheType
  <2> QED  BY <2>1, AdvanceOutcomes
<1>5. write => h.file_offset + left <= MaxFileSize
  BY <1>1 DEF SizesInv, RunningBounded
<1> HIDE DEF pop
<1>6. /\ SizesHold(pop.superblock, pop.handles, pop.cache)
      /\ SameHandles(pop.handles)
      /\ PendingHolds(pop.superblock, pop.handles, pop.cache)
  <2> HIDE DEF fd, h
  <2> QED  BY <1>1, <1>2, <1>4, PopulatedSizes, PopulatedPending
<1>7. superblock' = pop.superblock
  BY <1>4 DEF AdvanceOutcome
<1>8. CASE handles' = pop.handles /\ cache' = pop.cache
  BY <1>6, <1>7, <1>8 DEF PendingAtEnd
<1>9. ASSUME NEW length \in Nat, Advanced(pop, write, length)
      PROVE  PendingHolds(pop.superblock, handles', cache')
  <2> DEFINE offset == (h.file_offset + length) % WordSize
             size   == IF h.file_size < offset THEN offset ELSE h.file_size
  <2>1. /\ pop.code = "Success" /\ length <= left
        /\ length <= Len(pop.cache.data) - CopyStart(h.file_offset, pop.cache)
        /\ /\ pop.cache.data = <<>>
           /\ pop.cache.chain_index = ChainIndexOf(h.file_offset)
           => length = 0
        /\ \A k \in HandleIds :
              /\ handles'[k].fst_index = pop.handles[k].fst_index
              /\ handles'[k].file_size = IF k = fd /\ write THEN size
                                         ELSE pop.handles[k].file_size
        /\ cache'.handle = pop.cache.handle
        /\ cache'.chain_index = pop.cache.chain_index
        /\ cache'.for_write = pop.cache.for_write
        /\ cache'.data = <<>> <=> pop.cache.data = <<>>
    BY <1>9, Zenon DEF Advanced
  <2>2. Dirty(cache') <=> Dirty(pop.cache)
    BY <2>1 DEF Dirty
  <2>3. Dirty(pop.cache) => pop.cache.handle \in HandleIds
    BY <1>4 DEF IoStates, Cache, Dirty
  <2>4. CASE ~write
    <3>1. Dirty(cache') =>
             /\ Dirty(pop.cache) /\ cache'.handle = pop.cache.handle
             /\ cache'.chain_index = pop.cache.chain_index
             /\ handles'[pop.cache.handle].fst_index =
                   pop.handles[pop.cache.handle].fst_index
             /\ handles'[pop.cache.handle].file_size =
                   pop.handles[pop.cache.handle].file_size
      <4> HIDE DEF offset, size, fd
      <4> QED  BY <2>1, <2>2, <2>3, <2>4
    <3> QED  BY <1>6, <3>1, PendingCarriesOver
  <2>5. CASE write
    <3> SUFFICES ASSUME Dirty(cache')
                 PROVE  PendingHolds(pop.superblock, handles', cache')
      BY DEF PendingHolds
    <3>1. /\ pop.cache.handle = fd
          /\ pop.cache.chain_index = ChainIndexOf(h.file_offset)
      <4>1. CASE CacheHit(fd, h.file_offset)
        BY <1>4, <4>1 DEF PopulateOutcome, CacheHit
      <4>2. CASE ~CacheHit(fd, h.file_offset)
        <5> HIDE DEF h
        <5> QED  BY <1>4, <2>1, <4>2 DEF PopulateOutcome
      <4> QED  BY <4>1, <4>2
    <3>2. /\ pop.handles[fd].file_size = h.file_size
          /\ pop.handles[fd].fst_index = h.fst_index
      BY <1>2, <1>6 DEF SameHandles
    <3>3. CASE size = h.file_size
      <4>1. /\ Dirty(pop.cache) /\ cache'.handle = pop.cache.handle
            /\ cache'.chain_index = pop.cache.chain_index
            /\ handles'[pop.cache.handle].fst_index =
                  pop.handles[pop.cache.handle].fst_index
            /\ handles'[pop.cache.handle].file_size =
                  pop.handles[pop.cache.handle].file_size
        <5> HIDE DEF offset, size, fd, h
        <5> QED  BY <1>2, <2>1, <2>2, <2>3, <3>1, <3>2, <3>3
      <4> QED  BY <1>6, <4>1, PendingCarriesOver
    <3>4. CASE size # h.file_size
      <4> DEFINE old == pop.superblock.fst[h.fst_index].size
                 from == h.file_offset
      <4>1. offset = from + length /\ offset \in Nat
        <5>1. MaxFileSize \in U32 /\ left \in Int
          BY <1>1, FileSystemAssumption DEF FileSystemAssumption
        <5>2. from \in Nat /\ from + left <= MaxFileSize
          BY <1>3, <1>5, <2>5
        <5>3. offset = from + length
          <6>1. (from + length) % WordSize = from + length
            <7> HIDE DEF from, left
            <7> QED  BY <2>1, <5>1, <5>2, NoWrap
          <6> QED  BY <6>1
        <5> HIDE DEF offset, from
        <5> QED  BY <5>2, <5>3
      <4>2. h.file_size < offset /\ size = offset
        BY <3>4
      <4>3. from <= h.file_size /\ old <= h.file_size /\ old \in Nat
        <5>1. OfFile(pop.handles[fd])
          BY <1>1, <1>2, <1>6 DEF SameHandles, OfFile, FileOpen
        <5>2. from <= h.file_size
          BY <1>1 DEF SizesInv, SizesHold, FileOpen, OfFile, Bounded
        <5>3. old <= h.file_size
          BY <1>6, <2>2, <3>1, <3>2 DEF SizesHold
        <5>4. h.fst_index \in FstIndices
          BY <1>1 DEF FileOpen, OpenFilesAreFiles
        <5>5. pop.superblock \in Superblock
          BY <1>4 DEF IoStates
        <5>6. old \in Nat
          <6> HIDE DEF h
          <6> QED  BY <5>4, <5>5, SizeIsNumber
        <5> QED  BY <5>2, <5>3, <5>6
      <4>4. pop.cache.chain_index \in Nat
        BY <1>4, PointersAreNumbers DEF IoStates, Cache
      <4>5. /\ pop.cache.chain_index * CLUSTER_DATA_SIZE <= from
            /\ offset <= pop.cache.chain_index * CLUSTER_DATA_SIZE
                         + CLUSTER_DATA_SIZE
        <5> DEFINE before == pop.cache.chain_index * CLUSTER_DATA_SIZE
        <5>1. before \in Nat
          BY <4>4, ClusterSize
        <5>2. CopyStart(from, pop.cache) = from - before
          BY DEF CopyStart
        <5>3. CopyStart(from, pop.cache) >= 0
          <6> HIDE DEF h
          <6> QED  BY <1>2, <3>1, CopyStartsInCluster
        <5>4. pop.cache.data # <<>>
          BY <2>2 DEF Dirty
        <5>5. Len(pop.cache.data) = CLUSTER_DATA_SIZE
          <6>1. pop.cache.data \in ClusterData \cup {<<>>}
            BY <1>4 DEF IoStates, Cache
          <6> QED  BY <5>4, <6>1, FullClusterLength
        <5>6. length <= CLUSTER_DATA_SIZE - (from - before)
          BY <2>1, <5>2, <5>5
        <5>7. from \in Nat
          BY <1>3
        <5> HIDE DEF before, from, offset
        <5>8. before <= from /\ offset <= before + CLUSTER_DATA_SIZE
          BY <4>1, <5>1, <5>2, <5>3, <5>6, <5>7, ClusterSize
        <5> QED  BY <5>8 DEF before
      <4>6. h.file_size > old => AtEnd(pop.cache, h.file_size, old)
        BY <1>6, <2>2, <3>1, <3>2 DEF PendingHolds
      <4>7. AtEnd(pop.cache, offset, old)
        <5>1. h.file_size \in Nat /\ from \in Nat
          BY <1>3
        <5> HIDE DEF h, offset, old, from
        <5> QED  BY <4>1, <4>2, <4>3, <4>4, <4>5, <4>6, <5>1, CopiedAtEnd
      <4>8. /\ handles'[fd].file_size = offset
            /\ handles'[fd].fst_index = h.fst_index
            /\ cache'.handle = fd /\ cache'.chain_index = pop.cache.chain_index
        <5> HIDE DEF h, offset, size, fd
        <5> QED  BY <1>2, <2>1, <2>5, <3>1, <3>2, <4>2
      <4> HIDE DEF h, offset, fd
      <4> QED  BY <4>7, <4>8 DEF PendingHolds, AtEnd
    <3> QED  BY <3>3, <3>4
  <2> QED  BY <2>4, <2>5
<1> QED  BY <1>4, <1>7, <1>8, <1>9 DEF AdvanceOutcome, PendingAtEnd

\* The handle in the cache, its entry's size and the cache stay, or nothing waits.
LEMMA KeptPending ==
    ASSUME PendingAtEnd,
           Dirty(cache') =>
               /\ cache' = cache
               /\ handles'[cache.handle].fst_index = handles[cache.handle].fst_index
               /\ handles'[cache.handle].file_size = handles[cache.handle].file_size
               /\ superblock'.fst[handles[cache.handle].fst_index].size =
                     superblock.fst[handles[cache.handle].fst_index].size
    PROVE  PendingAtEnd'
<1> DEFINE old == handles[cache.handle]
           new == handles'[cache.handle]
<1>1. ~Dirty(cache') => PendingAtEnd'
  BY DEF PendingAtEnd, PendingHolds
<1>2. ASSUME Dirty(cache') PROVE PendingAtEnd'
  <2>1. /\ Dirty(cache) /\ cache' = cache
        /\ new.fst_index = old.fst_index /\ new.file_size = old.file_size
        /\ superblock'.fst[old.fst_index].size = superblock.fst[old.fst_index].size
    BY <1>2
  <2>2. PendingHolds(superblock', handles', cache)
    BY <2>1, PendingCarriesOver DEF PendingAtEnd
  <2> QED  BY <2>1, <2>2 DEF PendingAtEnd
<1> QED  BY <1>1, <1>2

LEMMA NextPending ==
    ASSUME TypeOK, OpenFilesAreFiles, HandlesInv, SizesInv, SizeSafeUses,
           PendingAtEnd, [Next]_vars
    PROVE  PendingAtEnd'
<1>1. Dirty(cache) => /\ FileOpen(cache.handle) /\ cache.handle \in HandleIds
  BY HandleIdTypes DEF HandlesInv, Dirty, FileOpen
<1>2. CASE NamespaceCall
  <2>1. NamespaceStep
    BY <1>2, NamespaceSteps
  <2>2. ASSUME NEW k, FileOpen(k)
        PROVE  superblock'.fst[handles[k].fst_index].size =
                  superblock.fst[handles[k].fst_index].size
    BY <2>1, <2>2
       DEF NamespaceStep, NamespaceEdit, FileOpen, OpenFilesAreFiles, IsFile
  <2> QED  BY <1>1, <2>1, <2>2, KeptPending DEF NamespaceStep
<1>3. CASE OpenCall
  <2>1. UNCHANGED <<superblock, cache>>
    BY <1>3, OpenCallHandles
  <2>2. Dirty(cache) => handles'[cache.handle] = handles[cache.handle]
    <3>1. FreeHandles # {} => ~handles[Least(FreeHandles)].opened
      BY FreeHandleType
    <3> QED  BY <1>1, <1>3, <3>1, OpenCallAssigns DEF FileOpen, TypeOK
  <2> QED  BY <2>1, <2>2, KeptPending
<1>4. CASE FileCall
  <2>1. ASSUME NEW fd \in HandleIds, Close(fd)
        PROVE  PendingAtEnd'
    <3>1. CloseOutcome(FlushFileCache, fd)
      BY <2>1, CloseOutcomes
    <3>2. CASE UNCHANGED <<superblock, stored, handles, cache>>
      BY <3>2, KeptPending
    <3>3. CASE ClosedWithCache(FlushFileCache, fd)
      <4>1. ~Dirty(cache')
        BY <3>3 DEF ClosedWithCache, Dirty
      <4> QED  BY <4>1, KeptPending
    <3>4. CASE ClosedWithout(fd)
      <4>1. /\ superblock' = superblock /\ cache' = cache
            /\ Dirty(cache) => handles'[cache.handle] = handles[cache.handle]
        BY <1>1, <3>4 DEF ClosedWithout
      <4> QED  BY <4>1, KeptPending
    <3> QED  BY <3>1, <3>2, <3>3, <3>4 DEF CloseOutcome
  <2>2. ASSUME NEW fd \in HandleIds, NEW offset, NEW whence,
               SeekFile(fd, offset, whence)
        PROVE  PendingAtEnd'
    <3>1. superblock' = superblock /\ cache' = cache
      BY <2>2, Zenon DEF SeekFile
    <3>2. \/ handles' = handles
          \/ \E position :
                handles' = [handles EXCEPT ![fd].file_offset = position]
      BY <2>2, Zenon DEF SeekFile
    <3>3. \A k \in HandleIds : /\ handles'[k].fst_index = handles[k].fst_index
                               /\ handles'[k].file_size = handles[k].file_size
      BY <3>2 DEF TypeOK, Handle
    <3> QED  BY <1>1, <3>1, <3>3, KeptPending
  <2>3. ASSUME NEW fd, NEW count,
               \/ ReadFile(fd, count)
               \/ \E byte : WriteFile(fd, count, byte)
        PROVE  PendingAtEnd'
    <3>1. UNCHANGED <<superblock, handles, cache>>
      BY <2>3, Zenon DEF ReadFile, WriteFile, Begin
    <3> QED  BY <3>1, KeptPending
  <2> QED  BY <1>4, <2>1, <2>2, <2>3 DEF FileCall
<1>5. CASE FormatCall
  <2>1. cache.handle = NoHandle /\ cache' = cache
    BY <1>5 DEF FormatCall, Format, Permitted, SizeSafeUses
  <2> QED  BY <2>1, KeptPending DEF Dirty
<1>6. CASE ReadFileStep \/ WriteFileStep
  <2>1. call # Idle
    BY <1>6, RunningCall
  <2>2. CASE ReadFileStep
    <3>1. Advance("ReadFile", FALSE)
      BY <2>2, Zenon DEF ReadFileStep
    <3> QED  BY <2>1, <3>1, AdvancePending
  <2>3. CASE WriteFileStep
    <3>1. Advance("WriteFile", TRUE)
      BY <2>3, Zenon DEF WriteFileStep
    <3> QED  BY <2>1, <3>1, AdvancePending
  <2> QED  BY <1>6, <2>2, <2>3
<1>7. CASE Remount
  <2>1. cache'.handle = NoHandle
    BY <1>7 DEF Remount, EmptyCache
  <2> QED  BY <2>1, KeptPending DEF Dirty
<1>8. CASE UNCHANGED vars
  BY <1>8, KeptPending DEF vars
<1> QED  BY <1>2, <1>3, <1>4, <1>5, <1>6, <1>7, <1>8 DEF Next

LEMMA InitSized == Init => SizedInv /\ PendingAtEnd
<1> SUFFICES ASSUME Init PROVE SizedInv /\ PendingAtEnd
  OBVIOUS
<1>1. stored.fst = FormattedSuperblock.fst
  <2>1. FormattedSuperblock \in Superblock
    BY FormattedSuperblockType
  <2> QED  BY <2>1, Zenon DEF Init, Superblock
<1>2. Sized(superblock) /\ Sized(stored)
  <2>1. Sized(stored)
    BY <1>1, NoFilesSized, FormattedFields
  <2>2. Sized(Normalised(stored))
    BY <2>1, InitType, NormalisedSized DEF TypeOK
  <2> QED  BY <2>1, <2>2 DEF Init
<1>3. ~Dirty(cache)
  BY DEF Init, EmptyCache, Dirty
<1> QED  BY <1>2, <1>3 DEF SizedInv, PendingAtEnd, PendingHolds

\* With one writer of a file at a time and none of the uses that the tree or the
\* sizes do not survive: every file that can be reached has exactly the clusters
\* that its size needs, in memory and on the NAND, whatever is written, flushed,
\* deleted, renamed or remounted, and whatever fails in between.
THEOREM ChainsAlwaysMatchSizes ==
    ASSUME SizeSafeUses, TreeSafeUses
    PROVE  Spec => []ChainsMatchSizes
<1> DEFINE Inv == /\ TypeOK /\ OpenFilesAreFiles /\ TreeInv /\ FatInv
                  /\ HandlesInv /\ SizesInv /\ SizedInv /\ PendingAtEnd
<1>1. Init => Inv
  BY InitType, InitOpenFiles, InitTree, InitFat, InitHandles, InitSizes, InitSized
<1>2. Inv /\ [Next]_vars => Inv'
  <2>1. "format_with_cache" \notin Uses
    BY DEF SizeSafeUses
  <2>2. SUFFICES ASSUME Inv, [Next]_vars PROVE Inv'
    OBVIOUS
  <2>3. TypeOK' /\ OpenFilesAreFiles' /\ HandlesInv'
    BY <2>1, <2>2, NextType, NextOpenFiles, NextHandles
  <2>4. TreeInv' /\ FatInv'
    BY <2>2, <2>3, NextTree, NextFat
  <2>5. SizesInv'
    BY <2>2, <2>3, NextSizes
  <2>6. PendingAtEnd'
    BY <2>2, NextPending
  <2>7. SizedInv'
    BY <2>2, <2>4, NextSized
  <2> QED  BY <2>3, <2>4, <2>5, <2>6, <2>7
<1>3. Inv => ChainsMatchSizes
  BY SizedSuffices DEF ChainsMatchSizes, FatInv, SizedInv, TypeOK
<1> QED  BY <1>1, <1>2, <1>3, PTL DEF Spec

-----------------------------------------------------------------------------
(* Clusters on the NAND.                                                   *)

\* What is on the NAND at a position of a file.
BlockAt(sb, nd, f, k) == nd[ClusterAt(sb, f, k)]

\* The HMAC of every cluster of every file was made with the salt that it will be
\* checked with.
Salted(sb, nd) == \A f \in FstIndices : IsFile(sb.fst[f]) =>
    \A k \in Nat : ClusterAt(sb, f, k) # NIL =>
        BlockAt(sb, nd, f, k).salt = Salt(sb, f, k)

LEMMA BeforeEnd ==
    ASSUME NEW size \in Nat, NEW k \in Nat
    PROVE  k < RoundedUp(size) <=> k * CLUSTER_DATA_SIZE < size
<1> DEFINE n == RoundedUp(size)
           before == k * CLUSTER_DATA_SIZE
           all == n * CLUSTER_DATA_SIZE
<1>1. /\ n \in Nat /\ size <= all /\ all < size + CLUSTER_DATA_SIZE
      /\ CLUSTER_DATA_SIZE \in Nat
  BY RoundedUpNumber, ClusterSize
<1>2. before \in Nat /\ all \in Nat
  <2> HIDE DEF n
  <2> QED  BY <1>1
<1>3. k < n => before + CLUSTER_DATA_SIZE <= all
  <2> HIDE DEF n
  <2> QED  BY <1>1, Multiples
<1>4. n < k => all + CLUSTER_DATA_SIZE <= before
  <2> HIDE DEF n
  <2> QED  BY <1>1, Multiples
<1>5. n = k => all = before
  OBVIOUS
<1> HIDE DEF n, before, all
<1>6. k < n <=> before < size
  BY <1>1, <1>2, <1>3, <1>4, <1>5
<1> QED  BY <1>6 DEF n, before

\* Every cluster of a file up to its size can be read.
LEMMA ReadsWhatIsThere ==
    ASSUME NEW sb \in Superblock, NEW nd, Sized(sb), Salted(sb, nd),
           NEW f \in FstIndices, IsFile(sb.fst[f]), NEW k \in Nat,
           k < RoundedUp(sb.fst[f].size)
    PROVE  ReadFileData(sb, nd, f, k) =
               [code |-> "Success", data |-> BlockAt(sb, nd, f, k).data]
<1>1. sb.fst[f].size \in Nat
  BY SizeIsNumber
<1>2. k * CLUSTER_DATA_SIZE < sb.fst[f].size
  BY <1>1, BeforeEnd
<1>3. ~(sb.fst[f].size <= k * CLUSTER_DATA_SIZE)
  <2> DEFINE before == k * CLUSTER_DATA_SIZE
  <2>1. before \in Nat
    BY ClusterSize
  <2> HIDE DEF before
  <2>2. ~(sb.fst[f].size <= before)
    BY <1>1, <1>2, <2>1 DEF before
  <2> QED  BY <2>2 DEF before
<1>4. ClusterAt(sb, f, k) # NIL
  BY DEF Sized, LengthIs
<1>5. BlockAt(sb, nd, f, k).salt = Salt(sb, f, k)
  BY <1>4 DEF Salted
<1> QED  BY <1>3, <1>4, <1>5 DEF ReadFileData, ClusterAt, BlockAt

\* A read that succeeds read the cluster at that position.
LEMMA WhatWasRead ==
    ASSUME NEW sb \in Superblock, NEW nd, NEW f, NEW k \in Nat,
           ReadFileData(sb, nd, f, k).code = "Success"
    PROVE  /\ f \in FstIndices /\ IsFile(sb.fst[f])
           /\ k < RoundedUp(sb.fst[f].size)
<1> DEFINE before == k * CLUSTER_DATA_SIZE
<1>1. f \in FstIndices /\ IsFile(sb.fst[f]) /\ ~(sb.fst[f].size <= before)
  BY DEF ReadFileData
<1>2. sb.fst[f].size \in Nat /\ before \in Nat
  BY <1>1, SizeIsNumber, ClusterSize
<1>3. before < sb.fst[f].size
  <2> HIDE DEF before
  <2> QED  BY <1>1, <1>2
<1> QED  BY <1>1, <1>2, <1>3, BeforeEnd

\* What WriteFileData does to the NAND, and when it succeeds.
NandOutcome(write, sb, nd, index, data, chain_index, size) ==
    /\ write.code = "NoFreeSpace" => write.nand = nd
    /\ write.code = "Success" =>
          write.nand = [nd EXCEPT ![Least(UnusedClusters(sb))] =
              [data |-> data, salt |-> Salt(sb, index, chain_index)]]
    /\ /\ index \in FstIndices /\ IsFile(sb.fst[index])
       /\ ~(size <= sb.fst[index].size)
       /\ chain_index # 0 => ClusterAt(sb, index, chain_index - 1) # NIL
       => write.code \in {"Success", "NoFreeSpace"}

LEMMA WriteNand ==
    ASSUME NEW sb, NEW nd, NEW index, NEW data, NEW chain_index, NEW size
    PROVE  NandOutcome(WriteFileData(sb, nd, index, data, chain_index, size),
                       sb, nd, index, data, chain_index, size)
BY DEF WriteFileData, ClusterAt, NandOutcome

\* After a write that succeeded every position has the cluster that it had, but for
\* the one that was written.
LEMMA WrittenBlocks ==
    ASSUME NEW sb \in Superblock, FatSound(sb), Sized(sb),
           NEW nd \in [Clusters -> NandCluster],
           NEW index \in U16, NEW data, NEW chain_index \in U16,
           NEW new_size \in U32, NEW write,
           write = WriteFileData(sb, nd, index, data, chain_index, new_size),
           write.code = "Success",
           chain_index - RoundedUp(sb.fst[index].size) \in {-1, 0},
           NEW f \in FstIndices, IsFile(sb.fst[f]), NEW j \in Nat,
           ClusterAt(write.superblock, f, j) # NIL
    PROVE  /\ BlockAt(write.superblock, write.nand, f, j) =
                 IF f = index /\ j = chain_index
                 THEN [data |-> data, salt |-> Salt(sb, index, chain_index)]
                 ELSE BlockAt(sb, nd, f, j)
           /\ \/ f = index /\ j = chain_index
              \/ ClusterAt(sb, f, j) # NIL
<1> DEFINE cluster == Least(UnusedClusters(sb))
           new == write.superblock
           n   == RoundedUp(sb.fst[index].size)
           block == [data |-> data, salt |-> Salt(sb, index, chain_index)]
<1>1. Relinks(sb, new, index, chain_index, cluster)
  BY WriteRelinks
<1>2. write.nand = [nd EXCEPT ![cluster] = block]
  <2>1. NandOutcome(write, sb, nd, index, data, chain_index, new_size)
    BY WriteNand
  <2> QED  BY <2>1, Zenon DEF NandOutcome
<1>3. cluster \in Clusters /\ sb.fat[cluster] = CLUSTER_UNUSED
      /\ index \in FstIndices /\ IsFile(sb.fst[index])
  BY <1>1 DEF Relinks
<1> HIDE DEF cluster, new, block
<1>4. /\ chain_index \in Nat /\ n \in Nat
      /\ chain_index \in {n - 1, n} /\ LengthIs(sb, index, n)
  <2>1. chain_index \in Nat /\ n \in Nat
    BY <1>3, SizeIsNumber, PointersAreNumbers
  <2>2. LengthIs(sb, index, n)
    BY <1>3 DEF Sized
  <2> HIDE DEF n
  <2>3. chain_index - n \in {-1, 0}
    BY DEF n
  <2> QED  BY <2>1, <2>2, <2>3
<1> HIDE DEF n
<1>5. ASSUME ClusterAt(sb, f, j) \in Clusters
      PROVE  ClusterAt(sb, f, j) # cluster
  BY <1>3, <1>5, LastIsMarked, FatNumbers
<1>6. \A c \in Clusters : c # cluster => write.nand[c] = nd[c]
  BY <1>2
<1>7. write.nand[cluster] = block
  BY <1>2, <1>3
<1>8. CASE f = index
  <2>1. \A i \in Nat : ClusterAt(new, index, i) =
           IF i < chain_index THEN ClusterAt(sb, index, i)
           ELSE IF i = chain_index THEN cluster ELSE NIL
    BY <1>1, <1>4, WrittenPositions
  <2>2. CASE j = chain_index
    BY <1>4, <1>7, <1>8, <2>1, <2>2 DEF BlockAt, new, block
  <2>3. CASE j # chain_index
    <3>1. ClusterAt(new, f, j) = ClusterAt(sb, f, j) /\ ClusterAt(sb, f, j) # NIL
      BY <1>8, <2>1, <2>3 DEF new
    <3>2. ClusterAt(sb, f, j) \in Clusters
      BY <3>1, ClusterOrNil
    <3> QED  BY <1>5, <1>6, <2>3, <3>1, <3>2 DEF BlockAt, new
  <2> QED  BY <2>2, <2>3
<1>9. CASE f # index
  <2>1. ClusterAt(new, f, j) = ClusterAt(sb, f, j)
    BY <1>1, <1>4, <1>9, OtherPositions
  <2>2. ClusterAt(sb, f, j) \in Clusters
    BY <2>1, ClusterOrNil DEF new
  <2> QED  BY <1>5, <1>6, <1>9, <2>1, <2>2 DEF BlockAt, new
<1> QED  BY <1>8, <1>9

-----------------------------------------------------------------------------
(* The cache.                                                              *)

\* What the cache holds: data that make the file longer, or what is on the NAND.
CacheHolds(sb, nd, hs, c) ==
    c.handle # NoHandle =>
        LET h == hs[c.handle]
        IN  /\ c.data # <<>>
            /\ c.for_write => h.file_size > sb.fst[h.fst_index].size
            /\ ~c.for_write =>
                  ReadFileData(sb, nd, h.fst_index, c.chain_index) =
                      [code |-> "Success", data |-> c.data]

CacheInv == CacheHolds(superblock, nand, handles, cache)

\* What a reader of the file should see at a position.
DataIn(sb, nd, hs, c, f, k) ==
    IF Dirty(c) /\ hs[c.handle].fst_index = f /\ c.chain_index = k
    THEN c.data ELSE BlockAt(sb, nd, f, k).data

\* A flush moves the data of the cache to their place, or the NAND is full.
FlushWrites(flush) ==
    /\ flush.code \in {"Success", "NoFreeSpace"}
    /\ \/ /\ flush.code = "NoFreeSpace" \/ ~Dirty(cache)
          /\ flush.superblock = superblock /\ flush.nand = nand
       \/ /\ flush.code = "Success" /\ Dirty(cache)
          /\ \A f \in FstIndices :
                /\ IsFile(flush.superblock.fst[f]) <=> IsFile(superblock.fst[f])
                /\ SameOwnerAndName(flush.superblock, superblock, f)
                /\ IsFile(superblock.fst[f]) =>
                      \A k \in Nat : ClusterAt(flush.superblock, f, k) # NIL =>
                          BlockAt(flush.superblock, flush.nand, f, k).data =
                              DataIn(superblock, nand, handles, cache, f, k)

\* The file and the position of the data in the cache.
LEMMA CacheOfFile ==
    ASSUME TypeOK, OpenFilesAreFiles, HandlesInv, cache.handle # NoHandle
    PROVE  LET f == handles[cache.handle].fst_index
           IN  /\ cache.handle \in Fds /\ cache.handle \in HandleIds
               /\ f \in FstIndices /\ IsFile(superblock.fst[f])
               /\ handles[cache.handle].file_size \in U32
               /\ cache.chain_index \in U16 /\ cache.chain_index \in Nat
<1>1. FileOpen(cache.handle) /\ cache.handle \in HandleIds
  BY HandleIdTypes DEF HandlesInv, FileOpen
<1>2. handles[cache.handle].file_size \in U32
  BY <1>1 DEF TypeOK, Handle
<1>3. cache.chain_index \in U16
  BY DEF TypeOK, Cache
<1> QED  BY <1>1, <1>2, <1>3, PointersAreNumbers DEF FileOpen, OpenFilesAreFiles

LEMMA FlushEffect ==
    ASSUME TypeOK, OpenFilesAreFiles, HandlesInv, FatSound(superblock),
           Sized(superblock), Salted(superblock, nand), PendingAtEnd, CacheInv
    PROVE  /\ FlushWrites(FlushFileCache)
           /\ Salted(FlushFileCache.superblock, FlushFileCache.nand)
<1> DEFINE flush == FlushFileCache
<1>1. CASE ~Dirty(cache)
  <2>1. /\ flush.code = "Success" /\ flush.superblock = superblock
        /\ flush.nand = nand
    BY <1>1 DEF FlushFileCache, IoState
  <2> HIDE DEF flush
  <2>2. FlushWrites(flush) /\ Salted(flush.superblock, flush.nand)
    BY <1>1, <2>1 DEF FlushWrites
  <2> QED  BY <2>2 DEF flush
<1>2. CASE Dirty(cache)
  <2> DEFINE h == handles[cache.handle]
             index == h.fst_index
             size == h.file_size
             k == cache.chain_index
             write == WriteFileData(superblock, nand, index, cache.data, k, size)
  <2>1. /\ flush.code = write.code /\ flush.superblock = write.superblock
        /\ flush.nand = write.nand
    <3> HIDE DEF write
    <3> QED
      BY <1>2 DEF FlushFileCache, FlushNeeded, Written, WriteBack, IoState, write
  <2>2. /\ index \in FstIndices /\ IsFile(superblock.fst[index])
        /\ size \in U32 /\ k \in U16 /\ k \in Nat /\ index \in U16
    <3>1. cache.handle # NoHandle
      BY <1>2 DEF Dirty
    <3> QED  BY <3>1, CacheOfFile, FatNumbers
  <2>3. size > superblock.fst[index].size
    BY <1>2 DEF CacheInv, CacheHolds, Dirty
  <2>4. AtEnd(cache, size, superblock.fst[index].size)
    BY <1>2, <2>3 DEF PendingAtEnd, PendingHolds
  <2>5. superblock \in Superblock /\ nand \in [Clusters -> NandCluster]
    BY DEF TypeOK
  <2>6. NandOutcome(write, superblock, nand, index, cache.data, k, size)
    BY WriteNand
  <2>7. WriteOutcome(superblock, write, index, size)
    <3> HIDE DEF index, size, k
    <3> QED  BY <2>2, <2>5, WriteOutcomes
  <2>8. write.code \in {"Success", "NoFreeSpace"}
    <3>1. ~(size <= superblock.fst[index].size)
      <4>1. superblock.fst[index].size \in Nat /\ size \in Nat
        <5> HIDE DEF index, size
        <5> QED  BY <2>2, <2>5, SizeIsNumber, WordsAreNumbers
      <4> HIDE DEF size, index
      <4> QED  BY <2>3, <4>1
    <3>2. k # 0 => ClusterAt(superblock, index, k - 1) # NIL
      <4> DEFINE n == RoundedUp(superblock.fst[index].size)
      <4>1. n \in Nat /\ LengthIs(superblock, index, n)
        <5> HIDE DEF index
        <5> QED  BY <2>2, <2>5, SizeIsNumber DEF Sized
      <4>2. k - n \in {-1, 0}
        BY <2>4 DEF AtEnd
      <4> HIDE DEF n, k, index
      <4>3. k # 0 => k - 1 \in Nat /\ k - 1 < n
        BY <2>2, <4>1, <4>2
      <4> QED  BY <4>1, <4>3 DEF LengthIs
    <3> HIDE DEF write, index, size, k
    <3> QED  BY <2>2, <2>6, <3>1, <3>2, Zenon DEF NandOutcome
  <2> HIDE DEF flush
  <2>9. CASE write.code = "NoFreeSpace"
    <3>1. write.nand = nand /\ write.superblock = superblock
      <4> HIDE DEF write
      <4> QED  BY <2>6, <2>7, <2>9 DEF NandOutcome, WriteOutcome
    <3>2. FlushWrites(flush) /\ Salted(flush.superblock, flush.nand)
      <4> HIDE DEF write
      <4> QED  BY <2>1, <2>9, <3>1 DEF FlushWrites
    <3> QED  BY <3>2 DEF flush
  <2>10. CASE write.code = "Success"
    <3> DEFINE new == write.superblock
               block == [data |-> cache.data, salt |-> Salt(superblock, index, k)]
    <3>1. ASSUME NEW f \in FstIndices, IsFile(superblock.fst[f]), NEW j \in Nat,
                 ClusterAt(new, f, j) # NIL
          PROVE  /\ BlockAt(new, write.nand, f, j) =
                       IF f = index /\ j = k THEN block
                       ELSE BlockAt(superblock, nand, f, j)
                 /\ (f = index /\ j = k) \/ ClusterAt(superblock, f, j) # NIL
      <4>1. k - RoundedUp(superblock.fst[index].size) \in {-1, 0}
        BY <2>4 DEF AtEnd
      <4> HIDE DEF index, size, k
      <4> QED  BY <2>2, <2>5, <2>10, <3>1, <4>1, WrittenBlocks
    <3>2. \A i \in FstIndices : SameOwnerAndName(new, superblock, i)
      <4> HIDE DEF write
      <4> QED  BY <2>7, <2>10 DEF WriteOutcome
    <3>3. \A i \in FstIndices : IsFile(new.fst[i]) <=> IsFile(superblock.fst[i])
      <4>1. Relinks(superblock, new, index, k, Least(UnusedClusters(superblock)))
        <5> HIDE DEF index, size, k
        <5> QED  BY <2>2, <2>5, <2>10, WriteRelinks
      <4> HIDE DEF new
      <4> QED  BY <4>1 DEF Relinks, IsFile
    <3>4. ASSUME NEW f \in FstIndices, IsFile(superblock.fst[f]), NEW j \in Nat,
                 ClusterAt(new, f, j) # NIL
          PROVE  /\ BlockAt(new, write.nand, f, j).data =
                       DataIn(superblock, nand, handles, cache, f, j)
                 /\ BlockAt(new, write.nand, f, j).salt = Salt(new, f, j)
      <4>1. Salt(new, f, j) = Salt(superblock, f, j)
        <5> HIDE DEF new
        <5> QED  BY <3>2 DEF Salt, SameOwnerAndName
      <4>2. block.data = cache.data /\ block.salt = Salt(superblock, index, k)
        OBVIOUS
      <4>3. ~(f = index /\ j = k) =>
               BlockAt(superblock, nand, f, j).salt = Salt(superblock, f, j)
        BY <3>1, <3>4 DEF Salted
      <4>4. f = index /\ j = k <=>
               /\ Dirty(cache) /\ handles[cache.handle].fst_index = f
               /\ cache.chain_index = j
        BY <1>2
      <4> HIDE DEF block, new, index, k
      <4> QED  BY <3>1, <3>4, <4>1, <4>2, <4>3, <4>4 DEF DataIn
    <3> HIDE DEF new
    <3>5. Salted(flush.superblock, flush.nand)
      BY <2>1, <3>3, <3>4 DEF Salted, new
    <3>6. FlushWrites(flush)
      <4> HIDE DEF write
      <4> QED  BY <1>2, <2>1, <2>10, <3>2, <3>3, <3>4 DEF FlushWrites, new
    <3> QED  BY <3>5, <3>6 DEF flush
  <2> QED  BY <2>8, <2>9, <2>10
<1> QED  BY <1>1, <1>2

-----------------------------------------------------------------------------
(* Positions.                                                              *)

LEMMA Division ==
    ASSUME NEW x \in Nat
    PROVE  LET q == x \div CLUSTER_DATA_SIZE
           IN  /\ q \in Nat /\ q * CLUSTER_DATA_SIZE \in Nat
               /\ x % CLUSTER_DATA_SIZE \in Nat
               /\ x % CLUSTER_DATA_SIZE < CLUSTER_DATA_SIZE
               /\ x = q * CLUSTER_DATA_SIZE + (x % CLUSTER_DATA_SIZE)
<1> DEFINE q == x \div CLUSTER_DATA_SIZE
<1>1. q \in Nat /\ x % CLUSTER_DATA_SIZE \in Nat
  BY ClusterSize, SMT
<1>2. x % CLUSTER_DATA_SIZE < CLUSTER_DATA_SIZE
  BY ClusterSize, SMT
<1>3. x = q * CLUSTER_DATA_SIZE + (x % CLUSTER_DATA_SIZE)
  BY ClusterSize, SMT
<1>4. q * CLUSTER_DATA_SIZE \in Nat
  BY <1>1, ClusterSize
<1> QED  BY <1>1, <1>2, <1>3, <1>4

\* As long as a file has at most 65535 clusters, chain indices do not wrap around.
LEMMA PositionInCluster ==
    ASSUME NEW offset \in Nat, NEW n \in Nat, n <= 65535,
           offset <= n * CLUSTER_DATA_SIZE
    PROVE  LET k == ChainIndexOf(offset)
           IN  /\ k \in Nat /\ k <= n /\ k * CLUSTER_DATA_SIZE \in Nat
               /\ k * CLUSTER_DATA_SIZE <= offset
               /\ offset < k * CLUSTER_DATA_SIZE + CLUSTER_DATA_SIZE
               /\ offset = k * CLUSTER_DATA_SIZE + (offset % CLUSTER_DATA_SIZE)
<1> DEFINE q == offset \div CLUSTER_DATA_SIZE
           r == offset % CLUSTER_DATA_SIZE
           before == q * CLUSTER_DATA_SIZE
           all == n * CLUSTER_DATA_SIZE
<1>1. /\ q \in Nat /\ before \in Nat /\ r \in Nat /\ r < CLUSTER_DATA_SIZE
      /\ offset = before + r /\ CLUSTER_DATA_SIZE \in Nat
  BY Division, ClusterSize
<1>2. all \in Nat
  BY ClusterSize
<1>3. n < q => all + CLUSTER_DATA_SIZE <= before
  <2> HIDE DEF q
  <2> QED  BY <1>1, Multiples
<1>4. q <= n
  <2>1. ~(n < q)
    <3> HIDE DEF q, r
    <3>1. offset <= all
      OBVIOUS
    <3> HIDE DEF before, all
    <3> QED  BY <1>1, <1>2, <1>3, <3>1, ClusterSize
  <2> HIDE DEF q
  <2> QED  BY <1>1, <2>1
<1>5. q % 65536 = q
  <2> HIDE DEF q
  <2> QED  BY <1>1, <1>4, SMT
<1>6. ChainIndexOf(offset) = q
  BY <1>5 DEF ChainIndexOf
<1>7. before <= offset /\ offset < before + CLUSTER_DATA_SIZE
  <2> HIDE DEF before, r, q
  <2> QED  BY <1>1
<1> QED  BY <1>1, <1>4, <1>6, <1>7

\* A writer that goes on in its last cluster does not leave it before the end.
LEMMA LastClusterReachesEnd ==
    ASSUME NEW size \in Nat, NEW k \in Nat,
           size - (size % CLUSTER_DATA_SIZE)
               < k * CLUSTER_DATA_SIZE + CLUSTER_DATA_SIZE
    PROVE  size < k * CLUSTER_DATA_SIZE + CLUSTER_DATA_SIZE
<1> DEFINE q == size \div CLUSTER_DATA_SIZE
           r == size % CLUSTER_DATA_SIZE
           whole == q * CLUSTER_DATA_SIZE
           before == k * CLUSTER_DATA_SIZE
<1>1. /\ q \in Nat /\ whole \in Nat /\ r \in Nat /\ r < CLUSTER_DATA_SIZE
      /\ size = whole + r /\ CLUSTER_DATA_SIZE \in Nat /\ before \in Nat
  BY Division, ClusterSize
<1>2. size - r < before + CLUSTER_DATA_SIZE
  OBVIOUS
<1>3. k < q => before + CLUSTER_DATA_SIZE <= whole
  <2> HIDE DEF q
  <2> QED  BY <1>1, Multiples
<1>4. q < k => whole + CLUSTER_DATA_SIZE <= before
  <2> HIDE DEF q
  <2> QED  BY <1>1, Multiples
<1>5. q = k => whole = before
  OBVIOUS
<1> HIDE DEF q, r, whole, before
<1>6. size < before + CLUSTER_DATA_SIZE
  BY <1>1, <1>2, <1>3, <1>4, <1>5
<1> QED  BY <1>6 DEF before

\* Also the data that wait in the cache end within the clusters that there are, or
\* in one more.
LEMMA SizesFit ==
    ASSUME TypeOK, FatSound(superblock), Sized(superblock), PendingAtEnd, CacheInv,
           NEW f \in FstIndices, IsFile(superblock.fst[f])
    PROVE  LET size == SizeIn(superblock, handles, cache, f)
           IN  /\ size \in Nat /\ RoundedUp(size) \in Nat
               /\ RoundedUp(size) <= 65535
               /\ size <= RoundedUp(size) * CLUSTER_DATA_SIZE
<1> DEFINE old == superblock.fst[f].size
           h == handles[cache.handle]
           size == SizeIn(superblock, handles, cache, f)
<1>1. old \in Nat /\ RoundedUp(old) \in Nat /\ RoundedUp(old) <= FatSize
  <2>1. /\ old \in Nat /\ RoundedUp(old) \in Nat
        /\ LengthIs(superblock, f, RoundedUp(old))
    BY SizeIsNumber DEF TypeOK, Sized
  <2> QED  BY <2>1, LengthIsCardinality
<1>2. FatSize \in Nat /\ FatSize <= 65531
  BY SffsAssumption DEF SffsAssumption
<1>3. CASE Dirty(cache) /\ h.fst_index = f
  <2>1. size = h.file_size /\ h.file_size > old
    BY <1>3 DEF SizeIn, CacheInv, CacheHolds, Dirty
  <2>2. AtEnd(cache, size, old)
    BY <1>3, <2>1 DEF PendingAtEnd, PendingHolds
  <2>3. size \in Nat
    <3>1. cache.handle \in HandleIds
      BY <1>3 DEF TypeOK, Cache, Dirty
    <3>2. h.file_size \in U32
      BY <3>1 DEF TypeOK, Handle
    <3> QED  BY <2>1, <3>2, WordsAreNumbers
  <2>4. cache.chain_index \in Nat
    BY PointersAreNumbers DEF TypeOK, Cache
  <2> HIDE DEF size, old
  <2>5. /\ RoundedUp(size) = cache.chain_index + 1
        /\ cache.chain_index <= RoundedUp(old)
    BY <1>1, <2>2, <2>4 DEF AtEnd
  <2> QED  BY <1>1, <1>2, <2>3, <2>4, <2>5, RoundedUpNumber DEF size
<1>4. CASE ~(Dirty(cache) /\ h.fst_index = f)
  <2>1. size = old
    BY <1>4 DEF SizeIn
  <2> HIDE DEF size, old
  <2> QED  BY <1>1, <1>2, <2>1, RoundedUpNumber DEF size
<1> QED  BY <1>3, <1>4

-----------------------------------------------------------------------------
(* A round of ReadFile or WriteFile.                                       *)

\* What PopulateFileCache reads.
PopulateReads(pop, fd, offset) ==
    LET flush == FlushFileCache
        read  == ReadFileData(flush.superblock, flush.nand,
                              handles[fd].fst_index, ChainIndexOf(offset))
    IN  IF CacheHit(fd, offset) THEN pop.code = "Success" /\ pop.nand = nand
        ELSE /\ pop.nand = flush.nand
             /\ flush.code = "Success" =>
                   IF /\ offset % CLUSTER_DATA_SIZE = 0
                      /\ offset = handles[fd].file_size
                   THEN pop.code = "Success" /\ pop.cache.data = ZeroData
                   ELSE read.code = "Success" =>
                            pop.code = "Success" /\ pop.cache.data = read.data

LEMMA PopulateReading ==
    ASSUME TypeOK, NEW fd \in HandleIds, NEW offset, NEW write
    PROVE  PopulateReads(PopulateFileCache(fd, offset, write), fd, offset)
<1> DEFINE flush == FlushFileCache
           index == ChainIndexOf(offset)
           read  == ReadFileData(flush.superblock, flush.nand,
                                 handles[fd].fst_index, index)
           fresh == /\ offset % CLUSTER_DATA_SIZE = 0
                    /\ offset = handles[fd].file_size
           With(code, data) ==
               [flush EXCEPT !.code = code,
                             !.cache = [handle |-> fd, chain_index |-> index,
                                        data |-> data, for_write |-> write]]
           pop == PopulateFileCache(fd, offset, write)
<1>1. flush \in IoStates
  BY FlushFileCacheType
<1>2. CASE CacheHit(fd, offset)
  BY <1>2 DEF PopulateFileCache, PopulateReads, IoState
<1>3. CASE ~CacheHit(fd, offset)
  <2>1. IF flush.code # "Success" THEN pop = flush
        ELSE IF fresh THEN pop = With("Success", ZeroData)
        ELSE read.code = "Success" => pop = With("Success", read.data)
    BY <1>3, Zenon DEF PopulateFileCache, Populated
  <2>2. pop.nand = flush.nand
    <3>1. IF flush.code # "Success" THEN pop = flush
          ELSE \E code, data : pop = With(code, data)
      BY <1>3 DEF PopulateFileCache, Populated
    <3>2. ASSUME NEW code, NEW data PROVE With(code, data).nand = flush.nand
      <4> HIDE DEF flush, index
      <4> QED  BY <1>1 DEF IoStates
    <3> HIDE DEF With
    <3> QED  BY <3>1, <3>2
  <2>3. ASSUME NEW data
        PROVE  /\ With("Success", data).code = "Success"
               /\ With("Success", data).cache.data = data
    <3> HIDE DEF flush, index
    <3> QED  BY <1>1 DEF IoStates
  <2> HIDE DEF With, pop
  <2>4. flush.code = "Success" =>
           IF fresh THEN pop.code = "Success" /\ pop.cache.data = ZeroData
           ELSE read.code = "Success" =>
                    pop.code = "Success" /\ pop.cache.data = read.data
    <3> HIDE DEF flush, read, fresh
    <3> QED  BY <2>1, <2>3
  <2> QED  BY <1>3, <2>2, <2>4, Zenon DEF PopulateReads, pop
<1> QED  BY <1>2, <1>3

\* The position is in the cluster that the round works on.
LEMMA RoundPosition ==
    ASSUME NEW size \in Nat, NEW offset \in Nat, offset <= size,
           RoundedUp(size) <= 65535,
           size <= RoundedUp(size) * CLUSTER_DATA_SIZE
    PROVE  LET k == ChainIndexOf(offset)
           IN  /\ k \in Nat /\ k <= RoundedUp(size) /\ k * CLUSTER_DATA_SIZE \in Nat
               /\ k * CLUSTER_DATA_SIZE <= offset
               /\ offset < k * CLUSTER_DATA_SIZE + CLUSTER_DATA_SIZE
               /\ offset = k * CLUSTER_DATA_SIZE + (offset % CLUSTER_DATA_SIZE)
<1> DEFINE n == RoundedUp(size)
           all == n * CLUSTER_DATA_SIZE
<1>1. n \in Nat /\ all \in Nat
  BY RoundedUpNumber, ClusterSize
<1>2. offset <= all
  <2> HIDE DEF n
  <2>1. size <= all
    BY DEF n
  <2> HIDE DEF all
  <2> QED  BY <1>1, <2>1
<1> HIDE DEF n
<1> QED  BY <1>1, <1>2, PositionInCluster DEF n

\* A position that is not a fresh cluster's is in a cluster that the file has.
LEMMA NotFresh ==
    ASSUME NEW size \in Nat, NEW offset \in Nat, offset <= size,
           RoundedUp(size) <= 65535,
           size <= RoundedUp(size) * CLUSTER_DATA_SIZE
    PROVE  offset < size \/ offset % CLUSTER_DATA_SIZE # 0 <=>
               ChainIndexOf(offset) < RoundedUp(size)
<1> DEFINE k == ChainIndexOf(offset)
           before == k * CLUSTER_DATA_SIZE
           r == offset % CLUSTER_DATA_SIZE
<1>1. k \in Nat /\ before \in Nat /\ before <= offset /\ offset = before + r
  BY RoundPosition
<1>2. r \in Nat
  BY Division, ClusterSize, SMT
<1>3. k < RoundedUp(size) <=> before < size
  <2> HIDE DEF k
  <2> QED  BY <1>1, BeforeEnd
<1> HIDE DEF k, before, r
<1>4. offset < size \/ r # 0 <=> before < size
  BY <1>1, <1>2
<1> QED  BY <1>3, <1>4 DEF k, r

\* The writer goes on in the cluster that waits, or in the last one past its end.
RunningExtends ==
    call # Idle /\ call.op = "WriteFile" =>
        Extends(call.fd, call.count - call.done)

RunningUnfinished == call # Idle => call.done < call.count

IoInv == /\ TypeOK /\ OpenFilesAreFiles /\ HandlesInv /\ SizesInv
         /\ FatInv /\ SizedInv /\ PendingAtEnd

DataInv == /\ Salted(superblock, nand) /\ CacheInv
           /\ RunningExtends /\ RunningUnfinished

\* What PopulateFileCache leaves for a round.
RoundPopulated(pop, write) ==
    LET fd   == call.fd
        h    == handles[fd]
        f    == h.fst_index
        k    == ChainIndexOf(h.file_offset)
        size == pop.superblock.fst[f].size
    IN  \/ /\ pop.code # "Success"
           /\ pop.superblock = superblock /\ pop.nand = nand
           /\ pop.handles = handles /\ pop.cache = cache
        \/ /\ pop.code = "Success" /\ pop.cache.handle = fd
           /\ pop.cache.chain_index = k /\ pop.cache.data \in ClusterData
           /\ Salted(pop.superblock, pop.nand)
           /\ pop.cache.for_write =>
                 h.file_size > size \/
                 (h.file_size = size /\ ~CacheHit(fd, h.file_offset))
           /\ ~pop.cache.for_write =>
                 /\ ~write
                 /\ ReadFileData(pop.superblock, pop.nand, f, k) =
                        [code |-> "Success", data |-> pop.cache.data]
           /\ k < RoundedUp(SizeIn(superblock, handles, cache, f)) =>
                 pop.cache.data = DataIn(superblock, nand, handles, cache, f, k)

\* After a flush the size in the FST is the one that the file had with what waited.
LEMMA FlushedSizeIn ==
    ASSUME NEW flush, FlushOutcome(flush), flush.code = "Success",
           NEW f \in FstIndices
    PROVE  flush.superblock.fst[f].size = SizeIn(superblock, handles, cache, f)
BY DEF FlushOutcome, Flushed, SizeIn

LEMMA HitPopulates ==
    ASSUME IoInv, DataInv, call # Idle, NEW write \in BOOLEAN,
           write <=> call.op = "WriteFile", NEW pop,
           PopulateOutcome(pop, call.fd, handles[call.fd].file_offset, write),
           PopulateReads(pop, call.fd, handles[call.fd].file_offset),
           CacheHit(call.fd, handles[call.fd].file_offset)
    PROVE  RoundPopulated(pop, write)
<1> DEFINE fd == call.fd
           f  == handles[fd].fst_index
           k  == ChainIndexOf(handles[fd].file_offset)
<1>1. /\ pop.superblock = superblock /\ pop.nand = nand /\ pop.cache = cache
      /\ pop.code = "Success" /\ pop.handles = handles
  BY DEF PopulateOutcome, PopulateReads
<1>2. /\ cache.handle = fd /\ cache.chain_index = k /\ fd # NoHandle
      /\ write => cache.for_write
  BY HandleIdTypes
     DEF CacheHit, IoInv, SizesInv, RunningBounded, HandlesInv, FileOpen
<1>3. /\ cache.data # <<>> /\ cache.data \in ClusterData
      /\ cache.for_write => handles[fd].file_size > superblock.fst[f].size
      /\ ~cache.for_write => ReadFileData(superblock, nand, f, k) =
                                 [code |-> "Success", data |-> cache.data]
  BY <1>2 DEF IoInv, TypeOK, Cache, DataInv, CacheInv, CacheHolds
<1>4. cache.data = DataIn(superblock, nand, handles, cache, f, k)
  <2>1. CASE cache.for_write
    BY <1>2, <1>3, <2>1 DEF DataIn, Dirty
  <2>2. CASE ~cache.for_write
    <3>1. DataIn(superblock, nand, handles, cache, f, k) =
             BlockAt(superblock, nand, f, k).data
      BY <2>2 DEF DataIn, Dirty
    <3>2. superblock \in Superblock /\ k \in Nat
      BY <1>2, PointersAreNumbers DEF IoInv, TypeOK, Cache
    <3>3. ReadFileData(superblock, nand, f, k) =
             [code |-> "Success", data |-> cache.data]
      BY <1>3, <2>2
    <3> HIDE DEF f, k
    <3>4. /\ f \in FstIndices /\ IsFile(superblock.fst[f])
          /\ k < RoundedUp(superblock.fst[f].size)
      BY <3>2, <3>3, WhatWasRead
    <3>5. ReadFileData(superblock, nand, f, k) =
             [code |-> "Success", data |-> BlockAt(superblock, nand, f, k).data]
      BY <3>2, <3>4, ReadsWhatIsThere DEF IoInv, SizedInv, DataInv
    <3> QED  BY <3>1, <3>3, <3>5
  <2> QED  BY <2>1, <2>2
<1> QED  BY <1>1, <1>2, <1>3, <1>4 DEF RoundPopulated, DataInv

\* What a running call has left to do.
LEMMA RunningCallFacts ==
    ASSUME IoInv, DataInv, call # Idle
    PROVE  LET h    == handles[call.fd]
               left == call.count - call.done
           IN  /\ call.fd \in Fds /\ call.fd \in HandleIds /\ FileOpen(call.fd)
               /\ h.file_offset \in U32 /\ h.file_offset \in Nat
               /\ h.file_size \in U32 /\ h.file_size \in Nat
               /\ h.fst_index \in FstIndices /\ IsFile(superblock.fst[h.fst_index])
               /\ call.count \in Nat /\ call.done \in Nat
               /\ left \in Nat /\ left > 0 /\ h.file_offset <= h.file_size
               /\ call.op = "ReadFile" => h.file_offset + left <= h.file_size
               /\ call.op = "WriteFile" =>
                     Writable(call.fd) /\ h.file_offset + left <= MaxFileSize
               /\ call.op \in {"ReadFile", "WriteFile"}
<1> DEFINE h == handles[call.fd]
<1>1. /\ FileOpen(call.fd) /\ call.fd \in Fds /\ call.fd \in HandleIds
      /\ call.op = "WriteFile" => Writable(call.fd)
  BY HandleIdTypes DEF IoInv, HandlesInv, FileOpen
<1>2. /\ call.count \in Nat /\ call.done \in Nat
      /\ call.op \in {"ReadFile", "WriteFile"}
  <2>1. call \in Call
    BY DEF IoInv, TypeOK
  <2> QED  BY <2>1, WordsAreNumbers DEF Call
<1>3. call.done < call.count
  BY DEF DataInv, RunningUnfinished
<1>4. h.file_offset \in U32 /\ h.file_size \in U32
  BY <1>1 DEF IoInv, TypeOK, Handle
<1>5. h.file_offset \in Nat /\ h.file_size \in Nat
  <2> HIDE DEF h
  <2> QED  BY <1>4, WordsAreNumbers
<1>6. h.fst_index \in FstIndices /\ IsFile(superblock.fst[h.fst_index])
  BY <1>1 DEF IoInv, OpenFilesAreFiles, FileOpen
<1>7. h.file_offset <= h.file_size
  BY <1>1 DEF IoInv, SizesInv, SizesHold, OfFile, FileOpen, Bounded
<1>8. /\ call.op = "ReadFile" =>
             h.file_offset + (call.count - call.done) <= h.file_size
      /\ call.op = "WriteFile" =>
             h.file_offset + (call.count - call.done) <= MaxFileSize
  BY DEF IoInv, SizesInv, RunningBounded
<1>9. call.count - call.done \in Nat /\ call.count - call.done > 0
  BY <1>2, <1>3
<1> QED  BY <1>1, <1>2, <1>4, <1>5, <1>6, <1>7, <1>8, <1>9

LEMMA MissPopulates ==
    ASSUME IoInv, DataInv, call # Idle, NEW write \in BOOLEAN,
           write <=> call.op = "WriteFile", NEW pop, pop \in IoStates,
           PopulateOutcome(pop, call.fd, handles[call.fd].file_offset, write),
           PopulateReads(pop, call.fd, handles[call.fd].file_offset),
           ~CacheHit(call.fd, handles[call.fd].file_offset)
    PROVE  RoundPopulated(pop, write)
<1> DEFINE flush == FlushFileCache
           fd == call.fd
           h  == handles[fd]
           f  == h.fst_index
           offset == h.file_offset
           k  == ChainIndexOf(offset)
           read == ReadFileData(flush.superblock, flush.nand, f, k)
<1>1. /\ FlushWrites(flush) /\ Salted(flush.superblock, flush.nand)
      /\ FlushOutcome(flush) /\ Sized(flush.superblock) /\ flush \in IoStates
  BY FlushEffect, FlushOutcomes, FlushKeepsSized, FlushFileCacheType
     DEF IoInv, DataInv, FatInv, SizedInv
<1>2. /\ pop.superblock = flush.superblock /\ pop.handles = flush.handles
      /\ pop.nand = flush.nand
      /\ IF flush.code # "Success" THEN pop.cache = cache /\ pop.code = flush.code
         ELSE /\ pop.cache.handle = fd /\ pop.cache.chain_index = k
              /\ pop.cache.for_write = write
              /\ IF offset % CLUSTER_DATA_SIZE = 0 /\ offset = h.file_size
                 THEN pop.code = "Success" /\ pop.cache.data = ZeroData
                 ELSE read.code = "Success" =>
                          pop.code = "Success" /\ pop.cache.data = read.data
  BY Zenon DEF PopulateOutcome, PopulateReads
<1>3. /\ offset \in Nat /\ h.file_size \in Nat /\ offset <= h.file_size
      /\ f \in FstIndices /\ IsFile(superblock.fst[f])
      /\ FileOpen(fd) /\ fd \in HandleIds
      /\ ~write => offset < h.file_size
      /\ write => Writable(fd)
  <2> DEFINE left == call.count - call.done
  <2>1. /\ offset \in Nat /\ h.file_size \in Nat /\ left \in Nat /\ left > 0
        /\ ~write => offset + left <= h.file_size
        /\ offset <= h.file_size
        /\ f \in FstIndices /\ IsFile(superblock.fst[f])
        /\ FileOpen(fd) /\ fd \in HandleIds
        /\ write => Writable(fd)
    BY RunningCallFacts
  <2> HIDE DEF left, offset, h, fd, f
  <2> QED  BY <2>1
<1> HIDE DEF flush, read
<1>4. CASE flush.code # "Success"
  <2>1. /\ flush.superblock = superblock /\ flush.nand = nand
        /\ flush.handles = handles
    BY <1>1, <1>4 DEF FlushWrites, FlushOutcome, Flushed
  <2> QED  BY <1>2, <1>4, <2>1 DEF RoundPopulated
<1>5. CASE flush.code = "Success"
  <2> DEFINE size == flush.superblock.fst[f].size
  <2>1. /\ size = SizeIn(superblock, handles, cache, f) /\ size \in Nat
        /\ RoundedUp(size) <= 65535
        /\ size <= RoundedUp(size) * CLUSTER_DATA_SIZE
    <3>1. size = SizeIn(superblock, handles, cache, f)
      <4> HIDE DEF f
      <4> QED  BY <1>1, <1>3, <1>5, FlushedSizeIn
    <3> HIDE DEF size, f
    <3> QED  BY <1>3, <3>1, SizesFit DEF IoInv, FatInv, SizedInv, DataInv
  <2>2. h.file_size <= size /\ (write => h.file_size = size)
    <3>1. CleanSizes(flush.superblock, flush.handles)
      BY <1>1, <1>5, FlushedSizes DEF IoInv, SizesInv
    <3>2. OfFile(flush.handles[fd]) /\ flush.handles[fd].fst_index = f
          /\ flush.handles[fd].file_size = h.file_size
          /\ flush.handles[fd].mode = h.mode /\ fd \in Fds
      BY <1>1, <1>3 DEF FlushOutcome, SameHandles, FileOpen, OfFile
    <3> QED  BY <1>3, <3>1, <3>2 DEF CleanSizes, Bounded, Writable
  <2>3. /\ ~write => offset < size
        /\ offset <= size
        /\ offset = size => offset = h.file_size
    <3> HIDE DEF size, offset, h
    <3> QED  BY <1>3, <2>1, <2>2
  <2>4. offset < size \/ offset % CLUSTER_DATA_SIZE # 0 <=> k < RoundedUp(size)
    <3> HIDE DEF size, offset
    <3> QED  BY <1>3, <2>1, <2>3, NotFresh
  <2>5. CASE k < RoundedUp(size)
    <3>1. /\ flush.superblock \in Superblock /\ f \in FstIndices
          /\ IsFile(flush.superblock.fst[f]) /\ k \in Nat
          /\ flush.nand \in [Clusters -> NandCluster]
      <4>1. k \in Nat
        <5> HIDE DEF offset, size
        <5> QED  BY <1>3, <2>1, <2>3, RoundPosition
      <4>2. /\ flush.superblock \in Superblock
            /\ flush.nand \in [Clusters -> NandCluster]
        BY <1>1 DEF IoStates, NandType
      <4>3. IsFile(flush.superblock.fst[f])
        <5> HIDE DEF f
        <5> QED  BY <1>1, <1>3 DEF FlushWrites
      <4> QED  BY <1>3, <4>1, <4>2, <4>3
    <3> DEFINE block == BlockAt(flush.superblock, flush.nand, f, k)
    <3>2. read = [code |-> "Success", data |-> block.data]
      <4> HIDE DEF f, k
      <4> QED  BY <1>1, <2>5, <3>1, ReadsWhatIsThere DEF read
    <3>3. ClusterAt(flush.superblock, f, k) # NIL
      <4> HIDE DEF f, k
      <4> QED  BY <1>1, <2>5, <3>1 DEF Sized, LengthIs
    <3>4. block.data \in ClusterData
      <4>1. ClusterAt(flush.superblock, f, k) \in Clusters
        <5> HIDE DEF f, k
        <5> QED  BY <3>1, <3>3, ClusterOrNil
      <4> QED  BY <3>1, <4>1 DEF BlockAt, NandCluster
    <3>5. block.data = DataIn(superblock, nand, handles, cache, f, k)
      <4>1. CASE Dirty(cache)
        <5> HIDE DEF f, k
        <5> QED  BY <1>1, <1>3, <1>5, <3>1, <3>3, <4>1 DEF FlushWrites
      <4>2. CASE ~Dirty(cache)
        <5>1. flush.superblock = superblock /\ flush.nand = nand
          BY <1>1, <1>5, <4>2 DEF FlushWrites
        <5> QED  BY <4>2, <5>1 DEF DataIn
      <4> QED  BY <4>1, <4>2
    <3>7. ~(offset % CLUSTER_DATA_SIZE = 0 /\ offset = h.file_size)
      <4> HIDE DEF offset, size, k, h
      <4> QED  BY <1>3, <2>1, <2>2, <2>4, <2>5
    <3> HIDE DEF block
    <3>8. pop.code = "Success" /\ pop.cache.data = block.data
      <4> HIDE DEF offset, k, h
      <4> QED  BY <1>2, <1>5, <3>2, <3>7
    <3> HIDE DEF size
    <3>9. ReadFileData(pop.superblock, pop.nand, f, k) =
             [code |-> "Success", data |-> pop.cache.data]
      BY <1>2, <3>2, <3>8 DEF read
    <3> QED  BY <1>1, <1>2, <1>5, <2>2, <3>4, <3>5, <3>8, <3>9
             DEF RoundPopulated, size
  <2>6. CASE ~(k < RoundedUp(size))
    <3>1. write /\ offset % CLUSTER_DATA_SIZE = 0 /\ offset = h.file_size
      <4>1. ~(offset < size) /\ offset % CLUSTER_DATA_SIZE = 0
        BY <2>4, <2>6
      <4> HIDE DEF offset, size, h
      <4> QED  BY <1>3, <2>1, <2>3, <4>1
    <3>2. ZeroData \in ClusterData
      BY FileIoAssumption DEF FileIoAssumption, ZeroData, ClusterData
    <3>3. pop.code = "Success" /\ pop.cache.data = ZeroData
      BY <1>2, <1>5, <3>1
    <3> HIDE DEF size
    <3>4. ~(k < RoundedUp(SizeIn(superblock, handles, cache, f)))
      BY <2>1, <2>6
    <3> QED  BY <1>1, <1>2, <1>5, <2>2, <3>1, <3>2, <3>3, <3>4
             DEF RoundPopulated, size
  <2> QED  BY <2>5, <2>6
<1> QED  BY <1>4, <1>5

\* A round works from its position to the end of the cluster or of the call.
LEMMA RoundLength ==
    ASSUME IoInv, DataInv, call # Idle, NEW c, c.data \in ClusterData,
           c.chain_index = ChainIndexOf(handles[call.fd].file_offset)
    PROVE  LET offset == handles[call.fd].file_offset
               left   == call.count - call.done
               before == c.chain_index * CLUSTER_DATA_SIZE
               length == CopyLength(offset, c)
           IN  /\ c.chain_index \in Nat /\ before \in Nat
               /\ before <= offset /\ offset < before + CLUSTER_DATA_SIZE
               /\ length \in Nat /\ length > 0 /\ length <= left
               /\ length = left \/ offset + length = before + CLUSTER_DATA_SIZE
               /\ offset + length <= before + CLUSTER_DATA_SIZE
<1> DEFINE h == handles[call.fd]
           offset == h.file_offset
           f == h.fst_index
           left == call.count - call.done
           k == c.chain_index
           before == k * CLUSTER_DATA_SIZE
           size == SizeIn(superblock, handles, cache, f)
           length == CopyLength(offset, c)
<1>1. /\ call.fd \in Fds /\ FileOpen(call.fd) /\ offset \in Nat
      /\ h.file_size \in Nat /\ left \in Nat /\ left > 0
      /\ f \in FstIndices /\ IsFile(superblock.fst[f]) /\ offset <= h.file_size
  BY RunningCallFacts
<1>2. h.file_size <= size
  BY <1>1 DEF IoInv, SizesInv, SizesHold, OfFile, FileOpen, Bounded
<1> HIDE DEF size
<1>3. /\ size \in Nat /\ RoundedUp(size) <= 65535
      /\ size <= RoundedUp(size) * CLUSTER_DATA_SIZE
  <2> HIDE DEF f
  <2> QED  BY <1>1, SizesFit DEF IoInv, FatInv, SizedInv, DataInv, size
<1> HIDE DEF f
<1>4. k = ChainIndexOf(offset)
  OBVIOUS
<1>5. /\ k \in Nat /\ before \in Nat /\ before <= offset
      /\ offset < before + CLUSTER_DATA_SIZE
  <2>1. offset <= size
    BY <1>1, <1>2, <1>3
  <2> HIDE DEF offset, k
  <2> QED  BY <1>1, <1>3, <1>4, <2>1, RoundPosition
<1>6. Len(c.data) = CLUSTER_DATA_SIZE /\ CLUSTER_DATA_SIZE \in Nat
  <2>1. c.data # <<>>
    BY ClusterSize DEF ClusterData
  <2> QED  BY <2>1, FullClusterLength, ClusterSize
<1>7. length = IF CLUSTER_DATA_SIZE - (offset - before) < left
               THEN CLUSTER_DATA_SIZE - (offset - before) ELSE left
  <2>1. length = Minimum(CLUSTER_DATA_SIZE - (offset - before), left)
    BY <1>6 DEF CopyLength, CopyStart
  <2> HIDE DEF length, before, offset, left
  <2> QED  BY <1>1, <1>5, <1>6, <2>1 DEF Minimum
<1> HIDE DEF length, before, offset, left
<1>8. /\ length \in Nat /\ length > 0 /\ length <= left
      /\ length = left \/ offset + length = before + CLUSTER_DATA_SIZE
      /\ offset + length <= before + CLUSTER_DATA_SIZE
  BY <1>1, <1>5, <1>6, <1>7
<1> QED  BY <1>5, <1>8 DEF length, before, offset, left

\* The running call goes on after the bytes that were copied.
LEMMA RoundGoesOn ==
    ASSUME IoInv, DataInv, call # Idle, NEW length \in Nat,
           length <= call.count - call.done,
           \/ call' = Idle
           \/ /\ call' # Idle /\ call'.count = call.count
              /\ call'.done = call.done + length /\ call'.done # call.count
    PROVE  /\ RunningUnfinished'
           /\ call' # Idle =>
                 LET left == call.count - call.done
                 IN  /\ call'.count - call'.done = left - length
                     /\ left - length > 0
<1>1. call.count \in Nat /\ call.done \in Nat
  BY RunningCallFacts
<1>2. CASE call' # Idle
  <2> DEFINE a == call'.count
             b == call'.done
             c == call.count
             d == call.done
  <2>1. /\ c \in Nat /\ d \in Nat /\ a = c /\ b = d + length /\ b # c
        /\ length <= c - d
    BY <1>1, <1>2
  <2> HIDE DEF a, b, c, d
  <2>2. b < a /\ a - b = (c - d) - length /\ (c - d) - length > 0
    BY <2>1
  <2> QED  BY <2>2 DEF RunningUnfinished, a, b, c, d
<1>3. CASE call' = Idle
  BY <1>3 DEF RunningUnfinished
<1> QED  BY <1>2, <1>3

LEMMA ReadRound ==
    ASSUME IoInv, DataInv, call # Idle, call.op = "ReadFile",
           NEW pop, pop \in IoStates, RoundPopulated(pop, FALSE),
           PopulateOutcome(pop, call.fd, handles[call.fd].file_offset, FALSE),
           SameHandles(pop.handles), superblock' = pop.superblock,
           nand' = pop.nand, NEW length \in Nat, Advanced(pop, FALSE, length)
    PROVE  DataInv'
<1> DEFINE fd == call.fd
           h == handles[fd]
           f == h.fst_index
           k == ChainIndexOf(h.file_offset)
           old == pop.superblock.fst[f].size
<1>1. /\ pop.code = "Success" /\ pop.cache.handle = fd
      /\ pop.cache.chain_index = k /\ pop.cache.data \in ClusterData
      /\ Salted(pop.superblock, pop.nand)
      /\ pop.cache.for_write =>
            h.file_size > old \/ (h.file_size = old /\ ~CacheHit(fd, h.file_offset))
      /\ ~pop.cache.for_write =>
            ReadFileData(pop.superblock, pop.nand, f, k) =
               [code |-> "Success", data |-> pop.cache.data]
  <2>1. pop.code = "Success"
    BY Zenon DEF Advanced
  <2> QED  BY <2>1, Zenon DEF RoundPopulated
<1>2. /\ cache' = pop.cache /\ length <= call.count - call.done
      /\ \A l \in HandleIds :
            /\ handles'[l].fst_index = pop.handles[l].fst_index
            /\ handles'[l].file_size = pop.handles[l].file_size
      /\ \/ call' = Idle
         \/ /\ call' # Idle /\ call'.op = call.op /\ call'.fd = fd
            /\ call'.count = call.count /\ call'.done = call.done + length
            /\ call'.done # call.count
  BY Zenon DEF Advanced
<1>3. fd \in HandleIds
  BY RunningCallFacts
<1>4. handles'[fd].fst_index = f /\ handles'[fd].file_size = h.file_size
  BY <1>2, <1>3 DEF SameHandles
<1>5. pop.cache.for_write => h.file_size > old
  <2>1. CASE CacheHit(fd, h.file_offset)
    BY <1>1, <2>1
  <2>2. CASE ~CacheHit(fd, h.file_offset)
    <3>1. pop.cache.for_write = FALSE
      BY <1>1, <2>2 DEF PopulateOutcome
    <3> QED  BY <3>1
  <2> QED  BY <2>1, <2>2
<1>6. pop.cache.data # <<>>
  BY <1>1, ClusterSize DEF ClusterData
<1>7. CacheInv'
  <2> DEFINE hs == handles'
  <2>1. CacheHolds(pop.superblock, pop.nand, hs, pop.cache)
    <3>1. hs[fd].fst_index = f /\ hs[fd].file_size = h.file_size
      BY <1>4
    <3> HIDE DEF hs, h, f, k
    <3> QED  BY <1>1, <1>5, <1>6, <3>1 DEF CacheHolds
  <2> QED  BY <1>2, <2>1 DEF CacheInv, CacheHolds
<1>8. RunningUnfinished'
  BY <1>2, RoundGoesOn
<1>9. RunningExtends'
  BY <1>2 DEF RunningExtends
<1>10. Salted(superblock, nand)'
  BY <1>1 DEF Salted, BlockAt
<1> QED  BY <1>7, <1>8, <1>9, <1>10 DEF DataInv

\* A round of a write: where it starts, how far it gets and what becomes of the
\* handle and the cache.
LEMMA WriteAdvance ==
    ASSUME IoInv, DataInv, call # Idle, call.op = "WriteFile",
           NEW pop, RoundPopulated(pop, TRUE), SameHandles(pop.handles),
           NEW length \in Nat, Advanced(pop, TRUE, length)
    PROVE  LET fd == call.fd
               h == handles[fd]
               from == h.file_offset
               last == h.file_size
               k == ChainIndexOf(from)
               before == k * CLUSTER_DATA_SIZE
               left == call.count - call.done
               to == from + length
           IN  /\ fd \in HandleIds /\ FileOpen(fd) /\ h.fst_index \in FstIndices
               /\ from \in Nat /\ last \in Nat /\ from <= last
               /\ left \in Nat /\ k \in Nat /\ before \in Nat
               /\ before <= from /\ from < before + CLUSTER_DATA_SIZE
               /\ length > 0 /\ length <= left
               /\ length = left \/ to = before + CLUSTER_DATA_SIZE
               /\ to <= before + CLUSTER_DATA_SIZE
               /\ handles'[fd].fst_index = h.fst_index
               /\ handles'[fd].opened = h.opened
               /\ handles'[fd].file_offset = to
               /\ handles'[fd].file_size = IF last < to THEN to ELSE last
               /\ pop.cache.handle = fd /\ pop.cache.chain_index = k
               /\ pop.cache.data \in ClusterData /\ pop.cache.data # <<>>
               /\ pop.cache.for_write
               /\ cache'.handle = fd /\ cache'.chain_index = k
               /\ cache'.for_write /\ cache'.data # <<>>
               /\ cache'.data = CopiedData(pop, length)
<1> DEFINE fd == call.fd
           h == handles[fd]
           from == h.file_offset
           last == h.file_size
           k == ChainIndexOf(from)
           before == k * CLUSTER_DATA_SIZE
           left == call.count - call.done
           to == from + length
           offset == to % WordSize
           size == IF last < offset THEN offset ELSE last
<1>1. /\ pop.code = "Success" /\ pop.cache.handle = fd
      /\ pop.cache.chain_index = k /\ pop.cache.data \in ClusterData
      /\ pop.cache.for_write
  <2>1. pop.code = "Success"
    BY Zenon DEF Advanced
  <2> QED  BY <2>1, Zenon DEF RoundPopulated
<1>2. /\ length <= left /\ length = CopyLength(from, pop.cache)
      /\ \A l \in HandleIds :
            /\ handles'[l].opened = pop.handles[l].opened
            /\ handles'[l].fst_index = pop.handles[l].fst_index
            /\ handles'[l].file_offset = IF l = fd THEN offset
                                         ELSE pop.handles[l].file_offset
            /\ handles'[l].file_size = IF l = fd /\ TRUE THEN size
                                       ELSE pop.handles[l].file_size
      /\ cache'.handle = pop.cache.handle
      /\ cache'.chain_index = pop.cache.chain_index
      /\ cache'.for_write = pop.cache.for_write
      /\ cache'.data = <<>> <=> pop.cache.data = <<>>
      /\ cache'.data = CopiedData(pop, length)
  BY Zenon DEF Advanced
<1>3. /\ fd \in HandleIds /\ from \in Nat /\ last \in Nat /\ left \in Nat
      /\ left > 0 /\ from <= last /\ h.fst_index \in FstIndices
      /\ from + left <= MaxFileSize /\ FileOpen(fd)
  BY RunningCallFacts
<1>4. /\ handles'[fd].fst_index = h.fst_index /\ handles'[fd].opened = h.opened
      /\ handles'[fd].file_size = size /\ handles'[fd].file_offset = offset
  <2> HIDE DEF offset, size, fd
  <2> QED  BY <1>2, <1>3 DEF SameHandles, h
<1>5. /\ k \in Nat /\ before \in Nat /\ before <= from
      /\ from < before + CLUSTER_DATA_SIZE
      /\ length > 0
      /\ length = left \/ to = before + CLUSTER_DATA_SIZE
      /\ to <= before + CLUSTER_DATA_SIZE
  <2>1. /\ pop.cache.chain_index \in Nat
        /\ pop.cache.chain_index * CLUSTER_DATA_SIZE \in Nat
        /\ pop.cache.chain_index * CLUSTER_DATA_SIZE <= from
        /\ from < pop.cache.chain_index * CLUSTER_DATA_SIZE + CLUSTER_DATA_SIZE
        /\ length > 0
        /\ \/ length = left
           \/ from + length = pop.cache.chain_index * CLUSTER_DATA_SIZE
                              + CLUSTER_DATA_SIZE
        /\ from + length <= pop.cache.chain_index * CLUSTER_DATA_SIZE
                            + CLUSTER_DATA_SIZE
    <3>1. pop.cache.data \in ClusterData /\ pop.cache.chain_index = k
      BY <1>1
    <3> QED  BY <1>2, <3>1, RoundLength
  <2> QED  BY <1>1, <2>1
<1>6. offset = to
  <2>1. MaxFileSize \in U32 /\ left \in Int
    BY <1>3, FileSystemAssumption DEF FileSystemAssumption
  <2>2. length <= left /\ from \in Nat /\ from + left <= MaxFileSize
    BY <1>2, <1>3
  <2>3. (from + length) % WordSize = from + length
    <3> HIDE DEF from, left
    <3> QED  BY <2>1, <2>2, NoWrap
  <2> QED  BY <2>3
<1>7. pop.cache.data # <<>>
  BY <1>1, ClusterSize DEF ClusterData
<1>8. /\ cache'.handle = fd /\ cache'.chain_index = k /\ cache'.for_write
      /\ cache'.data # <<>>
  BY <1>1, <1>2, <1>7
<1> HIDE DEF offset, k
<1> QED  BY <1>1, <1>2, <1>3, <1>4, <1>5, <1>6, <1>7, <1>8 DEF k

\* What the writer has copied makes the file longer, and it goes on at the end.
LEMMA WriteRound ==
    ASSUME IoInv, DataInv, call # Idle, call.op = "WriteFile", IoInv',
           NEW pop, pop \in IoStates, RoundPopulated(pop, TRUE),
           SameHandles(pop.handles), superblock' = pop.superblock,
           nand' = pop.nand, NEW length \in Nat, Advanced(pop, TRUE, length)
    PROVE  DataInv'
<1> DEFINE fd == call.fd
           h == handles[fd]
           f == h.fst_index
           from == h.file_offset
           last == h.file_size
           k == ChainIndexOf(from)
           before == k * CLUSTER_DATA_SIZE
           old == pop.superblock.fst[f].size
           left == call.count - call.done
           offset == from + length
           size == IF last < offset THEN offset ELSE last
<1>1. /\ pop.code = "Success" /\ Salted(pop.superblock, pop.nand)
      /\ last > old \/ (last = old /\ ~CacheHit(fd, from))
  <2>1. pop.code = "Success"
    BY Zenon DEF Advanced
  <2>2. pop.cache.for_write
    BY WriteAdvance
  <2> QED  BY <2>1, <2>2, Zenon DEF RoundPopulated
<1>2. /\ length <= left
      /\ \/ call' = Idle
         \/ /\ call' # Idle /\ call'.op = call.op /\ call'.fd = fd
            /\ call'.count = call.count /\ call'.done = call.done + length
            /\ call'.done # call.count
  BY Zenon DEF Advanced
<1>3. /\ fd \in HandleIds /\ from \in Nat /\ last \in Nat /\ left \in Nat
      /\ from <= last /\ f \in FstIndices /\ FileOpen(fd)
  BY WriteAdvance
<1>4. /\ handles'[fd].fst_index = f /\ handles'[fd].file_size = size
      /\ handles'[fd].file_offset = offset /\ handles'[fd].opened = h.opened
  BY WriteAdvance
<1>5. /\ k \in Nat /\ before \in Nat /\ before <= from
      /\ from < before + CLUSTER_DATA_SIZE
      /\ length > 0
      /\ length = left \/ offset = before + CLUSTER_DATA_SIZE
  BY WriteAdvance
<1>6. offset = from + length
  OBVIOUS
<1>7. Extends(fd, left) /\ CLUSTER_DATA_SIZE \in Nat
  BY ClusterSize DEF DataInv, RunningExtends
<1>8. old \in Nat /\ RoundedUp(old) \in Nat /\ RoundedUp(old) <= 65531
  <2>1. /\ superblock' \in Superblock /\ Sized(superblock')
        /\ FatSound(superblock')
        /\ IsFile(superblock'.fst[f])
    <3>1. /\ TypeOK' /\ Sized(superblock') /\ OpenFilesAreFiles'
          /\ FatSound(superblock')
      BY DEF IoInv, SizedInv, FatInv
    <3>2. superblock' \in Superblock
      BY <3>1 DEF TypeOK
    <3>3. IsFile(superblock'.fst[f])
      <4>1. /\ handles'[fd].opened /\ fd \in Fds
            /\ handles'[fd].fst_index # NIL
        BY <1>3, <1>4 DEF FileOpen
      <4>2. IsFile(superblock'.fst[handles'[fd].fst_index])
        BY <3>1, <4>1 DEF OpenFilesAreFiles
      <4> QED  BY <1>4, <4>2
    <3> QED  BY <3>1, <3>2, <3>3
  <2>2. /\ pop.superblock \in Superblock /\ Sized(pop.superblock)
        /\ FatSound(pop.superblock) /\ IsFile(pop.superblock.fst[f])
    BY <2>1
  <2>3. old \in Nat /\ RoundedUp(old) \in Nat
        /\ LengthIs(pop.superblock, f, RoundedUp(old))
    <3> HIDE DEF f
    <3> QED  BY <1>3, <2>2, SizeIsNumber DEF Sized
  <2>4. RoundedUp(old) <= FatSize
    <3> HIDE DEF f
    <3> DEFINE n == RoundedUp(old)
    <3>1. f \in FstIndices /\ n \in Nat /\ LengthIs(pop.superblock, f, n)
      BY <1>3, <2>3
    <3> HIDE DEF n
    <3> QED  BY <2>2, <3>1, LengthIsCardinality DEF n
  <2>5. FatSize \in Nat /\ FatSize <= 65531
    BY SffsAssumption DEF SffsAssumption
  <2> HIDE DEF old
  <2> QED  BY <2>3, <2>4, <2>5
<1>9. \/ last > old
      \/ /\ last = old /\ ~CacheHit(fd, from) /\ from + left > last
         /\ from >= last - (last % CLUSTER_DATA_SIZE)
  <2>1. CASE last > old
    BY <2>1
  <2>2. CASE ~(last > old)
    <3>1. last = old /\ ~CacheHit(fd, from)
      BY <1>1, <2>2
    <3>2. from + left > last /\ from >= last - (last % CLUSTER_DATA_SIZE)
      BY <1>7, <3>1, Zenon DEF Extends
    <3> QED  BY <3>1, <3>2
  <2> QED  BY <2>1, <2>2
<1>10. size > old /\ size \in Nat
  <2>1. CASE last > old
    <3> HIDE DEF last, old, offset
    <3> QED  BY <1>3, <1>5, <1>6, <1>8, <2>1
  <2>2. CASE /\ last = old /\ from + left > last
             /\ from >= last - (last % CLUSTER_DATA_SIZE)
    <3>1. last < before + CLUSTER_DATA_SIZE
      <4> HIDE DEF last, k, from
      <4>1. last - (last % CLUSTER_DATA_SIZE) < k * CLUSTER_DATA_SIZE
                                                + CLUSTER_DATA_SIZE
        <5> DEFINE r == last % CLUSTER_DATA_SIZE
        <5>1. r \in Nat
          BY <1>3, Division
        <5>2. from >= last - r /\ from < before + CLUSTER_DATA_SIZE
          BY <1>5, <2>2
        <5> HIDE DEF r, before
        <5>3. last - r < before + CLUSTER_DATA_SIZE
          BY <1>3, <1>5, <1>7, <5>1, <5>2
        <5> QED  BY <5>3 DEF r, before
      <4>2. last \in Nat /\ k \in Nat
        BY <1>3, <1>5
      <4> QED  BY <4>1, <4>2, LastClusterReachesEnd
    <3>2. last < offset
      <4> HIDE DEF last, offset, from, before, left
      <4> QED  BY <1>3, <1>5, <1>6, <1>7, <2>2, <3>1
    <3> HIDE DEF last, old, offset
    <3> QED  BY <1>3, <1>6, <1>8, <2>2, <3>2
  <2> HIDE DEF last, old, offset, size, from, left
  <2> QED  BY <1>9, <2>1, <2>2
<1>12. /\ cache'.handle = fd /\ cache'.chain_index = k /\ cache'.for_write
       /\ cache'.data # <<>>
  BY WriteAdvance
<1> HIDE DEF offset, size, k
<1>13. CacheInv'
  <2>1. handles'[cache'.handle].file_size
           > superblock'.fst[handles'[cache'.handle].fst_index].size
    BY <1>4, <1>10, <1>12
  <2> QED  BY <1>12, <2>1 DEF CacheInv, CacheHolds
<1>14. /\ RunningUnfinished'
       /\ call' # Idle => /\ call'.count - call'.done = left - length
                          /\ left - length > 0
  BY <1>2, RoundGoesOn
<1>15. Salted(superblock, nand)'
  BY <1>1 DEF Salted, BlockAt
<1>16. ASSUME call' # Idle PROVE Extends(call.fd, call.count - call.done)'
  <2>1. call'.fd = fd /\ call'.count - call'.done = left - length
        /\ left - length > 0
    BY <1>2, <1>14, <1>16
  <2>2. offset = before + CLUSTER_DATA_SIZE
    <3> HIDE DEF left, from, before
    <3> QED  BY <1>3, <1>5, <1>6, <2>1
  <2>3. RoundedUp(size) = k + 1 /\ k <= 65531
    <3>1. Dirty(cache')
      <4>1. cache'.handle # NoHandle
        BY <1>12, <1>3, HandleIdTypes
      <4> QED  BY <1>12, <4>1 DEF Dirty
    <3>2. PendingHolds(superblock', handles', cache')
      BY DEF IoInv, PendingAtEnd
    <3>3. AtEnd(cache', size, old)
      BY <1>4, <1>10, <1>12, <3>1, <3>2 DEF PendingHolds
    <3> HIDE DEF old
    <3>4. RoundedUp(size) = k + 1 /\ k - RoundedUp(old) \in {-1, 0}
      BY <1>12, <3>3 DEF AtEnd
    <3> QED  BY <1>5, <1>8, <3>4
  <2>4. size <= before + CLUSTER_DATA_SIZE
    <3> DEFINE m == k + 1
    <3>1. size <= m * CLUSTER_DATA_SIZE
      <4>1. size <= RoundedUp(size) * CLUSTER_DATA_SIZE
        BY <1>10, RoundedUpNumber
      <4> QED  BY <2>3, <4>1
    <3>2. m * CLUSTER_DATA_SIZE = k * CLUSTER_DATA_SIZE + CLUSTER_DATA_SIZE
      BY <1>5, <1>7
    <3> QED  BY <3>1, <3>2
  <2>5. size = offset
    <3>1. offset <= size
      BY <1>3, <1>6 DEF size
    <3> HIDE DEF before
    <3> QED  BY <1>5, <1>7, <1>10, <2>2, <2>4, <3>1
  <2>6. ChainIndexOf(offset) # k
    <3> DEFINE m == k + 1
               l == ChainIndexOf(offset)
    <3>1. m \in Nat /\ m <= 65535
      BY <1>5, <2>3
    <3>2. offset <= m * CLUSTER_DATA_SIZE
      <4>1. m * CLUSTER_DATA_SIZE = k * CLUSTER_DATA_SIZE + CLUSTER_DATA_SIZE
        BY <1>5, <1>7
      <4> QED  BY <1>10, <2>4, <2>5, <4>1
    <3> HIDE DEF m
    <3>3. offset < l * CLUSTER_DATA_SIZE + CLUSTER_DATA_SIZE
      BY <1>10, <2>5, <3>1, <3>2, PositionInCluster
    <3>4. l = k => offset < before + CLUSTER_DATA_SIZE
      BY <3>3
    <3> HIDE DEF before, l
    <3> QED  BY <1>5, <1>7, <2>2, <3>4 DEF l
  <2>7. handles'[fd].file_offset = size /\ handles'[fd].file_size = size
    BY <1>4, <2>5
  <2>8. ~CacheHit(fd, handles[fd].file_offset)'
    BY <1>4, <1>12, <2>6 DEF CacheHit
  <2>9. /\ size + (left - length) > size
        /\ size >= size - (size % CLUSTER_DATA_SIZE)
    <3> DEFINE r == size % CLUSTER_DATA_SIZE
               rest == left - length
    <3>1. r \in Nat
      BY <1>10, Division
    <3>2. rest \in Int /\ rest > 0
      BY <1>3, <2>1
    <3> HIDE DEF r, rest
    <3>3. size + rest > size /\ size >= size - r
      BY <1>10, <3>1, <3>2
    <3> QED  BY <3>3 DEF r, rest
  <2> HIDE DEF left
  <2> QED  BY <2>1, <2>7, <2>8, <2>9, Zenon DEF Extends, CacheHit
<1>17. RunningExtends'
  BY <1>16 DEF RunningExtends
<1> QED  BY <1>13, <1>14, <1>15, <1>17 DEF DataInv

\* A round of ReadFile or WriteFile: it copies something, or it fails and leaves no
\* trace.
Round(pop, write) ==
    /\ pop \in IoStates /\ RoundPopulated(pop, write)
    /\ PopulateOutcome(pop, call.fd, handles[call.fd].file_offset, write)
    /\ PopulateReads(pop, call.fd, handles[call.fd].file_offset)
    /\ SameHandles(pop.handles)
    /\ superblock' = pop.superblock /\ nand' = pop.nand
    /\ \/ /\ UNCHANGED <<superblock, nand, handles, cache>>
          /\ call' = Idle /\ pop.code # "Success"
       \/ \E length \in Nat : Advanced(pop, write, length)

LEMMA RoundOutcomes ==
    ASSUME IoInv, DataInv, call # Idle, NEW op, NEW write \in BOOLEAN,
           write <=> op = "WriteFile", op \in {"ReadFile", "WriteFile"},
           Advance(op, write)
    PROVE  call.op = op /\ \E pop : Round(pop, write)
<1> DEFINE fd == call.fd
           offset == handles[fd].file_offset
           pop == PopulateFileCache(fd, offset, write)
<1>1. /\ call.op = op /\ fd \in HandleIds /\ fd \in Fds /\ FileOpen(fd)
      /\ offset \in U32 /\ (write => Writable(fd)) /\ TypeOK
  <2>1. call.op = op
    BY Zenon DEF Advance
  <2> QED  BY <2>1, RunningCallFacts DEF IoInv
<1>2. /\ PopulateOutcome(pop, fd, offset, write) /\ pop \in IoStates
      /\ PopulateReads(pop, fd, offset)
  <2> HIDE DEF fd, offset
  <2> QED  BY <1>1, PopulateOutcomes, PopulateReading, PopulateFileCacheType
<1>3. AdvanceOutcome(pop, write)
  BY <1>1, AdvanceOutcomes
<1>4. superblock' = pop.superblock /\ nand' = pop.nand
  BY Zenon DEF Advance, Copy
<1> HIDE DEF pop
<1>5. RoundPopulated(pop, write)
  <2>1. CASE CacheHit(fd, offset)
    BY <1>1, <1>2, <2>1, HitPopulates
  <2>2. CASE ~CacheHit(fd, offset)
    BY <1>1, <1>2, <2>2, MissPopulates
  <2> QED  BY <2>1, <2>2
<1>6. SameHandles(pop.handles)
  <2> HIDE DEF fd, offset
  <2> QED  BY <1>1, <1>2, PopulatedSizes DEF IoInv
<1>7. \/ /\ UNCHANGED <<superblock, nand, handles, cache>>
         /\ call' = Idle /\ pop.code # "Success"
      \/ \E length \in Nat : Advanced(pop, write, length)
  <2>1. CASE pop.code # "Success"
    <3>1. /\ pop.superblock = superblock /\ pop.nand = nand
          /\ pop.handles = handles /\ pop.cache = cache
      BY <1>5, <2>1 DEF RoundPopulated
    <3>2. ASSUME NEW length \in Nat, Advanced(pop, write, length) PROVE FALSE
      <4>1. pop.code = "Success"
        BY <3>2, Zenon DEF Advanced
      <4> QED  BY <2>1, <4>1
    <3>3. handles' = pop.handles /\ cache' = pop.cache /\ call' = Idle
      BY <1>3, <3>2 DEF AdvanceOutcome
    <3> QED  BY <1>4, <2>1, <3>1, <3>3
  <2>2. CASE pop.code = "Success"
    <3>1. /\ pop.cache.data \in ClusterData
          /\ pop.cache.chain_index = ChainIndexOf(offset)
      BY <1>5, <2>2, Zenon DEF RoundPopulated
    <3>2. /\ CopyLength(offset, pop.cache) > 0
          /\ CopyLength(offset, pop.cache) \in Nat
      BY <3>1, RoundLength
    <3>3. ~(CopyLength(offset, pop.cache) < 0)
      <4> HIDE DEF offset
      <4> QED  BY <3>2
    <3> QED  BY <1>3, <2>2, <3>3 DEF AdvanceOutcome
  <2> QED  BY <2>1, <2>2
<1>8. Round(pop, write)
  BY <1>2, <1>4, <1>5, <1>6, <1>7, Zenon DEF Round
<1> QED  BY <1>1, <1>8

LEMMA AdvanceData ==
    ASSUME IoInv, DataInv, IoInv', call # Idle, NEW op, NEW write \in BOOLEAN,
           write <=> op = "WriteFile", op \in {"ReadFile", "WriteFile"},
           Advance(op, write)
    PROVE  DataInv'
<1>1. call.op = op
  BY RoundOutcomes
<1>2. PICK pop : Round(pop, write)
  BY RoundOutcomes
<1>3. /\ pop \in IoStates /\ RoundPopulated(pop, write)
      /\ PopulateOutcome(pop, call.fd, handles[call.fd].file_offset, write)
      /\ SameHandles(pop.handles)
      /\ superblock' = pop.superblock /\ nand' = pop.nand
  BY <1>2, Zenon DEF Round
<1>4. CASE UNCHANGED <<superblock, nand, handles, cache>> /\ call' = Idle
  <2>1. CacheInv' /\ Salted(superblock, nand)'
    BY <1>4 DEF DataInv, CacheInv, CacheHolds, Salted, BlockAt
  <2> QED  BY <1>4, <2>1 DEF DataInv, RunningExtends, RunningUnfinished
<1>5. ASSUME NEW length \in Nat, Advanced(pop, write, length) PROVE DataInv'
  <2>1. CASE write
    <3>1. write = TRUE /\ call.op = "WriteFile"
      BY <1>1, <2>1
    <3> QED  BY <1>3, <1>5, <3>1, WriteRound
  <2>2. CASE ~write
    <3>1. write = FALSE /\ call.op = "ReadFile"
      BY <1>1, <2>2
    <3> QED  BY <1>3, <1>5, <3>1, ReadRound
  <2> QED  BY <2>1, <2>2
<1> QED  BY <1>2, <1>4, <1>5 DEF Round

-----------------------------------------------------------------------------
(* The other calls.                                                        *)

\* A file of size zero has no positions.
LEMMA EmptyHasNone ==
    ASSUME NEW sb, Sized(sb), NEW f \in FstIndices, IsFile(sb.fst[f]),
           sb.fst[f].size = 0, NEW k \in Nat
    PROVE  ClusterAt(sb, f, k) = NIL
<1>1. RoundedUp(0) = 0
  BY ClusterSize, SMT DEF RoundedUp
<1>2. ~(k < 0)
  OBVIOUS
<1> QED  BY <1>1, <1>2 DEF Sized, LengthIs

\* An edit of the tree leaves the clusters of the files that stay, and their salts.
LEMMA KeptFilesSalted ==
    ASSUME NEW s1, NEW s2, FatSound(s2), Sized(s1), Sized(s2), KeptFiles(s1, s2),
           "rename_written_file" \notin Uses, NEW nd, Salted(s1, nd),
           \A c \in Clusters : s2.fat[c] \in {s1.fat[c], CLUSTER_UNUSED}
    PROVE  /\ Salted(s2, nd)
           /\ \A f \in FstIndices : IsFile(s1.fst[f]) /\ IsFile(s2.fst[f]) =>
                 \A k \in Nat : ClusterAt(s2, f, k) = ClusterAt(s1, f, k)
<1>1. ASSUME NEW f \in FstIndices, IsFile(s1.fst[f]), IsFile(s2.fst[f])
      PROVE  \A k \in Nat : ClusterAt(s2, f, k) = ClusterAt(s1, f, k)
  <2>1. s2.fst[f].sub = s1.fst[f].sub
    BY <1>1 DEF KeptFiles
  <2> QED  BY <1>1, <2>1, KeptLinks, SamePositions
<1>2. ASSUME NEW f \in FstIndices, IsFile(s2.fst[f]), NEW k \in Nat,
             ClusterAt(s2, f, k) # NIL
      PROVE  BlockAt(s2, nd, f, k).salt = Salt(s2, f, k)
  <2>1. CASE IsFile(s1.fst[f])
    <3>1. ClusterAt(s2, f, k) = ClusterAt(s1, f, k)
      BY <1>1, <1>2, <2>1
    <3>2. s1.fst[f].size # 0
      BY <1>2, <2>1, <3>1, EmptyHasNone
    <3>3. s2.fst[f].uid = s1.fst[f].uid /\ s2.fst[f].name = s1.fst[f].name
      BY <1>2, <2>1, <3>2 DEF KeptFiles
    <3>4. BlockAt(s1, nd, f, k).salt = Salt(s1, f, k)
      BY <1>2, <2>1, <3>1 DEF Salted
    <3> QED  BY <3>1, <3>3, <3>4 DEF BlockAt, Salt
  <2>2. CASE ~IsFile(s1.fst[f])
    <3>1. s2.fst[f].size = 0
      BY <1>2, <2>2 DEF KeptFiles
    <3> QED  BY <1>2, <3>1, EmptyHasNone
  <2> QED  BY <2>1, <2>2
<1> QED  BY <1>1, <1>2 DEF Salted

\* What a read of a cluster gave it gives again, as long as the file stays.
LEMMA ReadsTheSame ==
    ASSUME NEW s1 \in Superblock, NEW s2 \in Superblock, Sized(s1), Sized(s2),
           NEW nd, Salted(s1, nd), Salted(s2, nd), NEW f, NEW k \in Nat,
           ReadFileData(s1, nd, f, k).code = "Success", IsFile(s2.fst[f]),
           s2.fst[f].size = s1.fst[f].size,
           ClusterAt(s2, f, k) = ClusterAt(s1, f, k)
    PROVE  ReadFileData(s2, nd, f, k) = ReadFileData(s1, nd, f, k)
<1>1. /\ f \in FstIndices /\ IsFile(s1.fst[f])
      /\ k < RoundedUp(s1.fst[f].size)
  BY WhatWasRead
<1>2. k < RoundedUp(s2.fst[f].size)
  BY <1>1
<1>3. /\ ReadFileData(s1, nd, f, k) =
            [code |-> "Success", data |-> BlockAt(s1, nd, f, k).data]
      /\ ReadFileData(s2, nd, f, k) =
            [code |-> "Success", data |-> BlockAt(s2, nd, f, k).data]
  BY <1>1, <1>2, ReadsWhatIsThere
<1>4. BlockAt(s2, nd, f, k) = BlockAt(s1, nd, f, k)
  BY DEF BlockAt
<1> QED  BY <1>3, <1>4

LEMMA NamespaceData ==
    ASSUME IoInv, TreeInv, DataInv, IoInv', TreeSafeUses,
           "rename_written_file" \notin Uses, NamespaceCall
    PROVE  DataInv'
<1>1. /\ NamespaceEdit(superblock') /\ call' = Idle
      /\ UNCHANGED <<nand, handles, cache>>
  BY NamespaceSteps DEF IoInv, NamespaceStep
<1>2. KeptFiles(superblock, superblock')
  BY NamespaceFiles DEF IoInv, TreeInv, FatInv
<1>3. /\ superblock \in Superblock /\ superblock' \in Superblock
      /\ Sized(superblock) /\ Sized(superblock') /\ FatSound(superblock')
      /\ Salted(superblock, nand)
  BY DEF IoInv, TypeOK, SizedInv, FatInv, DataInv
<1> DEFINE sb == superblock'
<1>4. /\ Salted(sb, nand)
      /\ \A f \in FstIndices : IsFile(superblock.fst[f]) /\ IsFile(sb.fst[f]) =>
            \A k \in Nat : ClusterAt(sb, f, k) = ClusterAt(superblock, f, k)
  <2>1. \A c \in Clusters : sb.fat[c] \in {superblock.fat[c], CLUSTER_UNUSED}
    BY <1>1 DEF NamespaceEdit
  <2>2. KeptFiles(superblock, sb)
    BY <1>2
  <2>3. FatSound(sb) /\ Sized(sb)
    BY <1>3
  <2> HIDE DEF sb
  <2> QED  BY <1>3, <2>1, <2>2, <2>3, KeptFilesSalted
<1>5. CacheHolds(sb, nand, handles, cache)
  <2> SUFFICES ASSUME cache.handle # NoHandle
               PROVE  CacheHolds(sb, nand, handles, cache)
    BY DEF CacheHolds
  <2> DEFINE f == handles[cache.handle].fst_index
             k == cache.chain_index
  <2>1. f \in FstIndices /\ IsFile(superblock.fst[f]) /\ k \in Nat
    BY CacheOfFile DEF IoInv
  <2>2. IsFile(sb.fst[f])
    <3>1. FileOpen(cache.handle)
      BY DEF IoInv, HandlesInv
    <3> QED  BY <1>1, <3>1 DEF IoInv, OpenFilesAreFiles, FileOpen
  <2>3. sb.fst[f].size = superblock.fst[f].size
    <3>1. superblock.fst[f].type # "none"
      BY <2>1 DEF IsFile
    <3> QED  BY <1>1, <2>1, <3>1 DEF NamespaceEdit
  <2>4. CacheHolds(superblock, nand, handles, cache)
    BY DEF DataInv, CacheInv
  <2>5. ASSUME ~cache.for_write
        PROVE  ReadFileData(sb, nand, f, k) =
                  [code |-> "Success", data |-> cache.data]
    <3>1. ReadFileData(superblock, nand, f, k) =
             [code |-> "Success", data |-> cache.data]
      BY <2>4, <2>5 DEF CacheHolds
    <3>2. ReadFileData(superblock, nand, f, k).code = "Success"
      BY <3>1
    <3>3. ClusterAt(sb, f, k) = ClusterAt(superblock, f, k)
      BY <1>4, <2>1, <2>2
    <3>4. sb \in Superblock /\ Sized(sb)
      BY <1>3
    <3> HIDE DEF sb, f, k
    <3>5. ReadFileData(sb, nand, f, k) = ReadFileData(superblock, nand, f, k)
      BY <1>3, <1>4, <2>1, <2>2, <2>3, <3>2, <3>3, <3>4, ReadsTheSame
    <3> QED  BY <3>1, <3>5
  <2> HIDE DEF sb
  <2> QED  BY <2>3, <2>4, <2>5 DEF CacheHolds
<1>6. CacheInv'
  BY <1>1, <1>5 DEF CacheInv, CacheHolds
<1>7. Salted(superblock, nand)'
  BY <1>1, <1>4 DEF Salted, BlockAt
<1> QED  BY <1>1, <1>6, <1>7 DEF DataInv, RunningExtends, RunningUnfinished

\* A step that leaves the superblock, the NAND and what the cache refers to.
LEMMA KeptData ==
    ASSUME DataInv, UNCHANGED <<superblock, nand>>,
           \/ cache'.handle = NoHandle
           \/ /\ cache' = cache
              /\ cache.handle # NoHandle =>
                    LET new == handles'[cache.handle]
                        old == handles[cache.handle]
                    IN  /\ new.fst_index = old.fst_index
                        /\ new.file_size = old.file_size,
           call' = Idle
    PROVE  DataInv'
<1>1. Salted(superblock, nand)'
  BY DEF DataInv, Salted, BlockAt
<1>2. CacheInv'
  <2>1. CASE cache'.handle = NoHandle
    BY <2>1 DEF CacheInv, CacheHolds
  <2>2. CASE cache'.handle # NoHandle
    BY <2>2 DEF DataInv, CacheInv, CacheHolds
  <2> QED  BY <2>1, <2>2
<1> QED  BY <1>1, <1>2 DEF DataInv, RunningExtends, RunningUnfinished

LEMMA CloseData ==
    ASSUME IoInv, DataInv, NEW fd \in HandleIds, Close(fd)
    PROVE  DataInv'
<1>1. call' = Idle
  BY Zenon DEF Close, Returns
<1>2. CASE UNCHANGED <<superblock, nand, handles, cache>>
  BY <1>1, <1>2, KeptData
<1>3. CASE ~IsOpen(fd)
  <2>1. UNCHANGED <<superblock, nand, handles, cache>>
    BY <1>3, Zenon DEF Close
  <2> QED  BY <1>2, <2>1
<1>4. CASE IsOpen(fd) /\ cache.handle # fd
  <2>1. /\ superblock' = IoState.superblock /\ nand' = IoState.nand
        /\ IoState.code = "Success" =>
              /\ cache' = cache
              /\ handles' = [IoState.handles EXCEPT ![fd] = NewHandle]
    BY <1>4, Zenon DEF Close
  <2>2. /\ UNCHANGED <<superblock, nand, cache>>
        /\ handles' = [handles EXCEPT ![fd] = NewHandle]
    BY <2>1 DEF IoState
  <2>3. cache.handle # NoHandle => handles'[cache.handle] = handles[cache.handle]
    BY <1>4, <2>2, CacheOfFile DEF IoInv, TypeOK
  <2> QED  BY <1>1, <2>2, <2>3, KeptData
<1>5. CASE IsOpen(fd) /\ cache.handle = fd
  <2> DEFINE flush == FlushFileCache
  <2>1. /\ superblock' = flush.superblock /\ nand' = flush.nand
        /\ flush.code = "Success" =>
              cache' = [cache EXCEPT !.handle = NoHandle, !.data = <<>>]
        /\ flush.code # "Success" => UNCHANGED <<handles, cache>>
    BY <1>5, Zenon DEF Close
  <2>2. FlushWrites(flush) /\ Salted(flush.superblock, flush.nand)
    BY FlushEffect DEF IoInv, DataInv, FatInv, SizedInv
  <2> HIDE DEF flush
  <2>3. CASE flush.code = "Success"
    <3>1. cache'.handle = NoHandle
      BY <2>1, <2>3 DEF IoInv, TypeOK, Cache
    <3>2. Salted(superblock, nand)'
      BY <2>1, <2>2 DEF Salted, BlockAt
    <3> QED  BY <1>1, <3>1, <3>2
             DEF DataInv, CacheInv, CacheHolds, RunningExtends, RunningUnfinished
  <2>4. CASE flush.code # "Success"
    <3>1. UNCHANGED <<superblock, nand, handles, cache>>
      BY <2>1, <2>2, <2>4 DEF FlushWrites
    <3> QED  BY <1>2, <3>1
  <2> QED  BY <2>3, <2>4
<1> QED  BY <1>3, <1>4, <1>5

\* A call that starts has something to do, and a writer makes the file longer.
LEMMA BeginData ==
    ASSUME IoInv, DataInv, "overwrite" \notin Uses, NEW fd \in HandleIds,
           NEW count,
           \/ count \in ReadCounts /\ ReadFile(fd, count)
           \/ /\ count \in WriteCounts /\ PlainWrite(fd, count)
              /\ \E byte : WriteFile(fd, count, byte)
    PROVE  DataInv'
<1>1. UNCHANGED <<superblock, nand, handles, cache>>
  BY Zenon DEF ReadFile, WriteFile, Begin
<1>2. CASE call' = Idle
  BY <1>1, <1>2, KeptData
<1>3. CASE call' # Idle
  <2>1. Salted(superblock, nand)' /\ CacheInv'
    BY <1>1 DEF DataInv, Salted, BlockAt, CacheInv, CacheHolds
  <2>2. ASSUME NEW op, NEW access, NEW n \in Nat, NEW byte,
               Begin(op, fd, access, n, byte)
        PROVE  /\ HasFile(fd) /\ call'.op = op /\ call'.fd = fd
               /\ call'.count = n /\ call'.done = 0 /\ 0 < n
               /\ call'.count - call'.done = n
    <3>1. /\ HasFile(fd) /\ n # 0
          /\ call' = [op |-> op, fd |-> fd, count |-> n, done |-> 0,
                      byte |-> byte]
      BY <1>3, <2>2, Zenon DEF Begin, Returns
    <3> QED  BY <3>1
  <2>3. CASE count \in ReadCounts /\ ReadFile(fd, count)
    <3>1. ReadCount(fd, count) \in Nat
      <4>1. count \in U32
        BY <2>3, FileSystemAssumption DEF FileSystemAssumption
      <4> QED  BY <4>1, ReadCountType, WordsAreNumbers DEF IoInv
    <3>2. call'.op = "ReadFile" /\ call'.done < call'.count
      BY <2>2, <2>3, <3>1 DEF ReadFile
    <3> QED  BY <2>1, <3>2 DEF DataInv, RunningExtends, RunningUnfinished
  <2>4. ASSUME count \in WriteCounts, PlainWrite(fd, count), NEW byte,
               WriteFile(fd, count, byte)
        PROVE  DataInv'
    <3>1. count \in Nat
      BY <2>4, FileSystemAssumption, WordsAreNumbers DEF FileSystemAssumption
    <3>2. /\ HasFile(fd) /\ call'.fd = fd /\ call'.done < call'.count
          /\ call'.count - call'.done = count
      BY <2>2, <2>4, <3>1 DEF WriteFile
    <3>3. Extends(fd, count)
      BY <2>4, <3>2 DEF PlainWrite, Permitted
    <3>4. Extends(call.fd, call.count - call.done)'
      BY <1>1, <3>2, <3>3 DEF Extends, CacheHit
    <3> QED  BY <2>1, <3>2, <3>4 DEF DataInv, RunningExtends, RunningUnfinished
  <2> QED  BY <2>3, <2>4
<1> QED  BY <1>2, <1>3

LEMMA NextData ==
    ASSUME IoInv, TreeInv, DataInv, IoInv', HasNoNil(superblock),
           UnflushedHasOwner, TreeSafeUses, SizeSafeUses,
           "overwrite" \notin Uses, "rename_written_file" \notin Uses,
           "crash" \notin Uses, "unverified_mount" \notin Uses, [Next]_vars
    PROVE  DataInv'
<1>1. CASE NamespaceCall
  BY <1>1, NamespaceData
<1>2. CASE OpenCall
  <2>1. UNCHANGED <<superblock, cache>> /\ call' = Idle
    BY <1>2, OpenCallHandles DEF IoInv
  <2>2. nand' = nand
    BY <1>2, Zenon DEF OpenCall, OpenFs, OpenFile
  <2>3. cache.handle # NoHandle => handles'[cache.handle] = handles[cache.handle]
    <3>1. FreeHandles # {} => ~handles[Least(FreeHandles)].opened
      BY FreeHandleType
    <3>2. cache.handle # NoHandle =>
             handles[cache.handle].opened /\ cache.handle \in HandleIds
      BY HandleIdTypes DEF IoInv, HandlesInv, FileOpen
    <3> QED  BY <1>2, <3>1, <3>2, OpenCallAssigns DEF IoInv, TypeOK
  <2> QED  BY <2>1, <2>2, <2>3, KeptData
<1>3. CASE FileCall
  <2>1. ASSUME NEW fd \in HandleIds, NEW offset, NEW whence,
               SeekFile(fd, offset, whence)
        PROVE  DataInv'
    <3>1. UNCHANGED <<superblock, nand, cache>> /\ call' = Idle
      BY <2>1, Zenon DEF SeekFile, Returns
    <3>2. \/ handles' = handles
          \/ \E position :
                handles' = [handles EXCEPT ![fd].file_offset = position]
      BY <2>1, Zenon DEF SeekFile
    <3>3. \A k \in HandleIds : /\ handles'[k].fst_index = handles[k].fst_index
                               /\ handles'[k].file_size = handles[k].file_size
      BY <3>2 DEF IoInv, TypeOK, Handle
    <3>4. cache.handle # NoHandle => cache.handle \in HandleIds
      BY CacheOfFile DEF IoInv
    <3> QED  BY <3>1, <3>3, <3>4, KeptData
  <2>2. PICK fd \in HandleIds :
            \/ Close(fd)
            \/ \E offset \in SeekOffsets, whence \in {"Set", "Current", "End"} :
                   SeekFile(fd, offset, whence)
            \/ \E count \in ReadCounts : ReadFile(fd, count)
            \/ \E count \in WriteCounts, byte \in Bytes :
                   PlainWrite(fd, count) /\ WriteFile(fd, count, byte)
    BY <1>3, Zenon DEF FileCall
  <2>3. CASE Close(fd)
    BY <2>3, CloseData
  <2>4. CASE \E count \in ReadCounts : ReadFile(fd, count)
    BY <2>4, BeginData
  <2>5. CASE \E count \in WriteCounts, byte \in Bytes :
                 PlainWrite(fd, count) /\ WriteFile(fd, count, byte)
    BY <2>5, BeginData
  <2> QED  BY <2>1, <2>2, <2>3, <2>4, <2>5
<1>4. CASE FormatCall
  <2>1. /\ cache.handle = NoHandle /\ cache' = cache /\ nand' = nand
        /\ call' = Idle
        /\ superblock' \in {superblock, FormattedSuperblock}
    BY <1>4 DEF FormatCall, Format, Permitted, SizeSafeUses, Returns
  <2>2. CASE superblock' = superblock
    BY <2>1, <2>2, KeptData
  <2>3. CASE superblock' = FormattedSuperblock
    <3>1. Salted(FormattedSuperblock, nand)
      BY FormattedFields DEF Salted
    <3>2. Salted(superblock, nand)'
      BY <2>1, <2>3, <3>1 DEF Salted, BlockAt
    <3> QED  BY <2>1, <3>2
             DEF DataInv, CacheInv, CacheHolds, RunningExtends, RunningUnfinished
  <2> QED  BY <2>1, <2>2, <2>3
<1>5. CASE ReadFileStep \/ WriteFileStep
  <2>1. call # Idle
    BY <1>5, RunningCall
  <2>2. CASE ReadFileStep
    <3>1. Advance("ReadFile", FALSE)
      BY <2>2, Zenon DEF ReadFileStep
    <3> QED  BY <2>1, <3>1, AdvanceData
  <2>3. CASE WriteFileStep
    <3>1. Advance("WriteFile", TRUE)
      BY <2>3, Zenon DEF WriteFileStep
    <3> QED  BY <2>1, <3>1, AdvanceData
  <2> QED  BY <1>5, <2>2, <2>3
<1>6. CASE Remount
  <2>1. FreeHandles = Fds /\ cache'.handle = NoHandle /\ nand' = nand
        /\ call' = Idle /\ superblock' = Normalised(stored)
    BY <1>6 DEF Remount, Permitted, Returns, EmptyCache
  <2>2. superblock = Normalised(stored)
    BY <2>1 DEF UnflushedHasOwner, FreeHandles
  <2> QED  BY <2>1, <2>2, KeptData
<1>7. CASE UNCHANGED vars
  <2>1. UNCHANGED <<superblock, nand, handles, cache, call>>
    BY <1>7 DEF vars
  <2>2. Salted(superblock, nand)' /\ CacheInv'
    BY <2>1 DEF DataInv, Salted, BlockAt, CacheInv, CacheHolds
  <2> QED  BY <2>1, <2>2
           DEF DataInv, RunningExtends, RunningUnfinished, Extends, CacheHit
<1> QED  BY <1>1, <1>2, <1>3, <1>4, <1>5, <1>6, <1>7 DEF Next

LEMMA InitData == Init => DataInv
<1> SUFFICES ASSUME Init PROVE DataInv
  OBVIOUS
<1>1. stored.fst = FormattedSuperblock.fst
  <2>1. FormattedSuperblock \in Superblock
    BY FormattedSuperblockType
  <2> QED  BY <2>1, Zenon DEF Init, Superblock
<1>2. \A f \in FstIndices : ~IsFile(superblock.fst[f])
  <2>1. superblock.fst = stored.fst
    BY InitType DEF Init, Normalised, TypeOK, Superblock
  <2> QED  BY <1>1, <2>1, FormattedFields
<1> QED
  BY <1>2 DEF Init, DataInv, Salted, CacheInv, CacheHolds, EmptyCache,
              RunningExtends, RunningUnfinished

\* Excluded: a write that does not make the file longer in its last cluster, a new
\* name for a file with data, a crash, and a mount without normalisation.
DataSafeUses ==
    /\ TreeSafeUses /\ SizeSafeUses
    /\ "overwrite" \notin Uses /\ "rename_written_file" \notin Uses
    /\ "crash" \notin Uses /\ "unverified_mount" \notin Uses

DriverInv == /\ IoInv /\ TreeInv /\ HasNoNil(superblock)
             /\ UnflushedHasOwner /\ DataInv

LEMMA DriverInvariant == ASSUME DataSafeUses PROVE Spec => []DriverInv
<1>1. Init => DriverInv
  <2>1. Init => UnflushedHasOwner
    BY DEF Init, UnflushedHasOwner
  <2> QED  BY <2>1, InitType, InitOpenFiles, InitTree, InitFat, InitHandles,
              InitHasNoNil, InitSizes, InitSized, InitData DEF DriverInv, IoInv
<1>2. DriverInv /\ [Next]_vars => DriverInv'
  <2> SUFFICES ASSUME DriverInv, [Next]_vars PROVE DriverInv'
    OBVIOUS
  <2>1. /\ TreeSafeUses /\ SizeSafeUses /\ "format_with_cache" \notin Uses
        /\ "overwrite" \notin Uses /\ "rename_written_file" \notin Uses
        /\ "crash" \notin Uses /\ "unverified_mount" \notin Uses
    BY DEF DataSafeUses, SizeSafeUses
  <2>2. /\ TypeOK /\ OpenFilesAreFiles /\ TreeInv /\ FatInv /\ HandlesInv
        /\ SizesInv /\ SizedInv /\ PendingAtEnd /\ IoInv /\ DataInv
        /\ HasNoNil(superblock) /\ UnflushedHasOwner
    BY DEF DriverInv, IoInv
  <2>3. TypeOK' /\ OpenFilesAreFiles' /\ HandlesInv'
    BY <2>1, <2>2, NextType, NextOpenFiles, NextHandles
  <2>4. TreeInv' /\ FatInv'
    BY <2>1, <2>2, <2>3, NextTree, NextFat
  <2>5. SizesInv' /\ PendingAtEnd'
    BY <2>1, <2>2, <2>3, NextSizes, NextPending
  <2>6. SizedInv'
    BY <2>1, <2>2, <2>4, NextSized
  <2>7. IoInv'
    BY <2>3, <2>4, <2>5, <2>6 DEF IoInv
  <2>8. HasNoNil(superblock')
    BY <2>1, <2>2, NextHasNoNil
  <2>9. UnflushedHasOwner'
    BY <2>1, <2>2, <2>3, <2>8, NextHasOwner
  <2>10. DataInv'
    BY <2>1, <2>2, <2>7, NextData
  <2> QED  BY <2>4, <2>7, <2>8, <2>9, <2>10 DEF DriverInv
<1> QED  BY <1>1, <1>2, PTL DEF Spec

\* Without the uses that the data path does not survive, nothing that was written is
\* ever lost: every cluster of every file that can be reached passes the check of
\* ReadFileData, while it is written, after flushes that failed half way, after the
\* namespace calls and after a remount.
THEOREM FilesAlwaysVerify ==
    ASSUME DataSafeUses PROVE Spec => []FilesVerify
<1>1. DriverInv => FilesVerify
  <2> SUFFICES ASSUME DriverInv, NEW f \in LiveFiles(superblock),
                      NEW k \in 0..(RoundedUp(superblock.fst[f].size) - 1)
               PROVE  ReadFileData(superblock, nand, f, k).code = "Success"
    BY DEF FilesVerify, Verifies
  <2>1. /\ superblock \in Superblock /\ Sized(superblock)
        /\ Salted(superblock, nand)
    BY DEF DriverInv, IoInv, TypeOK, SizedInv, DataInv
  <2>2. f \in FstIndices /\ IsFile(superblock.fst[f])
    <3>1. Live(superblock) \subseteq FstIndices
      BY <2>1, ReachableInDomain, RootInTree DEF Live, Traversal
    <3> QED  BY <3>1 DEF LiveFiles
  <2> DEFINE n == RoundedUp(superblock.fst[f].size)
  <2>3. n \in Nat
    BY <2>1, <2>2, SizeIsNumber
  <2>4. k \in Nat /\ k < n
    <3>1. k \in 0..(n - 1)
      OBVIOUS
    <3> HIDE DEF n
    <3> QED  BY <2>3, <3>1
  <2> QED  BY <2>1, <2>2, <2>4, ReadsWhatIsThere
<1> QED  BY <1>1, DriverInvariant, PTL

\* The cache always belongs to an open file.  Clean data are what the NAND holds at
\* that position of the file; dirty data make the file longer and belong to its last
\* cluster, or to one more.
THEOREM CacheAlwaysCoherent ==
    ASSUME DataSafeUses PROVE Spec => []CacheCoherent
<1>1. DriverInv => CacheCoherent
  <2> SUFFICES ASSUME DriverInv, cache.handle # NoHandle PROVE CacheCoherent
    BY DEF CacheCoherent
  <2> DEFINE h == handles[cache.handle]
             f == h.fst_index
             old == superblock.fst[f].size
             n == RoundedUp(old)
  <2>1. /\ cache.handle \in HandleIds /\ f \in FstIndices
        /\ IsFile(superblock.fst[f]) /\ h.file_size \in Nat
    BY CacheOfFile, WordsAreNumbers DEF DriverInv, IoInv
  <2>2. HasFile(cache.handle)
    BY <2>1 DEF DriverInv, IoInv, HandlesInv, FileOpen, HasFile, IsOpen
  <2>3. /\ cache.data # <<>>
        /\ cache.for_write => h.file_size > old
        /\ ~cache.for_write =>
              ReadFileData(superblock, nand, f, cache.chain_index) =
                  [code |-> "Success", data |-> cache.data]
    BY DEF DriverInv, DataInv, CacheInv, CacheHolds
  <2>4. /\ old \in Nat /\ n \in Nat /\ Cardinality(ChainOf(superblock, f)) = n
    <3>1. superblock \in Superblock /\ FatSound(superblock) /\ Sized(superblock)
      BY DEF DriverInv, IoInv, TypeOK, FatInv, SizedInv
    <3>2. old \in Nat /\ n \in Nat /\ LengthIs(superblock, f, n)
      BY <2>1, <3>1, SizeIsNumber DEF Sized
    <3> HIDE DEF n, f
    <3>3. Cardinality(ChainOf(superblock, f)) = n
      BY <2>1, <3>1, <3>2, LengthIsCardinality
    <3> QED  BY <3>2, <3>3
  <2>5. cache.for_write => /\ RoundedUp(h.file_size) = cache.chain_index + 1
                           /\ cache.chain_index - n \in {-1, 0}
    BY <2>3 DEF DriverInv, IoInv, PendingAtEnd, PendingHolds, Dirty, AtEnd
  <2>6. cache.for_write => h.file_size >= old
    <3> HIDE DEF h, old
    <3> QED  BY <2>1, <2>3, <2>4
  <2>7. cache.for_write =>
           cache.chain_index - Cardinality(ChainOf(superblock, f)) \in {-1, 0}
    <3> HIDE DEF n
    <3> QED  BY <2>4, <2>5
  <2>8. ~cache.for_write =>
           cache.data = ReadFileData(superblock, nand, f, cache.chain_index).data
    BY <2>3
  <2> QED  BY <2>2, <2>3, <2>5, <2>6, <2>7, <2>8 DEF CacheCoherent
<1> QED  BY <1>1, DriverInvariant, PTL

\* WriteFileData never refuses what waits in the cache: a flush fails only because
\* no cluster is free, so a descriptor can always be closed once there is room.
THEOREM FlushAlwaysAccepted ==
    ASSUME DataSafeUses PROVE Spec => []FlushAccepted
<1>1. DriverInv => FlushAccepted
  BY FlushEffect
     DEF DriverInv, IoInv, FatInv, SizedInv, DataInv, FlushWrites, FlushAccepted
<1> QED  BY <1>1, DriverInvariant, PTL

\* Each round that is not the failure of the call copies a byte, whatever the rounds
\* and the failures before it left in the cache: a call takes at most as many rounds
\* as it was given bytes, and none works outside the data of the cache.
THEOREM RoundsAlwaysCopy ==
    ASSUME DataSafeUses PROVE Spec => []RoundsCopy
<1>1. DriverInv => RoundsCopy
  <2> SUFFICES ASSUME DriverInv, call # Idle, NextPopulated.code = "Success"
               PROVE  CopyLength(handles[call.fd].file_offset,
                                 NextPopulated.cache) > 0
    BY DEF RoundsCopy
  <2> DEFINE fd     == call.fd
             offset == handles[fd].file_offset
             write  == call.op = "WriteFile"
             pop    == NextPopulated
  <2>1. /\ IoInv /\ DataInv /\ TypeOK /\ write \in BOOLEAN
        /\ fd \in HandleIds /\ FileOpen(fd) /\ offset \in U32
        /\ write => Writable(fd)
    BY RunningCallFacts DEF DriverInv, IoInv
  <2>2. pop = PopulateFileCache(fd, offset, write)
    BY DEF NextPopulated
  <2> HIDE DEF write, pop
  <2>3. /\ PopulateOutcome(pop, fd, offset, write) /\ pop \in IoStates
        /\ PopulateReads(pop, fd, offset)
    <3> HIDE DEF fd, offset
    <3> QED  BY <2>1, <2>2, PopulateOutcomes, PopulateReading, PopulateFileCacheType
  <2>4. RoundPopulated(pop, write)
    <3>1. CASE CacheHit(fd, offset)
      BY <2>1, <2>3, <3>1, HitPopulates DEF write
    <3>2. CASE ~CacheHit(fd, offset)
      BY <2>1, <2>3, <3>2, MissPopulates DEF write
    <3> QED  BY <3>1, <3>2
  <2>5. /\ pop.cache.data \in ClusterData
        /\ pop.cache.chain_index = ChainIndexOf(offset)
    BY <2>4, Zenon DEF RoundPopulated, pop
  <2>6. CopyLength(offset, pop.cache) > 0
    BY <2>1, <2>5, RoundLength
  <2> QED  BY <2>6 DEF pop
<1> QED  BY <1>1, DriverInvariant, PTL

-----------------------------------------------------------------------------
(* What a reader sees.                                                     *)

\* The content of a file, of the variables given; and block by block.
ContentBy(sb, nd, hs, c, f) ==
    LET Block(k) == IF Dirty(c) /\ hs[c.handle].fst_index = f /\ c.chain_index = k
                    THEN c.data ELSE ReadFileData(sb, nd, f, k).data
        Held == {n \in 0..(SizeIn(sb, hs, c, f) - 1) :
                   1 + (n % CLUSTER_DATA_SIZE) \in
                       DOMAIN Block(n \div CLUSTER_DATA_SIZE)}
    IN  [n \in Held |->
            Block(n \div CLUSTER_DATA_SIZE)[1 + (n % CLUSTER_DATA_SIZE)]]

ContentOf(sb, nd, hs, c, f) ==
    [n \in 0..(SizeIn(sb, hs, c, f) - 1) |->
        DataIn(sb, nd, hs, c, f, n \div CLUSTER_DATA_SIZE)
            [1 + (n % CLUSTER_DATA_SIZE)]]

LEMMA ContentIsBy ==
    ASSUME NEW f
    PROVE  /\ Content(f) = ContentBy(superblock, nand, handles, cache, f)
           /\ Content(f)' = ContentBy(superblock', nand', handles', cache', f)
<1>1. Content(f) = ContentBy(superblock, nand, handles, cache, f)
  BY Zenon DEF Content, ContentBy, ContentSize, PendingFor, SizeIn
<1>2. Content(f)' = ContentBy(superblock', nand', handles', cache', f)
  BY Zenon DEF Content, ContentBy, ContentSize, PendingFor, SizeIn, ReadFileData,
               Dirty
<1> QED  BY <1>1, <1>2

\* What a content needs to be read off block by block.
Readable(sb, nd, hs, c) ==
    /\ sb \in Superblock /\ Sized(sb) /\ Salted(sb, nd) /\ nd \in NandType
    /\ PendingHolds(sb, hs, c) /\ CacheHolds(sb, nd, hs, c)
    /\ c.chain_index \in Nat
    /\ Dirty(c) => c.data \in ClusterData /\ hs[c.handle].file_size \in Nat

\* The block of a byte of the file is one of its blocks.
LEMMA ByteInBlock ==
    ASSUME NEW size \in Nat, NEW n \in 0..(size - 1)
    PROVE  LET k == n \div CLUSTER_DATA_SIZE
           IN  k \in Nat /\ k < RoundedUp(size)
<1> DEFINE k == n \div CLUSTER_DATA_SIZE
           r == n % CLUSTER_DATA_SIZE
           before == k * CLUSTER_DATA_SIZE
<1>1. n \in Nat /\ n < size
  OBVIOUS
<1>2. k \in Nat /\ before \in Nat /\ r \in Nat /\ n = before + r
  BY <1>1, Division
<1>3. before < size
  <2> HIDE DEF k, before, r
  <2> QED  BY <1>1, <1>2
<1> HIDE DEF k
<1> QED  BY <1>2, <1>3, BeforeEnd DEF k

\* Every block of the file is read, from the cache or from the NAND.
LEMMA ContentByBlocks ==
    ASSUME NEW sb, NEW nd, NEW hs, NEW c, Readable(sb, nd, hs, c),
           NEW f \in FstIndices, IsFile(sb.fst[f])
    PROVE  /\ ContentBy(sb, nd, hs, c, f) = ContentOf(sb, nd, hs, c, f)
           /\ SizeIn(sb, hs, c, f) \in Nat
<1> DEFINE size == SizeIn(sb, hs, c, f)
           old == sb.fst[f].size
           pending == Dirty(c) /\ hs[c.handle].fst_index = f
           Block(k) == IF Dirty(c) /\ hs[c.handle].fst_index = f
                          /\ c.chain_index = k
                       THEN c.data ELSE ReadFileData(sb, nd, f, k).data
<1>1. /\ old \in Nat /\ RoundedUp(old) \in Nat /\ size \in Nat
      /\ RoundedUp(size) \in Nat
  <2>1. old \in Nat /\ RoundedUp(old) \in Nat
    BY SizeIsNumber DEF Readable
  <2>2. size \in Nat
    BY <2>1 DEF SizeIn, Readable
  <2> HIDE DEF size
  <2> QED  BY <2>1, <2>2, RoundedUpNumber
<1>2. ASSUME NEW k \in Nat, k < RoundedUp(size)
      PROVE  /\ Block(k) = DataIn(sb, nd, hs, c, f, k)
             /\ Block(k) \in ClusterData
  <2>1. CASE pending /\ c.chain_index = k
    BY <2>1 DEF DataIn, Readable
  <2>2. CASE ~(pending /\ c.chain_index = k)
    <3>1. k < RoundedUp(old)
      <4>1. CASE pending
        <5>1. size = hs[c.handle].file_size /\ size > old
          BY <4>1 DEF SizeIn, Readable, CacheHolds, Dirty
        <5>2. AtEnd(c, size, old)
          BY <4>1, <5>1 DEF Readable, PendingHolds
        <5>3. /\ RoundedUp(size) = c.chain_index + 1
              /\ c.chain_index - RoundedUp(old) \in {-1, 0}
              /\ c.chain_index \in Nat /\ c.chain_index # k
          BY <2>2, <4>1, <5>2 DEF AtEnd, Readable
        <5> HIDE DEF size, old
        <5> QED  BY <1>1, <1>2, <5>3
      <4>2. CASE ~pending
        <5>1. size = old
          BY <4>2 DEF SizeIn
        <5> QED  BY <1>2, <5>1
      <4> QED  BY <4>1, <4>2
    <3>2. ReadFileData(sb, nd, f, k) =
             [code |-> "Success", data |-> BlockAt(sb, nd, f, k).data]
      BY <3>1, ReadsWhatIsThere DEF Readable
    <3>3. ClusterAt(sb, f, k) \in Clusters
      <4>1. LengthIs(sb, f, RoundedUp(old))
        BY DEF Sized, Readable
      <4> HIDE DEF old
      <4> QED  BY <3>1, <4>1, GetClusterForFileType DEF LengthIs, ClusterAt
    <3>4. BlockAt(sb, nd, f, k).data \in ClusterData
      BY <3>3 DEF Readable, BlockAt, NandType, NandCluster
    <3> QED  BY <2>2, <3>2, <3>4 DEF DataIn
  <2> QED  BY <2>1, <2>2
<1> DEFINE Held == {n \in 0..(size - 1) :
                      1 + (n % CLUSTER_DATA_SIZE) \in
                          DOMAIN Block(n \div CLUSTER_DATA_SIZE)}
<1>3. ASSUME NEW n \in 0..(size - 1)
      PROVE  /\ Block(n \div CLUSTER_DATA_SIZE) =
                   DataIn(sb, nd, hs, c, f, n \div CLUSTER_DATA_SIZE)
             /\ n \in Held
  <2> DEFINE q == n \div CLUSTER_DATA_SIZE
             r == n % CLUSTER_DATA_SIZE
  <2>1. n \in Nat
    <3> HIDE DEF size
    <3> QED  BY <1>1, <1>3
  <2>2. r \in Nat /\ r < CLUSTER_DATA_SIZE
    BY <2>1, Division
  <2>3. q \in Nat /\ q < RoundedUp(size)
    <3> HIDE DEF size
    <3> QED  BY <1>1, <1>3, ByteInBlock
  <2> HIDE DEF size, Block, q, r
  <2>4. Block(q) = DataIn(sb, nd, hs, c, f, q) /\ Block(q) \in ClusterData
    BY <1>2, <2>3
  <2>5. 1 + r \in DOMAIN Block(q)
    BY <2>2, <2>4, ClusterSize DEF ClusterData
  <2> QED  BY <1>3, <2>4, <2>5 DEF q, r
<1>4. ContentBy(sb, nd, hs, c, f) =
         [n \in Held |->
             Block(n \div CLUSTER_DATA_SIZE)[1 + (n % CLUSTER_DATA_SIZE)]]
  BY Zenon DEF ContentBy
<1>5. ContentOf(sb, nd, hs, c, f) =
         [n \in 0..(size - 1) |->
             DataIn(sb, nd, hs, c, f, n \div CLUSTER_DATA_SIZE)
                 [1 + (n % CLUSTER_DATA_SIZE)]]
  BY Zenon DEF ContentOf
<1> HIDE DEF size, Block
<1>6. Held = 0..(size - 1)
  BY <1>3
<1> HIDE DEF Held
<1>7. ContentBy(sb, nd, hs, c, f) = ContentOf(sb, nd, hs, c, f)
  BY <1>3, <1>4, <1>5, <1>6
<1> QED  BY <1>1, <1>7 DEF size

\* The same size and the same blocks are the same content.
LEMMA SameContent ==
    ASSUME NEW s1, NEW n1, NEW h1, NEW c1, NEW s2, NEW n2, NEW h2, NEW c2, NEW f,
           SizeIn(s1, h1, c1, f) \in Nat,
           SizeIn(s2, h2, c2, f) = SizeIn(s1, h1, c1, f),
           \A k \in Nat : k < RoundedUp(SizeIn(s1, h1, c1, f)) =>
               DataIn(s2, n2, h2, c2, f, k) = DataIn(s1, n1, h1, c1, f, k)
    PROVE  ContentOf(s2, n2, h2, c2, f) = ContentOf(s1, n1, h1, c1, f)
<1> DEFINE size == SizeIn(s1, h1, c1, f)
<1>1. ASSUME NEW n \in 0..(size - 1)
      PROVE  DataIn(s2, n2, h2, c2, f, n \div CLUSTER_DATA_SIZE) =
                DataIn(s1, n1, h1, c1, f, n \div CLUSTER_DATA_SIZE)
  <2>1. /\ n \div CLUSTER_DATA_SIZE \in Nat
        /\ n \div CLUSTER_DATA_SIZE < RoundedUp(size)
    <3>1. size \in Nat
      OBVIOUS
    <3> HIDE DEF size
    <3> QED  BY <3>1, <1>1, ByteInBlock
  <2> QED  BY <2>1
<1> QED  BY <1>1 DEF ContentOf

\* A flush moves what waits without changing what a reader sees.
LEMMA FlushedContent ==
    ASSUME IoInv, DataInv, FlushFileCache.code = "Success",
           NEW f \in FstIndices, IsFile(superblock.fst[f])
    PROVE  LET flush == FlushFileCache
               size  == SizeIn(superblock, handles, cache, f)
           IN  /\ IsFile(flush.superblock.fst[f])
               /\ flush.superblock.fst[f].size = size
               /\ \A k \in Nat : k < RoundedUp(size) =>
                     BlockAt(flush.superblock, flush.nand, f, k).data =
                         DataIn(superblock, nand, handles, cache, f, k)
<1> DEFINE flush == FlushFileCache
           size == SizeIn(superblock, handles, cache, f)
<1>1. /\ FlushWrites(flush) /\ FlushOutcome(flush) /\ Sized(flush.superblock)
  BY FlushEffect, FlushOutcomes, FlushKeepsSized
     DEF IoInv, DataInv, FatInv, SizedInv
<1>2. flush.code = "Success"
  OBVIOUS
<1> HIDE DEF flush
<1>3. flush.superblock.fst[f].size = size
  BY <1>1, <1>2, FlushedSizeIn
<1>4. IsFile(flush.superblock.fst[f])
  BY <1>1 DEF FlushWrites
<1>5. ASSUME NEW k \in Nat, k < RoundedUp(size)
      PROVE  BlockAt(flush.superblock, flush.nand, f, k).data =
                DataIn(superblock, nand, handles, cache, f, k)
  <2>1. ClusterAt(flush.superblock, f, k) # NIL
    <3> HIDE DEF size
    <3> QED  BY <1>1, <1>3, <1>4, <1>5 DEF Sized, LengthIs
  <2>2. CASE Dirty(cache)
    BY <1>1, <1>2, <2>1, <2>2 DEF FlushWrites
  <2>3. CASE ~Dirty(cache)
    <3>1. flush.superblock = superblock /\ flush.nand = nand
      BY <1>1, <1>2, <2>3 DEF FlushWrites
    <3> QED  BY <2>3, <3>1 DEF DataIn
  <2> QED  BY <2>2, <2>3
<1> QED  BY <1>3, <1>4, <1>5 DEF flush

\* PopulateFileCache changes no content, whatever it pushes out.
LEMMA PopulatedContent ==
    ASSUME IoInv, DataInv, call # Idle, NEW write \in BOOLEAN,
           write <=> call.op = "WriteFile", NEW pop, pop \in IoStates,
           PopulateOutcome(pop, call.fd, handles[call.fd].file_offset, write),
           PopulateReads(pop, call.fd, handles[call.fd].file_offset),
           RoundPopulated(pop, write), SameHandles(pop.handles),
           NEW f \in FstIndices, IsFile(superblock.fst[f])
    PROVE  LET size == SizeIn(superblock, handles, cache, f)
           IN  /\ SizeIn(pop.superblock, pop.handles, pop.cache, f) = size
               /\ \A k \in Nat : k < RoundedUp(size) =>
                     DataIn(pop.superblock, pop.nand, pop.handles, pop.cache, f, k)
                         = DataIn(superblock, nand, handles, cache, f, k)
<1> DEFINE flush == FlushFileCache
           fd == call.fd
           h  == handles[fd]
           offset == h.file_offset
           size == SizeIn(superblock, handles, cache, f)
           now(k) == DataIn(superblock, nand, handles, cache, f, k)
<1>1. CASE pop.code # "Success"
  <2>1. /\ pop.superblock = superblock /\ pop.nand = nand
        /\ pop.handles = handles /\ pop.cache = cache
    BY <1>1, Zenon DEF RoundPopulated
  <2> QED  BY <2>1
<1>2. CASE CacheHit(fd, offset)
  <2>1. /\ pop.superblock = superblock /\ pop.nand = nand
        /\ pop.handles = handles /\ pop.cache = cache
    BY <1>2, Zenon DEF PopulateOutcome, PopulateReads
  <2> QED  BY <2>1
<1>3. CASE pop.code = "Success" /\ ~CacheHit(fd, offset)
  <2>1. /\ pop.superblock = flush.superblock /\ pop.nand = flush.nand
        /\ flush.code = "Success"
        /\ pop.cache.handle = fd /\ pop.cache.chain_index = ChainIndexOf(offset)
        /\ pop.cache.for_write = write
    BY <1>3, Zenon DEF PopulateOutcome, PopulateReads
  <2>2. /\ flush.superblock.fst[f].size = size
        /\ \A k \in Nat : k < RoundedUp(size) =>
              BlockAt(flush.superblock, flush.nand, f, k).data = now(k)
    BY <2>1, FlushedContent
  <2>3. /\ fd \in HandleIds /\ FileOpen(fd) /\ (write => Writable(fd))
    BY RunningCallFacts
  <2>4. /\ pop.handles[fd].fst_index = h.fst_index
        /\ pop.handles[fd].file_size = h.file_size
    BY <2>3 DEF SameHandles
  <2> HIDE DEF flush, now
  <2>5. CASE Dirty(pop.cache) /\ h.fst_index = f
    <3>1. write
      BY <2>1, <2>5 DEF Dirty
    <3>2. h.file_size = size
      BY <2>3, <2>5, <3>1
         DEF IoInv, SizesInv, SizesHold, Bounded, OfFile, FileOpen, Writable
    <3>3. SizeIn(pop.superblock, pop.handles, pop.cache, f) = size
      BY <2>1, <2>4, <2>5, <3>2 DEF SizeIn
    <3>4. ASSUME NEW k \in Nat, k < RoundedUp(size)
          PROVE  DataIn(pop.superblock, pop.nand, pop.handles, pop.cache, f, k) =
                    now(k)
      <4>1. CASE k = ChainIndexOf(offset)
        <5>1. pop.cache.data = DataIn(superblock, nand, handles, cache,
                                      h.fst_index, ChainIndexOf(offset))
          <6>1. /\ ChainIndexOf(h.file_offset) < RoundedUp(SizeIn(superblock,
                                         handles, cache, h.fst_index))
            BY <2>5, <3>4, <4>1
          <6> QED  BY <1>3, <6>1, Zenon DEF RoundPopulated
        <5> QED  BY <2>1, <2>4, <2>5, <4>1, <5>1 DEF DataIn, now
      <4>2. CASE k # ChainIndexOf(offset)
        BY <2>1, <2>2, <3>4, <4>2 DEF DataIn
      <4> QED  BY <4>1, <4>2
    <3> QED  BY <3>3, <3>4 DEF now
  <2>6. CASE ~(Dirty(pop.cache) /\ h.fst_index = f)
    <3>1. SizeIn(pop.superblock, pop.handles, pop.cache, f) = size
      BY <2>1, <2>2, <2>4, <2>6 DEF SizeIn
    <3>2. ASSUME NEW k \in Nat, k < RoundedUp(size)
          PROVE  DataIn(pop.superblock, pop.nand, pop.handles, pop.cache, f, k) =
                    now(k)
      BY <2>1, <2>2, <2>4, <2>6, <3>2 DEF DataIn
    <3> QED  BY <3>1, <3>2 DEF now
  <2> QED  BY <2>5, <2>6
<1> QED  BY <1>1, <1>2, <1>3

LEMMA ReadableNow == DriverInv => Readable(superblock, nand, handles, cache)
<1> SUFFICES ASSUME DriverInv PROVE Readable(superblock, nand, handles, cache)
  OBVIOUS
<1>1. /\ superblock \in Superblock /\ Sized(superblock) /\ Salted(superblock, nand)
      /\ PendingHolds(superblock, handles, cache)
      /\ CacheHolds(superblock, nand, handles, cache)
  BY DEF DriverInv, IoInv, DataInv, TypeOK, SizedInv, PendingAtEnd, CacheInv
<1>2. cache.chain_index \in Nat
  BY DEF DriverInv, IoInv, TypeOK, Cache, U16
<1>3. Dirty(cache) => handles[cache.handle].file_size \in Nat
  BY CacheOfFile, WordsAreNumbers DEF DriverInv, IoInv, Dirty
<1>4. nand \in NandType /\ (Dirty(cache) => cache.data \in ClusterData)
  BY DEF DriverInv, IoInv, TypeOK, NandType, Cache, Dirty
<1> QED  BY <1>1, <1>2, <1>3, <1>4 DEF Readable

LEMMA ReadableNext ==
    DriverInv' => Readable(superblock', nand', handles', cache')
<1>1. DriverInv' => Readable(superblock, nand, handles, cache)'
  BY ReadableNow, PTL
<1> QED  BY <1>1

\* A step that keeps the size and the blocks of a file keeps its content.
LEMMA ContentKept ==
    ASSUME DriverInv, DriverInv', NEW f \in FstIndices,
           IsFile(superblock.fst[f]), IsFile(superblock'.fst[f]),
           SizeIn(superblock', handles', cache', f) =
               SizeIn(superblock, handles, cache, f),
           \A k \in Nat : k < RoundedUp(SizeIn(superblock, handles, cache, f)) =>
               DataIn(superblock', nand', handles', cache', f, k) =
                   DataIn(superblock, nand, handles, cache, f, k)
    PROVE  Content(f)' = Content(f)
<1>1. /\ Readable(superblock, nand, handles, cache)
      /\ Readable(superblock', nand', handles', cache')
  BY ReadableNow, ReadableNext
<1>2. /\ Content(f) = ContentBy(superblock, nand, handles, cache, f)
      /\ Content(f)' = ContentBy(superblock', nand', handles', cache', f)
  BY ContentIsBy
<1>3. /\ ContentBy(superblock, nand, handles, cache, f) =
             ContentOf(superblock, nand, handles, cache, f)
      /\ SizeIn(superblock, handles, cache, f) \in Nat
  BY <1>1, ContentByBlocks
<1>4. ContentBy(superblock', nand', handles', cache', f) =
         ContentOf(superblock', nand', handles', cache', f)
  BY <1>1, ContentByBlocks
<1>5. ContentOf(superblock', nand', handles', cache', f) =
         ContentOf(superblock, nand, handles, cache, f)
  BY <1>3, SameContent
<1> QED  BY <1>2, <1>3, <1>4, <1>5

\* A step that leaves what waits in the cache, the size and the blocks of a file.
LEMMA SameViews ==
    ASSUME NEW s1, NEW n1, NEW h1, NEW c1, NEW s2, NEW n2, NEW h2, NEW c2, NEW f,
           Dirty(c2) <=> Dirty(c1),
           Dirty(c1) => /\ c2 = c1
                        /\ h2[c1.handle].fst_index = h1[c1.handle].fst_index
                        /\ h2[c1.handle].file_size = h1[c1.handle].file_size,
           s2.fst[f].size = s1.fst[f].size,
           \A k \in Nat : BlockAt(s2, n2, f, k).data = BlockAt(s1, n1, f, k).data
    PROVE  /\ SizeIn(s2, h2, c2, f) = SizeIn(s1, h1, c1, f)
           /\ \A k \in Nat :
                 DataIn(s2, n2, h2, c2, f, k) = DataIn(s1, n1, h1, c1, f, k)
<1>1. CASE Dirty(c1)
  BY <1>1 DEF SizeIn, DataIn
<1>2. CASE ~Dirty(c1)
  BY <1>2 DEF SizeIn, DataIn
<1> QED  BY <1>1, <1>2

LEMMA KeptContent ==
    ASSUME DriverInv, DriverInv', NEW f \in FstIndices,
           IsFile(superblock.fst[f]), UNCHANGED <<superblock, nand>>,
           Dirty(cache') <=> Dirty(cache),
           Dirty(cache) =>
               /\ cache' = cache
               /\ handles'[cache.handle].fst_index = handles[cache.handle].fst_index
               /\ handles'[cache.handle].file_size = handles[cache.handle].file_size
    PROVE  Content(f)' = Content(f)
<1>1. IsFile(superblock'.fst[f]) /\ superblock'.fst[f].size = superblock.fst[f].size
  OBVIOUS
<1>2. \A k \in Nat : BlockAt(superblock', nand', f, k).data =
                        BlockAt(superblock, nand, f, k).data
  OBVIOUS
<1> DEFINE s2 == superblock'
           n2 == nand'
           h2 == handles'
           c2 == cache'
<1>3. /\ SizeIn(s2, h2, c2, f) = SizeIn(superblock, handles, cache, f)
      /\ \A k \in Nat : DataIn(s2, n2, h2, c2, f, k) =
                           DataIn(superblock, nand, handles, cache, f, k)
  <2>1. /\ Dirty(c2) <=> Dirty(cache)
        /\ Dirty(cache) =>
              /\ c2 = cache
              /\ h2[cache.handle].fst_index = handles[cache.handle].fst_index
              /\ h2[cache.handle].file_size = handles[cache.handle].file_size
        /\ s2.fst[f].size = superblock.fst[f].size
        /\ \A k \in Nat : BlockAt(s2, n2, f, k).data =
                             BlockAt(superblock, nand, f, k).data
    BY <1>1, <1>2
  <2> HIDE DEF s2, n2, h2, c2
  <2> QED  BY <2>1, SameViews
<1> QED  BY <1>1, <1>3, ContentKept

LEMMA NamespaceContent ==
    ASSUME DriverInv, DriverInv', TreeSafeUses, "rename_written_file" \notin Uses,
           NamespaceCall, NEW f \in FstIndices, IsFile(superblock.fst[f]),
           IsFile(superblock'.fst[f])
    PROVE  Content(f)' = Content(f)
<1>1. /\ NamespaceEdit(superblock') /\ UNCHANGED <<nand, handles, cache>>
  BY NamespaceSteps DEF DriverInv, IoInv, NamespaceStep
<1>2. KeptFiles(superblock, superblock')
  BY NamespaceFiles DEF DriverInv, IoInv, TreeInv, FatInv
<1>3. /\ Sized(superblock) /\ Sized(superblock') /\ FatSound(superblock')
      /\ Salted(superblock, nand)
  BY DEF DriverInv, IoInv, TypeOK, SizedInv, FatInv, DataInv
<1> DEFINE sb == superblock'
<1>4. \A k \in Nat : ClusterAt(sb, f, k) = ClusterAt(superblock, f, k)
  <2>1. \A c \in Clusters : sb.fat[c] \in {superblock.fat[c], CLUSTER_UNUSED}
    BY <1>1 DEF NamespaceEdit
  <2>2. KeptFiles(superblock, sb) /\ IsFile(sb.fst[f])
    BY <1>2
  <2>3. FatSound(sb) /\ Sized(sb)
    BY <1>3
  <2> HIDE DEF sb
  <2> QED  BY <1>3, <2>1, <2>2, <2>3, KeptFilesSalted
<1>5. sb.fst[f].size = superblock.fst[f].size
  <2>1. superblock.fst[f].type # "none"
    BY DEF IsFile
  <2> QED  BY <1>1, <2>1 DEF NamespaceEdit
<1> DEFINE n2 == nand'
           h2 == handles'
           c2 == cache'
<1>6. /\ SizeIn(sb, h2, c2, f) = SizeIn(superblock, handles, cache, f)
      /\ \A k \in Nat : DataIn(sb, n2, h2, c2, f, k) =
                           DataIn(superblock, nand, handles, cache, f, k)
  <2>1. n2 = nand /\ h2 = handles /\ c2 = cache
    BY <1>1
  <2> HIDE DEF sb, n2, h2, c2
  <2>2. \A k \in Nat : BlockAt(sb, n2, f, k).data =
                          BlockAt(superblock, nand, f, k).data
    BY <1>4, <2>1 DEF BlockAt
  <2> QED  BY <1>5, <2>1, <2>2, SameViews
<1> QED  BY <1>6, ContentKept

LEMMA CloseContent ==
    ASSUME DriverInv, DriverInv', NEW fd \in HandleIds, Close(fd),
           NEW f \in FstIndices, IsFile(superblock.fst[f]),
           IsFile(superblock'.fst[f])
    PROVE  Content(f)' = Content(f)
<1>1. CASE UNCHANGED <<superblock, nand, handles, cache>>
  BY <1>1, KeptContent
<1>2. CASE ~IsOpen(fd)
  <2>1. UNCHANGED <<superblock, nand, handles, cache>>
    BY <1>2, Zenon DEF Close
  <2> QED  BY <1>1, <2>1
<1>3. CASE IsOpen(fd) /\ cache.handle # fd
  <2>1. /\ superblock' = IoState.superblock /\ nand' = IoState.nand
        /\ IoState.code = "Success" =>
              /\ cache' = cache
              /\ handles' = [IoState.handles EXCEPT ![fd] = NewHandle]
    BY <1>3, Zenon DEF Close
  <2>2. /\ UNCHANGED <<superblock, nand, cache>>
        /\ handles' = [handles EXCEPT ![fd] = NewHandle]
    BY <2>1 DEF IoState
  <2>3. Dirty(cache) => handles'[cache.handle] = handles[cache.handle]
    BY <1>3, <2>2, CacheOfFile DEF DriverInv, IoInv, TypeOK, Dirty
  <2> QED  BY <2>2, <2>3, KeptContent
<1>4. CASE IsOpen(fd) /\ cache.handle = fd
  <2> DEFINE flush == FlushFileCache
             size == SizeIn(superblock, handles, cache, f)
  <2>1. /\ superblock' = flush.superblock /\ nand' = flush.nand
        /\ flush.code = "Success" =>
              cache' = [cache EXCEPT !.handle = NoHandle, !.data = <<>>]
        /\ flush.code # "Success" => UNCHANGED <<handles, cache>>
    BY <1>4, Zenon DEF Close
  <2>2. CASE flush.code = "Success"
    <3>1. /\ flush.superblock.fst[f].size = size
          /\ \A k \in Nat : k < RoundedUp(size) =>
                BlockAt(flush.superblock, flush.nand, f, k).data =
                    DataIn(superblock, nand, handles, cache, f, k)
      BY <2>2, FlushedContent DEF DriverInv
    <3>2. ~Dirty(cache')
      BY <2>1, <2>2 DEF DriverInv, IoInv, TypeOK, Cache, Dirty
    <3> HIDE DEF flush, size
    <3>3. SizeIn(superblock', handles', cache', f) = size
      BY <2>1, <3>1, <3>2 DEF SizeIn
    <3>4. ASSUME NEW k \in Nat, k < RoundedUp(size)
          PROVE  DataIn(superblock', nand', handles', cache', f, k) =
                    DataIn(superblock, nand, handles, cache, f, k)
      BY <2>1, <3>1, <3>2, <3>4 DEF DataIn
    <3> QED  BY <3>3, <3>4, ContentKept DEF size
  <2>3. CASE flush.code # "Success"
    <3>1. FlushWrites(flush)
      BY FlushEffect DEF DriverInv, IoInv, DataInv, FatInv, SizedInv
    <3> HIDE DEF flush
    <3>2. UNCHANGED <<superblock, nand, handles, cache>>
      BY <2>1, <2>3, <3>1 DEF FlushWrites
    <3> QED  BY <1>1, <3>2
  <2> QED  BY <2>2, <2>3
<1> QED  BY <1>2, <1>3, <1>4

\* A byte is in cluster k of its file exactly if it is between its bounds.
LEMMA InCluster ==
    ASSUME NEW n \in Nat, NEW k \in Nat
    PROVE  LET before == k * CLUSTER_DATA_SIZE
           IN  /\ before \in Nat
               /\ n \div CLUSTER_DATA_SIZE = k <=>
                     before <= n /\ n < before + CLUSTER_DATA_SIZE
               /\ n \div CLUSTER_DATA_SIZE = k =>
                     n % CLUSTER_DATA_SIZE = n - before
<1> DEFINE q == n \div CLUSTER_DATA_SIZE
           r == n % CLUSTER_DATA_SIZE
           start == q * CLUSTER_DATA_SIZE
           before == k * CLUSTER_DATA_SIZE
<1>1. /\ q \in Nat /\ r \in Nat /\ r < CLUSTER_DATA_SIZE /\ start \in Nat
      /\ n = start + r /\ CLUSTER_DATA_SIZE \in Nat
  BY Division, ClusterSize
<1>2. before \in Nat
  BY ClusterSize
<1>3. /\ q < k => start + CLUSTER_DATA_SIZE <= before
      /\ k < q => before + CLUSTER_DATA_SIZE <= start
      /\ q = k => start = before
  <2> HIDE DEF q
  <2>1. q < k => start + CLUSTER_DATA_SIZE <= before
    BY <1>1, Multiples
  <2>2. k < q => before + CLUSTER_DATA_SIZE <= start
    BY <1>1, Multiples
  <2> QED  BY <2>1, <2>2
<1>4. /\ q = k <=> before <= n /\ n < before + CLUSTER_DATA_SIZE
      /\ q = k => r = n - before
  <2> HIDE DEF q, r, start, before
  <2> QED  BY <1>1, <1>2, <1>3
<1> QED  BY <1>2, <1>4

\* The bytes of a cluster after a round of a write.
LEMMA CopiedByte ==
    ASSUME NEW pop, pop.cache.data \in ClusterData, NEW k \in Nat,
           pop.cache.chain_index = k, NEW from \in Nat,
           from = handles[call.fd].file_offset, NEW length \in Nat,
           NEW n \in Nat, n \div CLUSTER_DATA_SIZE = k
    PROVE  LET r == 1 + (n % CLUSTER_DATA_SIZE)
           IN  CopiedData(pop, length)[r] =
                  IF n \in from..(from + length - 1) THEN call.byte
                                                     ELSE pop.cache.data[r]
<1> DEFINE r == 1 + (n % CLUSTER_DATA_SIZE)
           before == k * CLUSTER_DATA_SIZE
           start == CopyStart(from, pop.cache)
<1>1. /\ before \in Nat /\ n % CLUSTER_DATA_SIZE = n - before
      /\ before <= n /\ n < before + CLUSTER_DATA_SIZE
  BY InCluster
<1>2. r = 1 + n - before /\ r \in 1..CLUSTER_DATA_SIZE
  <2> HIDE DEF before
  <2> QED  BY <1>1, ClusterSize
<1>3. start = from - before
  BY Zenon DEF CopyStart
<1>4. (start < r /\ r <= start + length) <=> n \in from..(from + length - 1)
  <2> HIDE DEF start, r, before
  <2> QED  BY <1>1, <1>2, <1>3
<1>5. r \in DOMAIN pop.cache.data
  BY <1>2 DEF ClusterData
<1>6. CopiedData(pop, length) =
         [l \in DOMAIN pop.cache.data |->
             IF start < l /\ l <= start + length THEN call.byte
                                                 ELSE pop.cache.data[l]]
  BY Zenon DEF CopiedData
<1> HIDE DEF start, r
<1>7. CopiedData(pop, length)[r] =
         IF start < r /\ r <= start + length THEN call.byte ELSE pop.cache.data[r]
  BY <1>5, <1>6
<1> QED  BY <1>4, <1>7 DEF r

\* What a round has of the content of each file after PopulateFileCache.
LEMMA RoundContent ==
    ASSUME DriverInv, call # Idle, NEW write \in BOOLEAN,
           write <=> call.op = "WriteFile", NEW pop, Round(pop, write),
           NEW f \in FstIndices, IsFile(superblock.fst[f])
    PROVE  LET size == SizeIn(superblock, handles, cache, f)
           IN  /\ SizeIn(pop.superblock, pop.handles, pop.cache, f) = size
               /\ \A k \in Nat : k < RoundedUp(size) =>
                     DataIn(pop.superblock, pop.nand, pop.handles, pop.cache, f, k)
                         = DataIn(superblock, nand, handles, cache, f, k)
<1>1. /\ pop \in IoStates /\ RoundPopulated(pop, write)
      /\ PopulateOutcome(pop, call.fd, handles[call.fd].file_offset, write)
      /\ PopulateReads(pop, call.fd, handles[call.fd].file_offset)
      /\ SameHandles(pop.handles)
  BY Zenon DEF Round
<1> QED  BY <1>1, PopulatedContent DEF DriverInv

\* Views that refer to the same entries with the same sizes are the same.
LEMMA SameReferences ==
    ASSUME NEW sb, NEW nd, NEW h1, NEW h2, NEW c, NEW f,
           Dirty(c) => /\ h2[c.handle].fst_index = h1[c.handle].fst_index
                       /\ h2[c.handle].file_size = h1[c.handle].file_size
    PROVE  /\ SizeIn(sb, h2, c, f) = SizeIn(sb, h1, c, f)
           /\ \A k \in Nat :
                 DataIn(sb, nd, h2, c, f, k) = DataIn(sb, nd, h1, c, f, k)
BY DEF SizeIn, DataIn

LEMMA ReadRoundContent ==
    ASSUME DriverInv, DriverInv', call # Idle, call.op = "ReadFile",
           NEW pop, Round(pop, FALSE), NEW length \in Nat,
           Advanced(pop, FALSE, length), NEW f \in FstIndices,
           IsFile(superblock.fst[f]), IsFile(superblock'.fst[f])
    PROVE  Content(f)' = Content(f)
<1> DEFINE size == SizeIn(superblock, handles, cache, f)
           s2 == superblock'
           n2 == nand'
           h2 == handles'
           c2 == cache'
<1>1. /\ s2 = pop.superblock /\ n2 = pop.nand
      /\ SameHandles(pop.handles) /\ pop.cache.handle = call.fd
      /\ call.fd \in HandleIds
  <2>1. pop.code = "Success"
    BY Zenon DEF Advanced
  <2> QED  BY <2>1, RunningCallFacts, Zenon DEF Round, RoundPopulated, DriverInv
<1>2. /\ c2 = pop.cache
      /\ \A k \in HandleIds : /\ h2[k].fst_index = pop.handles[k].fst_index
                              /\ h2[k].file_size = pop.handles[k].file_size
  <2>1. /\ c2 = pop.cache
        /\ \A k \in HandleIds :
              /\ h2[k].fst_index = pop.handles[k].fst_index
              /\ h2[k].file_size =
                    IF k = call.fd /\ FALSE
                    THEN IF handles[call.fd].file_size <
                                (handles[call.fd].file_offset + length) % WordSize
                         THEN (handles[call.fd].file_offset + length) % WordSize
                         ELSE handles[call.fd].file_size
                    ELSE pop.handles[k].file_size
    BY Zenon DEF Advanced
  <2> QED  BY <2>1
<1>3. /\ SizeIn(pop.superblock, pop.handles, pop.cache, f) = size
      /\ \A k \in Nat : k < RoundedUp(size) =>
            DataIn(pop.superblock, pop.nand, pop.handles, pop.cache, f, k) =
                DataIn(superblock, nand, handles, cache, f, k)
  <2>1. FALSE \in BOOLEAN /\ (FALSE <=> call.op = "WriteFile")
    OBVIOUS
  <2> QED  BY <2>1, RoundContent
<1>4. /\ SizeIn(s2, h2, c2, f) = size
      /\ \A k \in Nat : k < RoundedUp(size) =>
            DataIn(s2, n2, h2, c2, f, k) =
                DataIn(superblock, nand, handles, cache, f, k)
  <2> HIDE DEF size, s2, n2, h2, c2
  <2>1. /\ SizeIn(s2, h2, c2, f) = SizeIn(s2, pop.handles, c2, f)
        /\ \A k \in Nat : DataIn(s2, n2, h2, c2, f, k) =
                             DataIn(s2, n2, pop.handles, c2, f, k)
    BY <1>1, <1>2, SameReferences
  <2> QED  BY <1>1, <1>2, <1>3, <2>1
<1> QED  BY <1>4, ContentKept

\* Where a round of a write leaves the cluster that it works on.
LEMMA WriteRoundView ==
    ASSUME DriverInv, call # Idle, call.op = "WriteFile",
           NEW pop, Round(pop, TRUE), NEW length \in Nat,
           Advanced(pop, TRUE, length), NEW f \in FstIndices,
           IsFile(superblock.fst[f])
    PROVE  LET h    == handles[call.fd]
               from == h.file_offset
               to   == from + length
               k    == ChainIndexOf(from)
               size == SizeIn(superblock, handles, cache, f)
               now(l) == DataIn(superblock, nand, handles, cache, f, l)
               new(l) == DataIn(superblock', nand', handles', cache', f, l)
           IN  IF h.fst_index = f
               THEN /\ from \in Nat /\ k \in Nat /\ from <= size
                    /\ SizeIn(superblock', handles', cache', f) =
                          IF size < to THEN to ELSE size
                    /\ new(k) = CopiedData(pop, length)
                    /\ pop.cache.data \in ClusterData
                    /\ k < RoundedUp(size) => pop.cache.data = now(k)
                    /\ \A l \in Nat : l < RoundedUp(size) /\ l # k =>
                          new(l) = now(l)
               ELSE /\ SizeIn(superblock', handles', cache', f) = size
                    /\ \A l \in Nat : l < RoundedUp(size) => new(l) = now(l)
<1> DEFINE fd   == call.fd
           h    == handles[fd]
           from == h.file_offset
           last == h.file_size
           to   == from + length
           k    == ChainIndexOf(from)
           size == SizeIn(superblock, handles, cache, f)
           now(l) == DataIn(superblock, nand, handles, cache, f, l)
           s2 == superblock'
           n2 == nand'
           h2 == handles'
           c2 == cache'
<1>1. /\ s2 = pop.superblock /\ n2 = pop.nand /\ SameHandles(pop.handles)
      /\ RoundPopulated(pop, TRUE) /\ pop.code = "Success"
  <2>1. pop.code = "Success"
    BY Zenon DEF Advanced
  <2> QED  BY <2>1, Zenon DEF Round
<1>2. /\ fd \in HandleIds /\ FileOpen(fd) /\ from \in Nat /\ last \in Nat
      /\ from <= last /\ k \in Nat
      /\ h2[fd].fst_index = h.fst_index
      /\ h2[fd].file_size = IF last < to THEN to ELSE last
      /\ pop.cache.handle = fd /\ pop.cache.chain_index = k
      /\ pop.cache.data \in ClusterData /\ pop.cache.data # <<>>
      /\ pop.cache.for_write
      /\ c2.handle = fd /\ c2.chain_index = k
      /\ c2.for_write /\ c2.data # <<>> /\ c2.data = CopiedData(pop, length)
  <2>1. IoInv /\ DataInv
    BY DEF DriverInv
  <2> QED  BY <1>1, <2>1, WriteAdvance
<1>3. /\ pop.handles[fd].fst_index = h.fst_index
      /\ pop.handles[fd].file_size = last
  BY <1>1, <1>2 DEF SameHandles
<1>4. fd \in Fds /\ Writable(fd)
  BY RunningCallFacts DEF DriverInv
<1>5. /\ SizeIn(pop.superblock, pop.handles, pop.cache, f) = size
      /\ \A l \in Nat : l < RoundedUp(size) =>
            DataIn(pop.superblock, pop.nand, pop.handles, pop.cache, f, l) = now(l)
  <2>1. TRUE \in BOOLEAN /\ (TRUE <=> call.op = "WriteFile")
    OBVIOUS
  <2> QED  BY <2>1, RoundContent
<1>6. Dirty(pop.cache) /\ Dirty(c2)
  BY <1>2, <1>4, HandleIdTypes DEF Dirty
<1> HIDE DEF fd, now, size, s2, n2, h2, c2
<1>7. CASE h.fst_index = f
  <2>1. last = size
    BY <1>2, <1>3, <1>5, <1>6, <1>7 DEF SizeIn
  <2>2. SizeIn(s2, h2, c2, f) = IF size < to THEN to ELSE size
    BY <1>2, <1>6, <1>7, <2>1 DEF SizeIn
  <2>3. DataIn(s2, n2, h2, c2, f, k) = CopiedData(pop, length)
    BY <1>2, <1>6, <1>7 DEF DataIn
  <2>4. k < RoundedUp(size) => pop.cache.data = now(k)
    <3>1. DataIn(pop.superblock, pop.nand, pop.handles, pop.cache, f, k)
             = pop.cache.data
      BY <1>2, <1>3, <1>6, <1>7 DEF DataIn
    <3> QED  BY <1>2, <1>5, <3>1
  <2>5. ASSUME NEW l \in Nat, l < RoundedUp(size), l # k
        PROVE  DataIn(s2, n2, h2, c2, f, l) = now(l)
    <3>1. DataIn(s2, n2, h2, c2, f, l) =
             DataIn(pop.superblock, pop.nand, pop.handles, pop.cache, f, l)
      BY <1>1, <1>2, <2>5 DEF DataIn
    <3> QED  BY <1>5, <2>5, <3>1
  <2> QED  BY <1>2, <1>7, <2>1, <2>2, <2>3, <2>4, <2>5
           DEF fd, size, now, s2, n2, h2, c2
<1>8. CASE h.fst_index # f
  <2>1. SizeIn(s2, h2, c2, f) = size
    BY <1>1, <1>2, <1>3, <1>5, <1>8 DEF SizeIn
  <2>2. ASSUME NEW l \in Nat, l < RoundedUp(size)
        PROVE  DataIn(s2, n2, h2, c2, f, l) = now(l)
    <3>1. DataIn(s2, n2, h2, c2, f, l) =
             DataIn(pop.superblock, pop.nand, pop.handles, pop.cache, f, l)
      BY <1>1, <1>2, <1>3, <1>8 DEF DataIn
    <3> QED  BY <1>5, <2>2, <3>1
  <2> QED  BY <1>8, <2>1, <2>2 DEF fd, size, now, s2, n2, h2, c2
<1> QED  BY <1>7, <1>8

LEMMA WriteRoundContent ==
    ASSUME DriverInv, DriverInv', call # Idle, call.op = "WriteFile",
           NEW pop, Round(pop, TRUE), NEW length \in Nat,
           Advanced(pop, TRUE, length), NEW f \in FstIndices,
           IsFile(superblock.fst[f]), IsFile(superblock'.fst[f])
    PROVE  IF handles[call.fd].fst_index = f
           THEN Content(f)' = WrittenContent(f, handles[call.fd].file_offset,
                                             handles'[call.fd].file_offset)
           ELSE Content(f)' = Content(f)
<1> DEFINE h    == handles[call.fd]
           from == h.file_offset
           to   == from + length
           k    == ChainIndexOf(from)
           size == SizeIn(superblock, handles, cache, f)
           grown == IF size < to THEN to ELSE size
           now(l) == DataIn(superblock, nand, handles, cache, f, l)
           new(l) == DataIn(superblock', nand', handles', cache', f, l)
           old  == Content(f)
<1>1. CASE h.fst_index # f
  <2>1. /\ SizeIn(superblock', handles', cache', f) = size
        /\ \A l \in Nat : l < RoundedUp(size) => new(l) = now(l)
    BY <1>1, WriteRoundView
  <2> QED  BY <1>1, <2>1, ContentKept
<1>2. CASE h.fst_index = f
  <2>1. /\ from \in Nat /\ k \in Nat /\ from <= size
        /\ SizeIn(superblock', handles', cache', f) = grown
        /\ new(k) = CopiedData(pop, length)
        /\ pop.cache.data \in ClusterData
        /\ k < RoundedUp(size) => pop.cache.data = now(k)
        /\ \A l \in Nat : l < RoundedUp(size) /\ l # k => new(l) = now(l)
    BY <1>2, WriteRoundView
  <2>2. /\ handles'[call.fd].file_offset = to /\ length > 0
        /\ pop.cache.chain_index = k
        /\ k * CLUSTER_DATA_SIZE \in Nat /\ k * CLUSTER_DATA_SIZE <= from
        /\ to <= k * CLUSTER_DATA_SIZE + CLUSTER_DATA_SIZE
    <3>1. RoundPopulated(pop, TRUE) /\ SameHandles(pop.handles)
      BY Zenon DEF Round
    <3> QED  BY <3>1, WriteAdvance DEF DriverInv
  <2>3. /\ size \in Nat /\ to \in Nat /\ grown \in Nat
        /\ old = [n \in 0..(size - 1) |->
                    now(n \div CLUSTER_DATA_SIZE)[1 + (n % CLUSTER_DATA_SIZE)]]
    <3>1. Readable(superblock, nand, handles, cache)
      BY ReadableNow
    <3>2. /\ size \in Nat
          /\ old = ContentOf(superblock, nand, handles, cache, f)
      BY <3>1, ContentIsBy, ContentByBlocks
    <3>3. ContentOf(superblock, nand, handles, cache, f) =
             [n \in 0..(size - 1) |->
                 now(n \div CLUSTER_DATA_SIZE)[1 + (n % CLUSTER_DATA_SIZE)]]
      BY Zenon DEF ContentOf
    <3>4. to \in Nat /\ (size \in Nat => grown \in Nat)
      <4> HIDE DEF from, size
      <4> QED  BY <2>1
    <3> QED  BY <3>2, <3>3, <3>4
  <2>4. Content(f)' = [n \in 0..(grown - 1) |->
            new(n \div CLUSTER_DATA_SIZE)[1 + (n % CLUSTER_DATA_SIZE)]]
    <3>1. Readable(superblock', nand', handles', cache')
      BY ReadableNext
    <3>2. Content(f)' = ContentOf(superblock', nand', handles', cache', f)
      BY <3>1, ContentIsBy, ContentByBlocks
    <3>3. ContentOf(superblock', nand', handles', cache', f) =
             [n \in 0..(SizeIn(superblock', handles', cache', f) - 1) |->
                 new(n \div CLUSTER_DATA_SIZE)[1 + (n % CLUSTER_DATA_SIZE)]]
      BY Zenon DEF ContentOf
    <3> HIDE DEF new, grown
    <3> QED  BY <2>1, <3>2, <3>3
  <2>5. WrittenContent(f, from, to) =
           [n \in DOMAIN old \cup (from..(to - 1)) |->
               IF n \in from..(to - 1) THEN call.byte ELSE old[n]]
    BY Zenon DEF WrittenContent
  <2>6. DOMAIN old \cup (from..(to - 1)) = 0..(grown - 1)
    <3>1. DOMAIN old = 0..(size - 1)
      BY <2>3
    <3>2. from \in Nat /\ to \in Nat /\ size \in Nat /\ from <= size
      BY <2>1, <2>3
    <3> HIDE DEF from, to, size, old
    <3> QED  BY <3>1, <3>2
  <2>7. ASSUME NEW n \in 0..(grown - 1)
        PROVE  new(n \div CLUSTER_DATA_SIZE)[1 + (n % CLUSTER_DATA_SIZE)] =
                  IF n \in from..(to - 1) THEN call.byte ELSE old[n]
    <3> DEFINE q == n \div CLUSTER_DATA_SIZE
               r == 1 + (n % CLUSTER_DATA_SIZE)
    <3>1. n \in Nat /\ q \in Nat
      <4>1. grown \in Nat
        BY <2>3
      <4>2. n \in Nat
        <5> HIDE DEF grown
        <5> QED  BY <4>1
      <4> QED  BY <4>2, Division
    <3>2. n \notin from..(to - 1) => /\ q < RoundedUp(size)
                                     /\ old[n] = now(q)[r]
      <4> SUFFICES ASSUME n \notin from..(to - 1)
                   PROVE  q < RoundedUp(size) /\ old[n] = now(q)[r]
        OBVIOUS
      <4>1. n \in 0..(size - 1)
        <5>1. /\ from \in Nat /\ to \in Nat /\ size \in Nat /\ from <= size
              /\ n \notin from..(to - 1) /\ n \in 0..(grown - 1)
          BY <2>1, <2>3
        <5> HIDE DEF from, to, size
        <5> QED  BY <5>1
      <4>2. size \in Nat
        BY <2>3
      <4> HIDE DEF size, now
      <4> QED  BY <2>3, <4>1, <4>2, ByteInBlock
    <3>3. CASE q = k
      <4>1. new(q)[r] = IF n \in from..(to - 1) THEN call.byte
                                                ELSE pop.cache.data[r]
        <5>1. CopiedData(pop, length)[r] =
                 IF n \in from..(from + length - 1) THEN call.byte
                                                    ELSE pop.cache.data[r]
          BY <2>1, <2>2, <3>1, <3>3, CopiedByte
        <5> HIDE DEF new
        <5> QED  BY <2>1, <3>3, <5>1
      <4> HIDE DEF new, now, size
      <4> QED  BY <2>1, <3>2, <3>3, <4>1
    <3>4. CASE q # k
      <4>1. n \notin from..(to - 1)
        <5>1. ~(/\ k * CLUSTER_DATA_SIZE <= n
                /\ n < k * CLUSTER_DATA_SIZE + CLUSTER_DATA_SIZE)
          BY <2>1, <3>1, <3>4, InCluster
        <5> DEFINE before == k * CLUSTER_DATA_SIZE
        <5>2. /\ before \in Nat /\ before <= from
              /\ to <= before + CLUSTER_DATA_SIZE
              /\ ~(before <= n /\ n < before + CLUSTER_DATA_SIZE)
          BY <2>2, <5>1
        <5>3. from \in Nat /\ to \in Nat
          BY <2>1, <2>3
        <5> HIDE DEF before, from, to
        <5> QED  BY <3>1, <5>2, <5>3, ClusterSize
      <4> HIDE DEF new, now, size
      <4> QED  BY <2>1, <3>1, <3>2, <3>4, <4>1
    <3> QED  BY <3>3, <3>4
  <2> HIDE DEF new, now, old, grown, from, to
  <2>8. Content(f)' = WrittenContent(f, from, to)
    BY <2>4, <2>5, <2>6, <2>7
  <2> QED  BY <1>2, <2>2, <2>8 DEF from
<1> QED  BY <1>1, <1>2

\* While a call runs, nothing but its own rounds happens.
LEMMA OnlyRounds ==
    ASSUME DriverInv, "crash" \notin Uses, call # Idle, Next
    PROVE  ReadFileStep \/ WriteFileStep
<1>1. ~NamespaceCall
  BY NamespaceSteps DEF DriverInv, IoInv, NamespaceStep
<1>2. ~OpenCall
  BY Zenon DEF OpenCall, OpenFs, OpenFile
<1>3. ~FileCall
  BY Zenon DEF FileCall, Close, SeekFile, ReadFile, WriteFile, Begin
<1>4. ~FormatCall
  BY Zenon DEF FormatCall, Format
<1>5. ~Remount
  BY Zenon DEF Remount, Permitted
<1> QED  BY <1>1, <1>2, <1>3, <1>4, <1>5 DEF Next

\* A step changes the content of no file that stays, unless it is a round that
\* writes to it.
LEMMA NextContent ==
    ASSUME DataSafeUses, DriverInv, DriverInv', Next, NEW f \in FstIndices,
           IsFile(superblock.fst[f]), IsFile(superblock'.fst[f])
    PROVE  LET writer == call # Idle /\ call.op = "WriteFile"
                            /\ handles[call.fd].fst_index = f
           IN  IF writer
               THEN Content(f)' = WrittenContent(f, handles[call.fd].file_offset,
                                                 handles'[call.fd].file_offset)
               ELSE Content(f)' = Content(f)
<1> DEFINE writer == call # Idle /\ call.op = "WriteFile"
                        /\ handles[call.fd].fst_index = f
<1>1. CASE call # Idle
  <2>1. "crash" \notin Uses /\ IoInv /\ DataInv
    BY DEF DataSafeUses, DriverInv
  <2>2. CASE ReadFileStep
    <3>1. Advance("ReadFile", FALSE)
      BY <2>2, Zenon DEF ReadFileStep
    <3>2. call.op = "ReadFile" /\ \E pop : Round(pop, FALSE)
      <4>1. FALSE <=> "ReadFile" = "WriteFile"
        OBVIOUS
      <4> QED  BY <1>1, <2>1, <3>1, <4>1, RoundOutcomes
    <3>3. PICK pop : Round(pop, FALSE)
      BY <3>2
    <3>4. ASSUME UNCHANGED <<superblock, nand, handles, cache>>
          PROVE  Content(f)' = Content(f)
      BY <3>4, KeptContent
    <3>5. ASSUME NEW length \in Nat, Advanced(pop, FALSE, length)
          PROVE  Content(f)' = Content(f)
      BY <1>1, <3>2, <3>3, <3>5, ReadRoundContent
    <3>6. \/ UNCHANGED <<superblock, nand, handles, cache>>
          \/ \E length \in Nat : Advanced(pop, FALSE, length)
      BY <3>3, Zenon DEF Round
    <3>7. Content(f)' = Content(f)
      BY <3>4, <3>5, <3>6
    <3> QED  BY <3>2, <3>7
  <2>3. CASE WriteFileStep
    <3>1. Advance("WriteFile", TRUE)
      BY <2>3, Zenon DEF WriteFileStep
    <3>2. call.op = "WriteFile" /\ \E pop : Round(pop, TRUE)
      <4>1. TRUE <=> "WriteFile" = "WriteFile"
        OBVIOUS
      <4> QED  BY <1>1, <2>1, <3>1, <4>1, RoundOutcomes
    <3>3. PICK pop : Round(pop, TRUE)
      BY <3>2
    <3> DEFINE from == handles[call.fd].file_offset
               goal == IF handles[call.fd].fst_index = f
                       THEN Content(f)' = WrittenContent(f, from,
                                              handles'[call.fd].file_offset)
                       ELSE Content(f)' = Content(f)
    <3>4. ASSUME UNCHANGED <<superblock, nand, handles, cache>>
          PROVE  goal
      <4>1. Content(f)' = Content(f)
        BY <3>4, KeptContent
      <4>2. from \in Nat /\ handles'[call.fd].file_offset = from
        BY <1>1, <2>1, <3>4, RunningCallFacts
      <4>3. WrittenContent(f, from, from) = Content(f)
        <5>1. from..(from - 1) = {}
          <6> HIDE DEF from
          <6> QED  BY <4>2
        <5>2. WrittenContent(f, from, from) = [n \in DOMAIN Content(f) |->
                                                  Content(f)[n]]
          BY <5>1 DEF WrittenContent
        <5>3. Content(f) = [n \in DOMAIN Content(f) |-> Content(f)[n]]
          BY DEF Content
        <5> QED  BY <5>2, <5>3
      <4> QED  BY <4>1, <4>2, <4>3
    <3>5. ASSUME NEW length \in Nat, Advanced(pop, TRUE, length) PROVE goal
      BY <1>1, <3>2, <3>3, <3>5, WriteRoundContent
    <3> HIDE DEF goal
    <3>6. \/ UNCHANGED <<superblock, nand, handles, cache>>
          \/ \E length \in Nat : Advanced(pop, TRUE, length)
      BY <3>3, Zenon DEF Round
    <3>7. goal
      BY <3>4, <3>5, <3>6
    <3> QED  BY <1>1, <3>2, <3>7 DEF goal
  <2> QED  BY <1>1, <2>1, <2>2, <2>3, OnlyRounds
<1>2. CASE call = Idle
  <2> SUFFICES Content(f)' = Content(f)
    BY <1>2
  <2>1. CASE NamespaceCall
    BY <2>1, NamespaceContent DEF DataSafeUses
  <2>2. CASE OpenCall
    <3>1. UNCHANGED <<superblock, cache>>
      BY <2>2, OpenCallHandles DEF DriverInv, IoInv
    <3>2. nand' = nand
      BY <2>2, Zenon DEF OpenCall, OpenFs, OpenFile
    <3>3. cache.handle # NoHandle =>
             handles'[cache.handle] = handles[cache.handle]
      <4>1. FreeHandles # {} => ~handles[Least(FreeHandles)].opened
        BY FreeHandleType
      <4>2. cache.handle # NoHandle =>
               handles[cache.handle].opened /\ cache.handle \in HandleIds
        BY HandleIdTypes DEF DriverInv, IoInv, HandlesInv, FileOpen
      <4> QED  BY <2>2, <4>1, <4>2, OpenCallAssigns DEF DriverInv, IoInv, TypeOK
    <3> QED  BY <3>1, <3>2, <3>3, KeptContent DEF Dirty
  <2>3. CASE FileCall
    <3>1. ASSUME NEW fd \in HandleIds, NEW offset, NEW whence,
                 SeekFile(fd, offset, whence)
          PROVE  Content(f)' = Content(f)
      <4>1. UNCHANGED <<superblock, nand, cache>>
        BY <3>1, Zenon DEF SeekFile
      <4>2. \/ handles' = handles
            \/ \E position :
                  handles' = [handles EXCEPT ![fd].file_offset = position]
        BY <3>1, Zenon DEF SeekFile
      <4>3. \A k \in HandleIds : /\ handles'[k].fst_index = handles[k].fst_index
                                 /\ handles'[k].file_size = handles[k].file_size
        BY <4>2 DEF DriverInv, IoInv, TypeOK, Handle
      <4>4. cache.handle # NoHandle => cache.handle \in HandleIds
        BY CacheOfFile DEF DriverInv, IoInv
      <4> QED  BY <4>1, <4>3, <4>4, KeptContent DEF Dirty
    <3>2. PICK fd \in HandleIds :
              \/ Close(fd)
              \/ \E offset \in SeekOffsets, whence \in {"Set", "Current", "End"} :
                     SeekFile(fd, offset, whence)
              \/ \E count \in ReadCounts : ReadFile(fd, count)
              \/ \E count \in WriteCounts, byte \in Bytes :
                     WriteFile(fd, count, byte)
      BY <2>3, Zenon DEF FileCall
    <3>3. CASE Close(fd)
      BY <3>3, CloseContent
    <3>4. CASE \/ \E count \in ReadCounts : ReadFile(fd, count)
               \/ \E count \in WriteCounts, byte \in Bytes :
                      WriteFile(fd, count, byte)
      <4>1. UNCHANGED <<superblock, nand, handles, cache>>
        BY <3>4, Zenon DEF ReadFile, WriteFile, Begin
      <4> QED  BY <4>1, KeptContent
    <3> QED  BY <3>1, <3>2, <3>3, <3>4
  <2>4. CASE FormatCall
    <3>1. /\ UNCHANGED <<cache, nand>> /\ cache.handle = NoHandle
          /\ superblock' \in {superblock, FormattedSuperblock}
      BY <2>4 DEF FormatCall, Format, Permitted, DataSafeUses, SizeSafeUses
    <3>2. superblock' = superblock
      BY <3>1, FormattedFields
    <3> QED  BY <3>1, <3>2, KeptContent DEF Dirty
  <2>5. CASE ReadFileStep \/ WriteFileStep
    BY <1>2, <2>5, RunningCall
  <2>6. CASE Remount
    <3>1. /\ FreeHandles = Fds /\ cache'.handle = NoHandle /\ nand' = nand
          /\ superblock' = Normalised(stored)
      BY <2>6 DEF Remount, Permitted, EmptyCache, DataSafeUses
    <3>2. superblock = Normalised(stored)
      BY <3>1 DEF UnflushedHasOwner, FreeHandles, DriverInv
    <3>3. cache.handle = NoHandle
      BY <3>1 DEF DriverInv, IoInv, HandlesInv, FileOpen, FreeHandles
    <3> QED  BY <3>1, <3>2, <3>3, KeptContent DEF Dirty
  <2> QED  BY <2>1, <2>2, <2>3, <2>4, <2>5, <2>6 DEF Next
<1> QED  BY <1>1, <1>2

\* What was read off the tree as a file is one.
LEMMA LiveFileIsFile ==
    ASSUME NEW sb \in Superblock, NEW f \in LiveFiles(sb)
    PROVE  f \in FstIndices /\ IsFile(sb.fst[f])
<1>1. Live(sb) \subseteq FstIndices
  BY ReachableInDomain, RootInTree DEF Live, Traversal
<1> QED  BY <1>1 DEF LiveFiles

\* Whatever the calls do, the bytes of a file change only by a write to it: not when
\* the reads of another descriptor push dirty data out of the cache, not when a
\* flush fails, not by Close, a change in the tree or a remount.
THEOREM ContentOnlyChangesByWrite ==
    ASSUME DataSafeUses PROVE Spec => ContentChangesOnlyByWrite
<1> DEFINE Changes ==
      \A f \in LiveFiles(superblock) :
          f \in LiveFiles(superblock') /\ superblock'.fst # FormattedSuperblock.fst
          => LET writer == call # Idle /\ call.op = "WriteFile"
                              /\ handles[call.fd].fst_index = f
             IN  IF writer
                 THEN Content(f)' =
                         WrittenContent(f, handles[call.fd].file_offset,
                                        handles'[call.fd].file_offset)
                 ELSE Content(f)' = Content(f)
<1>1. DriverInv /\ DriverInv' /\ [Next]_vars => [Changes]_vars
  <2> SUFFICES ASSUME DriverInv, DriverInv', Next,
                      NEW f \in LiveFiles(superblock), f \in LiveFiles(superblock')
               PROVE  LET writer == call # Idle /\ call.op = "WriteFile"
                                       /\ handles[call.fd].fst_index = f
                      IN  IF writer
                          THEN Content(f)' =
                                  WrittenContent(f, handles[call.fd].file_offset,
                                                 handles'[call.fd].file_offset)
                          ELSE Content(f)' = Content(f)
    BY Zenon
  <2>1. superblock \in Superblock /\ superblock' \in Superblock
    BY DEF DriverInv, IoInv, TypeOK
  <2>2. f \in FstIndices /\ IsFile(superblock.fst[f]) /\ IsFile(superblock'.fst[f])
    BY <2>1, LiveFileIsFile
  <2> QED  BY <2>2, NextContent
<1>2. Spec => []DriverInv
  BY DriverInvariant
<1> QED  BY <1>1, <1>2, PTL DEF Spec, ContentChangesOnlyByWrite

\* Only a descriptor with read access reads.
RunningReads ==
    call # Idle /\ call.op = "ReadFile" => "Read" \in handles[call.fd].mode

LEMMA NextReads ==
    ASSUME DriverInv, RunningReads, "crash" \notin Uses, [Next]_vars
    PROVE  RunningReads'
<1>1. CASE UNCHANGED vars
  BY <1>1 DEF vars, RunningReads
<1>2. CASE call # Idle /\ Next
  <2>1. IoInv /\ DataInv
    BY DEF DriverInv
  <2>2. ASSUME NEW op, NEW write \in BOOLEAN, write <=> op = "WriteFile",
               op \in {"ReadFile", "WriteFile"}, Advance(op, write)
        PROVE  RunningReads'
    <3>1. PICK pop : Round(pop, write)
      BY <1>2, <2>1, <2>2, RoundOutcomes
    <3>2. /\ SameHandles(pop.handles) /\ call.fd \in HandleIds
          /\ call' = Idle \/ \E length \in Nat : Advanced(pop, write, length)
      BY <1>2, <2>1, <3>1, RunningCallFacts, Zenon DEF Round
    <3>3. ASSUME NEW length \in Nat, Advanced(pop, write, length)
          PROVE  RunningReads'
      <4>1. /\ call' = Idle \/ (call'.op = call.op /\ call'.fd = call.fd)
            /\ \A k \in HandleIds : handles'[k].mode = pop.handles[k].mode
        BY <3>3, Zenon DEF Advanced
      <4>2. handles'[call.fd].mode = handles[call.fd].mode
        BY <3>2, <4>1 DEF SameHandles
      <4> QED  BY <1>2, <4>1, <4>2 DEF RunningReads
    <3> QED  BY <3>2, <3>3 DEF RunningReads
  <2>3. CASE ReadFileStep
    <3>1. Advance("ReadFile", FALSE)
      BY <2>3, Zenon DEF ReadFileStep
    <3> QED  BY <2>2, <3>1
  <2>4. CASE WriteFileStep
    <3>1. Advance("WriteFile", TRUE)
      BY <2>4, Zenon DEF WriteFileStep
    <3> QED  BY <2>2, <3>1
  <2> QED  BY <1>2, <2>3, <2>4, OnlyRounds
<1>3. CASE call = Idle /\ Next
  <2>1. CASE call' = Idle
    BY <2>1 DEF RunningReads
  <2>2. CASE NamespaceCall
    <3>1. call' = Idle
      BY <2>2, NamespaceSteps DEF DriverInv, IoInv, NamespaceStep
    <3> QED  BY <2>1, <3>1
  <2>3. CASE OpenCall
    <3>1. call' = Idle
      BY <2>3, OpenCallHandles DEF DriverInv, IoInv
    <3> QED  BY <2>1, <3>1
  <2>4. CASE FileCall
    <3>1. PICK fd \in HandleIds :
              \/ Close(fd)
              \/ \E offset \in SeekOffsets, whence \in {"Set", "Current", "End"} :
                     SeekFile(fd, offset, whence)
              \/ \E count \in ReadCounts : ReadFile(fd, count)
              \/ \E count \in WriteCounts, byte \in Bytes :
                     WriteFile(fd, count, byte)
      BY <2>4, Zenon DEF FileCall
    <3>2. CASE \/ Close(fd)
               \/ \E offset \in SeekOffsets, whence \in {"Set", "Current", "End"} :
                     SeekFile(fd, offset, whence)
      <4>1. call' = Idle
        BY <3>2, Zenon DEF Close, SeekFile, Returns
      <4> QED  BY <2>1, <4>1
    <3>3. ASSUME NEW op, NEW access, NEW n, NEW byte,
                 Begin(op, fd, access, n, byte),
                 op = "ReadFile" => access = "Read"
          PROVE  RunningReads'
      <4>1. \/ call' = Idle
            \/ /\ access \in handles[fd].mode /\ handles' = handles
               /\ call' = [op |-> op, fd |-> fd, count |-> n, done |-> 0,
                           byte |-> byte]
        BY <3>3, Zenon DEF Begin, Returns
      <4> QED  BY <3>3, <4>1 DEF RunningReads
    <3>4. CASE \E count \in ReadCounts : ReadFile(fd, count)
      BY <3>3, <3>4 DEF ReadFile
    <3>5. CASE \E count \in WriteCounts, byte \in Bytes : WriteFile(fd, count, byte)
      BY <3>3, <3>5 DEF WriteFile
    <3> QED  BY <3>1, <3>2, <3>4, <3>5
  <2>5. CASE FormatCall \/ Remount
    <3>1. call' = Idle
      BY <2>5, Zenon DEF FormatCall, Format, Remount, Returns
    <3> QED  BY <2>1, <3>1
  <2>6. CASE ReadFileStep \/ WriteFileStep
    BY <1>3, <2>6, RunningCall
  <2> QED  BY <1>3, <2>2, <2>3, <2>4, <2>5, <2>6 DEF Next
<1> QED  BY <1>1, <1>2, <1>3

\* A round of ReadFile that copies something.
LEMMA ReadRoundReturns ==
    ASSUME DriverInv, call # Idle, call.op = "ReadFile", NEW pop,
           Round(pop, FALSE), NEW length \in Nat, Advanced(pop, FALSE, length)
    PROVE  LET from    == handles[call.fd].file_offset
               to      == handles'[call.fd].file_offset
               content == Content(handles[call.fd].fst_index)
               start   == CopyStart(from, cache')
           IN  /\ from..(to - 1) \subseteq DOMAIN content
               /\ \A n \in from..(to - 1) :
                     content[n] = cache'.data[1 + start + n - from]
<1> DEFINE fd   == call.fd
           h    == handles[fd]
           f    == h.fst_index
           from == h.file_offset
           to   == from + length
           left == call.count - call.done
           k    == ChainIndexOf(from)
           before == k * CLUSTER_DATA_SIZE
           size == SizeIn(superblock, handles, cache, f)
           now(l) == DataIn(superblock, nand, handles, cache, f, l)
           start == CopyStart(from, cache')
<1>1. /\ fd \in Fds /\ fd \in HandleIds /\ FileOpen(fd) /\ from \in Nat
      /\ f \in FstIndices /\ IsFile(superblock.fst[f])
      /\ h.file_size \in U32 /\ h.file_size \in Nat
      /\ left \in Nat /\ left > 0 /\ from + left <= h.file_size
  BY RunningCallFacts DEF DriverInv
<1>2. /\ pop.code = "Success" /\ length <= left
      /\ length = CopyLength(from, pop.cache) /\ cache' = pop.cache
      /\ \A l \in HandleIds : handles'[l].file_offset =
            IF l = fd THEN (from + length) % WordSize
                      ELSE pop.handles[l].file_offset
  BY Zenon DEF Advanced
<1>3. /\ pop.cache.chain_index = k /\ pop.cache.data \in ClusterData
      /\ k < RoundedUp(size) => pop.cache.data = now(k)
  <2>1. RoundPopulated(pop, FALSE)
    BY Zenon DEF Round
  <2> QED  BY <1>2, <2>1, Zenon DEF RoundPopulated
<1>4. /\ k \in Nat /\ before \in Nat /\ before <= from
      /\ to <= before + CLUSTER_DATA_SIZE
  <2>1. /\ pop.cache.chain_index \in Nat
        /\ pop.cache.chain_index * CLUSTER_DATA_SIZE \in Nat
        /\ pop.cache.chain_index * CLUSTER_DATA_SIZE <= from
        /\ from + length <= pop.cache.chain_index * CLUSTER_DATA_SIZE
                            + CLUSTER_DATA_SIZE
    BY <1>2, <1>3, RoundLength DEF DriverInv
  <2> QED  BY <1>3, <2>1
<1>5. handles'[fd].file_offset = to
  <2>1. (from + length) % WordSize = from + length
    <3>1. length <= left /\ left \in Int
      BY <1>1, <1>2
    <3> HIDE DEF from, left
    <3> QED  BY <1>1, <3>1, NoWrap
  <2> QED  BY <1>1, <1>2, <2>1
<1>6. size \in Nat /\ h.file_size <= size
  <2>1. size \in Nat
    BY <1>1, ReadableNow, ContentByBlocks
  <2>2. h.file_size <= size
    BY <1>1 DEF DriverInv, IoInv, SizesInv, SizesHold, Bounded, OfFile, FileOpen
  <2> QED  BY <2>1, <2>2
<1>7. to \in Nat /\ to <= size
  <2> HIDE DEF from, left, h, size
  <2> QED  BY <1>1, <1>2, <1>6
<1>8. Content(f) = [n \in 0..(size - 1) |->
          now(n \div CLUSTER_DATA_SIZE)[1 + (n % CLUSTER_DATA_SIZE)]]
  <2>1. Content(f) = ContentOf(superblock, nand, handles, cache, f)
    BY <1>1, ReadableNow, ContentIsBy, ContentByBlocks
  <2>2. ContentOf(superblock, nand, handles, cache, f) =
           [n \in 0..(size - 1) |->
               now(n \div CLUSTER_DATA_SIZE)[1 + (n % CLUSTER_DATA_SIZE)]]
    BY Zenon DEF ContentOf
  <2> QED  BY <2>1, <2>2
<1>9. start = from - before
  BY <1>2, <1>3 DEF CopyStart
<1>10. ASSUME NEW n \in from..(to - 1)
       PROVE  /\ n \in DOMAIN Content(f)
              /\ Content(f)[n] = cache'.data[1 + start + n - from]
  <2>1. /\ n \in Nat /\ n \in 0..(size - 1) /\ before <= n
        /\ n < before + CLUSTER_DATA_SIZE
    <3> HIDE DEF from, to, size, before
    <3> QED  BY <1>1, <1>4, <1>6, <1>7, <1>10, ClusterSize
  <2>2. /\ n \div CLUSTER_DATA_SIZE = k
        /\ n % CLUSTER_DATA_SIZE = n - before
    BY <1>4, <2>1, InCluster
  <2>3. k < RoundedUp(size)
    <3> HIDE DEF size
    <3>1. n \div CLUSTER_DATA_SIZE < RoundedUp(size)
      BY <1>6, <2>1, ByteInBlock
    <3> QED  BY <2>2, <3>1
  <2>4. 1 + start + n - from = 1 + (n % CLUSTER_DATA_SIZE)
    <3> HIDE DEF start, from, before
    <3> QED  BY <1>1, <1>4, <1>9, <2>1, <2>2
  <2>5. cache'.data = now(k)
    BY <1>2, <1>3, <2>3
  <2> HIDE DEF size, now, start, from
  <2> QED  BY <1>8, <2>1, <2>2, <2>4, <2>5
<1> HIDE DEF to
<1>11. /\ from..(to - 1) \subseteq DOMAIN Content(f)
       /\ \A n \in from..(to - 1) :
             Content(f)[n] = cache'.data[1 + start + n - from]
  BY <1>10
<1> QED  BY <1>5, <1>11

\* A reader gets the bytes of the file at its position, whoever wrote them and
\* wherever they are: on the NAND, in the cache, or pushed out of the cache by the
\* round of ReadFile itself.
THEOREM ReadsAlwaysReturnContent ==
    ASSUME DataSafeUses PROVE Spec => ReadReturnsContent
<1> DEFINE Returned == \A fd \in HandleIds :
               call # Idle /\ call.op = "ReadFile" /\ call.fd = fd =>
                   LET from    == GetFileStatus(fd).status.offset
                       to      == FileStatus(fd)'.offset
                       content == Content(handles[fd].fst_index)
                       start   == CopyStart(from, cache')
                   IN  from..(to - 1) \subseteq DOMAIN content /\
                       \A n \in from..(to - 1) :
                           content[n] = cache'.data[1 + start + n - from]
<1>1. DriverInv /\ RunningReads /\ [Next]_vars => [Returned]_vars
  <2> SUFFICES ASSUME DriverInv, RunningReads, Next, NEW fd \in HandleIds,
                      call # Idle, call.op = "ReadFile", call.fd = fd
               PROVE  LET from    == GetFileStatus(fd).status.offset
                          to      == FileStatus(fd)'.offset
                          content == Content(handles[fd].fst_index)
                          start   == CopyStart(from, cache')
                      IN  from..(to - 1) \subseteq DOMAIN content /\
                          \A n \in from..(to - 1) :
                              content[n] = cache'.data[1 + start + n - from]
    BY Zenon
  <2> DEFINE from == handles[fd].file_offset
             to   == handles'[fd].file_offset
  <2>1. IoInv /\ DataInv /\ "crash" \notin Uses
    BY DEF DriverInv, DataSafeUses
  <2>2. /\ FileOpen(fd) /\ from \in Nat
        /\ handles[fd].fst_index \in FstIndices
    BY <2>1, RunningCallFacts
  <2>3. GetFileStatus(fd).status.offset = from /\ FileStatus(fd)'.offset = to
    <3>1. HasFile(fd) /\ "Read" \in handles[fd].mode
      BY <2>1, <2>2 DEF HasFile, IsOpen, FileOpen, RunningReads
    <3>2. GetFileStatus(fd) = [code |-> "Success", status |-> FileStatus(fd)]
      BY <3>1, Zenon DEF GetFileStatus
    <3>3. FileStatus(fd).offset = from /\ FileStatus(fd)'.offset = to
      BY DEF FileStatus
    <3> QED  BY <3>2, <3>3
  <2>4. ReadFileStep
    <3>1. ~WriteFileStep
      BY Zenon DEF WriteFileStep, Advance
    <3> QED  BY <2>1, <3>1, OnlyRounds
  <2>5. Advance("ReadFile", FALSE)
    BY <2>4, Zenon DEF ReadFileStep
  <2>6. PICK pop : Round(pop, FALSE)
    <3>1. FALSE <=> "ReadFile" = "WriteFile"
      OBVIOUS
    <3> QED  BY <2>1, <2>5, <3>1, RoundOutcomes
  <2> DEFINE Good == /\ from..(to - 1) \subseteq
                            DOMAIN Content(handles[fd].fst_index)
                     /\ \A n \in from..(to - 1) :
                           Content(handles[fd].fst_index)[n] =
                               cache'.data[1 + CopyStart(from, cache') + n - from]
  <2>7. ASSUME UNCHANGED <<superblock, nand, handles, cache>> PROVE Good
    <3>1. to = from
      BY <2>7
    <3> HIDE DEF from, to
    <3>2. from..(to - 1) = {}
      BY <2>2, <3>1
    <3> QED  BY <3>2
  <2>8. ASSUME NEW length \in Nat, Advanced(pop, FALSE, length) PROVE Good
    BY <2>6, <2>8, ReadRoundReturns
  <2> HIDE DEF Good
  <2>9. \/ UNCHANGED <<superblock, nand, handles, cache>>
        \/ \E length \in Nat : Advanced(pop, FALSE, length)
    BY <2>6, Zenon DEF Round
  <2>10. Good
    BY <2>7, <2>8, <2>9
  <2> QED  BY <2>3, <2>10, Zenon DEF Good
<1>2. Spec => []DriverInv
  BY DriverInvariant
<1>3. Spec => []RunningReads
  <2>1. Init => RunningReads
    BY DEF Init, RunningReads
  <2>2. DriverInv /\ RunningReads /\ [Next]_vars => RunningReads'
    BY NextReads DEF DataSafeUses
  <2> QED  BY <1>2, <2>1, <2>2, PTL DEF Spec
<1> QED  BY <1>1, <1>2, <1>3, PTL DEF Spec, ReadReturnsContent
=============================================================================
