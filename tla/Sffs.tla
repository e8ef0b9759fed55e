-------------------------------- MODULE Sffs --------------------------------
(***************************************************************************)
(* The SFFS file system as it lies in the superblock: the file allocation  *)
(* table (FAT), the file system table (FST), and the pure functions of the *)
(* driver that read or edit them (sffs.h, sffs.cpp, util.cpp, the lookups  *)
(* of low_level.cpp and the static helpers of fs.cpp).                     *)
(*                                                                         *)
(* Pointers are the 16-bit numbers of the source, with its special values. *)
(* A loop that follows pointers is modelled by the set of nodes it visits, *)
(* the least set closed under the pointers (Reachable): no recursion, and  *)
(* on every acyclic list the same answer as the loop.  A path is the       *)
(* sequence of its components; the empty sequence is "/".                  *)
(***************************************************************************)
EXTENDS Integers, FiniteSets, Sequences

CONSTANTS
    FstSize,                  \* number of FST entries (0x17ff)
    FatSize,                  \* number of clusters (0x8000)
    FIRST_DATA_CLUSTER,       \* clusters below it hold boot1 and boot2 (64)
    SUPERBLOCK_START_CLUSTER, \* clusters from it on hold superblocks (0x7f00)
    CLUSTER_DATA_SIZE,        \* bytes of data in a cluster (0x4000)
    WordSize,                 \* 2^32: sizes and offsets are u32
    Names,                    \* file names of at most 12 characters
    LongNames,                \* file names of more than 12 characters
    Truncated,                \* the first 12 characters of every long name
    Uids, Gids                \* user and group identifiers, 0 is root

ASSUME SffsAssumption ==
    /\ FstSize \in Nat \ {0} /\ FstSize <= 65531
    /\ FatSize \in Nat \ {0} /\ FatSize <= 65531
    /\ FIRST_DATA_CLUSTER \in 0..SUPERBLOCK_START_CLUSTER
    /\ SUPERBLOCK_START_CLUSTER \in 0..FatSize
    /\ CLUSTER_DATA_SIZE \in Nat \ {0}
    /\ WordSize \in Nat \ {0}
    /\ Truncated \in [LongNames -> Names]
    /\ Names \cap LongNames = {}
    /\ 0 \in Uids /\ 0 \in Gids

CLUSTER_LAST_IN_CHAIN == 65531  \* 0xfffb
CLUSTER_RESERVED      == 65532  \* 0xfffc
CLUSTER_BAD_BLOCK     == 65533  \* 0xfffd
CLUSTER_UNUSED        == 65534  \* 0xfffe
NIL                   == 65535  \* 0xffff: no entry; in a FAT, a free cluster

U16 == 0..NIL
U32 == 0..(WordSize - 1)

FstIndices == 0..(FstSize - 1)
Clusters   == 0..(FatSize - 1)

-----------------------------------------------------------------------------
(* FST entries.  The mode byte is its low two bits (type) and three access *)
(* modes; a mode is the set of the accesses it grants.  x3 is always zero, *)
(* and no decision reads the attribute byte: both are left out.            *)

FileMode  == SUBSET {"Read", "Write"}
EntryType == {"none", "file", "directory"}

FstEntry == [name : Names \cup {"", "/"}, type : EntryType,
             owner : FileMode, group : FileMode, other : FileMode,
             sub : U16, sib : U16, size : U32, uid : Uids, gid : Gids]

Superblock == [fat : [Clusters -> U16], fst : [FstIndices -> FstEntry]]

IsFile(entry)      == entry.type = "file"
IsDirectory(entry) == entry.type = "directory"

\* SetName keeps the first 12 characters.
StoredName(name) == IF name \in LongNames THEN Truncated[name] ELSE name

SetAccessMode(entry, perm) ==
    [entry EXCEPT !.owner = perm.owner, !.group = perm.group,
                  !.other = perm.other]

\* entry.mode = 0
ClearMode(entry) ==
    [entry EXCEPT !.type = "none", !.owner = {}, !.group = {}, !.other = {}]

EmptyEntry == [name |-> "", type |-> "none", owner |-> {}, group |-> {},
               other |-> {}, sub |-> 0, sib |-> 0, size |-> 0,
               uid |-> 0, gid |-> 0]

\* The root entry of Format: mode 0x16 is a directory that the group and the
\* others may read.
RootEntry == [EmptyEntry EXCEPT !.name = "/", !.type = "directory",
                                !.group = {"Read"}, !.other = {"Read"},
                                !.sub = NIL, !.sib = NIL]

HasPermission(entry, uid, gid, requested) ==
    \/ uid = 0
    \/ requested \subseteq
           IF entry.uid = uid THEN entry.owner
           ELSE IF entry.gid = gid THEN entry.group ELSE entry.other

-----------------------------------------------------------------------------
(* Following pointers.                                                     *)

\* The nodes a traversal visits that starts at the nodes of `from' and goes
\* from node x to the nodes succ[x]: the least set with `from' that is closed
\* under succ.
Reachable(succ, from) ==
    LET closed == {S \in SUBSET DOMAIN succ :
                      from \subseteq S /\ \A x \in S : succ[x] \subseteq S}
    IN  DOMAIN succ \ UNION {DOMAIN succ \ S : S \in closed}

\* The clusters of the chain that starts at cluster `first'.
ClusterChain(sb, first) ==
    Reachable([c \in Clusters |-> {sb.fat[c]} \cap Clusters],
              {first} \cap Clusters)

\* The entries from `first' on along the sibling list.
Siblings(sb, first) ==
    Reachable([i \in FstIndices |-> {sb.fst[i].sib} \cap FstIndices],
              {first} \cap FstIndices)

Children(sb, directory) == Siblings(sb, sb.fst[directory].sub)

\* The entries visited by a recursive traversal of a directory that goes down
\* into the entries of which Descends holds.
Traversal(sb, directory, Descends(_)) ==
    Reachable([i \in FstIndices |->
                  ({sb.fst[i].sib} \cup
                   (IF Descends(sb.fst[i]) THEN {sb.fst[i].sub} ELSE {}))
                  \cap FstIndices],
              {sb.fst[directory].sub} \cap FstIndices)

-----------------------------------------------------------------------------
(* Lookups.  NIL stands for the error result.                              *)

\* A plausible bug: only the first child is compared.
ChildIndexMutant(sb, parent, name) ==
    LET first == sb.fst[parent].sub
    IN  IF first \in FstIndices /\ sb.fst[first].name = name THEN first ELSE NIL

\* GetFstIndex(superblock, parent, file_name): the first entry of that name.
\* Neither the type of the parent nor that of the entries is looked at.
ChildIndex(sb, parent, name) ==
    LET matches == {i \in Children(sb, parent) : sb.fst[i].name = name}
        first   == {i \in matches : matches \subseteq Siblings(sb, i)}
    IN  IF name \in LongNames \/ first = {} THEN NIL
        ELSE CHOOSE i \in first : TRUE

\* GetFstIndex(superblock, path), one component after the other.
GetFstIndex(sb, path) ==
    LET walk[n \in 0..Len(path)] ==
            IF n = 0 THEN 0
            ELSE IF walk[n - 1] \in FstIndices
                 THEN ChildIndex(sb, walk[n - 1], path[n])
                 ELSE NIL
    IN  IF walk[Len(path)] \in FstIndices THEN walk[Len(path)] ELSE NIL

IsValidNonRootPath(path) == path # <<>>

SplitPath(path) == [parent    |-> SubSeq(path, 1, Len(path) - 1),
                    file_name |-> path[Len(path)]]

Least(S) == CHOOSE i \in S : \A j \in S : i <= j

GetUnusedFstIndex(sb) ==
    LET unused == {i \in FstIndices : sb.fst[i].type = "none"}
    IN  IF unused = {} THEN NIL ELSE Least(unused)

\* A plausible bug: the index is ignored.
GetClusterForFileMutant(sb, first, index) ==
    IF first \in Clusters THEN first ELSE NIL

\* The cluster with `index' clusters before it in the chain.
GetClusterForFile(sb, first, index) ==
    LET cluster[i \in 0..index] ==
            IF i = 0 THEN first
            ELSE IF cluster[i - 1] \in Clusters THEN sb.fat[cluster[i - 1]]
                 ELSE NIL
    IN  IF cluster[index] \in Clusters THEN cluster[index] ELSE NIL

-----------------------------------------------------------------------------
(* Edits of the superblock.                                                *)

\* A plausible bug: reserved clusters and last clusters count as free.
UnusedClustersMutant(sb) == {c \in Clusters : sb.fat[c] \notin Clusters}

\* The clusters an allocation takes the first of.
UnusedClusters(sb) == {c \in Clusters : sb.fat[c] = CLUSTER_UNUSED}

\* A plausible bug: the replaced cluster is not freed.
ReplaceInChainMutant(fat, cluster, old) ==
    [fat EXCEPT ![cluster] = IF old \in Clusters THEN fat[old]
                                                 ELSE CLUSTER_LAST_IN_CHAIN]

\* A plausible bug: the new cluster still counts as free.
ReplaceInChainUnmarked(fat, cluster, old) ==
    [c \in Clusters |-> IF c = old THEN CLUSTER_UNUSED ELSE fat[c]]

\* The new cluster points to where the one it replaces, if any, points to; that
\* one is freed.
ReplaceInChain(fat, cluster, old) ==
    [c \in Clusters |->
        IF c = old THEN CLUSTER_UNUSED
        ELSE IF c = cluster
        THEN IF old \in Clusters THEN fat[old] ELSE CLUSTER_LAST_IN_CHAIN
        ELSE fat[c]]

FreeClusters(fat, freed) ==
    [c \in Clusters |-> IF c \in freed THEN CLUSTER_UNUSED ELSE fat[c]]

\* The entry is not in use any more.
Cleared(sb, i) == [sb EXCEPT !.fst[i] = ClearMode(@)]

DeleteFile(sb, file) ==
    Cleared([sb EXCEPT !.fat =
                FreeClusters(@, ClusterChain(sb, sb.fst[file].sub))], file)

\* Everything below the directory that is not a directory is deleted; the
\* directories below it keep their entries.
DeleteDirectoryContents(sb, directory) ==
    LET files == {i \in Traversal(sb, directory, IsDirectory) :
                     ~IsDirectory(sb.fst[i])}
    IN  [sb EXCEPT
           !.fat = FreeClusters(@, UNION {ClusterChain(sb, sb.fst[f].sub) :
                                              f \in files}),
           !.fst = [i \in FstIndices |->
                       IF i \in files THEN ClearMode(@[i]) ELSE @[i]]]

\* A plausible bug: the entry is cleared and stays linked.
RemoveFstEntryFromChainMutant(sb, parent, child) ==
    [code |-> "Success", sb |-> Cleared(sb, child)]

\* Unlinks the child from its parent, or from the sibling before it.
RemoveFstEntryFromChain(sb, parent, child) ==
    LET next     == sb.fst[child].sib
        previous == {p \in Children(sb, parent) : sb.fst[p].sib = child}
    IN  IF sb.fst[parent].sub = child
        THEN [code |-> "Success",
              sb |-> Cleared([sb EXCEPT !.fst[parent].sub = next], child)]
        ELSE IF previous = {}
        THEN [code |-> "NotFound", sb |-> sb]
        ELSE [code |-> "Success",
              sb |-> Cleared([sb EXCEPT
                                 !.fst[CHOOSE p \in previous : TRUE].sib = next],
                             child)]

\* The FAT and FST that Format writes.
FormattedSuperblock ==
    [fat |-> [c \in Clusters |->
                 IF c < FIRST_DATA_CLUSTER \/ c >= SUPERBLOCK_START_CLUSTER
                 THEN CLUSTER_RESERVED ELSE CLUSTER_UNUSED],
     fst |-> [i \in FstIndices |-> IF i = 0 THEN RootEntry ELSE EmptyEntry]]

\* A plausible bug: the FAT stays as it was loaded.
NormalisedMutant(sb) == sb

\* The constructor marks the free clusters of a loaded FAT in one way.
Normalised(sb) ==
    [sb EXCEPT !.fat = [c \in Clusters |->
                           IF @[c] = NIL THEN CLUSTER_UNUSED ELSE @[c]]]
=============================================================================
