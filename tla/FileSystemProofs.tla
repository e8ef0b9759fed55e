-------------------------- MODULE FileSystemProofs --------------------------
(***************************************************************************)
(* Theorems about every behaviour of the driver: whatever the client does  *)
(* (every value of Uses), on an image of any size: types, and that open    *)
(* files are safe from Delete, Rename and Format.                          *)
(***************************************************************************)
EXTENDS FsProperties, SffsProofs

-----------------------------------------------------------------------------
(* What the cache and the data path compute.                               *)

NandType == [Clusters -> NandCluster]

\* The states of the driver that a cache operation can end in.
IoStates == [code : ResultCode, superblock : Superblock, nand : NandType,
             handles : [HandleIds -> Handle], cache : Cache]

\* A word that wraps around stays a word.
LEMMA WrapType == \A x \in Int : x % WordSize \in U32
BY SffsAssumption DEF SffsAssumption, U32

LEMMA WordsAreNumbers == U32 \subseteq Nat
BY SffsAssumption DEF SffsAssumption, U32

LEMMA SumsWrap ==
    ASSUME NEW x \in U32, NEW y \in U32
    PROVE  (x + y) % WordSize \in U32 /\ (x - y) % WordSize \in U32
<1>1. x \in Nat /\ y \in Nat
  BY WordsAreNumbers
<1>2. x + y \in Int /\ x - y \in Int
  BY <1>1
<1> QED
  BY <1>2, WrapType

LEMMA PointersAreNumbers == U16 \subseteq Nat
<1>1. NIL \in Nat
  BY DEF NIL
<1> QED
  BY <1>1 DEF U16

LEMMA ChainIndexType == ASSUME NEW offset \in U32 PROVE ChainIndexOf(offset) \in U16
<1>1. offset \div CLUSTER_DATA_SIZE \in Nat
  BY SffsAssumption, WordsAreNumbers DEF SffsAssumption
<1>2. NIL \in Nat /\ NIL >= 65535
  BY DEF NIL
<1> QED
  BY <1>1, <1>2 DEF ChainIndexOf, U16

-----------------------------------------------------------------------------
(* Handles.                                                                *)

LEMMA HandleIdTypes ==
    /\ Fds \subseteq Nat /\ Fds \subseteq HandleIds /\ INTERNAL_FD \in HandleIds
    /\ INTERNAL_FD \notin Fds /\ NoHandle \notin HandleIds
BY FileIoAssumption DEF FileIoAssumption, Fds, INTERNAL_FD, HandleIds

LEMMA NewHandleType == NewHandle \in Handle
BY PointersInRange, SffsAssumption
   DEF SffsAssumption, NewHandle, Handle, U32, FileMode

LEMMA FlushNeededUpdate ==
    ASSUME NEW hs \in [HandleIds -> Handle], NEW fd
    PROVE  [hs EXCEPT ![fd].superblock_flush_needed = TRUE]
              \in [HandleIds -> Handle]
BY DEF Handle

LEMMA OffsetUpdate ==
    ASSUME NEW hs \in [HandleIds -> Handle], NEW fd, NEW offset \in U32
    PROVE  [hs EXCEPT ![fd].file_offset = offset] \in [HandleIds -> Handle]
BY DEF Handle

LEMMA FileSizeUpdate ==
    ASSUME NEW hs \in [HandleIds -> Handle], NEW fd \in HandleIds,
           NEW size \in U32, NEW write \in BOOLEAN
    PROVE  [hs EXCEPT ![fd].file_size = IF write THEN size ELSE @]
              \in [HandleIds -> Handle]
BY DEF Handle

LEMMA AssignedHandleType ==
    ASSUME NEW uid \in Uids, NEW gid \in Gids
    PROVE  AssignedHandle(uid, gid) \in Handle
BY NewHandleType DEF AssignedHandle, Handle

LEMMA FreeHandleType ==
    ASSUME FreeHandles # {}
    PROVE  Least(FreeHandles) \in Fds /\ ~handles[Least(FreeHandles)].opened
<1>1. FreeHandles \in SUBSET Nat
  BY HandleIdTypes DEF FreeHandles
<1> QED
  BY <1>1, LeastIsMember DEF FreeHandles

-----------------------------------------------------------------------------
(* The data path.                                                          *)

LEMMA SaltType ==
    ASSUME NEW sb \in Superblock, NEW index \in FstIndices,
           NEW chain_index \in U16
    PROVE  Salt(sb, index, chain_index) \in DataSalt
BY PointersInRange DEF Salt, DataSalt, Superblock, FstEntry

LEMMA ZeroDataType == ZeroData \in ClusterData
BY FileIoAssumption DEF FileIoAssumption, ZeroData, ClusterData

\* m_cache_data has a size.
LEMMA DataLength ==
    ASSUME NEW data \in ClusterData \cup {<<>>}
    PROVE  Len(data) \in Nat
<1>1. CASE data \in ClusterData
  <2>1. data \in Seq(Bytes)
    BY <1>1, SffsAssumption DEF SffsAssumption, ClusterData
  <2> QED
    BY <2>1
<1>2. CASE data = <<>>
  BY <1>2
<1> QED
  BY <1>1, <1>2

LEMMA EmptyCacheType == EmptyCache \in Cache
BY PointersInRange DEF EmptyCache, Cache

LEMMA ReadFileDataType ==
    ASSUME NEW sb \in Superblock, NEW nd \in NandType, NEW index \in U16,
           NEW chain_index \in U16
    PROVE  LET read == ReadFileData(sb, nd, index, chain_index)
           IN  /\ read.code \in ResultCode
               /\ read.code = "Success" => read.data \in ClusterData
<1> DEFINE cluster == GetClusterForFile(sb, sb.fst[index].sub, chain_index)
<1>1. cluster \in Clusters \cup {NIL}
  BY GetClusterForFileType
<1>2. cluster # NIL => nd[cluster].data \in ClusterData
  BY <1>1 DEF NandType, NandCluster
<1> HIDE DEF cluster
<1> QED
  BY <1>2 DEF ReadFileData, ResultCode, cluster

LEMMA UnusedClusterType ==
    ASSUME NEW sb, UnusedClusters(sb) # {}
    PROVE  Least(UnusedClusters(sb)) \in UnusedClusters(sb)
<1>1. UnusedClusters(sb) \in SUBSET Nat
  BY SffsAssumption DEF SffsAssumption, UnusedClusters, Clusters
<1> QED
  BY <1>1, LeastIsMember

\* Whatever the outcome, what WriteFileData leaves behind is well typed.
LEMMA WriteFileDataType ==
    ASSUME NEW sb \in Superblock, NEW nd \in NandType, NEW index \in U16,
           NEW data \in ClusterData, NEW chain_index \in U16,
           NEW new_size \in U32
    PROVE  WriteFileData(sb, nd, index, data, chain_index, new_size) \in
              [code : ResultCode, superblock : Superblock, nand : NandType]
<1> DEFINE entry   == sb.fst[index]
           cluster == Least(UnusedClusters(sb))
           written == [nd EXCEPT ![cluster] =
                          [data |-> data,
                           salt |-> Salt(sb, index, chain_index)]]
           old     == GetClusterForFile(sb, entry.sub, chain_index)
           prev    == GetClusterForFile(sb, entry.sub, chain_index - 1)
           linked  == IF chain_index = 0
                      THEN [sb EXCEPT !.fst[index].sub = cluster]
                      ELSE [sb EXCEPT !.fat[prev] = cluster]
           final   == [linked EXCEPT
                          !.fst[index].size = new_size,
                          !.fat = ReplaceInChain(@, cluster, old)]
           Fails(code, n) == [code |-> code, superblock |-> sb, nand |-> n]
<1>1. CASE index \notin FstIndices
  BY <1>1 DEF WriteFileData, ResultCode
<1>2. CASE /\ index \in FstIndices
           /\ ~IsFile(entry) \/ new_size <= entry.size
  BY <1>2 DEF WriteFileData, ResultCode
<1>3. CASE /\ index \in FstIndices /\ IsFile(entry) /\ ~(new_size <= entry.size)
           /\ UnusedClusters(sb) = {}
  BY <1>3 DEF WriteFileData, ResultCode
<1>4. CASE /\ index \in FstIndices /\ IsFile(entry) /\ ~(new_size <= entry.size)
           /\ UnusedClusters(sb) # {}
  <2>1. cluster \in Clusters /\ cluster \in U16
    BY <1>4, UnusedClusterType, PointersInRange DEF UnusedClusters
  <2>2. written \in NandType
    BY <1>4, <2>1, SaltType DEF NandType, NandCluster
  <2>3. CASE chain_index # 0 /\ prev = NIL
    <3>1. WriteFileData(sb, nd, index, data, chain_index, new_size) =
             Fails("Invalid", written)
      BY <1>4, <2>3 DEF WriteFileData
    <3> HIDE DEF written
    <3> QED
      BY <2>2, <3>1 DEF ResultCode
  <2>4. CASE chain_index = 0 \/ prev # NIL
    <3>1. WriteFileData(sb, nd, index, data, chain_index, new_size) =
             [code |-> "Success", nand |-> written, superblock |-> final]
      BY <1>4, <2>4 DEF WriteFileData
    <3>2. linked \in Superblock
      <4> HIDE DEF cluster, prev
      <4> QED
        BY <1>4, <2>1, SubUpdate DEF Superblock
    <3>3. final \in Superblock
      <4> DEFINE sized == [linked EXCEPT !.fst[index].size = new_size]
                 fat   == ReplaceInChain(linked.fat, cluster, old)
      <4>1. sized \in Superblock
        <5> HIDE DEF linked
        <5> QED
          BY <1>4, <3>2, SizeUpdate
      <4>2. fat \in [Clusters -> U16]
        <5> HIDE DEF linked, cluster, old
        <5> QED
          BY <3>2, ReplaceInChainType DEF Superblock
      <4>3. final = [sized EXCEPT !.fat = fat]
        <5> HIDE DEF linked, cluster, old
        <5> QED
          BY <3>2 DEF Superblock
      <4> HIDE DEF sized, fat
      <4> QED
        BY <4>1, <4>2, <4>3, FatUpdate
    <3> HIDE DEF written, final
    <3> QED
      BY <2>2, <3>1, <3>3 DEF ResultCode
  <2> QED
    BY <2>3, <2>4
<1> QED
  BY <1>1, <1>2, <1>3, <1>4

-----------------------------------------------------------------------------
(* The cache.                                                              *)

LEMMA IoStateType == ASSUME TypeOK PROVE IoState \in IoStates
BY DEF TypeOK, IoState, IoStates, NandType, ResultCode

LEMMA FlushFileCacheType ==
    ASSUME TypeOK
    PROVE  /\ FlushFileCache \in IoStates
           /\ FlushFileCache.cache = cache
<1> DEFINE written == Written(WriteBack)
<1>1. CASE ~Dirty(cache)
  BY <1>1, IoStateType DEF FlushFileCache, IoState
<1>2. CASE Dirty(cache)
  <2>1. /\ cache.handle \in HandleIds /\ cache.data \in ClusterData
        /\ cache.chain_index \in U16
    BY <1>2 DEF TypeOK, Cache, Dirty
  <2>2. /\ handles[cache.handle].fst_index \in U16
        /\ handles[cache.handle].file_size \in U32
    BY <2>1 DEF TypeOK, Handle
  <2>3. WriteBack \in
           [code : ResultCode, superblock : Superblock, nand : NandType]
    BY <2>1, <2>2, WriteFileDataType DEF TypeOK, NandType, WriteBack
  <2>4. written \in IoStates /\ written.cache = cache /\ written.handles = handles
    BY <2>3, IoStateType DEF IoStates, IoState, Written
  <2>5. FlushFileCache = FlushNeeded(written)
    BY <1>2 DEF FlushFileCache
  <2>6. [written.handles EXCEPT ![cache.handle].superblock_flush_needed = TRUE]
           \in [HandleIds -> Handle]
    BY <2>4, FlushNeededUpdate DEF TypeOK
  <2> HIDE DEF written
  <2> QED
    BY <2>4, <2>5, <2>6 DEF FlushNeeded, IoStates
<1> QED
  BY <1>1, <1>2

LEMMA PopulateFileCacheType ==
    ASSUME TypeOK, NEW fd \in HandleIds, NEW offset \in U32,
           NEW write \in BOOLEAN
    PROVE  PopulateFileCache(fd, offset, write) \in IoStates
<1> DEFINE flush == FlushFileCache
           index == ChainIndexOf(offset)
           read  == ReadFileData(flush.superblock, flush.nand,
                                 handles[fd].fst_index, index)
           With(code, data) ==
               [flush EXCEPT !.code = code,
                             !.cache = [handle |-> fd, chain_index |-> index,
                                        data |-> data, for_write |-> write]]
<1>1. flush \in IoStates
  BY FlushFileCacheType
<1>2. index \in U16
  BY ChainIndexType
<1>3. ASSUME NEW code \in ResultCode, NEW data \in ClusterData \cup {<<>>}
      PROVE  With(code, data) \in IoStates
  <2>1. [handle |-> fd, chain_index |-> index, data |-> data,
         for_write |-> write] \in Cache
    <3> HIDE DEF index
    <3> QED
      BY <1>2 DEF Cache
  <2> HIDE DEF flush, index
  <2> QED
    BY <1>1, <2>1 DEF IoStates
<1>4. read.code \in ResultCode /\ (read.code = "Success" => read.data \in ClusterData)
  <2>1. /\ flush.superblock \in Superblock /\ flush.nand \in NandType
        /\ handles[fd].fst_index \in U16
    BY <1>1 DEF IoStates, TypeOK, Handle
  <2> HIDE DEF flush, index
  <2> QED
    BY <1>2, <2>1, ReadFileDataType
<1>5. ZeroData \in ClusterData /\ cache.data \in ClusterData \cup {<<>>}
      /\ "Success" \in ResultCode
  BY ZeroDataType DEF TypeOK, Cache, ResultCode
<1>6. LET populate == PopulateFileCache(fd, offset, write)
      IN  \/ populate \in {IoState, flush, With("Success", ZeroData),
                           With(read.code, cache.data)}
          \/ read.code = "Success" /\ populate = With("Success", read.data)
  BY DEF PopulateFileCache, Populated
<1> HIDE DEF flush, read, With
<1> QED
  BY <1>1, <1>3, <1>4, <1>5, <1>6, IoStateType

-----------------------------------------------------------------------------
(* Type correctness.                                                       *)

LEMMA InitialHandlesType ==
    [fd \in HandleIds |-> [NewHandle EXCEPT !.opened = (fd = INTERNAL_FD)]]
        \in [HandleIds -> Handle]
BY NewHandleType DEF Handle

LEMMA InitType == Init => TypeOK
<1> SUFFICES ASSUME Init PROVE TypeOK
  OBVIOUS
<1>1. stored \in Superblock
  BY FormattedSuperblockType, PointersInRange DEF Init, Superblock
<1>2. superblock \in Superblock
  BY <1>1, NormalisedType DEF Init
<1>3. nand \in NandType
  BY ZeroDataType DEF Init, NandType, NandCluster
<1> QED
  BY <1>1, <1>2, <1>3, InitialHandlesType, EmptyCacheType
     DEF Init, TypeOK, NandType, ResultCode

\* A call that ends.
LEMMA ReturnsType ==
    ASSUME NEW code \in ResultCode, Returns(code)
    PROVE  call' \in Call \cup {Idle} /\ result' \in ResultCode
BY DEF Returns

\* A namespace call keeps the types when its edit of the superblock does.
LEMMA FinishesType ==
    ASSUME TypeOK, NEW code \in ResultCode, NEW sb \in Superblock,
           Finishes(code, sb)
    PROVE  TypeOK'
BY ReturnsType DEF Finishes, TypeOK

LEMMA UserTypes ==
    /\ \A user \in Users : user[1] \in Uids /\ user[2] \in Gids
    /\ \A user \in FsUsers : user[1] \in Uids /\ user[2] \in Gids
    /\ \A user \in Owners : user[1] \in Uids /\ user[2] \in Gids
BY FileSystemAssumption DEF FileSystemAssumption

LEMMA SplitPathType ==
    ASSUME NEW path \in Paths, path # <<>>
    PROVE  StoredName(SplitPath(path).file_name) \in Names
<1>1. path \in Seq(Names \cup LongNames)
  BY FileSystemAssumption DEF FileSystemAssumption
<1>2. path[Len(path)] \in Names \cup LongNames
  BY <1>1
<1> QED
  BY <1>2, SffsAssumption DEF SffsAssumption, SplitPath, StoredName

\* A new entry that the parent points to.
NewChild(sb, parent, child, entry) ==
    [[sb EXCEPT !.fst[child] = entry] EXCEPT !.fst[parent].sub = child]

LEMMA NewChildType ==
    ASSUME NEW sb \in Superblock, NEW parent \in FstIndices,
           NEW child \in FstIndices, NEW entry \in FstEntry
    PROVE  NewChild(sb, parent, child, entry) \in Superblock
<1> DEFINE added == [sb EXCEPT !.fst[child] = entry]
<1>1. added \in Superblock
  BY FstUpdate
<1>2. [added EXCEPT !.fst[parent].sub = child] \in Superblock
  <2> HIDE DEF added
  <2> QED
    BY <1>1, SubUpdate, PointersInRange
<1> QED
  BY <1>2 DEF NewChild

\* This is what Create makes.
LEMMA CreatedEntry ==
    ASSUME TypeOK, NEW fd \in HandleIds, NEW path \in Paths,
           NEW type \in {"file", "directory"}, NEW perm \in Permissions,
           CreateCode(fd, path, type) = "Success"
    PROVE  LET split  == SplitPath(path)
               parent == GetFstIndex(superblock, split.parent)
           IN  \E entry \in FstEntry :
                  /\ entry.name = StoredName(split.file_name)
                  /\ entry.type = type
                  /\ entry.sib = superblock.fst[parent].sub
                  /\ entry.sub = IF type = "file" THEN CLUSTER_LAST_IN_CHAIN
                                                  ELSE NIL
                  /\ entry.size = 0
                  /\ Created(fd, path, type, perm) =
                        NewChild(superblock, parent,
                                 GetUnusedFstIndex(superblock), entry)
<1> DEFINE split  == SplitPath(path)
           parent == GetFstIndex(superblock, split.parent)
           entry  == [name |-> StoredName(split.file_name), type |-> type,
                      owner |-> perm.owner, group |-> perm.group,
                      other |-> perm.other,
                      sub |-> IF type = "file" THEN CLUSTER_LAST_IN_CHAIN
                                               ELSE NIL,
                      sib |-> superblock.fst[parent].sub, size |-> 0,
                      uid |-> handles[fd].uid, gid |-> handles[fd].gid]
<1>1. path # <<>> /\ parent # NIL
  BY DEF CreateCode, IsValidNonRootPath
<1>2. entry \in FstEntry
  <2>1. perm \in [owner : FileMode, group : FileMode, other : FileMode]
    BY FileSystemAssumption DEF FileSystemAssumption
  <2>2. StoredName(split.file_name) \in Names
    BY <1>1, SplitPathType
  <2>3. superblock.fst[parent].sub \in U16
    BY <1>1, GetFstIndexType DEF TypeOK, Superblock, FstEntry
  <2>4. handles[fd].uid \in Uids /\ handles[fd].gid \in Gids
    BY DEF TypeOK, Handle
  <2>5. 0 \in U32
    BY SffsAssumption DEF SffsAssumption, U32
  <2> HIDE DEF split, parent
  <2> QED
    BY <2>1, <2>2, <2>3, <2>4, <2>5, PointersInRange DEF FstEntry, EntryType
<1>3. Created(fd, path, type, perm) =
         NewChild(superblock, parent, GetUnusedFstIndex(superblock), entry)
  BY Zenon DEF Created, NewChild
<1>4. /\ entry.name = StoredName(split.file_name) /\ entry.type = type
      /\ entry.sib = superblock.fst[parent].sub
      /\ entry.sub = IF type = "file" THEN CLUSTER_LAST_IN_CHAIN ELSE NIL
      /\ entry.size = 0
  <2> HIDE DEF split, parent
  <2> QED  OBVIOUS
<1> HIDE DEF entry
<1> QED
  BY <1>2, <1>3, <1>4

LEMMA CreateType ==
    ASSUME TypeOK, NEW fd \in HandleIds, NEW path \in Paths,
           NEW type \in {"file", "directory"}, NEW perm \in Permissions,
           Create(fd, path, type, perm)
    PROVE  TypeOK'
<1> DEFINE code   == CreateCode(fd, path, type)
           parent == GetFstIndex(superblock, SplitPath(path).parent)
           child  == GetUnusedFstIndex(superblock)
<1>1. code \in ResultCode
  BY DEF CreateCode, ResultCode
<1>2. CASE code # "Success"
  BY <1>1, <1>2, FinishesType DEF Create, TypeOK
<1>3. CASE code = "Success"
  <2>1. parent \in FstIndices /\ child \in FstIndices
    BY <1>3, GetFstIndexType, GetUnusedFstIndexType DEF CreateCode
  <2>2. PICK entry \in FstEntry :
            Created(fd, path, type, perm) =
                NewChild(superblock, parent, child, entry)
    BY <1>3, CreatedEntry
  <2>3. Created(fd, path, type, perm) \in Superblock
    <3> HIDE DEF child, parent
    <3> QED
      BY <2>1, <2>2, NewChildType DEF TypeOK
  <2> QED
    BY <1>1, <1>3, <2>3, FinishesType DEF Create
<1> QED
  BY <1>2, <1>3

LEMMA DeleteContentsType ==
    ASSUME TypeOK, NEW index \in FstIndices
    PROVE  DeleteContents(index) \in Superblock
BY DeleteFileType, DeleteDirectoryContentsType DEF DeleteContents, TypeOK

LEMMA DeleteType ==
    ASSUME TypeOK, NEW fd \in HandleIds, NEW path \in Paths, Delete(fd, path)
    PROVE  TypeOK'
<1> DEFINE split   == SplitPath(path)
           parent  == GetFstIndex(superblock, split.parent)
           index   == ChildIndex(superblock, parent, split.file_name)
           removed == RemoveFstEntryFromChain(DeleteContents(index), parent,
                                              index)
           code    == DeleteCode(fd, path)
<1>1. code \in ResultCode
  BY DEF DeleteCode, ResultCode
<1>2. CASE code # "Success"
  BY <1>1, <1>2, FinishesType DEF Delete, TypeOK
<1>3. CASE code = "Success"
  <2>1. parent \in FstIndices /\ index \in FstIndices
    BY <1>3, GetFstIndexType, ChildIndexType DEF DeleteCode
  <2>2. removed.sb \in Superblock /\ removed.code \in {"Success", "NotFound"}
    <3> HIDE DEF parent, index
    <3> QED
      BY <2>1, DeleteContentsType, RemoveFstEntryFromChainType
  <2>3. Finishes(removed.code, removed.sb)
    BY <1>3 DEF Delete
  <2> HIDE DEF removed
  <2> QED
    BY <2>2, <2>3, FinishesType DEF ResultCode
<1> QED
  BY <1>2, <1>3

LEMMA RelinkedType ==
    ASSUME NEW sb \in Superblock, NEW index \in FstIndices,
           NEW saved \in FstEntry, NEW parent \in FstIndices, NEW name,
           StoredName(name) \in Names
    PROVE  Relinked(sb, index, saved, parent, name) \in Superblock
<1> DEFINE before == sb.fst[index]
           sib    == sb.fst[parent].sub
           entry  == [before EXCEPT
                         !.type = saved.type, !.owner = saved.owner,
                         !.group = saved.group, !.other = saved.other,
                         !.name = StoredName(name), !.sib = sib]
           linked == [sb EXCEPT !.fst[index] = entry]
<1>1. before \in FstEntry /\ sib \in U16
  BY DEF Superblock, FstEntry
<1>2. entry \in FstEntry
  <2> HIDE DEF before, sib
  <2> QED
    BY <1>1 DEF FstEntry
<1>3. linked \in Superblock
  <2> HIDE DEF entry
  <2> QED
    BY <1>2, FstUpdate
<1>4. [linked EXCEPT !.fst[parent].sub = index] \in Superblock
  <2> HIDE DEF linked
  <2> QED
    BY <1>3, SubUpdate, PointersInRange
<1> QED
  BY <1>4, Zenon DEF Relinked

\* The intermediate superblocks of Rename are well typed, too.
LEMMA RenamedType ==
    ASSUME TypeOK, NEW fd \in HandleIds, NEW old_path \in Paths,
           NEW new_path \in Paths, RenameCode(fd, old_path, new_path) = "Success"
    PROVE  /\ Renamed(old_path, new_path).sb \in Superblock
           /\ Renamed(old_path, new_path).code \in {"Success", "NotFound"}
<1> DEFINE old        == SplitPath(old_path)
           new        == SplitPath(new_path)
           old_parent == GetFstIndex(superblock, old.parent)
           new_parent == GetFstIndex(superblock, new.parent)
           index      == ChildIndex(superblock, old_parent, old.file_name)
           new_index  == ChildIndex(superblock, new_parent, new.file_name)
           replaced   == IF new_index = NIL
                         THEN [code |-> "Success", sb |-> superblock]
                         ELSE RemoveFstEntryFromChain(DeleteContents(new_index),
                                                      new_parent, new_index)
           saved      == replaced.sb.fst[index]
           unlinked   == RemoveFstEntryFromChain(replaced.sb, old_parent, index)
           relinked   == Relinked(unlinked.sb, index, saved, new_parent,
                                  new.file_name)
<1>1. /\ old_parent \in FstIndices /\ new_parent \in FstIndices
      /\ index \in FstIndices /\ new_index \in FstIndices \cup {NIL}
      /\ new_path # <<>>
  BY GetFstIndexType, ChildIndexType DEF RenameCode, IsValidNonRootPath
<1>2. replaced.sb \in Superblock /\ replaced.code \in {"Success", "NotFound"}
  <2> HIDE DEF new_index, new_parent
  <2>1. CASE new_index = NIL
    BY <2>1 DEF TypeOK
  <2>2. CASE new_index # NIL
    BY <1>1, <2>2, DeleteContentsType, RemoveFstEntryFromChainType
  <2> QED
    BY <2>1, <2>2
<1>3. unlinked.sb \in Superblock /\ unlinked.code \in {"Success", "NotFound"}
  <2> HIDE DEF replaced, old_parent, index
  <2> QED
    BY <1>1, <1>2, RemoveFstEntryFromChainType
<1>4. relinked \in Superblock
  <2>1. StoredName(new.file_name) \in Names
    BY <1>1, SplitPathType
  <2>2. saved \in FstEntry
    <3> HIDE DEF replaced, index
    <3> QED
      BY <1>1, <1>2 DEF Superblock
  <2> HIDE DEF new, saved, unlinked, index, new_parent
  <2> QED
    BY <1>1, <1>3, <2>1, <2>2, RelinkedType
<1>5. Renamed(old_path, new_path) =
         IF replaced.code # "Success" THEN replaced
         ELSE IF unlinked.code # "Success" THEN unlinked
         ELSE [code |-> "Success", sb |-> relinked]
  BY Zenon DEF Renamed
<1> HIDE DEF replaced, unlinked, relinked
<1> QED
  BY <1>2, <1>3, <1>4, <1>5

LEMMA RenameType ==
    ASSUME TypeOK, NEW fd \in HandleIds, NEW old_path \in Paths,
           NEW new_path \in Paths, Rename(fd, old_path, new_path)
    PROVE  TypeOK'
<1> DEFINE code    == RenameCode(fd, old_path, new_path)
           renamed == Renamed(old_path, new_path)
<1>1. code \in ResultCode
  BY DEF RenameCode, ResultCode
<1>2. CASE code # "Success"
  BY <1>1, <1>2, FinishesType DEF Rename, TypeOK
<1>3. CASE code = "Success"
  <2>1. renamed.sb \in Superblock /\ renamed.code \in {"Success", "NotFound"}
    BY <1>3, RenamedType
  <2>2. Finishes(renamed.code, renamed.sb)
    BY <1>3 DEF Rename
  <2> HIDE DEF renamed
  <2> QED
    BY <2>1, <2>2, FinishesType DEF ResultCode
<1> QED
  BY <1>2, <1>3

LEMMA SetMetadataType ==
    ASSUME TypeOK, NEW fd \in HandleIds, NEW path \in Paths, NEW uid \in Uids,
           NEW gid \in Gids, NEW perm \in Permissions,
           SetMetadata(fd, path, uid, gid, perm)
    PROVE  TypeOK'
<1> DEFINE code  == SetMetadataCode(fd, path, uid)
           index == GetFstIndex(superblock, path)
           entry == SetAccessMode([superblock.fst[index] EXCEPT
                                      !.uid = uid, !.gid = gid], perm)
<1>1. code \in ResultCode
  BY DEF SetMetadataCode, ResultCode
<1>2. CASE code # "Success"
  BY <1>1, <1>2, FinishesType DEF SetMetadata, TypeOK
<1>3. CASE code = "Success"
  <2>1. superblock.fst[index] \in FstEntry
    BY <1>3, GetFstIndexType DEF SetMetadataCode, TypeOK, Superblock
  <2>2. perm \in [owner : FileMode, group : FileMode, other : FileMode]
    BY FileSystemAssumption DEF FileSystemAssumption
  <2>3. entry \in FstEntry
    <3> HIDE DEF index
    <3> QED
      BY <2>1, <2>2 DEF SetAccessMode, FstEntry
  <2>4. [superblock EXCEPT !.fst[index] = entry] \in Superblock
    <3> HIDE DEF entry
    <3> QED
      BY <2>3, FstUpdate DEF TypeOK
  <2>5. Finishes(code, [superblock EXCEPT !.fst[index] = entry])
    BY <1>3 DEF SetMetadata
  <2> HIDE DEF entry, code
  <2> QED
    BY <1>1, <2>4, <2>5, FinishesType
<1> QED
  BY <1>2, <1>3

LEMMA FormatType ==
    ASSUME TypeOK, NEW uid \in Uids, Format(uid)
    PROVE  TypeOK'
<1>1. [fd \in HandleIds |-> IF fd \in Fds THEN [handles[fd] EXCEPT !.opened = FALSE]
                                         ELSE handles[fd]]
         \in [HandleIds -> Handle]
  BY DEF TypeOK, Handle
<1>2. superblock' \in Superblock /\ stored' \in Superblock
  BY FormattedSuperblockType DEF Format, TypeOK
<1>3. handles' \in [HandleIds -> Handle]
  BY <1>1 DEF Format, TypeOK
<1>4. call' \in Call \cup {Idle} /\ result' \in ResultCode
  BY ReturnsType DEF Format, ResultCode
<1> QED
  BY <1>2, <1>3, <1>4 DEF Format, TypeOK

LEMMA OpenFsType ==
    ASSUME TypeOK, NEW uid \in Uids, NEW gid \in Gids, OpenFs(uid, gid)
    PROVE  TypeOK'
<1>1. handles' \in [HandleIds -> Handle]
  BY AssignedHandleType DEF OpenFs, TypeOK
<1>2. call' \in Call \cup {Idle} /\ result' \in ResultCode
  BY ReturnsType DEF OpenFs, ResultCode
<1> QED
  BY <1>1, <1>2 DEF OpenFs, TypeOK

LEMMA OpenFileType ==
    ASSUME TypeOK, NEW uid \in Uids, NEW gid \in Gids, NEW path \in Paths,
           NEW mode \in OpenModes, OpenFile(uid, gid, path, mode)
    PROVE  TypeOK'
<1> DEFINE index  == GetFstIndex(superblock, path)
           code   == OpenFileCode(uid, gid, path, mode)
           handle == [AssignedHandle(uid, gid) EXCEPT
                         !.fst_index = index, !.mode = mode,
                         !.file_size = superblock.fst[index].size]
<1>1. code \in ResultCode
  BY DEF OpenFileCode, ResultCode
<1>2. handles' \in [HandleIds -> Handle]
  <2>1. CASE code # "Success"
    BY <2>1 DEF OpenFile, TypeOK
  <2>2. CASE code = "Success"
    <3>1. index \in FstIndices
      BY <2>2, GetFstIndexType DEF OpenFileCode
    <3>2. mode \in FileMode
      BY FileSystemAssumption DEF FileSystemAssumption
    <3>3. index \in U16 /\ superblock.fst[index].size \in U32
      BY <3>1, PointersInRange DEF TypeOK, Superblock, FstEntry
    <3>4. handle \in Handle
      <4> DEFINE assigned == AssignedHandle(uid, gid)
                 size     == superblock.fst[index].size
      <4>1. assigned \in Handle
        BY AssignedHandleType
      <4>2. index \in U16 /\ size \in U32
        BY <3>3
      <4> HIDE DEF assigned, index, size
      <4>3. [assigned EXCEPT !.fst_index = index, !.mode = mode,
                             !.file_size = size] \in Handle
        BY <3>2, <4>1, <4>2 DEF Handle
      <4> QED
        BY <4>3 DEF assigned, size
    <3>5. handles' = [handles EXCEPT ![Least(FreeHandles)] = handle]
      BY <2>2 DEF OpenFile
    <3> HIDE DEF handle
    <3> QED
      BY <3>4, <3>5 DEF TypeOK
  <2> QED
    BY <2>1, <2>2
<1>3. call' \in Call \cup {Idle} /\ result' \in ResultCode
  BY <1>1, ReturnsType DEF OpenFile
<1> QED
  BY <1>2, <1>3 DEF OpenFile, TypeOK

LEMMA CloseType ==
    ASSUME TypeOK, NEW fd \in HandleIds, Close(fd)
    PROVE  TypeOK'
<1> DEFINE flush == IF cache.handle = fd THEN FlushFileCache ELSE IoState
<1>1. flush \in IoStates
  BY FlushFileCacheType, IoStateType
<1>2. CASE ~IsOpen(fd)
  BY <1>2, ReturnsType DEF Close, TypeOK, ResultCode
<1>3. CASE IsOpen(fd) /\ flush.code # "Success"
  <2>1. /\ Returns(flush.code) /\ superblock' = flush.superblock
        /\ nand' = flush.nand /\ UNCHANGED <<stored, handles, cache>>
    BY <1>3 DEF Close
  <2> HIDE DEF flush
  <2> QED
    BY <1>1, <2>1, ReturnsType DEF TypeOK, IoStates, NandType
<1>4. CASE IsOpen(fd) /\ flush.code = "Success"
  <2>1. /\ Returns(flush.code) /\ superblock' = flush.superblock
        /\ nand' = flush.nand
        /\ stored' \in {flush.superblock, stored}
        /\ handles' = [flush.handles EXCEPT ![fd] = NewHandle]
        /\ cache' \in {cache, [cache EXCEPT !.handle = NoHandle, !.data = <<>>]}
    BY <1>4 DEF Close
  <2>2. cache' \in Cache
    BY <2>1 DEF TypeOK, Cache
  <2> HIDE DEF flush
  <2>3. handles' \in [HandleIds -> Handle]
    BY <1>1, <2>1, NewHandleType DEF IoStates
  <2> QED
    BY <1>1, <2>1, <2>2, <2>3, ReturnsType DEF TypeOK, IoStates, NandType
<1> QED
  BY <1>2, <1>3, <1>4

LEMMA SeekFileType ==
    ASSUME TypeOK, NEW fd \in HandleIds, NEW offset \in U32,
           NEW whence \in {"Set", "Current", "End"}, SeekFile(fd, offset, whence)
    PROVE  TypeOK'
<1> DEFINE h == handles[fd]
           position == CASE whence = "Set"     -> offset
                         [] whence = "Current" ->
                                (h.file_offset + offset) % WordSize
                         [] whence = "End"     ->
                                (h.file_size + offset) % WordSize
<1>1. h.file_offset \in U32 /\ h.file_size \in U32
  BY DEF TypeOK, Handle
<1>2. (h.file_offset + offset) % WordSize \in U32
      /\ (h.file_size + offset) % WordSize \in U32
  BY <1>1, SumsWrap
<1>3. position \in U32
  BY <1>2
<1>4. [handles EXCEPT ![fd].file_offset = position] \in [HandleIds -> Handle]
  <2> HIDE DEF position
  <2> QED
    BY <1>3 DEF TypeOK, Handle
<1>5. handles' \in [HandleIds -> Handle]
  BY <1>4 DEF SeekFile, TypeOK
<1>6. call' \in Call \cup {Idle} /\ result' \in ResultCode
  BY ReturnsType DEF SeekFile, ResultCode
<1> QED
  BY <1>5, <1>6 DEF SeekFile, TypeOK

LEMMA BeginType ==
    ASSUME TypeOK, NEW op \in {"ReadFile", "WriteFile"}, NEW fd \in HandleIds,
           NEW access, NEW count \in U32, NEW byte \in Bytes,
           Begin(op, fd, access, count, byte)
    PROVE  TypeOK'
<1>1. 0 \in U32
  BY SffsAssumption DEF SffsAssumption, U32
<1>2. call' \in Call \cup {Idle} /\ result' \in ResultCode
  BY <1>1, ReturnsType DEF Begin, Call, ResultCode, TypeOK
<1> QED
  BY <1>2 DEF Begin, TypeOK

LEMMA ReadCountType ==
    ASSUME TypeOK, NEW fd \in HandleIds, NEW count \in U32
    PROVE  ReadCount(fd, count) \in U32
<1>1. handles[fd].file_offset \in U32 /\ handles[fd].file_size \in U32
  BY DEF TypeOK, Handle
<1>2. (handles[fd].file_size - handles[fd].file_offset) % WordSize \in U32
  BY <1>1, SumsWrap
<1> QED
  BY <1>2 DEF ReadCount

LEMMA RemountType == ASSUME TypeOK, Remount PROVE TypeOK'
<1>1. superblock' \in Superblock
  BY NormalisedType DEF Remount, TypeOK
<1>2. call' \in Call \cup {Idle} /\ result' \in ResultCode
  BY ReturnsType DEF Remount, ResultCode
<1> QED
  BY <1>1, <1>2, InitialHandlesType, EmptyCacheType DEF Remount, TypeOK

\* A round of ReadFile or WriteFile.  The bytes it copied are not more than were
\* left, so that the number of bytes done stays a word.
LEMMA AdvanceType ==
    ASSUME TypeOK, call # Idle, NEW op, NEW write \in BOOLEAN,
           Advance(op, write)
    PROVE  TypeOK'
<1> DEFINE fd     == call.fd
           h      == handles[fd]
           pop    == PopulateFileCache(fd, h.file_offset, write)
           start  == CopyStart(h.file_offset, pop.cache)
           length == CopyLength(h.file_offset, pop.cache)
           offset == (h.file_offset + length) % WordSize
           done   == call.done + length
           data   == pop.cache.data
           copied == [k \in DOMAIN data |->
                         IF start < k /\ k <= start + length
                         THEN call.byte ELSE data[k]]
           size   == IF h.file_size < offset THEN offset ELSE h.file_size
<1>1. call \in Call /\ fd \in HandleIds /\ call.byte \in Bytes
      /\ call.done \in U32 /\ call.count \in U32
  BY DEF TypeOK, Call
<1>2. h \in Handle /\ h.file_offset \in U32 /\ h.file_size \in U32
  BY <1>1 DEF TypeOK, Handle
<1>2a. h.file_offset \in Nat
  <2> HIDE DEF h
  <2> QED
    BY <1>2, WordsAreNumbers
<1>3. pop \in IoStates
  BY <1>1, <1>2, PopulateFileCacheType
<1>4. length \in Int /\ (length >= 0 => done \in U32)
  <2>1. Len(data) \in Nat /\ pop.cache.chain_index \in Nat
    <3> HIDE DEF pop
    <3>1. /\ pop.cache.data \in ClusterData \cup {<<>>}
          /\ pop.cache.chain_index \in U16
      BY <1>3 DEF IoStates, Cache
    <3> QED
      BY <3>1, DataLength, PointersAreNumbers
  <2>2. start \in Int
    <3> HIDE DEF h, pop
    <3> QED
      BY <1>2a, <2>1, SffsAssumption DEF SffsAssumption, CopyStart
  <2>3. length = Minimum(Len(data) - start, call.count - call.done)
    BY DEF CopyLength
  <2>4. call.count \in 0..(WordSize - 1) /\ call.done \in 0..(WordSize - 1)
    BY <1>1 DEF U32
  <2>5. WordSize \in Nat
    BY SffsAssumption DEF SffsAssumption
  <2> HIDE DEF data, start, length
  <2> QED
    BY <2>1, <2>2, <2>3, <2>4, <2>5 DEF Minimum, U32
<1>5. CASE pop.code # "Success" \/ length < 0
  <2>1. /\ superblock' = pop.superblock /\ nand' = pop.nand
        /\ UNCHANGED stored
        /\ Returns(IF pop.code # "Success" THEN pop.code ELSE "Undefined")
        /\ handles' = pop.handles /\ cache' = pop.cache
    BY <1>5, Zenon DEF Advance, Copy
  <2> HIDE DEF pop
  <2>2. call' \in Call \cup {Idle} /\ result' \in ResultCode
    BY <1>3, <2>1, ReturnsType DEF IoStates, ResultCode
  <2> QED
    BY <1>3, <2>1, <2>2 DEF TypeOK, IoStates, NandType
<1>6. CASE pop.code = "Success" /\ ~(length < 0)
  <2>1. /\ superblock' = pop.superblock /\ nand' = pop.nand
        /\ UNCHANGED stored
        /\ handles' = [pop.handles EXCEPT
                          ![fd].file_offset = offset,
                          ![fd].file_size = IF write THEN size ELSE @]
        /\ cache' = IF write THEN [pop.cache EXCEPT !.data = copied]
                             ELSE pop.cache
    BY <1>6, Zenon DEF Advance, Copy
  <2>2. offset \in U32 /\ size \in U32
    <3>1. h.file_offset + length \in Int
      <4> HIDE DEF h, length
      <4> QED
        BY <1>4, <1>2a
    <3>2. offset \in U32
      <4> HIDE DEF h, length
      <4> QED
        BY <3>1, WrapType
    <3> HIDE DEF h, offset
    <3> QED
      BY <1>2, <3>2
  <2>3. handles' \in [HandleIds -> Handle]
    <3> DEFINE moved == [pop.handles EXCEPT ![fd].file_offset = offset]
    <3>1. moved \in [HandleIds -> Handle]
      <4> HIDE DEF pop, offset
      <4> QED
        BY <1>3, <2>2, OffsetUpdate DEF IoStates
    <3>2. [moved EXCEPT ![fd].file_size = IF write THEN size ELSE @]
             \in [HandleIds -> Handle]
      <4> HIDE DEF moved, size
      <4> QED
        BY <1>1, <2>2, <3>1, FileSizeUpdate
    <3>3. handles' = [moved EXCEPT ![fd].file_size = IF write THEN size ELSE @]
      <4> HIDE DEF pop, offset, size
      <4> QED
        BY <1>1, <1>3, <2>1 DEF IoStates, Handle
    <3> HIDE DEF moved, size
    <3> QED
      BY <3>2, <3>3
  <2>4. cache' \in Cache
    <3>1. pop.cache \in Cache /\ data \in ClusterData \cup {<<>>}
      <4> HIDE DEF pop
      <4> QED
        BY <1>3 DEF IoStates, Cache
    <3>2. copied \in ClusterData \cup {<<>>}
      <4> HIDE DEF data, start, length
      <4>1. CASE data \in ClusterData
        BY <1>1, <4>1 DEF ClusterData
      <4>2. CASE data = <<>>
        <5>1. copied = <<>>
          BY <4>2
        <5> QED
          BY <5>1
      <4> QED
        BY <3>1, <4>1, <4>2
    <3>3. [pop.cache EXCEPT !.data = copied] \in Cache
      <4> HIDE DEF pop, copied
      <4> QED
        BY <3>1, <3>2 DEF Cache
    <3> HIDE DEF pop, copied
    <3> QED
      BY <2>1, <3>1, <3>3
  <2>5. IF done = call.count
        THEN Returns("Success")
        ELSE call' = [call EXCEPT !.done = done] /\ UNCHANGED result
    BY <1>6, Zenon DEF Advance, Copy
  <2>6. call' \in Call \cup {Idle} /\ result' \in ResultCode
    <3>1. CASE done = call.count
      <4> HIDE DEF done
      <4> QED
        BY <2>5, <3>1, ReturnsType DEF ResultCode
    <3>2. CASE done # call.count
      <4>1. done \in U32
        <5> HIDE DEF done, length
        <5> QED
          BY <1>4, <1>6
      <4> HIDE DEF done
      <4> QED
        BY <1>1, <2>5, <3>2, <4>1 DEF Call, TypeOK
    <3> HIDE DEF done
    <3> QED
      BY <3>1, <3>2
  <2> HIDE DEF fd, pop, offset, size, copied, done
  <2> QED
    BY <1>3, <2>1, <2>3, <2>4, <2>6 DEF TypeOK, IoStates, NandType
<1> QED
  <2> HIDE DEF pop, length
  <2> QED
    BY <1>5, <1>6

LEMMA RunningCall ==
    ASSUME ReadFileStep \/ WriteFileStep
    PROVE  call # Idle
<1>1. call.op \in {"ReadFile", "WriteFile"}
  BY Zenon DEF ReadFileStep, WriteFileStep, Advance
<1>2. Idle.op = "None"
  BY DEF Idle
<1> QED
  BY <1>1, <1>2

LEMMA NextType == TypeOK /\ [Next]_vars => TypeOK'
<1> SUFFICES ASSUME TypeOK, [Next]_vars PROVE TypeOK'
  OBVIOUS
<1>1. CASE NamespaceCall
  <2>1. PICK fd \in PathFds, path \in Paths :
            \/ \E perm \in Permissions : \/ CreateFile(fd, path, perm)
                                          \/ CreateDirectory(fd, path, perm)
            \/ Delete(fd, path)
            \/ \E new_path \in Paths : Rename(fd, path, new_path)
            \/ \E user \in Owners, perm \in Permissions :
                   SetMetadata(fd, path, user[1], user[2], perm)
    BY <1>1 DEF NamespaceCall, NamespaceCallOn
  <2>2. fd \in HandleIds
    BY FileSystemAssumption DEF FileSystemAssumption
  <2>3. CASE \E perm \in Permissions : \/ CreateFile(fd, path, perm)
                                       \/ CreateDirectory(fd, path, perm)
    BY <2>2, <2>3, CreateType DEF CreateFile, CreateDirectory
  <2>4. CASE Delete(fd, path)
    BY <2>2, <2>4, DeleteType
  <2>5. CASE \E new_path \in Paths : Rename(fd, path, new_path)
    BY <2>2, <2>5, RenameType
  <2>6. CASE \E user \in Owners, perm \in Permissions :
                SetMetadata(fd, path, user[1], user[2], perm)
    BY <2>2, <2>6, SetMetadataType, UserTypes
  <2> QED
    BY <2>1, <2>3, <2>4, <2>5, <2>6
<1>2. CASE OpenCall
  <2>1. CASE \E user \in FsUsers : OpenFs(user[1], user[2])
    BY <2>1, OpenFsType, UserTypes
  <2>2. CASE \E user \in Users, path \in Paths, mode \in OpenModes :
                OpenFile(user[1], user[2], path, mode)
    BY <2>2, OpenFileType, UserTypes
  <2> QED
    BY <1>2, <2>1, <2>2 DEF OpenCall
<1>3. CASE FileCall
  <2>1. PICK fd \in HandleIds :
            \/ Close(fd)
            \/ \E offset \in SeekOffsets, whence \in {"Set", "Current", "End"} :
                   SeekFile(fd, offset, whence)
            \/ \E count \in ReadCounts : ReadFile(fd, count)
            \/ \E count \in WriteCounts, byte \in Bytes :
                   WriteFile(fd, count, byte)
    BY <1>3 DEF FileCall
  <2>2. ReadCounts \subseteq U32 /\ WriteCounts \subseteq U32
        /\ SeekOffsets \subseteq U32
    BY FileSystemAssumption DEF FileSystemAssumption
  <2>3. CASE Close(fd)
    BY <2>3, CloseType
  <2>4. CASE \E offset \in SeekOffsets, whence \in {"Set", "Current", "End"} :
                SeekFile(fd, offset, whence)
    BY <2>2, <2>4, SeekFileType
  <2>5. ASSUME NEW count \in ReadCounts, ReadFile(fd, count) PROVE TypeOK'
    <3>1. ReadCount(fd, count) \in U32
      BY <2>2, ReadCountType
    <3>2. 0 \in Bytes
      BY FileIoAssumption DEF FileIoAssumption
    <3> QED
      BY <2>5, <3>1, <3>2, BeginType DEF ReadFile
  <2>6. CASE \E count \in WriteCounts, byte \in Bytes : WriteFile(fd, count, byte)
    BY <2>2, <2>6, BeginType DEF WriteFile
  <2> QED
    BY <2>1, <2>3, <2>4, <2>5, <2>6
<1>4. CASE FormatCall
  BY <1>4, FormatType, UserTypes DEF FormatCall
<1>5. CASE ReadFileStep \/ WriteFileStep
  <2>1. call # Idle
    BY <1>5, RunningCall
  <2> QED
    BY <1>5, <2>1, AdvanceType, Zenon DEF ReadFileStep, WriteFileStep
<1>6. CASE Remount
  BY <1>6, RemountType
<1>7. CASE UNCHANGED vars
  BY <1>7 DEF vars, TypeOK
<1> QED
  BY <1>1, <1>2, <1>3, <1>4, <1>5, <1>6, <1>7 DEF Next

\* No call, crash or mount ever puts a value out of its range into a variable.
THEOREM TypeCorrectness == Spec => []TypeOK
<1>1. Init => TypeOK
  BY InitType
<1>2. TypeOK /\ [Next]_vars => TypeOK'
  BY NextType
<1> QED
  BY <1>1, <1>2, PTL DEF Spec

-----------------------------------------------------------------------------
(***************************************************************************)
(* The entry that an open descriptor refers to stays a file and keeps its  *)
(* name.  The argument: the walk over a directory that looks for open      *)
(* files visits all the entries that the walk which deletes them visits    *)
(* (DeletionIsChecked).  Together with TypeOK, OpenFilesAreFiles is        *)
(* inductive.                                                              *)
(***************************************************************************)

\* The type and the name of entry i are the same in the two superblocks.
SameEntry(s1, s2, i) ==
    s2.fst[i].type = s1.fst[i].type /\ s2.fst[i].name = s1.fst[i].name

\* An open descriptor of a file.
Opens(fd, i) == handles[fd].opened /\ handles[fd].fst_index = i /\ i # NIL

\* What a step must keep of the entries of the open files.
KeepsOpenFiles(sb) ==
    \A fd \in Fds, i \in FstIndices :
        Opens(fd, i) => SameEntry(superblock, sb, i)

KeepsHandles(hs) == \A fd \in Fds :
    hs[fd].opened = handles[fd].opened /\ hs[fd].fst_index = handles[fd].fst_index

\* The index has been looked up by a path.
Found(index) ==
    \E path \in Paths : PlainPath(path) /\ index = GetFstIndex(superblock, path)

\* A descriptor that is open after a step was so before, of the same entry, which
\* keeps its type and name; or it has just been opened, on a file that was found.
StaysSafe(fd) ==
    handles'[fd].opened =>
        LET i == handles[fd].fst_index
            j == handles'[fd].fst_index
        IN  IF handles[fd].opened
            THEN i = j /\ (i # NIL => SameEntry(superblock, superblock', i))
            ELSE j # NIL => /\ j \in FstIndices /\ IsFile(superblock'.fst[j])
                            /\ superblock' = superblock /\ Found(j)

LEMMA KeepingIsSafe ==
    ASSUME TypeOK, OpenFilesAreFiles, KeepsOpenFiles(superblock'),
           KeepsHandles(handles')
    PROVE  \A fd \in Fds : StaysSafe(fd)
BY DEF OpenFilesAreFiles, KeepsOpenFiles, KeepsHandles, Opens, StaysSafe

-----------------------------------------------------------------------------
(* Traversals.                                                             *)

\* More pointers to follow, more nodes visited.
LEMMA ReachableMonotonic ==
    ASSUME NEW D, NEW few, NEW many, NEW from,
           DOMAIN few = D, DOMAIN many = D,
           \A x \in D : few[x] \subseteq many[x]
    PROVE  Reachable(few, from) \subseteq Reachable(many, from)
<1> SUFFICES ASSUME NEW x \in Reachable(few, from),
                    NEW S \in SUBSET D, from \subseteq S,
                    \A y \in S : many[y] \subseteq S
             PROVE  x \in S
  BY DEF Reachable
<1>1. \A y \in S : few[y] \subseteq S
  OBVIOUS
<1> QED
  BY <1>1 DEF Reachable

\* What DeleteDirectoryContents visits, IsDirectoryInUse visits.
LEMMA DeletionIsChecked ==
    ASSUME NEW sb, NEW directory
    PROVE  Traversal(sb, directory, IsDirectory) \subseteq
               Traversal(sb, directory, LAMBDA entry : ~IsFile(entry))
<1> DEFINE from == {sb.fst[directory].sub} \cap FstIndices
           few  == [i \in FstIndices |->
                       ({sb.fst[i].sib} \cup
                        (IF IsDirectory(sb.fst[i]) THEN {sb.fst[i].sub} ELSE {}))
                       \cap FstIndices]
           many == [i \in FstIndices |->
                       ({sb.fst[i].sib} \cup
                        (IF ~IsFile(sb.fst[i]) THEN {sb.fst[i].sub} ELSE {}))
                       \cap FstIndices]
<1>1. \A i \in FstIndices : few[i] \subseteq many[i]
  BY DEF IsDirectory, IsFile
<1>2. DOMAIN few = FstIndices /\ DOMAIN many = FstIndices
  OBVIOUS
<1>3. Reachable(few, from) \subseteq Reachable(many, from)
  <2> HIDE DEF few, many, from
  <2> QED
    BY <1>1, <1>2, ReachableMonotonic
<1> QED
  BY <1>3 DEF Traversal

-----------------------------------------------------------------------------
(* What the edits leave alone.                                             *)

\* An entry is replaced by one of the same type and name.
LEMMA ReplaceKeepsEntries ==
    ASSUME NEW sb \in Superblock, NEW k \in FstIndices, NEW entry \in FstEntry,
           entry.type = sb.fst[k].type, entry.name = sb.fst[k].name,
           NEW i \in FstIndices
    PROVE  SameEntry(sb, [sb EXCEPT !.fst[k] = entry], i)
BY DEF SameEntry, Superblock

LEMMA SubKeepsEntries ==
    ASSUME NEW sb \in Superblock, NEW k \in FstIndices, NEW pointer \in U16,
           NEW i \in FstIndices
    PROVE  SameEntry(sb, [sb EXCEPT !.fst[k].sub = pointer], i)
<1> DEFINE old == sb.fst[k]
           new == [old EXCEPT !.sub = pointer]
<1>1. old \in FstEntry
  BY DEF Superblock
<1>2. new \in FstEntry /\ new.type = old.type /\ new.name = old.name
  <2> HIDE DEF old
  <2> QED
    BY <1>1 DEF FstEntry
<1>3. SameEntry(sb, [sb EXCEPT !.fst[k] = new], i)
  <2> HIDE DEF new
  <2> QED
    BY <1>2, ReplaceKeepsEntries
<1> QED
  BY <1>3

LEMMA SibKeepsEntries ==
    ASSUME NEW sb \in Superblock, NEW k \in FstIndices, NEW pointer \in U16,
           NEW i \in FstIndices
    PROVE  SameEntry(sb, [sb EXCEPT !.fst[k].sib = pointer], i)
<1> DEFINE old == sb.fst[k]
           new == [old EXCEPT !.sib = pointer]
<1>1. old \in FstEntry
  BY DEF Superblock
<1>2. new \in FstEntry /\ new.type = old.type /\ new.name = old.name
  <2> HIDE DEF old
  <2> QED
    BY <1>1 DEF FstEntry
<1>3. SameEntry(sb, [sb EXCEPT !.fst[k] = new], i)
  <2> HIDE DEF new
  <2> QED
    BY <1>2, ReplaceKeepsEntries
<1> QED
  BY <1>3

LEMMA SizeKeepsEntries ==
    ASSUME NEW sb \in Superblock, NEW k \in FstIndices, NEW size \in U32,
           NEW i \in FstIndices
    PROVE  SameEntry(sb, [sb EXCEPT !.fst[k].size = size], i)
<1> DEFINE old == sb.fst[k]
           new == [old EXCEPT !.size = size]
<1>1. old \in FstEntry
  BY DEF Superblock
<1>2. new \in FstEntry /\ new.type = old.type /\ new.name = old.name
  <2> HIDE DEF old
  <2> QED
    BY <1>1 DEF FstEntry
<1>3. SameEntry(sb, [sb EXCEPT !.fst[k] = new], i)
  <2> HIDE DEF new
  <2> QED
    BY <1>2, ReplaceKeepsEntries
<1> QED
  BY <1>3

LEMMA UnlinkKeepsOthers ==
    ASSUME NEW sb \in Superblock, NEW parent \in FstIndices,
           NEW child \in FstIndices, NEW i \in FstIndices, i # child
    PROVE  SameEntry(sb, RemoveFstEntryFromChain(sb, parent, child).sb, i)
<1> DEFINE next     == sb.fst[child].sib
           previous == {p \in Children(sb, parent) : sb.fst[p].sib = child}
           before   == CHOOSE p \in previous : TRUE
           first    == [sb EXCEPT !.fst[parent].sub = next]
           later    == [sb EXCEPT !.fst[before].sib = next]
<1>1. LET removed == RemoveFstEntryFromChain(sb, parent, child).sb
      IN  \/ removed \in {Cleared(first, child), sb}
          \/ previous # {} /\ removed = Cleared(later, child)
  BY DEF RemoveFstEntryFromChain
<1>2. \A s \in Superblock : SameEntry(s, Cleared(s, child), i)
  BY DEF SameEntry, Cleared, Superblock
<1>3. next \in U16
  BY DEF Superblock, FstEntry
<1>4. first \in Superblock /\ SameEntry(sb, first, i)
  <2> HIDE DEF next
  <2> QED
    BY <1>3, SubUpdate, SubKeepsEntries
<1>5. ASSUME previous # {}
      PROVE  later \in Superblock /\ SameEntry(sb, later, i)
  <2>1. before \in FstIndices
    BY <1>5, ChildrenType
  <2> HIDE DEF next, before
  <2> QED
    BY <1>3, <2>1, SibUpdate, SibKeepsEntries
<1> HIDE DEF first, later
<1> QED
  BY <1>1, <1>2, <1>4, <1>5 DEF SameEntry

\* Deleting what an index stands for touches no open file, when the in-use
\* check of that index has passed.
LEMMA DeleteContentsKeepsOpenFiles ==
    ASSUME TypeOK, OpenFilesAreFiles, NEW index \in FstIndices, ~InUse(index)
    PROVE  KeepsOpenFiles(DeleteContents(index))
<1> SUFFICES ASSUME NEW fd \in Fds, NEW i \in FstIndices, Opens(fd, i)
             PROVE  SameEntry(superblock, DeleteContents(index), i)
  BY DEF KeepsOpenFiles
<1>1. IsFile(superblock.fst[i]) /\ IsFileOpened(i)
  BY DEF OpenFilesAreFiles, Opens, IsFileOpened
<1>2. superblock \in Superblock
  BY DEF TypeOK
<1>3. CASE IsDirectory(superblock.fst[index])
  <2> DEFINE files == {k \in Traversal(superblock, index, IsDirectory) :
                          ~IsDirectory(superblock.fst[k])}
  <2>1. ~IsDirectoryInUse(superblock, index)
    BY <1>3 DEF InUse
  <2>2. i \notin Traversal(superblock, index, LAMBDA entry : ~IsFile(entry))
    BY <1>1, <2>1 DEF IsDirectoryInUse
  <2>3. i \notin files
    BY <2>2, DeletionIsChecked
  <2>4. DeleteDirectoryContents(superblock, index).fst =
           [k \in FstIndices |-> IF k \in files
                                THEN ClearMode(superblock.fst[k])
                                ELSE superblock.fst[k]]
    <3> HIDE DEF files
    <3> QED
      BY <1>2 DEF DeleteDirectoryContents, Superblock, files
  <2> HIDE DEF files
  <2> QED
    BY <1>3, <2>3, <2>4 DEF SameEntry, DeleteContents
<1>4. CASE ~IsDirectory(superblock.fst[index])
  <2>1. i # index
    BY <1>1, <1>4 DEF InUse
  <2> DEFINE fat   == FreeClusters(superblock.fat,
                          ClusterChain(superblock, superblock.fst[index].sub))
             freed == [superblock EXCEPT !.fat = fat]
  <2>2. freed \in Superblock
    BY <1>2, FreeClustersType DEF Superblock
  <2>3. freed.fst = superblock.fst
    BY <1>2 DEF Superblock
  <2>4. SameEntry(freed, Cleared(freed, index), i)
    <3> HIDE DEF freed
    <3> QED
      BY <2>1, <2>2 DEF SameEntry, Cleared, Superblock
  <2>5. DeleteContents(index) = Cleared(freed, index)
    BY <1>4 DEF DeleteContents, DeleteFile
  <2> HIDE DEF freed
  <2> QED
    BY <2>3, <2>4, <2>5 DEF SameEntry
<1> QED
  BY <1>3, <1>4

\* The in-use check finds an open file.
LEMMA OpenFileInUse ==
    ASSUME TypeOK, OpenFilesAreFiles, NEW fd \in Fds, NEW i \in FstIndices,
           Opens(fd, i)
    PROVE  IsFile(superblock.fst[i]) /\ InUse(i)
BY DEF OpenFilesAreFiles, Opens, InUse, IsFile, IsDirectory, IsFileOpened

LEMMA DeletionSafe ==
    ASSUME TypeOK, OpenFilesAreFiles, NEW parent \in FstIndices,
           NEW index \in FstIndices, ~InUse(index)
    PROVE  KeepsOpenFiles(RemoveFstEntryFromChain(DeleteContents(index), parent,
                                                  index).sb)
<1> DEFINE deleted == DeleteContents(index)
           removed == RemoveFstEntryFromChain(deleted, parent, index).sb
<1>1. deleted \in Superblock /\ KeepsOpenFiles(deleted)
  BY DeleteContentsType, DeleteContentsKeepsOpenFiles
<1> SUFFICES ASSUME NEW fd \in Fds, NEW i \in FstIndices, Opens(fd, i)
             PROVE  SameEntry(superblock, removed, i)
  BY DEF KeepsOpenFiles
<1>2. i # index
  BY OpenFileInUse
<1> HIDE DEF deleted
<1>3. SameEntry(deleted, removed, i)
  BY <1>1, <1>2, UnlinkKeepsOthers
<1> QED
  BY <1>1, <1>3 DEF KeepsOpenFiles, SameEntry

LEMMA WriteFileDataKeepsEntries ==
    ASSUME NEW sb \in Superblock, NEW nd, NEW index \in U16, NEW data,
           NEW chain_index, NEW new_size \in U32, NEW i \in FstIndices
    PROVE  SameEntry(sb, WriteFileData(sb, nd, index, data, chain_index,
                                       new_size).superblock, i)
<1> DEFINE cluster == Least(UnusedClusters(sb))
           old     == GetClusterForFile(sb, sb.fst[index].sub, chain_index)
           prev    == GetClusterForFile(sb, sb.fst[index].sub, chain_index - 1)
           linked  == IF chain_index = 0
                      THEN [sb EXCEPT !.fst[index].sub = cluster]
                      ELSE [sb EXCEPT !.fat[prev] = cluster]
           sized   == [linked EXCEPT !.fst[index].size = new_size]
           final   == [sized EXCEPT !.fat =
                          ReplaceInChain(linked.fat, cluster, old)]
           write   == WriteFileData(sb, nd, index, data, chain_index, new_size)
<1>1. \/ write.superblock = sb
      \/ /\ index \in FstIndices /\ UnusedClusters(sb) # {}
         /\ chain_index = 0 \/ prev # NIL
         /\ write.superblock = final
  BY DEF WriteFileData
<1>2. CASE write.superblock = sb
  BY <1>2 DEF SameEntry
<1>3. CASE /\ index \in FstIndices /\ UnusedClusters(sb) # {}
           /\ chain_index = 0 \/ prev # NIL
           /\ write.superblock = final
  <2>1. cluster \in U16
    BY <1>3, UnusedClusterType, PointersInRange DEF UnusedClusters
  <2>2. linked \in Superblock /\ SameEntry(sb, linked, i)
    <3> HIDE DEF cluster, prev
    <3>1. CASE chain_index = 0
      BY <1>3, <2>1, <3>1, SubUpdate, SubKeepsEntries
    <3>2. CASE chain_index # 0
      BY <2>1, <3>2 DEF SameEntry, Superblock
    <3> QED
      BY <3>1, <3>2
  <2>3. SameEntry(linked, sized, i) /\ sized \in Superblock
    <3> HIDE DEF linked
    <3> QED
      BY <1>3, <2>2, SizeUpdate, SizeKeepsEntries
  <2>4. SameEntry(sized, final, i)
    <3> HIDE DEF linked, sized, cluster, old
    <3> QED
      BY <2>3 DEF SameEntry, Superblock
  <2> HIDE DEF linked, sized, final
  <2> QED
    BY <1>3, <2>2, <2>3, <2>4 DEF SameEntry
<1> HIDE DEF final, prev
<1> QED
  BY <1>1, <1>2, <1>3

-----------------------------------------------------------------------------
(* The steps.                                                              *)

\* The cache operations keep the entries, which descriptors are open, and what
\* they refer to.
KeepsAll(state) ==
    /\ \A i \in FstIndices : SameEntry(superblock, state.superblock, i)
    /\ KeepsHandles(state.handles)

LEMMA IoStateKeepsAll == KeepsAll(IoState)
BY DEF KeepsAll, IoState, SameEntry, KeepsHandles

LEMMA FlushFileCacheKeepsAll == ASSUME TypeOK PROVE KeepsAll(FlushFileCache)
<1> DEFINE h     == handles[cache.handle]
           write == WriteFileData(superblock, nand, h.fst_index, cache.data,
                                  cache.chain_index, h.file_size)
           kept  == [handles EXCEPT
                        ![cache.handle].superblock_flush_needed = TRUE]
<1>1. CASE ~Dirty(cache)
  BY <1>1, IoStateKeepsAll DEF FlushFileCache
<1>2. CASE Dirty(cache)
  <2>1. cache.handle \in HandleIds /\ cache.data \in ClusterData
        /\ cache.chain_index \in U16
    BY <1>2 DEF TypeOK, Cache, Dirty
  <2>2. h.fst_index \in U16 /\ h.file_size \in U32
    BY <2>1 DEF TypeOK, Handle
  <2>3. \A i \in FstIndices : SameEntry(superblock, write.superblock, i)
    BY <2>2, WriteFileDataKeepsEntries DEF TypeOK
  <2>4. KeepsHandles(kept)
    BY HandleIdTypes DEF KeepsHandles, TypeOK, Handle
  <2>5. KeepsHandles(handles)
    BY DEF KeepsHandles
  <2>6. /\ FlushFileCache.superblock = write.superblock
        /\ FlushFileCache.handles \in {handles, kept}
    <3> HIDE DEF write
    <3> QED
      BY <1>2 DEF FlushFileCache, FlushNeeded, Written, WriteBack, IoState, write
  <2> HIDE DEF write, kept
  <2> QED
    BY <2>3, <2>4, <2>5, <2>6 DEF KeepsAll
<1> QED
  BY <1>1, <1>2

LEMMA PopulateFileCacheKeepsAll ==
    ASSUME TypeOK, NEW fd, NEW offset, NEW write
    PROVE  KeepsAll(PopulateFileCache(fd, offset, write))
<1> DEFINE populate == PopulateFileCache(fd, offset, write)
           flush    == FlushFileCache
<1>1. \/ populate = IoState
      \/ populate.superblock = flush.superblock /\ populate.handles = flush.handles
  <2>1. flush \in IoStates
    BY FlushFileCacheType
  <2> HIDE DEF flush
  <2> QED
    BY <2>1 DEF PopulateFileCache, Populated, IoStates, flush
<1> HIDE DEF populate, flush
<1> QED
  BY <1>1, IoStateKeepsAll, FlushFileCacheKeepsAll DEF KeepsAll, flush, populate

\* A namespace call changes no handle.
LEMMA FinishesSafe ==
    ASSUME TypeOK, OpenFilesAreFiles, NEW code, NEW sb, KeepsOpenFiles(sb),
           Finishes(code, sb)
    PROVE  \A fd \in Fds : StaysSafe(fd)
<1>1. superblock' = sb /\ handles' = handles
  BY DEF Finishes
<1>2. KeepsHandles(handles')
  BY <1>1 DEF KeepsHandles
<1> QED
  BY <1>1, <1>2, KeepingIsSafe

LEMMA NothingChanges == KeepsOpenFiles(superblock)
BY DEF KeepsOpenFiles, SameEntry

\* Create takes an entry that is not in use.
LEMMA CreateSafe ==
    ASSUME TypeOK, OpenFilesAreFiles, NEW fd \in HandleIds, NEW path \in Paths,
           NEW type \in {"file", "directory"}, NEW perm \in Permissions,
           Create(fd, path, type, perm)
    PROVE  \A k \in Fds : StaysSafe(k)
<1> DEFINE code   == CreateCode(fd, path, type)
           split  == SplitPath(path)
           parent == GetFstIndex(superblock, split.parent)
           child  == GetUnusedFstIndex(superblock)
<1>1. CASE code # "Success"
  BY <1>1, NothingChanges, FinishesSafe DEF Create
<1>2. CASE code = "Success"
  <2>1. parent # NIL /\ child # NIL
    BY <1>2 DEF CreateCode
  <2>2. /\ parent \in FstIndices /\ child \in FstIndices
        /\ superblock.fst[child].type = "none"
    BY <2>1, GetFstIndexType, GetUnusedFstIndexType
  <2>3. PICK entry \in FstEntry :
            Created(fd, path, type, perm) =
                NewChild(superblock, parent, child, entry)
    BY <1>2, CreatedEntry
  <2> DEFINE added == [superblock EXCEPT !.fst[child] = entry]
  <2>4. added \in Superblock
    BY FstUpdate DEF TypeOK
  <2>5. KeepsOpenFiles(Created(fd, path, type, perm))
    <3> SUFFICES ASSUME NEW k \in Fds, NEW i \in FstIndices, Opens(k, i)
                 PROVE  SameEntry(superblock, Created(fd, path, type, perm), i)
      BY DEF KeepsOpenFiles
    <3>1. i # child
      BY <2>2 DEF OpenFilesAreFiles, Opens, IsFile
    <3>2. SameEntry(superblock, added, i)
      <4> HIDE DEF child
      <4> QED
        BY <2>2, <3>1 DEF SameEntry, TypeOK, Superblock
    <3>3. SameEntry(added, [added EXCEPT !.fst[parent].sub = child], i)
      <4> HIDE DEF added, child, parent
      <4> QED
        BY <2>2, <2>4, SubKeepsEntries, PointersInRange
    <3> HIDE DEF added, child, parent
    <3> QED
      BY <2>3, <3>2, <3>3 DEF SameEntry, NewChild, added
  <2> QED
    BY <1>2, <2>5, FinishesSafe DEF Create
<1> QED
  BY <1>1, <1>2

\* Delete has checked that nothing of what it deletes is open.
LEMMA DeleteSafe ==
    ASSUME TypeOK, OpenFilesAreFiles, NEW fd \in HandleIds, NEW path \in Paths,
           Delete(fd, path)
    PROVE  \A k \in Fds : StaysSafe(k)
<1> DEFINE split   == SplitPath(path)
           parent  == GetFstIndex(superblock, split.parent)
           index   == ChildIndex(superblock, parent, split.file_name)
           deleted == DeleteContents(index)
           removed == RemoveFstEntryFromChain(deleted, parent, index)
<1>1. CASE DeleteCode(fd, path) # "Success"
  BY <1>1, NothingChanges, FinishesSafe DEF Delete
<1>2. CASE DeleteCode(fd, path) = "Success"
  <2>1. parent \in FstIndices /\ index \in FstIndices /\ Deletable(index)
    BY <1>2, GetFstIndexType, ChildIndexType DEF DeleteCode
  <2>2. KeepsOpenFiles(removed.sb)
    <3> HIDE DEF parent, index
    <3> QED
      BY <2>1, DeletionSafe DEF Deletable
  <2>3. Finishes(removed.code, removed.sb)
    BY <1>2 DEF Delete
  <2> HIDE DEF removed
  <2> QED
    BY <2>2, <2>3, FinishesSafe
<1> QED
  BY <1>1, <1>2

\* Linking an entry again changes the name and the type of no other.
LEMMA RelinkedKeepsOthers ==
    ASSUME NEW sb \in Superblock, NEW index \in FstIndices,
           NEW saved \in FstEntry, NEW parent \in FstIndices, NEW name,
           StoredName(name) \in Names, NEW i \in FstIndices, i # index
    PROVE  SameEntry(sb, Relinked(sb, index, saved, parent, name), i)
<1> DEFINE before == sb.fst[index]
           sib    == sb.fst[parent].sub
           entry  == [before EXCEPT
                         !.type = saved.type, !.owner = saved.owner,
                         !.group = saved.group, !.other = saved.other,
                         !.name = StoredName(name), !.sib = sib]
           linked == [sb EXCEPT !.fst[index] = entry]
<1>1. before \in FstEntry /\ sib \in U16
  BY DEF Superblock, FstEntry
<1>2. entry \in FstEntry
  <2> HIDE DEF before, sib
  <2> QED
    BY <1>1 DEF FstEntry
<1>3. linked \in Superblock /\ SameEntry(sb, linked, i)
  <2> HIDE DEF entry
  <2> QED
    BY <1>2, FstUpdate DEF SameEntry, Superblock
<1>4. SameEntry(linked, [linked EXCEPT !.fst[parent].sub = index], i)
  <2> HIDE DEF linked
  <2> QED
    BY <1>3, SubKeepsEntries, PointersInRange
<1>5. Relinked(sb, index, saved, parent, name) =
         [linked EXCEPT !.fst[parent].sub = index]
  BY Zenon DEF Relinked
<1> HIDE DEF linked
<1> QED
  BY <1>3, <1>4, <1>5 DEF SameEntry

\* Rename has checked that neither what it moves nor what it replaces is open.
\* Only the entry that moves changes its name.
LEMMA RenamedKeepsOpenFiles ==
    ASSUME TypeOK, OpenFilesAreFiles, NEW fd \in HandleIds,
           NEW old_path \in Paths, NEW new_path \in Paths,
           RenameCode(fd, old_path, new_path) = "Success"
    PROVE  KeepsOpenFiles(Renamed(old_path, new_path).sb)
<1> DEFINE old        == SplitPath(old_path)
           new        == SplitPath(new_path)
           old_parent == GetFstIndex(superblock, old.parent)
           new_parent == GetFstIndex(superblock, new.parent)
           index      == ChildIndex(superblock, old_parent, old.file_name)
           new_index  == ChildIndex(superblock, new_parent, new.file_name)
           replaced   == IF new_index = NIL
                         THEN [code |-> "Success", sb |-> superblock]
                         ELSE RemoveFstEntryFromChain(DeleteContents(new_index),
                                                      new_parent, new_index)
           saved      == replaced.sb.fst[index]
           unlinked   == RemoveFstEntryFromChain(replaced.sb, old_parent, index)
           relinked   == Relinked(unlinked.sb, index, saved, new_parent,
                                  new.file_name)
<1>1. /\ old_parent \in FstIndices /\ new_parent \in FstIndices
      /\ index \in FstIndices /\ ~InUse(index)
      /\ new_index # NIL => new_index \in FstIndices /\ ~InUse(new_index)
  BY GetFstIndexType, ChildIndexType DEF RenameCode, Deletable
<1>2. replaced.sb \in Superblock
  <2> HIDE DEF new_index, new_parent
  <2>1. CASE new_index = NIL
    BY <2>1 DEF TypeOK
  <2>2. CASE new_index # NIL
    BY <1>1, <2>2, DeleteContentsType, RemoveFstEntryFromChainType
  <2> QED
    BY <2>1, <2>2
<1>3. KeepsOpenFiles(replaced.sb)
  <2> HIDE DEF new_index, new_parent
  <2>1. CASE new_index = NIL
    BY <2>1, NothingChanges
  <2>2. CASE new_index # NIL
    BY <1>1, <2>2, DeletionSafe
  <2> QED
    BY <2>1, <2>2
<1>4. unlinked.sb \in Superblock
  <2> HIDE DEF replaced, old_parent, index
  <2> QED
    BY <1>1, <1>2, RemoveFstEntryFromChainType
<1> SUFFICES ASSUME NEW k \in Fds, NEW i \in FstIndices, Opens(k, i)
             PROVE  SameEntry(superblock, Renamed(old_path, new_path).sb, i)
  BY DEF KeepsOpenFiles
<1>5. i # index
  <2> HIDE DEF index
  <2> QED
    BY <1>1, OpenFileInUse
<1>6. SameEntry(superblock, replaced.sb, i)
  <2> HIDE DEF replaced
  <2> QED
    BY <1>3 DEF KeepsOpenFiles
<1>7. SameEntry(replaced.sb, unlinked.sb, i)
  <2> HIDE DEF replaced, old_parent, index
  <2> QED
    BY <1>1, <1>2, <1>5, UnlinkKeepsOthers
<1>8. SameEntry(unlinked.sb, relinked, i)
  <2>1. new_path # <<>>
    BY DEF RenameCode, IsValidNonRootPath
  <2>2. StoredName(new.file_name) \in Names
    BY <2>1, SplitPathType
  <2>3. saved \in FstEntry
    <3> HIDE DEF replaced, index
    <3> QED
      BY <1>1, <1>2 DEF Superblock
  <2> HIDE DEF new, saved, unlinked, index, new_parent
  <2> QED
    BY <1>1, <1>4, <1>5, <2>2, <2>3, RelinkedKeepsOthers
<1>9. Renamed(old_path, new_path) =
         IF replaced.code # "Success" THEN replaced
         ELSE IF unlinked.code # "Success" THEN unlinked
         ELSE [code |-> "Success", sb |-> relinked]
  BY Zenon DEF Renamed
<1> HIDE DEF replaced, unlinked, relinked
<1> QED
  BY <1>6, <1>7, <1>8, <1>9 DEF SameEntry

LEMMA RenameSafe ==
    ASSUME TypeOK, OpenFilesAreFiles, NEW fd \in HandleIds,
           NEW old_path \in Paths, NEW new_path \in Paths,
           Rename(fd, old_path, new_path)
    PROVE  \A k \in Fds : StaysSafe(k)
<1>1. CASE RenameCode(fd, old_path, new_path) # "Success"
  BY <1>1, NothingChanges, FinishesSafe DEF Rename
<1>2. CASE RenameCode(fd, old_path, new_path) = "Success"
  BY <1>2, RenamedKeepsOpenFiles, FinishesSafe DEF Rename
<1> QED
  BY <1>1, <1>2

LEMMA SetMetadataSafe ==
    ASSUME TypeOK, OpenFilesAreFiles, NEW fd \in HandleIds, NEW path \in Paths,
           NEW uid \in Uids, NEW gid \in Gids, NEW perm \in Permissions,
           SetMetadata(fd, path, uid, gid, perm)
    PROVE  \A k \in Fds : StaysSafe(k)
<1> DEFINE index == GetFstIndex(superblock, path)
           old   == superblock.fst[index]
           entry == SetAccessMode([old EXCEPT !.uid = uid, !.gid = gid], perm)
<1>1. CASE SetMetadataCode(fd, path, uid) # "Success"
  BY <1>1, NothingChanges, FinishesSafe DEF SetMetadata
<1>2. CASE SetMetadataCode(fd, path, uid) = "Success"
  <2>1. index \in FstIndices
    BY <1>2, GetFstIndexType DEF SetMetadataCode
  <2>2. old \in FstEntry
    BY <2>1 DEF TypeOK, Superblock
  <2>3. perm \in [owner : FileMode, group : FileMode, other : FileMode]
    BY FileSystemAssumption DEF FileSystemAssumption
  <2>4. entry \in FstEntry /\ entry.type = old.type /\ entry.name = old.name
    <3> HIDE DEF old
    <3> QED
      BY <2>2, <2>3 DEF SetAccessMode, FstEntry
  <2>5. \A i \in FstIndices :
           SameEntry(superblock, [superblock EXCEPT !.fst[index] = entry], i)
    <3> HIDE DEF entry, index
    <3> QED
      BY <2>1, <2>4, ReplaceKeepsEntries DEF TypeOK
  <2>6. Finishes(SetMetadataCode(fd, path, uid),
                 [superblock EXCEPT !.fst[index] = entry])
    BY <1>2, Zenon DEF SetMetadata
  <2> HIDE DEF entry, index
  <2> QED
    BY <2>5, <2>6, FinishesSafe DEF KeepsOpenFiles
<1> QED
  BY <1>1, <1>2

LEMMA OpenFsSafe ==
    ASSUME TypeOK, OpenFilesAreFiles, NEW uid, NEW gid, OpenFs(uid, gid)
    PROVE  \A k \in Fds : StaysSafe(k)
<1>1. CASE FreeHandles = {}
  <2>1. superblock' = superblock /\ handles' = handles
    BY <1>1 DEF OpenFs
  <2> QED
    BY <2>1, NothingChanges, KeepingIsSafe DEF KeepsHandles
<1>2. CASE FreeHandles # {}
  <2> DEFINE new == Least(FreeHandles)
  <2>1. new \in Fds /\ ~handles[new].opened
    BY <1>2, FreeHandleType
  <2>2. superblock' = superblock
        /\ handles' = [handles EXCEPT ![new] = AssignedHandle(uid, gid)]
    BY <1>2 DEF OpenFs
  <2>3. AssignedHandle(uid, gid).fst_index = NIL
    BY DEF AssignedHandle, NewHandle
  <2> HIDE DEF new
  <2> QED
    BY <2>1, <2>2, <2>3, HandleIdTypes
       DEF StaysSafe, OpenFilesAreFiles, SameEntry, TypeOK
<1> QED
  BY <1>1, <1>2

\* OpenFile has checked that what it opens is a file.
LEMMA OpenFileSafe ==
    ASSUME TypeOK, OpenFilesAreFiles, NEW uid \in Uids, NEW gid \in Gids,
           NEW path \in Paths, PlainPath(path), NEW mode,
           OpenFile(uid, gid, path, mode)
    PROVE  \A k \in Fds : StaysSafe(k)
<1> DEFINE index  == GetFstIndex(superblock, path)
           code   == OpenFileCode(uid, gid, path, mode)
           assigned == AssignedHandle(uid, gid)
           handle == [assigned EXCEPT
                         !.fst_index = index, !.mode = mode,
                         !.file_size = superblock.fst[index].size]
<1>1. CASE code # "Success"
  <2>1. superblock' = superblock /\ handles' = handles
    BY <1>1 DEF OpenFile
  <2> QED
    BY <2>1, NothingChanges, KeepingIsSafe DEF KeepsHandles
<1>2. CASE code = "Success"
  <2> DEFINE new == Least(FreeHandles)
  <2>1. new \in Fds /\ ~handles[new].opened
    BY <1>2, FreeHandleType DEF OpenFileCode
  <2>2. index \in FstIndices /\ IsFile(superblock.fst[index])
    BY <1>2, GetFstIndexType DEF OpenFileCode
  <2>3. superblock' = superblock /\ handles' = [handles EXCEPT ![new] = handle]
    BY <1>2 DEF OpenFile
  <2>4. handle.fst_index = index
    <3>1. assigned \in Handle
      BY AssignedHandleType
    <3> HIDE DEF assigned, index
    <3> QED
      BY <3>1 DEF Handle
  <2>5. Found(index)
    BY DEF Found
  <2> HIDE DEF new, handle, index
  <2> QED
    BY <2>1, <2>2, <2>3, <2>4, <2>5, HandleIdTypes
       DEF StaysSafe, OpenFilesAreFiles, SameEntry, TypeOK
<1> QED
  BY <1>1, <1>2

LEMMA CloseSafe ==
    ASSUME TypeOK, OpenFilesAreFiles, NEW fd \in HandleIds, Close(fd)
    PROVE  \A k \in Fds : StaysSafe(k)
<1> DEFINE flush == IF cache.handle = fd THEN FlushFileCache ELSE IoState
<1>1. flush \in IoStates /\ KeepsAll(flush)
  BY FlushFileCacheType, IoStateType, FlushFileCacheKeepsAll, IoStateKeepsAll
<1>2. \/ superblock' = superblock /\ handles' = handles
      \/ superblock' = flush.superblock /\ handles' = handles
      \/ /\ superblock' = flush.superblock
         /\ handles' = [flush.handles EXCEPT ![fd] = NewHandle]
  BY Zenon DEF Close
<1> HIDE DEF flush
<1>3. KeepsOpenFiles(superblock')
  BY <1>1, <1>2, NothingChanges DEF KeepsOpenFiles, KeepsAll
<1>4. CASE handles' = handles
  BY <1>3, <1>4, KeepingIsSafe DEF KeepsHandles
<1>5. CASE handles' = [flush.handles EXCEPT ![fd] = NewHandle]
  <2> SUFFICES ASSUME NEW k \in Fds PROVE StaysSafe(k)
    OBVIOUS
  <2>1. CASE k = fd
    <3>1. ~handles'[k].opened
      BY <1>1, <1>5, <2>1 DEF NewHandle, IoStates
    <3> QED
      BY <3>1 DEF StaysSafe
  <2>2. CASE k # fd
    <3>1. /\ handles'[k].opened = handles[k].opened
          /\ handles'[k].fst_index = handles[k].fst_index
      BY <1>1, <1>5, <2>2, HandleIdTypes DEF KeepsAll, KeepsHandles, IoStates
    <3> QED
      BY <1>3, <3>1 DEF StaysSafe, KeepsOpenFiles, Opens, OpenFilesAreFiles
  <2> QED
    BY <2>1, <2>2
<1> QED
  BY <1>2, <1>4, <1>5

LEMMA SeekFileSafe ==
    ASSUME TypeOK, OpenFilesAreFiles, NEW fd, NEW offset, NEW whence,
           SeekFile(fd, offset, whence)
    PROVE  \A k \in Fds : StaysSafe(k)
<1>1. superblock' = superblock
  BY DEF SeekFile
<1>2. KeepsHandles(handles')
  <2>1. PICK position : handles' \in {handles,
                                [handles EXCEPT ![fd].file_offset = position]}
    BY Zenon DEF SeekFile
  <2> QED
    BY <2>1, HandleIdTypes DEF KeepsHandles, TypeOK, Handle
<1> QED
  BY <1>1, <1>2, NothingChanges, KeepingIsSafe

LEMMA AdvanceSafe ==
    ASSUME TypeOK, OpenFilesAreFiles, call # Idle, NEW op,
           NEW write \in BOOLEAN, Advance(op, write)
    PROVE  \A k \in Fds : StaysSafe(k)
<1> DEFINE fd  == call.fd
           h   == handles[fd]
           pop == PopulateFileCache(fd, h.file_offset, write)
<1>1. fd \in HandleIds /\ h.file_offset \in U32
  BY DEF TypeOK, Call, Handle
<1>2. pop \in IoStates /\ KeepsAll(pop)
  <2> HIDE DEF fd
  <2> QED
    BY <1>1, PopulateFileCacheType, PopulateFileCacheKeepsAll
<1>3. superblock' = pop.superblock
  BY Zenon DEF Advance, Copy
<1> DEFINE length == CopyLength(h.file_offset, pop.cache)
           offset == (h.file_offset + length) % WordSize
           size   == IF h.file_size < offset THEN offset ELSE h.file_size
           moved  == [pop.handles EXCEPT
                         ![fd].file_offset = offset,
                         ![fd].file_size = IF write THEN size ELSE @]
<1>4. handles' \in {pop.handles, moved}
  <2>1. handles' = pop.handles \/ handles' = moved
    BY Zenon DEF Advance, Copy
  <2> HIDE DEF pop, moved
  <2> QED
    BY <2>1
<1>5. KeepsHandles(moved)
  <2> HIDE DEF pop, fd, offset, size
  <2> QED
    BY <1>2, HandleIdTypes DEF KeepsAll, KeepsHandles, IoStates, Handle
<1> HIDE DEF pop, fd, moved
<1>6. KeepsHandles(handles')
  BY <1>2, <1>4, <1>5 DEF KeepsAll
<1>7. KeepsOpenFiles(superblock')
  BY <1>2, <1>3 DEF KeepsAll, KeepsOpenFiles
<1> QED
  BY <1>6, <1>7, KeepingIsSafe

-----------------------------------------------------------------------------
(* The theorems.                                                           *)

LEMMA NextSafe ==
    ASSUME TypeOK, OpenFilesAreFiles, [Next]_vars
    PROVE  \A k \in Fds : StaysSafe(k)
<1>1. CASE NamespaceCall
  <2>1. PICK fd \in PathFds, path \in Paths :
            \/ \E perm \in Permissions : \/ CreateFile(fd, path, perm)
                                          \/ CreateDirectory(fd, path, perm)
            \/ Delete(fd, path)
            \/ \E new_path \in Paths : Rename(fd, path, new_path)
            \/ \E user \in Owners, perm \in Permissions :
                   SetMetadata(fd, path, user[1], user[2], perm)
    BY <1>1 DEF NamespaceCall, NamespaceCallOn
  <2>2. fd \in HandleIds
    BY FileSystemAssumption DEF FileSystemAssumption
  <2>3. CASE \E perm \in Permissions : \/ CreateFile(fd, path, perm)
                                       \/ CreateDirectory(fd, path, perm)
    BY <2>2, <2>3, CreateSafe DEF CreateFile, CreateDirectory
  <2>4. CASE Delete(fd, path)
    BY <2>2, <2>4, DeleteSafe
  <2>5. CASE \E new_path \in Paths : Rename(fd, path, new_path)
    BY <2>2, <2>5, RenameSafe
  <2>6. CASE \E user \in Owners, perm \in Permissions :
                SetMetadata(fd, path, user[1], user[2], perm)
    BY <2>2, <2>6, SetMetadataSafe, UserTypes
  <2> QED
    BY <2>1, <2>3, <2>4, <2>5, <2>6
<1>2. CASE OpenCall
  <2>1. CASE \E user \in FsUsers : OpenFs(user[1], user[2])
    BY <2>1, OpenFsSafe
  <2>2. CASE \E user \in Users, path \in Paths, mode \in OpenModes :
                PlainOpen(path, mode) /\ OpenFile(user[1], user[2], path, mode)
    BY <2>2, OpenFileSafe, UserTypes DEF PlainOpen
  <2> QED
    BY <1>2, <2>1, <2>2 DEF OpenCall
<1>3. CASE FileCall
  <2>1. PICK fd \in HandleIds :
            \/ Close(fd)
            \/ \E offset \in SeekOffsets, whence \in {"Set", "Current", "End"} :
                   SeekFile(fd, offset, whence)
            \/ \E count \in ReadCounts : ReadFile(fd, count)
            \/ \E count \in WriteCounts, byte \in Bytes :
                   WriteFile(fd, count, byte)
    BY <1>3 DEF FileCall
  <2>2. CASE Close(fd)
    BY <2>2, CloseSafe
  <2>3. CASE \E offset \in SeekOffsets, whence \in {"Set", "Current", "End"} :
                SeekFile(fd, offset, whence)
    BY <2>3, SeekFileSafe
  <2>4. CASE \/ \E count \in ReadCounts : ReadFile(fd, count)
             \/ \E count \in WriteCounts, byte \in Bytes :
                    WriteFile(fd, count, byte)
    <3>1. superblock' = superblock /\ handles' = handles
      BY <2>4 DEF ReadFile, WriteFile, Begin
    <3> QED
      BY <3>1, NothingChanges, KeepingIsSafe DEF KeepsHandles
  <2> QED
    BY <2>1, <2>2, <2>3, <2>4
<1>4. CASE FormatCall
  <2>1. \/ superblock' = superblock /\ handles' = handles
        \/ \A k \in Fds : ~handles'[k].opened
    BY <1>4, HandleIdTypes DEF FormatCall, Format, TypeOK, Handle
  <2> QED
    BY <2>1, NothingChanges, KeepingIsSafe DEF KeepsHandles, StaysSafe
<1>5. CASE ReadFileStep \/ WriteFileStep
  <2>1. call # Idle
    BY <1>5, RunningCall
  <2> QED
    BY <1>5, <2>1, AdvanceSafe, Zenon DEF ReadFileStep, WriteFileStep
<1>6. CASE Remount
  <2>1. \A k \in Fds : ~handles'[k].opened
    BY <1>6, HandleIdTypes DEF Remount, NewHandle
  <2> QED
    BY <2>1 DEF StaysSafe
<1>7. CASE UNCHANGED vars
  BY <1>7, NothingChanges, KeepingIsSafe DEF vars, KeepsHandles
<1> QED
  BY <1>1, <1>2, <1>3, <1>4, <1>5, <1>6, <1>7 DEF Next

LEMMA InitOpenFiles == Init => OpenFilesAreFiles
BY HandleIdTypes DEF Init, OpenFilesAreFiles, NewHandle

LEMMA NextOpenFiles ==
    TypeOK /\ OpenFilesAreFiles /\ [Next]_vars => OpenFilesAreFiles'
<1> SUFFICES ASSUME TypeOK, OpenFilesAreFiles, [Next]_vars
             PROVE  OpenFilesAreFiles'
  OBVIOUS
<1> SUFFICES ASSUME NEW fd \in Fds, handles'[fd].opened,
                    handles'[fd].fst_index # NIL
             PROVE  /\ handles'[fd].fst_index \in FstIndices
                    /\ IsFile(superblock'.fst[handles'[fd].fst_index])
  BY DEF OpenFilesAreFiles
<1>1. StaysSafe(fd)
  BY NextSafe
<1> QED
  BY <1>1 DEF StaysSafe, SameEntry, OpenFilesAreFiles, IsFile

\* An open descriptor of a file always refers to an entry that is a file: no
\* sequence of Delete, Rename, Create and Format, by any users, on any paths,
\* takes the file away from it.
THEOREM OpenFilesStayFiles == Spec => []OpenFilesAreFiles
<1>1. Init => TypeOK /\ OpenFilesAreFiles
  BY InitType, InitOpenFiles
<1>2. TypeOK /\ OpenFilesAreFiles /\ [Next]_vars =>
         TypeOK' /\ OpenFilesAreFiles'
  BY NextType, NextOpenFiles
<1> QED
  BY <1>1, <1>2, PTL DEF Spec

\* While a file is open, no step changes its name, which is in the salt of the
\* HMACs of its clusters.
THEOREM OpenFilesKeepNames == Spec => OpenFileKeepsName
<1>1. TypeOK /\ OpenFilesAreFiles /\ [Next]_vars =>
         [\A fd \in Fds :
             handles[fd].opened /\ handles'[fd].opened /\ HasFile(fd) =>
                 superblock'.fst[handles[fd].fst_index].name =
                     superblock.fst[handles[fd].fst_index].name]_vars
  BY NextSafe, NilIsNoIndex DEF StaysSafe, SameEntry, HasFile
<1>2. Spec => [](TypeOK /\ OpenFilesAreFiles)
  BY TypeCorrectness, OpenFilesStayFiles, PTL
<1> QED
  BY <1>1, <1>2, PTL DEF Spec, OpenFileKeepsName
=============================================================================
