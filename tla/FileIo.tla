------------------------------- MODULE FileIo -------------------------------
(***************************************************************************)
(* The state of FileSystemImpl, its handles, and the file calls: opening,  *)
(* closing, seeking, and reading and writing through the one-cluster       *)
(* write-back cache (file.cpp and the data path of low_level.cpp).         *)
(*                                                                         *)
(* Calls do not overlap: the library has no threads and no locks.  A call  *)
(* is one step, except ReadFile and WriteFile, whose loops are one step    *)
(* per round, so that the process may stop between two rounds.             *)
(*                                                                         *)
(* A cluster on the NAND is its data and the salt its HMAC was made with:  *)
(* the HMAC is valid when the salt is the one it is checked with.  AES and *)
(* ECC are left out.  FlushSuperblock is one assignment to `stored', the   *)
(* superblock a later mount loads.                                         *)
(***************************************************************************)
EXTENDS Sffs

CONSTANTS
    NumHandles,  \* size of the descriptor table (16)
    Bytes,       \* the values of a byte of data, 0 among them
    NoHandle,    \* a null m_cache_handle
    NoSalt       \* the spare area of a cluster that was never written

ASSUME FileIoAssumption ==
    /\ NumHandles \in Nat
    /\ 0 \in Bytes
    /\ NoHandle \notin 0..NumHandles

VARIABLES
    superblock, \* *m_superblock
    stored,     \* the superblock written last to the NAND
    nand,       \* the data clusters of the NAND
    handles,    \* m_handles, and m_internal_handle at INTERNAL_FD
    cache,      \* m_cache_handle, m_cache_chain_index, m_cache_data, ...
    call,       \* the call whose loop is being run
    result      \* the result code of the last call

vars == <<superblock, stored, nand, handles, cache, call, result>>

-----------------------------------------------------------------------------
(* Types.                                                                  *)

Fds == 0..(NumHandles - 1)
INTERNAL_FD == NumHandles
HandleIds == Fds \cup {INTERNAL_FD}

Handle == [opened : BOOLEAN, fst_index : U16, gid : Gids, uid : Uids,
           mode : FileMode, file_offset : U32, file_size : U32,
           superblock_flush_needed : BOOLEAN]

\* Handle{}
NewHandle == [opened |-> FALSE, fst_index |-> NIL, gid |-> 0, uid |-> 0,
              mode |-> {}, file_offset |-> 0, file_size |-> 0,
              superblock_flush_needed |-> FALSE]

\* The part of DataSalt that varies.
DataSalt == [uid : Uids, name : Names \cup {"", "/"}, chain_index : U16,
             fst_index : U16]

ClusterData == [1..CLUSTER_DATA_SIZE -> Bytes]
NandCluster == [data : ClusterData, salt : DataSalt \cup {NoSalt}]
ZeroData == [k \in 1..CLUSTER_DATA_SIZE |-> 0]

\* m_cache_data is empty or one cluster long.
Cache == [handle : HandleIds \cup {NoHandle}, chain_index : U16,
          data : ClusterData \cup {<<>>}, for_write : BOOLEAN]

EmptyCache == [handle |-> NoHandle, chain_index |-> NIL, data |-> <<>>,
               for_write |-> FALSE]

\* A running ReadFile or WriteFile; a written buffer is one repeated byte.
Call == [op : {"ReadFile", "WriteFile"}, fd : HandleIds, count : U32,
         done : U32, byte : Bytes]
Idle == [op |-> "None"]

\* "Undefined" is not a code of the source: it marks undefined behaviour.
ResultCode == {"Success", "Invalid", "AccessDenied", "AlreadyExists",
               "NotFound", "FstFull", "NoFreeSpace", "NoFreeHandle",
               "TooManyPathComponents", "InUse", "FileNotEmpty",
               "CheckFailed", "Undefined"}

-----------------------------------------------------------------------------
(* Handles.                                                                *)

\* GetHandleFromFd finds a handle.
IsOpen(fd) == fd = INTERNAL_FD \/ handles[fd].opened

HasFile(fd) == IsOpen(fd) /\ handles[fd].fst_index \in FstIndices

IsFileOpened(index) ==
    \E fd \in Fds : handles[fd].opened /\ handles[fd].fst_index = index

\* The traversal goes down into everything that is not a file.
IsDirectoryInUse(sb, directory) ==
    \E i \in Traversal(sb, directory, LAMBDA entry : ~IsFile(entry)) :
        IsFile(sb.fst[i]) /\ IsFileOpened(i)

FreeHandles == {fd \in Fds : ~handles[fd].opened}

\* AssignFreeHandle, called when FreeHandles is not empty.
AssignedHandle(uid, gid) ==
    [NewHandle EXCEPT !.opened = TRUE, !.uid = uid, !.gid = gid]

-----------------------------------------------------------------------------
(* The data path.                                                          *)

Salt(sb, index, chain_index) ==
    [uid |-> sb.fst[index].uid, name |-> sb.fst[index].name,
     chain_index |-> chain_index, fst_index |-> index]

\* Writes the data to the first free cluster, links it at chain_index in the
\* place of the old cluster, if any, and frees that one.
WriteFileData(sb, nd, index, data, chain_index, new_size) ==
    LET entry   == sb.fst[index]
        cluster == Least(UnusedClusters(sb))
        written == [nd EXCEPT ![cluster] =
                       [data |-> data, salt |-> Salt(sb, index, chain_index)]]
        old     == GetClusterForFile(sb, entry.sub, chain_index)
        prev    == GetClusterForFile(sb, entry.sub, chain_index - 1)
        linked  == IF chain_index = 0
                   THEN [sb EXCEPT !.fst[index].sub = cluster]
                   ELSE [sb EXCEPT !.fat[prev] = cluster]
        Fails(code, n) == [code |-> code, superblock |-> sb, nand |-> n]
    IN  IF index \notin FstIndices THEN Fails("Invalid", nd)
        ELSE IF ~IsFile(entry) \/ new_size <= entry.size
        THEN Fails("Invalid", nd)
        ELSE IF UnusedClusters(sb) = {} THEN Fails("NoFreeSpace", nd)
        ELSE IF chain_index # 0 /\ prev = NIL THEN Fails("Invalid", written)
        ELSE [code |-> "Success", nand |-> written,
              superblock |-> [linked EXCEPT
                                 !.fst[index].size = new_size,
                                 !.fat = ReplaceInChain(@, cluster, old)]]

\* An entry whose chain is shorter than its size makes the code dereference
\* an empty optional.
ReadFileData(sb, nd, index, chain_index) ==
    LET entry   == sb.fst[index]
        cluster == GetClusterForFile(sb, entry.sub, chain_index)
        Returns(code, data) == [code |-> code, data |-> data]
    IN  IF index \notin FstIndices THEN Returns("Invalid", <<>>)
        ELSE IF ~IsFile(entry) \/ entry.size <= chain_index * CLUSTER_DATA_SIZE
        THEN Returns("Invalid", <<>>)
        ELSE IF cluster = NIL THEN Returns("Undefined", <<>>)
        ELSE IF nd[cluster].salt # Salt(sb, index, chain_index)
        THEN Returns("CheckFailed", <<>>)
        ELSE Returns("Success", nd[cluster].data)

\* The state of the driver that the cache operations read and change.
IoState == [code |-> "Success", superblock |-> superblock, nand |-> nand,
            handles |-> handles, cache |-> cache]

\* A plausible bug: data that were only read are flushed too.
DirtyMutant(c) == c.handle # NoHandle /\ c.data # <<>>

Dirty(c) == c.handle # NoHandle /\ c.for_write /\ c.data # <<>>

\* m_cache_data is written to the file.
WriteBack ==
    LET h == handles[cache.handle]
    IN  WriteFileData(superblock, nand, h.fst_index, cache.data,
                      cache.chain_index, h.file_size)

\* The state after WriteFileData returned.
Written(write) == [IoState EXCEPT !.code = write.code, !.nand = write.nand,
                                  !.superblock = write.superblock]

\* A plausible bug: the handle does not learn that the superblock changed.
FlushFileCacheMutant == IF Dirty(cache) THEN Written(WriteBack) ELSE IoState

FlushNeeded(written) ==
    IF written.code = "Success"
    THEN [written EXCEPT !.handles[cache.handle].superblock_flush_needed = TRUE]
    ELSE written

FlushFileCache ==
    IF Dirty(cache) THEN FlushNeeded(Written(WriteBack)) ELSE IoState

\* A plausible bug: the index of a cluster is one too low.
ChainIndexOfMutant(offset) == (offset - 1) \div CLUSTER_DATA_SIZE

ChainIndexOf(offset) == (offset \div CLUSTER_DATA_SIZE) % 65536

\* A plausible bug: any cluster of the file will do.
CacheHitOfAnyCluster(fd, offset) == cache.handle = fd

CacheHit(fd, offset) ==
    cache.handle = fd /\ cache.chain_index = ChainIndexOf(offset)

\* A plausible bug: what the cache held is not flushed.
PopulateFileCacheMutant(fd, offset, write) ==
    LET index == ChainIndexOf(offset)
        read  == ReadFileData(superblock, nand, handles[fd].fst_index, index)
    IN  IF CacheHit(fd, offset) THEN IoState
        ELSE [IoState EXCEPT !.cache =
                [handle |-> fd, chain_index |-> index, for_write |-> write,
                 data |-> IF read.code = "Success" THEN read.data
                                                   ELSE ZeroData]]

\* After a flush the cache belongs to the caller, even when the cluster then
\* cannot be read: m_cache_data keeps what it held before.
Populated(flush, fd, offset, write) ==
    LET index == ChainIndexOf(offset)
        fresh == /\ offset % CLUSTER_DATA_SIZE = 0
                 /\ offset = handles[fd].file_size
        read  == ReadFileData(flush.superblock, flush.nand,
                              handles[fd].fst_index, index)
        With(code, data) ==
            [flush EXCEPT !.code = code,
                          !.cache = [handle |-> fd, chain_index |-> index,
                                     data |-> data, for_write |-> write]]
    IN  IF flush.code # "Success" THEN flush
        ELSE IF fresh THEN With("Success", ZeroData)
        ELSE IF read.code = "Success" THEN With("Success", read.data)
        ELSE With(read.code, cache.data)

PopulateFileCache(fd, offset, write) ==
    IF CacheHit(fd, offset) THEN IoState
    ELSE Populated(FlushFileCache, fd, offset, write)

-----------------------------------------------------------------------------
(* The calls.                                                              *)

\* The call ends with this result code.
Returns(code) == call' = Idle /\ result' = code

OpenFs(uid, gid) ==
    /\ call = Idle
    /\ IF FreeHandles = {}
       THEN Returns("NoFreeHandle") /\ UNCHANGED handles
       ELSE /\ Returns("Success")
            /\ handles' = [handles EXCEPT
                              ![Least(FreeHandles)] = AssignedHandle(uid, gid)]
    /\ UNCHANGED <<superblock, stored, nand, cache>>

OpenFileCode(uid, gid, path, mode) ==
    LET index == GetFstIndex(superblock, path)
    IN  IF ~IsValidNonRootPath(path) THEN "Invalid"
        ELSE IF index = NIL THEN "NotFound"
        ELSE IF ~IsFile(superblock.fst[index]) THEN "Invalid"
        ELSE IF ~HasPermission(superblock.fst[index], uid, gid, mode)
        THEN "AccessDenied"
        ELSE IF FreeHandles = {} THEN "NoFreeHandle"
        ELSE "Success"

\* The handle keeps its own copy of the size of the file.
OpenFile(uid, gid, path, mode) ==
    LET index == GetFstIndex(superblock, path)
        code  == OpenFileCode(uid, gid, path, mode)
    IN  /\ call = Idle
        /\ Returns(code)
        /\ IF code = "Success"
           THEN handles' = [handles EXCEPT ![Least(FreeHandles)] =
                   [AssignedHandle(uid, gid) EXCEPT
                       !.fst_index = index, !.mode = mode,
                       !.file_size = superblock.fst[index].size]]
           ELSE UNCHANGED handles
        /\ UNCHANGED <<superblock, stored, nand, cache>>

\* A handle whose data cannot be flushed stays open.
Close(fd) ==
    LET flush == IF cache.handle = fd THEN FlushFileCache ELSE IoState
    IN  /\ call = Idle
        /\ IF ~IsOpen(fd)
           THEN /\ Returns("Invalid")
                /\ UNCHANGED <<superblock, stored, nand, handles, cache>>
           ELSE /\ Returns(flush.code)
                /\ superblock' = flush.superblock
                /\ nand' = flush.nand
                /\ IF flush.code = "Success"
                   THEN /\ cache' = IF cache.handle = fd
                                    THEN [cache EXCEPT !.handle = NoHandle,
                                                       !.data = <<>>]
                                    ELSE cache
                        /\ stored' =
                              IF flush.handles[fd].superblock_flush_needed
                              THEN flush.superblock ELSE stored
                        /\ handles' = [flush.handles EXCEPT ![fd] = NewHandle]
                   ELSE UNCHANGED <<stored, handles, cache>>

SeekFile(fd, offset, whence) ==
    LET h == handles[fd]
        position == CASE whence = "Set"     -> offset
                      [] whence = "Current" ->
                             (h.file_offset + offset) % WordSize
                      [] whence = "End"     ->
                             (h.file_size + offset) % WordSize
    IN  /\ call = Idle
        /\ IF ~HasFile(fd) \/ h.file_size < position
           THEN Returns("Invalid") /\ UNCHANGED handles
           ELSE /\ Returns("Success")
                /\ handles' = [handles EXCEPT ![fd].file_offset = position]
        /\ UNCHANGED <<superblock, stored, nand, cache>>

\* The checks of ReadFile and WriteFile before their loops.
Begin(op, fd, access, count, byte) ==
    /\ call = Idle
    /\ IF ~HasFile(fd) THEN Returns("Invalid")
       ELSE IF access \notin handles[fd].mode THEN Returns("AccessDenied")
       ELSE IF count = 0 THEN Returns("Success")
       ELSE /\ call' = [op |-> op, fd |-> fd, count |-> count, done |-> 0,
                        byte |-> byte]
            /\ UNCHANGED result
    /\ UNCHANGED <<superblock, stored, nand, handles, cache>>

\* The sum wraps around, so a huge count is not cut.
ReadCount(fd, count) ==
    LET h == handles[fd]
    IN  IF (count + h.file_offset) % WordSize > h.file_size
        THEN (h.file_size - h.file_offset) % WordSize ELSE count

ReadFile(fd, count) ==
    Begin("ReadFile", fd, "Read", ReadCount(fd, count), 0)

WriteFile(fd, count, byte) == Begin("WriteFile", fd, "Write", count, byte)

\* The part of the cluster in m_cache_data that a round of a loop copies.
Minimum(a, b) == IF a < b THEN a ELSE b

\* A plausible bug: every round starts at the beginning of the cluster.
CopyStartMutant(offset, c) == 0

CopyStart(offset, c) == offset - c.chain_index * CLUSTER_DATA_SIZE

CopyLength(offset, c) ==
    Minimum(Len(c.data) - CopyStart(offset, c), call.count - call.done)

\* The rest of a round after PopulateFileCache returned: the bytes are copied and
\* the position advances.  A start past the end of m_cache_data is undefined
\* behaviour.
Copy(pop, write) ==
    LET fd     == call.fd
        h      == handles[fd]
        start  == CopyStart(h.file_offset, pop.cache)
        length == CopyLength(h.file_offset, pop.cache)
        offset == (h.file_offset + length) % WordSize
        done   == call.done + length
        data   == pop.cache.data
        copied == [k \in DOMAIN data |->
                      IF start < k /\ k <= start + length
                      THEN call.byte ELSE data[k]]
        size   == IF h.file_size < offset THEN offset ELSE h.file_size
    IN  /\ superblock' = pop.superblock
        /\ nand' = pop.nand
        /\ UNCHANGED stored
        /\ IF pop.code # "Success" \/ length < 0
           THEN /\ Returns(IF pop.code # "Success" THEN pop.code
                                                   ELSE "Undefined")
                /\ handles' = pop.handles
                /\ cache' = pop.cache
           ELSE /\ handles' = [pop.handles EXCEPT
                                  ![fd].file_offset = offset,
                                  ![fd].file_size = IF write THEN size ELSE @]
                /\ cache' = IF write THEN [pop.cache EXCEPT !.data = copied]
                                     ELSE pop.cache
                /\ IF done = call.count
                   THEN Returns("Success")
                   ELSE /\ call' = [call EXCEPT !.done = done]
                        /\ UNCHANGED result

\* A round of the loop of ReadFile or WriteFile.
Advance(op, write) ==
    /\ call.op = op
    /\ Copy(PopulateFileCache(call.fd, handles[call.fd].file_offset, write),
            write)

ReadFileStep  == Advance("ReadFile", FALSE)
WriteFileStep == Advance("WriteFile", TRUE)

FileStatus(fd) ==
    [size |-> handles[fd].file_size, offset |-> handles[fd].file_offset]

\* GetFileStatus changes nothing: an operator, not an action.
GetFileStatus(fd) ==
    IF ~HasFile(fd) THEN [code |-> "Invalid"]
    ELSE IF "Read" \notin handles[fd].mode THEN [code |-> "AccessDenied"]
    ELSE [code |-> "Success", status |-> FileStatus(fd)]
=============================================================================
