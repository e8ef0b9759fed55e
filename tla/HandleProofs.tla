----------------------------- MODULE HandleProofs -----------------------------
(***************************************************************************)
(* Descriptors, the cache they share, and what waits to be written: a      *)
(* change that is only in memory has an open descriptor that will flush    *)
(* it, every free cluster can be allocated, and no descriptor believes     *)
(* that its file is longer than it is.  The invariants: HandlesInv, the    *)
(* cache and a running call belong to open files; HasNoNil, no cell has a  *)
(* foreign mark for a free cluster; SizesInv, what each descriptor, its    *)
(* position and the pending data of the cache say of the size of a file.   *)
(***************************************************************************)
EXTENDS TreeProofs

-----------------------------------------------------------------------------
(* What the cache operations do to the superblock and to the handles.      *)

SameOwnerAndName(s1, s2, i) ==
    s1.fst[i].uid = s2.fst[i].uid /\ s1.fst[i].name = s2.fst[i].name

\* The entry of the file that is written gets its new size; owners and names stay.
WriteOutcome(sb, write, index, size) ==
    IF write.code # "Success" THEN write.superblock = sb
    ELSE /\ index \in FstIndices
         /\ \A i \in FstIndices : write.superblock.fst[i].size =
                IF i = index THEN size ELSE sb.fst[i].size
         /\ sb.fst[index].size < size
         /\ \A i \in FstIndices : SameOwnerAndName(write.superblock, sb, i)

LEMMA WriteOutcomes ==
    ASSUME NEW sb \in Superblock, NEW nd, NEW index \in U16, NEW data,
           NEW chain_index \in U16, NEW size \in U32
    PROVE  WriteOutcome(sb, WriteFileData(sb, nd, index, data, chain_index, size),
                        index, size)
<1> DEFINE cluster == Least(UnusedClusters(sb))
           old     == GetClusterForFile(sb, sb.fst[index].sub, chain_index)
           prev    == GetClusterForFile(sb, sb.fst[index].sub, chain_index - 1)
           linked  == IF chain_index = 0
                      THEN [sb EXCEPT !.fst[index].sub = cluster]
                      ELSE [sb EXCEPT !.fat[prev] = cluster]
           sized   == [linked EXCEPT !.fst[index].size = size]
           fat     == ReplaceInChain(linked.fat, cluster, old)
           final   == [sized EXCEPT !.fat = fat]
           write   == WriteFileData(sb, nd, index, data, chain_index, size)
<1>1. \/ write.code # "Success" /\ write.superblock = sb
      \/ /\ write.code = "Success" /\ write.superblock = final
         /\ index \in FstIndices /\ UnusedClusters(sb) # {}
         /\ ~(size <= sb.fst[index].size)
         /\ chain_index = 0 \/ prev # NIL
  BY DEF WriteFileData
<1> SUFFICES ASSUME /\ index \in FstIndices /\ UnusedClusters(sb) # {}
                    /\ ~(size <= sb.fst[index].size)
                    /\ chain_index = 0 \/ prev # NIL
             PROVE  /\ \A i \in FstIndices :
                          final.fst[i].size = IF i = index THEN size
                                                           ELSE sb.fst[i].size
                    /\ sb.fst[index].size < size
                    /\ \A i \in FstIndices : SameOwnerAndName(final, sb, i)
  <2> HIDE DEF write, final, prev
  <2> QED  BY <1>1 DEF write, WriteOutcome
<1>2. cluster \in U16
  BY UnusedClusterType, PointersInRange DEF UnusedClusters
<1>3. /\ linked \in Superblock
      /\ \A i \in FstIndices : linked.fst[i].size = sb.fst[i].size
      /\ \A i \in FstIndices : SameOwnerAndName(linked, sb, i)
  <2> HIDE DEF cluster, prev
  <2>1. CASE chain_index = 0
    <3> DEFINE before == sb.fst[index]
               entry  == [before EXCEPT !.sub = cluster]
    <3>1. before \in FstEntry
      BY DEF Superblock
    <3>2. /\ entry \in FstEntry /\ entry.size = before.size
          /\ entry.uid = before.uid /\ entry.name = before.name
      <4> HIDE DEF before
      <4> QED  BY <1>2, <3>1 DEF FstEntry
    <3>3. linked = [sb EXCEPT !.fst[index] = entry]
      BY <2>1
    <3> HIDE DEF entry, linked
    <3> QED  BY <3>2, <3>3 DEF Superblock, SameOwnerAndName
  <2>2. CASE chain_index # 0
    BY <1>2, <2>2 DEF Superblock, SameOwnerAndName
  <2> QED  BY <2>1, <2>2
<1>4. \A i \in FstIndices :
         /\ sized.fst[i].size = IF i = index THEN size ELSE sb.fst[i].size
         /\ SameOwnerAndName(sized, sb, i)
  <2> DEFINE before == linked.fst[index]
             entry  == [before EXCEPT !.size = size]
  <2>1. before \in FstEntry
    <3> HIDE DEF linked
    <3> QED  BY <1>3 DEF Superblock
  <2>2. /\ entry.size = size
        /\ entry.uid = before.uid /\ entry.name = before.name
    <3> HIDE DEF before
    <3> QED  BY <2>1 DEF FstEntry
  <2>3. sized = [linked EXCEPT !.fst[index] = entry]
    OBVIOUS
  <2> HIDE DEF linked, entry, sized
  <2> QED  BY <1>3, <2>2, <2>3 DEF Superblock, SameOwnerAndName
<1>5. final.fst = sized.fst
  <2>1. sized \in Superblock
    <3> HIDE DEF linked
    <3> QED  BY <1>3, SizeUpdate
  <2> HIDE DEF sized, fat
  <2> QED  BY <2>1 DEF Superblock
<1>6. sb.fst[index].size \in Nat /\ size \in Nat
  BY WordsAreNumbers DEF Superblock, FstEntry
<1> HIDE DEF final, sized
<1> QED  BY <1>4, <1>5, <1>6 DEF SameOwnerAndName

\* The handles are the same, but for what says that a flush is needed.
SameHandles(hs) ==
    \A k \in HandleIds :
        /\ hs[k].opened = handles[k].opened
        /\ hs[k].fst_index = handles[k].fst_index
        /\ hs[k].mode = handles[k].mode
        /\ hs[k].file_offset = handles[k].file_offset
        /\ hs[k].file_size = handles[k].file_size

LEMMA FlagFields ==
    ASSUME NEW hs \in [HandleIds -> Handle], NEW fd \in HandleIds,
           NEW k \in HandleIds
    PROVE  LET flagged == [hs EXCEPT ![fd].superblock_flush_needed = TRUE]
           IN  /\ flagged[k].opened = hs[k].opened
               /\ flagged[k].fst_index = hs[k].fst_index
               /\ flagged[k].mode = hs[k].mode
               /\ flagged[k].file_offset = hs[k].file_offset
               /\ flagged[k].file_size = hs[k].file_size
               /\ flagged[k].superblock_flush_needed =
                     IF k = fd THEN TRUE ELSE hs[k].superblock_flush_needed
BY DEF Handle

\* What a flush does.  It leaves no trace when it fails.
Flushed(flush) ==
    LET index == handles[cache.handle].fst_index
        size  == handles[cache.handle].file_size
    IN  /\ Dirty(cache) /\ flush.code = "Success"
        /\ \A k \in HandleIds : flush.handles[k].superblock_flush_needed =
              IF k = cache.handle THEN TRUE ELSE handles[k].superblock_flush_needed
        /\ index \in FstIndices
        /\ \A i \in FstIndices : flush.superblock.fst[i].size =
              IF i = index THEN size ELSE superblock.fst[i].size
        /\ superblock.fst[index].size < size

FlushOutcome(flush) ==
    /\ flush.cache = cache /\ SameHandles(flush.handles)
    /\ \/ /\ flush.superblock = superblock /\ flush.handles = handles
          /\ Dirty(cache) => flush.code # "Success"
       \/ Flushed(flush)

LEMMA FlushOutcomes == ASSUME TypeOK PROVE FlushOutcome(FlushFileCache)
<1> DEFINE flush == FlushFileCache
           index == handles[cache.handle].fst_index
           size  == handles[cache.handle].file_size
           write == WriteFileData(superblock, nand, index, cache.data,
                                  cache.chain_index, size)
           flagged == [handles EXCEPT
                          ![cache.handle].superblock_flush_needed = TRUE]
<1>1. flush.cache = cache
  BY FlushFileCacheType
<1>2. SameHandles(handles)
  BY DEF SameHandles
<1>3. CASE ~Dirty(cache)
  <2>1. flush.superblock = superblock /\ flush.handles = handles
    BY <1>3 DEF FlushFileCache, IoState
  <2> HIDE DEF flush
  <2> QED  BY <1>1, <1>2, <1>3, <2>1 DEF FlushOutcome, flush
<1>4. CASE Dirty(cache)
  <2>1. cache.handle \in HandleIds /\ cache.chain_index \in U16
    BY <1>4 DEF TypeOK, Cache, Dirty
  <2>2. index \in U16 /\ size \in U32 /\ superblock \in Superblock
        /\ handles \in [HandleIds -> Handle]
    BY <2>1 DEF TypeOK, Handle
  <2>3. WriteOutcome(superblock, write, index, size)
    <3> HIDE DEF index, size
    <3> QED  BY <2>1, <2>2, WriteOutcomes
  <2>4. /\ flush.code = write.code /\ flush.superblock = write.superblock
        /\ flush.handles = IF write.code = "Success" THEN flagged ELSE handles
    <3> HIDE DEF write
    <3> QED
      BY <1>4 DEF FlushFileCache, FlushNeeded, Written, WriteBack, IoState, write
  <2>5. \A k \in HandleIds :
           /\ flagged[k].opened = handles[k].opened
           /\ flagged[k].fst_index = handles[k].fst_index
           /\ flagged[k].mode = handles[k].mode
           /\ flagged[k].file_offset = handles[k].file_offset
           /\ flagged[k].file_size = handles[k].file_size
           /\ flagged[k].superblock_flush_needed =
                 IF k = cache.handle THEN TRUE
                                     ELSE handles[k].superblock_flush_needed
    BY <2>1, <2>2, FlagFields
  <2> HIDE DEF flush, write, flagged, index, size
  <2>6. CASE write.code # "Success"
    <3>1. flush.superblock = superblock /\ flush.handles = handles
          /\ flush.code # "Success"
      BY <2>3, <2>4, <2>6 DEF WriteOutcome
    <3> QED  BY <1>1, <1>2, <3>1 DEF FlushOutcome, flush
  <2>7. CASE write.code = "Success"
    <3>1. flush.handles = flagged /\ flush.code = "Success"
          /\ flush.superblock = write.superblock
      BY <2>4, <2>7
    <3>2. SameHandles(flush.handles)
      BY <2>5, <3>1 DEF SameHandles
    <3>3. /\ index \in FstIndices
          /\ \A i \in FstIndices : flush.superblock.fst[i].size =
                IF i = index THEN size ELSE superblock.fst[i].size
          /\ superblock.fst[index].size < size
      BY <2>3, <2>7, <3>1 DEF WriteOutcome
    <3>4. Flushed(flush)
      BY <1>4, <2>5, <3>1, <3>3 DEF Flushed, index, size
    <3> QED  BY <1>1, <3>2, <3>4 DEF FlushOutcome, flush
  <2> QED  BY <2>6, <2>7
<1> QED  BY <1>3, <1>4

\* After a miss that could flush, the cache belongs to the caller.
PopulateOutcome(pop, fd, offset, write) ==
    /\ pop.code \in ResultCode
    /\ IF CacheHit(fd, offset)
       THEN /\ pop.superblock = superblock /\ pop.handles = handles
            /\ pop.cache = cache
       ELSE /\ pop.superblock = FlushFileCache.superblock
            /\ pop.handles = FlushFileCache.handles
            /\ IF FlushFileCache.code # "Success"
               THEN pop.cache = cache /\ pop.code = FlushFileCache.code
               ELSE /\ pop.cache.handle = fd
                    /\ pop.cache.chain_index = ChainIndexOf(offset)
                    /\ pop.cache.for_write = write

LEMMA PopulateOutcomes ==
    ASSUME TypeOK, NEW fd \in HandleIds, NEW offset \in U32,
           NEW write \in BOOLEAN, NEW pop,
           pop = PopulateFileCache(fd, offset, write)
    PROVE  PopulateOutcome(pop, fd, offset, write)
<1> DEFINE flush == FlushFileCache
           With(code, data) ==
               [flush EXCEPT !.code = code,
                             !.cache = [handle |-> fd,
                                        chain_index |-> ChainIndexOf(offset),
                                        data |-> data, for_write |-> write]]
<1>1. flush \in IoStates /\ flush.cache = cache
  BY FlushFileCacheType
<1>2. pop \in IoStates
  BY PopulateFileCacheType
<1>3. CASE CacheHit(fd, offset)
  <2>1. pop = IoState
    BY <1>3 DEF PopulateFileCache
  <2> QED  BY <1>2, <1>3, <2>1 DEF PopulateOutcome, IoState, IoStates
<1>4. CASE ~CacheHit(fd, offset)
  <2>1. IF flush.code # "Success" THEN pop = flush
        ELSE \E code, data : pop = With(code, data)
    BY <1>4 DEF PopulateFileCache, Populated
  <2>2. ASSUME NEW code, NEW data, pop = With(code, data)
        PROVE  /\ pop.superblock = flush.superblock /\ pop.handles = flush.handles
               /\ pop.cache.handle = fd
               /\ pop.cache.chain_index = ChainIndexOf(offset)
               /\ pop.cache.for_write = write
    <3> HIDE DEF flush
    <3> QED  BY <1>1, <2>2 DEF IoStates
  <2> HIDE DEF With
  <2>3. pop.code \in ResultCode
    BY <1>2 DEF IoStates
  <2>4. IF flush.code # "Success" THEN pop = flush
        ELSE /\ pop.superblock = flush.superblock /\ pop.handles = flush.handles
             /\ pop.cache.handle = fd
             /\ pop.cache.chain_index = ChainIndexOf(offset)
             /\ pop.cache.for_write = write
    BY <2>1, <2>2
  <2> HIDE DEF flush
  <2> QED  BY <1>1, <1>4, <2>3, <2>4 DEF PopulateOutcome, flush
<1> QED  BY <1>3, <1>4

\* The data of a cluster after `length' bytes were written to it.
CopiedData(pop, length) ==
    LET start == CopyStart(handles[call.fd].file_offset, pop.cache)
    IN  [k \in DOMAIN pop.cache.data |->
            IF start < k /\ k <= start + length THEN call.byte
                                               ELSE pop.cache.data[k]]

\* A round that copies `length' bytes.
Advanced(pop, write, length) ==
    LET fd     == call.fd
        h      == handles[fd]
        offset == (h.file_offset + length) % WordSize
        size   == IF h.file_size < offset THEN offset ELSE h.file_size
    IN  /\ pop.code = "Success" /\ length <= call.count - call.done
        /\ length = CopyLength(h.file_offset, pop.cache)
        /\ length <= Len(pop.cache.data) - CopyStart(h.file_offset, pop.cache)
        /\ /\ pop.cache.data = <<>>
           /\ pop.cache.chain_index = ChainIndexOf(h.file_offset)
           => length = 0
        /\ \A k \in HandleIds :
              /\ handles'[k].opened = pop.handles[k].opened
              /\ handles'[k].fst_index = pop.handles[k].fst_index
              /\ handles'[k].mode = pop.handles[k].mode
              /\ handles'[k].superblock_flush_needed =
                    pop.handles[k].superblock_flush_needed
              /\ handles'[k].file_offset = IF k = fd THEN offset
                                           ELSE pop.handles[k].file_offset
              /\ handles'[k].file_size = IF k = fd /\ write THEN size
                                         ELSE pop.handles[k].file_size
        /\ cache'.handle = pop.cache.handle
        /\ cache'.chain_index = pop.cache.chain_index
        /\ cache'.for_write = pop.cache.for_write
        /\ cache'.data = <<>> <=> pop.cache.data = <<>>
        /\ ~write => cache' = pop.cache
        /\ write => cache'.data = CopiedData(pop, length)
        /\ \/ call' = Idle
           \/ /\ call' # Idle /\ call'.op = call.op /\ call'.fd = fd
              /\ call'.count = call.count /\ call'.done = call.done + length
              /\ call'.done # call.count /\ call'.byte = call.byte

AdvanceOutcome(pop, write) ==
    /\ superblock' = pop.superblock /\ stored' = stored
    /\ \/ /\ handles' = pop.handles /\ cache' = pop.cache /\ call' = Idle
          /\ pop.code # "Success" \/
             CopyLength(handles[call.fd].file_offset, pop.cache) < 0
       \/ \E length \in Nat : Advanced(pop, write, length)

\* A round never starts before the cluster in the cache.
LEMMA CopyStartsInCluster ==
    ASSUME NEW offset \in U32, NEW c, c.chain_index = ChainIndexOf(offset)
    PROVE  CopyStart(offset, c) >= 0
<1> DEFINE q == offset \div CLUSTER_DATA_SIZE
           m == q % 65536
<1>1. offset \in Nat /\ CLUSTER_DATA_SIZE \in Nat /\ CLUSTER_DATA_SIZE > 0
  BY WordsAreNumbers, SffsAssumption DEF SffsAssumption
<1>2. q \in Nat /\ q * CLUSTER_DATA_SIZE <= offset
  BY <1>1, SMT
<1>3. m \in Nat /\ m <= q
  <2> HIDE DEF q
  <2> QED  BY <1>2, SMT
<1>4. m * CLUSTER_DATA_SIZE <= q * CLUSTER_DATA_SIZE
  <2> HIDE DEF q, m
  <2> QED  BY <1>1, <1>2, <1>3, SMT
<1>5. m * CLUSTER_DATA_SIZE \in Nat /\ q * CLUSTER_DATA_SIZE \in Nat
  <2> HIDE DEF q, m
  <2> QED  BY <1>1, <1>2, <1>3
<1>6. CopyStart(offset, c) = offset - m * CLUSTER_DATA_SIZE
  BY DEF CopyStart, ChainIndexOf
<1> HIDE DEF q, m
<1> QED  BY <1>1, <1>2, <1>4, <1>5, <1>6

LEMMA AdvanceOutcomes ==
    ASSUME TypeOK, call # Idle, NEW op, NEW write \in BOOLEAN, NEW pop,
           pop = PopulateFileCache(call.fd, handles[call.fd].file_offset, write),
           Advance(op, write)
    PROVE  AdvanceOutcome(pop, write)
<1> DEFINE fd     == call.fd
           h      == handles[fd]
           start  == CopyStart(h.file_offset, pop.cache)
           length == CopyLength(h.file_offset, pop.cache)
           offset == (h.file_offset + length) % WordSize
           done   == call.done + length
           data   == pop.cache.data
           copied == [k \in DOMAIN data |->
                         IF start < k /\ k <= start + length
                         THEN call.byte ELSE data[k]]
           size   == IF h.file_size < offset THEN offset ELSE h.file_size
<1>1. call \in Call /\ fd \in HandleIds
      /\ call.done \in U32 /\ call.count \in U32
  BY DEF TypeOK, Call
<1>2. h.file_offset \in U32 /\ h.file_size \in U32
  BY <1>1 DEF TypeOK, Handle
<1>3. pop \in IoStates
  BY <1>1, <1>2, PopulateFileCacheType
<1>4. superblock' = pop.superblock /\ stored' = stored
  BY Zenon DEF Advance, Copy
<1>5. CASE pop.code # "Success" \/ length < 0
  <2>1. handles' = pop.handles /\ cache' = pop.cache /\ call' = Idle
    BY <1>5, Zenon DEF Advance, Copy, Returns
  <2> QED  BY <1>4, <1>5, <2>1, Zenon DEF AdvanceOutcome
<1>6. CASE pop.code = "Success" /\ ~(length < 0)
  <2>1. /\ handles' = [pop.handles EXCEPT
                          ![fd].file_offset = offset,
                          ![fd].file_size = IF write THEN size ELSE @]
        /\ cache' = IF write THEN [pop.cache EXCEPT !.data = copied]
                             ELSE pop.cache
        /\ IF done = call.count THEN call' = Idle
           ELSE call' = [call EXCEPT !.done = done]
    BY <1>6, Zenon DEF Advance, Copy, Returns
  <2>2. /\ length \in Nat /\ length <= call.count - call.done
        /\ length <= Len(data) - start
    <3>1. Len(data) \in Nat /\ pop.cache.chain_index \in Nat
      <4>1. /\ pop.cache.data \in ClusterData \cup {<<>>}
            /\ pop.cache.chain_index \in U16
        BY <1>3 DEF IoStates, Cache
      <4> QED  BY <4>1, DataLength, PointersAreNumbers
    <3>2. h.file_offset \in Nat /\ call.count \in Nat /\ call.done \in Nat
      <4> HIDE DEF h
      <4> QED  BY <1>1, <1>2, WordsAreNumbers
    <3>3. start \in Int
      <4> HIDE DEF h
      <4> QED  BY <3>1, <3>2, SffsAssumption DEF SffsAssumption, CopyStart
    <3>4. length = Minimum(Len(data) - start, call.count - call.done)
      BY DEF CopyLength
    <3> HIDE DEF start, length, data
    <3> QED  BY <1>6, <3>1, <3>2, <3>3, <3>4 DEF Minimum
  <2>3. h.file_offset \in Nat
    <3> HIDE DEF h
    <3> QED  BY <1>2, WordsAreNumbers
  <2>4. offset \in U32
    <3>1. h.file_offset + length \in Int
      <4> HIDE DEF h, length
      <4> QED  BY <2>2, <2>3
    <3> HIDE DEF h, length
    <3> QED  BY <3>1, WrapType
  <2>5. size \in U32
    <3> HIDE DEF h, offset
    <3> QED  BY <1>2, <2>4
  <2>6. \A k \in HandleIds :
           /\ handles'[k].opened = pop.handles[k].opened
           /\ handles'[k].fst_index = pop.handles[k].fst_index
           /\ handles'[k].mode = pop.handles[k].mode
           /\ handles'[k].superblock_flush_needed =
                 pop.handles[k].superblock_flush_needed
           /\ handles'[k].file_offset = IF k = fd THEN offset
                                        ELSE pop.handles[k].file_offset
           /\ handles'[k].file_size = IF k = fd /\ write THEN size
                                      ELSE pop.handles[k].file_size
    <3>1. pop.handles \in [HandleIds -> Handle]
      BY <1>3 DEF IoStates
    <3> DEFINE moved == [pop.handles EXCEPT
                            ![fd].file_offset = offset,
                            ![fd].file_size = IF write THEN size ELSE @]
    <3>2. handles' = moved
      BY <2>1
    <3>3. ASSUME NEW k \in HandleIds
          PROVE  /\ moved[k].opened = pop.handles[k].opened
                 /\ moved[k].fst_index = pop.handles[k].fst_index
                 /\ moved[k].mode = pop.handles[k].mode
                 /\ moved[k].superblock_flush_needed =
                       pop.handles[k].superblock_flush_needed
                 /\ moved[k].file_offset = IF k = fd THEN offset
                                           ELSE pop.handles[k].file_offset
                 /\ moved[k].file_size = IF k = fd /\ write THEN size
                                         ELSE pop.handles[k].file_size
      <4> HIDE DEF fd, offset, size
      <4> QED  BY <1>1, <2>4, <2>5, <3>1 DEF Handle
    <3> HIDE DEF moved, fd, offset, size
    <3> QED  BY <3>2, <3>3
  <2>7. /\ cache'.handle = pop.cache.handle
        /\ cache'.chain_index = pop.cache.chain_index
        /\ cache'.for_write = pop.cache.for_write
        /\ cache'.data = <<>> <=> data = <<>>
    <3>1. pop.cache \in Cache
      BY <1>3 DEF IoStates
    <3>2. copied = <<>> <=> data = <<>>
      <4>1. data \in ClusterData \cup {<<>>}
        BY <3>1 DEF Cache
      <4>2. ASSUME data \in ClusterData PROVE data # <<>> /\ copied # <<>>
        <5>1. DOMAIN data = 1..CLUSTER_DATA_SIZE
          BY <4>2 DEF ClusterData
        <5>2. 1 \in 1..CLUSTER_DATA_SIZE
          BY SffsAssumption DEF SffsAssumption
        <5>3. DOMAIN copied = DOMAIN data
          OBVIOUS
        <5>4. DOMAIN <<>> = {}
          OBVIOUS
        <5> HIDE DEF copied, data
        <5> QED  BY <5>1, <5>2, <5>3, <5>4
      <4>3. data = <<>> => copied = <<>>
        <5> HIDE DEF start, length
        <5> QED  OBVIOUS
      <4> HIDE DEF copied, data
      <4> QED  BY <4>1, <4>2, <4>3
    <3> HIDE DEF copied
    <3> QED  BY <2>1, <3>1, <3>2 DEF Cache
  <2>8. \/ call' = Idle
        \/ /\ call' # Idle /\ call'.op = call.op /\ call'.fd = fd
           /\ call'.count = call.count /\ call'.done = done
           /\ call'.done # call.count /\ call'.byte = call.byte
    <3>1. ASSUME NEW n, NEW c, c = [call EXCEPT !.done = n]
          PROVE  /\ c.op = call.op /\ c.fd = call.fd /\ c.count = call.count
                 /\ c.done = n /\ c.byte = call.byte
      BY <1>1, <3>1 DEF Call
    <3> HIDE DEF done
    <3>2. CASE done # call.count /\ call' = [call EXCEPT !.done = done]
      <4>1. call' # Idle
        BY <1>1, <3>2 DEF Call, Idle
      <4> QED  BY <3>1, <3>2, <4>1
    <3> QED  BY <2>1, <3>2
  <2>9. /\ data = <<>>
        /\ pop.cache.chain_index = ChainIndexOf(h.file_offset)
        => length = 0
    <3> SUFFICES ASSUME data = <<>>,
                        pop.cache.chain_index = ChainIndexOf(h.file_offset)
                 PROVE  length = 0
      OBVIOUS
    <3>1. start >= 0 /\ start \in Int
      <4>1. pop.cache.chain_index \in Nat
        BY <1>3, PointersAreNumbers DEF IoStates, Cache
      <4>2. start \in Int
        <5> HIDE DEF h
        <5> QED  BY <2>3, <4>1, SffsAssumption DEF SffsAssumption, CopyStart
      <4> HIDE DEF h
      <4> QED  BY <1>2, <4>2, CopyStartsInCluster
    <3>2. length = Minimum(0 - start, call.count - call.done)
      BY DEF CopyLength
    <3>3. call.count \in Nat /\ call.done \in Nat
      BY <1>1, WordsAreNumbers
    <3> HIDE DEF start, length, data
    <3> QED  BY <2>2, <3>1, <3>2, <3>3 DEF Minimum
  <2>10. Advanced(pop, write, length)
    <3>1. ~write => cache' = pop.cache
      BY <2>1
    <3>2. write => cache'.data = CopiedData(pop, length)
      <4>1. pop.cache \in Cache
        BY <1>3 DEF IoStates
      <4>2. copied = CopiedData(pop, length)
        BY DEF CopiedData
      <4> HIDE DEF copied
      <4> QED  BY <2>1, <4>1, <4>2 DEF Cache
    <3>3. length = CopyLength(h.file_offset, pop.cache)
      OBVIOUS
    <3> HIDE DEF length
    <3> QED  BY <1>6, <2>2, <3>1, <3>2, <3>3, <2>6, <2>7, <2>8, <2>9 DEF Advanced
  <2> HIDE DEF length
  <2> QED  BY <1>4, <2>2, <2>10 DEF AdvanceOutcome
<1> QED
  <2> HIDE DEF length
  <2> QED  BY <1>5, <1>6

\* What Close does.  When the data cannot be flushed nothing changes.
ClosedWithCache(flush, fd) ==
    /\ cache.handle = fd /\ flush.code = "Success"
    /\ superblock' = flush.superblock
    /\ cache'.handle = NoHandle /\ cache'.data = <<>>
    /\ stored' = IF flush.handles[fd].superblock_flush_needed
                 THEN flush.superblock ELSE stored
    /\ \A k \in HandleIds :
          handles'[k] = IF k = fd THEN NewHandle ELSE flush.handles[k]

ClosedWithout(fd) ==
    /\ cache.handle # fd
    /\ superblock' = superblock /\ cache' = cache
    /\ stored' = IF handles[fd].superblock_flush_needed
                 THEN superblock ELSE stored
    /\ \A k \in HandleIds :
          handles'[k] = IF k = fd THEN NewHandle ELSE handles[k]

CloseOutcome(flush, fd) ==
    /\ call = Idle /\ call' = Idle
    /\ \/ UNCHANGED <<superblock, stored, handles, cache>>
       \/ ClosedWithCache(flush, fd)
       \/ ClosedWithout(fd)

LEMMA CloseOutcomes ==
    ASSUME TypeOK, NEW fd \in HandleIds, Close(fd)
    PROVE  CloseOutcome(FlushFileCache, fd)
<1> DEFINE flush == IF cache.handle = fd THEN FlushFileCache ELSE IoState
<1>1. call = Idle /\ call' = Idle
  BY Zenon DEF Close, Returns
<1>2. flush \in IoStates
  BY FlushFileCacheType, IoStateType
<1>3. CASE ~IsOpen(fd)
  BY <1>1, <1>3, Zenon DEF Close, CloseOutcome
<1>4. CASE IsOpen(fd) /\ flush.code # "Success"
  <2>1. superblock' = flush.superblock /\ UNCHANGED <<stored, handles, cache>>
    BY <1>4, Zenon DEF Close
  <2>2. cache.handle = fd /\ flush = FlushFileCache
    BY <1>4 DEF IoState
  <2>3. flush.superblock = superblock
    <3> HIDE DEF flush
    <3> QED  BY <1>4, <2>2, FlushOutcomes DEF FlushOutcome, Flushed
  <2> HIDE DEF flush
  <2> QED  BY <1>1, <2>1, <2>3 DEF CloseOutcome
<1>5. CASE IsOpen(fd) /\ flush.code = "Success"
  <2>1. /\ superblock' = flush.superblock
        /\ cache' = IF cache.handle = fd
                    THEN [cache EXCEPT !.handle = NoHandle, !.data = <<>>]
                    ELSE cache
        /\ stored' = IF flush.handles[fd].superblock_flush_needed
                     THEN flush.superblock ELSE stored
        /\ handles' = [flush.handles EXCEPT ![fd] = NewHandle]
    BY <1>5, Zenon DEF Close
  <2>2. \A k \in HandleIds :
           handles'[k] = IF k = fd THEN NewHandle ELSE flush.handles[k]
    <3> HIDE DEF flush
    <3> QED  BY <1>2, <2>1 DEF IoStates
  <2>3. CASE cache.handle = fd
    <3>1. flush = FlushFileCache
      BY <2>3
    <3>2. cache'.handle = NoHandle /\ cache'.data = <<>>
      <4>1. cache \in Cache
        BY DEF TypeOK
      <4> HIDE DEF flush
      <4> QED  BY <2>1, <2>3, <4>1 DEF Cache
    <3>3. ClosedWithCache(flush, fd)
      <4> HIDE DEF flush
      <4> QED  BY <1>5, <2>1, <2>2, <2>3, <3>2 DEF ClosedWithCache
    <3> HIDE DEF flush
    <3> QED  BY <1>1, <3>1, <3>3 DEF CloseOutcome
  <2>4. CASE cache.handle # fd
    <3>1. flush.superblock = superblock /\ flush.handles = handles
      BY <2>4 DEF IoState
    <3> HIDE DEF flush
    <3>2. ClosedWithout(fd)
      BY <2>1, <2>2, <2>4, <3>1 DEF ClosedWithout
    <3> QED  BY <1>1, <3>2 DEF CloseOutcome
  <2> QED  BY <2>3, <2>4
<1> QED
  <2> HIDE DEF flush
  <2> QED  BY <1>3, <1>4, <1>5

-----------------------------------------------------------------------------
(* What the namespace calls do to the FAT, to the sizes and to the owners. *)

\* A cell is as before or free now, and every entry has the size and the owner it
\* had.
OnlyFrees(s1, s2) ==
    /\ \A c \in Clusters : s2.fat[c] \in {s1.fat[c], CLUSTER_UNUSED}
    /\ \A i \in FstIndices : /\ s2.fst[i].size = s1.fst[i].size
                             /\ s2.fst[i].uid = s1.fst[i].uid

LEMMA OnlyFreesTransitive ==
    ASSUME NEW s1, NEW s2, NEW s3, OnlyFrees(s1, s2), OnlyFrees(s2, s3)
    PROVE  OnlyFrees(s1, s3)
BY DEF OnlyFrees

LEMMA ReplaceOnlyFrees ==
    ASSUME NEW sb \in Superblock, NEW k \in FstIndices, NEW entry,
           entry.size = sb.fst[k].size, entry.uid = sb.fst[k].uid
    PROVE  OnlyFrees(sb, [sb EXCEPT !.fst[k] = entry])
BY DEF OnlyFrees, Superblock

LEMMA SizeKept ==
    ASSUME NEW entry \in FstEntry, NEW pointer
    PROVE  /\ [entry EXCEPT !.sub = pointer].size = entry.size
           /\ [entry EXCEPT !.sib = pointer].size = entry.size
           /\ ClearMode(entry).size = entry.size
           /\ [entry EXCEPT !.sub = pointer].uid = entry.uid
           /\ [entry EXCEPT !.sib = pointer].uid = entry.uid
           /\ ClearMode(entry).uid = entry.uid
BY DEF FstEntry, ClearMode

LEMMA LinksOnlyFree ==
    ASSUME NEW sb \in Superblock, NEW k \in FstIndices, NEW pointer
    PROVE  /\ OnlyFrees(sb, [sb EXCEPT !.fst[k].sub = pointer])
           /\ OnlyFrees(sb, [sb EXCEPT !.fst[k].sib = pointer])
           /\ OnlyFrees(sb, Cleared(sb, k))
<1> DEFINE old == sb.fst[k]
           sub == [old EXCEPT !.sub = pointer]
           sib == [old EXCEPT !.sib = pointer]
           off == ClearMode(old)
<1>1. old \in FstEntry
  BY DEF Superblock
<1>2. /\ sub.size = old.size /\ sib.size = old.size /\ off.size = old.size
      /\ sub.uid = old.uid /\ sib.uid = old.uid /\ off.uid = old.uid
  BY <1>1, SizeKept
<1> HIDE DEF sub, sib, off
<1>3. /\ OnlyFrees(sb, [sb EXCEPT !.fst[k] = sub])
      /\ OnlyFrees(sb, [sb EXCEPT !.fst[k] = sib])
      /\ OnlyFrees(sb, [sb EXCEPT !.fst[k] = off])
  BY <1>2, ReplaceOnlyFrees
<1> QED  BY <1>3 DEF Cleared, sub, sib, off

LEMMA RemovalOnlyFrees ==
    ASSUME NEW sb \in Superblock, NEW parent \in FstIndices,
           NEW child \in FstIndices
    PROVE  OnlyFrees(sb, RemoveFstEntryFromChain(sb, parent, child).sb)
<1> DEFINE next     == sb.fst[child].sib
           previous == {p \in Children(sb, parent) : sb.fst[p].sib = child}
           before   == CHOOSE p \in previous : TRUE
           first    == [sb EXCEPT !.fst[parent].sub = next]
           later    == [sb EXCEPT !.fst[before].sib = next]
<1>1. LET removed == RemoveFstEntryFromChain(sb, parent, child).sb
      IN  \/ removed \in {Cleared(first, child), sb}
          \/ previous # {} /\ removed = Cleared(later, child)
  BY DEF RemoveFstEntryFromChain
<1>2. OnlyFrees(sb, sb) /\ next \in U16
  BY DEF OnlyFrees, Superblock, FstEntry
<1>3. first \in Superblock /\ OnlyFrees(sb, first)
  <2> HIDE DEF next
  <2> QED  BY <1>2, SubUpdate, LinksOnlyFree
<1>4. previous # {} => later \in Superblock /\ OnlyFrees(sb, later)
  <2>1. previous # {} => before \in FstIndices
    BY ChildrenType
  <2> HIDE DEF next, before, previous
  <2> QED  BY <1>2, <2>1, SibUpdate, LinksOnlyFree
<1> HIDE DEF first, later, previous
<1>5. /\ OnlyFrees(first, Cleared(first, child))
      /\ previous # {} => OnlyFrees(later, Cleared(later, child))
  BY <1>3, <1>4, LinksOnlyFree
<1> QED  BY <1>1, <1>2, <1>3, <1>4, <1>5, OnlyFreesTransitive

LEMMA ContentsOnlyFree ==
    ASSUME TypeOK, NEW index \in FstIndices
    PROVE  OnlyFrees(superblock, DeleteContents(index))
<1> DEFINE deleted == DeleteContents(index)
           freed == UNION {ClusterChain(superblock, superblock.fst[f].sub) :
                               f \in Emptied(index)}
<1>1. /\ \A i \in FstIndices :
            deleted.fst[i] = IF i \in Emptied(index)
                             THEN ClearMode(superblock.fst[i])
                             ELSE superblock.fst[i]
      /\ deleted.fat = FreeClusters(superblock.fat, freed)
  BY ContentsCleared
<1>2. \A i \in FstIndices :
         /\ ClearMode(superblock.fst[i]).size = superblock.fst[i].size
         /\ ClearMode(superblock.fst[i]).uid = superblock.fst[i].uid
  BY SizeKept DEF TypeOK, Superblock
<1> HIDE DEF deleted, freed
<1> QED  BY <1>1, <1>2 DEF OnlyFrees, FreeClusters, deleted

LEMMA RelinkedOnlyFrees ==
    ASSUME NEW sb \in Superblock, NEW index \in FstIndices,
           NEW saved \in FstEntry, NEW parent \in FstIndices, NEW name,
           StoredName(name) \in Names
    PROVE  OnlyFrees(sb, Relinked(sb, index, saved, parent, name))
<1> DEFINE old    == sb.fst[index]
           sib    == sb.fst[parent].sub
           entry  == [old EXCEPT
                         !.type = saved.type, !.owner = saved.owner,
                         !.group = saved.group, !.other = saved.other,
                         !.name = StoredName(name), !.sib = sib]
           linked == [sb EXCEPT !.fst[index] = entry]
<1>1. old \in FstEntry /\ sib \in U16
  BY DEF Superblock, FstEntry
<1>2. entry \in FstEntry /\ entry.size = old.size /\ entry.uid = old.uid
  <2> HIDE DEF old, sib
  <2> QED  BY <1>1 DEF FstEntry
<1>3. linked \in Superblock /\ OnlyFrees(sb, linked)
  <2> HIDE DEF entry
  <2> QED  BY <1>2, FstUpdate, ReplaceOnlyFrees
<1>4. OnlyFrees(linked, [linked EXCEPT !.fst[parent].sub = index])
  <2> HIDE DEF linked
  <2> QED  BY <1>3, LinksOnlyFree
<1>5. Relinked(sb, index, saved, parent, name) =
         [linked EXCEPT !.fst[parent].sub = index]
  BY Zenon DEF Relinked
<1> HIDE DEF linked
<1> QED  BY <1>3, <1>4, <1>5, OnlyFreesTransitive

\* The edit of a call: the entries in use keep their sizes.
NamespaceEdit(sb) ==
    /\ \A c \in Clusters : sb.fat[c] \in {superblock.fat[c], CLUSTER_UNUSED}
    /\ \A i \in FstIndices : superblock.fst[i].type # "none" =>
          sb.fst[i].size = superblock.fst[i].size

NamespaceStep ==
    /\ NamespaceEdit(superblock') /\ call = Idle /\ call' = Idle
    /\ UNCHANGED <<nand, handles, cache>>

LEMMA NoEdit == NamespaceEdit(superblock)
BY DEF NamespaceEdit

LEMMA FreeingIsEdit ==
    ASSUME NEW sb, OnlyFrees(superblock, sb) PROVE NamespaceEdit(sb)
BY DEF OnlyFrees, NamespaceEdit

LEMMA FinishesStep ==
    ASSUME NEW code, NEW sb, NamespaceEdit(sb), Finishes(code, sb)
    PROVE  NamespaceStep
BY DEF Finishes, NamespaceStep, Returns

LEMMA CreateStep ==
    ASSUME TypeOK, NEW fd \in HandleIds, NEW path \in Paths,
           NEW type \in {"file", "directory"}, NEW perm \in Permissions,
           Create(fd, path, type, perm)
    PROVE  NamespaceStep
<1> DEFINE code   == CreateCode(fd, path, type)
           parent == GetFstIndex(superblock, SplitPath(path).parent)
           child  == GetUnusedFstIndex(superblock)
           new    == Created(fd, path, type, perm)
<1>1. CASE code # "Success"
  BY <1>1, NoEdit, FinishesStep DEF Create
<1>2. CASE code = "Success"
  <2>1. parent # NIL /\ child # NIL
    BY <1>2 DEF CreateCode
  <2>2. /\ parent \in FstIndices /\ child \in FstIndices
        /\ superblock.fst[child].type = "none"
    BY <2>1, GetFstIndexType, GetUnusedFstIndexType
  <2>3. PICK entry \in FstEntry :
            new = NewChild(superblock, parent, child, entry)
    BY <1>2, CreatedEntry
  <2> DEFINE added == [superblock EXCEPT !.fst[child] = entry]
  <2> HIDE DEF child, parent, new
  <2>4. /\ added \in Superblock /\ added.fat = superblock.fat
        /\ \A i \in FstIndices \ {child} : added.fst[i] = superblock.fst[i]
    BY FstUpdate DEF TypeOK, Superblock
  <2>5. new = [added EXCEPT !.fst[parent].sub = child]
    BY <2>3 DEF NewChild
  <2> HIDE DEF added
  <2>6. OnlyFrees(added, new)
    BY <2>2, <2>4, <2>5, LinksOnlyFree
  <2>7. NamespaceEdit(new)
    BY <2>2, <2>4, <2>6 DEF OnlyFrees, NamespaceEdit
  <2> QED  BY <1>2, <2>7, FinishesStep DEF Create, new
<1> QED  BY <1>1, <1>2

LEMMA DeleteStep ==
    ASSUME TypeOK, NEW fd \in HandleIds, NEW path \in Paths, Delete(fd, path)
    PROVE  NamespaceStep
<1> DEFINE parent  == GetFstIndex(superblock, SplitPath(path).parent)
           index   == ChildIndex(superblock, parent, SplitPath(path).file_name)
           deleted == DeleteContents(index)
           removed == RemoveFstEntryFromChain(deleted, parent, index)
<1>1. CASE DeleteCode(fd, path) # "Success"
  BY <1>1, NoEdit, FinishesStep DEF Delete
<1>2. CASE DeleteCode(fd, path) = "Success"
  <2>1. parent \in FstIndices /\ index \in FstIndices
    BY <1>2, GetFstIndexType, ChildIndexType DEF DeleteCode
  <2>2. Finishes(removed.code, removed.sb)
    BY <1>2 DEF Delete
  <2> HIDE DEF parent, index
  <2>3. deleted \in Superblock /\ OnlyFrees(superblock, deleted)
    BY <2>1, DeleteContentsType, ContentsOnlyFree
  <2> HIDE DEF deleted
  <2>4. OnlyFrees(superblock, removed.sb)
    BY <2>1, <2>3, RemovalOnlyFrees, OnlyFreesTransitive
  <2> HIDE DEF removed
  <2> QED  BY <2>2, <2>4, FreeingIsEdit, FinishesStep
<1> QED  BY <1>1, <1>2

LEMMA RenamedOnlyFrees ==
    ASSUME TypeOK, NEW fd, NEW old_path \in Paths, NEW new_path \in Paths,
           RenameCode(fd, old_path, new_path) = "Success"
    PROVE  OnlyFrees(superblock, Renamed(old_path, new_path).sb)
<1> DEFINE old        == SplitPath(old_path)
           new        == SplitPath(new_path)
           old_parent == GetFstIndex(superblock, old.parent)
           new_parent == GetFstIndex(superblock, new.parent)
           index      == ChildIndex(superblock, old_parent, old.file_name)
           new_index  == ChildIndex(superblock, new_parent, new.file_name)
           name       == new.file_name
           replaced   == Replaced(new_parent, new_index)
           s1         == replaced.sb
           saved      == s1.fst[index]
           unlinked   == RemoveFstEntryFromChain(s1, old_parent, index)
           s2         == unlinked.sb
           relinked   == Relinked(s2, index, saved, new_parent, name)
<1>1. /\ old_parent \in FstIndices /\ new_parent \in FstIndices
      /\ index \in FstIndices /\ (new_index # NIL => new_index \in FstIndices)
      /\ new_path # <<>>
  BY GetFstIndexType, ChildIndexType DEF RenameCode, IsValidNonRootPath
<1>2. StoredName(name) \in Names
  BY <1>1, SplitPathType
<1>3. Renamed(old_path, new_path) =
         IF replaced.code # "Success" THEN replaced
         ELSE IF unlinked.code # "Success" THEN unlinked
         ELSE [code |-> "Success", sb |-> relinked]
  BY Zenon DEF Renamed, Replaced
<1> HIDE DEF old, new, old_parent, new_parent, index, new_index, name
<1>4. s1 \in Superblock /\ OnlyFrees(superblock, s1)
  <2>1. CASE new_index = NIL
    BY <2>1 DEF Replaced, TypeOK, OnlyFrees
  <2>2. CASE new_index # NIL
    <3> DEFINE deleted == DeleteContents(new_index)
    <3>1. deleted \in Superblock /\ OnlyFrees(superblock, deleted)
      BY <1>1, <2>2, DeleteContentsType, ContentsOnlyFree
    <3>2. replaced = RemoveFstEntryFromChain(deleted, new_parent, new_index)
      BY <2>2 DEF Replaced
    <3> HIDE DEF deleted, replaced
    <3> QED  BY <1>1, <2>2, <3>1, <3>2, RemoveFstEntryFromChainType,
                RemovalOnlyFrees, OnlyFreesTransitive
  <2> QED  BY <2>1, <2>2
<1> HIDE DEF s1
<1>5. s2 \in Superblock /\ OnlyFrees(s1, s2) /\ saved \in FstEntry
  BY <1>1, <1>4, RemoveFstEntryFromChainType, RemovalOnlyFrees DEF Superblock
<1> HIDE DEF s2, saved
<1>6. OnlyFrees(s2, relinked)
  BY <1>1, <1>2, <1>5, RelinkedOnlyFrees
<1> HIDE DEF relinked
<1>7. /\ OnlyFrees(superblock, s1) /\ OnlyFrees(superblock, s2)
      /\ OnlyFrees(superblock, relinked)
  BY <1>4, <1>5, <1>6, OnlyFreesTransitive
<1>8. Renamed(old_path, new_path).sb \in {s1, s2, relinked}
  <2> HIDE DEF replaced, unlinked
  <2> QED  BY <1>3 DEF s1, s2
<1> QED  BY <1>7, <1>8

LEMMA SetMetadataStep ==
    ASSUME TypeOK, NEW fd \in HandleIds, NEW path \in Paths,
           NEW uid \in Uids, NEW gid \in Gids, NEW perm \in Permissions,
           SetMetadata(fd, path, uid, gid, perm)
    PROVE  NamespaceStep
<1> DEFINE index == GetFstIndex(superblock, path)
           old   == superblock.fst[index]
           entry == SetAccessMode([old EXCEPT !.uid = uid, !.gid = gid], perm)
           new   == [superblock EXCEPT !.fst[index] = entry]
<1>1. CASE SetMetadataCode(fd, path, uid) # "Success"
  BY <1>1, NoEdit, FinishesStep DEF SetMetadata
<1>2. CASE SetMetadataCode(fd, path, uid) = "Success"
  <2>1. index \in FstIndices
    BY <1>2, GetFstIndexType DEF SetMetadataCode
  <2>2. old \in FstEntry /\ superblock \in Superblock
    BY <2>1 DEF TypeOK, Superblock
  <2>3. entry.size = old.size
    <3> HIDE DEF old
    <3> QED  BY <2>2 DEF SetAccessMode, FstEntry
  <2>4. Finishes(SetMetadataCode(fd, path, uid), new)
    BY <1>2, Zenon DEF SetMetadata
  <2>5. NamespaceEdit(new)
    <3> HIDE DEF entry, index
    <3> QED  BY <2>1, <2>2, <2>3 DEF NamespaceEdit, Superblock
  <2> HIDE DEF new
  <2> QED  BY <2>4, <2>5, FinishesStep
<1> QED  BY <1>1, <1>2

\* Whatever paths it names, a namespace call allocates no cluster, changes the size
\* of no file, and touches neither the handles nor the cache.
LEMMA NamespaceSteps == ASSUME TypeOK, NamespaceCall PROVE NamespaceStep
<1>1. PICK fd \in PathFds, path \in Paths :
          \/ \E perm \in Permissions : \/ CreateFile(fd, path, perm)
                                       \/ CreateDirectory(fd, path, perm)
          \/ Delete(fd, path)
          \/ \E new_path \in Paths : Rename(fd, path, new_path)
          \/ \E user \in Owners, perm \in Permissions :
                 SetMetadata(fd, path, user[1], user[2], perm)
  BY DEF NamespaceCall, NamespaceCallOn
<1>2. fd \in HandleIds
  BY FileSystemAssumption DEF FileSystemAssumption
<1>3. CASE \E perm \in Permissions : \/ CreateFile(fd, path, perm)
                                     \/ CreateDirectory(fd, path, perm)
  BY <1>2, <1>3, CreateStep DEF CreateFile, CreateDirectory
<1>4. CASE Delete(fd, path)
  BY <1>2, <1>4, DeleteStep
<1>5. ASSUME NEW new_path \in Paths, Rename(fd, path, new_path)
      PROVE  NamespaceStep
  <2> DEFINE code == RenameCode(fd, path, new_path)
             renamed == Renamed(path, new_path)
  <2>1. \/ Finishes(code, superblock)
        \/ code = "Success" /\ Finishes(renamed.code, renamed.sb)
    BY <1>5 DEF Rename
  <2>2. code = "Success" => OnlyFrees(superblock, renamed.sb)
    BY RenamedOnlyFrees
  <2> HIDE DEF code, renamed
  <2> QED  BY <2>1, <2>2, NoEdit, FreeingIsEdit, FinishesStep
<1>6. CASE \E user \in Owners, perm \in Permissions :
              SetMetadata(fd, path, user[1], user[2], perm)
  BY <1>2, <1>6, SetMetadataStep, UserTypes
<1> QED  BY <1>1, <1>3, <1>4, <1>5, <1>6
-----------------------------------------------------------------------------
(* Free clusters.                                                          *)

\* Every free cluster is marked the way the allocation looks for.
HasNoNil(sb) == \A c \in Clusters : sb.fat[c] # NIL

LEMMA WrittenHasNoNil ==
    ASSUME NEW sb \in Superblock, HasNoNil(sb), NEW nd, NEW index \in U16,
           NEW data, NEW chain_index \in U16, NEW size \in U32
    PROVE  HasNoNil(WriteFileData(sb, nd, index, data, chain_index,
                                  size).superblock)
<1> DEFINE cluster == Least(UnusedClusters(sb))
           old     == GetClusterForFile(sb, sb.fst[index].sub, chain_index)
           prev    == GetClusterForFile(sb, sb.fst[index].sub, chain_index - 1)
           new     == WriteFileData(sb, nd, index, data, chain_index,
                                    size).superblock
<1>1. \/ new = sb
      \/ /\ cluster \in UnusedClusters(sb)
         /\ \E fat \in [Clusters -> U16] :
               /\ new.fat = ReplaceInChain(fat, cluster, old)
               /\ \A c \in Clusters :
                     fat[c] = IF chain_index # 0 /\ c = prev
                              THEN cluster ELSE sb.fat[c]
  <2> HIDE DEF cluster, old, prev, new
  <2> QED  BY WriteFields DEF cluster, old, prev, new
<1> HIDE DEF cluster, old, prev, new
<1>2. CASE new = sb
  BY <1>2 DEF new
<1>3. ASSUME cluster \in UnusedClusters(sb),
             NEW fat \in [Clusters -> U16],
             new.fat = ReplaceInChain(fat, cluster, old),
             \A c \in Clusters : fat[c] = IF chain_index # 0 /\ c = prev
                                          THEN cluster ELSE sb.fat[c]
      PROVE  HasNoNil(new)
  <2>1. cluster \in Clusters
    BY <1>3 DEF UnusedClusters
  <2>2. \A c \in Clusters : fat[c] # NIL
    BY <1>3, <2>1, NilIsNoIndex DEF HasNoNil
  <2>3. CLUSTER_UNUSED # NIL /\ CLUSTER_LAST_IN_CHAIN # NIL
    BY DEF CLUSTER_UNUSED, CLUSTER_LAST_IN_CHAIN, NIL
  <2> QED  BY <1>3, <2>2, <2>3 DEF HasNoNil, ReplaceInChain
<1> QED  BY <1>1, <1>2, <1>3 DEF new

LEMMA FlushHasNoNil ==
    ASSUME TypeOK, HasNoNil(superblock)
    PROVE  HasNoNil(FlushFileCache.superblock)
<1>1. CASE ~Dirty(cache)
  BY <1>1 DEF FlushFileCache, IoState
<1>2. CASE Dirty(cache)
  <2> DEFINE index == handles[cache.handle].fst_index
             size  == handles[cache.handle].file_size
  <2>1. cache.handle \in HandleIds /\ cache.chain_index \in U16
    BY <1>2 DEF TypeOK, Cache, Dirty
  <2>2. index \in U16 /\ size \in U32 /\ superblock \in Superblock
    BY <2>1 DEF TypeOK, Handle
  <2>3. FlushFileCache.superblock = WriteBack.superblock
    BY <1>2 DEF FlushFileCache, FlushNeeded, Written, IoState
  <2>4. WriteBack = WriteFileData(superblock, nand, index, cache.data,
                                  cache.chain_index, size)
    BY DEF WriteBack
  <2> HIDE DEF index, size
  <2> QED  BY <2>1, <2>2, <2>3, <2>4, WrittenHasNoNil
<1> QED  BY <1>1, <1>2

LEMMA FormattedHasNoNil == HasNoNil(FormattedSuperblock)
BY DEF HasNoNil, FormattedSuperblock, CLUSTER_RESERVED, CLUSTER_UNUSED, NIL

LEMMA NormalisedHasNoNil ==
    ASSUME NEW sb \in Superblock
    PROVE  /\ HasNoNil(Normalised(sb))
           /\ HasNoNil(sb) => Normalised(sb) = sb
<1>1. \A c \in Clusters :
         Normalised(sb).fat[c] = IF sb.fat[c] = NIL THEN CLUSTER_UNUSED
                                                    ELSE sb.fat[c]
  BY DEF Normalised, Superblock
<1>2. HasNoNil(Normalised(sb))
  BY <1>1 DEF HasNoNil, CLUSTER_UNUSED, NIL
<1>3. ASSUME HasNoNil(sb) PROVE Normalised(sb) = sb
  <2>1. Normalised(sb) \in Superblock /\ Normalised(sb).fst = sb.fst
    BY NormalisedType DEF Normalised
  <2>2. Normalised(sb).fat = sb.fat
    BY <1>1, <1>3, <2>1 DEF HasNoNil, Superblock
  <2> QED  BY <2>1, <2>2 DEF Superblock
<1> QED  BY <1>2, <1>3
LEMMA AdvanceSuperblock ==
    ASSUME TypeOK, call # Idle, NEW op, NEW write \in BOOLEAN,
           Advance(op, write)
    PROVE  superblock' \in {superblock, FlushFileCache.superblock}
<1> DEFINE fd  == call.fd
           pop == PopulateFileCache(fd, handles[fd].file_offset, write)
<1>3. fd \in HandleIds /\ handles[fd].file_offset \in U32
  BY DEF TypeOK, Call, Handle
<1>4. PopulateOutcome(pop, fd, handles[fd].file_offset, write)
  <2> HIDE DEF fd
  <2> QED  BY <1>3, PopulateOutcomes
<1>5. AdvanceOutcome(pop, write)
  BY AdvanceOutcomes
<1> HIDE DEF pop
<1> QED  BY <1>4, <1>5 DEF PopulateOutcome, AdvanceOutcome

LEMMA NextHasNoNil ==
    ASSUME TypeOK, HasNoNil(superblock), "unverified_mount" \notin Uses,
           [Next]_vars
    PROVE  HasNoNil(superblock')
<1>1. CASE superblock' \in {superblock, FlushFileCache.superblock}
  BY <1>1, FlushHasNoNil
<1>2. CASE NamespaceCall
  BY <1>2, NamespaceSteps
     DEF NamespaceStep, NamespaceEdit, HasNoNil, CLUSTER_UNUSED, NIL
<1>3. CASE OpenCall
  BY <1>1, <1>3 DEF OpenCall, OpenFs, OpenFile
<1>4. CASE FileCall
  <2>1. ASSUME NEW fd \in HandleIds, Close(fd) PROVE HasNoNil(superblock')
    <3>1. CloseOutcome(FlushFileCache, fd)
      BY <2>1, CloseOutcomes
    <3> QED  BY <1>1, <3>1 DEF CloseOutcome, ClosedWithCache, ClosedWithout
  <2>2. CASE ~\E fd \in HandleIds : Close(fd)
    BY <1>1, <1>4, <2>2 DEF FileCall, SeekFile, ReadFile, WriteFile, Begin
  <2> QED  BY <2>1, <2>2
<1>5. CASE FormatCall
  BY <1>1, <1>5, FormattedHasNoNil DEF FormatCall, Format
<1>6. CASE ReadFileStep \/ WriteFileStep
  <2>1. call # Idle
    BY <1>6, RunningCall
  <2>2. superblock' \in {superblock, FlushFileCache.superblock}
    BY <1>6, <2>1, AdvanceSuperblock, Zenon DEF ReadFileStep, WriteFileStep
  <2> QED  BY <1>1, <2>2
<1>7. CASE Remount
  BY <1>7, NormalisedHasNoNil DEF Remount, TypeOK
<1>8. CASE UNCHANGED vars
  BY <1>1, <1>8 DEF vars
<1> QED  BY <1>2, <1>3, <1>4, <1>5, <1>6, <1>7, <1>8 DEF Next

LEMMA InitHasNoNil == Init => HasNoNil(superblock)
BY InitType, NormalisedHasNoNil DEF Init, TypeOK

\* If every mount verifies the superblock, whatever the client does: a cluster that
\* GetNandStats counts as free is one that an allocation finds, however the driver
\* that wrote the image marks free clusters.
THEOREM FreeClustersCanBeAllocated ==
    ASSUME "unverified_mount" \notin Uses
    PROVE  Spec => []FreeClustersAllocatable
<1> DEFINE Inv == TypeOK /\ HasNoNil(superblock)
<1>1. Init => Inv
  BY InitType, InitHasNoNil
<1>2. Inv /\ [Next]_vars => Inv'
  BY NextType, NextHasNoNil
<1>3. Inv => FreeClustersAllocatable
  <2> SUFFICES ASSUME Inv PROVE FreeClustersAllocatable
    OBVIOUS
  <2>1. {c \in Clusters : superblock.fat[c] \in {CLUSTER_UNUSED, NIL}} =
           UnusedClusters(superblock)
    BY DEF HasNoNil, UnusedClusters
  <2>2. NandStats(superblock).free_clusters =
           Cardinality({c \in Clusters :
                           superblock.fat[c] \in {CLUSTER_UNUSED, NIL}})
    BY Zenon DEF NandStats
  <2> QED  BY <2>1, <2>2 DEF FreeClustersAllocatable
<1> QED  BY <1>1, <1>2, <1>3, PTL DEF Spec
-----------------------------------------------------------------------------
(* The handles that the cache and a running call refer to.                 *)

\* A descriptor of a file.
FileOpen(fd) == fd \in Fds /\ handles[fd].opened /\ handles[fd].fst_index # NIL

Writable(fd) == "Write" \in handles[fd].mode

\* The cache and the running call belong to open files; what may have to be written
\* belongs to one that is open for writing.
HandlesInv ==
    /\ handles[INTERNAL_FD].fst_index = NIL
    /\ cache.handle # NoHandle =>
          FileOpen(cache.handle) /\ (cache.for_write => Writable(cache.handle))
    /\ call # Idle =>
          /\ FileOpen(call.fd) /\ call.done <= call.count
          /\ call.op = "WriteFile" => Writable(call.fd)

\* No descriptor that a file call or the cache uses becomes another one.
KeepsFileHandles(hs) ==
    /\ hs[INTERNAL_FD].fst_index = handles[INTERNAL_FD].fst_index
    /\ \A k \in Fds : handles[k].opened =>
          /\ hs[k].opened /\ hs[k].fst_index = handles[k].fst_index
          /\ hs[k].mode = handles[k].mode

LEMMA KeptHandles ==
    ASSUME HandlesInv, KeepsFileHandles(handles'), cache' = cache, call' = Idle
    PROVE  HandlesInv'
BY DEF HandlesInv, KeepsFileHandles, FileOpen, Writable

LEMMA NothingOpenHandles ==
    ASSUME handles'[INTERNAL_FD].fst_index = NIL, cache'.handle = NoHandle,
           call' = Idle
    PROVE  HandlesInv'
BY DEF HandlesInv

\* At most the first free handle changes.
LEMMA OpenCallAssigns ==
    ASSUME OpenCall
    PROVE  \/ handles' = handles
           \/ /\ FreeHandles # {}
              /\ \E h : handles' = [handles EXCEPT ![Least(FreeHandles)] = h]
<1>1. ASSUME NEW uid, NEW gid, OpenFs(uid, gid)
      PROVE  \/ handles' = handles
             \/ /\ FreeHandles # {}
                /\ \E h : handles' = [handles EXCEPT ![Least(FreeHandles)] = h]
  BY <1>1, Zenon DEF OpenFs
<1>2. ASSUME NEW uid, NEW gid, NEW path, NEW mode,
             OpenFile(uid, gid, path, mode)
      PROVE  \/ handles' = handles
             \/ /\ FreeHandles # {}
                /\ \E h : handles' = [handles EXCEPT ![Least(FreeHandles)] = h]
  <2>1. OpenFileCode(uid, gid, path, mode) = "Success" => FreeHandles # {}
    BY DEF OpenFileCode
  <2> QED  BY <1>2, <2>1, Zenon DEF OpenFile
<1> QED  BY <1>1, <1>2 DEF OpenCall

LEMMA OpenCallHandles ==
    ASSUME TypeOK, OpenCall
    PROVE  /\ KeepsFileHandles(handles') /\ call = Idle /\ call' = Idle
           /\ UNCHANGED <<superblock, stored, cache>>
<1>1. call = Idle /\ call' = Idle /\ UNCHANGED <<superblock, stored, cache>>
  BY DEF OpenCall, OpenFs, OpenFile, Returns
<1>2. \/ handles' = handles
      \/ /\ FreeHandles # {}
         /\ \E h : handles' = [handles EXCEPT ![Least(FreeHandles)] = h]
  BY OpenCallAssigns
<1>3. CASE handles' = handles
  BY <1>1, <1>3 DEF KeepsFileHandles
<1>4. ASSUME FreeHandles # {}, NEW h,
             handles' = [handles EXCEPT ![Least(FreeHandles)] = h]
      PROVE  KeepsFileHandles(handles')
  <2> DEFINE new == Least(FreeHandles)
  <2>1. new \in Fds /\ ~handles[new].opened
    BY <1>4, FreeHandleType
  <2> HIDE DEF new
  <2>2. handles' = [handles EXCEPT ![new] = h]
    BY <1>4 DEF new
  <2> QED  BY <2>1, <2>2, HandleIdTypes DEF KeepsFileHandles, TypeOK
<1> QED  BY <1>1, <1>2, <1>3, <1>4

LEMMA FlushKeepsFileHandles ==
    ASSUME TypeOK, NEW flush, FlushOutcome(flush)
    PROVE  KeepsFileHandles(flush.handles)
BY HandleIdTypes DEF FlushOutcome, SameHandles, KeepsFileHandles

LEMMA CloseHandles ==
    ASSUME TypeOK, HandlesInv, NEW fd \in HandleIds, Close(fd)
    PROVE  HandlesInv'
<1> DEFINE flush == FlushFileCache
<1>1. CloseOutcome(flush, fd) /\ KeepsFileHandles(flush.handles)
  BY CloseOutcomes, FlushOutcomes, FlushKeepsFileHandles
<1> HIDE DEF flush
<1>2. call' = Idle
  BY <1>1 DEF CloseOutcome
<1>3. CASE UNCHANGED <<superblock, stored, handles, cache>>
  BY <1>2, <1>3, KeptHandles DEF KeepsFileHandles
<1>4. NewHandle.fst_index = NIL
  BY DEF NewHandle
<1>5. CASE ClosedWithCache(flush, fd)
  <2>1. handles'[INTERNAL_FD].fst_index = NIL
    BY <1>1, <1>4, <1>5, HandleIdTypes
       DEF ClosedWithCache, KeepsFileHandles, HandlesInv
  <2> QED  BY <1>2, <1>5, <2>1, NothingOpenHandles DEF ClosedWithCache
<1>6. CASE ClosedWithout(fd)
  BY <1>2, <1>4, <1>6, HandleIdTypes
     DEF ClosedWithout, HandlesInv, FileOpen, Writable
<1> QED  BY <1>1, <1>3, <1>5, <1>6 DEF CloseOutcome

LEMMA SeekHandles ==
    ASSUME TypeOK, NEW fd \in HandleIds, NEW offset, NEW whence,
           SeekFile(fd, offset, whence)
    PROVE  /\ KeepsFileHandles(handles') /\ call = Idle /\ call' = Idle
           /\ UNCHANGED <<superblock, stored, cache>>
<1>1. PICK position : handles' \in {handles,
                                    [handles EXCEPT ![fd].file_offset = position]}
  BY Zenon DEF SeekFile
<1>2. KeepsFileHandles(handles')
  BY <1>1, HandleIdTypes DEF KeepsFileHandles, TypeOK, Handle
<1> QED  BY <1>2 DEF SeekFile, Returns

LEMMA BeginHandles ==
    ASSUME TypeOK, HandlesInv, NEW op \in {"ReadFile", "WriteFile"},
           NEW fd \in HandleIds, NEW access \in {"Read", "Write"},
           op = "WriteFile" => access = "Write",
           NEW count \in U32, NEW byte, Begin(op, fd, access, count, byte)
    PROVE  HandlesInv'
<1>1. UNCHANGED <<superblock, stored, handles, cache>>
  BY DEF Begin
<1>2. CASE call' = Idle
  BY <1>1, <1>2, KeptHandles DEF KeepsFileHandles
<1>3. CASE call' # Idle
  <2>1. /\ HasFile(fd) /\ access \in handles[fd].mode
        /\ call' = [op |-> op, fd |-> fd, count |-> count, done |-> 0,
                    byte |-> byte]
    BY <1>3 DEF Begin, Returns
  <2>2. FileOpen(fd)
    BY <2>1, NilIsNoIndex DEF HasFile, IsOpen, FileOpen, HandlesInv, HandleIds
  <2>3. count \in Nat
    BY WordsAreNumbers
  <2>4. /\ call'.fd = fd /\ call'.op = op /\ call'.count = count
        /\ call'.done = 0
    BY <2>1
  <2> QED  BY <1>1, <2>1, <2>2, <2>3, <2>4
           DEF HandlesInv, FileOpen, Writable
<1> QED  BY <1>2, <1>3

LEMMA AdvanceHandles ==
    ASSUME TypeOK, HandlesInv, call # Idle, NEW op, NEW write \in BOOLEAN,
           write => op = "WriteFile", Advance(op, write)
    PROVE  HandlesInv' /\ KeepsFileHandles(handles')
<1> DEFINE fd  == call.fd
           pop == PopulateFileCache(fd, handles[fd].file_offset, write)
           flush == FlushFileCache
<1>1. /\ fd \in HandleIds /\ handles[fd].file_offset \in U32
      /\ call.count \in Nat /\ call.done \in Nat /\ call.op = op
  <2>1. call \in Call
    BY DEF TypeOK
  <2>2. call.op = op
    BY Zenon DEF Advance
  <2>3. fd \in HandleIds /\ handles[fd].file_offset \in U32
    BY <2>1 DEF TypeOK, Call, Handle
  <2> QED  BY <2>1, <2>2, <2>3, WordsAreNumbers DEF Call
<1>2. PopulateOutcome(pop, fd, handles[fd].file_offset, write)
  <2> HIDE DEF fd
  <2> QED  BY <1>1, PopulateOutcomes
<1>3. AdvanceOutcome(pop, write)
  BY AdvanceOutcomes
<1>4. FlushOutcome(flush) /\ KeepsFileHandles(flush.handles)
  BY FlushOutcomes, FlushKeepsFileHandles
<1> HIDE DEF pop, flush
<1>5. KeepsFileHandles(pop.handles)
  BY <1>2, <1>4 DEF PopulateOutcome, KeepsFileHandles, flush
<1>6. \/ pop.cache = cache
      \/ pop.cache.handle = fd /\ pop.cache.for_write = write
  BY <1>2 DEF PopulateOutcome
<1>7. KeepsFileHandles(handles')
  BY <1>3, <1>5, HandleIdTypes DEF AdvanceOutcome, Advanced, KeepsFileHandles
<1>8. /\ cache'.handle = pop.cache.handle
      /\ cache'.for_write = pop.cache.for_write
  BY <1>3 DEF AdvanceOutcome, Advanced
<1>9. cache'.handle # NoHandle =>
         FileOpen(cache'.handle) /\ (cache'.for_write => Writable(cache'.handle))
  BY <1>1, <1>6, <1>8 DEF HandlesInv
<1>10. call' # Idle =>
          /\ call'.op = call.op /\ call'.fd = fd /\ call'.done <= call'.count
  BY <1>1, <1>3 DEF AdvanceOutcome, Advanced
<1> QED  BY <1>7, <1>9, <1>10
         DEF HandlesInv, KeepsFileHandles, FileOpen, Writable

LEMMA NextHandles ==
    ASSUME TypeOK, HandlesInv, "format_with_cache" \notin Uses, [Next]_vars
    PROVE  HandlesInv'
<1>1. CASE NamespaceCall
  BY <1>1, NamespaceSteps, KeptHandles DEF NamespaceStep, KeepsFileHandles
<1>2. CASE OpenCall
  BY <1>2, OpenCallHandles, KeptHandles
<1>3. CASE FileCall
  <2>1. PICK fd \in HandleIds :
            \/ Close(fd)
            \/ \E offset \in SeekOffsets, whence \in {"Set", "Current", "End"} :
                   SeekFile(fd, offset, whence)
            \/ \E count \in ReadCounts : ReadFile(fd, count)
            \/ \E count \in WriteCounts, byte \in Bytes :
                   WriteFile(fd, count, byte)
    BY <1>3 DEF FileCall
  <2>2. ReadCounts \subseteq U32 /\ WriteCounts \subseteq U32
    BY FileSystemAssumption DEF FileSystemAssumption
  <2>3. CASE Close(fd)
    BY <2>3, CloseHandles
  <2>4. CASE \E offset \in SeekOffsets, whence \in {"Set", "Current", "End"} :
                 SeekFile(fd, offset, whence)
    BY <2>4, SeekHandles, KeptHandles
  <2>5. ASSUME NEW count \in ReadCounts, ReadFile(fd, count) PROVE HandlesInv'
    <3>1. ReadCount(fd, count) \in U32
      BY <2>2, ReadCountType
    <3> QED  BY <2>5, <3>1, BeginHandles DEF ReadFile
  <2>6. CASE \E count \in WriteCounts, byte \in Bytes : WriteFile(fd, count, byte)
    BY <2>2, <2>6, BeginHandles DEF WriteFile
  <2> QED  BY <2>1, <2>3, <2>4, <2>5, <2>6
<1>4. CASE FormatCall
  <2>1. cache.handle = NoHandle /\ cache' = cache /\ call' = Idle
    BY <1>4 DEF FormatCall, Format, Permitted, Returns
  <2>2. handles'[INTERNAL_FD] = handles[INTERNAL_FD]
    BY <1>4, HandleIdTypes DEF FormatCall, Format
  <2> QED  BY <2>1, <2>2, NothingOpenHandles DEF HandlesInv
<1>5. CASE ReadFileStep \/ WriteFileStep
  <2>1. call # Idle
    BY <1>5, RunningCall
  <2>2. CASE ReadFileStep
    <3>1. Advance("ReadFile", FALSE)
      BY <2>2, Zenon DEF ReadFileStep
    <3> QED  BY <2>1, <3>1, AdvanceHandles
  <2>3. CASE WriteFileStep
    <3>1. Advance("WriteFile", TRUE)
      BY <2>3, Zenon DEF WriteFileStep
    <3> QED  BY <2>1, <3>1, AdvanceHandles
  <2> QED  BY <1>5, <2>2, <2>3
<1>6. CASE Remount
  <2>1. cache' = EmptyCache /\ call' = Idle
    BY <1>6 DEF Remount, Returns
  <2>2. handles'[INTERNAL_FD].fst_index = NIL
    BY <1>6, HandleIdTypes DEF Remount, NewHandle
  <2> QED  BY <2>1, <2>2, NothingOpenHandles DEF EmptyCache
<1>7. CASE UNCHANGED vars
  BY <1>7 DEF vars, HandlesInv, FileOpen, Writable
<1> QED  BY <1>1, <1>2, <1>3, <1>4, <1>5, <1>6, <1>7 DEF Next

LEMMA InitHandles == Init => HandlesInv
BY HandleIdTypes DEF Init, HandlesInv, EmptyCache, NewHandle
-----------------------------------------------------------------------------
(* What is only in memory.                                                 *)

\* What is in memory is also on the NAND, or nothing changed.
Persisted ==
    stored' = superblock' \/ (superblock' = superblock /\ stored' = stored)

LEMMA FinishesPersisted ==
    ASSUME NEW code, NEW sb, Finishes(code, sb), code = "Success" \/ sb = superblock
    PROVE  Persisted
BY DEF Finishes, Persisted

\* A call that has edited the superblock succeeds.
LEMMA NamespacePersisted ==
    ASSUME TypeOK, OpenFilesAreFiles, IsFstTree(superblock), TreeSafeUses,
           NamespaceCall
    PROVE  Persisted
<1>1. PICK fd \in PathFds, path \in Paths :
          /\ PlainPath(path)
          /\ \/ /\ PlainName(path)
                /\ \E perm \in Permissions : \/ CreateFile(fd, path, perm)
                                             \/ CreateDirectory(fd, path, perm)
             \/ Delete(fd, path)
             \/ \E new_path \in Paths :
                    PlainRename(path, new_path) /\ Rename(fd, path, new_path)
             \/ \E user \in Owners, perm \in Permissions :
                    SetMetadata(fd, path, user[1], user[2], perm)
  BY DEF NamespaceCall, NamespaceCallOn
<1>2. ~ThroughFile(path) /\ fd \in HandleIds
  BY <1>1, FileSystemAssumption
     DEF FileSystemAssumption, TreeSafeUses, PlainPath, Permitted
<1>3. ASSUME NEW type, NEW perm, Create(fd, path, type, perm) PROVE Persisted
  <2>1. PICK sb : /\ Finishes(CreateCode(fd, path, type), sb)
                  /\ CreateCode(fd, path, type) = "Success" \/ sb = superblock
    BY <1>3, Zenon DEF Create
  <2> QED  BY <2>1, FinishesPersisted
<1>4. CASE Delete(fd, path)
  <2> DEFINE parent  == GetFstIndex(superblock, SplitPath(path).parent)
             index   == ChildIndex(superblock, parent, SplitPath(path).file_name)
             removed == RemoveFstEntryFromChain(DeleteContents(index), parent,
                                                index)
  <2>1. \/ Finishes(DeleteCode(fd, path), superblock)
        \/ /\ DeleteCode(fd, path) = "Success"
           /\ Finishes(removed.code, removed.sb)
    BY <1>4 DEF Delete
  <2>2. DeleteCode(fd, path) = "Success" => removed.code = "Success"
    BY <1>2, DeletedTree
  <2> HIDE DEF removed
  <2> QED  BY <2>1, <2>2, FinishesPersisted
<1>5. ASSUME NEW new_path \in Paths, PlainRename(path, new_path),
             Rename(fd, path, new_path)
      PROVE  Persisted
  <2> DEFINE code    == RenameCode(fd, path, new_path)
             renamed == Renamed(path, new_path)
  <2>1. ~ThroughFile(new_path) /\ ~IsProperPrefix(new_path, path)
    BY <1>5 DEF PlainRename, TreeSafeUses, PlainPath, Permitted
  <2>2. \/ Finishes(code, superblock)
        \/ code = "Success" /\ Finishes(renamed.code, renamed.sb)
    BY <1>5 DEF Rename
  <2>3. code = "Success" => renamed.code = "Success"
    BY <1>2, <2>1, RenamedTree
  <2> HIDE DEF code, renamed
  <2> QED  BY <2>2, <2>3, FinishesPersisted
<1>6. ASSUME NEW uid, NEW gid, NEW perm, SetMetadata(fd, path, uid, gid, perm)
      PROVE  Persisted
  <2>1. PICK sb : /\ Finishes(SetMetadataCode(fd, path, uid), sb)
                  /\ \/ SetMetadataCode(fd, path, uid) = "Success"
                     \/ sb = superblock
    BY <1>6, Zenon DEF SetMetadata
  <2> QED  BY <2>1, FinishesPersisted
<1> QED  BY <1>1, <1>3, <1>4, <1>5, <1>6 DEF CreateFile, CreateDirectory

\* An open descriptor that will flush the superblock when it is closed.
Owner(fd) == handles[fd].opened /\ handles[fd].superblock_flush_needed

KeepsOwners(hs) == \A k \in Fds : Owner(k) =>
    hs[k].opened /\ hs[k].superblock_flush_needed

LEMMA KeptOwners ==
    ASSUME UnflushedHasOwner, KeepsOwners(handles'), superblock' = superblock,
           stored' = stored
    PROVE  UnflushedHasOwner'
BY DEF UnflushedHasOwner, KeepsOwners, Owner

LEMMA PersistedHasOwner ==
    ASSUME TypeOK', HasNoNil(superblock'), stored' = superblock'
    PROVE  UnflushedHasOwner'
<1>1. ASSUME NEW sb \in Superblock, HasNoNil(sb) PROVE Normalised(sb) = sb
  BY <1>1, NormalisedHasNoNil
<1> QED  BY <1>1 DEF UnflushedHasOwner, TypeOK

LEMMA OpenCallOwners == ASSUME TypeOK, OpenCall PROVE KeepsOwners(handles')
<1>1. \/ handles' = handles
      \/ /\ FreeHandles # {}
         /\ \E h : handles' = [handles EXCEPT ![Least(FreeHandles)] = h]
  BY OpenCallAssigns
<1>2. ASSUME FreeHandles # {}, NEW h,
             handles' = [handles EXCEPT ![Least(FreeHandles)] = h]
      PROVE  KeepsOwners(handles')
  <2> DEFINE new == Least(FreeHandles)
  <2>1. new \in Fds /\ ~handles[new].opened
    BY <1>2, FreeHandleType
  <2> HIDE DEF new
  <2>2. handles' = [handles EXCEPT ![new] = h]
    BY <1>2 DEF new
  <2> QED  BY <2>1, <2>2, HandleIdTypes DEF KeepsOwners, Owner, TypeOK
<1> QED  BY <1>1, <1>2 DEF KeepsOwners, Owner

LEMMA CloseHasOwner ==
    ASSUME TypeOK, TypeOK', HasNoNil(superblock'), UnflushedHasOwner,
           NEW fd \in HandleIds, Close(fd)
    PROVE  UnflushedHasOwner'
<1> DEFINE flush == FlushFileCache
<1>1. CloseOutcome(flush, fd) /\ FlushOutcome(flush)
  BY CloseOutcomes, FlushOutcomes
<1> HIDE DEF flush
<1>2. CASE UNCHANGED <<superblock, stored, handles, cache>>
  BY <1>2, KeptOwners DEF KeepsOwners, Owner
<1>3. CASE stored' = superblock'
  BY <1>3, PersistedHasOwner
<1>4. CASE ClosedWithCache(flush, fd) /\ ~flush.handles[fd].superblock_flush_needed
  <2>1. flush.superblock = superblock /\ flush.handles = handles
    BY <1>1, <1>4 DEF FlushOutcome, Flushed, ClosedWithCache
  <2>2. KeepsOwners(handles')
    BY <1>4, <2>1, HandleIdTypes DEF ClosedWithCache, KeepsOwners, Owner
  <2> QED  BY <1>4, <2>1, <2>2, KeptOwners DEF ClosedWithCache
<1>5. CASE ClosedWithout(fd) /\ ~handles[fd].superblock_flush_needed
  <2>1. KeepsOwners(handles')
    BY <1>5, HandleIdTypes DEF ClosedWithout, KeepsOwners, Owner
  <2> QED  BY <1>5, <2>1, KeptOwners DEF ClosedWithout
<1> QED  BY <1>1, <1>2, <1>3, <1>4, <1>5
         DEF CloseOutcome, ClosedWithCache, ClosedWithout

LEMMA AdvanceHasOwner ==
    ASSUME TypeOK, HandlesInv, UnflushedHasOwner, call # Idle, NEW op,
           NEW write \in BOOLEAN, Advance(op, write)
    PROVE  UnflushedHasOwner'
<1> DEFINE fd  == call.fd
           pop == PopulateFileCache(fd, handles[fd].file_offset, write)
           flush == FlushFileCache
<1>1. fd \in HandleIds /\ handles[fd].file_offset \in U32
  BY DEF TypeOK, Call, Handle
<1>2. PopulateOutcome(pop, fd, handles[fd].file_offset, write)
  <2> HIDE DEF fd
  <2> QED  BY <1>1, PopulateOutcomes
<1>3. AdvanceOutcome(pop, write) /\ FlushOutcome(flush)
  BY AdvanceOutcomes, FlushOutcomes
<1> HIDE DEF pop, flush
<1>4. /\ superblock' = pop.superblock /\ stored' = stored
      /\ \A k \in Fds :
            /\ handles'[k].opened = pop.handles[k].opened
            /\ handles'[k].superblock_flush_needed =
                  pop.handles[k].superblock_flush_needed
  BY <1>3, HandleIdTypes DEF AdvanceOutcome, Advanced
<1>5. CASE pop.superblock = superblock /\ pop.handles = handles
  BY <1>4, <1>5, KeptOwners DEF KeepsOwners, Owner
<1>6. CASE /\ pop.superblock = flush.superblock /\ pop.handles = flush.handles
           /\ Flushed(flush)
  <2>1. cache.handle \in Fds /\ handles[cache.handle].opened
    BY <1>6 DEF Flushed, Dirty, HandlesInv, FileOpen
  <2>2. flush.handles[cache.handle].opened = handles[cache.handle].opened
    BY <1>3, <2>1, HandleIdTypes DEF FlushOutcome, SameHandles
  <2>3. flush.handles[cache.handle].superblock_flush_needed
    BY <1>6, <2>1, HandleIdTypes DEF Flushed
  <2> QED  BY <1>4, <1>6, <2>1, <2>2, <2>3 DEF UnflushedHasOwner
<1> QED  BY <1>2, <1>3, <1>5, <1>6 DEF PopulateOutcome, FlushOutcome, flush

LEMMA NextHasOwner ==
    ASSUME TypeOK, TypeOK', OpenFilesAreFiles, TreeInv, HandlesInv,
           HasNoNil(superblock'), UnflushedHasOwner, TreeSafeUses,
           "unverified_mount" \notin Uses, [Next]_vars
    PROVE  UnflushedHasOwner'
<1>1. CASE NamespaceCall
  <2>1. Persisted /\ handles' = handles
    BY <1>1, NamespacePersisted, NamespaceSteps DEF TreeInv, NamespaceStep
  <2> QED  BY <2>1, PersistedHasOwner, KeptOwners
           DEF Persisted, KeepsOwners, Owner
<1>2. CASE OpenCall
  BY <1>2, OpenCallHandles, OpenCallOwners, KeptOwners
<1>3. CASE FileCall
  <2>1. PICK fd \in HandleIds :
            \/ Close(fd)
            \/ \E offset \in SeekOffsets, whence \in {"Set", "Current", "End"} :
                   SeekFile(fd, offset, whence)
            \/ \E count \in ReadCounts : ReadFile(fd, count)
            \/ \E count \in WriteCounts, byte \in Bytes :
                   WriteFile(fd, count, byte)
    BY <1>3 DEF FileCall
  <2>2. CASE Close(fd)
    BY <2>2, CloseHasOwner
  <2>3. ASSUME NEW offset, NEW whence, SeekFile(fd, offset, whence)
        PROVE  UnflushedHasOwner'
    <3>1. PICK position : handles' \in
              {handles, [handles EXCEPT ![fd].file_offset = position]}
      BY <2>3, Zenon DEF SeekFile
    <3>2. KeepsOwners(handles')
      BY <3>1, HandleIdTypes DEF KeepsOwners, Owner, TypeOK, Handle
    <3> QED  BY <2>3, <3>2, KeptOwners DEF SeekFile
  <2>4. CASE \/ \E count \in ReadCounts : ReadFile(fd, count)
             \/ \E count \in WriteCounts, byte \in Bytes :
                    WriteFile(fd, count, byte)
    <3>1. superblock' = superblock /\ stored' = stored /\ handles' = handles
      BY <2>4 DEF ReadFile, WriteFile, Begin
    <3> QED  BY <3>1, KeptOwners DEF KeepsOwners, Owner
  <2> QED  BY <2>1, <2>2, <2>3, <2>4
<1>4. CASE FormatCall
  <2>1. \/ UNCHANGED <<superblock, stored, handles>>
        \/ stored' = superblock'
    BY <1>4 DEF FormatCall, Format
  <2> QED  BY <2>1, PersistedHasOwner, KeptOwners DEF KeepsOwners, Owner
<1>5. CASE ReadFileStep \/ WriteFileStep
  <2>1. call # Idle
    BY <1>5, RunningCall
  <2> QED
    BY <1>5, <2>1, AdvanceHasOwner, Zenon DEF ReadFileStep, WriteFileStep
<1>6. CASE Remount
  BY <1>6 DEF Remount, UnflushedHasOwner
<1>7. CASE UNCHANGED vars
  BY <1>7, KeptOwners DEF vars, KeepsOwners, Owner
<1> QED  BY <1>1, <1>2, <1>3, <1>4, <1>5, <1>6, <1>7 DEF Next

\* With no path through a file, no rename onto a directory above, no Format while
\* a file is in the cache, and every mount verified: whatever is in memory and not
\* on the NAND has an open descriptor whose Close will flush it, although the
\* superblock is changed by the calls of any descriptor that pushes the data of
\* another one out of the cache.
THEOREM UnflushedAlwaysHasOwner ==
    ASSUME TreeSafeUses, "format_with_cache" \notin Uses,
           "unverified_mount" \notin Uses
    PROVE  Spec => []UnflushedHasOwner
<1> DEFINE Inv == /\ TypeOK /\ OpenFilesAreFiles /\ TreeInv /\ HandlesInv
                  /\ HasNoNil(superblock) /\ UnflushedHasOwner
<1>1. Init => Inv
  <2>1. Init => UnflushedHasOwner
    BY DEF Init, UnflushedHasOwner
  <2> QED  BY <2>1, InitType, InitOpenFiles, InitTree, InitHandles, InitHasNoNil
<1>2. Inv /\ [Next]_vars => Inv'
  BY NextType, NextOpenFiles, NextTree, NextHandles, NextHasNoNil, NextHasOwner
<1>3. Inv => UnflushedHasOwner
  OBVIOUS
<1> QED  BY <1>1, <1>2, <1>3, PTL DEF Spec
-----------------------------------------------------------------------------
(* Sizes and positions.                                                    *)

\* ContentSize, of any superblock, handles and cache.
SizeIn(sb, hs, c, f) ==
    IF Dirty(c) /\ hs[c.handle].fst_index = f THEN hs[c.handle].file_size
                                              ELSE sb.fst[f].size

\* A handle of a file of that size.  A writer knows the size.
Bounded(h, size) ==
    /\ h.file_offset <= h.file_size /\ h.file_size <= size
    /\ "Write" \in h.mode => h.file_size = size

OfFile(h) == h.opened /\ h.fst_index # NIL

\* What waits to be written never makes a file shorter.
SizesHold(sb, hs, c) ==
    /\ \A k \in Fds : OfFile(hs[k]) =>
          Bounded(hs[k], SizeIn(sb, hs, c, hs[k].fst_index))
    /\ Dirty(c) => sb.fst[hs[c.handle].fst_index].size <= hs[c.handle].file_size

OneWriter(hs) == \A k, l \in Fds :
    /\ OfFile(hs[k]) /\ "Write" \in hs[k].mode
    /\ OfFile(hs[l]) /\ "Write" \in hs[l].mode
    /\ hs[k].fst_index = hs[l].fst_index
    => k = l

\* What is left of a running call stays within the file, or within the limit.
RunningBounded ==
    call # Idle =>
        LET h    == handles[call.fd]
            last == h.file_offset + (call.count - call.done)
        IN  /\ call.op = "ReadFile" => last <= h.file_size
            /\ call.op = "WriteFile" =>
                  /\ last <= MaxFileSize
                  /\ CacheHit(call.fd, h.file_offset) => cache.for_write

SizesInv ==
    /\ SizesHold(superblock, handles, cache)
    /\ OneWriter(handles) /\ RunningBounded

\* Excluded: a second writer of a file, a read whose count wraps around, and a write
\* to a cluster that was read.
SizeSafeUses ==
    /\ "second_writer" \notin Uses /\ "huge_read" \notin Uses
    /\ "write_after_read" \notin Uses /\ "format_with_cache" \notin Uses

LEMMA SizesSuffice ==
    TypeOK /\ OpenFilesAreFiles /\ SizesInv => HandleSizesBounded
<1> SUFFICES ASSUME TypeOK, SizesInv,
                    NEW fd \in Fds, handles[fd].opened, HasFile(fd)
             PROVE  /\ handles[fd].file_offset <= handles[fd].file_size
                    /\ handles[fd].file_size <= ContentSize(handles[fd].fst_index)
  BY DEF HandleSizesBounded, FileStatus
<1>1. OfFile(handles[fd])
  BY NilIsNoIndex DEF OfFile, HasFile
<1>2. ContentSize(handles[fd].fst_index) =
         SizeIn(superblock, handles, cache, handles[fd].fst_index)
  BY DEF ContentSize, PendingFor, SizeIn
<1> QED  BY <1>1, <1>2 DEF SizesInv, SizesHold, Bounded

\* Sizes depend on what the handles say of their files and of what is dirty.
SameFileHandle(h1, h2) ==
    /\ h1.fst_index = h2.fst_index /\ h1.mode = h2.mode
    /\ h1.file_offset = h2.file_offset /\ h1.file_size = h2.file_size

LEMMA SizesCarryOver ==
    ASSUME NEW s1, NEW h1, NEW c1, SizesHold(s1, h1, c1),
           NEW s2, NEW h2, NEW c2,
           \A k \in Fds : OfFile(h2[k]) =>
               /\ OfFile(h1[k]) /\ SameFileHandle(h1[k], h2[k])
               /\ s2.fst[h2[k].fst_index].size = s1.fst[h2[k].fst_index].size,
           Dirty(c2) <=> Dirty(c1), c2.handle = c1.handle,
           Dirty(c1) => c1.handle \in Fds /\ OfFile(h2[c1.handle])
    PROVE  SizesHold(s2, h2, c2)
<1>1. Dirty(c1) => /\ h2[c1.handle].fst_index = h1[c1.handle].fst_index
                   /\ h2[c1.handle].file_size = h1[c1.handle].file_size
  BY DEF SameFileHandle
<1>2. ASSUME NEW k \in Fds, OfFile(h2[k])
      PROVE  SizeIn(s2, h2, c2, h2[k].fst_index) =
                SizeIn(s1, h1, c1, h1[k].fst_index)
  BY <1>1, <1>2 DEF SizeIn, SameFileHandle
<1>3. ASSUME NEW k \in Fds, OfFile(h2[k])
      PROVE  Bounded(h2[k], SizeIn(s2, h2, c2, h2[k].fst_index))
  <2>1. Bounded(h1[k], SizeIn(s1, h1, c1, h1[k].fst_index))
    BY <1>3 DEF SizesHold
  <2> QED  BY <1>2, <1>3, <2>1 DEF Bounded, SameFileHandle
<1>4. Dirty(c2) => s2.fst[h2[c2.handle].fst_index].size <= h2[c2.handle].file_size
  BY <1>1 DEF SizesHold
<1> QED  BY <1>3, <1>4 DEF SizesHold

\* Nothing waits: the size is the one in the FST.
CleanSizes(sb, hs) ==
    \A k \in Fds : OfFile(hs[k]) => Bounded(hs[k], sb.fst[hs[k].fst_index].size)

LEMMA CleanSizesHold ==
    ASSUME NEW sb, NEW hs, NEW c, CleanSizes(sb, hs), ~Dirty(c)
    PROVE  SizesHold(sb, hs, c)
BY DEF CleanSizes, SizesHold, SizeIn

LEMMA FlushedSizes ==
    ASSUME TypeOK, OpenFilesAreFiles, SizesHold(superblock, handles, cache),
           NEW flush, FlushOutcome(flush), flush.code = "Success"
    PROVE  CleanSizes(flush.superblock, flush.handles)
<1>1. SUFFICES ASSUME NEW k \in Fds, OfFile(flush.handles[k])
               PROVE  Bounded(flush.handles[k],
                          flush.superblock.fst[flush.handles[k].fst_index].size)
  BY DEF CleanSizes
<1>2. /\ SameFileHandle(handles[k], flush.handles[k])
      /\ OfFile(handles[k])
  BY <1>1, HandleIdTypes DEF FlushOutcome, SameHandles, SameFileHandle, OfFile
<1>3. Bounded(handles[k], SizeIn(superblock, handles, cache, handles[k].fst_index))
  BY <1>2 DEF SizesHold
<1>4. handles[k].fst_index \in FstIndices
  BY <1>2 DEF OfFile, OpenFilesAreFiles
<1>5. SizeIn(superblock, handles, cache, handles[k].fst_index) =
         flush.superblock.fst[handles[k].fst_index].size
  BY <1>4 DEF SizeIn, FlushOutcome, Flushed
<1> QED  BY <1>2, <1>3, <1>5 DEF Bounded, SameFileHandle
\* A step between two calls that leaves the handles of files as they are, or closes
\* some.
LEMMA KeptSizes ==
    ASSUME TypeOK, HandlesInv, HandlesInv', SizesInv, call' = Idle, cache' = cache,
           \A k \in Fds : OfFile(handles'[k]) =>
               /\ OfFile(handles[k]) /\ SameFileHandle(handles[k], handles'[k])
               /\ superblock'.fst[handles[k].fst_index].size =
                     superblock.fst[handles[k].fst_index].size
    PROVE  SizesInv'
<1>1. Dirty(cache) => cache.handle \in Fds /\ OfFile(handles'[cache.handle])
  BY DEF Dirty, HandlesInv, FileOpen, OfFile
<1>2. SizesHold(superblock', handles', cache')
  <2>1. ASSUME NEW s2, NEW h2,
               \A k \in Fds : OfFile(h2[k]) =>
                   /\ OfFile(handles[k]) /\ SameFileHandle(handles[k], h2[k])
                   /\ s2.fst[handles[k].fst_index].size =
                         superblock.fst[handles[k].fst_index].size,
               Dirty(cache) => cache.handle \in Fds /\ OfFile(h2[cache.handle])
        PROVE  SizesHold(s2, h2, cache)
    <3>1. \A k \in Fds : OfFile(h2[k]) =>
             /\ OfFile(handles[k]) /\ SameFileHandle(handles[k], h2[k])
             /\ s2.fst[h2[k].fst_index].size =
                   superblock.fst[h2[k].fst_index].size
      BY <2>1 DEF SameFileHandle
    <3> QED  BY <2>1, <3>1, SizesCarryOver DEF SizesInv
  <2> QED  BY <1>1, <2>1
<1>3. OneWriter(handles')
  BY DEF SizesInv, OneWriter, SameFileHandle
<1> QED  BY <1>2, <1>3 DEF SizesInv, RunningBounded

LEMMA NamespaceSizes ==
    ASSUME TypeOK, OpenFilesAreFiles, HandlesInv, HandlesInv', SizesInv,
           NamespaceCall
    PROVE  SizesInv'
<1>1. NamespaceStep
  BY NamespaceSteps
<1>2. \A k \in Fds : OfFile(handles[k]) =>
         superblock'.fst[handles[k].fst_index].size =
            superblock.fst[handles[k].fst_index].size
  BY <1>1 DEF NamespaceStep, NamespaceEdit, OfFile, OpenFilesAreFiles, IsFile
<1> QED  BY <1>1, <1>2, KeptSizes DEF NamespaceStep, SameFileHandle

LEMMA OpenFsSizes ==
    ASSUME TypeOK, HandlesInv, HandlesInv', SizesInv, NEW uid, NEW gid,
           OpenFs(uid, gid)
    PROVE  SizesInv'
<1>1. call' = Idle /\ cache' = cache /\ superblock' = superblock
  BY DEF OpenFs, Returns
<1>2. \/ handles' = handles
      \/ /\ FreeHandles # {}
         /\ handles' = [handles EXCEPT
                           ![Least(FreeHandles)] = AssignedHandle(uid, gid)]
  BY Zenon DEF OpenFs
<1>3. \A k \in Fds : OfFile(handles'[k]) => handles'[k] = handles[k]
  <2>1. AssignedHandle(uid, gid).fst_index = NIL
    BY DEF AssignedHandle, NewHandle
  <2>2. FreeHandles # {} => Least(FreeHandles) \in Fds
    BY FreeHandleType
  <2> QED  BY <1>2, <2>1, <2>2, HandleIdTypes DEF OfFile, TypeOK
<1> QED  BY <1>1, <1>3, KeptSizes DEF SameFileHandle

LEMMA OpenFileSizes ==
    ASSUME TypeOK, HandlesInv, HandlesInv', SizesInv, SizeSafeUses,
           NEW uid \in Uids, NEW gid \in Gids, NEW path \in Paths, NEW mode,
           PlainOpen(path, mode), OpenFile(uid, gid, path, mode)
    PROVE  SizesInv'
<1> DEFINE index    == GetFstIndex(superblock, path)
           assigned == AssignedHandle(uid, gid)
           handle   == [assigned EXCEPT
                           !.fst_index = index, !.mode = mode,
                           !.file_size = superblock.fst[index].size]
           code     == OpenFileCode(uid, gid, path, mode)
           new      == Least(FreeHandles)
<1>1. /\ call = Idle /\ call' = Idle /\ cache' = cache
      /\ superblock' = superblock
  BY DEF OpenFile, Returns
<1>2. CASE code # "Success"
  <2>1. handles' = handles
    BY <1>2, Zenon DEF OpenFile
  <2> QED  BY <1>1, <2>1, KeptSizes DEF SameFileHandle
<1>3. CASE code = "Success"
  <2>1. handles' = [handles EXCEPT ![new] = handle]
    BY <1>3, Zenon DEF OpenFile
  <2>2. new \in Fds /\ ~handles[new].opened
    BY <1>3, FreeHandleType DEF OpenFileCode
  <2>3. index \in FstIndices
    BY <1>3, GetFstIndexType DEF OpenFileCode
  <2>4. /\ handle.fst_index = index /\ handle.mode = mode
        /\ handle.file_size = superblock.fst[index].size
        /\ handle.file_offset = 0
    <3>1. assigned \in Handle /\ assigned.file_offset = 0
      BY AssignedHandleType DEF AssignedHandle, NewHandle
    <3> HIDE DEF assigned, index
    <3> QED  BY <3>1 DEF Handle
  <2>5. superblock.fst[index].size \in Nat
    <3>1. superblock.fst[index].size \in U32
      BY <2>3 DEF TypeOK, Superblock, FstEntry
    <3> QED  BY <3>1, WordsAreNumbers
  <2>6. "Write" \in mode =>
           \A k \in Fds : /\ OfFile(handles[k]) /\ handles[k].fst_index = index
                          => "Write" \notin handles[k].mode
    BY DEF PlainOpen, Permitted, SizeSafeUses, HasWriter, OfFile
  <2> HIDE DEF index, assigned, handle, code, new
  <2>7. \A k \in Fds : handles'[k] = IF k = new THEN handle ELSE handles[k]
    BY <2>1, <2>2, HandleIdTypes DEF TypeOK
  <2>8. Dirty(cache) => /\ cache.handle \in Fds /\ OfFile(handles[cache.handle])
                        /\ "Write" \in handles[cache.handle].mode
                        /\ cache.handle # new
    BY <2>2 DEF Dirty, HandlesInv, FileOpen, Writable, OfFile
  <2>9. \A f : SizeIn(superblock, handles', cache, f) =
                  SizeIn(superblock, handles, cache, f)
    BY <2>7, <2>8 DEF SizeIn
  <2>10. Bounded(handle, SizeIn(superblock, handles, cache, index))
    <3>1. CASE Dirty(cache) /\ handles[cache.handle].fst_index = index
      <4>1. superblock.fst[index].size <= handles[cache.handle].file_size
        BY <3>1 DEF SizesInv, SizesHold
      <4>2. "Write" \notin mode
        BY <2>6, <2>8, <3>1
      <4> QED  BY <2>4, <2>5, <3>1, <4>1, <4>2 DEF Bounded, SizeIn
    <3>2. CASE ~(Dirty(cache) /\ handles[cache.handle].fst_index = index)
      BY <2>4, <2>5, <3>2 DEF Bounded, SizeIn
    <3> QED  BY <3>1, <3>2
  <2>11. SizesHold(superblock, handles', cache)
    <3>1. ASSUME NEW k \in Fds, OfFile(handles'[k])
          PROVE  Bounded(handles'[k],
                         SizeIn(superblock, handles', cache,
                                handles'[k].fst_index))
      <4>1. CASE k = new
        BY <2>4, <2>7, <2>9, <2>10, <4>1
      <4>2. CASE k # new
        BY <2>7, <2>9, <3>1, <4>2 DEF SizesInv, SizesHold
      <4> QED  BY <4>1, <4>2
    <3>2. Dirty(cache) => superblock.fst[handles'[cache.handle].fst_index].size
                             <= handles'[cache.handle].file_size
      BY <2>7, <2>8 DEF SizesInv, SizesHold
    <3> QED  BY <3>1, <3>2 DEF SizesHold
  <2>12. OneWriter(handles')
    BY <2>4, <2>6, <2>7 DEF OneWriter, SizesInv, OfFile
  <2>13. SizesHold(superblock', handles', cache')
    BY <1>1, <2>11
  <2> QED  BY <1>1, <2>12, <2>13 DEF SizesInv, RunningBounded
<1> QED  BY <1>2, <1>3

LEMMA CloseSizes ==
    ASSUME TypeOK, OpenFilesAreFiles, HandlesInv, HandlesInv', SizesInv,
           NEW fd \in HandleIds, Close(fd)
    PROVE  SizesInv'
<1> DEFINE flush == FlushFileCache
<1>1. CloseOutcome(flush, fd) /\ FlushOutcome(flush)
  BY CloseOutcomes, FlushOutcomes
<1>2. ~NewHandle.opened
  BY DEF NewHandle
<1>3. flush.code = "Success" => CleanSizes(flush.superblock, flush.handles)
  <2> HIDE DEF flush
  <2> QED  BY <1>1, FlushedSizes DEF SizesInv
<1> HIDE DEF flush
<1>4. CASE UNCHANGED <<superblock, stored, handles, cache>>
  BY <1>1, <1>4, KeptSizes DEF SameFileHandle, CloseOutcome
<1>5. CASE ClosedWithout(fd)
  <2>1. \A k \in Fds : OfFile(handles'[k]) => handles'[k] = handles[k]
    BY <1>2, <1>5, HandleIdTypes DEF ClosedWithout, OfFile
  <2> QED  BY <1>1, <1>5, <2>1, KeptSizes
           DEF SameFileHandle, CloseOutcome, ClosedWithout
<1>6. CASE ClosedWithCache(flush, fd)
  <2>1. \A k \in Fds : OfFile(handles'[k]) =>
           /\ OfFile(flush.handles[k]) /\ handles'[k] = flush.handles[k]
           /\ OfFile(handles[k]) /\ SameFileHandle(handles[k], handles'[k])
    BY <1>1, <1>2, <1>6, HandleIdTypes
       DEF ClosedWithCache, OfFile, FlushOutcome, SameHandles, SameFileHandle
  <2>2. CleanSizes(superblock', handles')
    BY <1>3, <1>6, <2>1 DEF ClosedWithCache, CleanSizes
  <2>3. ~Dirty(cache')
    BY <1>6 DEF ClosedWithCache, Dirty
  <2>4. SizesHold(superblock', handles', cache')
    BY <2>2, <2>3, CleanSizesHold
  <2>5. OneWriter(handles')
    BY <2>1 DEF SizesInv, OneWriter, SameFileHandle
  <2>6. call' = Idle
    BY <1>1 DEF CloseOutcome
  <2> QED  BY <2>4, <2>5, <2>6 DEF SizesInv, RunningBounded
<1> QED  BY <1>1, <1>4, <1>5, <1>6 DEF CloseOutcome
\* Positions move within the files.
LEMMA MovedSizes ==
    ASSUME NEW sb, NEW h1, NEW c1, SizesHold(sb, h1, c1), NEW h2, NEW c2,
           \A k \in HandleIds :
               /\ h2[k].opened = h1[k].opened /\ h2[k].fst_index = h1[k].fst_index
               /\ h2[k].mode = h1[k].mode /\ h2[k].file_size = h1[k].file_size
               /\ OfFile(h1[k]) /\ k \in Fds =>
                     h2[k].file_offset <= h2[k].file_size,
           Dirty(c2) <=> Dirty(c1), c2.handle = c1.handle,
           Dirty(c1) => c1.handle \in HandleIds
    PROVE  SizesHold(sb, h2, c2)
<1>1. ASSUME NEW f PROVE SizeIn(sb, h2, c2, f) = SizeIn(sb, h1, c1, f)
  BY DEF SizeIn
<1>2. ASSUME NEW k \in Fds, OfFile(h2[k])
      PROVE  Bounded(h2[k], SizeIn(sb, h2, c2, h2[k].fst_index))
  <2>1. OfFile(h1[k]) /\ k \in HandleIds
    BY <1>2, HandleIdTypes DEF OfFile
  <2>2. Bounded(h1[k], SizeIn(sb, h1, c1, h1[k].fst_index))
    BY <2>1 DEF SizesHold
  <2> QED  BY <1>1, <2>1, <2>2 DEF Bounded
<1>3. Dirty(c2) => sb.fst[h2[c2.handle].fst_index].size <= h2[c2.handle].file_size
  BY DEF SizesHold
<1> QED  BY <1>2, <1>3 DEF SizesHold

LEMMA SeekSizes ==
    ASSUME TypeOK, HandlesInv, SizesInv, NEW fd \in HandleIds,
           NEW offset \in U32, NEW whence \in {"Set", "Current", "End"},
           SeekFile(fd, offset, whence)
    PROVE  SizesInv'
<1> DEFINE h == handles[fd]
           position == CASE whence = "Set"     -> offset
                         [] whence = "Current" ->
                                (h.file_offset + offset) % WordSize
                         [] whence = "End"     ->
                                (h.file_size + offset) % WordSize
<1>1. h.file_offset \in U32 /\ h.file_size \in U32
  BY DEF TypeOK, Handle
<1>2. (h.file_offset + offset) % WordSize \in U32
      /\ (h.file_size + offset) % WordSize \in U32
  BY <1>1, SumsWrap
<1>3. position \in Nat /\ h.file_size \in Nat
  <2>1. position \in U32
    BY <1>2
  <2> HIDE DEF position, h
  <2> QED  BY <1>1, <2>1, WordsAreNumbers
<1>4. call' = Idle /\ cache' = cache /\ superblock' = superblock
  BY Zenon DEF SeekFile, Returns
<1>5. \/ handles' = handles
      \/ /\ ~(h.file_size < position)
         /\ handles' = [handles EXCEPT ![fd].file_offset = position]
  BY Zenon DEF SeekFile
<1> HIDE DEF position, h
<1>6. \A k \in HandleIds :
         /\ handles'[k].opened = handles[k].opened
         /\ handles'[k].fst_index = handles[k].fst_index
         /\ handles'[k].mode = handles[k].mode
         /\ handles'[k].file_size = handles[k].file_size
         /\ OfFile(handles[k]) /\ k \in Fds =>
               handles'[k].file_offset <= handles'[k].file_size
  <2>1. \A k \in Fds : OfFile(handles[k]) =>
           handles[k].file_offset <= handles[k].file_size
    BY DEF SizesInv, SizesHold, Bounded
  <2>2. CASE handles' = handles
    BY <2>1, <2>2
  <2>3. CASE /\ ~(h.file_size < position)
             /\ handles' = [handles EXCEPT ![fd].file_offset = position]
    <3>1. handles \in [HandleIds -> Handle]
      BY DEF TypeOK
    <3>2. \A k \in HandleIds :
             /\ handles'[k].opened = handles[k].opened
             /\ handles'[k].fst_index = handles[k].fst_index
             /\ handles'[k].mode = handles[k].mode
             /\ handles'[k].file_size = handles[k].file_size
             /\ handles'[k].file_offset = IF k = fd THEN position
                                          ELSE handles[k].file_offset
      BY <2>3, <3>1 DEF Handle
    <3>3. position <= h.file_size
      BY <1>3, <2>3
    <3> QED  BY <2>1, <3>2, <3>3 DEF h
  <2> QED  BY <1>5, <2>2, <2>3
<1>7. Dirty(cache) => cache.handle \in HandleIds
  BY DEF Dirty, TypeOK, Cache
<1>8. SizesHold(superblock', handles', cache')
  <2>1. SizesHold(superblock, handles', cache)
    BY <1>6, <1>7, MovedSizes DEF SizesInv
  <2> QED  BY <1>4, <2>1
<1>9. OneWriter(handles')
  BY <1>6, HandleIdTypes DEF SizesInv, OneWriter, OfFile
<1> QED  BY <1>4, <1>8, <1>9 DEF SizesInv, RunningBounded

LEMMA BeginSizes ==
    ASSUME TypeOK, HandlesInv, SizesInv, NEW op \in {"ReadFile", "WriteFile"},
           NEW fd \in HandleIds, NEW access, NEW count \in U32, NEW byte,
           Begin(op, fd, access, count, byte),
           LET h == handles[fd]
           IN  /\ FileOpen(fd) /\ op = "ReadFile" =>
                     h.file_offset + count <= h.file_size
               /\ op = "WriteFile" =>
                     /\ h.file_offset + count <= MaxFileSize
                     /\ CacheHit(fd, h.file_offset) => cache.for_write
    PROVE  SizesInv'
<1>1. UNCHANGED <<superblock, stored, handles, cache>>
  BY DEF Begin
<1>2. SizesHold(superblock', handles', cache') /\ OneWriter(handles')
  BY <1>1 DEF SizesInv
<1>3. CASE call' = Idle
  BY <1>2, <1>3 DEF SizesInv, RunningBounded
<1>4. CASE call' # Idle
  <2>1. /\ HasFile(fd)
        /\ call' = [op |-> op, fd |-> fd, count |-> count, done |-> 0,
                    byte |-> byte]
    BY <1>4 DEF Begin, Returns
  <2>2. FileOpen(fd)
    BY <2>1, NilIsNoIndex DEF HasFile, IsOpen, FileOpen, HandlesInv, HandleIds
  <2>3. count \in Nat
    BY WordsAreNumbers
  <2>4. /\ call'.fd = fd /\ call'.op = op /\ call'.count = count
        /\ call'.done = 0
    BY <2>1
  <2>5. handles[fd].file_offset + (count - 0) = handles[fd].file_offset + count
    BY <2>3
  <2>6. RunningBounded'
    BY <1>1, <2>2, <2>4, <2>5 DEF RunningBounded, CacheHit
  <2> QED  BY <1>2, <2>6 DEF SizesInv
<1> QED  BY <1>3, <1>4

LEMMA ReadSizes ==
    ASSUME TypeOK, HandlesInv, SizesInv, SizeSafeUses, NEW fd \in HandleIds,
           NEW count \in U32, PlainRead(fd, count), ReadFile(fd, count)
    PROVE  SizesInv'
<1> DEFINE h == handles[fd]
<1>1. ReadCount(fd, count) \in U32
  BY ReadCountType
<1>2. h.file_offset \in U32 /\ h.file_size \in U32
  BY DEF TypeOK, Handle
<1>3. h.file_offset \in Nat /\ h.file_size \in Nat /\ count \in Nat
  <2> HIDE DEF h
  <2> QED  BY <1>2, WordsAreNumbers
<1>4. h.file_offset + count < WordSize
  <2>1. ~(count + h.file_offset >= WordSize)
    BY DEF PlainRead, Permitted, SizeSafeUses
  <2> HIDE DEF h
  <2> QED  BY <1>3, <2>1, SffsAssumption DEF SffsAssumption
<1>5. FileOpen(fd) => h.file_offset + ReadCount(fd, count) <= h.file_size
  <2>1. FileOpen(fd) => h.file_offset <= h.file_size
    BY DEF SizesInv, SizesHold, FileOpen, OfFile, Bounded
  <2>2. (count + h.file_offset) % WordSize = count + h.file_offset
    <3> HIDE DEF h
    <3> QED  BY <1>3, <1>4, SffsAssumption, SMT DEF SffsAssumption
  <2>3. FileOpen(fd) =>
           (h.file_size - h.file_offset) % WordSize = h.file_size - h.file_offset
    <3>1. h.file_size < WordSize
      <4>1. h.file_size \in 0..(WordSize - 1)
        BY <1>2 DEF U32
      <4> HIDE DEF h
      <4> QED  BY <1>3, <4>1, SffsAssumption DEF SffsAssumption
    <3> HIDE DEF h
    <3> QED  BY <1>3, <2>1, <3>1, SffsAssumption, SMT DEF SffsAssumption
  <2>4. ReadCount(fd, count) =
           IF (count + h.file_offset) % WordSize > h.file_size
           THEN (h.file_size - h.file_offset) % WordSize ELSE count
    BY DEF ReadCount
  <2> HIDE DEF h
  <2> QED  BY <1>3, <2>1, <2>2, <2>3, <2>4
<1> HIDE DEF h
<1> QED  BY <1>1, <1>5, BeginSizes DEF ReadFile, h

LEMMA WriteSizes ==
    ASSUME TypeOK, HandlesInv, SizesInv, SizeSafeUses, NEW fd \in HandleIds,
           NEW count \in U32, NEW byte,
           PlainWrite(fd, count), WriteFile(fd, count, byte)
    PROVE  SizesInv'
<1>1. /\ handles[fd].file_offset + count <= MaxFileSize
      /\ CacheHit(fd, handles[fd].file_offset) => cache.for_write
  BY DEF PlainWrite, Permitted, SizeSafeUses
<1> QED  BY <1>1, BeginSizes DEF WriteFile
\* Whether the cache could be flushed and filled or not.
LEMMA PopulatedSizes ==
    ASSUME TypeOK, OpenFilesAreFiles, HandlesInv, SizesInv,
           NEW fd \in Fds, FileOpen(fd), NEW offset, NEW write \in BOOLEAN,
           write => Writable(fd), NEW pop, PopulateOutcome(pop, fd, offset, write)
    PROVE  /\ SizesHold(pop.superblock, pop.handles, pop.cache)
           /\ SameHandles(pop.handles)
<1> DEFINE flush == FlushFileCache
<1>1. FlushOutcome(flush)
  BY FlushOutcomes
<1>2. flush.code = "Success" => CleanSizes(flush.superblock, flush.handles)
  <2> HIDE DEF flush
  <2> QED  BY <1>1, FlushedSizes DEF SizesInv
<1> HIDE DEF flush
<1>3. SameHandles(handles) /\ SameHandles(flush.handles)
  BY <1>1 DEF SameHandles, FlushOutcome
<1>4. CASE CacheHit(fd, offset)
  BY <1>3, <1>4 DEF PopulateOutcome, SizesInv
<1>5. CASE ~CacheHit(fd, offset) /\ flush.code # "Success"
  <2>1. flush.superblock = superblock /\ flush.handles = handles
    BY <1>1, <1>5 DEF FlushOutcome, Flushed
  <2>2. /\ pop.superblock = superblock /\ pop.handles = handles
        /\ pop.cache = cache
    BY <1>5, <2>1 DEF PopulateOutcome, flush
  <2> QED  BY <1>3, <2>2 DEF SizesInv
<1>6. CASE ~CacheHit(fd, offset) /\ flush.code = "Success"
  <2>1. /\ pop.superblock = flush.superblock /\ pop.handles = flush.handles
        /\ pop.cache.handle = fd /\ pop.cache.for_write = write
    BY <1>6 DEF PopulateOutcome, flush
  <2>2. CASE ~Dirty(pop.cache)
    <3>1. CleanSizes(pop.superblock, pop.handles)
      BY <1>2, <1>6, <2>1
    <3> QED  BY <1>3, <2>1, <2>2, <3>1, CleanSizesHold
  <2>3. CASE Dirty(pop.cache)
    <3>1. Writable(fd)
      BY <2>1, <2>3 DEF Dirty
    <3>2. OfFile(pop.handles[fd]) /\ "Write" \in pop.handles[fd].mode
      BY <1>3, <2>1, <3>1, HandleIdTypes
         DEF SameHandles, FileOpen, OfFile, Writable
    <3>3. /\ pop.handles[fd].file_size =
                pop.superblock.fst[pop.handles[fd].fst_index].size
          /\ pop.handles[fd].file_size \in Nat
      <4>1. Bounded(pop.handles[fd],
                    pop.superblock.fst[pop.handles[fd].fst_index].size)
        BY <1>2, <1>6, <2>1, <3>2 DEF CleanSizes
      <4>2. pop.handles[fd].file_size = handles[fd].file_size
        BY <1>3, <2>1, HandleIdTypes DEF SameHandles
      <4>3. handles[fd].file_size \in U32
        BY HandleIdTypes DEF TypeOK, Handle
      <4> QED  BY <3>2, <4>1, <4>2, <4>3, WordsAreNumbers DEF Bounded
    <3>4. \A f : f = pop.handles[fd].fst_index =>
             SizeIn(pop.superblock, pop.handles, pop.cache, f) =
                pop.superblock.fst[f].size
      BY <2>1, <3>3 DEF SizeIn
    <3>5. \A f : SizeIn(pop.superblock, pop.handles, pop.cache, f) =
                    pop.superblock.fst[f].size
      BY <2>1, <3>4 DEF SizeIn
    <3>6. CleanSizes(pop.superblock, pop.handles)
      BY <1>2, <1>6, <2>1
    <3> QED  BY <1>3, <2>1, <3>3, <3>5, <3>6 DEF CleanSizes, SizesHold
  <2> QED  BY <2>2, <2>3
<1> QED  BY <1>4, <1>5, <1>6

\* A writer goes on, and its file with it.
LEMMA CopiedSizes ==
    ASSUME NEW sb, NEW h1, NEW c1, SizesHold(sb, h1, c1), OneWriter(h1),
           NEW fd \in Fds, OfFile(h1[fd]), "Write" \in h1[fd].mode,
           NEW offset \in Nat, NEW size \in Nat, offset <= size,
           NEW h2, NEW c2,
           \A k \in Fds :
               /\ h1[k].file_size \in Nat
               /\ h2[k].opened = h1[k].opened /\ h2[k].fst_index = h1[k].fst_index
               /\ h2[k].mode = h1[k].mode
               /\ h2[k].file_offset = IF k = fd THEN offset ELSE h1[k].file_offset
               /\ h2[k].file_size = IF k = fd THEN size ELSE h1[k].file_size,
           h1[fd].file_size <= size, c1.handle = fd, c2.handle = fd,
           Dirty(c2) <=> Dirty(c1), Dirty(c1) \/ size = h1[fd].file_size,
           sb.fst[h1[fd].fst_index].size \in Nat
    PROVE  SizesHold(sb, h2, c2)
<1> DEFINE f == h1[fd].fst_index
<1>1. h1[fd].file_size = SizeIn(sb, h1, c1, f)
  BY DEF SizesHold, Bounded
<1>2. size = SizeIn(sb, h2, c2, f)
  BY <1>1 DEF SizeIn
<1>3. \A g : g # f => SizeIn(sb, h2, c2, g) = SizeIn(sb, h1, c1, g)
  BY DEF SizeIn
<1>4. ASSUME NEW k \in Fds, OfFile(h2[k])
      PROVE  Bounded(h2[k], SizeIn(sb, h2, c2, h2[k].fst_index))
  <2>1. OfFile(h1[k]) /\ Bounded(h1[k], SizeIn(sb, h1, c1, h1[k].fst_index))
    BY <1>4 DEF SizesHold, OfFile
  <2>2. CASE k = fd
    BY <1>2, <2>2 DEF Bounded
  <2>3. CASE k # fd /\ h1[k].fst_index # f
    BY <1>3, <2>1, <2>3 DEF Bounded
  <2>4. CASE k # fd /\ h1[k].fst_index = f
    <3>1. "Write" \notin h1[k].mode
      BY <2>1, <2>4 DEF OneWriter
    <3>2. h1[k].file_size <= h1[fd].file_size
      BY <1>1, <2>1, <2>4 DEF Bounded
    <3>3. h1[k].file_size <= size
      BY <3>2
    <3> QED  BY <1>2, <2>1, <2>4, <3>1, <3>3 DEF Bounded
  <2> QED  BY <2>2, <2>3, <2>4
<1>5. Dirty(c2) => sb.fst[h2[c2.handle].fst_index].size <= h2[c2.handle].file_size
  <2>1. Dirty(c1) => sb.fst[f].size <= h1[fd].file_size
    BY DEF SizesHold
  <2> QED  BY <2>1
<1> QED  BY <1>4, <1>5 DEF SizesHold

LEMMA SameOneWriter ==
    ASSUME NEW hs, SameHandles(hs), OneWriter(handles)
    PROVE  OneWriter(hs)
BY HandleIdTypes DEF SameHandles, OneWriter, OfFile
\* A position that stays below a size does not wrap around.
LEMMA NoWrap ==
    ASSUME NEW offset \in Nat, NEW length \in Nat, NEW size \in U32,
           NEW left \in Int, length <= left, offset + left <= size
    PROVE  /\ (offset + length) % WordSize = offset + length
           /\ offset + length <= size
<1>1. size \in Nat /\ size < WordSize /\ WordSize \in Nat
  <2>1. size \in 0..(WordSize - 1) /\ WordSize \in Nat
    BY SffsAssumption DEF SffsAssumption, U32
  <2> QED  BY <2>1
<1>2. offset + length <= size
  BY <1>1
<1> QED  BY <1>1, <1>2, SMT

LEMMA AdvanceSizes ==
    ASSUME TypeOK, OpenFilesAreFiles, HandlesInv, SizesInv, call # Idle,
           NEW op, NEW write \in BOOLEAN, write <=> op = "WriteFile",
           op \in {"ReadFile", "WriteFile"}, Advance(op, write)
    PROVE  SizesInv'
<1> DEFINE fd   == call.fd
           h    == handles[fd]
           pop  == PopulateFileCache(fd, h.file_offset, write)
           left == call.count - call.done
<1>1. /\ call.op = op /\ FileOpen(fd) /\ (write => Writable(fd))
      /\ call.count \in Nat /\ call.done \in Nat
  <2>1. call.op = op
    BY Zenon DEF Advance
  <2>2. call \in Call
    BY DEF TypeOK
  <2>3. call.count \in Nat /\ call.done \in Nat
    BY <2>2, WordsAreNumbers DEF Call
  <2> QED  BY <2>1, <2>3 DEF HandlesInv
<1>2. /\ fd \in Fds /\ fd \in HandleIds
      /\ h.file_offset \in U32 /\ h.file_size \in U32
  BY <1>1, HandleIdTypes DEF FileOpen, TypeOK, Handle
<1>3. h.file_offset \in Nat /\ h.file_size \in Nat
  <2> HIDE DEF h
  <2> QED  BY <1>2, WordsAreNumbers
<1>4. /\ PopulateOutcome(pop, fd, h.file_offset, write)
      /\ AdvanceOutcome(pop, write) /\ pop \in IoStates
  <2>1. PopulateOutcome(pop, fd, h.file_offset, write) /\ pop \in IoStates
    <3> HIDE DEF fd, h
    <3> QED  BY <1>2, PopulateOutcomes, PopulateFileCacheType
  <2> QED  BY <2>1, AdvanceOutcomes
<1>5. /\ op = "ReadFile" => h.file_offset + left <= h.file_size
      /\ op = "WriteFile" =>
            /\ h.file_offset + left <= MaxFileSize
            /\ CacheHit(fd, h.file_offset) => cache.for_write
  BY <1>1 DEF SizesInv, RunningBounded
<1> HIDE DEF pop
<1>6. /\ SizesHold(pop.superblock, pop.handles, pop.cache)
      /\ SameHandles(pop.handles)
  <2> HIDE DEF fd, h
  <2> QED  BY <1>1, <1>2, <1>4, PopulatedSizes
<1>7. OneWriter(pop.handles)
  BY <1>6, SameOneWriter DEF SizesInv
<1>8. superblock' = pop.superblock
  BY <1>4 DEF AdvanceOutcome
<1>9. CASE handles' = pop.handles /\ cache' = pop.cache /\ call' = Idle
  <2>1. SizesHold(superblock', handles', cache') /\ OneWriter(handles')
    BY <1>6, <1>7, <1>8, <1>9
  <2> QED  BY <1>9, <2>1 DEF SizesInv, RunningBounded
<1>10. ASSUME NEW length \in Nat, Advanced(pop, write, length) PROVE SizesInv'
  <2> DEFINE offset == (h.file_offset + length) % WordSize
             size   == IF h.file_size < offset THEN offset ELSE h.file_size
  <2>1. /\ pop.code = "Success" /\ length <= left
        /\ /\ pop.cache.data = <<>>
           /\ pop.cache.chain_index = ChainIndexOf(h.file_offset)
           => length = 0
        /\ \A k \in HandleIds :
              /\ handles'[k].opened = pop.handles[k].opened
              /\ handles'[k].fst_index = pop.handles[k].fst_index
              /\ handles'[k].mode = pop.handles[k].mode
              /\ handles'[k].file_offset = IF k = fd THEN offset
                                           ELSE pop.handles[k].file_offset
              /\ handles'[k].file_size = IF k = fd /\ write THEN size
                                         ELSE pop.handles[k].file_size
        /\ cache'.handle = pop.cache.handle
        /\ cache'.chain_index = pop.cache.chain_index
        /\ cache'.for_write = pop.cache.for_write
        /\ cache'.data = <<>> <=> pop.cache.data = <<>>
        /\ \/ call' = Idle
           \/ /\ call' # Idle /\ call'.op = call.op /\ call'.fd = fd
              /\ call'.count = call.count /\ call'.done = call.done + length
    BY <1>10, Zenon DEF Advanced
  <2>2. /\ pop.cache.handle = fd
        /\ pop.cache.chain_index = ChainIndexOf(h.file_offset)
        /\ op = "WriteFile" => pop.cache.for_write
    <3>1. CASE CacheHit(fd, h.file_offset)
      BY <1>4, <1>5, <3>1 DEF PopulateOutcome, CacheHit
    <3>2. CASE ~CacheHit(fd, h.file_offset)
      <4> HIDE DEF h
      <4> QED  BY <1>4, <2>1, <3>2 DEF PopulateOutcome
    <3> QED  BY <3>1, <3>2
  <2>3. Dirty(cache') <=> Dirty(pop.cache)
    BY <2>1 DEF Dirty
  <2>4. OneWriter(handles')
    BY <1>7, <2>1, HandleIdTypes DEF OneWriter, OfFile
  <2>5. /\ pop.handles[fd].file_size = h.file_size
        /\ pop.handles[fd].mode = h.mode
        /\ OfFile(pop.handles[fd])
    BY <1>1, <1>2, <1>6 DEF SameHandles, OfFile, FileOpen
  <2>6. left \in Int
    BY <1>1
  <2>7. CASE op = "ReadFile"
    <3>1. offset = h.file_offset + length /\ offset <= h.file_size
      <4>1. h.file_size \in U32 /\ h.file_offset \in Nat
        BY <1>2, <1>3
      <4>2. length <= left /\ h.file_offset + left <= h.file_size
        BY <1>5, <2>1, <2>7
      <4> HIDE DEF h, left
      <4> QED  BY <2>6, <4>1, <4>2, NoWrap
    <3>2. \A k \in HandleIds :
             /\ handles'[k].opened = pop.handles[k].opened
             /\ handles'[k].fst_index = pop.handles[k].fst_index
             /\ handles'[k].mode = pop.handles[k].mode
             /\ handles'[k].file_size = pop.handles[k].file_size
             /\ OfFile(pop.handles[k]) /\ k \in Fds =>
                   handles'[k].file_offset <= handles'[k].file_size
      <4>1. \A k \in Fds : OfFile(pop.handles[k]) =>
               pop.handles[k].file_offset <= pop.handles[k].file_size
        BY <1>6 DEF SizesHold, Bounded
      <4> HIDE DEF offset, size, h
      <4> QED  BY <2>1, <2>5, <2>7, <3>1, <4>1
    <3>3. SizesHold(pop.superblock, handles', cache')
      <4> HIDE DEF fd
      <4> QED  BY <1>2, <1>6, <2>1, <2>2, <2>3, <3>2, MovedSizes
    <3>4. SizesHold(superblock', handles', cache')
      BY <1>8, <3>3
    <3>5. CASE call' = Idle
      BY <2>4, <3>4, <3>5 DEF SizesInv, RunningBounded
    <3>6. CASE call' # Idle
      <4>1. /\ handles'[call'.fd].file_offset = h.file_offset + length
            /\ handles'[call'.fd].file_size = h.file_size
            /\ call'.count - call'.done = left - length
            /\ call'.op = "ReadFile"
        <5>1. call'.count - call'.done = left - length
          BY <1>1, <2>1, <3>6
        <5> HIDE DEF offset, size, h, left
        <5> QED  BY <1>1, <1>2, <2>1, <2>5, <2>7, <3>1, <3>6, <5>1
      <4>2. h.file_offset + length + (left - length) <= h.file_size
        <5> HIDE DEF h, left
        <5> QED  BY <1>3, <1>5, <2>6, <2>7
      <4>3. RunningBounded'
        <5> HIDE DEF h, left
        <5> QED  BY <4>1, <4>2 DEF RunningBounded
      <4> QED  BY <2>4, <3>4, <4>3 DEF SizesInv
    <3> QED  BY <3>5, <3>6
  <2>8. CASE op = "WriteFile"
    <3>1. offset = h.file_offset + length /\ offset <= MaxFileSize
      <4>1. MaxFileSize \in U32
        BY FileSystemAssumption DEF FileSystemAssumption
      <4> HIDE DEF h, left
      <4> QED  BY <1>3, <1>5, <2>1, <2>6, <2>8, <4>1, NoWrap
    <3>2. /\ offset \in Nat /\ size \in Nat /\ offset <= size
          /\ h.file_size <= size
      <4>1. offset \in Nat
        BY <1>3, <3>1
      <4> HIDE DEF offset, h
      <4> QED  BY <1>3, <4>1
    <3>3. Dirty(pop.cache) \/ size = h.file_size
      <4>1. CASE pop.cache.data = <<>>
        <5>1. length = 0
          BY <2>1, <2>2, <4>1
        <5>2. h.file_offset <= h.file_size
          BY <1>1 DEF SizesInv, SizesHold, FileOpen, OfFile, Bounded
        <5>3. offset = h.file_offset
          BY <1>3, <3>1, <5>1
        <5> HIDE DEF offset, h
        <5> QED  BY <1>3, <5>2, <5>3
      <4>2. CASE pop.cache.data # <<>>
        BY <1>2, <2>2, <2>8, <4>2, HandleIdTypes DEF Dirty
      <4> QED  BY <4>1, <4>2
    <3>4. \A k \in Fds : pop.handles[k].file_size \in Nat
      <4>1. \A k \in Fds : pop.handles[k].file_size \in U32
        BY <1>4, HandleIdTypes DEF IoStates, Handle
      <4> QED  BY <4>1, WordsAreNumbers
    <3>5. pop.superblock.fst[pop.handles[fd].fst_index].size \in Nat
      <4>1. pop.handles[fd].fst_index \in FstIndices
        <5>1. pop.handles[fd].fst_index = h.fst_index
          BY <1>2, <1>6 DEF SameHandles
        <5>2. h.fst_index \in FstIndices
          BY <1>1 DEF FileOpen, OpenFilesAreFiles
        <5> QED  BY <5>1, <5>2
      <4>2. pop.superblock \in Superblock
        BY <1>4 DEF IoStates
      <4>3. pop.superblock.fst[pop.handles[fd].fst_index].size \in U32
        BY <4>1, <4>2 DEF Superblock, FstEntry
      <4> QED  BY <4>3, WordsAreNumbers
    <3>6. "Write" \in pop.handles[fd].mode
      BY <1>1, <2>5, <2>8 DEF Writable
    <3>7. SizesHold(pop.superblock, handles', cache')
      <4>1. \A k \in Fds :
               /\ pop.handles[k].file_size \in Nat
               /\ handles'[k].opened = pop.handles[k].opened
               /\ handles'[k].fst_index = pop.handles[k].fst_index
               /\ handles'[k].mode = pop.handles[k].mode
               /\ handles'[k].file_offset = IF k = fd THEN offset
                                            ELSE pop.handles[k].file_offset
               /\ handles'[k].file_size = IF k = fd THEN size
                                          ELSE pop.handles[k].file_size
        <5> HIDE DEF offset, size
        <5> QED  BY <2>1, <2>8, <3>4, HandleIdTypes
      <4>2. /\ cache'.handle = fd /\ pop.handles[fd].file_size <= size
            /\ Dirty(pop.cache) \/ size = pop.handles[fd].file_size
        <5> HIDE DEF offset, size, h
        <5> QED  BY <2>1, <2>2, <2>5, <3>2, <3>3
      <4> HIDE DEF offset, size, h, fd
      <4> QED  BY <1>2, <1>6, <1>7, <2>2, <2>3, <2>5, <3>2, <3>5, <3>6, <4>1,
                  <4>2, CopiedSizes
    <3>8. SizesHold(superblock', handles', cache')
      BY <1>8, <3>7
    <3>9. CASE call' = Idle
      BY <2>4, <3>8, <3>9 DEF SizesInv, RunningBounded
    <3>10. CASE call' # Idle
      <4>1. /\ handles'[call'.fd].file_offset = h.file_offset + length
            /\ call'.count - call'.done = left - length
            /\ call'.op = "WriteFile" /\ cache'.for_write
        <5>1. call'.count - call'.done = left - length
          BY <1>1, <2>1, <3>10
        <5> HIDE DEF offset, size, h, left
        <5> QED  BY <1>1, <1>2, <2>1, <2>2, <2>8, <3>1, <3>10, <5>1
      <4>2. h.file_offset + length + (left - length) <= MaxFileSize
        <5>1. MaxFileSize \in Nat
          BY FileSystemAssumption, WordsAreNumbers DEF FileSystemAssumption
        <5> HIDE DEF h, left
        <5> QED  BY <1>3, <1>5, <2>6, <2>8, <5>1
      <4>3. RunningBounded'
        <5> HIDE DEF h, left
        <5> QED  BY <4>1, <4>2 DEF RunningBounded
      <4> QED  BY <2>4, <3>8, <4>3 DEF SizesInv
    <3> QED  BY <3>9, <3>10
  <2> QED  BY <2>7, <2>8
<1> QED  BY <1>4, <1>9, <1>10 DEF AdvanceOutcome
\* No descriptor of the client is open.
LEMMA NothingOpenSizes ==
    ASSUME TypeOK', \A k \in Fds : ~handles'[k].opened, cache'.handle = NoHandle,
           call' = Idle
    PROVE  SizesInv'
BY DEF SizesInv, SizesHold, OneWriter, RunningBounded, OfFile, Dirty

LEMMA NextSizes ==
    ASSUME TypeOK, TypeOK', OpenFilesAreFiles, HandlesInv, HandlesInv', SizesInv,
           SizeSafeUses, [Next]_vars
    PROVE  SizesInv'
<1>1. CASE NamespaceCall
  BY <1>1, NamespaceSizes
<1>2. CASE OpenCall
  <2>1. CASE \E user \in FsUsers : OpenFs(user[1], user[2])
    BY <2>1, OpenFsSizes
  <2>2. CASE \E user \in Users, path \in Paths, mode \in OpenModes :
                PlainOpen(path, mode) /\ OpenFile(user[1], user[2], path, mode)
    BY <2>2, OpenFileSizes, UserTypes
  <2> QED  BY <1>2, <2>1, <2>2 DEF OpenCall
<1>3. CASE FileCall
  <2>1. PICK fd \in HandleIds :
            \/ Close(fd)
            \/ \E offset \in SeekOffsets, whence \in {"Set", "Current", "End"} :
                   SeekFile(fd, offset, whence)
            \/ \E count \in ReadCounts :
                   PlainRead(fd, count) /\ ReadFile(fd, count)
            \/ \E count \in WriteCounts, byte \in Bytes :
                   PlainWrite(fd, count) /\ WriteFile(fd, count, byte)
    BY <1>3 DEF FileCall
  <2>2. ReadCounts \subseteq U32 /\ WriteCounts \subseteq U32
        /\ SeekOffsets \subseteq U32
    BY FileSystemAssumption DEF FileSystemAssumption
  <2>3. CASE Close(fd)
    BY <2>3, CloseSizes
  <2>4. CASE \E offset \in SeekOffsets, whence \in {"Set", "Current", "End"} :
                 SeekFile(fd, offset, whence)
    BY <2>2, <2>4, SeekSizes
  <2>5. CASE \E count \in ReadCounts : PlainRead(fd, count) /\ ReadFile(fd, count)
    BY <2>2, <2>5, ReadSizes
  <2>6. CASE \E count \in WriteCounts, byte \in Bytes :
                 PlainWrite(fd, count) /\ WriteFile(fd, count, byte)
    BY <2>2, <2>6, WriteSizes
  <2> QED  BY <2>1, <2>3, <2>4, <2>5, <2>6
<1>4. CASE FormatCall
  <2>1. cache.handle = NoHandle /\ cache' = cache /\ call' = Idle
    BY <1>4 DEF FormatCall, Format, Permitted, Returns, SizeSafeUses
  <2>2. \/ superblock' = superblock /\ handles' = handles
        \/ \A k \in Fds : ~handles'[k].opened
    BY <1>4, HandleIdTypes DEF FormatCall, Format, TypeOK, Handle
  <2>3. CASE superblock' = superblock /\ handles' = handles
    BY <2>1, <2>3, KeptSizes DEF SameFileHandle
  <2> QED  BY <2>1, <2>2, <2>3, NothingOpenSizes
<1>5. CASE ReadFileStep \/ WriteFileStep
  <2>1. call # Idle
    BY <1>5, RunningCall
  <2>2. CASE ReadFileStep
    <3>1. Advance("ReadFile", FALSE)
      BY <2>2, Zenon DEF ReadFileStep
    <3> QED  BY <2>1, <3>1, AdvanceSizes
  <2>3. CASE WriteFileStep
    <3>1. Advance("WriteFile", TRUE)
      BY <2>3, Zenon DEF WriteFileStep
    <3> QED  BY <2>1, <3>1, AdvanceSizes
  <2> QED  BY <1>5, <2>2, <2>3
<1>6. CASE Remount
  <2>1. cache'.handle = NoHandle /\ call' = Idle
    BY <1>6 DEF Remount, Returns, EmptyCache
  <2>2. \A k \in Fds : ~handles'[k].opened
    BY <1>6, HandleIdTypes DEF Remount, NewHandle
  <2> QED  BY <2>1, <2>2, NothingOpenSizes
<1>7. CASE UNCHANGED vars
  BY <1>7 DEF vars, SizesInv, RunningBounded, CacheHit
<1> QED  BY <1>1, <1>2, <1>3, <1>4, <1>5, <1>6, <1>7 DEF Next

LEMMA InitSizes == Init => SizesInv
<1> SUFFICES ASSUME Init PROVE SizesInv
  OBVIOUS
<1>1. \A k \in Fds : ~handles[k].opened
  BY HandleIdTypes DEF Init, NewHandle
<1>2. cache.handle = NoHandle /\ call = Idle
  BY DEF Init, EmptyCache
<1> QED  BY <1>1, <1>2
         DEF SizesInv, SizesHold, OneWriter, RunningBounded, OfFile, Dirty

\* With one writer of a file at a time, no count that wraps around, no write to a
\* cluster that was read, and no Format while a file is in the cache: no descriptor
\* believes that its file is longer than it is, and none is past that size, whoever
\* writes the file, reads it or pushes its data out of the cache, and whatever
\* flush fails.
THEOREM HandleSizesStayBounded ==
    ASSUME SizeSafeUses
    PROVE  Spec => []HandleSizesBounded
<1> DEFINE Inv == TypeOK /\ OpenFilesAreFiles /\ HandlesInv /\ SizesInv
<1>1. Init => Inv
  BY InitType, InitOpenFiles, InitHandles, InitSizes
<1>2. Inv /\ [Next]_vars => Inv'
  <2>1. "format_with_cache" \notin Uses
    BY DEF SizeSafeUses
  <2> QED  BY <2>1, NextType, NextOpenFiles, NextHandles, NextSizes
<1>3. Inv => HandleSizesBounded
  BY SizesSuffice
<1> QED  BY <1>1, <1>2, <1>3, PTL DEF Spec
=============================================================================
