---------------------------- MODULE FsProperties ----------------------------
(***************************************************************************)
(* What makes the driver correct: properties of the tree and of the FAT in *)
(* memory and on the NAND, of the open files, of the data and the cache,   *)
(* and of single calls.                                                    *)
(***************************************************************************)
EXTENDS FileSystem

\* Every variable holds a value of its C++ type: no index, size or mode
\* computed by a call leaves its range.
TypeOK ==
    /\ superblock \in Superblock /\ stored \in Superblock
    /\ nand \in [Clusters -> NandCluster]
    /\ handles \in [HandleIds -> Handle]
    /\ cache \in Cache
    /\ call \in Call \cup {Idle}
    /\ result \in ResultCode

-----------------------------------------------------------------------------
(* The tree.                                                               *)

\* The entries that can be reached from the root, the root among them.
Live(sb) == {0} \cup Traversal(sb, 0, IsDirectory)

LiveFiles(sb) == {i \in Live(sb) : IsFile(sb.fst[i])}
LiveDirectories(sb) == {i \in Live(sb) : IsDirectory(sb.fst[i])}

\* The pointers of live entries to entry i.
PointersTo(sb, i) ==
    {<<"sib", p>> : p \in {q \in Live(sb) : sb.fst[q].sib = i}} \cup
    {<<"sub", p>> : p \in {q \in LiveDirectories(sb) : sb.fst[q].sub = i}}

TreeWellFormed(sb) ==
    /\ IsDirectory(sb.fst[0]) /\ sb.fst[0].sib = NIL
    /\ PointersTo(sb, 0) = {}
    /\ \A i \in Live(sb) :
          /\ sb.fst[i].type # "none"
          /\ sb.fst[i].sib \in FstIndices \cup {NIL}
          /\ IsDirectory(sb.fst[i]) => sb.fst[i].sub \in FstIndices \cup {NIL}
    /\ \A i \in Live(sb) \ {0} : Cardinality(PointersTo(sb, i)) = 1

SiblingNamesUnique(sb) ==
    \A d \in LiveDirectories(sb) : \A i, j \in Children(sb, d) :
        sb.fst[i].name = sb.fst[j].name => i = j

\* The pointers that Create, Delete and Rename edit always make a tree: every
\* entry reachable from the root is in use, and exactly one pointer leads to
\* it.  This is so in memory and in the superblock a later mount will load.
TreeOK == TreeWellFormed(superblock) /\ TreeWellFormed(stored)

\* No directory ever has two children of one name: the checks of Create and
\* Rename look the new name up in the same list they add it to.
NamesUnique == SiblingNamesUnique(superblock) /\ SiblingNamesUnique(stored)

\* Every entry in use can be reached from the root, so that no FST entry is
\* lost for good: Delete clears the mode of all that it unlinks.
NoLostEntries == \A i \in FstIndices :
    superblock.fst[i].type # "none" => i \in Live(superblock)

-----------------------------------------------------------------------------
(* The FAT.                                                                *)

ChainOf(sb, file) == ClusterChain(sb, sb.fst[file].sub)

RoundedUp(size) == (size + CLUSTER_DATA_SIZE - 1) \div CLUSTER_DATA_SIZE

DataClusters == FIRST_DATA_CLUSTER..(SUPERBLOCK_START_CLUSTER - 1)

FatWellFormed(sb) ==
    LET chains == {[first |-> sb.fst[f].sub, file |-> f,
                    clusters |-> ChainOf(sb, f)] : f \in LiveFiles(sb)}
    IN  /\ \A x \in chains :
              /\ x.clusters \subseteq DataClusters
              /\ {x.first} \cup {sb.fat[c] : c \in x.clusters} \subseteq
                    x.clusters \cup {CLUSTER_LAST_IN_CHAIN}
        /\ \A x, y \in chains :
              x.file # y.file => x.clusters \cap y.clusters = {}
        /\ {c \in Clusters : sb.fat[c] \in Clusters \cup {CLUSTER_LAST_IN_CHAIN}}
              = UNION {x.clusters : x \in chains}

\* The chains of the files are disjoint lists of data clusters, and a cluster
\* in use is in one of them: nothing is allocated twice, nothing leaks.
FatOK == FatWellFormed(superblock) /\ FatWellFormed(stored)

ChainsMatch(sb) == \A f \in LiveFiles(sb) :
    Cardinality(ChainOf(sb, f)) = RoundedUp(sb.fst[f].size)

\* A chain has as many clusters as the size in the FST needs.  ReadFileData
\* relies on it: it looks clusters up by the size and takes what it finds.
ChainsMatchSizes == ChainsMatch(superblock) /\ ChainsMatch(stored)

\* The two ways to count clusters in use, over the FAT and over the tree, agree.
StatsAgree ==
    NandStats(superblock).used_clusters =
        DirectoryStats(superblock, 0).used_clusters

\* Every cluster that GetNandStats counts as free can be allocated.
FreeClustersAllocatable ==
    NandStats(superblock).free_clusters = Cardinality(UnusedClusters(superblock))

-----------------------------------------------------------------------------
(* Open files.                                                             *)

\* An open descriptor of a file refers to an entry that is a file: the in-use
\* checks of Delete and Rename, of the entry itself or of all below it, keep it.
OpenFilesAreFiles == \A fd \in Fds :
    handles[fd].opened /\ handles[fd].fst_index # NIL =>
        /\ handles[fd].fst_index \in FstIndices
        /\ IsFile(superblock.fst[handles[fd].fst_index])

\* The entry can also be reached from the root: the file can be opened again by
\* its path, however the directories above it are renamed.
OpenFilesLive == \A fd \in Fds :
    handles[fd].opened /\ handles[fd].fst_index # NIL =>
        handles[fd].fst_index \in LiveFiles(superblock)

\* While a file is open it keeps its name, and with it the salt of its HMACs.
OpenFileKeepsName == [][\A fd \in Fds :
    handles[fd].opened /\ handles'[fd].opened /\ HasFile(fd) =>
        superblock'.fst[handles[fd].fst_index].name =
            superblock.fst[handles[fd].fst_index].name]_vars

\* Metadata that are only in memory belong to an open descriptor that will flush
\* them when it is closed.
UnflushedHasOwner ==
    superblock # Normalised(stored) =>
        \E fd \in Fds : /\ handles[fd].opened
                        /\ handles[fd].superblock_flush_needed

\* The names that a directory lists are other ones after the step.
DirectoryChanges(d) ==
    /\ superblock'.fst # superblock.fst
    /\ d \in LiveDirectories(superblock) \cap LiveDirectories(superblock')
    /\ {superblock.fst[i].name : i \in Children(superblock, d)} #
           {superblock'.fst[i].name : i \in Children(superblock', d)}

\* What a directory lists changes only by Format or by a call on a descriptor.
\* Every descriptor is open, for a user who may write to the directory, or the call
\* cannot have been made on it: one user may write to both directories of a Rename,
\* whichever of the entries that user owns.
OnlyWritersChangeDirectories == [][
    \A d \in FstIndices : DirectoryChanges(d) =>
        /\ FormatCall \/ NamespaceCall
        /\ \A fd \in PathFds :
              \/ IsOpen(fd) /\ HasPermission(superblock.fst[d], handles[fd].uid,
                                            handles[fd].gid, {"Write"})
              \/ ~NamespaceCallOn(fd)]_vars

-----------------------------------------------------------------------------
(* Data.                                                                   *)

\* Every cluster that the size of the file needs is found, and passes the check of
\* ReadFileData.
Verifies(sb, file) ==
    \A k \in 0..(RoundedUp(sb.fst[file].size) - 1) :
        ReadFileData(sb, nand, file, k).code = "Success"

\* Whatever was written can be read back: no file fails its HMAC check or has
\* fewer clusters than its size says.
FilesVerify == \A f \in LiveFiles(superblock) : Verifies(superblock, f)

\* The same of the superblock on the NAND, which a mount after a crash loads.
StoredFilesVerify == \A f \in LiveFiles(stored) : Verifies(stored, f)

\* The cache belongs to an open file.  What it holds for reading is what the
\* NAND holds; what waits to be written will be accepted by WriteFileData, at
\* the end of the chain or in its last cluster.
CacheCoherent ==
    cache.handle # NoHandle =>
        LET h == handles[cache.handle]
            f == h.fst_index
        IN  /\ HasFile(cache.handle)
            /\ cache.data # <<>>
            /\ IF cache.for_write
               THEN /\ h.file_size >= superblock.fst[f].size
                    /\ RoundedUp(h.file_size) = cache.chain_index + 1
                    /\ cache.chain_index - Cardinality(ChainOf(superblock, f))
                          \in {-1, 0}
               ELSE cache.data =
                       ReadFileData(superblock, nand, f, cache.chain_index).data

\* WriteFileData accepts what waits in the cache, unless the NAND is full.  A
\* flush that fails otherwise fails until its writer makes the file longer in this
\* very cluster: before that no descriptor can read or write another cluster, and
\* the writer cannot be closed.
FlushAccepted == FlushFileCache.code \in {"Success", "NoFreeSpace"}

\* A dirty cluster waits in the cache for the file.
PendingFor(f) == Dirty(cache) /\ handles[cache.handle].fst_index = f

\* What a reader of the file should see: the clusters of its chain, one of them
\* perhaps newer in the cache.  A byte that no cluster holds is not part of it.
ContentSize(f) == IF PendingFor(f) THEN handles[cache.handle].file_size
                                   ELSE superblock.fst[f].size

Content(f) ==
    LET Block(k) == IF PendingFor(f) /\ cache.chain_index = k THEN cache.data
                    ELSE ReadFileData(superblock, nand, f, k).data
        Held == {n \in 0..(ContentSize(f) - 1) :
                   1 + (n % CLUSTER_DATA_SIZE) \in
                       DOMAIN Block(n \div CLUSTER_DATA_SIZE)}
    IN  [n \in Held |-> Block(n \div CLUSTER_DATA_SIZE)
                            [1 + (n % CLUSTER_DATA_SIZE)]]

\* A descriptor never believes that its file is longer than the file is, the data
\* that wait in the cache counted: not when another one writes the file, nor when
\* a write fails half way.  Its position is never past that size.
HandleSizesBounded == \A fd \in Fds :
    handles[fd].opened /\ HasFile(fd) =>
        LET status == FileStatus(fd)
        IN  /\ status.offset <= status.size
            /\ status.size <= ContentSize(handles[fd].fst_index)

\* The bytes that a round of ReadFile copies are those of the file at the position
\* of the descriptor, whoever wrote them and wherever they are: on the NAND, in the
\* cache, or pushed out of the cache by this very round.
ReadReturnsContent == [][
    \A fd \in HandleIds :
        call # Idle /\ call.op = "ReadFile" /\ call.fd = fd =>
            LET from    == GetFileStatus(fd).status.offset
                to      == FileStatus(fd)'.offset
                content == Content(handles[fd].fst_index)
                start   == CopyStart(from, cache')
            IN  from..(to - 1) \subseteq DOMAIN content /\
                \A n \in from..(to - 1) :
                    content[n] = cache'.data[1 + start + n - from]]_vars

\* The content after the bytes of one round of WriteFile.
WrittenContent(f, from, to) ==
    LET old == Content(f)
    IN  [n \in DOMAIN old \cup (from..(to - 1)) |->
            IF n \in from..(to - 1) THEN call.byte ELSE old[n]]

\* A round of WriteFile changes the bytes it copies and no other, and nothing
\* else changes the content of a file that stays: not the reads of another
\* descriptor that push dirty data out of the cache, not a flush that fails, not
\* Close, not a change in the tree.
ContentChangesOnlyByWrite == [][
    \A f \in LiveFiles(superblock) :
        f \in LiveFiles(superblock') /\ superblock'.fst # FormattedSuperblock.fst
        => LET writer == call # Idle /\ call.op = "WriteFile"
                            /\ handles[call.fd].fst_index = f
           IN  IF writer
               THEN Content(f)' =
                       WrittenContent(f, handles[call.fd].file_offset,
                                      handles'[call.fd].file_offset)
               ELSE Content(f)' = Content(f)]_vars

\* Clusters of boot1, boot2 and the superblocks are never allocated or freed.
ReservedClustersStay == [][
    \A c \in Clusters \ DataClusters : superblock'.fat[c] = superblock.fat[c]]_vars

\* The cache as the next round of the running call finds it.
NextPopulated ==
    PopulateFileCache(call.fd, handles[call.fd].file_offset,
                      call.op = "WriteFile")

\* Each round of ReadFile and WriteFile that does not end the call with an error
\* copies at least one byte: none starts at or behind the end of m_cache_data,
\* whatever the rounds before it, failed calls, and the calls on other descriptors
\* left in the cache.
RoundsCopy ==
    call # Idle /\ NextPopulated.code = "Success" =>
        CopyLength(handles[call.fd].file_offset, NextPopulated.cache) > 0

\* ReadFile and WriteFile come to an end, also when a round cannot write because
\* the NAND is full.
CallsEnd == call # Idle ~> call = Idle
=============================================================================
