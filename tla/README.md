# A model of wiifs

wiifs (`src/`) is a driver for the SFFS file system on the NAND of the Wii. It
works on an image of the NAND in memory and offers the calls of IOS: open,
read, write, create, delete, rename, and so on. This directory holds TLA+ models
of the driver, the configurations with which TLC checks them, and theorems about
them that TLAPS proves.

The driver has no threads and no locks. What makes it hard is state that lives
long and is shared by many calls: 16 descriptors that share a write-back cache of
one cluster; a file system tree and chains of clusters made of 16-bit pointers
that are edited in place; metadata that are changed in memory at once and written
to the NAND at some later call; and a process that may stop anywhere in between.

## The system

| Component | State | Operations | Talks to |
|---|---|---|---|
| SFFS structures (`sffs.h`, `sffs.cpp`; the static helpers of `fs.cpp`, lookups of `low_level.cpp`) | the superblock: FAT (next cluster, per cluster) and FST (entries linked by `sub` and `sib`) | find by path, find a free entry, follow a chain, free a chain, unlink an entry | used by all below |
| Descriptors and file calls (`file.cpp`) | `m_handles[16]`, `m_internal_handle`, the cache (`m_cache_handle`, `_chain_index`, `_data`, `_for_write`) | `OpenFs`, `OpenFile`, `Close`, `ReadFile`, `WriteFile`, `SeekFile`, `GetFileStatus` | data path for the cache, superblock for sizes |
| NAND data path (`low_level.cpp`) | the clusters of the image with their HMACs | `ReadFileData`, `WriteFileData` (allocates, links, frees) | FAT and FST, crypto, ECC |
| Namespace calls (`fs.cpp`) | none of its own | `Format`, `CreateFile`, `CreateDirectory`, `Delete`, `Rename`, `SetMetadata`, `ReadDirectory`, `GetMetadata`, the statistics | handles (in-use checks, users), FST; each change is flushed |
| Superblock ring (`low_level.cpp`) | 16 slots of 16 clusters, `m_superblock`, `m_superblock_index` | `GetSuperblock` (mount), `FlushSuperblock` | called by all that changes metadata |
| Paths and permissions (`util.cpp`) | none | `HasPermission`, `SplitPath`, `IsValidNonRootPath` | |
| Crypto, ECC, byte swaps, string splitting, logging (`common/`) | none | pure functions | used by the data path, the ring, and every access to an entry |

Behaviours that are hard to test, and which the properties are for (all with
their lines under `hazards` in `PROJECT.json`):

* the order in which descriptors use the one cache, and what a failed flush or a
  failed read leaves in it;
* sizes that handles copy when they are opened and that go stale;
* data that only a growing size lets through to the NAND;
* editing of linked lists and chains over long sequences of calls, and handles
  that refer to FST entries by index across them;
* clusters freed in memory while the superblock on the NAND still uses them;
* a crash between file data and metadata, or between two clusters of a superblock;
* limits: a full NAND, a full FST, a full handle table, a version or an offset
  that wraps around, a name of more than 12 characters.

What makes each component correct:

* tree: every pointer of a reachable entry leads to an entry in use, every
  entry has one pointer to it, names of siblings differ (`TreeOK`,
  `NamesUnique`), nothing in use is unreachable (`NoLostEntries`, which the code
  does not satisfy); the entries behave as a tree of paths, in what calls
  change and durably leave behind (`ImplementsNamespace`) and in what they
  answer (`AnswersAgree`: result codes, listings, metadata, counts);
* FAT: chains are disjoint lists of data clusters, of the length that the sizes
  ask for, and every cluster in use is in one (`FatOK`, `ChainsMatchSizes`,
  `StatsAgree`, `ReservedClustersStay`); every cluster counted as free can be
  given out (`FreeClustersAllocatable`);
* descriptors: an open one refers to a reachable file whose name stays
  (`OpenFilesLive`, `OpenFileKeepsName`; that it is a file at all,
  `OpenFilesAreFiles`, is only proved), its position and size fit the file
  (`HandleSizesBounded`), metadata not yet on the NAND have an open descriptor that
  will flush them (`UnflushedHasOwner`);
* data: what was written is what is read, by any descriptor, at any time
  (`ContentChangesOnlyByWrite`, `ReadReturnsContent`, `CacheCoherent`), every
  cluster that a size needs is there and passes its check (`FilesVerify`), and data
  can always be flushed (`FlushAccepted`); no round of a call copies nothing
  (`RoundsCopy`), and so calls end (`CallsEnd`);
* permissions: what a directory lists changes only in a call on a descriptor that may
  write to it (`OnlyWritersChangeDirectories`);
* ring: a mount finds the last flush, a crash leaves a complete superblock
  (`MountFindsLastFlush`, `SomeSlotSurvives`, `FlushEnds`, `ImplementsStore`), and
  what failed its check is not used (`OnlyVerifiedUsed`, which the code does not
  satisfy);
* bytes: a cluster reads back as it was written, also with a damaged spare byte
  (`ClustersReadBack`, `OneCopySuffices`), its ECC is of use (`EccLocatesFlips`);
  an entry of packed, swapped fields is a record (`ImplementsRecord`,
  `StoredBigEndian`, `BitsGrant`); a path string is a sequence of components
  (`ParentThenName`, `PathsAreComponents`, `AcceptedNamesResolve`).

## The modules

```
Sffs  <-  FileIo  <-  FileSystem  <-  FsProperties  <-  FsRefinement  <-  MCFileSystem   (TLC)
  ^                                        ^                 |
  |                                        |                 +--INSTANCE-->  Namespace
SffsProofs  <-  FileSystemProofs (also EXTENDS FsProperties)  <-  TreeProofs
                                                                    ^
                                 DataProofs  ->  HandleProofs  -----+
                                                     ^
                                             RefinementProofs (also EXTENDS FsRefinement)

SuperblockRing  --INSTANCE-->  SuperblockStore
  ^
SuperblockRingProofs

Ecc  <-  NandImage  <-  NandProofs
            ^-------------------------+
ByteOrder  <-  EntryBytes  <-  PathStrings  <-  MCFormats   (TLC)
                   +--INSTANCE-->  EntryRecord
```

`A <- B` is "B EXTENDS A"; `MCFormats` extends `NandImage` and `PathStrings`.

| Module | Models |
|---|---|
| `Sffs` | superblock, lookups and edits: `sffs.h`, `sffs.cpp`, `util.cpp`, `GetFstIndex`, `GetClusterForFile`, `DeleteFile`, `DeleteDirectoryContents`, `RemoveFstEntryFromChain` |
| `FileIo` | the state of `FileSystemImpl`, `file.cpp`, `ReadFileData` and `WriteFileData` |
| `FileSystem` | `fs.cpp`, mounting, and the client that makes the calls: the whole driver |
| `FsProperties` | what is checked of it |
| `Namespace` | what it promises about names: a tree of paths, what a restart finds of it, and descriptors |
| `FsRefinement` | that `FileSystem` implements `Namespace`, and answers like it |
| `SuperblockRing` | `GetSuperblock` and `FlushSuperblock`, cluster by cluster |
| `SuperblockStore` | what the ring promises: one place, replaced at once or torn and detected |
| `NandImage` | `WriteCluster` page by page, `ReadCluster`, AES-CBC, the HMAC and the layout of the spare areas |
| `Ecc` | `ecc.cpp` |
| `ByteOrder` | `swap.h`, `BigEndianValue` |
| `EntryBytes` | the packed bytes of an FST entry and their access, `sffs.h`, `sffs.cpp`, the bits of `HasPermission` |
| `EntryRecord` | what an entry promises: independent fields |
| `PathStrings` | `SplitString`, `SplitPath`, `IsValidNonRootPath`, the checks of the characters of a name |
| `MCFileSystem`, `MCFormats` | values of the constants, symmetry and view for TLC |
| `SffsProofs` | lemmas about the lookups and edits; about trees of entries with two pointers each, without names and types, and about chains of clusters: freeing, starting and splicing them |
| `FileSystemProofs` | lemmas about the file calls and the namespace calls; theorems about types and open descriptors |
| `TreeProofs` | theorems about the tree: shape, names, open files, who changes a directory; about the FAT: disjoint chains without leaks, clusters never touched |
| `HandleProofs` | theorems about descriptors and the cache: sizes and positions, who flushes what, free clusters |
| `DataProofs` | theorems about file data: lengths of chains, HMACs, the cache, what readers see |
| `RefinementProofs` | theorems about `Namespace`: the driver implements it, and answers like it |
| `SuperblockRingProofs` | theorems about the ring |
| `NandProofs` | theorems about the bytes of the image |

State and code:

| Variable | In the code |
|---|---|
| `superblock` | `*m_superblock`, without magic, version and padding |
| `stored` | the superblock that the next mount loads |
| `nand` | the data clusters, each with the salt of its HMAC |
| `handles` | `m_handles`, and `m_internal_handle` at index `INTERNAL_FD` |
| `cache` | the four `m_cache_` members |
| `call` | a running `ReadFile` or `WriteFile` and its `processed_count` |
| `result` | the result code of the last call |

How the code is translated:

* A call is one action, with all the calls it makes: `Close` flushes the cache,
  then the superblock, then resets the handle. `ReadFile` and `WriteFile` are a
  step for their checks and a step for each round of their loops, so that the
  process may stop in between and that "it ends" means something.
* The checks of a call, in their order, give its result code (`CreateCode`,
  `RenameCode`, ...). Errors that happen later in a call, after it has changed
  something, come from the operator that made the change.
* A loop that follows pointers is the set of nodes it visits (`Reachable`, the
  least set closed under the pointers). On an acyclic list this is what the loop
  visits; that the lists are acyclic is part of `TreeOK` and `FatOK`. The deletion
  of a chain or a subtree changes no pointer that is still to be followed.
* An HMAC is valid exactly when it is checked with the salt and the data it was
  made with; a cluster therefore keeps its salt. Data and spare areas of one
  cluster are written together; `NandImage`, which writes page by page and may
  stop in between, shows what a completed cluster reads back as
  (`ClustersReadBack`).
* `DeleteFile` is applied by the code to everything below a directory that is not
  a directory, and so it is in `DeleteDirectoryContents`.
* Undefined behaviour (`*GetClusterForFile` without a cluster; a copy that starts
  behind the end of the cache; a `ReadDirectory` that indexes the FST with a pointer
  that is neither an entry nor 0xffff, `fs.cpp:327`) has the result "Undefined". No
  passing run reaches it: `ChainsMatchSizes`, `FilesVerify`, `CacheCoherent` and
  `RoundsCopy` exclude the first two, `TreeOK` and `AnswersAgree` the third.
* `Remount` is a new `FileSystemImpl` on the image, after an orderly end or a
  crash; FAT entries 0xffff, which other drivers write for free clusters, become
  0xfffe, and the images that `Init` starts from have one or the other.
* In `FileSystem`, `FlushSuperblock` is an assignment to `stored`. `SuperblockRing`
  shows why that is right (`ImplementsStore`) and where it is not: a crash between
  two clusters of one superblock, which `FileSystem` takes to be before the flush.
* In `FileSystem` a path is the sequence of its components, an entry a record and
  an access mode a set; the properties of `PathStrings` and `EntryBytes` say for
  which strings and bytes that is right.

### The abstract specifications

`Namespace` knows no entry numbers, sibling lists, clusters or cache. Its state is
a set of nodes with paths (`tree`), the one a restart finds (`durable`), and per
descriptor its user, mode and path (`opened`). The mapping in `FsRefinement` reads
the tree off the FST (`TreeOf`) of the superblock in memory and of the stored one.
`ImplementsNamespace` then says that `Delete` and `Rename` take exactly what is at
and below a path, that namespace calls are durable when they return, that file
calls change nothing but the size of the file of an open writer, and that
everything is durable once the last descriptor is closed. A step of `Namespace`
that changes something is only taken when its result code is "Success", so the
driver never does what the tree of paths refuses. `AnswersAgree` adds the
converse: in every state each call that could come next has the same result code
in both, for the same first reason; only `FstFull`, the limit of the table, is
unknown to `Namespace`. `Internal` are the users that call without a descriptor of
theirs, which the driver does through `INTERNAL_FD`: it is root, in the
configurations whose `PathFds` have that descriptor, and nobody otherwise.

`SuperblockStore` is one place for the metadata. While a flush runs, the place may
hold something torn, which passes its check only if it is what an earlier flush
wrote; a mount takes what is there.

`EntryRecord` is a record of name, type, access modes and numbers. A new type takes
the access modes away: the code assigns the whole `mode` byte they share.

### The client and its uses

The client makes any call, with any arguments from the sets of a configuration, on
any descriptor. Some sequences of legal calls break the driver. Each has a name,
and the client makes it only in a configuration whose `Uses` contains the name: so
one defect does not hide the properties that hold otherwise. Add the name to the
`Uses` of the configuration named here, and the property to its properties where it is
not among them, and TLC finds it violated ("A, then B": A first, and B when A is
left out).

| Use | The client | Breaks | Why |
|---|---|---|---|
| `overwrite` | writes without making the file longer, or from before its last cluster | `CacheCoherent`, then `FlushAccepted`, in `io` | `new_size <= entry.size` is rejected, `low_level.cpp:144` |
| `write_after_read` | writes to a cluster in the cache that was read | `ContentChangesOnlyByWrite` (run `v_write_after_read`) | a cache hit leaves `m_cache_for_write`, `file.cpp:53` |
| `rename_written_file` | renames a file that is not empty | `CallsEnd` (run `v_endless_read`); `FilesVerify` in `io` with two names | the name is in the salt of the HMACs, `low_level.cpp:36`; a failed read leaves the cache assigned, `file.cpp:60` |
| `second_writer` | opens a file for writing that is open for writing | `FlushAccepted` in `io` with `OpenModes <- ReadWrite` | the handle has an old size, `file.cpp:47` |
| `format_with_cache` | formats while a file is in the cache | `CacheCoherent`, then `FlushAccepted`, in `io` | the cache is left, `fs.cpp:53` |
| `huge_read` | reads a count that wraps position + count around | `HandleSizesBounded` in `io` with `ReadCounts = {15}` and `OpenModes <- ReadWrite` | 32-bit sum, `file.cpp:122` |
| `through_file` | names a path through a file, `/a/b` where a is a file | `AnswersAgree`, then `FatOK`, in `tree` | the parent's type is not checked, `fs.cpp:80` |
| `long_name` | creates or renames to a name of more than 12 characters | `AnswersAgree`, then `NamesUnique`, in `tree` with `LongNames = {long}`, `Paths <- LongNamePaths` and no symmetry | the lookup fails, the creation truncates, `low_level.cpp:327` |
| `below_itself` | renames a directory to a path below itself | `NoLostEntries` in `tree` with `FstSize = 2`, where it holds otherwise | not checked, `fs.cpp:302` |
| `onto_ancestor` | renames to a path above the entry | `TreeOK` in `tree` with `Paths <- ThreeLevels`, `MaxComponents = 3` and no symmetry | not checked, `fs.cpp:282` |
| `unverified_mount` | goes on after a mount whose superblock failed its check | `FreeClustersAllocatable` in `chains` | the constructor gets null and skips its normalisation, the calls get the superblock, `low_level.cpp:230` |
| `crash` | stops in the middle of a call or with open descriptors | nothing that `tree` and `chains` check | |

`overwrite` deserves a word: a write inside a file returns the number of bytes, as
`include/wiifs/fs.h:114-115` has it of every write, but they stay in the cache: the flush
is refused unless the same descriptor makes the file longer in that cluster, and until
then the descriptor cannot be closed and no other cluster can be read or written. The
data are lost as in `v_write_after_read`, and against the same two lines of the
interface; TLC shows it with the changes to `io` in the table.

The formats have such a case as well: a name with a NUL in it passes the check of
`CreateFileOrDirectory`, is stored up to the NUL, and is not found again.
`AcceptedNamesResolve` leaves such names out; with them it fails.

## The runs

All of `FileSystem` with `MCFileSystem`; the numbers are distinct states, rounded.

| Run | Instance | States | Shows |
|---|---|---|---|
| `tree` | 4 FST entries, 2 names, all paths of up to 2 components, 1 descriptor, crashes | 3 700 | tree, unique names, open files stay in the tree and keep their name; refinement of `Namespace`, all answers |
| `io` | 1 file, 2 descriptors (a reader, a writer), 2 data clusters of 4 bytes, files of up to 9 bytes (3 clusters), 2 byte values | 69 000 | cache, content, sizes, flushes, rounds that fail; the types |
| `chains` | 2 files, 3 data clusters, files of up to 5 bytes (3 clusters), 1 descriptor, crashes at any step | 30 000 | FAT and sizes in memory and on the NAND, statistics, no leaks; refinement of `Namespace` with sizes and restarts |
| `calls_end` | as `io` with one byte value, clusters of 2 bytes and files of up to 6, 2 users, owners that change; liveness | 62 000 | every `ReadFile` and `WriteFile` ends, on a full NAND too; a change of the owner never breaks the HMACs |
| `permissions` | 2 users, 3 FST entries, 2 sets of modes, `SetMetadata` to any owner | 17 000 | only writers change a directory; every call is allowed and refused as in `Namespace` |
| `ring` | 3 slots of 2 clusters, versions mod 6, 2 values, crashes | 363 000 | the ring after overflows and crashes; refinement of `SuperblockStore` |
| `formats` | 2 clusters of 3 pages of 4 bytes; entries; paths of up to 6 characters | 124 000 | clusters, HMACs and ECC in bytes; refinement of `EntryRecord`; paths as strings |

Five runs show a property violated that the documentation of the code lets one
expect; what the code does is under `findings` in `PROJECT.json`.

| Run | Violates | Shows |
|---|---|---|
| `v_write_after_read` | `ContentChangesOnlyByWrite` | a write that was reported as done is lost |
| `v_endless_read` | `CallsEnd` | a read that is tried again after a failed HMAC check does not end |
| `v_crash_reuse` | `StoredFilesVerify` | freed clusters are reused before the superblock that frees them is written; plain use |
| `v_nested_delete` | `NoLostEntries` | a deleted directory leaves those below it in use; plain use |
| `v_torn_superblock` | `OnlyVerifiedUsed` | after a crash in a flush the driver works on the torn superblock although its check failed |

Why the bounds are enough. The smallest cluster with a boundary inside it is 2
bytes: a file of 3 bytes has a full and a partial cluster, and a write of 3 bytes
makes two rounds, one across the boundary; with files of 5 bytes a chain has a
first, a middle and a last cluster. In `io` a cluster has 4 bytes, so that writes of 3
bytes begin and end at every place in a cluster. There and in `calls_end` a file may
need three clusters, and the NAND has two: the third waits in the cache and
cannot be flushed, nor can the second of a file when the cluster it replaces is still
in use. Then a later round of a `WriteFile`, the first round of a `ReadFile` on the
other descriptor (which would have to flush the writer's data) and `Close` fail with
`NoFreeSpace`, in the middle of what the data properties and `CallsEnd` are about; a
`ReadFile` that fails after a round that copied is not reached, and is left to the
theorems. In `chains` two files of up to three clusters compete for three, so that
`NoFreeSpace` and reuse of clusters happen all the time. Unlinking has the cases
first child, later child and last child: they need three entries besides the
root, which is also enough for a directory in a directory with a file, and for
both parents of a `Rename` to differ or to be equal; all three fill the FST, so
that `FstFull` happens. One descriptor for files fills the table in `tree`,
two in `io` are the least that compete for the cache. `WordSize` is 16: large
enough that offsets wrap only for huge counts. In `ring` the versions wrap around
after six flushes, a multiple of the slots and more than they are, as 2^32 is of
16: a version comes again in the slot that it had before. Two clusters are a first
one, which makes a slot the newest, and a last one, which has the HMAC. `io`,
`chains` and `calls_end` have only files in the root: what they ask does not depend on
where a file is, and `tree` has the rest.

In `formats` a state is about an image, an entry or a path (`subject`), so that
the three state spaces add up. A page has 4 bytes in 2 chunks, and there are 3 pages:
one before the two with the HMACs. The cipher works on blocks of one byte, so
that a page has several and the chaining across pages and within them differs. A
hash has 3 bytes, split 2 + 1, and `EccOffset` is the least that leaves room for
them; one of the two clusters is encrypted, the other is not. At most one spare byte
is damaged at a time (`Decay`). `LogChunkSize` is 1, so that the high bytes of the ECC
are always 0. `Radix` is 3, and among the values of 4-byte fields are 0210 and 2001 in
that base: no two places have the same digit in both, so that every order of the four
bytes is told from every other. Names of 1 and 3 characters, kept
up to 2. The characters of a path are a NUL, `/`, a letter, 127, which is the one the
check of a name rejects, and one above 0x7f; paths have up to 6 of them, and the
limit, 64 in the code, is 5, so that one is too long.

`MaxFileSize` bounds what is written. Nothing else counts without end: versions
and offsets wrap as in the code. `MayCrash` bounds the flushes that are
torn one after the other by the number of slots that are left; with 16 torn
flushes in a row no superblock is left, by counting.

`VIEW` and `SYMMETRY`. `View` leaves out what no later call can read: the
fields of an FST entry out of reach from the root except its type (which
`GetUnusedFstIndex` reads), the data of clusters in no chain, and the fields of
closed handles. That nothing refers to these is stated by `TreeOK`, `FatOK` and
`CacheCoherent`, checked under the same view: the first state that broke one of
them would be found. The names are symmetric: no constant names one of them where
`NameSymmetry` is used, and the runs with symmetry check no liveness.

Deadlock is checked in all runs: the client always has a call to make.

Fairness. Weak fairness only for `ReadFileStep` and `WriteFileStep`, and in the
ring for the writing of the next cluster: a loop that has been entered goes on,
since it is plain sequential code and waits for nothing. Nothing makes the
client call, close or mount. A round that changes nothing leaves the loop where
it is, which is an endless loop: that is what `v_endless_read` finds.

Torn superblocks. `Mount` takes the slot of the highest version before it checks
the HMAC, and tries no other (`low_level.cpp:253-258`), so after a crash between two
clusters it loads the torn one, although a complete slot still exists
(`SomeSlotSurvives`). The first `GetSuperblock` returns null then, but
`m_superblock` is set, and the next call returns it (`low_level.cpp:230`): that is
`v_torn_superblock`. In `FileSystem` its consequence for the FAT is the use
`unverified_mount`.

A torn slot can pass its check: the HMAC in it is that of an earlier superblock,
left there by torn flushes since then, and fits again when the version of that
superblock comes again after an overflow. The proof of `RingImplementsStore` did
not go through without this case, and `ring` has it since its versions are counted
modulo 6. The slot then holds as a whole what some flush wrote, which is what
`SuperblockStore` says of it.

## The proofs

For all sizes of the FST and the FAT up to 65531 entries (pointers are 16 bits,
and the special values start there; the driver has 6143 and 32768), all cluster
and word sizes, names, paths, users and handle tables:

| Theorem | Statement | Argument |
|---|---|---|
| `FileSystemProofs!TypeCorrectness` | `Spec => []TypeOK` | `TypeOK` is inductive. |
| `FileSystemProofs!OpenFilesStayFiles` | `Spec => []OpenFilesAreFiles` | inductive together with `TypeOK` |
| `FileSystemProofs!OpenFilesKeepNames` | `Spec => OpenFileKeepsName` | from the two invariants, per action |
| `TreeProofs!TreeStaysWellFormed` | `Spec => []TreeOK` | with `TreeInv`, inductive |
| `TreeProofs!NamesStayUnique` | `Spec => []NamesUnique` | inductive together with `TreeInv` |
| `TreeProofs!OpenFilesStayLiveFiles` | `Spec => []OpenFilesLive` | inductive together with `TreeInv` |
| `TreeProofs!OnlyWritersChangeListings` | `Spec => OnlyWritersChangeDirectories` | from `TreeInv` and `FlushedShape`, per action |
| `TreeProofs!FatStaysWellFormed` | `Spec => []FatOK` | with `FatInv`, `FilesInv` and `TreeInv`, inductive |
| `TreeProofs!ReservedClustersAreNeverTouched` | `Spec => ReservedClustersStay` | from `FatInv` |
| `HandleProofs!FreeClustersCanBeAllocated` | `Spec => []FreeClustersAllocatable` | `HasNoNil` is inductive |
| `HandleProofs!UnflushedAlwaysHasOwner` | `Spec => []UnflushedHasOwner` | inductive together with `HandlesInv`, `TreeInv` and `HasNoNil` |
| `HandleProofs!HandleSizesStayBounded` | `Spec => []HandleSizesBounded` | with `SizesInv` and `HandlesInv`, inductive |
| `DataProofs!ChainsAlwaysMatchSizes` | `Spec => []ChainsMatchSizes` | `SizedInv` and `PendingAtEnd`, inductive with `FatInv` and `SizesInv` |
| `DataProofs!FilesAlwaysVerify` | `Spec => []FilesVerify` | from `DriverInv`, which is inductive |
| `DataProofs!CacheAlwaysCoherent` | `Spec => []CacheCoherent` | from `DriverInv` |
| `DataProofs!RoundsAlwaysCopy` | `Spec => []RoundsCopy` | from `DriverInv` |
| `DataProofs!FlushAlwaysAccepted` | `Spec => []FlushAccepted` | from `DriverInv` |
| `DataProofs!ContentOnlyChangesByWrite` | `Spec => ContentChangesOnlyByWrite` | from `DriverInv`, per action |
| `DataProofs!ReadsAlwaysReturnContent` | `Spec => ReadReturnsContent` | from `DriverInv` and `RunningReads` |
| `RefinementProofs!AnswersAlwaysAgree` | `Spec => []AnswersAgree` | from `PathInv`, which is inductive |
| `RefinementProofs!DriverImplementsNamespace` | `Spec => ImplementsNamespace` | step simulation under `RefinementInv` |

and for all numbers of slots, clusters and versions (more versions than slots):

| Theorem | Statement | Argument |
|---|---|---|
| `SuperblockRingProofs!RingStaysInOrder` | `Spec => []RingInv` | the inductive invariant of the ring |
| `SuperblockRingProofs!TypesHold` | `Spec => []TypeOK` | part of `RingInv` |
| `SuperblockRingProofs!MountsFindLastFlush` | `Spec => []MountFindsLastFlush` | from `RingInv` |
| `SuperblockRingProofs!SomeSlotAlwaysSurvives` | `Spec => []SomeSlotSurvives` | from `RingInv` |
| `SuperblockRingProofs!RingImplementsStore` | `Spec => ImplementsStore` | step simulation under `RingInv` |

and for every image that `ImageAssumption` allows, with any block cipher that is injective:

| Theorem | Statement | Argument |
|---|---|---|
| `NandProofs!WrittenClustersReadBack` | `ImageSpec => []ClustersReadBack` | with `ImageInv`, inductive |
| `NandProofs!OneCopyAlwaysSuffices` | `ImageSpec => []OneCopySuffices` | from `ImageInv` |

The first three theorems hold for **all** `Uses`. Those of `TreeProofs` assume
`TreeSafeUses`: the client neither names a path through a file (`through_file`) nor
renames onto a directory above (`onto_ancestor`). These two really break the tree, as
the table of the uses says; crashes, overwriting, renaming a directory below itself
and everything else are allowed. `NamesStayUnique` also leaves out `long_name`, and
`FatStaysWellFormed` leaves out `below_itself`: a directory that is moved into itself
takes its files out of reach, and their clusters stay in use. The theorems of
`HandleProofs` leave out what breaks them, and no more than this:
`FreeClustersCanBeAllocated` only `unverified_mount`; `UnflushedAlwaysHasOwner` that one,
`format_with_cache` and what `TreeSafeUses` leaves out (its proof that namespace calls
persist all they change follows them through the tree); `HandleSizesStayBounded` leaves
out `SizeSafeUses`: `second_writer`, `huge_read`, `write_after_read` and
`format_with_cache`, and it holds on every FST. `ChainsAlwaysMatchSizes` leaves out
`SizeSafeUses` and what `TreeSafeUses` leaves out, and holds with crashes, overwriting and
renames of written files. These hypotheses hold in the configurations of all passing
runs of `FileSystem`, whose `Uses` are `{}` or `{"crash"}`; `v_endless_read` satisfies
them as well. The other theorems of `DataProofs` assume `DataSafeUses`: that, and none of
`overwrite`, `rename_written_file`, `crash` and `unverified_mount`, each of which really
breaks what they say of file data (the table of the uses; for `crash`, the run
`v_crash_reuse`). It holds in `io` and `calls_end`, which check these properties.
`AnswersAlwaysAgree` assumes `PathSafeUses`, which leaves out the four uses that break the
tree or the names in it: `through_file`, `onto_ancestor`, `long_name` and `below_itself`.
`DriverImplementsNamespace` assumes `RefinementUses`: that, and what
`UnflushedAlwaysHasOwner` leaves out, for what is durable once the last descriptor is
closed. Crashes, overwriting, second writers and all that breaks only file data are
allowed in both. `tree`, `chains` and `permissions`, which check these properties,
satisfy both.

`TypeCorrectness` is about indices: whatever `GetFstIndex`, `GetUnusedFstIndex` or
`GetClusterForFile` return is used to index the tables, and what the edits
store in the tables are 16-bit numbers again. `SffsProofs` has a lemma for every
lookup and edit of `Sffs`, `FileSystemProofs` one for each cache operation, file
call and namespace call.

`OpenFilesStayFiles` needs that a deletion does not clear an entry that is open.
`Delete` and `Rename` make sure with one walk (`IsDirectoryInUse`, down into
everything that is not a file) and delete with another one
(`DeleteDirectoryContents`, down into directories). The lemma `DeletionIsChecked`
shows that the first visits all the second does, from the monotonicity of
`Reachable`; it holds on every FST, whether or not it is a tree. A new entry
takes an index whose type is "none", which no open file has, and the entry that
`Rename` moves was itself checked, and gets its type back (`Relinked`).
That the result holds with all `Uses` means that even a client that builds a cyclic
or broken FST never gets a descriptor that refers to a directory or a free entry.

The tree. `SffsProofs` takes an FST as a graph with two pointers for each entry, to
the next sibling and the first child. It is a tree (`IsTree`) when no two pointers of
entries below the root are equal and none leads to the root: a property of pairs of
pointers, which is inductive, where "reachable from the root without a cycle" is
not. `UnlinkTree`, `LinkTree` and `MoveTree` say what remains reachable when one
pointer is led around an entry (`Delete`), when two are set for a new one (`Create`),
and when both happens (`Rename`). `TreeProofs` shows of each call that its edits are
one of these:

* a lookup along a path stays in the tree, and finds one entry for one path
  (`PathsAreUnique`). `GetFstIndex` is a recursive function over the components;
  facts about its walk (`WalkExists`, `WalkAt`) follow from the component at which
  a counterexample would first go wrong;
* `RemoveFstEntryFromChain` finds the entry in the list of its parent, and so
  changes one pointer; it never ends with `NotFound` or in the list of another
  directory;
* what `DeleteDirectoryContents` clears is below the entry (`Within`), and so no longer
  reachable. What stays behind, directories below a deleted one, is unreachable too,
  and harmless for the tree: that is `NoLostEntries`, which is not part of `TreeOK`;
* `Rename` replaces an entry at the new path, which has to be elsewhere. It can be
  above the old path, and then the entry is deleted with what replaces it:
  `onto_ancestor`.

`NamesStayUnique` adds that the lookup before `Create` and `Rename` sees all children
of the directory, and so "not found" means that no child has the name.
`OpenFilesStayLiveFiles` adds that the in-use check looks at all of what is taken out
of the tree. For `OnlyWritersChangeListings` the proof follows the listings of all
directories through each call (`KeepsListings`): an edit changes the lists of the
parent directory, or of the two of `Rename`, on which the call has checked that its
descriptor may write (`WritableBy`), and clears those of entries that are unreachable
after it. The theorem is about each descriptor by itself: either its user may write to
every directory whose listing changes, or the step is no namespace call on it. A step
that is a namespace call on no descriptor, and no `Format`, changes no listing
(`OthersKeepListings`). A remount
changes none either, because the superblock on the NAND always has the shape of the one
in memory (`FlushedShape`): what is not flushed at once is the size and first cluster of
a file.

The FAT. `SffsProofs` takes the pointers to clusters, the first cluster of each file and
the next one of each cluster, as one graph (`AreChains`): no two pointers lead to the
same cluster, a pointer leads to a cluster in use, and every cluster in use is in the
chain of a file. As for the tree, the first is a property of pairs; that chains are
disjoint (`ChainsDisjoint`) and have no loop (`NoLoop`) follows. Three edits keep it:
freeing whole chains (`FreeingKeepsChains`), a new file without a cluster, and
`Splices`, which puts a free cluster behind the end of a chain or in the place of
another one. `WriteFileData` is the last one (`WrittenFat`): the free cluster it
takes is in no chain, and `GetClusterForFile` for the position before it, when it
finds one, has found a cluster in the chain of the file (`ClusterInChain`). `FatSound`
also holds of files out of reach from the root; that there are none (`FilesLive`) is
what `FatOK` needs besides: it says that the clusters in use are those of the files in
the tree. A deletion removes all files below a directory, though not the directories
in it, and so `FilesLive` holds where `NoLostEntries` does not. Nothing is assumed of
the order of calls, of crashes, or of descriptors: also a writer with an outdated size
(`second_writer`) and a cache that outlives a `Format` (`format_with_cache`) leave the
FAT whole.

Descriptors and the cache. One cache serves all descriptors, so a call on one may write
the data of another: `PopulateFileCache` flushes what it evicts, and the flush belongs to
`cache.handle`, not to the descriptor of the call. `HandlesInv` says that the cache and a
running call belong to open files, and data that wait to be written to a writer.
Of a flush, a read and a round of a call the lemmas `FlushOutcome`, `PopulateOutcome`
and `AdvanceOutcome` give what becomes of sizes, handles and cache on every path,
the failing ones too.

* `UnflushedAlwaysHasOwner`: the superblock is changed without being stored only where
  cached data are flushed, which marks the handle they belong to
  (`superblock_flush_needed`); a mark goes away only in a `Close`, which stores the whole
  superblock first. A namespace
  call that changes memory stores it before it returns (`NamespacePersisted`): neither
  unlinking nor deleting can fail half way, since in a tree the entry is always found in
  the list of its parent, which is why the theorem needs the tree.
* `HandleSizesStayBounded`: a writer knows the size of its file exactly, with what
  waits in the cache (`SizeIn`); a reader may know an older, smaller one. That is inductive
  only with two more facts: what waits never makes a file shorter, so that a flush, also
  one for another descriptor, only moves the size from the handle to the entry; and what
  is left of a running call ends within the file, or within `MaxFileSize`
  (`RunningBounded`), so that a round advances the position no further than the size it sets.
  A round of a write that hits the cache needs it to be for writing, or the new size
  would never get to the entry: `write_after_read`.

The data. `ClusterAt(sb, f, k)` is the cluster at position k of a file, and `BlockAt` what
the NAND holds there. Everything is said by position, so that no proof counts the
elements of a chain before it has to (`LengthIsCardinality`).

* `ChainsAlwaysMatchSizes`. `Sized` says that a file has a cluster at position k exactly if
  k is less than its size in clusters. A flush keeps this only if it appends at
  the end or replaces the last cluster; what waits in the cache does (`PendingAtEnd`),
  since the cache was filled at a position that was not past the size the descriptor
  knew, and a writer knows the size exactly (`SizesInv`).
* `Salted`: the salt of each cluster is that of its file and position. `WriteFileData`
  takes a free cluster and not the old one, and no two positions share a cluster
  (`FatInv`), so a flush changes the salts and data of one position only
  (`FlushWrites`); a deletion changes none of the files that stay (`KeptFiles`), nor does
  a `Rename`, whose file is empty or keeps its name.
* `CacheInv`: clean data are what the NAND holds; dirty data make the file longer.
  `WriteFileData` accepts exactly the latter, so `FlushAccepted`. It is inductive only
  with `RunningExtends`: a running write that still has bytes to copy goes on in the
  cluster that waits or past the end of the file. Without it the second round of a
  write could start an overwrite.
* A remount takes up the superblock on the NAND. It has the same chains because no
  descriptor was open, and then nothing is unflushed (`UnflushedHasOwner`).
* What a reader sees (`Content`) is the blocks of a file, one of them perhaps in the
  cache (`DataIn`); no byte below the size is missing (`ContentByBlocks`).
  `FlushedContent` and `PopulatedContent` say that moving data from the
  cache to the NAND, for whichever descriptor, changes no block of any file. What is left
  for a round of `WriteFile` is the arithmetic of positions within a cluster (`InCluster`,
  `CopiedByte`), and for a round of `ReadFile` that it stays below the end of the
  file (`RunningBounded`).
* `RoundsAlwaysCopy`: a round that does not fail finds the cluster of its position in
  the cache with all its bytes, on every path through `PopulateFileCache`. This is the
  variant of the two loops: the safety half of `CallsEnd`.

The tree of paths. The mapping of `FsRefinement` searches the FST in rounds; the first
lemmas show what it finds: in a tree (`IsFstTree`) every entry once, with the names on the
way down from the root as its path (`PlaceOfIsPlacing`). With unique names in each
directory, `IsPathTree`, no two entries have the same path (`PlacesDiffer`), `GetFstIndex`
finds the entry that has it or none (`LookupFindsPlace`, `LookupIsPlace`), and what is
below an entry is what its path is a prefix of (`WithinIsPrefix`). After these, no proof
looks at indices and pointers without saying what they are in the tree of paths.

* `AnswersAlwaysAgree` compares each call with its counterpart, condition by condition
  (`CreateCodeAgrees` to `RenameCodeAgrees`): both give the reason that comes first. The
  in-use checks walk the subtree of an entry and look for it in the handle table; that
  is the question whether some descriptor has a path below, because open files are in
  the tree (`OpenFilesLive`). `GetDirectoryStats` counts entries and `Namespace` nodes;
  distinct entries are distinct nodes (`CountedOnce`). That `ReadDirectory` stops
  only at the end of a list is `ListEnds`.
* `DriverImplementsNamespace`: each edit of the pointers is an edit of the paths.
  `CreatedPlaces` adds one, `RemovedPlaces` takes away those below a path, `MovedPlaces`
  gives all below the old path the new one for a prefix (`Rerooting`, `RenamedPlaces`): the
  one call that changes the paths of entries it does not touch, possible because it
  changes two pointers and a name. Owners, modes and sizes come along (`Bare`). A flush
  makes the file of the cache longer, which is a step of the descriptor that the
  cache belongs to, whoever's call it was (`FlushGrowsTree`).
* `RefinementInv` adds to `PathInv` what the steps need that are about more than the tree.
  `Namespace` makes everything durable when the last descriptor is closed, which takes
  `HandlesInv` and `UnflushedHasOwner`: nothing in memory is left for nobody to flush.
  `HasNoNil`, because a mount normalises the FAT. `InternalHandle`: the calls that the
  driver makes through its own descriptor act for root, and it never waits for a flush.

The ring. `RingInv` puts the slots in an order that goes backwards around the ring
from the slot with the highest version (`Behind`). Every other slot has the version of
its place, or no superblock yet; after an overflow the places that the extra
superblocks have not reached still have the high versions (`Top`, `Rewritten`). A
complete slot is at most as many places behind as flushes were torn since
(`Survivor`), which is why one is left when the next slot is overwritten. The flush
of many superblocks after an overflow needs its own case (`Overflowing`): the slot with
the highest version is then an old one, until the last of them begins.

The image. `ImageInv` says what every page that was written holds: its part of the
whole cluster as `AesEncrypt` would make it in one run (`Stored`), and its bytes of the
HMAC. `PageIsStored` and `IvIsCarried` are the reason that encrypting page by page is
the same as encrypting the whole; `Decrypted` undoes it. `PagesApart` and
`SpareHasHmac` are the layout: no two pages share a byte of the image, and no two parts
of a spare area one of its bytes. A cluster that is overwritten counts as written only
after its last page; the pages behind a stopped `WriteCluster` are of no use.

Assumptions: `SffsAssumption`, `FileIoAssumption`, `FileSystemAssumption`,
`RingAssumption`, `EccAssumption` and `ImageAssumption` in the modules; TLC evaluates
them on every run. `EccAssumption` also says that a power of 2 is a number, which the
provers do not know. `ImageAssumption` has what the layout of `sffs.h` satisfies: the
first copy of the HMAC and the first part of the second one end before the ECC
(1 + 20 + 12 <= 48).

Only model-checked: `StatsAgree`, a sum over a set, which needs induction over its
elements; the refinement `ImplementsRecord`, the properties of entries and paths, and
`EccLocatesFlips`, which are about bits and recursive operators; `CallsEnd` and
`FlushEnds` (liveness, which TLAPS does not do; `RoundsAlwaysCopy` proves what
`CallsEnd` rests on).
What a recursive function computes is used in the proofs through its range, or
through the least argument at which a claim about it would fail, which is induction
on an explicit set of numbers.

## Not modelled

* AES and SHA-1 themselves, which are mbedTLS: any permutation of blocks, and an
  injective function. The chaining of blocks and the construction of the HMAC in
  `crypto.cpp` are in `NandImage`.
* Reading the ECC: the driver writes it and never reads it. `EccLocatesFlips` says
  what another reader could do with it.
* Big-endian hosts and the compiler intrinsics of `swap.h`: `ByteOrder` has the
  portable functions on a little-endian host.
* Sizes of the real layout (8 pages of 2048 bytes, 12-byte names): constants.
* `swap64`: no stored field has 8 bytes. The default case of the switch in `SeekFile`
  (`file.cpp`), which returns `Invalid`: a `SeekMode` that is not one of the enumeration.
* Logging (no effect), `align.h` (used nowhere), `common_types.h`, build files.
* The attribute byte and `x3` of an entry in `Sffs`: stored, and never read by a
  decision. `EntryBytes` has their bytes.
* `SuperblockInitFailed`, the result of every call on an image without a
  superblock: `FileSystem` starts from a formatted image, `SuperblockRing` from an
  empty one. `SuperblockWriteFailed` and the retries of `FlushSuperblock`: a
  `WriteCluster` fails only for a cluster of 0x8000 or more, which is never passed.
* A crash between two clusters of a superblock while files are open: in
  `FileSystem` a flush of the superblock is one step; `SuperblockRing` has the
  clusters and not the calls.
* The truncation of `chain_index` to 16 bits matters only for files of more than
  1 GiB, twice the NAND; `ChainIndexOf` has it all the same.

## Plan

Done: `Sffs`, `FileIo`, `FileSystem` with the properties above, `Namespace` and the
refinement with result codes and answers, the ring with torn superblocks and its
abstract store, the formats; proved: types, open files, the tree and its listings,
the FAT, descriptor sizes and owners of unflushed changes, chain lengths, the HMACs, the
cache and the content of files, the answers of all calls and the refinement of
`Namespace`, the ring and its refinement of `SuperblockStore`, the image.

Left, the model: the composition of `FileSystem` and the ring (a crash in
`FlushSuperblock` with open files), and `SuperblockInitFailed` on a blank image. File
data have no abstract specification of their own: `Content` with
`ContentChangesOnlyByWrite` and `ReadReturnsContent` says the same of each step.

Left, the proofs: that `swap16` is its own inverse, in `ByteOrder`.
