----------------------------- MODULE FileSystem -----------------------------
(***************************************************************************)
(* The whole driver, FileSystemImpl, between one call of its client and    *)
(* the next: the namespace calls of fs.cpp, the file calls of FileIo, and  *)
(* mounting the image anew.                                                *)
(*                                                                         *)
(* Next is the client: it makes any call with arguments from the sets      *)
(* below, on any descriptor.  Some uses of the interface are known to      *)
(* break properties of the driver; each has a name, and the client makes   *)
(* only those in the constant Uses.                                        *)
(***************************************************************************)
EXTENDS FileIo, FiniteSetsExt

CONSTANTS
    Users,           \* <<uid, gid>> pairs the client opens files for
    Owners,          \* those that SetMetadata makes owners
    FsUsers,         \* those it opens file system descriptors for
    Paths,           \* paths it names
    PathFds,         \* descriptors it makes namespace calls on
    Permissions,     \* access modes it creates entries with
    OpenModes,       \* modes it opens files with
    ReadCounts,      \* byte counts it reads
    WriteCounts,     \* byte counts it writes
    SeekOffsets,     \* offsets it seeks by
    MaxFileSize,     \* it writes no byte from this offset on
    MaxComponents,   \* a directory path has at most that many (8)
    Uses             \* what it does beyond the plain use of the interface

ASSUME FileSystemAssumption ==
    /\ Users \subseteq Uids \X Gids /\ FsUsers \subseteq Users
    /\ Owners \subseteq Uids \X Gids
    /\ Permissions \subseteq
          [owner : FileMode, group : FileMode, other : FileMode]
    /\ OpenModes \subseteq FileMode
    /\ Paths \subseteq Seq(Names \cup LongNames)
    /\ PathFds \subseteq HandleIds
    /\ ReadCounts \subseteq U32 /\ WriteCounts \subseteq U32
    /\ SeekOffsets \subseteq U32
    /\ MaxFileSize \in U32

-----------------------------------------------------------------------------
(* The namespace calls.  Code is the result the checks of a call arrive at *)
(* in the order of the source; only "Success" goes on to edit anything.    *)

\* A namespace call ends: it leaves sb in memory and, if it succeeds, flushes
\* it.  File data, handles and cache are not touched.
Finishes(code, sb) ==
    /\ call = Idle
    /\ Returns(code)
    /\ superblock' = sb
    /\ stored' = IF code = "Success" THEN sb ELSE stored
    /\ UNCHANGED <<nand, handles, cache>>

\* A plausible bug: read access is asked for.
MayWriteMutant(fd, directory) ==
    HasPermission(superblock.fst[directory], handles[fd].uid,
                  handles[fd].gid, {"Read"})

MayWrite(fd, directory) ==
    HasPermission(superblock.fst[directory], handles[fd].uid,
                  handles[fd].gid, {"Write"})

CreateCode(fd, path, type) ==
    LET split  == SplitPath(path)
        parent == GetFstIndex(superblock, split.parent)
    IN  IF ~IsOpen(fd) \/ ~IsValidNonRootPath(path) THEN "Invalid"
        ELSE IF type = "directory" /\ Len(path) > MaxComponents
        THEN "TooManyPathComponents"
        ELSE IF parent = NIL THEN "NotFound"
        ELSE IF ~MayWrite(fd, parent) THEN "AccessDenied"
        ELSE IF ChildIndex(superblock, parent, split.file_name) # NIL
        THEN "AlreadyExists"
        ELSE IF GetUnusedFstIndex(superblock) = NIL THEN "FstFull"
        ELSE "Success"

\* CreateFileOrDirectory: the new entry becomes the first child.
Created(fd, path, type, perm) ==
    LET split  == SplitPath(path)
        parent == GetFstIndex(superblock, split.parent)
        child  == GetUnusedFstIndex(superblock)
        entry  == [name |-> StoredName(split.file_name), type |-> type,
                   owner |-> perm.owner, group |-> perm.group,
                   other |-> perm.other,
                   sub |-> IF type = "file" THEN CLUSTER_LAST_IN_CHAIN
                                            ELSE NIL,
                   sib |-> superblock.fst[parent].sub, size |-> 0,
                   uid |-> handles[fd].uid, gid |-> handles[fd].gid]
    IN  [superblock EXCEPT !.fst[child] = entry, !.fst[parent].sub = child]

Create(fd, path, type, perm) ==
    LET code == CreateCode(fd, path, type)
    IN  Finishes(code, IF code = "Success" THEN Created(fd, path, type, perm)
                                           ELSE superblock)

CreateFile(fd, path, perm)      == Create(fd, path, "file", perm)
CreateDirectory(fd, path, perm) == Create(fd, path, "directory", perm)

\* Plausible bugs: one of the two kinds of entries is not looked at.
InUseFile(index) == IsFile(superblock.fst[index]) /\ IsFileOpened(index)
InUseDirectory(index) ==
    IsDirectory(superblock.fst[index]) /\ IsDirectoryInUse(superblock, index)

\* Nothing may be open below a directory that is deleted or renamed, and no
\* file that is open.
InUse(index) ==
    IF IsDirectory(superblock.fst[index])
    THEN IsDirectoryInUse(superblock, index)
    ELSE IF IsFile(superblock.fst[index]) THEN IsFileOpened(index)
    ELSE FALSE

DeleteContents(index) ==
    IF IsDirectory(superblock.fst[index])
    THEN DeleteDirectoryContents(superblock, index)
    ELSE DeleteFile(superblock, index)

\* An entry that is neither file nor directory counts as in use.
Deletable(index) ==
    superblock.fst[index].type # "none" /\ ~InUse(index)

DeleteCode(fd, path) ==
    LET split  == SplitPath(path)
        parent == GetFstIndex(superblock, split.parent)
        index  == ChildIndex(superblock, parent, split.file_name)
    IN  IF ~IsOpen(fd) \/ ~IsValidNonRootPath(path) THEN "Invalid"
        ELSE IF parent = NIL THEN "NotFound"
        ELSE IF ~MayWrite(fd, parent) THEN "AccessDenied"
        ELSE IF index = NIL THEN "NotFound"
        ELSE IF ~Deletable(index) THEN "InUse"
        ELSE "Success"

Delete(fd, path) ==
    LET split   == SplitPath(path)
        parent  == GetFstIndex(superblock, split.parent)
        index   == ChildIndex(superblock, parent, split.file_name)
        removed == RemoveFstEntryFromChain(DeleteContents(index), parent, index)
        code    == DeleteCode(fd, path)
    IN  IF code = "Success" THEN Finishes(removed.code, removed.sb)
                            ELSE Finishes(code, superblock)

RenameCode(fd, old_path, new_path) ==
    LET old        == SplitPath(old_path)
        new        == SplitPath(new_path)
        old_parent == GetFstIndex(superblock, old.parent)
        new_parent == GetFstIndex(superblock, new.parent)
        index      == ChildIndex(superblock, old_parent, old.file_name)
        new_index  == ChildIndex(superblock, new_parent, new.file_name)
        entry      == superblock.fst[index]
    IN  IF \/ ~IsOpen(fd)
           \/ ~IsValidNonRootPath(old_path) \/ ~IsValidNonRootPath(new_path)
        THEN "Invalid"
        ELSE IF old_parent = NIL \/ new_parent = NIL THEN "NotFound"
        ELSE IF ~MayWrite(fd, old_parent) \/ ~MayWrite(fd, new_parent)
        THEN "AccessDenied"
        ELSE IF index = NIL THEN "NotFound"
        ELSE IF /\ IsFile(entry)
                /\ StoredName(old.file_name) = StoredName(new.file_name)
        THEN "Invalid"
        ELSE IF InUse(index) THEN "InUse"
        ELSE IF new_index = NIL THEN "Success"
        ELSE IF superblock.fst[new_index].type # entry.type \/ new_index = index
        THEN "Invalid"
        ELSE IF ~Deletable(new_index) THEN "InUse"
        ELSE "Success"

\* A plausible bug: only the type comes back.
RelinkedMutant(sb, index, saved, parent, name) ==
    LET entry == [sb.fst[index] EXCEPT
                     !.type = saved.type, !.name = StoredName(name),
                     !.sib = sb.fst[parent].sub]
    IN  [[sb EXCEPT !.fst[index] = entry] EXCEPT !.fst[parent].sub = index]

\* The entry gets the type and the access modes back that unlinking cleared,
\* takes the new name, and becomes the first child of the parent.
Relinked(sb, index, saved, parent, name) ==
    LET entry == [sb.fst[index] EXCEPT
                     !.type = saved.type, !.owner = saved.owner,
                     !.group = saved.group, !.other = saved.other,
                     !.name = StoredName(name), !.sib = sb.fst[parent].sub]
    IN  [[sb EXCEPT !.fst[index] = entry] EXCEPT !.fst[parent].sub = index]

\* What is at the new path is deleted; then the entry moves.
Renamed(old_path, new_path) ==
    LET old        == SplitPath(old_path)
        new        == SplitPath(new_path)
        old_parent == GetFstIndex(superblock, old.parent)
        new_parent == GetFstIndex(superblock, new.parent)
        index      == ChildIndex(superblock, old_parent, old.file_name)
        new_index  == ChildIndex(superblock, new_parent, new.file_name)
        replaced   == IF new_index = NIL
                      THEN [code |-> "Success", sb |-> superblock]
                      ELSE RemoveFstEntryFromChain(DeleteContents(new_index),
                                                   new_parent, new_index)
        unlinked   == RemoveFstEntryFromChain(replaced.sb, old_parent, index)
    IN  IF replaced.code # "Success" THEN replaced
        ELSE IF unlinked.code # "Success" THEN unlinked
        ELSE [code |-> "Success",
              sb |-> Relinked(unlinked.sb, index, replaced.sb.fst[index],
                              new_parent, new.file_name)]

Rename(fd, old_path, new_path) ==
    LET code    == RenameCode(fd, old_path, new_path)
        renamed == Renamed(old_path, new_path)
    IN  IF code = "Success" THEN Finishes(renamed.code, renamed.sb)
                            ELSE Finishes(code, superblock)

\* Plausible bugs: an owner may give the entry away; a file that holds data may
\* change its owner.
SetMetadataCodeGivingAway(fd, path, uid) ==
    LET index == GetFstIndex(superblock, path)
        entry == superblock.fst[index]
        user  == handles[fd].uid
    IN  IF ~IsOpen(fd) THEN "Invalid"
        ELSE IF index = NIL THEN "NotFound"
        ELSE IF user # 0 /\ user # entry.uid THEN "AccessDenied"
        ELSE IF IsFile(entry) /\ entry.size # 0 THEN "FileNotEmpty"
        ELSE "Success"

SetMetadataCodeOfData(fd, path, uid) ==
    LET index == GetFstIndex(superblock, path)
        entry == superblock.fst[index]
        user  == handles[fd].uid
    IN  IF ~IsOpen(fd) THEN "Invalid"
        ELSE IF index = NIL THEN "NotFound"
        ELSE IF user # 0 /\ (user # entry.uid \/ entry.uid # uid)
        THEN "AccessDenied"
        ELSE "Success"

SetMetadataCode(fd, path, uid) ==
    LET index == GetFstIndex(superblock, path)
        entry == superblock.fst[index]
        user  == handles[fd].uid
    IN  IF ~IsOpen(fd) THEN "Invalid"
        ELSE IF index = NIL THEN "NotFound"
        ELSE IF user # 0 /\ user # entry.uid THEN "AccessDenied"
        ELSE IF user # 0 /\ entry.uid # uid THEN "AccessDenied"
        ELSE IF IsFile(entry) /\ entry.size # 0 THEN "FileNotEmpty"
        ELSE "Success"

SetMetadata(fd, path, uid, gid, perm) ==
    LET code  == SetMetadataCode(fd, path, uid)
        index == GetFstIndex(superblock, path)
    IN  Finishes(code,
            IF code = "Success"
            THEN [superblock EXCEPT !.fst[index] =
                     SetAccessMode([@ EXCEPT !.uid = uid, !.gid = gid], perm)]
            ELSE superblock)

\* Every descriptor is closed, but the handles keep their other fields and
\* the cache is left as it is.
Format(uid) ==
    /\ call = Idle
    /\ IF uid # 0
       THEN /\ Returns("AccessDenied")
            /\ UNCHANGED <<superblock, stored, handles>>
       ELSE /\ Returns("Success")
            /\ superblock' = FormattedSuperblock
            /\ stored' = FormattedSuperblock
            /\ handles' = [fd \in HandleIds |->
                  IF fd \in Fds THEN [handles[fd] EXCEPT !.opened = FALSE]
                                ELSE handles[fd]]
    /\ UNCHANGED <<nand, cache>>
-----------------------------------------------------------------------------
(* The calls that only read.  They change nothing but the result: they are  *)
(* operators that the properties use, not actions.                         *)

\* ReadDirectory: the names of the children.  Unlike all other walks, this one
\* ends at NIL only, and indexes the FST with any other pointer.
ReadDirectory(fd, path) ==
    LET index    == GetFstIndex(superblock, path)
        children == Children(superblock, index)
        Returning(code, names) == [code |-> code, names |-> names]
    IN  IF ~IsOpen(fd) THEN Returning("Invalid", {})
        ELSE IF index = NIL THEN Returning("NotFound", {})
        ELSE IF ~HasPermission(superblock.fst[index], handles[fd].uid,
                               handles[fd].gid, {"Read"})
        THEN Returning("AccessDenied", {})
        ELSE IF ~IsDirectory(superblock.fst[index])
        THEN Returning("Invalid", {})
        ELSE IF {superblock.fst[index].sub} \cup
                   {superblock.fst[i].sib : i \in children}
                \subseteq FstIndices \cup {NIL}
        THEN Returning("Success", {superblock.fst[i].name : i \in children})
        ELSE Returning("Undefined", {})

\* A plausible bug: read access to the entry is asked for.
GetMetadataCodeMutant(fd, path) ==
    LET index == GetFstIndex(superblock, path)
    IN  IF ~IsOpen(fd) THEN "Invalid"
        ELSE IF index = NIL THEN "NotFound"
        ELSE IF ~HasPermission(superblock.fst[index], handles[fd].uid,
                               handles[fd].gid, {"Read"})
        THEN "AccessDenied"
        ELSE "Success"

\* GetMetadata: read access to the directory the entry is in is enough.
GetMetadataCode(fd, path) ==
    LET split  == SplitPath(path)
        parent == GetFstIndex(superblock, split.parent)
    IN  IF ~IsOpen(fd) THEN "Invalid"
        ELSE IF ~IsValidNonRootPath(path) THEN "Success"
        ELSE IF parent = NIL THEN "NotFound"
        ELSE IF ~HasPermission(superblock.fst[parent], handles[fd].uid,
                               handles[fd].gid, {"Read"})
        THEN "AccessDenied"
        ELSE IF ChildIndex(superblock, parent, split.file_name) = NIL
        THEN "NotFound"
        ELSE "Success"

GetMetadata(fd, path) ==
    LET code  == GetMetadataCode(fd, path)
        index == GetFstIndex(superblock, path)
        entry == superblock.fst[index]
    IN  IF code # "Success" THEN [code |-> code]
        ELSE [code |-> code, fst_index |-> index, is_file |-> IsFile(entry),
              uid |-> entry.uid, gid |-> entry.gid, owner_mode |-> entry.owner,
              group_mode |-> entry.group, other_mode |-> entry.other,
              size |-> entry.size]

\* GetNandStats
NandStats(sb) ==
    LET Count(S) == Cardinality({c \in Clusters : sb.fat[c] \in S})
        used     == {i \in FstIndices : sb.fst[i].type # "none"}
        special  == {CLUSTER_UNUSED, NIL, CLUSTER_RESERVED, CLUSTER_BAD_BLOCK}
    IN  [free_clusters     |-> Count({CLUSTER_UNUSED, NIL}),
         reserved_clusters |-> Count({CLUSTER_RESERVED}),
         bad_clusters      |-> Count({CLUSTER_BAD_BLOCK}),
         used_clusters     |-> Count(U16 \ special),
         used_inodes       |-> Cardinality(used),
         free_inodes       |-> FstSize - Cardinality(used)]

\* A plausible bug: the last cluster of a file is counted only when it is full.
ClustersOfMutant(entry) == entry.size \div CLUSTER_DATA_SIZE

\* The clusters a file of that size takes up.
ClustersOf(entry) ==
    (entry.size + CLUSTER_DATA_SIZE - 1) \div CLUSTER_DATA_SIZE

\* CountDirectoryRecursively: every size is rounded up to whole clusters.
DirectoryStats(sb, directory) ==
    LET below == Traversal(sb, directory, LAMBDA entry : ~IsFile(entry))
    IN  [used_clusters |-> MapThenSumSet(LAMBDA i : ClustersOf(sb.fst[i]),
                               {i \in below : IsFile(sb.fst[i])}),
         used_inodes   |-> 1 + Cardinality(below)]

\* No access is asked for.
GetDirectoryStats(fd, path) ==
    LET index == GetFstIndex(superblock, path)
    IN  IF ~IsOpen(fd) THEN [code |-> "Invalid"]
        ELSE IF index = NIL THEN [code |-> "NotFound"]
        ELSE IF ~IsDirectory(superblock.fst[index]) THEN [code |-> "Invalid"]
        ELSE [code |-> "Success", stats |-> DirectoryStats(superblock, index)]

-----------------------------------------------------------------------------
(* Uses of the interface that break properties of the driver.              *)

Permitted(use, condition) == condition => use \in Uses

IsProperPrefix(p, q) == Len(p) < Len(q) /\ SubSeq(q, 1, Len(p)) = p

\* A component of the path that is not the last is a file.
ThroughFile(path) ==
    \E n \in 1..(Len(path) - 1) :
        LET index == GetFstIndex(superblock, SubSeq(path, 1, n))
        IN  index # NIL /\ IsFile(superblock.fst[index])

PlainPath(path) == Permitted("through_file", ThroughFile(path))

PlainName(path) ==
    Permitted("long_name", path # <<>> /\ path[Len(path)] \in LongNames)

\* The file was written and its name goes into the HMAC of its clusters.
IsWrittenFile(path) ==
    LET index == GetFstIndex(superblock, path)
    IN  /\ index # NIL
        /\ IsFile(superblock.fst[index]) /\ superblock.fst[index].size # 0

PlainRename(old_path, new_path) ==
    /\ PlainPath(old_path) /\ PlainPath(new_path) /\ PlainName(new_path)
    /\ Permitted("below_itself", IsProperPrefix(old_path, new_path))
    /\ Permitted("onto_ancestor", IsProperPrefix(new_path, old_path))
    /\ Permitted("rename_written_file", IsWrittenFile(old_path))

\* The file is open for writing.
HasWriter(path) ==
    LET index == GetFstIndex(superblock, path)
    IN  \E fd \in Fds : /\ handles[fd].opened /\ "Write" \in handles[fd].mode
                        /\ handles[fd].fst_index = index

PlainOpen(path, mode) ==
    /\ PlainPath(path)
    /\ Permitted("second_writer", "Write" \in mode /\ HasWriter(path))

PlainRead(fd, count) ==
    Permitted("huge_read", count + handles[fd].file_offset >= WordSize)

\* The write goes on in the cluster that is waiting in the cache, or makes the
\* file longer from a place in its last cluster.
Extends(fd, count) ==
    LET h == handles[fd]
        position == h.file_offset + count
        pending  == CacheHit(fd, h.file_offset) /\ Dirty(cache)
    IN  IF pending
        THEN h.file_size > superblock.fst[h.fst_index].size
        ELSE /\ position > h.file_size
             /\ h.file_offset >= h.file_size - (h.file_size % CLUSTER_DATA_SIZE)

PlainWrite(fd, count) ==
    LET offset == handles[fd].file_offset
    IN  /\ offset + count <= MaxFileSize
        /\ HasFile(fd) => Permitted("overwrite", ~Extends(fd, count))
        /\ Permitted("write_after_read",
                     CacheHit(fd, offset) /\ ~cache.for_write)

-----------------------------------------------------------------------------
(* The client.                                                             *)

\* The process stops, maybe in the middle of a call, and the image is mounted
\* again by a new FileSystemImpl.  When the superblock fails its check (see
\* SuperblockRing), the constructor skips the normalisation, and the calls use
\* the superblock all the same.
Remount ==
    /\ Permitted("crash", call # Idle \/ FreeHandles # Fds)
    /\ superblock' \in {Normalised(stored)} \cup
          (IF "unverified_mount" \in Uses THEN {stored} ELSE {})
    /\ handles' = [fd \in HandleIds |->
                      [NewHandle EXCEPT !.opened = (fd = INTERNAL_FD)]]
    /\ cache' = EmptyCache
    /\ Returns("Success")
    /\ UNCHANGED <<stored, nand>>

\* A formatted image, just mounted.  Other drivers mark free clusters with NIL.
Init ==
    /\ stored \in {FormattedSuperblock,
                   [FormattedSuperblock EXCEPT !.fat =
                       [c \in Clusters |-> IF @[c] = CLUSTER_UNUSED
                                           THEN NIL ELSE @[c]]]}
    /\ superblock = Normalised(stored)
    /\ nand = [c \in Clusters |-> [data |-> ZeroData, salt |-> NoSalt]]
    /\ handles = [fd \in HandleIds |->
                     [NewHandle EXCEPT !.opened = (fd = INTERNAL_FD)]]
    /\ cache = EmptyCache
    /\ call = Idle
    /\ result = "Success"

\* A call that changes the tree, on this descriptor.
NamespaceCallOn(fd) ==
    \E path \in Paths :
        /\ PlainPath(path)
        /\ \/ /\ PlainName(path)
              /\ \E perm \in Permissions : \/ CreateFile(fd, path, perm)
                                           \/ CreateDirectory(fd, path, perm)
           \/ Delete(fd, path)
           \/ \E new_path \in Paths :
                  PlainRename(path, new_path) /\ Rename(fd, path, new_path)
           \/ \E user \in Owners, perm \in Permissions :
                  SetMetadata(fd, path, user[1], user[2], perm)

NamespaceCall == \E fd \in PathFds : NamespaceCallOn(fd)

OpenCall ==
    \/ \E user \in FsUsers : OpenFs(user[1], user[2])
    \/ \E user \in Users, path \in Paths, mode \in OpenModes :
           PlainOpen(path, mode) /\ OpenFile(user[1], user[2], path, mode)

FileCall ==
    \E fd \in HandleIds :
        \/ Close(fd)
        \/ \E offset \in SeekOffsets, whence \in {"Set", "Current", "End"} :
               SeekFile(fd, offset, whence)
        \/ \E count \in ReadCounts :
               PlainRead(fd, count) /\ ReadFile(fd, count)
        \/ \E count \in WriteCounts, byte \in Bytes :
               PlainWrite(fd, count) /\ WriteFile(fd, count, byte)

FormatCall ==
    /\ Permitted("format_with_cache", cache.handle # NoHandle)
    /\ \E user \in Users : Format(user[1])

Next == \/ NamespaceCall \/ OpenCall \/ FileCall \/ FormatCall
        \/ ReadFileStep \/ WriteFileStep
        \/ Remount

\* The loop of a call goes on by itself; nothing makes the client call.
Fairness == WF_vars(ReadFileStep) /\ WF_vars(WriteFileStep)

Spec == Init /\ [][Next]_vars /\ Fairness
=============================================================================
