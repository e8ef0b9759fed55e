---------------------------- MODULE FsRefinement ----------------------------
(***************************************************************************)
(* The driver implements Namespace: what its FST entries, linked by index, *)
(* mean as a tree of paths.                                                *)
(***************************************************************************)
EXTENDS FsProperties

CONSTANT Closed

ASSUME RefinementAssumption ==
    Closed \notin [user : Uids \X Gids, path : Seq(Names), mode : FileMode]

-----------------------------------------------------------------------------
(* The refinement mapping.                                                 *)

\* An entry, with the path of the directory it is in.
PathTo(sb, x) == IF x.index = 0 THEN <<>> ELSE Append(x.dir, sb.fst[x.index].name)

\* Where the pointers of an entry lead.
Following(sb, x) ==
    LET entry == sb.fst[x.index]
    IN  {y \in {[dir |-> x.dir, index |-> entry.sib],
                [dir |-> PathTo(sb, x),
                 index |-> IF IsDirectory(entry) THEN entry.sub ELSE NIL]} :
            y.index \in FstIndices}

\* Every entry that can be reached from the root.
Placed(sb) ==
    LET within[n \in 0..FstSize] ==
            IF n = 0 THEN {[dir |-> <<>>, index |-> 0]}
            ELSE UNION {{x} \cup Following(sb, x) : x \in within[n - 1]}
    IN  within[FstSize]

\* An entry without its links.
Node(entry, path) ==
    [path |-> path, type |-> entry.type,
     owner |-> entry.owner, group |-> entry.group, other |-> entry.other,
     uid |-> entry.uid, gid |-> entry.gid, size |-> entry.size]

TreeOf(sb) == {Node(sb.fst[x.index], PathTo(sb, x)) : x \in Placed(sb)}

\* The path of the file of a descriptor; a file out of reach has none.
PathOf(index) ==
    IF index = NIL THEN <<>>
    ELSE PathTo(superblock, CHOOSE x \in Placed(superblock) : x.index = index)

Opened ==
    [fd \in Fds |->
        IF ~handles[fd].opened THEN Closed
        ELSE [user |-> <<handles[fd].uid, handles[fd].gid>>,
              path |-> PathOf(handles[fd].fst_index),
              mode |-> handles[fd].mode]]

Tree == INSTANCE Namespace WITH
    Internal <- IF INTERNAL_FD \in PathFds THEN {<<0, 0>>} ELSE {},
    Sizes    <- U32,
    tree     <- TreeOf(superblock),
    durable  <- TreeOf(stored),
    opened   <- Opened

-----------------------------------------------------------------------------

\* Every step of the driver is a step of Namespace or none: a deletion removes
\* exactly what is below the path, a Rename moves all of it and keeps owners and
\* modes, a descriptor keeps its file, a refused call changes nothing, and once
\* the last descriptor is closed a restart finds everything.
ImplementsNamespace == Tree!Spec

UserOf(fd) == <<handles[fd].uid, handles[fd].gid>>

Callers == {fd \in PathFds : IsOpen(fd)}
PlainPaths == {path \in Paths : PlainPath(path)}

\* A call is refused for the reasons that the tree of paths has, first things first.
CodesAgree ==
    \A fd \in Callers, path \in PlainPaths :
        /\ DeleteCode(fd, path) = Tree!DeleteCode(UserOf(fd), path)
        /\ \A type \in {"file", "directory"} :
              LET code == CreateCode(fd, path, type)
              IN  Tree!CreateCode(UserOf(fd), path, type) =
                     IF code = "FstFull" THEN "Success" ELSE code
        /\ \A new \in {p \in Paths : PlainRename(path, p)} :
              RenameCode(fd, path, new) = Tree!RenameCode(UserOf(fd), path, new)
        /\ \A user \in Users : SetMetadataCode(fd, path, user[1]) =
                                Tree!SetMetadataCode(UserOf(fd), path, user[1])
        /\ \A user \in Users, mode \in FileMode :
              OpenFileCode(user[1], user[2], path, mode) =
                 Tree!OpenCode(user, path, mode)

\* What the calls that only read return is what the tree of paths holds.
ValuesAgree ==
    \A fd \in Callers, path \in PlainPaths :
        LET listing  == ReadDirectory(fd, path)
            metadata == GetMetadata(fd, path)
            count    == GetDirectoryStats(fd, path)
        IN  /\ listing.code = Tree!ReadDirectoryCode(UserOf(fd), path)
            /\ metadata.code = Tree!GetMetadataCode(UserOf(fd), path)
            /\ count.code = Tree!GetDirectoryStatsCode(path)
            /\ count.code = "Success" =>
                  count.stats.used_inodes = Cardinality(Tree!From(path))
            /\ listing.code = "Success" => listing.names = Tree!Listing(path)
            /\ metadata.code = "Success" =>
                  /\ Tree!At(path) =
                        {Node(superblock.fst[metadata.fst_index], path)}
                  /\ metadata.is_file = (Tree!FileAt(path) # {})

\* Every call answers as the tree of paths has it, in its result code and, where it
\* reads, in what it returns: the lookups of the driver, its ways to walk a subtree
\* and its handle table never see anything else.  Only FstFull depends on the table.
AnswersAgree == CodesAgree /\ ValuesAgree
=============================================================================
