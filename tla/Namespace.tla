------------------------------ MODULE Namespace ------------------------------
(***************************************************************************)
(* What the driver promises about names: a tree of files and directories,  *)
(* addressed by paths, and the descriptors of users.  There are no entry   *)
(* numbers, no sibling lists and no clusters.  A call is refused for the   *)
(* reason its Code names, and then changes nothing; otherwise it takes     *)
(* effect at once, in the tree and in what a restart would find.           *)
(***************************************************************************)
EXTENDS Integers, SequencesExt

CONSTANTS
    Fds,           \* descriptors
    Names,         \* names of files and directories
    Users,         \* <<uid, gid>> pairs
    Internal,      \* those that make calls without a descriptor of theirs
    Owners,        \* those that SetMetadata makes owners
    Permissions,   \* access modes of entries
    OpenModes,     \* modes of descriptors
    Sizes,         \* sizes of files
    MaxComponents, \* a directory path has at most that many
    Closed         \* the state of a closed descriptor

VARIABLES
    tree,    \* the files and directories, each with its path
    durable, \* those a restart finds
    opened   \* per descriptor, its user, mode and file; the root stands for none

vars == <<tree, durable, opened>>

Root == [path |-> <<>>, type |-> "directory", owner |-> {},
         group |-> {"Read"}, other |-> {"Read"}, uid |-> 0, gid |-> 0,
         size |-> 0]

OpenFds == {fd \in Fds : opened[fd] # Closed}
Callers == Internal \cup {opened[fd].user : fd \in OpenFds}

\* What is at the path: one node, or none.
At(path) == {node \in tree : node.path = path}
FileAt(path)      == {node \in At(path) : node.type = "file"}
DirectoryAt(path) == {node \in At(path) : node.type = "directory"}

\* The path and all below it.
From(path) == {node \in tree : IsPrefix(path, node.path)}

May(user, access, nodes) ==
    \A node \in nodes :
        \/ user[1] = 0
        \/ access \subseteq IF node.uid = user[1] THEN node.owner
                            ELSE IF node.gid = user[2] THEN node.group
                            ELSE node.other

InUse(path) == \E fd \in OpenFds : IsPrefix(path, opened[fd].path)

-----------------------------------------------------------------------------
(* Why a call is refused.                                                  *)

CreateCode(user, path, type) ==
    IF path = <<>> THEN "Invalid"
    ELSE IF type = "directory" /\ Len(path) > MaxComponents
    THEN "TooManyPathComponents"
    ELSE IF DirectoryAt(Front(path)) = {} THEN "NotFound"
    ELSE IF ~May(user, {"Write"}, At(Front(path))) THEN "AccessDenied"
    ELSE IF At(path) # {} THEN "AlreadyExists"
    ELSE "Success"

\* Write access to the directory the entry is in is enough, whatever the access
\* to the directories below.
DeleteCode(user, path) ==
    IF path = <<>> THEN "Invalid"
    ELSE IF DirectoryAt(Front(path)) = {} THEN "NotFound"
    ELSE IF ~May(user, {"Write"}, At(Front(path))) THEN "AccessDenied"
    ELSE IF At(path) = {} THEN "NotFound"
    ELSE IF InUse(path) THEN "InUse"
    ELSE "Success"

RenameCode(user, old, new) ==
    IF old = <<>> \/ new = <<>> THEN "Invalid"
    ELSE IF DirectoryAt(Front(old)) = {} \/ DirectoryAt(Front(new)) = {}
    THEN "NotFound"
    ELSE IF ~May(user, {"Write"}, At(Front(old)) \cup At(Front(new)))
    THEN "AccessDenied"
    ELSE IF At(old) = {} THEN "NotFound"
    ELSE IF FileAt(old) # {} /\ Last(old) = Last(new) THEN "Invalid"
    ELSE IF InUse(old) THEN "InUse"
    ELSE IF At(new) = {} THEN "Success"
    ELSE IF new = old \/ (FileAt(new) = {}) # (FileAt(old) = {}) THEN "Invalid"
    ELSE IF InUse(new) THEN "InUse"
    ELSE "Success"

SetMetadataCode(user, path, uid) ==
    IF At(path) = {} THEN "NotFound"
    ELSE IF user[1] # 0 /\ \E node \in At(path) : {user[1], uid} # {node.uid}
    THEN "AccessDenied"
    ELSE IF \E node \in FileAt(path) : node.size # 0 THEN "FileNotEmpty"
    ELSE "Success"

OpenCode(user, path, mode) ==
    IF DirectoryAt(path) # {} THEN "Invalid"
    ELSE IF At(path) = {} THEN "NotFound"
    ELSE IF ~May(user, mode, At(path)) THEN "AccessDenied"
    ELSE IF OpenFds = Fds THEN "NoFreeHandle"
    ELSE "Success"

ReadDirectoryCode(user, path) ==
    IF At(path) = {} THEN "NotFound"
    ELSE IF ~May(user, {"Read"}, At(path)) THEN "AccessDenied"
    ELSE IF DirectoryAt(path) = {} THEN "Invalid"
    ELSE "Success"

\* Whoever may read a directory sees the metadata of what is in it.
GetMetadataCode(user, path) ==
    IF path = <<>> THEN "Success"
    ELSE IF DirectoryAt(Front(path)) = {} THEN "NotFound"
    ELSE IF ~May(user, {"Read"}, At(Front(path))) THEN "AccessDenied"
    ELSE IF At(path) = {} THEN "NotFound"
    ELSE "Success"

GetDirectoryStatsCode(path) ==
    IF At(path) = {} THEN "NotFound"
    ELSE IF DirectoryAt(path) = {} THEN "Invalid" ELSE "Success"

\* What ReadDirectory returns.
Listing(path) ==
    {Last(node.path) :
        node \in {n \in tree : n.path # <<>> /\ Front(n.path) = path}}

-----------------------------------------------------------------------------
(* The calls that are not refused.                                         *)

Create(user, path, type, perm) ==
    /\ CreateCode(user, path, type) = "Success"
    /\ tree' = tree \cup
          {[path |-> path, type |-> type, owner |-> perm.owner,
            group |-> perm.group, other |-> perm.other,
            uid |-> user[1], gid |-> user[2], size |-> 0]}

Delete(user, path) ==
    /\ DeleteCode(user, path) = "Success"
    /\ tree' = tree \ From(path)

\* The path and all below it move; what was at the new path is gone.
Rename(user, old, new) ==
    /\ RenameCode(user, old, new) = "Success"
    /\ tree' = (tree \ (From(old) \cup From(new))) \cup
          {[node EXCEPT !.path = new \o SubSeq(@, Len(old) + 1, Len(@))] :
               node \in From(old)}

SetMetadata(user, path, uid, gid, perm) ==
    /\ SetMetadataCode(user, path, uid) = "Success"
    /\ tree' = (tree \ At(path)) \cup
          {[node EXCEPT !.uid = uid, !.gid = gid, !.owner = perm.owner,
                        !.group = perm.group, !.other = perm.other] :
               node \in At(path)}

OpenFs(fd, user) ==
    /\ opened[fd] = Closed
    /\ opened' = [opened EXCEPT ![fd] =
                     [user |-> user, path |-> <<>>, mode |-> {}]]
    /\ UNCHANGED <<tree, durable>>

Open(fd, user, path, mode) ==
    /\ opened[fd] = Closed
    /\ OpenCode(user, path, mode) = "Success"
    /\ opened' = [opened EXCEPT ![fd] =
                     [user |-> user, path |-> path, mode |-> mode]]
    /\ UNCHANGED <<tree, durable>>

\* The data of a descriptor may have reached its file, which is longer then.
Grown(fd) ==
    {tree} \cup
    UNION {{(tree \ {node}) \cup {[node EXCEPT !.size = size]} :
                size \in {n \in Sizes : n > node.size}} :
           node \in {n \in FileAt(opened[fd].path) : "Write" \in opened[fd].mode}}

\* A restart does not see it yet.
Write(fd) ==
    /\ tree' \in Grown(fd)
    /\ UNCHANGED <<durable, opened>>

\* When the last descriptor is closed everything is durable.
Close(fd) ==
    /\ opened' = [opened EXCEPT ![fd] = Closed]
    /\ tree' \in Grown(fd)
    /\ durable' \in {tree'} \cup (IF OpenFds = {fd} THEN {} ELSE {durable})

Format ==
    /\ tree' = {Root} /\ durable' = {Root}
    /\ opened' = [fd \in Fds |-> Closed]

Restart ==
    /\ tree' = durable /\ UNCHANGED durable
    /\ opened' = [fd \in Fds |-> Closed]

-----------------------------------------------------------------------------

Init ==
    /\ tree = {Root} /\ durable = {Root}
    /\ opened = [fd \in Fds |-> Closed]

\* The paths in the tree, and those one name below.
Places == {node.path : node \in tree} \cup
          {Append(node.path, name) : node \in tree, name \in Names}

\* What such a call changes is durable when it returns.
NamespaceCall ==
    /\ UNCHANGED opened /\ durable' = tree'
    /\ \E user \in Callers, path \in Places :
        \/ \E type \in {"file", "directory"}, perm \in Permissions :
               Create(user, path, type, perm)
        \/ Delete(user, path)
        \/ \E new \in Places : Rename(user, path, new)
        \/ \E owner \in Owners, perm \in Permissions :
               SetMetadata(user, path, owner[1], owner[2], perm)

OpenCall ==
    \E fd \in Fds, user \in Users :
        \/ OpenFs(fd, user)
        \/ \E path \in Places, mode \in OpenModes : Open(fd, user, path, mode)

WriteOrClose == \E fd \in OpenFds : Write(fd) \/ Close(fd)

Next == NamespaceCall \/ OpenCall \/ WriteOrClose \/ Format \/ Restart

\* Steps that change nothing are left out of Next before TLC looks for the call.
Spec == Init /\ [][vars' # vars /\ Next]_vars
=============================================================================
