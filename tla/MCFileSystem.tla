---------------------------- MODULE MCFileSystem ----------------------------
(***************************************************************************)
(* Small instances of FileSystem for TLC.                                  *)
(***************************************************************************)
EXTENDS FsRefinement, TLC

CONSTANTS a, b, long  \* names

MCTruncated == [name \in LongNames |-> a]
RootUser == {<<0, 0>>}
OneUser  == {<<1, 1>>}
TwoUsers == {<<0, 0>>, <<1, 1>>}

\* All paths of at most two components.
TwoLevels == {<<>>} \cup {<<x>> : x \in Names}
                    \cup {<<x, y>> : x \in Names, y \in Names}
\* One directory and what is in it.
UnderA == {<<>>, <<a>>, <<b>>, <<a, a>>, <<a, b>>}
OneLevel == {<<x>> : x \in Names}

LongNamePaths == {<<a>>, <<long>>}
\* A chain of three directories.
ThreeLevels == {<<>>, <<a>>, <<a, a>>, <<a, a, a>>}

AllAccess == {[owner |-> {"Read", "Write"}, group |-> {"Read", "Write"},
               other |-> {"Read", "Write"}]}
OwnerOnly == {[owner |-> {"Read", "Write"}, group |-> {"Read"}, other |-> {}],
              [owner |-> {"Read", "Write"}, group |-> {}, other |-> {"Write"}]}
ReadWrite == {{"Read", "Write"}}
ReadOrWrite == {{"Read"}, {"Write"}}
NameSymmetry == Permutations(Names)

\* TLC tells two states of the runs without liveness apart by View.  It leaves
\* out what no later call can read: the result of the last call; of an entry
\* that cannot be reached from the root, all but the type; the content of a
\* cluster that is in no chain of a reachable file; and a closed handle, which
\* AssignFreeHandle resets.  That the driver follows no pointer to these is what
\* TreeOK, FatOK and CacheCoherent say, which are checked.
Visible(sb) ==
    LET live == Live(sb)
    IN  [sb EXCEPT !.fst = [i \in FstIndices |->
            IF i \in live THEN sb.fst[i]
                          ELSE [EmptyEntry EXCEPT !.type = sb.fst[i].type]]]
InChains(sb) == UNION {ChainOf(sb, f) : f \in LiveFiles(sb)}
VisibleNand == [c \in InChains(superblock) \cup InChains(stored) |-> nand[c]]

VisibleHandles == [fd \in HandleIds |->
    IF IsOpen(fd) THEN handles[fd] ELSE NewHandle]

View == <<Visible(superblock), Visible(stored), VisibleNand,
          VisibleHandles, cache, call>>
=============================================================================
