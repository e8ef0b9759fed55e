----------------------------- MODULE PathStrings -----------------------------
(***************************************************************************)
(* Paths as strings: the checks and the splitting of util.cpp,             *)
(* string_util.cpp, and the callers in fs.cpp and low_level.cpp.  Sffs     *)
(* takes a path to be the sequence of its components; the properties say   *)
(* for which strings that is right.                                        *)
(*                                                                         *)
(* A string is a sequence of character codes.                              *)
(***************************************************************************)
EXTENDS EntryBytes

CONSTANTS
    Alphabet,       \* the characters of the paths, `/' among them
    MaxPathLength,  \* the longest valid path (64)
    MaxLength       \* the longest path that is passed

ASSUME PathAssumption ==
    /\ Alphabet \subseteq 0..255 /\ 47 \in Alphabet
    /\ MaxPathLength <= MaxLength

SEPARATOR == 47

VARIABLE path  \* the argument of a call

\* The places of the separators of a string.
Separators(str) == {k \in DOMAIN str : str[k] = SEPARATOR}

\* A plausible bug: separators that follow each other count as one.
SplitStringMutant(str) ==
    LET cuts == SetToSortSeq(Separators(str) \cup {0, Len(str) + 1},
                             LAMBDA x, y : x < y)
        pieces == [k \in 1..(Len(cuts) - 1) |->
                      SubSeq(str, cuts[k] + 1, cuts[k + 1] - 1)]
    IN  SelectSeq(pieces, LAMBDA piece : piece # <<>>)

\* getline returns what is before the next separator, and at the end nothing when
\* nothing is left.
SplitString(str) ==
    LET ends == Separators(str) \cup
                (IF str = <<>> \/ Last(str) = SEPARATOR THEN {}
                                                        ELSE {Len(str) + 1})
        cuts == SetToSortSeq(ends \cup {0}, LAMBDA x, y : x < y)
    IN  [k \in 1..(Len(cuts) - 1) |-> SubSeq(str, cuts[k] + 1, cuts[k + 1] - 1)]

IsValidNonRootPath(str) ==
    /\ Len(str) > 1 /\ Len(str) <= MaxPathLength
    /\ str[1] = SEPARATOR /\ Last(str) # SEPARATOR

\* A plausible bug: the path is split at its first separator.
SplitPathMutant(str) ==
    LET first == CHOOSE k \in Separators(str) :
                    \A j \in Separators(str) : k <= j
    IN  [parent    |-> SubSeq(str, 1, first),
         file_name |-> SubSeq(str, first + 1, Len(str))]

\* The parent keeps its separator.
SplitPath(str) ==
    LET last == CHOOSE k \in Separators(str) :
                    \A j \in Separators(str) : j <= k
    IN  [parent    |-> SubSeq(str, 1, last),
         file_name |-> SubSeq(str, last + 1, Len(str))]

\* The names that GetFstIndex looks up one after the other: the first character is
\* skipped, whatever it is.
Components(str) ==
    IF str = <<SEPARATOR>> \/ str = <<>> THEN <<>> ELSE SplitString(Tail(str))

\* c - ' ' > 0x5e, where char is signed.
IsRejected(c) == (IF c > 127 THEN c - 256 ELSE c) - 32 > 94

\* The checks of CreateFileOrDirectory before it looks anything up, and the number
\* that it compares with the limit of 8.
IsAccepted(str) ==
    IsValidNonRootPath(str) /\ ~\E k \in DOMAIN str : IsRejected(str[k])

SeparatorCount(str) == Cardinality(Separators(str))

PathInit == path \in BoundedSeq(Alphabet, MaxLength)

-----------------------------------------------------------------------------
(* Properties.                                                             *)

Join(components) ==
    FlattenSeq([k \in DOMAIN components |-> <<SEPARATOR>> \o components[k]])

\* To look a path up is to look up its parent, then its last name: the same
\* directories are passed, and SplitPath never gives an empty name.
ParentThenName ==
    IsValidNonRootPath(path) =>
        /\ Components(path) = Append(Components(SplitPath(path).parent),
                                     SplitPath(path).file_name)
        /\ SplitPath(path).file_name # <<>>

\* Counting separators counts components: the limit on the depth of a directory
\* is a limit on the components of its path.  Two paths with the same components
\* are the same string, so that nothing is lost in taking one for the other.
PathsAreComponents ==
    IsValidNonRootPath(path) =>
        /\ SeparatorCount(path) = Len(Components(path))
        /\ Join(Components(path)) = path

\* A name that is accepted is found again by a later call: SetName and GetName keep
\* it up to its limit, unless it has a NUL in it.
AcceptedNamesResolve ==
    LET name == SplitPath(path).file_name
    IN  IsAccepted(path) /\ ~Contains(name, NUL) =>
            NameIn(NameBytes(name)) =
                SubSeq(name, 1, IF Len(name) < NameSize THEN Len(name)
                                                        ELSE NameSize)
=============================================================================
