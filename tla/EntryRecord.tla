----------------------------- MODULE EntryRecord -----------------------------
(***************************************************************************)
(* What an FST entry promises: fields that do not disturb each other.      *)
(***************************************************************************)
EXTENDS Integers, SequencesExt

CONSTANTS NewNames,   \* names that are given to it
          NameSize,   \* it keeps that many characters of them
          Accesses,   \* its three access modes
          Values      \* the values of its other fields

VARIABLES name, type, access, numbers

Numbers == DOMAIN Values

NoAccess == <<{}, {}, {}>>

\* Everything is zero.
Init ==
    /\ name = <<>> /\ type = "none" /\ access = NoAccess
    /\ numbers = [field \in Numbers |-> 0]

SetName ==
    /\ name' \in {SubSeq(new, 1, IF Len(new) < NameSize THEN Len(new)
                                                        ELSE NameSize) :
                      new \in NewNames}
    /\ UNCHANGED <<type, access, numbers>>

\* A new type takes the access modes away.
SetType ==
    /\ type' \in {"none", "file", "directory"}
    /\ access' = NoAccess
    /\ UNCHANGED <<name, numbers>>

SetAccessMode == access' \in Accesses /\ UNCHANGED <<name, type, numbers>>

SetNumber ==
    /\ \E field \in Numbers : \E value \in Values[field] :
           numbers' = [numbers EXCEPT ![field] = value]
    /\ UNCHANGED <<name, type, access>>

Next == SetName \/ SetType \/ SetAccessMode \/ SetNumber

Spec == Init /\ [][Next]_<<name, type, access, numbers>>

\* HasPermission, on the sets of accesses.
Grants(uid, gid, requested) ==
    \/ uid = 0
    \/ requested \subseteq
          IF numbers["uid"] = uid THEN access[1]
          ELSE IF numbers["gid"] = gid THEN access[2] ELSE access[3]
=============================================================================
