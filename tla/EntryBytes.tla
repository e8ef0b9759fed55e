------------------------------ MODULE EntryBytes ------------------------------
(***************************************************************************)
(* The bytes of an FST entry: the packed struct of sffs.h, the access to   *)
(* its fields of sffs.cpp, and the bits that HasPermission compares.  Sffs *)
(* takes an entry to be a record; EntryRecord says what that means, and    *)
(* the bytes here implement it.                                            *)
(***************************************************************************)
EXTENDS ByteOrder, FiniteSets, SequencesExt, Bitwise

CONSTANTS
    NameSize,  \* characters of a name (12)
    NewNames,  \* names that are given to the entry: sequences of characters
    Accesses,  \* owner, group and other mode that are given to it, in triples
    Values,    \* values of its numeric fields
    Callers    \* <<uid, gid>> pairs

NUL == 0

VARIABLE raw  \* the entry, byte after byte

\* The size of the fields, in their order.
Fields == <<[name |-> "name", size |-> NameSize], [name |-> "mode", size |-> 1],
            [name |-> "attr", size |-> 1], [name |-> "sub", size |-> 2],
            [name |-> "sib",  size |-> 2], [name |-> "size", size |-> 4],
            [name |-> "uid",  size |-> 4], [name |-> "gid", size |-> 2],
            [name |-> "x3",   size |-> 4]>>

Numbers == {"attr", "sub", "sib", "size", "uid", "gid", "x3"}

ASSUME EntryAssumption ==
    /\ NameSize \in Nat \ {0}
    /\ DOMAIN Values = Numbers
    /\ \A k \in DOMAIN Fields : Fields[k].name \in Numbers =>
          Values[Fields[k].name] \subseteq Unsigned(Fields[k].size)

\* The struct is packed: a field begins where the one before it ends.
Places ==
    [name \in {Fields[k].name : k \in DOMAIN Fields} |->
        LET k == CHOOSE n \in DOMAIN Fields : Fields[n].name = name
            offset == FoldLeft(LAMBDA sum, field : sum + field.size, 0,
                               SubSeq(Fields, 1, k - 1))
        IN  (offset + 1)..(offset + Fields[k].size)]

SizeOf(name) == Cardinality(Places[name])
Begin == [name \in DOMAIN Places |->
             CHOOSE k \in Places[name] : k - 1 \notin Places[name]]

Field(name) == SubSeq(raw, Begin[name], Begin[name] + SizeOf(name) - 1)

\* The entry with these bytes in a field.
WithField(name, bytes) ==
    [k \in DOMAIN raw |-> IF k \in Places[name] THEN bytes[1 + k - Begin[name]]
                                                ELSE raw[k]]

-----------------------------------------------------------------------------
(* sffs.cpp                                                                *)

\* A plausible bug: the last byte is kept for a NUL.
NameBytesMutant(name) ==
    [k \in 1..NameSize |-> IF k <= Len(name) /\ k < NameSize THEN name[k]
                                                            ELSE NUL]

\* The name that SetName leaves in its field, and GetName.
NameBytes(name) ==
    [k \in 1..NameSize |-> IF k <= Len(name) THEN name[k] ELSE NUL]

NameIn(bytes) ==
    SubSeq(bytes, 1, CHOOSE n \in 0..Len(bytes) :
                        /\ \A k \in 1..n : bytes[k] # NUL
                        /\ n < Len(bytes) => bytes[n + 1] = NUL)

mode == Field("mode")[1]

\* The FileMode enumeration.
Bitmask(access) == (IF "Read" \in access THEN 1 ELSE 0) +
                   (IF "Write" \in access THEN 2 ELSE 0)

\* The getters, as functions of the mode.
Modes == 0..255
TypeBits     == [m \in Modes |-> m & 3]
GetOwnerMode == [m \in Modes |-> shiftR(m, 6) & 3]
GetGroupMode == [m \in Modes |-> shiftR(m & 48, 4) & 3]
GetOtherMode == [m \in Modes |-> shiftR(m & 12, 2) & 3]

IsFile      == TypeBits[mode] = 1
IsDirectory == TypeBits[mode] = 2

\* A plausible bug: the type is lost.
AccessBitsMutant(access) ==
    (Bitmask(access[1]) * 64) | (16 * Bitmask(access[2])) |
    (4 * Bitmask(access[3]))

\* The mode that SetAccessMode assigns.
AccessBits(access) ==
    TypeBits[mode] | (Bitmask(access[1]) * 64) | (16 * Bitmask(access[2])) |
    (4 * Bitmask(access[3]))

\* A plausible bug: any of the requested accesses is enough.
HasPermissionMutant(uid, gid, requested) ==
    LET file_mode == IF Converted[Field("uid")] = uid THEN GetOwnerMode[mode]
                     ELSE IF Converted[Field("gid")] = gid THEN GetGroupMode[mode]
                     ELSE GetOtherMode[mode]
    IN  uid = 0 \/ (Bitmask(requested) & file_mode) # 0

HasPermission(uid, gid, requested) ==
    LET file_mode == IF Converted[Field("uid")] = uid THEN GetOwnerMode[mode]
                     ELSE IF Converted[Field("gid")] = gid THEN GetGroupMode[mode]
                     ELSE GetOtherMode[mode]
    IN  uid = 0 \/ (Bitmask(requested) & file_mode) = Bitmask(requested)

-----------------------------------------------------------------------------
(* How the driver changes an entry.                                        *)

SetName(name) == raw' = WithField("name", NameBytes(name))

\* mode is assigned: 0 when the entry is removed, or the type of a new one.
SetType(bits) == raw' = WithField("mode", <<bits>>)

SetAccessMode(access) == raw' = WithField("mode", <<AccessBits(access)>>)

SetNumber(field, value) ==
    raw' = WithField(field, Assigned(value, SizeOf(field)))

\* FstEntry{}
EntryInit ==
    raw = [k \in UNION {Places[name] : name \in DOMAIN Places} |-> 0]

EntryNext ==
    \/ \E name \in NewNames : SetName(name)
    \/ \E bits \in 0..2 : SetType(bits)
    \/ \E access \in Accesses : SetAccessMode(access)
    \/ \E field \in Numbers : \E value \in Values[field] :
           SetNumber(field, value)

-----------------------------------------------------------------------------
(* Properties.                                                             *)

AccessIn(bits) == (IF bits % 2 = 1 THEN {"Read"} ELSE {}) \cup
                  (IF bits \div 2 = 1 THEN {"Write"} ELSE {})

Type == IF IsFile THEN "file" ELSE IF IsDirectory THEN "directory" ELSE "none"

\* What the getters and the conversions make of the bytes.
Record == INSTANCE EntryRecord WITH
    name    <- NameIn(Field("name")),
    type    <- Type,
    access  <- <<AccessIn(GetOwnerMode[mode]), AccessIn(GetGroupMode[mode]),
                 AccessIn(GetOtherMode[mode])>>,
    numbers <- [field \in Numbers |-> Converted[Field(field)]]

\* The bytes behave as the record: a field that is set reads back, and no other one
\* changes.  The three access modes and the type share one byte; the integers
\* of several bytes lie next to each other.
ImplementsRecord == Record!Spec

\* The integers lie in the entry as IOS expects them, whatever the host does with
\* its own.
StoredBigEndian == \A field \in Numbers :
    BigEndian(Field(field)) = Converted[Field(field)]

\* The comparison of bits grants what the sets of accesses do.
BitsGrant == \A caller \in Callers, requested \in SUBSET {"Read", "Write"} :
    HasPermission(caller[1], caller[2], requested) =
        Record!Grants(caller[1], caller[2], requested)
=============================================================================
