------------------------------ MODULE ByteOrder ------------------------------
(***************************************************************************)
(* How the integers of the superblock lie in memory (swap.h), on a host    *)
(* that puts the low byte first.  A byte is a digit.                       *)
(***************************************************************************)
EXTENDS Integers, Sequences

CONSTANT Radix  \* the number of values of a byte (256)

ASSUME ByteOrderAssumption == Radix \in Nat /\ Radix >= 2

Digit == 0..(Radix - 1)

\* The integers of that many bytes.
Unsigned(size) == 0..(Radix^size - 1)

swap16(data) == ((data * Radix) % Radix^2) + (data \div Radix)

\* A plausible bug: the halves change places, but not the bytes in them.
swap32Mutant(data) == (data % Radix^2) * Radix^2 + (data \div Radix^2)

swap32(data) == swap16(data % Radix^2) * Radix^2 + swap16(data \div Radix^2)

\* memcpy of an integer to memory, and back.
InMemory(value, size) == [k \in 1..size |-> (value \div Radix^(k - 1)) % Radix]

FromMemory(bytes) ==
    LET sum[k \in 0..Len(bytes)] ==
            IF k = 0 THEN 0 ELSE sum[k - 1] + bytes[k] * Radix^(k - 1)
    IN  sum[Len(bytes)]

\* swap<size>
swap(bytes) ==
    LET value == FromMemory(bytes)
    IN  InMemory(CASE Len(bytes) = 1 -> value
                   [] Len(bytes) = 2 -> swap16(value)
                   [] Len(bytes) = 4 -> swap32(value),
                 Len(bytes))

FromBigEndian(data, size) == FromMemory(swap(InMemory(data, size)))

\* The bytes of a BigEndianValue after `value' was assigned to it, and what it
\* converts to.
Assigned(value, size) == InMemory(FromBigEndian(value, size), size)
Converted == [bytes \in UNION {[1..size -> Digit] : size \in {1, 2, 4}} |->
                 FromBigEndian(FromMemory(bytes), Len(bytes))]

\* What the bytes mean to IOS: the first one is the most significant.
BigEndian(bytes) ==
    LET value[k \in 0..Len(bytes)] ==
            IF k = 0 THEN 0 ELSE value[k - 1] * Radix + bytes[k]
    IN  value[Len(bytes)]
=============================================================================
