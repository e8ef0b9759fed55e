--------------------------------- MODULE Ecc ---------------------------------
(***************************************************************************)
(* The error-correcting code of a page (ecc.cpp): for each chunk of 512    *)
(* bytes, the parity of the bits whose number has a 0, and of those whose  *)
(* number has a 1, at each binary place of the number.                     *)
(*                                                                         *)
(* A byte is the set of its one bits.  Bit b of byte i of a chunk has the  *)
(* number b + 8 * i.                                                       *)
(***************************************************************************)
EXTENDS Integers, FiniteSets, Sequences, Functions

CONSTANT LogChunkSize  \* a chunk has 2^LogChunkSize bytes (9)

\* The second conjunct follows from the first, for provers that do not know powers.
ASSUME EccAssumption == LogChunkSize \in 1..9 /\ 2^LogChunkSize \in Nat \ {0}

Bits == 0..7
Byte == SUBSET Bits

Differ(x, y) == (x \ y) \cup (y \ x)

\* Bit k of a number.
BitOf(n, k) == (n \div 2^k) % 2

\* The low eight bits of a number.
ByteOf(n) == {k \in Bits : BitOf(n, k) = 1}

Parity(x) == Cardinality(x) % 2

ChunkSize == 2^LogChunkSize
BitPlaces == 0..(LogChunkSize + 2)

\* a[j][v] before the parity is taken: at the three lowest places some bits of all
\* bytes, at the others all bits of some bytes.
Row(chunk, j, v) ==
    LET bytes == {i \in DOMAIN chunk : j < 3 \/ BitOf(i - 1, j - 3) = v}
        x     == FoldFunctionOnSet(Differ, {}, chunk, bytes)
    IN  IF j < 3 THEN {k \in x : BitOf(k, j) = v} ELSE x

\* The 16-bit numbers a0 and a1 as the sets of their one bits.
Syndrome(chunk, v) == {j \in BitPlaces : Parity(Row(chunk, j, v)) = 1}

\* The four bytes that a chunk adds: a0, a0 >> 8, a1, a1 >> 8.
CalculateChunk(chunk) ==
    LET Word(v) == Syndrome(chunk, v)
    IN  <<Word(0) \cap Bits, {j - 8 : j \in Word(0) \ Bits},
          Word(1) \cap Bits, {j - 8 : j \in Word(1) \ Bits}>>

\* The ECC of the data of a page.
Calculate(data) ==
    [n \in 1..(4 * (Len(data) \div ChunkSize)) |->
        LET k == (n - 1) \div 4
        IN  CalculateChunk(SubSeq(data, k * ChunkSize + 1, (k + 1) * ChunkSize))
                [1 + ((n - 1) % 4)]]

-----------------------------------------------------------------------------
(* What the code is for.  wiifs itself only writes it.                     *)

\* Where two codes of a chunk differ, as the sets of binary places of a0 and a1.
Differing(old, new, v) ==
    Differ(old[1 + 2 * v], new[1 + 2 * v]) \cup
    {k + 8 : k \in Differ(old[2 + 2 * v], new[2 + 2 * v])}

\* The codes differ as they do when the bit of this number is wrong: in a1 at the
\* ones of the number, in a0 at its zeros.
Locates(old, new, n) ==
    /\ Differing(old, new, 1) = {j \in BitPlaces : BitOf(n, j) = 1}
    /\ Differing(old, new, 0) = {j \in BitPlaces : BitOf(n, j) = 0}
=============================================================================
