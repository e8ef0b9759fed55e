----------------------------- MODULE NandProofs -----------------------------
(***************************************************************************)
(* A cluster that was written reads back, and survives one damaged spare   *)
(* byte: for every layout that ImageAssumption allows and every block      *)
(* cipher.                                                                 *)
(***************************************************************************)
EXTENDS NandImage, SequenceTheorems, WellFoundedInduction, TLAPS

ClusterBytes == PAGES_PER_CLUSTER * DATA_BYTES_PER_PAGE

LEMMA Layout ==
    /\ DATA_BYTES_PER_PAGE \in Nat \ {0} /\ PAGES_PER_CLUSTER \in Nat
    /\ SPARE_BYTES_PER_PAGE \in Nat /\ EccOffset <= SPARE_BYTES_PER_PAGE
    /\ PAGE_SIZE \in Nat /\ NumClusters \in Nat
    /\ PAGE_SIZE = DATA_BYTES_PER_PAGE + SPARE_BYTES_PER_PAGE
    /\ ClusterBytes \in Nat
<1>1. ChunkSize \in Nat \ {0}
  BY EccAssumption DEF EccAssumption, ChunkSize
<1>2. EccSize \in Nat
  BY <1>1, ImageAssumption DEF ImageAssumption, EccSize
<1> QED
  BY <1>2, ImageAssumption
  DEF ImageAssumption, SPARE_BYTES_PER_PAGE, PAGE_SIZE, ClusterBytes

LEMMA LayoutOfHmacs ==
    /\ HMAC_PAGE1 \in Pages /\ HMAC_PAGE2 \in Pages /\ HMAC_PAGE1 # HMAC_PAGE2
    /\ HashSize \in Nat /\ HMAC2_SIZE_IN_PAGE1 \in Nat
    /\ HMAC2_SIZE_IN_PAGE2 \in Nat
    /\ HMAC2_SIZE_IN_PAGE1 + HMAC2_SIZE_IN_PAGE2 = HashSize
    /\ HashSize + HMAC2_SIZE_IN_PAGE1 < EccOffset
    /\ HMAC2_SIZE_IN_PAGE2 < EccOffset
BY ImageAssumption
DEF ImageAssumption, HMAC_PAGE1, HMAC_PAGE2, Pages, HMAC2_SIZE_IN_PAGE2

\* The pages of the image follow each other.
LEMMA OffsetIsLinear ==
    ASSUME NEW c \in Nat, NEW p \in Nat
    PROVE  /\ c * PAGES_PER_CLUSTER + p \in Nat
           /\ Offset(c, p) = (c * PAGES_PER_CLUSTER + p) * PAGE_SIZE
           /\ Offset(c, p) \in Nat
<1> DEFINE S == PAGE_SIZE  P == PAGES_PER_CLUSTER
<1>1. S \in Nat /\ P \in Nat
  BY Layout
<1>2. Offset(c, p) = c * P * S + p * S
  BY DEF Offset
<1> HIDE DEF S, P
<1>3. c * P + p \in Nat
  BY <1>1
<1>4. c * P * S + p * S = (c * P + p) * S
  BY <1>1
<1>5. (c * P + p) * S \in Nat
  BY <1>1, <1>3
<1>6. Offset(c, p) = (c * P + p) * S /\ Offset(c, p) \in Nat
  BY <1>2, <1>4, <1>5
<1> QED
  BY <1>3, <1>6 DEF S, P

LEMMA Products ==
    ASSUME NEW S \in Nat, NEW i \in Nat, NEW j \in Nat, i < j
    PROVE  i * S + S <= j * S
OBVIOUS

\* Different pages of clusters have no byte in common.
LEMMA PagesApart ==
    ASSUME NEW c1 \in ImageClusters, NEW p1 \in Pages,
           NEW c2 \in ImageClusters, NEW p2 \in Pages, c1 # c2 \/ p1 # p2
    PROVE  \/ Offset(c1, p1) + PAGE_SIZE <= Offset(c2, p2)
           \/ Offset(c2, p2) + PAGE_SIZE <= Offset(c1, p1)
<1> DEFINE S == PAGE_SIZE  P == PAGES_PER_CLUSTER
           i == c1 * P + p1  j == c2 * P + p2
<1>1. /\ S \in Nat /\ P \in Nat /\ c1 \in Nat /\ c2 \in Nat
      /\ p1 \in 0..(P - 1) /\ p2 \in 0..(P - 1)
  BY Layout DEF ImageClusters, Pages
<1>2. /\ i \in Nat /\ j \in Nat
      /\ Offset(c1, p1) = i * S /\ Offset(c2, p2) = j * S
  BY <1>1, OffsetIsLinear
<1> HIDE DEF S, P
<1>3. i # j
  <2>1. CASE c1 < c2
    <3>1. c1 * P + P <= c2 * P
      BY <1>1, <2>1, Products
    <3> QED  BY <1>1, <3>1
  <2>2. CASE c2 < c1
    <3>1. c2 * P + P <= c1 * P
      BY <1>1, <2>2, Products
    <3> QED  BY <1>1, <3>1
  <2>3. CASE c1 = c2
    BY <1>1, <2>3
  <2> QED
    BY <1>1, <2>1, <2>2, <2>3
<1> HIDE DEF i, j
<1>4. CASE i < j
  <2>1. i * S + S <= j * S
    BY <1>1, <1>2, <1>4, Products
  <2> QED  BY <2>1, <1>2 DEF S
<1>5. CASE j < i
  <2>1. j * S + S <= i * S
    BY <1>1, <1>2, <1>5, Products
  <2> QED  BY <2>1, <1>2 DEF S
<1> QED
  BY <1>2, <1>3, <1>4, <1>5

\* Every page of a cluster is in the image.
LEMMA PageInImage ==
    ASSUME NEW c \in ImageClusters, NEW p \in Pages, NEW k \in 0..(PAGE_SIZE - 1)
    PROVE  Offset(c, p) + k \in Image
<1> DEFINE S == PAGE_SIZE  P == PAGES_PER_CLUSTER
           i == c * P + p  j == NumClusters * P + 0
<1>1. /\ S \in Nat /\ P \in Nat /\ c \in Nat /\ NumClusters \in Nat
      /\ c < NumClusters /\ p \in 0..(P - 1) /\ k \in 0..(S - 1)
  BY Layout DEF ImageClusters, Pages
<1>2. /\ i \in Nat /\ j \in Nat
      /\ Offset(c, p) = i * S /\ Offset(NumClusters, 0) = j * S
  BY <1>1, OffsetIsLinear
<1> HIDE DEF S, P
<1>3. i < j
  <2>1. c * P + P <= NumClusters * P
    BY <1>1, Products
  <2> QED  BY <1>1, <2>1
<1> HIDE DEF i, j
<1>4. i * S + S <= j * S
  BY <1>1, <1>2, <1>3, Products
<1> QED
  BY <1>1, <1>2, <1>4 DEF Image

\* Where a byte of a cluster is.
LEMMA ByteOfCluster ==
    ASSUME NEW k \in 1..ClusterBytes
    PROVE  LET D == DATA_BYTES_PER_PAGE
               p == (k - 1) \div D
               r == (k - 1) % D
           IN  p \in Pages /\ r \in 0..(D - 1) /\ k - 1 = p * D + r
<1> DEFINE D == DATA_BYTES_PER_PAGE
           P == PAGES_PER_CLUSTER
           p == (k - 1) \div D
           r == (k - 1) % D
<1>1. D \in Nat \ {0} /\ P \in Nat /\ k \in Nat /\ k >= 1 /\ k <= P * D
  BY Layout DEF ClusterBytes
<1>2. k - 1 \in Nat
  BY <1>1
<1> HIDE DEF D, P
<1>3. p \in Nat /\ r \in 0..(D - 1) /\ k - 1 = D * p + r
  BY <1>1, <1>2, SMT
<1> HIDE DEF p, r
<1>4. k - 1 = p * D + r
  BY <1>1, <1>3
<1>5. p < P
  <2> SUFFICES ASSUME ~(p < P) PROVE FALSE
    OBVIOUS
  <2>1. P * D <= p * D
    <3>1. CASE P = p
      <4>1. P * D \in Nat
        BY <1>1
      <4> QED  BY <3>1, <4>1
    <3>2. CASE P < p
      <4>1. P * D + D <= p * D
        BY <1>1, <1>3, <3>2, Products
      <4>2. P * D \in Nat /\ p * D \in Nat
        BY <1>1, <1>3
      <4> QED  BY <4>1, <4>2, <1>1
    <3> QED  BY <1>1, <1>3, <3>1, <3>2
  <2>2. P * D \in Nat /\ p * D \in Nat
    BY <1>1, <1>3
  <2> QED
    BY <1>1, <1>3, <1>4, <2>1, <2>2
<1>6. p \in Pages
  BY <1>1, <1>3, <1>5 DEF Pages, P
<1> QED
  BY <1>3, <1>4, <1>6 DEF D, p, r

-----------------------------------------------------------------------------
(* CBC.                                                                    *)

LEMMA NatLeast ==
    ASSUME NEW S \in SUBSET Nat, S # {}
    PROVE  \E i \in S : \A j \in S : i <= j
<1>1. PICK i \in S : \A j \in S : ~(<<j, i>> \in OpToRel(<, Nat))
  BY NatLessThanWellFounded, WFMin
<1>2. ASSUME NEW j \in S PROVE i <= j
  <2>1. i \in Nat /\ j \in Nat
    OBVIOUS
  <2>2. ~(j < i)
    BY <1>1, <2>1 DEF OpToRel
  <2> QED
    BY <2>1, <2>2
<1> QED
  BY <1>2

LEMMA DifferIsByte ==
    ASSUME NEW x \in Byte, NEW y \in Byte
    PROVE  /\ Differ(x, y) \in Byte
           /\ Differ(Differ(x, y), y) = x
BY DEF Byte, Differ

\* Block k that follows block b.
Chain(source, k, b) == BlockCipher[Differ(source[k], b)]

\* g are the blocks of CBC, up to the one with number m.
Chained(g, iv, source, m) ==
    g[0] = iv /\ \A k \in 1..m : g[k] = Chain(source, k, g[k - 1])

LEMMA ChainIsByte ==
    ASSUME NEW n \in Nat, NEW source \in [1..n -> Byte], NEW k \in 1..n,
           NEW b \in Byte
    PROVE  Chain(source, k, b) \in Byte
<1>1. source[k] \in Byte
  OBVIOUS
<1>2. Differ(source[k], b) \in Byte
  BY <1>1, DifferIsByte
<1>3. BlockCipher \in [Byte -> Byte]
  BY ImageAssumption DEF ImageAssumption
<1> QED
  BY <1>2, <1>3 DEF Chain

LEMMA ChainedExists ==
    ASSUME NEW iv \in Byte, NEW n \in Nat, NEW source \in [1..n -> Byte]
    PROVE  \E g \in [Nat -> Byte] : Chained(g, iv, source, n)
<1> DEFINE OK(m) == \E g \in [Nat -> Byte] : Chained(g, iv, source, m)
           bad == {m \in 0..n : ~OK(m)}
<1>1. OK(0)
  <2>1. [k \in Nat |-> iv] \in [Nat -> Byte]
    OBVIOUS
  <2>2. Chained([k \in Nat |-> iv], iv, source, 0)
    BY DEF Chained
  <2> QED  BY <2>1, <2>2
<1>2. SUFFICES ASSUME bad # {} PROVE FALSE
  <2>1. n \in 0..n
    OBVIOUS
  <2> QED  BY <2>1
<1>3. PICK m \in bad : \A j \in bad : m <= j
  <2>1. bad \in SUBSET Nat
    OBVIOUS
  <2> HIDE DEF bad
  <2> QED  BY <1>2, <2>1, NatLeast
<1>4. m \in 1..n /\ m - 1 \in 0..n /\ ~OK(m)
  BY <1>1, <1>3
<1>5. OK(m - 1)
  BY <1>3, <1>4
<1>6. PICK g \in [Nat -> Byte] : Chained(g, iv, source, m - 1)
  BY <1>5
<1> DEFINE b == Chain(source, m, g[m - 1])
           h == [k \in Nat |-> IF k = m THEN b ELSE g[k]]
<1>7. b \in Byte
  <2>1. g[m - 1] \in Byte
    BY <1>4
  <2> QED  BY <1>4, <2>1, ChainIsByte
<1> HIDE DEF b, bad
<1>8. h \in [Nat -> Byte]
  BY <1>7
<1>9. h[0] = iv
  BY <1>4, <1>6 DEF Chained
<1>10. ASSUME NEW k \in 1..m PROVE h[k] = Chain(source, k, h[k - 1])
  <2>1. k \in Nat /\ k - 1 \in Nat /\ k - 1 # m
    BY <1>4
  <2>2. h[k - 1] = g[k - 1]
    BY <2>1
  <2>3. CASE k = m
    BY <2>1, <2>2, <2>3 DEF b
  <2>4. CASE k # m
    <3>1. k \in 1..(m - 1)
      BY <1>4, <2>4
    <3>2. h[k] = g[k]
      BY <2>1, <2>4
    <3> QED  BY <1>6, <2>2, <3>1, <3>2 DEF Chained
  <2> QED  BY <2>3, <2>4
<1>11. Chained(h, iv, source, m)
  BY <1>9, <1>10 DEF Chained
<1> QED
  BY <1>4, <1>8, <1>11

\* Each block that is stored hides the next one.
LEMMA Encrypted ==
    ASSUME NEW iv \in Byte, NEW n \in Nat, NEW source \in [1..n -> Byte],
           NEW out, out = AesEncrypt(iv, source)
    PROVE  /\ out \in [1..n -> Byte]
           /\ \A k \in 1..n :
                 out[k] = Chain(source, k, IF k = 1 THEN iv ELSE out[k - 1])
<1> DEFINE rec == CHOOSE g : g = [k \in 0..n |->
                      IF k = 0 THEN iv ELSE Chain(source, k, g[k - 1])]
<1>1. Len(source) = n /\ DOMAIN source = 1..n
  <2>1. source \in Seq(Byte)
    OBVIOUS
  <2> QED  BY <2>1
<1>2. out = [k \in 1..n |-> rec[k]]
  BY <1>1 DEF AesEncrypt, Chain
<1>3. PICK g \in [Nat -> Byte] : Chained(g, iv, source, n)
  BY ChainedExists
<1> DEFINE f == [k \in 0..n |-> g[k]]
<1>4. f = [k \in 0..n |-> IF k = 0 THEN iv ELSE Chain(source, k, f[k - 1])]
  <2>1. ASSUME NEW k \in 0..n
        PROVE  f[k] = IF k = 0 THEN iv ELSE Chain(source, k, f[k - 1])
    <3>1. CASE k = 0
      BY <1>3, <3>1 DEF Chained
    <3>2. CASE k # 0
      <4>1. k \in 1..n /\ k - 1 \in 0..n
        BY <3>2
      <4>2. f[k] = g[k] /\ f[k - 1] = g[k - 1]
        BY <4>1
      <4> QED  BY <1>3, <3>2, <4>1, <4>2 DEF Chained
    <3> QED  BY <3>1, <3>2
  <2> HIDE DEF f
  <2>2. f = [k \in 0..n |-> f[k]]
    BY DEF f
  <2> QED  BY <2>1, <2>2, Zenon
<1>5. rec = [k \in 0..n |-> IF k = 0 THEN iv ELSE Chain(source, k, rec[k - 1])]
  <2> HIDE DEF f
  <2> QED  BY <1>4, Zenon
<1> HIDE DEF rec
<1>6. rec[0] = iv /\ \A k \in 1..n : rec[k] = Chain(source, k, rec[k - 1])
  <2>1. \A k \in 0..n : rec[k] = IF k = 0 THEN iv ELSE Chain(source, k, rec[k - 1])
    BY <1>5, Zenon
  <2> QED  BY <2>1
<1>7. \A k \in 0..n : rec[k] \in Byte
  <2> DEFINE bad == {k \in 0..n : rec[k] \notin Byte}
  <2> SUFFICES ASSUME bad # {} PROVE FALSE
    OBVIOUS
  <2>1. PICK m \in bad : \A j \in bad : m <= j
    <3>1. bad \in SUBSET Nat
      OBVIOUS
    <3> HIDE DEF bad
    <3> QED  BY <3>1, NatLeast
  <2>2. m \in 1..n /\ m - 1 \in 0..n /\ rec[m] \notin Byte
    BY <1>6, <2>1
  <2>3. rec[m - 1] \in Byte
    BY <2>1, <2>2
  <2> QED  BY <1>6, <2>2, <2>3, ChainIsByte
<1>8. out \in [1..n -> Byte]
  BY <1>2, <1>7
<1>9. ASSUME NEW k \in 1..n
      PROVE  out[k] = Chain(source, k, IF k = 1 THEN iv ELSE out[k - 1])
  <2>1. out[k] = Chain(source, k, rec[k - 1])
    BY <1>2, <1>6
  <2>2. CASE k = 1
    BY <1>6, <2>1, <2>2
  <2>3. CASE k # 1
    <3>1. k - 1 \in 1..n
      BY <2>3
    <3>2. out[k - 1] = rec[k - 1]
      BY <1>2, <3>1
    <3> QED  BY <2>1, <2>3, <3>2
  <2> QED  BY <2>2, <2>3
<1> QED
  BY <1>8, <1>9

\* A block is found again from what it is mapped to.
LEMMA Deciphered ==
    ASSUME NEW x \in Byte
    PROVE  Decipher[BlockCipher[x]] = x
<1>1. BlockCipher \in [Byte -> Byte] /\ IsInjective(BlockCipher)
  BY ImageAssumption DEF ImageAssumption
<1>2. \A y \in Byte : BlockCipher[y] = BlockCipher[x] => y = x
  BY <1>1 DEF IsInjective
<1>3. BlockCipher[x] \in Byte
  BY <1>1
<1> DEFINE y == CHOOSE y \in Byte : BlockCipher[y] = BlockCipher[x]
<1>4. y \in Byte /\ BlockCipher[y] = BlockCipher[x]
  OBVIOUS
<1>5. Decipher[BlockCipher[x]] = y
  BY <1>3 DEF Decipher
<1> QED
  BY <1>2, <1>4, <1>5

\* What was encrypted is decrypted.
LEMMA Decrypted ==
    ASSUME NEW iv \in Byte, NEW n \in Nat, NEW source \in [1..n -> Byte]
    PROVE  AesDecrypt(iv, AesEncrypt(iv, source)) = source
<1> DEFINE out == AesEncrypt(iv, source)
<1>1. /\ out \in [1..n -> Byte]
      /\ \A k \in 1..n :
            out[k] = Chain(source, k, IF k = 1 THEN iv ELSE out[k - 1])
  BY Encrypted
<1> HIDE DEF out
<1>2. ASSUME NEW k \in 1..n
      PROVE  Differ(Decipher[out[k]], IF k = 1 THEN iv ELSE out[k - 1]) = source[k]
  <2> DEFINE b == IF k = 1 THEN iv ELSE out[k - 1]
  <2>1. b \in Byte
    <3>1. k # 1 => k - 1 \in 1..n
      OBVIOUS
    <3> QED  BY <1>1, <3>1
  <2>2. out[k] = BlockCipher[Differ(source[k], b)]
    BY <1>1 DEF Chain
  <2> HIDE DEF b
  <2>3. source[k] \in Byte
    OBVIOUS
  <2>4. /\ Differ(source[k], b) \in Byte
        /\ Differ(Differ(source[k], b), b) = source[k]
    BY <2>1, <2>3, DifferIsByte
  <2>5. Decipher[out[k]] = Differ(source[k], b)
    BY <2>2, <2>4, Deciphered
  <2> QED  BY <2>4, <2>5 DEF b
<1>3. AesDecrypt(iv, out) = [k \in 1..n |-> source[k]]
  BY <1>1, <1>2 DEF AesDecrypt
<1> QED
  BY <1>3 DEF out

-----------------------------------------------------------------------------
(* Pages.                                                                  *)

\* What is in the cluster when data have been written to it.
Stored(cluster, data) ==
    IF cluster >= SUPERBLOCK_START_CLUSTER THEN data
                                           ELSE AesEncrypt(ZeroBlock, data)

\* The iv with which a page is encrypted.
IvOf(cluster, data, page) ==
    IF page = 0 \/ cluster >= SUPERBLOCK_START_CLUSTER THEN ZeroBlock
    ELSE Stored(cluster, data)[page * DATA_BYTES_PER_PAGE]

LEMMA ContentsAreBytes ==
    ASSUME NEW data \in Contents
    PROVE  data \in [1..ClusterBytes -> Byte]
BY ImageAssumption DEF ImageAssumption, ClusterBytes

LEMMA ZeroBlockIsByte == ZeroBlock \in Byte
BY DEF ZeroBlock, Byte

LEMMA StoredIsBytes ==
    ASSUME NEW c, NEW data \in Contents
    PROVE  Stored(c, data) \in [1..ClusterBytes -> Byte]
<1>1. AesEncrypt(ZeroBlock, data) \in [1..ClusterBytes -> Byte]
  BY ContentsAreBytes, ZeroBlockIsByte, Encrypted, Layout
<1> QED
  BY <1>1, ContentsAreBytes DEF Stored

LEMMA BytesOfPage ==
    ASSUME NEW p \in Pages, NEW k \in 1..DATA_BYTES_PER_PAGE
    PROVE  LET D == DATA_BYTES_PER_PAGE
           IN  /\ p * D \in Nat /\ p * D + k \in 1..ClusterBytes
               /\ p * D + D \in 1..ClusterBytes
               /\ (p + 1) * D = p * D + D
               /\ p # 0 => p * D \in 1..ClusterBytes
<1> DEFINE D == DATA_BYTES_PER_PAGE  P == PAGES_PER_CLUSTER
<1>1. D \in Nat \ {0} /\ P \in Nat /\ p \in 0..(P - 1) /\ ClusterBytes = P * D
  BY Layout DEF Pages, ClusterBytes
<1>2. k \in 1..D
  OBVIOUS
<1> HIDE DEF D, P
<1>3. p * D + D <= P * D
  BY <1>1, Products
<1>4. p * D \in Nat /\ P * D \in Nat /\ (p + 1) * D = p * D + D
  BY <1>1
<1>5. p # 0 => p * D >= D
  <2> SUFFICES ASSUME p # 0 PROVE p * D >= D
    OBVIOUS
  <2>1. 0 * D + D <= p * D
    BY <1>1, Products
  <2> QED  BY <1>1, <2>1
<1>6. /\ p * D \in Nat /\ p * D + k \in 1..(P * D) /\ p * D + D \in 1..(P * D)
      /\ (p + 1) * D = p * D + D /\ (p # 0 => p * D \in 1..(P * D))
  <2> DEFINE x == p * D  y == P * D
  <2>1. x \in Nat /\ y \in Nat /\ x + D <= y /\ (p # 0 => x >= D)
    BY <1>3, <1>4, <1>5
  <2> HIDE DEF x, y
  <2>2. x + k \in 1..y /\ x + D \in 1..y /\ (p # 0 => x \in 1..y)
    BY <1>1, <1>2, <2>1
  <2> QED  BY <1>4, <2>2 DEF x, y
<1> QED
  BY <1>1, <1>6 DEF D

LEMMA PageOfIs ==
    ASSUME NEW data \in Contents, NEW p \in Pages
    PROVE  /\ PageOf(data, p) \in [1..DATA_BYTES_PER_PAGE -> Byte]
           /\ \A k \in 1..DATA_BYTES_PER_PAGE :
                 PageOf(data, p)[k] = data[p * DATA_BYTES_PER_PAGE + k]
<1> DEFINE D == DATA_BYTES_PER_PAGE
           m == p * D + 1  n == (p + 1) * D
           page == SubSeq(data, m, n)
<1>1. data \in Seq(Byte) /\ Len(data) = ClusterBytes /\ ClusterBytes \in Nat
  BY ContentsAreBytes, Layout
<1>2. /\ D \in Nat \ {0} /\ m \in 1..Len(data) + 1 /\ n \in (m - 1)..Len(data)
      /\ n - m + 1 = D
  <2>1. D \in Nat \ {0} /\ D \in 1..D
    BY Layout
  <2>2. /\ p * D \in Nat /\ p * D + D \in 1..ClusterBytes
        /\ (p + 1) * D = p * D + D
    BY <2>1, BytesOfPage
  <2> QED  BY <1>1, <2>1, <2>2
<1> HIDE DEF m, n, D
<1>3. /\ page \in Seq(Byte) /\ Len(page) = D
      /\ \A k \in 1..D : page[k] = data[m + k - 1]
  BY <1>1, <1>2, SubSeqProperties
<1>4. page = PageOf(data, p)
  BY DEF PageOf, m, n, D
<1> HIDE DEF page
<1>5. page \in [1..D -> Byte]
  BY <1>3
<1>6. ASSUME NEW k \in 1..D PROVE page[k] = data[p * D + k]
  <2>1. p * D \in Nat
    BY BytesOfPage DEF D
  <2>2. m + k - 1 = p * D + k
    BY <1>2, <2>1 DEF m
  <2> QED  BY <1>3, <2>2
<1> QED
  BY <1>4, <1>5, <1>6 DEF D

\* Encrypting page by page, with the last block of a page as the iv of the next
\* one, is encrypting the whole.
LEMMA PageIsStored ==
    ASSUME NEW c, NEW data \in Contents, NEW p \in Pages,
           NEW page, page = StoredPage(c, IvOf(c, data, p), PageOf(data, p))
    PROVE  /\ page \in [1..DATA_BYTES_PER_PAGE -> Byte]
           /\ \A k \in 1..DATA_BYTES_PER_PAGE :
                 page[k] = Stored(c, data)[p * DATA_BYTES_PER_PAGE + k]
<1> DEFINE D == DATA_BYTES_PER_PAGE
           source == PageOf(data, p)
           iv == IvOf(c, data, p)
           whole == Stored(c, data)
<1>1. D \in Nat \ {0}
  BY Layout
<1>2. source \in [1..D -> Byte] /\ \A k \in 1..D : source[k] = data[p * D + k]
  BY PageOfIs
<1>3. whole \in [1..ClusterBytes -> Byte]
  BY StoredIsBytes
<1>4. ASSUME NEW k \in 1..D
      PROVE  /\ p * D \in Nat /\ p * D + k \in 1..ClusterBytes
             /\ p # 0 => p * D \in 1..ClusterBytes
             /\ p \in Nat
  BY BytesOfPage DEF Pages
<1>5. CASE c >= SUPERBLOCK_START_CLUSTER
  BY <1>2, <1>5 DEF StoredPage, Stored
<1>6. CASE ~(c >= SUPERBLOCK_START_CLUSTER)
  <2>1. page = AesEncrypt(iv, source)
    BY <1>6 DEF StoredPage
  <2>2. whole = AesEncrypt(ZeroBlock, data)
    BY <1>6 DEF Stored
  <2>3. iv = IF p = 0 THEN ZeroBlock ELSE whole[p * D]
    BY <1>6 DEF IvOf
  <2>4. iv \in Byte
    <3>1. 1 \in 1..D
      BY <1>1
    <3>2. p # 0 => p * D \in 1..ClusterBytes
      BY <1>4, <3>1
    <3> QED  BY <1>3, <2>3, <3>2, ZeroBlockIsByte
  <2> HIDE DEF iv, source, whole, D
  <2>5. /\ page \in [1..D -> Byte]
        /\ \A k \in 1..D :
              page[k] = Chain(source, k, IF k = 1 THEN iv ELSE page[k - 1])
    BY <1>1, <1>2, <2>1, <2>4, Encrypted
  <2>6. \A k \in 1..ClusterBytes :
            whole[k] = Chain(data, k, IF k = 1 THEN ZeroBlock ELSE whole[k - 1])
    BY <2>2, ContentsAreBytes, ZeroBlockIsByte, Encrypted, Layout
  <2>7. ASSUME NEW k \in 1..D, k = 1 \/ page[k - 1] = whole[p * D + (k - 1)]
        PROVE  page[k] = whole[p * D + k]
    <3> DEFINE before == IF k = 1 THEN iv ELSE page[k - 1]
               at == p * D + k
    <3>1. p * D \in Nat /\ at \in 1..ClusterBytes /\ p \in Nat
      BY <1>4
    <3>2. before = IF at = 1 THEN ZeroBlock ELSE whole[at - 1]
      <4>1. CASE k # 1
        <5>1. at # 1 /\ at - 1 = p * D + (k - 1)
          BY <1>1, <3>1, <4>1
        <5> QED  BY <2>7, <4>1, <5>1
      <4>2. CASE k = 1 /\ p = 0
        <5>1. 0 * D = 0
          BY <1>1
        <5>2. at = 1
          BY <4>2, <5>1
        <5> QED  BY <2>3, <4>2, <5>2
      <4>3. CASE k = 1 /\ p # 0
        <5>1. p * D \in 1..ClusterBytes
          BY <1>4, <4>3
        <5>2. at # 1 /\ at - 1 = p * D
          BY <3>1, <4>3, <5>1
        <5> QED  BY <2>3, <4>3, <5>2
      <4> QED  BY <4>1, <4>2, <4>3
    <3>3. source[k] = data[at]
      BY <1>2
    <3>4. page[k] = BlockCipher[Differ(source[k], before)]
      BY <2>5 DEF Chain
    <3>5. whole[at] = BlockCipher[Differ(data[at], IF at = 1 THEN ZeroBlock
                                                    ELSE whole[at - 1])]
      BY <2>6, <3>1 DEF Chain
    <3> QED  BY <3>2, <3>3, <3>4, <3>5
  <2>8. \A k \in 1..D : page[k] = whole[p * D + k]
    <3> DEFINE bad == {k \in 1..D : page[k] # whole[p * D + k]}
    <3> SUFFICES ASSUME bad # {} PROVE FALSE
      OBVIOUS
    <3>1. PICK m \in bad : \A j \in bad : m <= j
      <4>1. bad \in SUBSET Nat
        OBVIOUS
      <4> HIDE DEF bad
      <4> QED  BY <4>1, NatLeast
    <3>2. m \in 1..D /\ page[m] # whole[p * D + m]
      BY <3>1
    <3>3. m = 1 \/ page[m - 1] = whole[p * D + (m - 1)]
      <4>1. CASE m # 1
        <5>1. m - 1 \in 1..D /\ m - 1 < m
          BY <3>2, <4>1, <1>1
        <5> QED  BY <3>1, <5>1
      <4> QED  BY <4>1
    <3> QED  BY <2>7, <3>2, <3>3
  <2> QED  BY <2>5, <2>8 DEF D, whole
<1> QED
  BY <1>5, <1>6

\* The iv that WriteCluster carries from page to page.
LEMMA IvIsCarried ==
    ASSUME NEW c, NEW data \in Contents, NEW p \in Pages, p + 1 \in Pages,
           NEW page, page = StoredPage(c, IvOf(c, data, p), PageOf(data, p))
    PROVE  NextIv(c, page) = IvOf(c, data, p + 1)
<1> DEFINE D == DATA_BYTES_PER_PAGE
<1>1. D \in Nat \ {0} /\ p \in Nat /\ p + 1 # 0
  BY Layout DEF Pages
<1>2. page \in [1..D -> Byte]
  BY PageIsStored
<1>6. \A k \in 1..D : page[k] = Stored(c, data)[p * D + k]
  BY PageIsStored
<1>3. Len(page) = D
  <2>1. page \in Seq(Byte)
    BY <1>1, <1>2
  <2> QED  BY <1>1, <1>2, <2>1
<1>4. Last(page) = Stored(c, data)[p * D + D]
  BY <1>1, <1>6, <1>3 DEF Last
<1>5. (p + 1) * D = p * D + D
  <2>1. D \in 1..D
    BY <1>1
  <2> QED  BY <2>1, BytesOfPage
<1> QED
  BY <1>1, <1>4, <1>5 DEF NextIv, IvOf

-----------------------------------------------------------------------------
(* The invariant.                                                          *)

Rounds == [cluster : ImageClusters, page : Pages, iv : Byte,
           data : Contents, salt : Salts]

Writes == [data : Contents, salt : Salts, damaged : {0, 1}]

\* The data are in the page.
DataHold(img, c, p, data) == \A k \in 1..DATA_BYTES_PER_PAGE :
    img[Offset(c, p) + k - 1] = Stored(c, data)[p * DATA_BYTES_PER_PAGE + k]

\* The bytes of a spare area that hold a byte of a HMAC, and which one.
HmacPlaces(p) ==
    IF p = HMAC_PAGE1 THEN 1..(HashSize + HMAC2_SIZE_IN_PAGE1)
    ELSE IF p = HMAC_PAGE2 THEN 1..HMAC2_SIZE_IN_PAGE2
    ELSE {}

HmacByte(p, k) ==
    IF p = HMAC_PAGE2 THEN HMAC2_SIZE_IN_PAGE1 + k
    ELSE IF k <= HashSize THEN k ELSE k - HashSize

\* They are in the page, except for byte badByte of page badPage.
HmacsHold(img, c, p, hmac, badPage, badByte) == \A k \in HmacPlaces(p) :
    ~(p = badPage /\ k = badByte) =>
        img[SpareOffset(c, p) + k] = hmac[HmacByte(p, k)]

\* No HMAC has a byte with number 0.
PageHolds(img, c, p, data, salt) ==
    /\ DataHold(img, c, p, data)
    /\ HmacsHold(img, c, p, GenerateHmac(salt, data), 0, 0)

ClusterHolds(img, c, w) == \E badPage \in Pages, badByte \in 0..EccOffset :
    /\ w.damaged = 0 => badByte = 0
    /\ \A p \in Pages :
          /\ DataHold(img, c, p, w.data)
          /\ HmacsHold(img, c, p, GenerateHmac(w.salt, w.data), badPage, badByte)

ImageIsBytes == image = [o \in Image |-> image[o]]

\* The pages behind the running WriteCluster are as they will be.
WritingHolds == writing # NotWriting =>
    /\ writing \in Rounds
    /\ written[writing.cluster] = Nothing
    /\ writing.iv = IvOf(writing.cluster, writing.data, writing.page)
    /\ \A p \in 0..(writing.page - 1) :
          PageHolds(image, writing.cluster, p, writing.data, writing.salt)

WrittenHolds == \A c \in ImageClusters :
    written[c] # Nothing => ClusterHolds(image, c, written[c])

ImageInv ==
    /\ ImageIsBytes
    /\ written \in [ImageClusters -> Writes \cup {Nothing}]
    /\ WritingHolds
    /\ WrittenHolds

-----------------------------------------------------------------------------
(* What a copy to a page changes.                                          *)

Copied(img, cluster, page, stored, spare) ==
    LET at == Offset(cluster, page)
    IN  [o \in Image |->
            IF Within(o, at, DATA_BYTES_PER_PAGE) THEN stored[1 + o - at]
            ELSE IF Within(o, SpareOffset(cluster, page), SPARE_BYTES_PER_PAGE)
            THEN spare[o - SpareOffset(cluster, page)]
            ELSE img[o]]

LEMMA OffsetsAreNumbers ==
    ASSUME NEW c \in ImageClusters, NEW p \in Pages
    PROVE  /\ Offset(c, p) \in Nat /\ SpareOffset(c, p) \in Nat
           /\ SpareOffset(c, p) = Offset(c, p) + DATA_BYTES_PER_PAGE
<1>1. c \in Nat /\ p \in Nat
  BY Layout DEF ImageClusters, Pages
<1>2. Offset(c, p) \in Nat
  BY <1>1, OffsetIsLinear
<1> QED
  BY <1>2, Layout DEF SpareOffset

\* What was copied is in the page.
Puts(new, c, p, stored, spare) ==
    /\ \A k \in 1..DATA_BYTES_PER_PAGE : new[Offset(c, p) + k - 1] = stored[k]
    /\ \A k \in 0..(SPARE_BYTES_PER_PAGE - 1) :
          new[SpareOffset(c, p) + k] = spare[k]

LEMMA CopyPuts ==
    ASSUME NEW img, NEW c \in ImageClusters, NEW p \in Pages,
           NEW stored, NEW spare,
           NEW new, new = Copied(img, c, p, stored, spare)
    PROVE  Puts(new, c, p, stored, spare)
<1> DEFINE D == DATA_BYTES_PER_PAGE  S == SPARE_BYTES_PER_PAGE
           at == Offset(c, p)  sp == SpareOffset(c, p)
<1>1. D \in Nat \ {0} /\ S \in Nat /\ PAGE_SIZE = D + S
  BY Layout
<1>2. at \in Nat /\ sp = at + D
  BY OffsetsAreNumbers
<1>3. \A o \in Image :
        new[o] = IF Within(o, at, D) THEN stored[1 + o - at]
                 ELSE IF Within(o, sp, S) THEN spare[o - sp] ELSE img[o]
  BY Zenon DEF Copied
<1>4. \A k \in 0..(PAGE_SIZE - 1) : at + k \in Image
  BY PageInImage
<1> HIDE DEF at, sp, D, S
<1>5. ASSUME NEW k \in 1..D PROVE new[at + k - 1] = stored[k]
  <2>1. k - 1 \in 0..(PAGE_SIZE - 1) /\ at + (k - 1) = at + k - 1
    BY <1>1, <1>2
  <2>2. at + k - 1 \in Image
    BY <1>4, <2>1
  <2>3. Within(at + k - 1, at, D) /\ 1 + (at + k - 1) - at = k
    BY <1>1, <1>2 DEF Within
  <2> QED  BY <1>3, <2>2, <2>3
<1>6. ASSUME NEW k \in 0..(S - 1) PROVE new[sp + k] = spare[k]
  <2>1. D + k \in 0..(PAGE_SIZE - 1) /\ at + (D + k) = sp + k
    BY <1>1, <1>2
  <2>2. sp + k \in Image
    BY <1>4, <2>1
  <2>3. ~Within(sp + k, at, D) /\ Within(sp + k, sp, S) /\ (sp + k) - sp = k
    BY <1>1, <1>2 DEF Within
  <2> QED  BY <1>3, <2>2, <2>3
<1> QED
  BY <1>5, <1>6 DEF at, sp, D, S, Puts

\* Two images agree on a page.
SamePage(old, new, c, p) ==
    \A k \in 0..(PAGE_SIZE - 1) : new[Offset(c, p) + k] = old[Offset(c, p) + k]

LEMMA CopyLeaves ==
    ASSUME NEW img, NEW c \in ImageClusters, NEW p \in Pages,
           NEW stored, NEW spare,
           NEW new, new = Copied(img, c, p, stored, spare),
           NEW c2 \in ImageClusters, NEW p2 \in Pages, c2 # c \/ p2 # p
    PROVE  SamePage(img, new, c2, p2)
<1> DEFINE D == DATA_BYTES_PER_PAGE  S == SPARE_BYTES_PER_PAGE
           at == Offset(c, p)  sp == SpareOffset(c, p)  at2 == Offset(c2, p2)
<1>1. D \in Nat \ {0} /\ S \in Nat /\ PAGE_SIZE = D + S
  BY Layout
<1>2. at \in Nat /\ sp = at + D /\ at2 \in Nat
  BY OffsetsAreNumbers
<1>3. \A o \in Image :
        new[o] = IF Within(o, at, D) THEN stored[1 + o - at]
                 ELSE IF Within(o, sp, S) THEN spare[o - sp] ELSE img[o]
  BY Zenon DEF Copied
<1>4. \A k \in 0..(PAGE_SIZE - 1) : at2 + k \in Image
  BY PageInImage
<1>5. at + PAGE_SIZE <= at2 \/ at2 + PAGE_SIZE <= at
  BY PagesApart
<1> HIDE DEF at, sp, at2, D, S
<1>6. ASSUME NEW k \in 0..(PAGE_SIZE - 1) PROVE new[at2 + k] = img[at2 + k]
  <2>1. ~Within(at2 + k, at, D) /\ ~Within(at2 + k, sp, S)
    BY <1>1, <1>2, <1>5 DEF Within
  <2> QED  BY <1>3, <1>4, <2>1
<1> QED
  BY <1>6 DEF SamePage, at2

\* The HMACs are in the spare areas that are written.
LEMMA SpareHasHmac ==
    ASSUME NEW p \in Pages, NEW source, NEW stored, NEW hmac,
           NEW spare, spare = Spare(p, source, stored, hmac),
           NEW k \in HmacPlaces(p)
    PROVE  /\ k \in 0..(SPARE_BYTES_PER_PAGE - 1) /\ k \in 1..(EccOffset - 1)
           /\ spare[k] = hmac[HmacByte(p, k)]
<1> USE LayoutOfHmacs, Layout
<1>1. EccOffset \in Nat
  BY ImageAssumption DEF ImageAssumption
<1>2. k \in Nat /\ k >= 1 /\ k < EccOffset /\ k \in 0..(SPARE_BYTES_PER_PAGE - 1)
  BY <1>1 DEF HmacPlaces
<1>3. spare[k] =
        IF p = HMAC_PAGE1 /\ Within(k, HMAC2_OFFSET_IN_PAGE1, HMAC2_SIZE_IN_PAGE1)
        THEN hmac[1 + k - HMAC2_OFFSET_IN_PAGE1]
        ELSE IF p = HMAC_PAGE1 /\ Within(k, HMAC1_OFFSET_IN_PAGE1, HashSize)
        THEN hmac[1 + k - HMAC1_OFFSET_IN_PAGE1]
        ELSE IF p = HMAC_PAGE2
                /\ Within(k, HMAC2_OFFSET_IN_PAGE2, HMAC2_SIZE_IN_PAGE2)
        THEN hmac[1 + HMAC2_SIZE_IN_PAGE1 + k - HMAC2_OFFSET_IN_PAGE2]
        ELSE IF k >= EccOffset THEN Calculate(stored)[1 + k - EccOffset]
        ELSE IF k = 0 THEN Ff ELSE Zero
  BY <1>2 DEF Spare
<1> USE DEF HMAC1_OFFSET_IN_PAGE1, HMAC2_OFFSET_IN_PAGE1, HMAC2_OFFSET_IN_PAGE2,
            Within
<1>4. CASE p = HMAC_PAGE1
  <2>1. k <= HashSize + HMAC2_SIZE_IN_PAGE1
    BY <1>4 DEF HmacPlaces
  <2>2. CASE k <= HashSize
    <3>1. spare[k] = hmac[1 + k - 1]
      BY <1>2, <1>3, <1>4, <2>2
    <3>2. HmacByte(p, k) = k
      BY <1>4, <2>2 DEF HmacByte
    <3> QED  BY <1>2, <1>1, <3>1, <3>2
  <2>3. CASE ~(k <= HashSize)
    <3>1. spare[k] = hmac[1 + k - (1 + HashSize)]
      BY <1>2, <1>3, <1>4, <2>1, <2>3
    <3>2. HmacByte(p, k) = k - HashSize
      BY <1>4, <2>3 DEF HmacByte
    <3> QED  BY <1>2, <1>1, <3>1, <3>2
  <2> QED  BY <2>2, <2>3
<1>5. CASE p = HMAC_PAGE2
  <2>1. k <= HMAC2_SIZE_IN_PAGE2
    BY <1>5 DEF HmacPlaces
  <2>2. spare[k] = hmac[1 + HMAC2_SIZE_IN_PAGE1 + k - 1]
    BY <1>2, <1>3, <1>5, <2>1
  <2>3. HmacByte(p, k) = HMAC2_SIZE_IN_PAGE1 + k
    BY <1>5 DEF HmacByte
  <2> QED  BY <1>2, <1>1, <2>2, <2>3
<1> QED
  BY <1>4, <1>5 DEF HmacPlaces

LEMMA PlacesAreSpare ==
    ASSUME NEW p \in Pages, NEW k \in HmacPlaces(p)
    PROVE  k \in 0..(SPARE_BYTES_PER_PAGE - 1) /\ k \in 1..(EccOffset - 1)
<1> DEFINE spare == Spare(p, <<>>, <<>>, <<>>)
<1> HIDE DEF spare
<1> QED
  BY SpareHasHmac DEF spare

\* What is in a page depends on its bytes only.
LEMMA SamePageHolds ==
    ASSUME NEW old, NEW new, NEW c \in ImageClusters, NEW p \in Pages,
           SamePage(old, new, c, p)
    PROVE  /\ \A data : DataHold(old, c, p, data) => DataHold(new, c, p, data)
           /\ \A hmac, badPage, badByte :
                 HmacsHold(old, c, p, hmac, badPage, badByte) =>
                     HmacsHold(new, c, p, hmac, badPage, badByte)
<1> DEFINE D == DATA_BYTES_PER_PAGE  S == SPARE_BYTES_PER_PAGE
           at == Offset(c, p)  sp == SpareOffset(c, p)
<1>1. D \in Nat \ {0} /\ S \in Nat /\ PAGE_SIZE = D + S
  BY Layout
<1>2. at \in Nat /\ sp = at + D
  BY OffsetsAreNumbers
<1>3. \A k \in 0..(PAGE_SIZE - 1) : new[at + k] = old[at + k]
  BY DEF SamePage
<1> HIDE DEF at, sp, D, S
<1>4. ASSUME NEW k \in 1..D PROVE new[at + k - 1] = old[at + k - 1]
  <2>1. k - 1 \in 0..(PAGE_SIZE - 1) /\ at + (k - 1) = at + k - 1
    BY <1>1, <1>2
  <2> QED  BY <1>3, <2>1
<1>5. ASSUME NEW k \in 0..(S - 1) PROVE new[sp + k] = old[sp + k]
  <2>1. D + k \in 0..(PAGE_SIZE - 1) /\ at + (D + k) = sp + k
    BY <1>1, <1>2
  <2> QED  BY <1>3, <2>1
<1>6. \A k \in HmacPlaces(p) : k \in 0..(S - 1)
  BY PlacesAreSpare DEF S
<1>7. ASSUME NEW data, DataHold(old, c, p, data) PROVE DataHold(new, c, p, data)
  BY <1>4, <1>7 DEF DataHold, at, D
<1>8. ASSUME NEW hmac, NEW badPage, NEW badByte,
             HmacsHold(old, c, p, hmac, badPage, badByte)
      PROVE  HmacsHold(new, c, p, hmac, badPage, badByte)
  BY <1>5, <1>6, <1>8 DEF HmacsHold, sp
<1> QED
  BY <1>7, <1>8

\* A cluster that nothing is copied to holds what it held.
LEMMA SameClusterHolds ==
    ASSUME NEW old, NEW new, NEW c \in ImageClusters, NEW w,
           \A p \in Pages : SamePage(old, new, c, p), ClusterHolds(old, c, w)
    PROVE  ClusterHolds(new, c, w)
<1> DEFINE hmac == GenerateHmac(w.salt, w.data)
<1> HIDE DEF hmac
<1>1. PICK badPage \in Pages, badByte \in 0..EccOffset :
        /\ w.damaged = 0 => badByte = 0
        /\ \A p \in Pages : /\ DataHold(old, c, p, w.data)
                            /\ HmacsHold(old, c, p, hmac, badPage, badByte)
  BY Zenon DEF ClusterHolds, hmac
<1>2. ASSUME NEW p \in Pages
      PROVE  /\ DataHold(new, c, p, w.data)
             /\ HmacsHold(new, c, p, hmac, badPage, badByte)
  <2>1. SamePage(old, new, c, p)
    OBVIOUS
  <2> QED  BY <1>1, <2>1, SamePageHolds
<1> QED
  BY <1>1, <1>2, Zenon DEF ClusterHolds, hmac

\* The page that is copied holds what WriteCluster was called with.
LEMMA CopiedPageHolds ==
    ASSUME NEW img, NEW c \in ImageClusters, NEW p \in Pages,
           NEW data \in Contents, NEW salt,
           NEW stored, stored = StoredPage(c, IvOf(c, data, p), PageOf(data, p)),
           NEW spare, spare = Spare(p, PageOf(data, p), stored,
                                    GenerateHmac(salt, data)),
           NEW new, new = Copied(img, c, p, stored, spare)
    PROVE  PageHolds(new, c, p, data, salt)
<1> DEFINE D == DATA_BYTES_PER_PAGE
           hmac == GenerateHmac(salt, data)
<1> HIDE DEF hmac
<1>0. Puts(new, c, p, stored, spare)
  BY CopyPuts, Zenon
<1>1. \A k \in 1..D : new[Offset(c, p) + k - 1] = stored[k]
  BY <1>0 DEF Puts
<1>6. \A k \in 0..(SPARE_BYTES_PER_PAGE - 1) :
            new[SpareOffset(c, p) + k] = spare[k]
  BY <1>0 DEF Puts
<1>2. \A k \in 1..D : stored[k] = Stored(c, data)[p * D + k]
  BY PageIsStored
<1>3. DataHold(new, c, p, data)
  BY <1>1, <1>2 DEF DataHold
<1>4. ASSUME NEW k \in HmacPlaces(p)
      PROVE  new[SpareOffset(c, p) + k] = hmac[HmacByte(p, k)]
  <2>1. spare = Spare(p, PageOf(data, p), stored, hmac)
    BY DEF hmac
  <2>2. k \in 0..(SPARE_BYTES_PER_PAGE - 1) /\ spare[k] = hmac[HmacByte(p, k)]
    BY <2>1, SpareHasHmac
  <2> QED  BY <1>6, <2>2
<1>5. HmacsHold(new, c, p, hmac, 0, 0)
  BY <1>4 DEF HmacsHold
<1> QED
  BY <1>3, <1>5 DEF PageHolds, hmac

-----------------------------------------------------------------------------
(* The invariant is inductive.                                             *)

LEMMA InitImage == ImageInit => ImageInv
<1> SUFFICES ASSUME ImageInit PROVE ImageInv
  OBVIOUS
<1>1. ImageIsBytes
  <2> DEFINE fresh(o) == IF \E c \in ImageClusters, p \in Pages :
                               Within(o, Offset(c, p), DATA_BYTES_PER_PAGE)
                         THEN Bits ELSE Ff
  <2>1. image = [o \in Image |-> fresh(o)]
    BY DEF ImageInit
  <2> HIDE DEF fresh
  <2> QED  BY <2>1 DEF ImageIsBytes
<1>2. written = [c \in ImageClusters |-> Nothing] /\ writing = NotWriting
  BY DEF ImageInit
<1>3. written \in [ImageClusters -> Writes \cup {Nothing}]
  BY <1>2
<1>4. WritingHolds /\ WrittenHolds
  BY <1>2 DEF WritingHolds, WrittenHolds
<1> QED
  BY <1>1, <1>3, <1>4 DEF ImageInv

\* WrittenHolds for given values of the variables.
Holds(img, wr) == \A c \in ImageClusters :
    wr[c] # Nothing => ClusterHolds(img, c, wr[c])

LEMMA BeginWriteKeepsInv ==
    ASSUME ImageInv, NEW c \in ImageClusters, NEW data \in Contents,
           NEW salt \in Salts, BeginWrite(c, data, salt)
    PROVE  ImageInv'
<1>1. /\ image' = image
      /\ written' = [written EXCEPT ![c] = Nothing]
      /\ writing' = [cluster |-> c, page |-> 0, iv |-> ZeroBlock,
                     data |-> data, salt |-> salt]
  BY DEF BeginWrite
<1>2. written \in [ImageClusters -> Writes \cup {Nothing}]
  BY DEF ImageInv
<1>3. written' \in [ImageClusters -> Writes \cup {Nothing}]
  BY <1>1, <1>2
<1>4. ImageIsBytes'
  BY <1>1 DEF ImageInv, ImageIsBytes
<1>5. WritingHolds'
  <2>1. /\ writing' \in Rounds /\ (writing').cluster = c /\ (writing').page = 0
        /\ (writing').data = data /\ (writing').iv = ZeroBlock
    <3>1. 0 \in Pages /\ ZeroBlock \in Byte
      BY ImageAssumption, ZeroBlockIsByte DEF ImageAssumption, Pages
    <3> QED  BY <1>1, <3>1 DEF Rounds
  <2>2. written'[c] = Nothing
    BY <1>1, <1>2
  <2>3. IvOf(c, data, 0) = ZeroBlock
    BY DEF IvOf
  <2>4. 0..((writing').page - 1) = {}
    BY <2>1
  <2> QED  BY <2>1, <2>2, <2>3, <2>4 DEF WritingHolds
<1>6. WrittenHolds'
  <2>1. Holds(image, written)
    BY DEF ImageInv, WrittenHolds, Holds
  <2>2. ASSUME NEW d \in ImageClusters, written'[d] # Nothing
        PROVE  d # c /\ written'[d] = written[d]
    BY <1>1, <1>2, <2>2
  <2>3. Holds(image', written')
    BY <1>1, <2>1, <2>2 DEF Holds
  <2> QED  BY <2>3 DEF WrittenHolds, Holds
<1> QED
  BY <1>3, <1>4, <1>5, <1>6 DEF ImageInv

LEMMA WritePageKeepsInv ==
    ASSUME ImageInv, WritePage
    PROVE  ImageInv'
<1> DEFINE c == writing.cluster
           p == writing.page
           data == writing.data
           salt == writing.salt
           source == PageOf(data, p)
           stored == StoredPage(c, writing.iv, source)
           hmac == GenerateHmac(salt, data)
           spare == Spare(p, source, stored, hmac)
<1>1. /\ writing # NotWriting /\ writing \in Rounds /\ written[c] = Nothing
      /\ writing.iv = IvOf(c, data, p)
      /\ \A q \in 0..(p - 1) : PageHolds(image, c, q, data, salt)
  BY DEF WritePage, ImageInv, WritingHolds
<1>2. c \in ImageClusters /\ p \in Pages /\ data \in Contents /\ salt \in Salts
  BY <1>1 DEF Rounds
<1>3. image' = Copied(image, c, p, stored, spare)
  BY DEF WritePage, CopyPage, Copied
<1>4. IF p = HMAC_PAGE2
      THEN /\ writing' = NotWriting
           /\ written' = [written EXCEPT ![c] =
                 [data |-> data, salt |-> salt, damaged |-> 0]]
      ELSE /\ writing' = [writing EXCEPT !.page = @ + 1,
                                         !.iv = NextIv(c, stored)]
           /\ written' = written
  BY DEF WritePage
<1>5. /\ written \in [ImageClusters -> Writes \cup {Nothing}]
      /\ Holds(image, written)
  BY DEF ImageInv, WrittenHolds, Holds
<1>6. stored = StoredPage(c, IvOf(c, data, p), PageOf(data, p))
  BY <1>1
<1>7. spare = Spare(p, PageOf(data, p), stored, GenerateHmac(salt, data))
  OBVIOUS
<1> HIDE DEF stored, spare
<1>8. ImageIsBytes'
  <2>1. \A o \in Image : TRUE
    OBVIOUS
  <2> DEFINE at(o) == IF Within(o, Offset(c, p), DATA_BYTES_PER_PAGE)
                      THEN stored[1 + o - Offset(c, p)]
                      ELSE IF Within(o, SpareOffset(c, p), SPARE_BYTES_PER_PAGE)
                      THEN spare[o - SpareOffset(c, p)] ELSE image[o]
  <2>2. image' = [o \in Image |-> at(o)]
    BY <1>3 DEF Copied
  <2> HIDE DEF at
  <2> QED  BY <2>2 DEF ImageIsBytes
<1> HIDE DEF c, p, data, salt, source, hmac
<1>9. PageHolds(image', c, p, data, salt)
  BY <1>2, <1>3, <1>6, <1>7, CopiedPageHolds, Zenon
<1>10. \A d \in ImageClusters, q \in Pages :
           d # c \/ q # p => SamePage(image, image', d, q)
  <2> SUFFICES ASSUME NEW d \in ImageClusters, NEW q \in Pages, d # c \/ q # p
               PROVE  SamePage(image, image', d, q)
    OBVIOUS
  <2> DEFINE old == image  new == image'
  <2>1. new = Copied(old, c, p, stored, spare)
    BY <1>3
  <2> HIDE DEF old, new
  <2>2. SamePage(old, new, d, q)
    BY <1>2, <2>1, CopyLeaves
  <2> QED  BY <2>2 DEF old, new
<1>11. ASSUME NEW q \in 0..p PROVE PageHolds(image', c, q, data, salt)
  <2>1. CASE q = p
    BY <1>9, <2>1
  <2>2. CASE q # p
    <3>1. q \in Pages /\ q \in 0..(p - 1)
      BY <1>2, <2>2, Layout DEF Pages
    <3>2. SamePage(image, image', c, q)
      BY <1>2, <1>10, <2>2, <3>1
    <3>3. PageHolds(image, c, q, data, salt)
      BY <1>1, <3>1 DEF c, p, data, salt
    <3> QED  BY <1>2, <3>1, <3>2, <3>3, SamePageHolds DEF PageHolds
  <2> QED  BY <2>1, <2>2
<1>12. \A d \in ImageClusters :
           d # c /\ written[d] # Nothing => ClusterHolds(image', d, written[d])
  <2> SUFFICES ASSUME NEW d \in ImageClusters, d # c, written[d] # Nothing
               PROVE  ClusterHolds(image', d, written[d])
    OBVIOUS
  <2>1. ClusterHolds(image, d, written[d])
    BY <1>5 DEF Holds
  <2>2. \A q \in Pages : SamePage(image, image', d, q)
    BY <1>10
  <2> QED  BY <2>1, <2>2, SameClusterHolds
<1>13. CASE p = HMAC_PAGE2
  <2> DEFINE w == [data |-> data, salt |-> salt, damaged |-> 0]
  <2>1. writing' = NotWriting /\ written' = [written EXCEPT ![c] = w]
    BY <1>4, <1>13 DEF c, p, data, salt
  <2>2. w \in Writes /\ w.data = data /\ w.salt = salt
    BY <1>2 DEF Writes
  <2>3. ClusterHolds(image', c, w)
    <3>1. ASSUME NEW q \in Pages
          PROVE  /\ DataHold(image', c, q, w.data)
                 /\ HmacsHold(image', c, q, GenerateHmac(w.salt, w.data), 0, 0)
      <4>1. q \in 0..p
        BY <1>13, ImageAssumption DEF Pages, HMAC_PAGE2, ImageAssumption
      <4> QED  BY <1>11, <2>2, <4>1 DEF PageHolds
    <3>2. 0 \in Pages /\ 0 \in 0..EccOffset
      BY ImageAssumption DEF ImageAssumption, Pages
    <3> HIDE DEF w
    <3> QED  BY <3>1, <3>2 DEF ClusterHolds
  <2> HIDE DEF w
  <2>4. written' \in [ImageClusters -> Writes \cup {Nothing}]
    BY <1>5, <2>1, <2>2
  <2>5. WritingHolds'
    BY <2>1 DEF WritingHolds
  <2>6. Holds(image', written')
    <3> SUFFICES ASSUME NEW d \in ImageClusters, written'[d] # Nothing
                 PROVE  ClusterHolds(image', d, written'[d])
      BY DEF Holds
    <3>1. CASE d = c
      BY <1>2, <1>5, <2>1, <2>3, <3>1
    <3>2. CASE d # c
      <4>1. written'[d] = written[d]
        BY <1>5, <2>1, <3>2
      <4> QED  BY <1>12, <3>2, <4>1
    <3> QED  BY <3>1, <3>2
  <2>7. WrittenHolds'
    BY <2>6 DEF Holds, WrittenHolds
  <2> QED  BY <1>8, <2>4, <2>5, <2>7 DEF ImageInv
<1>14. CASE p # HMAC_PAGE2
  <2>1. /\ written' = written
        /\ writing' = [writing EXCEPT !.page = p + 1, !.iv = NextIv(c, stored)]
    BY <1>4, <1>14 DEF c, p
  <2>2. p + 1 \in Pages
    BY <1>2, <1>14, ImageAssumption DEF Pages, HMAC_PAGE2, ImageAssumption
  <2>3. NextIv(c, stored) = IvOf(c, data, p + 1)
    BY <1>2, <1>6, <2>2, IvIsCarried, Zenon
  <2>4. IvOf(c, data, p + 1) \in Byte
    <3>1. 1 \in 1..DATA_BYTES_PER_PAGE
      BY Layout
    <3>2. p + 1 # 0
      BY <1>2, Layout DEF Pages
    <3>3. (p + 1) * DATA_BYTES_PER_PAGE \in 1..ClusterBytes
      BY <2>2, <3>1, <3>2, BytesOfPage
    <3> QED  BY <1>2, <3>3, StoredIsBytes, ZeroBlockIsByte DEF IvOf
  <2>5. /\ writing' \in Rounds /\ (writing').cluster = c
        /\ (writing').page = p + 1 /\ (writing').data = data
        /\ (writing').salt = salt /\ (writing').iv = IvOf(c, data, p + 1)
    BY <1>1, <2>1, <2>2, <2>3, <2>4 DEF Rounds, c, data, salt
  <2>6. written'[c] = Nothing
    BY <1>1, <2>1 DEF c
  <2>7. \A q \in 0..((p + 1) - 1) : PageHolds(image', c, q, data, salt)
    <3>1. (p + 1) - 1 = p
      BY <1>2, Layout DEF Pages
    <3> QED  BY <1>11, <3>1
  <2>8. WritingHolds'
    BY <2>5, <2>6, <2>7 DEF WritingHolds
  <2>9. Holds(image', written')
    <3>1. written[c] = Nothing
      BY <1>1 DEF c
    <3> QED  BY <1>12, <2>1, <3>1 DEF Holds
  <2>10. WrittenHolds'
    BY <2>9 DEF Holds, WrittenHolds
  <2> QED  BY <1>5, <1>8, <2>1, <2>8, <2>10 DEF ImageInv
<1> QED
  BY <1>13, <1>14

LEMMA StopKeepsInv ==
    ASSUME ImageInv, Stop
    PROVE  ImageInv'
<1>1. writing' = NotWriting /\ image' = image /\ written' = written
  BY DEF Stop
<1>2. WritingHolds'
  BY <1>1 DEF WritingHolds
<1>3. ImageIsBytes' /\ WrittenHolds'
  BY <1>1 DEF ImageInv, ImageIsBytes, WrittenHolds
<1> QED
  BY <1>1, <1>2, <1>3 DEF ImageInv

LEMMA DecayKeepsInv ==
    ASSUME ImageInv, NEW c \in ImageClusters, NEW p \in {HMAC_PAGE1, HMAC_PAGE2},
           NEW k \in 0..(EccOffset - 1), Decay(c, p, k)
    PROVE  ImageInv'
<1> DEFINE o == SpareOffset(c, p) + k
           w == written[c]
           v == [w EXCEPT !.damaged = 1]
<1>1. /\ writing' = writing /\ writing = NotWriting /\ w # Nothing
      /\ w.damaged = 0
      /\ image' = [image EXCEPT ![o] = Damaged]
      /\ written' = [written EXCEPT ![c] = v]
  BY DEF Decay
<1>2. /\ written \in [ImageClusters -> Writes \cup {Nothing}]
      /\ Holds(image, written) /\ ImageIsBytes
  BY DEF ImageInv, WrittenHolds, Holds
<1>3. w \in Writes /\ v \in Writes /\ v.data = w.data /\ v.salt = w.salt
      /\ v.damaged = 1
  BY <1>1, <1>2 DEF Writes
<1>4. p \in Pages /\ k \in 0..EccOffset /\ EccOffset \in Nat
  BY LayoutOfHmacs, ImageAssumption DEF ImageAssumption
<1> HIDE DEF v
<1>5. ImageIsBytes'
  <2>1. image' = [i \in Image |-> IF i = o THEN Damaged ELSE image[i]]
    BY <1>1, <1>2 DEF ImageIsBytes
  <2> HIDE DEF o
  <2> QED  BY <2>1 DEF ImageIsBytes
<1>6. \A i \in Image : i # o => image'[i] = image[i]
  BY <1>1, <1>2 DEF ImageIsBytes
<1>7. /\ o \in Nat /\ o >= Offset(c, p) /\ o < Offset(c, p) + PAGE_SIZE
      /\ o >= Offset(c, p) + DATA_BYTES_PER_PAGE
  <2>1. /\ Offset(c, p) \in Nat
        /\ SpareOffset(c, p) = Offset(c, p) + DATA_BYTES_PER_PAGE
    BY <1>4, OffsetsAreNumbers
  <2> QED  BY <1>4, <2>1, Layout
<1>8. \A d \in ImageClusters, q \in Pages :
          d # c \/ q # p => SamePage(image, image', d, q)
  <2> SUFFICES ASSUME NEW d \in ImageClusters, NEW q \in Pages, d # c \/ q # p,
                      NEW i \in 0..(PAGE_SIZE - 1)
               PROVE  image'[Offset(d, q) + i] = image[Offset(d, q) + i]
    BY DEF SamePage
  <2>1. /\ Offset(c, p) \in Nat /\ Offset(d, q) \in Nat
        /\ Offset(d, q) + i \in Image
    BY <1>4, OffsetsAreNumbers, PageInImage
  <2>2. \/ Offset(d, q) + PAGE_SIZE <= Offset(c, p)
        \/ Offset(c, p) + PAGE_SIZE <= Offset(d, q)
    BY <1>4, PagesApart
  <2> HIDE DEF o
  <2>3. Offset(d, q) + i # o
    BY <1>7, <2>1, <2>2, Layout
  <2> QED  BY <1>6, <2>1, <2>3
<1>9. ClusterHolds(image', c, v)
  <2> DEFINE hmac == GenerateHmac(w.salt, w.data)
  <2> HIDE DEF hmac
  <2>1. ClusterHolds(image, c, w)
    BY <1>1, <1>2 DEF Holds
  <2>2. PICK badPage \in Pages, badByte \in 0..EccOffset :
          /\ badByte = 0
          /\ \A q \in Pages : /\ DataHold(image, c, q, w.data)
                              /\ HmacsHold(image, c, q, hmac, badPage, badByte)
    <3> HIDE DEF w
    <3> QED  BY <1>1, <2>1, Zenon DEF ClusterHolds, hmac
  <2>3. ASSUME NEW q \in Pages
        PROVE  /\ DataHold(image', c, q, w.data)
               /\ HmacsHold(image', c, q, hmac, p, k)
    <3>1. \A i \in HmacPlaces(q) :
              image[SpareOffset(c, q) + i] = hmac[HmacByte(q, i)]
      <4> SUFFICES ASSUME NEW i \in HmacPlaces(q)
                   PROVE  image[SpareOffset(c, q) + i] = hmac[HmacByte(q, i)]
        OBVIOUS
      <4>1. i # 0
        BY PlacesAreSpare
      <4> QED  BY <2>2, <4>1 DEF HmacsHold
    <3>2. DataHold(image, c, q, w.data) /\ HmacsHold(image, c, q, hmac, p, k)
      BY <2>2, <3>1 DEF HmacsHold
    <3>3. CASE q # p
      <4>1. SamePage(image, image', c, q)
        BY <1>8, <3>3
      <4> QED  BY <3>2, <4>1, SamePageHolds
    <3>4. CASE q = p
      <4>1. /\ Offset(c, p) \in Nat /\ SpareOffset(c, p) \in Nat
            /\ SpareOffset(c, p) = Offset(c, p) + DATA_BYTES_PER_PAGE
        BY <1>4, OffsetsAreNumbers
      <4>2. ASSUME NEW i \in 1..DATA_BYTES_PER_PAGE
            PROVE  image'[Offset(c, p) + i - 1] = image[Offset(c, p) + i - 1]
        <5>1. i - 1 \in 0..(PAGE_SIZE - 1)
          BY Layout
        <5>2. Offset(c, p) + (i - 1) \in Image
          BY <1>4, <5>1, PageInImage
        <5> HIDE DEF o
        <5>3. /\ Offset(c, p) + (i - 1) = Offset(c, p) + i - 1
              /\ Offset(c, p) + i - 1 # o
          BY <1>7, <4>1, Layout
        <5> QED  BY <1>6, <5>2, <5>3
      <4>3. DataHold(image', c, p, w.data)
        BY <3>2, <3>4, <4>2 DEF DataHold
      <4>4. ASSUME NEW i \in HmacPlaces(p), i # k
            PROVE  image'[SpareOffset(c, p) + i] = image[SpareOffset(c, p) + i]
        <5>1. i \in 0..(SPARE_BYTES_PER_PAGE - 1)
          BY <1>4, PlacesAreSpare
        <5>2. DATA_BYTES_PER_PAGE + i \in 0..(PAGE_SIZE - 1)
          BY <5>1, Layout
        <5>3. Offset(c, p) + (DATA_BYTES_PER_PAGE + i) \in Image
          BY <1>4, <5>2, PageInImage
        <5>4. Offset(c, p) + (DATA_BYTES_PER_PAGE + i) = SpareOffset(c, p) + i
          BY <4>1, <5>1, Layout
        <5>5. SpareOffset(c, p) + i # o
          BY <1>4, <4>1, <4>4, <5>1, Layout
        <5> QED  BY <1>6, <5>3, <5>4, <5>5
      <4>5. HmacsHold(image', c, p, hmac, p, k)
        BY <3>1, <3>4, <4>4 DEF HmacsHold
      <4> QED  BY <3>4, <4>3, <4>5
    <3> QED  BY <3>3, <3>4
  <2>4. v.damaged # 0
    BY <1>3
  <2> HIDE DEF w
  <2>5. \A q \in Pages : /\ DataHold(image', c, q, v.data)
                         /\ HmacsHold(image', c, q, GenerateHmac(v.salt, v.data),
                                      p, k)
    BY <1>3, <2>3 DEF hmac
  <2> QED  BY <1>4, <2>4, <2>5 DEF ClusterHolds
<1>10. written' \in [ImageClusters -> Writes \cup {Nothing}]
  BY <1>1, <1>2, <1>3
<1>11. Holds(image', written')
  <2> SUFFICES ASSUME NEW d \in ImageClusters, written'[d] # Nothing
               PROVE  ClusterHolds(image', d, written'[d])
    BY DEF Holds
  <2>1. CASE d = c
    BY <1>1, <1>2, <1>9, <2>1
  <2>2. CASE d # c
    <3>1. written'[d] = written[d]
      BY <1>1, <1>2, <2>2
    <3>2. ClusterHolds(image, d, written[d])
      BY <1>2, <3>1 DEF Holds
    <3>3. \A q \in Pages : SamePage(image, image', d, q)
      BY <1>8, <2>2
    <3>4. ClusterHolds(image', d, written[d])
      BY <3>2, <3>3, SameClusterHolds
    <3> QED  BY <3>1, <3>4
  <2> QED  BY <2>1, <2>2
<1>12. WrittenHolds'
  BY <1>11 DEF Holds, WrittenHolds
<1>13. WritingHolds'
  BY <1>1 DEF WritingHolds
<1> QED
  BY <1>5, <1>10, <1>12, <1>13 DEF ImageInv

LEMMA NextImage == ImageInv /\ [ImageNext]_imageVars => ImageInv'
<1> SUFFICES ASSUME ImageInv, [ImageNext]_imageVars PROVE ImageInv'
  OBVIOUS
<1>1. CASE \E c \in ImageClusters, data \in Contents, salt \in Salts :
               BeginWrite(c, data, salt)
  BY <1>1, BeginWriteKeepsInv
<1>2. CASE WritePage
  BY <1>2, WritePageKeepsInv
<1>3. CASE Stop
  BY <1>3, StopKeepsInv
<1>4. CASE \E c \in ImageClusters, p \in {HMAC_PAGE1, HMAC_PAGE2},
              k \in 0..(EccOffset - 1) : Decay(c, p, k)
  BY <1>4, DecayKeepsInv
<1>5. CASE UNCHANGED imageVars
  BY <1>5 DEF imageVars, ImageInv, ImageIsBytes, WritingHolds, WrittenHolds
<1> QED
  BY <1>1, <1>2, <1>3, <1>4, <1>5, Zenon DEF ImageNext

LEMMA ImageInvHolds == ImageSpec => []ImageInv
BY InitImage, NextImage, PTL DEF ImageSpec

-----------------------------------------------------------------------------
(* What is read.                                                           *)

LEMMA HmacIsBytes ==
    ASSUME NEW salt, NEW data
    PROVE  GenerateHmac(salt, data) =
               [k \in 1..HashSize |-> GenerateHmac(salt, data)[k]]
<1> DEFINE message ==
        <<<<HmacKey, "5c">>, Sha1(<<<<HmacKey, "36">>>> \o <<salt, data>>)>>
<1>1. GenerateHmac(salt, data) = Sha1(message)
  BY DEF GenerateHmac, BlockMac
<1> HIDE DEF message
<1> QED
  BY <1>1 DEF Sha1

LEMMA DataIsRead ==
    ASSUME NEW c \in ImageClusters, NEW data \in Contents,
           \A p \in Pages : DataHold(image, c, p, data)
    PROVE  ReadCluster(c).data = data
<1> DEFINE D == DATA_BYTES_PER_PAGE
           raw == [k \in 1..ClusterBytes |->
                     image[Offset(c, (k - 1) \div D) + ((k - 1) % D)]]
<1>1. ReadCluster(c).data = IF c < SUPERBLOCK_START_CLUSTER
                            THEN AesDecrypt(ZeroBlock, raw) ELSE raw
  BY DEF ReadCluster, ClusterBytes
<1>2. ASSUME NEW k \in 1..ClusterBytes
      PROVE  image[Offset(c, (k - 1) \div D) + ((k - 1) % D)] = Stored(c, data)[k]
  <2> DEFINE p == (k - 1) \div D
             r == (k - 1) % D
  <2>1. p \in Pages /\ r \in 0..(D - 1) /\ k - 1 = p * D + r
    BY ByteOfCluster
  <2>2. k \in Nat /\ D \in Nat \ {0}
    BY Layout
  <2> HIDE DEF p, r, D
  <2>3. r + 1 \in 1..D
    BY <2>1, <2>2
  <2>4. p * D \in Nat /\ Offset(c, p) \in Nat
    BY <2>1, <2>3, BytesOfPage, OffsetsAreNumbers DEF D
  <2>5. p * D + (r + 1) = k /\ Offset(c, p) + (r + 1) - 1 = Offset(c, p) + r
    BY <2>1, <2>2, <2>4
  <2>6. image[Offset(c, p) + (r + 1) - 1] = Stored(c, data)[p * D + (r + 1)]
    BY <2>1, <2>3 DEF DataHold, D
  <2> QED  BY <2>5, <2>6 DEF p, r
<1>3. Stored(c, data) \in [1..ClusterBytes -> Byte]
  BY StoredIsBytes
<1>4. raw = Stored(c, data)
  BY <1>2, <1>3
<1> HIDE DEF raw
<1>5. c \in Int /\ SUPERBLOCK_START_CLUSTER \in Int
  BY ImageAssumption DEF ImageAssumption, ImageClusters
<1>6. CASE c < SUPERBLOCK_START_CLUSTER
  <2>1. raw = AesEncrypt(ZeroBlock, data)
    BY <1>4, <1>5, <1>6 DEF Stored
  <2>2. AesDecrypt(ZeroBlock, raw) = data
    BY <2>1, ContentsAreBytes, ZeroBlockIsByte, Decrypted, Layout
  <2> QED  BY <1>1, <1>6, <2>2
<1>7. CASE ~(c < SUPERBLOCK_START_CLUSTER)
  BY <1>1, <1>4, <1>5, <1>7 DEF Stored
<1> QED
  BY <1>6, <1>7

\* A copy of the HMAC is read unless one of its bytes is damaged.
LEMMA HmacsAreRead ==
    ASSUME NEW c \in ImageClusters, NEW salt, NEW data, NEW hmac,
           hmac = GenerateHmac(salt, data), NEW badPage, NEW badByte \in Nat,
           \A p \in Pages : HmacsHold(image, c, p, hmac, badPage, badByte)
    PROVE  /\ ~(badPage = HMAC_PAGE1 /\ badByte \in 1..HashSize) =>
                  ReadCluster(c).hmac1 = hmac
           /\ badByte = 0 \/ (badPage = HMAC_PAGE1 /\ badByte \in 1..HashSize) =>
                  ReadCluster(c).hmac2 = hmac
<1> DEFINE page1 == SpareOffset(c, HMAC_PAGE1)
           page2 == SpareOffset(c, HMAC_PAGE2)
           m == HMAC2_SIZE_IN_PAGE1  n == HMAC2_SIZE_IN_PAGE2  H == HashSize
           first == BytesAt(page1 + 1 + H, m)
           second == BytesAt(page2 + 1, n)
<1>1. ReadCluster(c).hmac1 = BytesAt(page1 + 1, H)
  BY DEF ReadCluster, HMAC1_OFFSET_IN_PAGE1
<1>2. page1 + (1 + H) = page1 + 1 + H
  BY LayoutOfHmacs, OffsetsAreNumbers
<1>3. ReadCluster(c).hmac2 = first \o second
  BY <1>2 DEF ReadCluster, HMAC1_OFFSET_IN_PAGE1, HMAC2_OFFSET_IN_PAGE1,
              HMAC2_OFFSET_IN_PAGE2
<1>4. hmac = [k \in 1..H |-> hmac[k]]
  BY HmacIsBytes
<1>5. /\ page1 \in Nat /\ page2 \in Nat /\ m \in Nat /\ n \in Nat /\ H \in Nat
      /\ m + n = H /\ HMAC_PAGE1 # HMAC_PAGE2
      /\ HMAC_PAGE1 \in Pages /\ HMAC_PAGE2 \in Pages
  BY LayoutOfHmacs, OffsetsAreNumbers
<1>6. /\ HmacPlaces(HMAC_PAGE1) = 1..(H + m) /\ HmacPlaces(HMAC_PAGE2) = 1..n
      /\ \A k : HmacByte(HMAC_PAGE2, k) = m + k
      /\ \A k : HmacByte(HMAC_PAGE1, k) = IF k <= H THEN k ELSE k - H
  BY <1>5 DEF HmacPlaces, HmacByte
<1>7. \A k \in 1..(H + m) : ~(badPage = HMAC_PAGE1 /\ badByte = k) =>
          image[page1 + k] = hmac[IF k <= H THEN k ELSE k - H]
  BY <1>5, <1>6 DEF HmacsHold
<1>8. \A k \in 1..n : ~(badPage = HMAC_PAGE2 /\ badByte = k) =>
          image[page2 + k] = hmac[m + k]
  BY <1>5, <1>6 DEF HmacsHold
<1> HIDE DEF page1, page2, m, n, H
<1>9. ASSUME ~(badPage = HMAC_PAGE1 /\ badByte \in 1..H)
      PROVE  ReadCluster(c).hmac1 = hmac
  <2>1. ASSUME NEW k \in 1..H PROVE image[page1 + 1 + k - 1] = hmac[k]
    <3>1. k \in 1..(H + m) /\ k <= H /\ page1 + 1 + k - 1 = page1 + k
      BY <1>5
    <3> QED  BY <1>7, <1>9, <3>1
  <2>2. BytesAt(page1 + 1, H) = [k \in 1..H |-> hmac[k]]
    BY <2>1 DEF BytesAt
  <2> QED  BY <1>1, <1>4, <2>2
<1>10. ASSUME badByte = 0 \/ (badPage = HMAC_PAGE1 /\ badByte \in 1..H)
       PROVE  ReadCluster(c).hmac2 = hmac
  <2>1. ASSUME NEW k \in 1..m PROVE first[k] = hmac[k]
    <3>1. /\ H + k \in 1..(H + m) /\ ~(H + k <= H) /\ (H + k) - H = k
          /\ page1 + 1 + H + k - 1 = page1 + (H + k) /\ badByte # H + k
      BY <1>5, <1>10
    <3>2. first[k] = image[page1 + 1 + H + k - 1]
      BY DEF BytesAt
    <3>3. image[page1 + (H + k)] = hmac[k]
      BY <1>7, <3>1
    <3> QED  BY <3>1, <3>2, <3>3
  <2>2. ASSUME NEW k \in 1..n PROVE second[k] = hmac[m + k]
    <3>1. page2 + 1 + k - 1 = page2 + k
      BY <1>5
    <3>2. second[k] = image[page2 + 1 + k - 1]
      BY DEF BytesAt
    <3>3. ~(badPage = HMAC_PAGE2 /\ badByte = k)
      BY <1>5, <1>10
    <3> QED  BY <1>8, <3>1, <3>2, <3>3
  <2>3. /\ first = [k \in 1..m |-> first[k]] /\ second = [k \in 1..n |-> second[k]]
    BY DEF BytesAt
  <2> DEFINE All == {first[k] : k \in 1..m} \cup {second[k] : k \in 1..n}
  <2>4. first \in [1..m -> All] /\ second \in [1..n -> All]
    <3> HIDE DEF first, second
    <3> QED  BY <2>3
  <2> HIDE DEF first, second, All
  <2>5. /\ first \in Seq(All) /\ Len(first) = m /\ DOMAIN first = 1..m
        /\ second \in Seq(All) /\ Len(second) = n /\ DOMAIN second = 1..n
    BY <1>5, <2>4
  <2>6. /\ first \o second \in Seq(All) /\ Len(first \o second) = m + n
        /\ \A k \in 1..(m + n) : (first \o second)[k] =
               IF k <= m THEN first[k] ELSE second[k - m]
    BY <2>5, ConcatProperties
  <2>7. ASSUME NEW k \in 1..H PROVE (first \o second)[k] = hmac[k]
    <3>1. k \in 1..(m + n)
      BY <1>5
    <3>2. CASE k <= m
      <4>1. k \in 1..m
        BY <1>5, <3>2
      <4> QED  BY <2>1, <2>6, <3>1, <3>2, <4>1
    <3>3. CASE ~(k <= m)
      <4>1. k - m \in 1..n /\ m + (k - m) = k
        BY <1>5, <3>3
      <4> QED  BY <2>2, <2>6, <3>1, <3>3, <4>1
    <3> QED  BY <3>2, <3>3
  <2>8. first \o second = [k \in 1..H |-> (first \o second)[k]]
    <3> DEFINE both == first \o second
    <3>1. both \in Seq(All) /\ Len(both) = H
      BY <1>5, <2>6
    <3> HIDE DEF both
    <3>2. both = [k \in 1..H |-> both[k]]
      BY <1>5, <3>1
    <3> QED  BY <3>2 DEF both
  <2>9. first \o second = hmac
    BY <1>4, <2>7, <2>8
  <2> QED  BY <1>3, <2>9
<1> QED
  BY <1>9, <1>10 DEF H

\* What is read from a cluster that was written to its end.
LEMMA WrittenIsRead ==
    ASSUME ImageInv, NEW c \in ImageClusters, written[c] # Nothing
    PROVE  LET w    == written[c]
               read == ReadCluster(c)
               hmac == GenerateHmac(w.salt, w.data)
           IN  /\ read.data = w.data
               /\ w.damaged = 0 => read.hmac1 = hmac /\ read.hmac2 = hmac
               /\ read.hmac1 = hmac \/ read.hmac2 = hmac
<1> DEFINE w == written[c]
           hmac == GenerateHmac(w.salt, w.data)
<1>1. w \in Writes /\ ClusterHolds(image, c, w)
  BY DEF ImageInv, WrittenHolds
<1>2. w.data \in Contents
  BY <1>1 DEF Writes
<1> HIDE DEF w
<1>3. PICK badPage \in Pages, badByte \in 0..EccOffset :
        /\ w.damaged = 0 => badByte = 0
        /\ \A p \in Pages : /\ DataHold(image, c, p, w.data)
                            /\ HmacsHold(image, c, p, hmac, badPage, badByte)
  BY <1>1, Zenon DEF ClusterHolds
<1>4. badByte \in Nat
  BY ImageAssumption DEF ImageAssumption
<1>5. ReadCluster(c).data = w.data
  BY <1>2, <1>3, DataIsRead
<1> HIDE DEF hmac
<1>6. hmac = GenerateHmac(w.salt, w.data)
  BY DEF hmac
<1>7. \A p \in Pages : HmacsHold(image, c, p, hmac, badPage, badByte)
  BY <1>3
<1>8. ~(badPage = HMAC_PAGE1 /\ badByte \in 1..HashSize) =>
          ReadCluster(c).hmac1 = hmac
  BY <1>4, <1>6, <1>7, HmacsAreRead
<1>9. badByte = 0 \/ (badPage = HMAC_PAGE1 /\ badByte \in 1..HashSize) =>
          ReadCluster(c).hmac2 = hmac
  BY <1>4, <1>6, <1>7, HmacsAreRead
<1>10. w.damaged = 0 => ReadCluster(c).hmac1 = hmac /\ ReadCluster(c).hmac2 = hmac
  BY <1>3, <1>8, <1>9
<1>11. ReadCluster(c).hmac1 = hmac \/ ReadCluster(c).hmac2 = hmac
  BY <1>8, <1>9
<1> QED
  BY <1>5, <1>10, <1>11 DEF w, hmac

\* A cluster that was written to its end reads back as it was written, whatever was
\* written to the other clusters since or stopped half way: for every layout of the
\* spare area that fits and every block cipher, encrypting page by page with the iv
\* that WriteCluster carries is undone by decrypting the whole in ReadCluster.
THEOREM WrittenClustersReadBack == ImageSpec => []ClustersReadBack
<1>1. ImageInv => ClustersReadBack
  <2> SUFFICES ASSUME ImageInv, NEW c \in ImageClusters, written[c] # Nothing
               PROVE  LET w    == written[c]
                          read == ReadCluster(c)
                          hmac == GenerateHmac(w.salt, w.data)
                      IN  /\ read.data = w.data
                          /\ w.damaged = 0 => read.hmac1 = hmac /\ read.hmac2 = hmac
    BY DEF ClustersReadBack
  <2> QED  BY WrittenIsRead
<1> QED
  BY <1>1, ImageInvHolds, PTL

\* One damaged byte in front of the ECC of a spare area never makes a cluster
\* unreadable: it hits one of the two copies of the HMAC at most, and ReadFileData
\* accepts a cluster when either copy is right.
THEOREM OneCopyAlwaysSuffices == ImageSpec => []OneCopySuffices
<1>1. ImageInv => OneCopySuffices
  <2> SUFFICES ASSUME ImageInv, NEW c \in ImageClusters, written[c] # Nothing
               PROVE  Verifies(ReadCluster(c), written[c].salt)
    BY DEF OneCopySuffices
  <2>1. /\ ReadCluster(c).data = written[c].data
        /\ \/ ReadCluster(c).hmac1 = GenerateHmac(written[c].salt, written[c].data)
           \/ ReadCluster(c).hmac2 = GenerateHmac(written[c].salt, written[c].data)
    BY WrittenIsRead
  <2> QED  BY <2>1 DEF Verifies
<1> QED
  BY <1>1, ImageInvHolds, PTL
=============================================================================
