------------------------------ MODULE NandImage ------------------------------
(***************************************************************************)
(* The bytes of the NAND image (WriteCluster and ReadCluster of            *)
(* low_level.cpp, crypto.cpp, the layout of sffs.h).  A cluster is a run   *)
(* of pages, each with its data and a spare area.  Clusters of file data   *)
(* are encrypted: page by page when they are written, as a whole when they *)
(* are read.  Two copies of the HMAC are in the spare areas of the last    *)
(* two pages, the second one in two parts.                                 *)
(*                                                                         *)
(* WriteCluster is one step per page: the process may stop between two.    *)
(* FileIo and SuperblockRing take a cluster to be its data and its HMAC;   *)
(* the properties here say why they may.                                   *)
(*                                                                         *)
(* A byte of data is the set of its bits.  A byte of a hash is a record;   *)
(* other values of spare bytes are model values.  AES works on blocks of   *)
(* one byte, CBC is as in mbedTLS.                                         *)
(***************************************************************************)
EXTENDS Ecc, SequencesExt

CONSTANTS
    NumClusters,              \* clusters of the image (0x8000)
    SUPERBLOCK_START_CLUSTER, \* from it on, clusters are not encrypted (0x7f00)
    PAGES_PER_CLUSTER,        \* (8)
    DATA_BYTES_PER_PAGE,      \* (2048)
    HashSize,                 \* bytes of a hash (20)
    HMAC2_SIZE_IN_PAGE1,      \* of its second copy, those in the first page (12)
    EccOffset,                \* where the ECC is in the spare area (0x30)
    BlockCipher,              \* AES with the key, on a block
    HmacKey,                  \* the key of the HMACs
    Salts,                    \* what a HMAC is salted with
    Contents,                 \* the data that are written to clusters
    Zero, Ff, Damaged, Nothing \* spare bytes 0 and 0xff; a damaged one; none

ASSUME ImageAssumption ==
    /\ NumClusters \in Nat /\ SUPERBLOCK_START_CLUSTER \in 0..NumClusters
    /\ PAGES_PER_CLUSTER \in Nat /\ PAGES_PER_CLUSTER >= 2
    /\ DATA_BYTES_PER_PAGE \in Nat \ {0} /\ DATA_BYTES_PER_PAGE % ChunkSize = 0
    /\ HashSize \in Nat /\ HMAC2_SIZE_IN_PAGE1 \in 1..(HashSize - 1)
    /\ EccOffset \in Nat /\ 1 + HashSize + HMAC2_SIZE_IN_PAGE1 <= EccOffset
    /\ BlockCipher \in [Byte -> Byte] /\ IsInjective(BlockCipher)
    /\ Contents \subseteq [1..(PAGES_PER_CLUSTER * DATA_BYTES_PER_PAGE) -> Byte]

VARIABLES
    image,   \* m_nand
    writing, \* the WriteCluster that is running
    written  \* per cluster, data and salt of the last write if it was completed,
             \* and the number of spare bytes damaged since

imageVars == <<image, writing, written>>

ImageClusters == 0..(NumClusters - 1)
Pages == 0..(PAGES_PER_CLUSTER - 1)

HMAC_PAGE1 == PAGES_PER_CLUSTER - 2
HMAC_PAGE2 == PAGES_PER_CLUSTER - 1
HMAC1_OFFSET_IN_PAGE1 == 1

\* A plausible bug: the second copy begins with the last byte of the first.
Hmac2OffsetMutant == HMAC1_OFFSET_IN_PAGE1 + HashSize - 1

HMAC2_OFFSET_IN_PAGE1 == HMAC1_OFFSET_IN_PAGE1 + HashSize
HMAC2_OFFSET_IN_PAGE2 == 1
HMAC2_SIZE_IN_PAGE2 == HashSize - HMAC2_SIZE_IN_PAGE1

EccSize   == 4 * (DATA_BYTES_PER_PAGE \div ChunkSize)
SPARE_BYTES_PER_PAGE == EccOffset + EccSize
PAGE_SIZE == DATA_BYTES_PER_PAGE + SPARE_BYTES_PER_PAGE

Offset(cluster, page) ==
    cluster * PAGES_PER_CLUSTER * PAGE_SIZE + page * PAGE_SIZE

Image == 0..(Offset(NumClusters, 0) - 1)

\* `count' bytes of the image.
BytesAt(from, count) == [k \in 1..count |-> image[from + k - 1]]

SpareOffset(cluster, page) == Offset(cluster, page) + DATA_BYTES_PER_PAGE

-----------------------------------------------------------------------------
(* crypto.cpp.                                                             *)

ZeroBlock == {}

\* AesEncrypt; the caller's iv becomes the last block of the result.
AesEncrypt(iv, source) ==
    LET chained[k \in 0..Len(source)] ==
            IF k = 0 THEN iv ELSE BlockCipher[Differ(source[k], chained[k - 1])]
    IN  [k \in DOMAIN source |-> chained[k]]

Decipher == [y \in Byte |-> CHOOSE x \in Byte : BlockCipher[x] = y]

AesDecrypt(iv, source) ==
    [k \in DOMAIN source |->
        Differ(Decipher[source[k]], IF k = 1 THEN iv ELSE source[k - 1])]

\* SHA-1 of a sequence of blocks: no two messages have the same hash.
Sha1(message) == [k \in 1..HashSize |-> [message |-> message, byte |-> k]]

\* BlockMacGenerator: what was given to Update is hashed between two pads.
BlockMac(updates) ==
    Sha1(<<<<HmacKey, "5c">>, Sha1(<<<<HmacKey, "36">>>> \o updates)>>)

GenerateHmac(salt, data) == BlockMac(<<salt, data>>)

-----------------------------------------------------------------------------
(* WriteCluster.                                                           *)

NotWriting == [cluster |-> NumClusters]

\* A plausible bug: every page is encrypted with a new iv.
NextIvMutant(cluster, stored) == ZeroBlock

\* The iv of the next page.
NextIv(cluster, stored) ==
    IF cluster >= SUPERBLOCK_START_CLUSTER THEN ZeroBlock ELSE Last(stored)

\* What is stored of the data of a page.
StoredPage(cluster, iv, source) ==
    IF cluster >= SUPERBLOCK_START_CLUSTER THEN source
                                           ELSE AesEncrypt(iv, source)

\* A plausible bug: the ECC is made before the encryption.
SpareMutant(page, source, stored, hmac) ==
    [k \in 0..(SPARE_BYTES_PER_PAGE - 1) |->
        IF k >= EccOffset THEN Calculate(source)[1 + k - EccOffset]
        ELSE IF k = 0 THEN Ff ELSE Zero]

\* Is byte k in a part of that length that begins there?
Within(k, offset, size) == offset <= k /\ k < offset + size

\* The spare area of a page; spare[k] is byte k.  Where two pieces of it overlapped,
\* the one that is copied last would win: the second copy of the HMAC, then the
\* first, then the ECC.
Spare(page, source, stored, hmac) ==
    [k \in 0..(SPARE_BYTES_PER_PAGE - 1) |->
        IF /\ page = HMAC_PAGE1
           /\ Within(k, HMAC2_OFFSET_IN_PAGE1, HMAC2_SIZE_IN_PAGE1)
        THEN hmac[1 + k - HMAC2_OFFSET_IN_PAGE1]
        ELSE IF /\ page = HMAC_PAGE1
                /\ Within(k, HMAC1_OFFSET_IN_PAGE1, HashSize)
        THEN hmac[1 + k - HMAC1_OFFSET_IN_PAGE1]
        ELSE IF /\ page = HMAC_PAGE2
                /\ Within(k, HMAC2_OFFSET_IN_PAGE2, HMAC2_SIZE_IN_PAGE2)
        THEN hmac[1 + HMAC2_SIZE_IN_PAGE1 + k - HMAC2_OFFSET_IN_PAGE2]
        ELSE IF k >= EccOffset THEN Calculate(stored)[1 + k - EccOffset]
        ELSE IF k = 0 THEN Ff ELSE Zero]

BeginWrite(cluster, data, salt) ==
    /\ writing = NotWriting
    /\ writing' = [cluster |-> cluster, page |-> 0, iv |-> ZeroBlock,
                   data |-> data, salt |-> salt]
    /\ written' = [written EXCEPT ![cluster] = Nothing]
    /\ UNCHANGED image

\* The bytes of the data of a page.
PageOf(data, page) ==
    SubSeq(data, page * DATA_BYTES_PER_PAGE + 1,
                 (page + 1) * DATA_BYTES_PER_PAGE)

\* Data and spare area are copied to the page.
CopyPage(cluster, page, stored, spare) ==
    LET at == Offset(cluster, page)
    IN  image' = [o \in Image |->
                     IF Within(o, at, DATA_BYTES_PER_PAGE)
                     THEN stored[1 + o - at]
                     ELSE IF Within(o, SpareOffset(cluster, page),
                                    SPARE_BYTES_PER_PAGE)
                     THEN spare[o - SpareOffset(cluster, page)]
                     ELSE image[o]]

\* A round of the loop of WriteCluster.
WritePage ==
    LET w      == writing
        source == PageOf(w.data, w.page)
        stored == StoredPage(w.cluster, w.iv, source)
        hmac   == GenerateHmac(w.salt, w.data)
    IN  /\ writing # NotWriting
        /\ CopyPage(w.cluster, w.page, stored,
                    Spare(w.page, source, stored, hmac))
        /\ IF w.page = HMAC_PAGE2
           THEN /\ writing' = NotWriting
                /\ written' = [written EXCEPT ![w.cluster] =
                      [data |-> w.data, salt |-> w.salt, damaged |-> 0]]
           ELSE /\ writing' = [w EXCEPT !.page = @ + 1,
                                        !.iv = NextIv(w.cluster, stored)]
                /\ UNCHANGED written

-----------------------------------------------------------------------------
(* ReadCluster.                                                            *)

ReadCluster(cluster) ==
    LET raw == [k \in 1..(PAGES_PER_CLUSTER * DATA_BYTES_PER_PAGE) |->
                   image[Offset(cluster, (k - 1) \div DATA_BYTES_PER_PAGE)
                         + ((k - 1) % DATA_BYTES_PER_PAGE)]]
        page1 == SpareOffset(cluster, HMAC_PAGE1)
        page2 == SpareOffset(cluster, HMAC_PAGE2)
    IN  [data |-> IF cluster < SUPERBLOCK_START_CLUSTER
                  THEN AesDecrypt(ZeroBlock, raw) ELSE raw,
         hmac1 |-> BytesAt(page1 + HMAC1_OFFSET_IN_PAGE1, HashSize),
         hmac2 |-> BytesAt(page1 + HMAC2_OFFSET_IN_PAGE1, HMAC2_SIZE_IN_PAGE1)
                   \o BytesAt(page2 + HMAC2_OFFSET_IN_PAGE2,
                              HMAC2_SIZE_IN_PAGE2)]

\* The check of ReadFileData and of GetSuperblock.
Verifies(read, salt) ==
    LET hash == GenerateHmac(salt, read.data)
    IN  hash = read.hmac1 \/ hash = read.hmac2

-----------------------------------------------------------------------------

\* An erased image: every bit is 1.
ImageInit ==
    /\ image = [o \in Image |->
          IF \E c \in ImageClusters, p \in Pages :
                 Within(o, Offset(c, p), DATA_BYTES_PER_PAGE)
          THEN Bits ELSE Ff]
    /\ writing = NotWriting
    /\ written = [c \in ImageClusters |-> Nothing]

\* The process stops in the middle of WriteCluster.
Stop ==
    /\ writing # NotWriting
    /\ writing' = NotWriting
    /\ UNCHANGED <<image, written>>

\* A spare byte of a written cluster goes bad; no other cluster has a bad one.
Decay(cluster, page, k) ==
    /\ writing = NotWriting
    /\ written[cluster] # Nothing
    /\ \A c \in ImageClusters : written[c] # Nothing => written[c].damaged = 0
    /\ image' = [image EXCEPT ![SpareOffset(cluster, page) + k] = Damaged]
    /\ written' = [written EXCEPT ![cluster].damaged = 1]
    /\ UNCHANGED writing

ImageNext ==
    \/ \E c \in ImageClusters, data \in Contents, salt \in Salts :
           BeginWrite(c, data, salt)
    \/ WritePage
    \/ Stop
    \/ \E c \in ImageClusters, p \in {HMAC_PAGE1, HMAC_PAGE2},
          k \in 0..(EccOffset - 1) : Decay(c, p, k)

ImageSpec == ImageInit /\ [][ImageNext]_imageVars

-----------------------------------------------------------------------------
(* Properties.                                                             *)

\* A cluster that was written to its end reads back as it was written, with both
\* copies of its HMAC in place, whatever was written to the other clusters since
\* or stopped half way: the iv carried from page to page decrypts as one run, and no
\* two pieces of the layout share a byte.
ClustersReadBack == \A c \in ImageClusters :
    LET w == written[c]
    IN  w # Nothing =>
          LET read == ReadCluster(c)
              hmac == GenerateHmac(w.salt, w.data)
          IN  /\ read.data = w.data
              /\ w.damaged = 0 => read.hmac1 = hmac /\ read.hmac2 = hmac

\* One damaged byte in the spare areas never makes a cluster unreadable: it hits one
\* of the two copies of the HMAC at most.
OneCopySuffices == \A c \in ImageClusters :
    written[c] # Nothing => Verifies(ReadCluster(c), written[c].salt)

\* Chunk k of the data of a page, and its part of an ECC.
ChunkOf(data, k) == SubSeq(data, k * ChunkSize + 1, (k + 1) * ChunkSize)
EccOf(ecc, k)    == SubSeq(ecc, 4 * k + 1, 4 * k + 4)

FlippedBit(chunk, n) == [chunk EXCEPT ![1 + (n \div 8)] = Differ(@, {n % 8})]

\* The ECC in the spare area of a page is that of the bytes next to it, encrypted or
\* not: after any single bit of a chunk went wrong the code that is computed anew
\* differs from the stored one exactly as the number of the bit says.
EccLocatesFlips == \A c \in ImageClusters, p \in Pages :
    writing = NotWriting /\ written[c] # Nothing /\ written[c].damaged = 0 =>
        LET data   == BytesAt(Offset(c, p), DATA_BYTES_PER_PAGE)
            stored == BytesAt(SpareOffset(c, p) + EccOffset, EccSize)
        IN  \A k \in 0..((DATA_BYTES_PER_PAGE \div ChunkSize) - 1),
               n \in 0..(8 * ChunkSize - 1) :
               Locates(EccOf(stored, k),
                       CalculateChunk(FlippedBit(ChunkOf(data, k), n)), n)
=============================================================================
