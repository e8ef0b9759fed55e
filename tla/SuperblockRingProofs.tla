------------------------ MODULE SuperblockRingProofs ------------------------
(***************************************************************************)
(* The ring of superblocks stays in order through overflows of the version *)
(* and crashes, for every number of slots, clusters and versions: types,   *)
(* what a mount finds, what survives a crash, and that the ring implements *)
(* SuperblockStore.                                                        *)
(***************************************************************************)
EXTENDS SuperblockRing, TLAPS

(* The invariant.  In it s is the NAND, t the slot that a mount would      *)
(* load, x the slot that is written, w the version that is written to it.  *)

\* How many slots i is behind t, going backwards around the ring.
Behind(t, i) == IF i <= t THEN t - i ELSE t - i + NumSlots

Before(x) == IF x = 0 THEN NumSlots - 1 ELSE x - 1

Blank(s) == \A i \in Slots : ~s[i].magic

\* t has the highest version, and every other slot the one that its place in the
\* ring asks for: an older one, or after an overflow of the version one of those
\* that the extra superblocks have.
Top(s, t, v) ==
    /\ s[t].magic /\ s[t].version = v
    /\ \A i \in Slots \ {t} : s[i].magic =>
        \/ s[i].version = v - Behind(t, i)
        \/ v = VersionSize - 1 /\ s[i].version = NumSlots - 1 - Behind(t, i)

\* The version has overflowed behind t, and w extra superblocks are complete.
Rewritten(s, t, w) ==
    \A i \in Slots : Behind(t, i) >= NumSlots - w =>
        s[i].magic /\ s[i].version = NumSlots - 1 - Behind(t, i)

AnyHmac(s) == \E i \in Slots : s[i].hmac # None

\* The first cluster of version w makes x the slot that a mount would load.
Ready(s, x, w) ==
    \/ Blank(s) /\ x = 1 /\ w = 1
    \/ Top(s, Before(x), w - 1)
    \/ /\ w = NumSlots - 1
       /\ Top(s, x, VersionSize - 1) /\ Rewritten(s, x, w) /\ AnyHmac(s)

\* Slot i is complete and holds one of the bodies in r.
Holds(s, r, i) ==
    /\ s[i].hmac = GenerateHmacForSuperblock(
                       [version |-> s[i].version, body |-> s[i].body], i)
    /\ s[i].body \in r

\* A complete slot with a body in r is at most k behind t; before the first one is
\* completed, k flushes at least were begun.
Survivor(s, t, v, r, k) ==
    /\ AnyHmac(s) => \E z \in Slots : Holds(s, r, z) /\ Behind(t, z) <= k
    /\ ~AnyHmac(s) => v <= k /\ (r # {} => k >= 1)

\* The same with x out of use.
Elsewhere(s, x, w, r, k) ==
    /\ AnyHmac(s) =>
        \E z \in Slots \ {x} : Holds(s, r, z) /\ Behind(x, z) <= k
    /\ ~AnyHmac(s) => w <= k

HmacsOK ==
    /\ recent \subseteq flushed
    /\ \A i \in Slots : slots[i].hmac # None =>
        slots[i].magic /\ slots[i].hmac.superblock.body \in flushed

BlankOK ==
    /\ Blank(slots)
    /\ m_superblock_index = 0
    /\ m_superblock # None => m_superblock.version = 0
    /\ recent # {} => torn >= 1

LoadedOK ==
    /\ m_superblock # None
    /\ Top(slots, m_superblock_index, m_superblock.version)
    /\ Survivor(slots, m_superblock_index, m_superblock.version, recent, torn)

\* The slot that is written becomes the one that a mount would load.
Appending(x, w) ==
    /\ flush.extra = 0 /\ w >= 1
    /\ IF flush.cluster = 1 THEN Ready(slots, x, w) ELSE Top(slots, x, w)
    /\ Elsewhere(slots, x, w, recent, torn + 1)

\* The version has overflowed and the slot that is written is not the last.
Overflowing(t, x, w) ==
    /\ w <= NumSlots - 2
    /\ Behind(t, x) = NumSlots - 1 - w
    /\ flush.extra = IF w = 0 THEN 0 ELSE NumSlots - 1 - w
    /\ flush.cluster > 1 => slots[x].magic /\ slots[x].version = w
    /\ Top(slots, t, VersionSize - 1)
    /\ Rewritten(slots, t, w)
    /\ \E z \in Slots \ {x} :
        /\ Holds(slots, recent, z)
        /\ \/ Behind(t, z) <= torn
           \/ Behind(t, z) <= torn + 1 /\ Behind(t, z) = NumSlots - w

FlushingOK ==
    /\ m_superblock # None /\ m_superblock.body \in recent
    /\ \A p \in Parts :
        p < flush.cluster =>
            slots[m_superblock_index].body[p] = m_superblock.body[p]
    /\ \/ Appending(m_superblock_index, m_superblock.version)
       \/ \E t \in Slots :
              Overflowing(t, m_superblock_index, m_superblock.version)

RingInv ==
    /\ TypeOK
    /\ HmacsOK
    /\ IF flush = Idle THEN BlankOK \/ LoadedOK ELSE FlushingOK

-----------------------------------------------------------------------------
(* Going around the ring.                                                  *)

LEMMA SlotAfterIsSlot ==
    ASSUME NEW x \in Slots
    PROVE  /\ SlotAfter(x) \in Slots
           /\ SlotAfter(x) # x
           /\ SlotAfter(x) = IF x = NumSlots - 1 THEN 0 ELSE x + 1
           /\ Before(SlotAfter(x)) = x
BY RingAssumption, SMT DEF Slots, SlotAfter, Before

LEMMA BehindIsNat ==
    ASSUME NEW t \in Slots, NEW i \in Slots
    PROVE  /\ Behind(t, i) \in 0..(NumSlots - 1)
           /\ Behind(t, i) = 0 <=> t = i
BY RingAssumption, SMT DEF Slots, Behind

\* The next slot is the one that is farthest behind, and sees the others one
\* farther behind.
LEMMA BehindAfter ==
    ASSUME NEW t \in Slots, NEW i \in Slots
    PROVE  /\ Behind(t, i) = NumSlots - 1 <=> i = SlotAfter(t)
           /\ i # SlotAfter(t) => Behind(SlotAfter(t), i) = Behind(t, i) + 1
BY SlotAfterIsSlot, RingAssumption, SMT DEF Slots, Behind

\* Going on from x # t comes nearer to t.
LEMMA BehindNext ==
    ASSUME NEW t \in Slots, NEW x \in Slots, x # t
    PROVE  Behind(t, SlotAfter(x)) = Behind(t, x) - 1
BY SlotAfterIsSlot, RingAssumption, SMT DEF Slots, Behind

LEMMA BehindInjective ==
    ASSUME NEW t \in Slots, NEW i \in Slots, NEW j \in Slots,
           Behind(t, i) = Behind(t, j)
    PROVE  i = j
BY RingAssumption, SMT DEF Slots, Behind

LEMMA BeforeIsSlot ==
    ASSUME NEW x \in Slots
    PROVE  /\ Before(x) \in Slots
           /\ SlotAfter(Before(x)) = x
<1>1. Before(x) \in Slots
  BY RingAssumption, SMT DEF Slots, Before
<1> QED  BY <1>1, SlotAfterIsSlot, RingAssumption, SMT DEF Slots, Before

-----------------------------------------------------------------------------
(* What a mount loads.                                                     *)

LEMMA HighestIsTop ==
    ASSUME slots \in [Slots -> Slot],
           NEW t \in Slots, NEW v \in Versions, Top(slots, t, v)
    PROVE  /\ Newest = {t}
           /\ Chosen = t
           /\ Loaded = ReadSuperblock(t)
<1>1. ASSUME NEW i \in Slots \ {t}, slots[i].magic
      PROVE  slots[i].version < slots[t].version
  <2>1. slots[i].version \in Nat /\ v \in Nat
    BY DEF Slot, Versions
  <2>2. Behind(t, i) \in 1..(NumSlots - 1)
    BY BehindIsNat, RingAssumption
  <2>3. \/ slots[i].version = v - Behind(t, i)
        \/ v = VersionSize - 1 /\ slots[i].version = NumSlots - 1 - Behind(t, i)
    BY <1>1 DEF Top
  <2>4. slots[t].version = v
    BY DEF Top
  <2> QED  BY <2>1, <2>2, <2>3, <2>4, RingAssumption
<1>2. \A i \in Slots : slots[i].version \in Nat
  BY DEF Slot, Versions
<1>3. slots[t].magic
  BY DEF Top
<1>4. \A i \in Slots : slots[i].magic => slots[i].version <= slots[t].version
  BY <1>1, <1>2
<1>5. t \in Newest
  BY <1>3, <1>4 DEF Newest
<1>6. ASSUME NEW i \in Newest PROVE i = t
  BY <1>1, <1>2, <1>3, <1>6 DEF Newest
<1>7. Newest = {t}
  BY <1>5, <1>6
<1>8. Chosen = t
  BY <1>7 DEF Chosen, Slots
<1> QED  BY <1>7, <1>8 DEF Loaded

LEMMA NothingIsTop ==
    Blank(slots) => Newest = {} /\ Loaded = None
BY DEF Blank, Newest, Loaded

LEMMA ReadIsSuperblock ==
    ASSUME slots \in [Slots -> Slot], NEW i \in Slots
    PROVE  /\ ReadSuperblock(i) \in Superblock
           /\ ReadSuperblock(i).version = slots[i].version
           /\ ReadSuperblock(i).body = slots[i].body
BY DEF ReadSuperblock, Superblock, Slot

LEMMA HmacIsNotNone ==
    ASSUME NEW superblock \in Superblock, NEW i \in Slots
    PROVE  /\ GenerateHmacForSuperblock(superblock, i) \in Hmac
           /\ GenerateHmacForSuperblock(superblock, i) # None
<1>1. GenerateHmacForSuperblock(superblock, i) \in Hmac
  BY DEF GenerateHmacForSuperblock, Hmac
<1> QED  BY <1>1, RingAssumption

LEMMA HoldsHmac ==
    ASSUME NEW s \in [Slots -> Slot], NEW r, NEW i \in Slots, Holds(s, r, i)
    PROVE  AnyHmac(s)
<1>1. [version |-> s[i].version, body |-> s[i].body] \in Superblock
  BY DEF Slot, Superblock
<1> QED  BY <1>1, HmacIsNotNone DEF Holds, AnyHmac

\* What the mount of an image in the ring finds, in the middle of a flush too.
LEMMA MountFinds ==
    ASSUME RingInv
    PROVE  LET k == IF flush = Idle THEN torn ELSE torn + 1
           IN  \/ Blank(slots) /\ (recent # {} => k >= 1)
               \/ \E t \in Slots, v \in Versions :
                      Top(slots, t, v) /\ Survivor(slots, t, v, recent, k)
<1> DEFINE x == m_superblock_index
<1> DEFINE w == m_superblock.version
<1> DEFINE k == IF flush = Idle THEN torn ELSE torn + 1
<1> DEFINE Goal == \/ Blank(slots) /\ (recent # {} => k >= 1)
                   \/ \E t \in Slots, v \in Versions :
                          Top(slots, t, v) /\ Survivor(slots, t, v, recent, k)
<1>1. x \in Slots /\ torn \in Nat
  BY DEF RingInv, TypeOK
<1>2. m_superblock # None => w \in Versions
  BY DEF RingInv, TypeOK, Superblock
<1>3. ASSUME flush = Idle, BlankOK PROVE Goal
  BY <1>3 DEF BlankOK
<1>4. ASSUME flush = Idle, LoadedOK PROVE Goal
  BY <1>1, <1>2, <1>4 DEF LoadedOK
<1>5. ASSUME flush # Idle, m_superblock # None, Appending(x, w) PROVE Goal
  <2>0. w \in Versions /\ w >= 1 /\ k = torn + 1
    BY <1>2, <1>5 DEF Appending
  <2>1. Elsewhere(slots, x, w, recent, k)
    BY <2>0, <1>5 DEF Appending
  <2>2. CASE Top(slots, x, w)
    <3>1. Survivor(slots, x, w, recent, k)
      BY <2>0, <2>1, <1>1 DEF Elsewhere, Survivor
    <3> QED  BY <3>1, <2>2, <2>0, <1>1
  <2>3. CASE Blank(slots)
    BY <2>3, <2>0, <1>1
  <2>4. CASE Top(slots, Before(x), w - 1)
    <3>1. Before(x) \in Slots /\ w - 1 \in Versions
      BY <1>1, <2>0, BeforeIsSlot, RingAssumption DEF Versions
    <3>2. ASSUME NEW z \in Slots \ {x}, Behind(x, z) <= k
          PROVE  Behind(Before(x), z) <= k
      <4>1. SlotAfter(Before(x)) = x
        BY <1>1, BeforeIsSlot
      <4>2. Behind(x, z) = Behind(Before(x), z) + 1
        BY <3>1, <4>1, BehindAfter
      <4>3. Behind(Before(x), z) \in Nat
        BY <3>1, BehindIsNat
      <4> QED  BY <4>2, <4>3, <3>2, <2>0, <1>1
    <3>3. Survivor(slots, Before(x), w - 1, recent, k)
      BY <2>0, <2>1, <3>2, <1>1, RingAssumption DEF Elsewhere, Survivor, Versions
    <3> QED  BY <3>1, <3>3, <2>4
  <2>5. CASE Top(slots, x, VersionSize - 1) /\ AnyHmac(slots)
    <3>1. Survivor(slots, x, VersionSize - 1, recent, k)
      BY <2>1, <2>5 DEF Elsewhere, Survivor
    <3> QED  BY <3>1, <2>5, <1>1, RingAssumption DEF Versions
  <2> QED  BY <2>2, <2>3, <2>4, <2>5, <1>5 DEF Appending, Ready
<1>6. ASSUME flush # Idle, m_superblock # None, NEW t \in Slots,
             Overflowing(t, x, w)
      PROVE  Goal
  <2>1. PICK z \in Slots \ {x} :
            /\ Holds(slots, recent, z)
            /\ Behind(t, z) <= torn \/ Behind(t, z) <= torn + 1
    BY <1>6 DEF Overflowing
  <2>2. Behind(t, z) <= k
    BY <2>1, <1>1, <1>6, BehindIsNat
  <2>3. AnyHmac(slots)
    BY <2>1, HoldsHmac DEF RingInv, TypeOK
  <2>4. Survivor(slots, t, VersionSize - 1, recent, k)
    BY <2>1, <2>2, <2>3 DEF Survivor
  <2> QED  BY <2>4, <1>6, RingAssumption DEF Overflowing, Versions
<1> QED  BY <1>3, <1>4, <1>5, <1>6 DEF RingInv, FlushingOK

-----------------------------------------------------------------------------
(* Every step keeps the invariant.                                         *)

LEMMA MountKeepsRing ==
    ASSUME RingInv, MayCrash, Mount
    PROVE  RingInv'
<1> USE DEF RingInv, TypeOK
<1>1. torn' \in 0..(NumSlots - 2)
  BY RingAssumption DEF MayCrash, Mount
<1>2. HmacsOK'
  BY DEF HmacsOK, Mount
<1>3. flush' = Idle /\ slots' = slots /\ recent' = recent
      /\ torn' = IF flush = Idle THEN torn ELSE torn + 1
  BY DEF Mount
<1>4. CASE Blank(slots) /\ (recent # {} => torn' >= 1)
  <2>1. m_superblock' = None /\ m_superblock_index' = 0
    BY <1>4, NothingIsTop DEF Mount
  <2>2. BlankOK'
    BY <2>1, <1>3, <1>4 DEF BlankOK, Blank
  <2>3. 0 \in Slots
    BY RingAssumption DEF Slots
  <2>4. TypeOK'
    BY <2>1, <2>3, <1>1, <1>3 DEF Mount
  <2> QED  BY <2>2, <2>4, <1>2, <1>3
<1>5. ASSUME NEW t \in Slots, NEW v \in Versions, Top(slots, t, v),
             Survivor(slots, t, v, recent, torn')
      PROVE  RingInv'
  <2>1. m_superblock' = ReadSuperblock(t) /\ m_superblock_index' = t
    BY <1>5, HighestIsTop DEF Mount
  <2>2. m_superblock' \in Superblock /\ m_superblock'.version = v
    BY <2>1, <1>5, ReadIsSuperblock DEF Top
  <2>3. m_superblock' # None
    BY <2>2, RingAssumption
  <2>4. LoadedOK'
    BY <2>1, <2>2, <2>3, <1>3, <1>5 DEF LoadedOK
  <2>5. TypeOK'
    BY <2>1, <2>2, <1>1, <1>3 DEF Mount
  <2> QED  BY <2>4, <2>5, <1>2, <1>3
<1> QED  BY <1>3, <1>4, <1>5, MountFinds

\* Edit and Format change the superblock in memory, but not its version.
LEMMA EditKeepsRing ==
    ASSUME RingInv, flush = Idle,
           m_superblock' \in Superblock,
           m_superblock'.version = IF m_superblock = None THEN 0
                                   ELSE m_superblock.version,
           verified' \in BOOLEAN,
           UNCHANGED <<slots, m_superblock_index, flush, recent, torn, flushed>>
    PROVE  RingInv'
<1>1. TypeOK'
  BY DEF RingInv, TypeOK
<1>2. HmacsOK'
  BY DEF RingInv, HmacsOK
<1>3. m_superblock' # None
  BY RingAssumption
<1>4. ASSUME BlankOK PROVE BlankOK'
  BY <1>4 DEF BlankOK, Blank
<1>5. ASSUME LoadedOK PROVE LoadedOK'
  BY <1>3, <1>5 DEF LoadedOK
<1> QED  BY <1>1, <1>2, <1>4, <1>5 DEF RingInv

LEMMA NothingHasHmac ==
    HmacsOK /\ Blank(slots) => ~AnyHmac(slots)
BY DEF HmacsOK, Blank, AnyHmac

LEMMA FlushSuperblockKeepsRing ==
    ASSUME RingInv, FlushSuperblock
    PROVE  RingInv'
<1> SUFFICES ASSUME NEW x \in Slots, x = m_superblock_index,
                    NEW y \in Slots, y = SlotAfter(x),
                    NEW w \in Versions, w = m_superblock.version
             PROVE  RingInv'
  BY SlotAfterIsSlot DEF RingInv, TypeOK, FlushSuperblock, Superblock
<1>1. /\ x \in Slots /\ y \in Slots /\ torn \in 0..(NumSlots - 2)
      /\ m_superblock \in Superblock /\ w \in Versions
  BY DEF RingInv, TypeOK, FlushSuperblock
<1>2. /\ m_superblock' = [m_superblock EXCEPT !.version = (w + 1) % VersionSize]
      /\ m_superblock_index' = y /\ flush' = [cluster |-> 1, extra |-> 0]
      /\ recent' = recent \cup {m_superblock.body}
      /\ flushed' = flushed \cup {m_superblock.body}
      /\ slots' = slots /\ torn' = torn /\ verified' = verified
  BY DEF FlushSuperblock, Begin
<1>3. (w + 1) % VersionSize = IF w = VersionSize - 1 THEN 0 ELSE w + 1
  BY <1>1, RingAssumption, SMT DEF Versions
<1>4. /\ m_superblock'.version = IF w = VersionSize - 1 THEN 0 ELSE w + 1
      /\ m_superblock'.body = m_superblock.body
      /\ m_superblock' \in Superblock
  BY <1>1, <1>2, <1>3, RingAssumption DEF Superblock, Versions
<1>5. TypeOK'
  <2>1. flush' \in Flush
    BY <1>2, RingAssumption DEF Flush, Parts
  <2>2. m_superblock.body \in Body
    BY <1>1 DEF Superblock
  <2> QED  BY <1>1, <1>2, <1>4, <2>1, <2>2 DEF RingInv, TypeOK
<1>6. HmacsOK'
  BY <1>2 DEF RingInv, HmacsOK
<1>7. /\ flush' # Idle /\ flush'.cluster = 1 /\ flush'.extra = 0
      /\ m_superblock' # None /\ m_superblock'.body \in recent'
      /\ \A p \in Parts : ~(p < flush'.cluster)
  BY <1>2, <1>4, RingAssumption DEF Idle, Parts
<1>8. ASSUME NEW z \in Slots, Holds(slots, recent, z)
      PROVE  Holds(slots, recent', z)
  BY <1>2, <1>8 DEF Holds
<1>9. CASE BlankOK
  <2>1. x = 0 /\ w = 0 /\ Blank(slots)
    BY <1>9 DEF BlankOK, FlushSuperblock
  <2>2. y = 1 /\ m_superblock'.version = 1
    BY <2>1, <1>1, <1>4, SlotAfterIsSlot, RingAssumption
  <2>3. ~AnyHmac(slots)
    BY <2>1, NothingHasHmac DEF RingInv
  <2>4. Appending(1, 1)'
    BY <2>1, <2>3, <1>1, <1>2, <1>7 DEF Appending, Ready, Elsewhere
  <2> QED  BY <2>2, <2>4, <1>2, <1>5, <1>6, <1>7 DEF RingInv, FlushingOK
<1>10. CASE LoadedOK /\ w # VersionSize - 1
  <2>1. m_superblock'.version = w + 1 /\ w \in Nat
    BY <1>1, <1>4, <1>10 DEF Versions
  <2>2. Ready(slots, y, w + 1)
    BY <2>1, <1>1, <1>10, SlotAfterIsSlot DEF LoadedOK, Ready
  <2>3. ASSUME NEW z \in Slots, Behind(x, z) <= torn
        PROVE  z # y /\ Behind(y, z) <= torn + 1
    BY <2>3, <1>1, BehindAfter, BehindIsNat, RingAssumption
  <2>4. Elsewhere(slots, y, w + 1, recent', torn + 1)
    BY <2>1, <2>3, <1>1, <1>8, <1>10 DEF LoadedOK, Survivor, Elsewhere
  <2>5. Appending(y, w + 1)'
    BY <2>1, <2>2, <2>4, <1>2, <1>7 DEF Appending
  <2> QED  BY <2>1, <2>5, <1>2, <1>5, <1>6, <1>7 DEF RingInv, FlushingOK
<1>11. CASE LoadedOK /\ w = VersionSize - 1
  <2>1. m_superblock'.version = 0
    BY <1>4, <1>11
  <2>2. AnyHmac(slots)
    BY <1>1, <1>11, RingAssumption DEF LoadedOK, Survivor
  <2>3. PICK z \in Slots : Holds(slots, recent, z) /\ Behind(x, z) <= torn
    BY <2>2, <1>11 DEF LoadedOK, Survivor
  <2>4. z # y
    BY <2>3, <1>1, BehindAfter, BehindIsNat, RingAssumption
  <2>5. Behind(x, y) = NumSlots - 1
    BY <1>1, BehindAfter
  <2>6. Rewritten(slots, x, 0)
    BY <1>1, BehindIsNat, RingAssumption DEF Rewritten
  <2>7. /\ z \in Slots \ {y}
        /\ Holds(slots', recent', z) /\ Behind(x, z) <= torn'
    BY <2>3, <2>4, <1>2, <1>8
  <2>8. Top(slots', x, VersionSize - 1) /\ Rewritten(slots', x, 0)
    BY <2>6, <1>2, <1>11 DEF LoadedOK
  <2>9. Overflowing(x, y, 0)'
    BY <2>5, <2>7, <2>8, <1>7, RingAssumption DEF Overflowing
  <2> QED  BY <2>1, <2>9, <1>1, <1>2, <1>5, <1>6, <1>7 DEF RingInv, FlushingOK
<1> QED  BY <1>9, <1>10, <1>11 DEF RingInv, FlushSuperblock

LEMMA ClusterWritten ==
    ASSUME slots \in [Slots -> Slot], m_superblock \in Superblock,
           NEW x \in Slots, x = m_superblock_index,
           NEW c \in Parts, WriteCluster(c)
    PROVE  /\ slots' \in [Slots -> Slot]
           /\ \A i \in Slots \ {x} : slots'[i] = slots[i]
           /\ slots'[x].magic
           /\ slots'[x].version = IF c = 1 THEN m_superblock.version
                                  ELSE slots[x].version
           /\ slots'[x].body =
                  [slots[x].body EXCEPT ![c] = m_superblock.body[c]]
           /\ slots'[x].hmac =
                  IF c = NumClusters
                  THEN GenerateHmacForSuperblock(m_superblock, x)
                  ELSE slots[x].hmac
<1> DEFINE new ==
        [magic   |-> TRUE,
         version |-> IF c = 1 THEN m_superblock.version ELSE slots[x].version,
         body    |-> [slots[x].body EXCEPT ![c] = m_superblock.body[c]],
         hmac    |-> IF c = NumClusters
                     THEN GenerateHmacForSuperblock(m_superblock, x)
                     ELSE slots[x].hmac]
<1>1. slots' = [slots EXCEPT ![x] = new]
  BY DEF WriteCluster
<1>2. GenerateHmacForSuperblock(m_superblock, x) \in Hmac
  BY HmacIsNotNone
<1>3. slots[x] \in Slot /\ m_superblock.version \in Versions
      /\ m_superblock.body \in Body
  BY DEF Superblock
<1>4. [slots[x].body EXCEPT ![c] = m_superblock.body[c]] \in Body
  BY <1>3 DEF Slot, Body
<1>5. new \in Slot
  BY <1>2, <1>3, <1>4 DEF Slot
<1>6. slots'[x] = new
  BY <1>1
<1>7. \A i \in Slots \ {x} : slots'[i] = slots[i]
  BY <1>1
<1>8. slots' \in [Slots -> Slot]
  BY <1>1, <1>5
<1> QED  BY <1>6, <1>7, <1>8

\* What does not depend on slot x.
LEMMA OthersStay ==
    ASSUME NEW x \in Slots, NEW s, NEW u,
           \A i \in Slots \ {x} : u[i] = s[i]
    PROVE  \A z \in Slots \ {x} : \A r : Holds(s, r, z) => Holds(u, r, z)
BY DEF Holds

\* The first cluster of a superblock decides what a mount loads.
LEMMA TopWritten ==
    ASSUME NEW x \in Slots, NEW w \in Versions, w >= 1,
           NEW s \in [Slots -> Slot], NEW u \in [Slots -> Slot],
           \A i \in Slots \ {x} : u[i] = s[i],
           u[x].magic, u[x].version = w,
           Ready(s, x, w) \/ Top(s, x, w)
    PROVE  Top(u, x, w)
<1>1. CASE Blank(s)
  BY <1>1 DEF Blank, Top
<1>2. CASE Top(s, x, w)
  BY <1>2 DEF Top
<1>3. CASE Top(s, Before(x), w - 1)
  <2> DEFINE b == Before(x)
  <2>1. b \in Slots /\ SlotAfter(b) = x /\ b # x
    BY BeforeIsSlot, SlotAfterIsSlot
  <2>2. Behind(x, b) = 1
    BY <2>1, BehindAfter, BehindIsNat
  <2>3. u[b].version = w - Behind(x, b)
    BY <2>1, <2>2, <1>3 DEF Top
  <2>4. ASSUME NEW i \in Slots \ {x}, i # b, u[i].magic
        PROVE  u[i].version = w - Behind(x, i)
    <3>1. s[i].version = w - 1 - Behind(b, i)
      BY <2>1, <2>4, <1>3, RingAssumption DEF Top, Versions
    <3>2. Behind(x, i) = Behind(b, i) + 1
      BY <2>1, <2>4, BehindAfter
    <3>3. Behind(b, i) \in Nat /\ w \in Nat
      BY <2>1, BehindIsNat DEF Versions
    <3> QED  BY <3>1, <3>2, <3>3
  <2> QED  BY <2>3, <2>4 DEF Top
<1>4. CASE w = NumSlots - 1 /\ Rewritten(s, x, w)
  <2>1. ASSUME NEW i \in Slots \ {x}
        PROVE  u[i].version = w - Behind(x, i)
    <3>1. Behind(x, i) >= NumSlots - w
      BY <1>4, BehindIsNat, RingAssumption
    <3> QED  BY <3>1, <1>4 DEF Rewritten
  <2> QED  BY <2>1 DEF Top
<1> QED  BY <1>1, <1>2, <1>3, <1>4 DEF Ready

\* In an overflow the writing of another slot leaves the one that is loaded.
LEMMA TopKept ==
    ASSUME NEW t \in Slots, NEW x \in Slots, NEW w \in 0..(NumSlots - 2),
           NEW s \in [Slots -> Slot], NEW u \in [Slots -> Slot],
           \A i \in Slots \ {x} : u[i] = s[i],
           u[x].magic, u[x].version = w,
           Behind(t, x) = NumSlots - 1 - w,
           Top(s, t, VersionSize - 1), Rewritten(s, t, w)
    PROVE  /\ x # t
           /\ Top(u, t, VersionSize - 1)
           /\ Rewritten(u, t, w + 1)
<1>1. x # t
  BY BehindIsNat, RingAssumption
<1>2. u[x].version = NumSlots - 1 - Behind(t, x)
  BY RingAssumption
<1>3. Top(u, t, VersionSize - 1)
  BY <1>1, <1>2 DEF Top
<1>4. ASSUME NEW i \in Slots, Behind(t, i) >= NumSlots - (w + 1), i # x
      PROVE  Behind(t, i) >= NumSlots - w
  BY <1>4, BehindInjective, BehindIsNat, RingAssumption
<1>5. Rewritten(u, t, w + 1)
  BY <1>2, <1>4 DEF Rewritten
<1> QED  BY <1>1, <1>3, <1>5

\* The states of a flush between a cluster and the decision what comes next.
Appended(x, w) ==
    /\ flush.extra = 0 /\ w >= 1
    /\ Top(slots', x, w)
    /\ AnyHmac(slots) =>
        \E z \in Slots \ {x} :
            Holds(slots', recent, z) /\ Behind(x, z) <= torn + 1
    /\ ~AnyHmac(slots) => w <= torn + 1

Overwritten(t, x, w) ==
    /\ w <= NumSlots - 2
    /\ Behind(t, x) = NumSlots - 1 - w
    /\ flush.extra = IF w = 0 THEN 0 ELSE NumSlots - 1 - w
    /\ x # t
    /\ Top(slots, t, VersionSize - 1) /\ Top(slots', t, VersionSize - 1)
    /\ Rewritten(slots', t, w + 1)
    /\ \E z \in Slots \ {x} :
        /\ Holds(slots', recent, z)
        /\ \/ Behind(t, z) <= torn
           \/ Behind(t, z) <= torn + 1 /\ Behind(t, z) = NumSlots - w

\* Cluster after cluster the slot becomes what the flush is to write.
LEMMA WritingCluster ==
    ASSUME RingInv, flush # Idle, WriteCluster(flush.cluster),
           NEW x \in Slots, x = m_superblock_index,
           NEW w \in Versions, w = m_superblock.version
    PROVE  /\ flush.cluster \in Parts
           /\ \A i \in Slots \ {x} : slots'[i] = slots[i]
           /\ slots'[x].magic /\ slots'[x].version = w
           /\ \A p \in Parts : p <= flush.cluster =>
                  slots'[x].body[p] = m_superblock.body[p]
           /\ Appended(x, w) \/ \E t \in Slots : Overwritten(t, x, w)
<1>1. /\ slots \in [Slots -> Slot] /\ flush \in Flush
      /\ m_superblock \in Superblock /\ torn \in Nat
  BY DEF RingInv, TypeOK, FlushingOK
<1>2. flush.cluster \in Parts
  BY <1>1 DEF Flush
<1>3. /\ slots' \in [Slots -> Slot]
      /\ \A i \in Slots \ {x} : slots'[i] = slots[i]
      /\ slots'[x].magic
      /\ slots'[x].version = IF flush.cluster = 1 THEN w
                             ELSE slots[x].version
      /\ slots'[x].body = [slots[x].body EXCEPT
                               ![flush.cluster] = m_superblock.body[flush.cluster]]
  BY <1>1, <1>2, ClusterWritten
<1>4. \/ Appending(x, w)
      \/ \E t \in Slots : Overflowing(t, x, w)
  BY DEF RingInv, FlushingOK
<1>5. slots'[x].version = w
  <2>1. flush.cluster > 1 => slots[x].version = w
    BY <1>2, <1>4 DEF Appending, Overflowing, Top, Parts
  <2> QED  BY <2>1, <1>2, <1>3 DEF Parts
<1>6. ASSUME NEW p \in Parts, p <= flush.cluster
      PROVE  slots'[x].body[p] = m_superblock.body[p]
  <2>1. slots[x].body \in [Parts -> Payload]
    BY <1>1 DEF Slot, Body
  <2>2. p # flush.cluster => slots[x].body[p] = m_superblock.body[p]
    BY <1>2, <1>6 DEF RingInv, FlushingOK, Parts
  <2> QED  BY <2>1, <2>2, <1>2, <1>3
<1>7. ASSUME Appending(x, w) PROVE Appended(x, w)
  <2>1. Ready(slots, x, w) \/ Top(slots, x, w)
    BY <1>7 DEF Appending
  <2>2. Top(slots', x, w)
    BY <2>1, <1>1, <1>3, <1>5, <1>7, TopWritten DEF Appending
  <2> QED  BY <2>2, <1>3, <1>7, OthersStay DEF Appending, Elsewhere, Appended
<1>8. ASSUME NEW t \in Slots, Overflowing(t, x, w) PROVE Overwritten(t, x, w)
  <2>1. w \in 0..(NumSlots - 2)
    BY <1>8, RingAssumption DEF Overflowing, Versions
  <2>2. /\ x # t
        /\ Top(slots', t, VersionSize - 1)
        /\ Rewritten(slots', t, w + 1)
    BY <2>1, <1>1, <1>3, <1>5, <1>8, TopKept DEF Overflowing
  <2> QED  BY <2>2, <1>3, <1>8, OthersStay DEF Overflowing, Overwritten
<1> HIDE DEF Appended, Overwritten
<1> QED  BY <1>2, <1>3, <1>4, <1>5, <1>6, <1>7, <1>8

LEMMA WriteNextClusterKeepsRing ==
    ASSUME RingInv, WriteNextCluster
    PROVE  RingInv'
<1>1. /\ flush # Idle /\ flush.cluster < NumClusters
      /\ WriteCluster(flush.cluster)
      /\ flush' = [flush EXCEPT !.cluster = @ + 1]
      /\ UNCHANGED <<m_superblock, m_superblock_index, recent, torn, flushed,
                     verified>>
  BY DEF WriteNextCluster
<1>2. /\ slots \in [Slots -> Slot] /\ flush \in Flush /\ torn \in Nat
      /\ m_superblock \in Superblock /\ m_superblock # None
      /\ m_superblock.body \in recent
  BY <1>1 DEF RingInv, TypeOK, FlushingOK
<1> SUFFICES ASSUME NEW x \in Slots, x = m_superblock_index,
                    NEW w \in Versions, w = m_superblock.version
             PROVE  RingInv'
  BY <1>2 DEF RingInv, TypeOK, Superblock
<1>3. flush.cluster \in Parts /\ flush.cluster \in Nat /\ flush.cluster >= 1
  BY <1>2 DEF Flush, Parts
<1>4. /\ \A i \in Slots \ {x} : slots'[i] = slots[i]
      /\ slots'[x].magic /\ slots'[x].version = w
      /\ \A p \in Parts : p <= flush.cluster =>
             slots'[x].body[p] = m_superblock.body[p]
      /\ Appended(x, w) \/ \E t \in Slots : Overwritten(t, x, w)
  BY <1>1, WritingCluster
<1>5. slots' \in [Slots -> Slot] /\ slots'[x].hmac = slots[x].hmac
  <2>1. flush.cluster # NumClusters
    BY <1>1, <1>3, RingAssumption
  <2> QED  BY <2>1, <1>1, <1>2, <1>3, ClusterWritten
<1>6. /\ flush' \in Flush /\ flush' # Idle
      /\ flush'.cluster = flush.cluster + 1 /\ flush'.extra = flush.extra
  BY <1>1, <1>2, <1>3, RingAssumption DEF Flush, Parts, Idle
<1>7. AnyHmac(slots') <=> AnyHmac(slots)
  BY <1>4, <1>5 DEF AnyHmac
<1>8. TypeOK'
  BY <1>1, <1>5, <1>6 DEF RingInv, TypeOK
<1>9. HmacsOK'
  BY <1>1, <1>4, <1>5 DEF RingInv, HmacsOK
<1>10. \A p \in Parts : p < flush'.cluster =>
           slots'[x].body[p] = m_superblock.body[p]
  BY <1>3, <1>4, <1>6 DEF Parts
<1>11. ASSUME Appended(x, w) PROVE Appending(x, w)'
  BY <1>1, <1>3, <1>6, <1>7, <1>11 DEF Appended, Appending, Elsewhere
<1>12. ASSUME NEW t \in Slots, Overwritten(t, x, w)
       PROVE  Overflowing(t, x, w)'
  <2>1. Rewritten(slots', t, w)
    BY <1>12, BehindIsNat, RingAssumption
    DEF Overwritten, Rewritten, Versions
  <2> QED  BY <2>1, <1>1, <1>4, <1>6, <1>12 DEF Overwritten, Overflowing
<1> HIDE DEF Appended, Overwritten
<1>13. FlushingOK'
  BY <1>1, <1>2, <1>4, <1>10, <1>11, <1>12 DEF FlushingOK
<1> QED  BY <1>6, <1>8, <1>9, <1>13 DEF RingInv

\* One more superblock follows in an overflow: the slot that survived is left, or
\* the one that was just completed takes its part.
LEMMA NextSurvivor ==
    ASSUME NEW t \in Slots, NEW x \in Slots, NEW y \in Slots,
           NEW w \in 0..(NumSlots - 2), NEW k \in Nat, NEW s, NEW r,
           y = SlotAfter(x), Behind(t, x) = NumSlots - 1 - w,
           Holds(s, r, x),
           NEW z \in Slots \ {x}, Holds(s, r, z),
           \/ Behind(t, z) <= k
           \/ Behind(t, z) <= k + 1 /\ Behind(t, z) = NumSlots - w
    PROVE  \E q \in Slots \ {y} :
               /\ Holds(s, r, q)
               /\ \/ Behind(t, q) <= k
                  \/ Behind(t, q) <= k + 1 /\ Behind(t, q) = NumSlots - (w + 1)
<1>1. x # y /\ x # t
  BY SlotAfterIsSlot, BehindIsNat, RingAssumption
<1>2. Behind(t, y) = NumSlots - 1 - w - 1
  BY <1>1, BehindNext
<1>3. CASE z # y /\ Behind(t, z) <= k
  BY <1>3
<1>4. CASE z = y \/ Behind(t, z) > k
  <2>1. Behind(t, z) \in Nat
    BY BehindIsNat
  <2>2. \/ Behind(t, x) <= k
        \/ Behind(t, x) <= k + 1 /\ Behind(t, x) = NumSlots - (w + 1)
    BY <1>2, <1>4, <2>1, RingAssumption
  <2> QED  BY <1>1, <2>2
<1> QED
  <2>1. Behind(t, z) \in Nat
    BY BehindIsNat
  <2> QED  BY <1>3, <1>4, <2>1

\* With the last cluster the slot holds the superblock, and its HMAC fits.
LEMMA SlotCompleted ==
    ASSUME RingInv, flush # Idle, flush.cluster = NumClusters,
           WriteCluster(flush.cluster),
           NEW x \in Slots, x = m_superblock_index
    PROVE  /\ slots'[x].body = m_superblock.body
           /\ \A r : m_superblock.body \in r => Holds(slots', r, x)
<1> DEFINE w == m_superblock.version
<1>1. slots \in [Slots -> Slot] /\ m_superblock \in Superblock
      /\ w \in Versions /\ m_superblock.body \in [Parts -> Payload]
  BY DEF RingInv, TypeOK, FlushingOK, Superblock, Body
<1>2. NumClusters \in Parts /\ WriteCluster(NumClusters)
  BY RingAssumption DEF Parts
<1>3. /\ slots' \in [Slots -> Slot]
      /\ slots'[x].hmac = GenerateHmacForSuperblock(m_superblock, x)
  BY <1>1, <1>2, ClusterWritten
<1>4. /\ slots'[x].version = w
      /\ \A p \in Parts : p <= NumClusters =>
             slots'[x].body[p] = m_superblock.body[p]
  BY <1>1, WritingCluster
<1>5. slots'[x].body = m_superblock.body
  <2>1. slots'[x].body \in [Parts -> Payload]
    BY <1>3 DEF Slot, Body
  <2>2. \A p \in Parts : slots'[x].body[p] = m_superblock.body[p]
    BY <1>4, RingAssumption DEF Parts
  <2> QED  BY <2>1, <2>2, <1>1
<1>6. m_superblock = [version |-> w, body |-> m_superblock.body]
  BY <1>1 DEF Superblock
<1>7. slots'[x].hmac = GenerateHmacForSuperblock(
          [version |-> slots'[x].version, body |-> slots'[x].body], x)
  BY <1>3, <1>4, <1>5, <1>6
<1> QED  BY <1>5, <1>7 DEF Holds

LEMMA WriteLastClusterKeepsRing ==
    ASSUME RingInv, WriteLastCluster
    PROVE  RingInv'
<1>1. /\ flush # Idle /\ flush.cluster = NumClusters
      /\ WriteCluster(NumClusters) /\ WriteCluster(flush.cluster)
      /\ UNCHANGED <<flushed, verified>>
  BY DEF WriteLastCluster
<1>2. /\ slots \in [Slots -> Slot] /\ flush \in Flush
      /\ torn \in 0..(NumSlots - 2)
      /\ m_superblock \in Superblock /\ m_superblock # None
      /\ m_superblock.body \in recent /\ m_superblock.body \in Body
  BY <1>1 DEF RingInv, TypeOK, FlushingOK, Superblock
<1> SUFFICES ASSUME NEW x \in Slots, x = m_superblock_index,
                    NEW y \in Slots, y = SlotAfter(x),
                    NEW w \in Versions, w = m_superblock.version
             PROVE  RingInv'
  BY <1>2, SlotAfterIsSlot DEF RingInv, TypeOK, Superblock
<1>3. NumClusters \in Parts
  BY RingAssumption DEF Parts
<1>4. /\ \A i \in Slots \ {x} : slots'[i] = slots[i]
      /\ slots'[x].magic /\ slots'[x].version = w
      /\ \A p \in Parts : p <= NumClusters =>
             slots'[x].body[p] = m_superblock.body[p]
      /\ Appended(x, w) \/ \E t \in Slots : Overwritten(t, x, w)
  BY <1>1, WritingCluster
<1>5. /\ slots' \in [Slots -> Slot]
      /\ slots'[x].hmac = GenerateHmacForSuperblock(m_superblock, x)
  BY <1>1, <1>2, <1>3, ClusterWritten
<1>6. slots'[x].body = m_superblock.body
      /\ \A r : m_superblock.body \in r => Holds(slots', r, x)
  BY <1>1, SlotCompleted
<1>8. AnyHmac(slots')
  BY <1>5, <1>6, HoldsHmac
<1>9. recent' \subseteq flushed => HmacsOK'
  <2>1. slots'[x].hmac.superblock.body \in recent
    BY <1>2, <1>5 DEF GenerateHmacForSuperblock
  <2> QED  BY <2>1, <1>1, <1>4 DEF RingInv, HmacsOK
<1>10. CASE Appended(x, w)
  <2>1. flush.extra + ExtraSuperblocks(m_superblock.version) = 0
    BY <1>10 DEF Appended, ExtraSuperblocks, Versions
  <2>2. /\ flush' = Idle /\ recent' = {m_superblock.body} /\ torn' = 0
        /\ m_superblock' = m_superblock
        /\ m_superblock_index' = m_superblock_index
    BY <2>1 DEF WriteLastCluster
  <2>3. TypeOK'
    BY <2>2, <1>1, <1>2, <1>5, RingAssumption DEF RingInv, TypeOK
  <2>4. recent' \subseteq flushed
    BY <2>2, <1>2 DEF RingInv, HmacsOK
  <2>5. Survivor(slots', x, w, recent', torn')
    BY <2>2, <1>6, <1>8, BehindIsNat DEF Survivor
  <2>6. LoadedOK'
    BY <2>2, <2>5, <1>2, <1>10 DEF LoadedOK, Appended
  <2> QED  BY <2>2, <2>3, <2>4, <2>6, <1>9 DEF RingInv
<1>11. ASSUME NEW t \in Slots, Overwritten(t, x, w)
       PROVE  RingInv'
  <2> DEFINE left == flush.extra + ExtraSuperblocks(m_superblock.version)
  <2>1. w \in 0..(NumSlots - 2)
    BY <1>11, RingAssumption DEF Overwritten, Versions
  <2>2. left = NumSlots - 1 - w
    BY <2>1, <1>11, RingAssumption DEF Overwritten, ExtraSuperblocks
  <2>3. /\ m_superblock' = [m_superblock EXCEPT !.version = (@ + 1) % VersionSize]
        /\ m_superblock_index' = y
        /\ flush' = [cluster |-> 1, extra |-> left - 1]
        /\ recent' = recent /\ torn' = torn
    BY <2>1, <2>2, RingAssumption DEF WriteLastCluster, Begin
  <2>4. (w + 1) % VersionSize = w + 1
    BY <2>1, RingAssumption, SMT
  <2>5. /\ m_superblock'.version = w + 1
        /\ m_superblock'.body = m_superblock.body
        /\ m_superblock' \in Superblock /\ m_superblock' # None
    BY <2>1, <2>3, <2>4, <1>2, RingAssumption DEF Superblock, Versions
  <2>6. /\ flush' \in Flush /\ flush' # Idle
        /\ flush'.cluster = 1 /\ flush'.extra = NumSlots - 2 - w
    BY <2>1, <2>2, <2>3, RingAssumption DEF Flush, Parts, Idle
  <2>7. TypeOK'
    BY <2>3, <2>5, <2>6, <1>1, <1>2, <1>5 DEF RingInv, TypeOK
  <2>8. HmacsOK'
    BY <2>3, <1>9 DEF RingInv, HmacsOK
  <2>9. /\ Behind(t, x) = NumSlots - 1 - w /\ x # t
        /\ Behind(t, y) = NumSlots - 2 - w
    BY <2>1, <1>11, BehindNext, RingAssumption DEF Overwritten
  <2>10. PICK q \in Slots \ {y} :
            /\ Holds(slots', recent, q)
            /\ \/ Behind(t, q) <= torn
               \/ Behind(t, q) <= torn + 1 /\ Behind(t, q) = NumSlots - (w + 1)
    <3>1. PICK z \in Slots \ {x} :
            /\ Holds(slots', recent, z)
            /\ \/ Behind(t, z) <= torn
               \/ Behind(t, z) <= torn + 1 /\ Behind(t, z) = NumSlots - w
      BY <1>11 DEF Overwritten
    <3> QED  BY <3>1, <2>1, <2>9, <1>2, <1>6, NextSurvivor
  <2>11. Top(slots', t, VersionSize - 1) /\ Rewritten(slots', t, w + 1)
    BY <1>11 DEF Overwritten
  <2>12. CASE w + 1 = NumSlots - 1
    <3>1. y = t
      BY <2>1, <2>9, <2>12, BehindIsNat, RingAssumption
    <3>2. Ready(slots', y, w + 1)
      BY <3>1, <2>11, <2>12, <1>8 DEF Ready
    <3>3. Behind(y, q) <= torn + 1
      BY <3>1, <2>10, <1>2, BehindIsNat
    <3>4. Elsewhere(slots', y, w + 1, recent, torn + 1)
      BY <3>3, <2>10, <1>8 DEF Elsewhere
    <3>5. Appending(y, w + 1)'
      <4>1. flush'.extra = 0 /\ w + 1 >= 1
        BY <2>1, <2>6, <2>12, RingAssumption
      <4>2. Elsewhere(slots', y, w + 1, recent', torn' + 1)
        BY <3>4, <2>3
      <4> QED  BY <3>2, <4>1, <4>2, <2>6 DEF Appending
    <3>6. FlushingOK'
      BY <3>5, <2>3, <2>5, <2>6, <1>2 DEF FlushingOK, Parts
    <3> QED  BY <3>6, <2>6, <2>7, <2>8 DEF RingInv
  <2>13. CASE w + 1 <= NumSlots - 2
    <3>1. Overflowing(t, y, w + 1)'
      BY <2>1, <2>3, <2>6, <2>9, <2>10, <2>11, <2>13, RingAssumption
      DEF Overflowing
    <3>2. FlushingOK'
      BY <3>1, <2>3, <2>5, <2>6, <1>2 DEF FlushingOK, Parts
    <3> QED  BY <3>2, <2>6, <2>7, <2>8 DEF RingInv
  <2> QED  BY <2>1, <2>12, <2>13, RingAssumption
<1> HIDE DEF Appended, Overwritten
<1> QED  BY <1>4, <1>10, <1>11

LEMMA InitRing ==
    Init => RingInv
<1> SUFFICES ASSUME Init PROVE RingInv
  OBVIOUS
<1>1. PICK byte \in Payload : slots = [i \in Slots |-> BlankSlot(byte)]
  BY DEF Init
<1>2. BlankSlot(byte) \in Slot /\ ~BlankSlot(byte).magic
      /\ BlankSlot(byte).hmac = None
  BY RingAssumption DEF BlankSlot, Slot, Versions, Body
<1>3. 0 \in Slots /\ 0 \in 0..(NumSlots - 2)
  BY RingAssumption DEF Slots
<1>4. TypeOK
  BY <1>1, <1>2, <1>3 DEF Init, TypeOK
<1>5. HmacsOK
  BY <1>1, <1>2 DEF Init, HmacsOK
<1>6. BlankOK
  BY <1>1, <1>2 DEF Init, BlankOK, Blank
<1> QED  BY <1>4, <1>5, <1>6 DEF Init, RingInv

LEMMA NextRing ==
    RingInv /\ [Next]_vars => RingInv'
<1> SUFFICES ASSUME RingInv, [Next]_vars PROVE RingInv'
  OBVIOUS
<1>1. CASE MayCrash /\ Mount
  BY <1>1, MountKeepsRing
<1>2. ASSUME NEW body \in Body, Edit(body) PROVE RingInv'
  <2>1. m_superblock \in Superblock
    BY <1>2 DEF Edit, RingInv, TypeOK
  <2>2. m_superblock' \in Superblock
        /\ m_superblock'.version = m_superblock.version
    BY <2>1, <1>2 DEF Edit, Superblock
  <2> QED  BY <2>2, <1>2, EditKeepsRing DEF Edit, RingInv, TypeOK
<1>3. ASSUME NEW byte \in Payload, Format(byte) PROVE RingInv'
  <2>1. m_superblock # None => m_superblock.version \in Versions
    BY DEF RingInv, TypeOK, Superblock
  <2>2. m_superblock' \in Superblock
        /\ m_superblock'.version = IF m_superblock = None THEN 0
                                   ELSE m_superblock.version
    BY <2>1, <1>3, RingAssumption DEF Format, Superblock, Versions, Body
  <2> QED  BY <2>2, <1>3, EditKeepsRing DEF Format
<1>4. CASE FlushSuperblock
  BY <1>4, FlushSuperblockKeepsRing
<1>5. CASE WriteNextCluster
  BY <1>5, WriteNextClusterKeepsRing
<1>6. CASE WriteLastCluster
  BY <1>6, WriteLastClusterKeepsRing
<1>7. CASE UNCHANGED vars
  BY <1>7 DEF vars, RingInv, TypeOK, HmacsOK, BlankOK, LoadedOK, FlushingOK,
              Appending, Overflowing
<1> QED  BY <1>1, <1>2, <1>3, <1>4, <1>5, <1>6, <1>7 DEF Next

\* Whatever is flushed, torn or mounted, the versions go down by one from the slot
\* of the last flush around the ring, but for the slots torn since: low_level.cpp
\* takes the slot after the last one for each flush, and the next version for it.
THEOREM RingStaysInOrder == Spec => []RingInv
BY InitRing, NextRing, PTL DEF Spec

\* Every version, index and count stays in its range: low_level.cpp counts the
\* index modulo the number of slots and lets the version overflow.
THEOREM TypesHold == Spec => []TypeOK
<1>1. RingInv => TypeOK
  BY DEF RingInv
<1> QED  BY <1>1, RingStaysInOrder, PTL

\* Between two flushes GetSuperblock finds what the last one wrote, with its HMAC,
\* however often the version overflowed.
THEOREM MountsFindLastFlush == Spec => []MountFindsLastFlush
<1>1. RingInv => MountFindsLastFlush
  <2> SUFFICES ASSUME RingInv, flush = Idle, torn = 0, recent # {}
               PROVE  Loaded.body \in recent /\ Verified(Chosen)
    BY DEF MountFindsLastFlush
  <2> DEFINE x == m_superblock_index
  <2>1. LoadedOK
    BY DEF RingInv, BlankOK
  <2>2. x \in Slots /\ m_superblock.version \in Versions
        /\ slots \in [Slots -> Slot]
    BY <2>1 DEF RingInv, TypeOK, LoadedOK, Superblock
  <2>3. Loaded = ReadSuperblock(x) /\ Chosen = x
    BY <2>1, <2>2, HighestIsTop DEF LoadedOK
  <2>4. AnyHmac(slots)
    BY <2>1 DEF LoadedOK, Survivor
  <2>5. PICK z \in Slots : Holds(slots, recent, z) /\ Behind(x, z) <= 0
    BY <2>1, <2>4 DEF LoadedOK, Survivor
  <2>6. z = x
    BY <2>2, <2>5, BehindIsNat
  <2> QED  BY <2>3, <2>5, <2>6 DEF Holds, Verified, ReadSuperblock
<1> QED  BY <1>1, RingStaysInOrder, PTL

\* At every moment some slot holds in full what the last completed flush wrote or
\* a later one was to write: FlushSuperblock never writes the last such slot.
THEOREM SomeSlotAlwaysSurvives == Spec => []SomeSlotSurvives
<1>1. RingInv => SomeSlotSurvives
  <2> SUFFICES ASSUME RingInv, AnyHmac(slots)
               PROVE  \E i \in Slots : Holds(slots, recent, i)
    BY DEF SomeSlotSurvives, AnyHmac, Holds, Verified, ReadSuperblock
  <2>1. CASE flush = Idle
    BY <2>1, NothingHasHmac DEF RingInv, BlankOK, LoadedOK, Survivor
  <2>2. CASE flush # Idle
    BY <2>2 DEF RingInv, FlushingOK, Appending, Elsewhere, Overflowing
  <2> QED  BY <2>1, <2>2
<1> QED  BY <1>1, RingStaysInOrder, PTL

-----------------------------------------------------------------------------
(* The ring implements SuperblockStore.                                    *)

\* The place of SuperblockStore is the slot that a mount would load.
StoreIsTop ==
    \A t \in Slots, v \in Versions : Top(slots, t, v) =>
        /\ Stored = slots[t].body
        /\ Valid = Holds(slots, {slots[t].body}, t)
        /\ Valid => slots[t].body \in flushed

LEMMA StoreFollowsTop ==
    RingInv => StoreIsTop
<1> SUFFICES ASSUME RingInv,
                    NEW t \in Slots, NEW v \in Versions, Top(slots, t, v)
             PROVE  /\ Stored = slots[t].body
                    /\ Valid = Holds(slots, {slots[t].body}, t)
                    /\ Valid => slots[t].body \in flushed
  BY DEF StoreIsTop
<1>1. slots \in [Slots -> Slot]
  BY DEF RingInv, TypeOK
<1>2. Newest = {t} /\ Chosen = t /\ Loaded = ReadSuperblock(t)
  BY <1>1, HighestIsTop
<1>3. Stored = slots[t].body
  BY <1>1, <1>2, ReadIsSuperblock DEF Stored
<1>4. Valid = Holds(slots, {slots[t].body}, t)
  BY <1>2, Zenon DEF Valid, Holds, Verified, ReadSuperblock
<1>5. ASSUME Valid PROVE slots[t].body \in flushed
  <2> DEFINE superblock == [version |-> slots[t].version, body |-> slots[t].body]
  <2>1. slots[t].hmac = GenerateHmacForSuperblock(superblock, t)
    BY <1>4, <1>5 DEF Holds
  <2>2. slots[t].hmac.superblock.body = slots[t].body
    BY <2>1 DEF GenerateHmacForSuperblock
  <2>3. slots[t].hmac # None
    BY <1>1, <2>1, HmacIsNotNone DEF Superblock, Slot
  <2> QED  BY <2>2, <2>3 DEF RingInv, HmacsOK
<1> QED  BY <1>3, <1>4, <1>5

\* The place depends on the slots alone.
LEMMA StoreKept ==
    slots' = slots => Stored' = Stored /\ Valid' = Valid
BY DEF Stored, Valid, Loaded, Newest, Chosen, Verified, ReadSuperblock

LEMMA InitStore ==
    Init => Store!Init
<1> SUFFICES ASSUME Init PROVE Store!Init
  OBVIOUS
<1>1. Blank(slots)
  BY DEF Init, Blank, BlankSlot
<1>2. Stored = None /\ Valid = FALSE
  BY <1>1, NothingIsTop DEF Stored, Valid
<1> QED  BY <1>2 DEF Init, Store!Init, Memory

LEMMA MountStore ==
    ASSUME RingInv, MayCrash, Mount
    PROVE  Store!Mount
<1>1. Stored' = Stored /\ Valid' = Valid
  BY StoreKept DEF Mount
<1>2. Newest # {} => Loaded # None
  <2>1. CASE Blank(slots)
    BY <2>1, NothingIsTop
  <2>2. ASSUME NEW t \in Slots, NEW v \in Versions, Top(slots, t, v)
        PROVE  Loaded # None
    BY <2>2, HighestIsTop, ReadIsSuperblock, RingAssumption
    DEF RingInv, TypeOK
  <2> QED  BY <2>1, <2>2, MountFinds
<1>3. Memory' = Stored
  BY <1>2 DEF Mount, Memory, Stored, Loaded
<1> QED  BY <1>1, <1>3 DEF Mount, Store!Mount

LEMMA EditStore ==
    ASSUME m_superblock' \in Superblock, flush = Idle,
           UNCHANGED <<slots, flush, flushed>>
    PROVE  Store!Edit
<1>1. Memory' \in Body
  BY RingAssumption DEF Memory, Superblock
<1> QED  BY <1>1, StoreKept DEF Store!Edit

LEMMA FlushSuperblockStore ==
    ASSUME RingInv, FlushSuperblock
    PROVE  Store!BeginFlush
<1>1. m_superblock \in Superblock /\ m_superblock # None
  BY DEF RingInv, TypeOK, FlushSuperblock
<1>2. m_superblock' = [m_superblock EXCEPT
                           !.version = (m_superblock.version + 1) % VersionSize]
      /\ flush' # Idle
  BY DEF FlushSuperblock, Begin, Idle
<1>3. m_superblock' \in Superblock /\ m_superblock'.body = m_superblock.body
  BY <1>1, FlushSuperblockKeepsRing, <1>2
  DEF RingInv, TypeOK, FlushingOK, Superblock
<1>4. Memory = m_superblock.body /\ Memory' = Memory /\ Memory # None
  BY <1>1, <1>3, RingAssumption DEF Memory, Superblock
<1> QED  BY <1>2, <1>4, StoreKept DEF FlushSuperblock, Store!BeginFlush

LEMMA TopKeptStore ==
    ASSUME StoreIsTop, StoreIsTop',
           NEW t \in Slots, NEW v \in Versions,
           Top(slots, t, v), Top(slots', t, v), slots'[t] = slots[t]
    PROVE  Stored' = Stored /\ Valid' = Valid
<1>1. Stored' = slots[t].body /\ Stored = slots[t].body
  BY DEF StoreIsTop
<1>2. /\ Valid' = Holds(slots', {slots[t].body}, t)
      /\ Valid = Holds(slots, {slots[t].body}, t)
  BY Zenon DEF StoreIsTop
<1>3. Holds(slots', {slots[t].body}, t) = Holds(slots, {slots[t].body}, t)
  BY Zenon DEF Holds
<1> QED  BY <1>1, <1>2, <1>3

\* A cluster of the slot that becomes or is the newest tears the place, or in an
\* overflow leaves it alone.
LEMMA WriteNextClusterStore ==
    ASSUME RingInv, WriteNextCluster
    PROVE  Store!Tear \/ UNCHANGED Store!vars
<1>1. /\ flush # Idle /\ flush' # Idle /\ WriteCluster(flush.cluster)
      /\ UNCHANGED <<m_superblock, m_superblock_index, flushed>>
      /\ flush.cluster \in Parts
  BY DEF WriteNextCluster, RingInv, TypeOK, Flush, Idle, Parts
<1>2. m_superblock \in Superblock /\ m_superblock # None
  BY <1>1 DEF RingInv, TypeOK, FlushingOK
<1> SUFFICES ASSUME NEW x \in Slots, x = m_superblock_index,
                    NEW w \in Versions, w = m_superblock.version
             PROVE  Store!Tear \/ UNCHANGED Store!vars
  BY <1>2 DEF RingInv, TypeOK, Superblock
<1>3. Memory' = Memory /\ Memory = m_superblock.body
  BY <1>1, <1>2 DEF Memory
<1>4. StoreIsTop
  BY StoreFollowsTop
<1>5. StoreIsTop'
  <2>1. RingInv'
    BY WriteNextClusterKeepsRing
  <2> QED  BY <2>1, StoreFollowsTop, PTL
<1>6. CASE Appended(x, w)
  <2>1. /\ Stored' = slots'[x].body
        /\ Valid' \in BOOLEAN
        /\ Valid' => slots'[x].body \in flushed
    BY <1>1, <1>5, <1>6 DEF Appended, StoreIsTop, Holds
  <2>2. slots'[x].body \in Body /\ m_superblock.body \in Body
    BY <1>1, <1>2, WriteNextClusterKeepsRing DEF RingInv, TypeOK, Slot, Superblock
  <2>3. 1 \in Parts /\ 1 <= flush.cluster
    BY <1>1, RingAssumption DEF Parts
  <2>4. slots'[x].body[1] = m_superblock.body[1]
    BY <2>3, <1>1, WritingCluster
  <2>5. <<slots'[x].body, m_superblock.body>> \in TornFrom
    BY <2>2, <2>4 DEF TornFrom
  <2> QED  BY <2>1, <2>2, <2>5, <1>1, <1>3 DEF Store!Tear
<1>7. ASSUME NEW t \in Slots, Overwritten(t, x, w)
      PROVE  UNCHANGED Store!vars
  <2>1. slots'[t] = slots[t]
    BY <1>1, <1>7, WritingCluster DEF Overwritten
  <2>2. Stored' = Stored /\ Valid' = Valid
    BY <2>1, <1>4, <1>5, <1>7, TopKeptStore, RingAssumption
    DEF Overwritten, Versions
  <2> QED  BY <2>2, <1>1, <1>3 DEF Store!vars
<1> HIDE DEF Appended, Overwritten
<1> QED  BY <1>1, <1>6, <1>7, WritingCluster

\* The last cluster of the newest slot is the moment in which the flush takes
\* effect.
LEMMA WriteLastClusterStore ==
    ASSUME RingInv, WriteLastCluster
    PROVE  Store!Commit \/ UNCHANGED Store!vars
<1>1. /\ flush # Idle /\ WriteCluster(flush.cluster)
      /\ flush.cluster = NumClusters /\ UNCHANGED flushed
  BY DEF WriteLastCluster
<1>2. m_superblock \in Superblock /\ m_superblock # None
  BY <1>1 DEF RingInv, TypeOK, FlushingOK
<1> SUFFICES ASSUME NEW x \in Slots, x = m_superblock_index,
                    NEW w \in Versions, w = m_superblock.version
             PROVE  Store!Commit \/ UNCHANGED Store!vars
  BY <1>2 DEF RingInv, TypeOK, Superblock
<1>3. Memory = m_superblock.body
  BY <1>2 DEF Memory
<1>4. RingInv'
  BY WriteLastClusterKeepsRing
<1>5. StoreIsTop /\ StoreIsTop'
  BY <1>4, StoreFollowsTop, PTL
<1>6. m_superblock' # None /\ m_superblock'.body = m_superblock.body
  <2>1. m_superblock'.body = m_superblock.body
    BY <1>2 DEF WriteLastCluster, Begin, Superblock
  <2>2. m_superblock' # None
    BY <1>2, <1>4 DEF RingInv, TypeOK, WriteLastCluster, Begin, FlushingOK, Idle
  <2> QED  BY <2>1, <2>2
<1>7. Memory' = Memory
  BY <1>3, <1>6 DEF Memory
<1>8. CASE Appended(x, w)
  <2>1. slots'[x].body = m_superblock.body
        /\ Holds(slots', {slots'[x].body}, x)
    BY <1>1, SlotCompleted
  <2>2. Stored' = m_superblock.body /\ Valid' = TRUE
    BY <2>1, <1>5, <1>8 DEF Appended, StoreIsTop, Holds
  <2> QED  BY <2>2, <1>1, <1>3, <1>7 DEF Store!Commit
<1>9. ASSUME NEW t \in Slots, Overwritten(t, x, w)
      PROVE  UNCHANGED Store!vars
  <2>1. slots'[t] = slots[t]
    BY <1>1, <1>9, WritingCluster DEF Overwritten
  <2>2. Stored' = Stored /\ Valid' = Valid
    BY <2>1, <1>5, <1>9, TopKeptStore, RingAssumption
    DEF Overwritten, Versions
  <2>3. flush.extra + ExtraSuperblocks(w) > 0
    BY <1>9, RingAssumption DEF Overwritten, ExtraSuperblocks, Versions
  <2>4. flush' # Idle
    BY <2>3 DEF WriteLastCluster, Begin, Idle
  <2> QED  BY <2>2, <2>4, <1>1, <1>7 DEF Store!vars
<1> HIDE DEF Appended, Overwritten
<1> QED  BY <1>1, <1>8, <1>9, WritingCluster

\* The clusters, slots and versions of low_level.cpp are one place that is
\* replaced at once, or torn: every step of the ring is one of SuperblockStore, or
\* changes nothing there.
THEOREM RingImplementsStore == Spec => ImplementsStore
<1>1. RingInv /\ [Next]_vars => [Store!Next]_(Store!vars)
  <2> SUFFICES ASSUME RingInv, [Next]_vars
               PROVE  Store!Next \/ UNCHANGED Store!vars
    OBVIOUS
  <2>1. CASE MayCrash /\ Mount
    BY <2>1, MountStore DEF Store!Next
  <2>2. ASSUME NEW body \in Body, Edit(body) PROVE Store!Next
    <3>1. m_superblock' \in Superblock
      BY <2>2 DEF Edit, RingInv, TypeOK, Superblock
    <3> QED  BY <3>1, <2>2, EditStore DEF Edit, Store!Next
  <2>3. ASSUME NEW byte \in Payload, Format(byte) PROVE Store!Next
    <3>1. m_superblock' \in Superblock
      BY <2>3, RingAssumption
      DEF Format, RingInv, TypeOK, Superblock, Versions, Body
    <3> QED  BY <3>1, <2>3, EditStore DEF Format, Store!Next
  <2>4. CASE FlushSuperblock
    BY <2>4, FlushSuperblockStore DEF Store!Next
  <2>5. CASE WriteNextCluster
    BY <2>5, WriteNextClusterStore DEF Store!Next
  <2>6. CASE WriteLastCluster
    BY <2>6, WriteLastClusterStore DEF Store!Next
  <2>7. CASE UNCHANGED vars
    BY <2>7, StoreKept DEF vars, Store!vars, Memory
  <2> QED  BY <2>1, <2>2, <2>3, <2>4, <2>5, <2>6, <2>7 DEF Next
<1> QED  BY <1>1, InitStore, RingStaysInOrder, PTL
         DEF Spec, ImplementsStore, Store!Spec
=============================================================================
