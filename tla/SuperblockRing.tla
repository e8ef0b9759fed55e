--------------------------- MODULE SuperblockRing ---------------------------
(***************************************************************************)
(* The ring of superblocks at the end of the NAND (low_level.cpp).         *)
(* FlushSuperblock writes the superblock in memory to the next slot of the *)
(* ring, cluster after cluster, the HMAC with the last one; GetSuperblock  *)
(* loads the slot of the highest version.  The process may stop between    *)
(* any two clusters; the next one mounts what it finds.                    *)
(*                                                                         *)
(* A superblock is its version and, for each of its clusters, a value that *)
(* stands for the part of the FAT and the FST in it.  The first cluster    *)
(* holds the magic and the version too.  WriteCluster fails for no cluster *)
(* below 0x8000, so that the retries of FlushSuperblock are never used.    *)
(***************************************************************************)
EXTENDS Integers, FiniteSets

CONSTANTS
    NumSlots,     \* NUMBER_OF_SUPERBLOCKS (16)
    NumClusters,  \* CLUSTERS_PER_SUPERBLOCK (16)
    VersionSize,  \* 2^32: versions are u32
    Payload,      \* the values of a part of the metadata
    None          \* no superblock in memory, no HMAC in a slot

VARIABLES
    slots,        \* the superblocks on the NAND
    m_superblock, \* the superblock in memory
    m_superblock_index,
    flush,        \* the progress of FlushSuperblock
    recent,       \* the metadata that the last completed flush wrote, and what
                  \* the flushes begun since then were to write
    torn,         \* how many of these were stopped by a crash
    flushed,      \* the metadata that any flush so far was to write
    verified      \* m_superblock passed the check when it was loaded, or was
                  \* made by Format

vars == <<slots, m_superblock, m_superblock_index, flush, recent, torn,
          flushed, verified>>

Slots    == 0..(NumSlots - 1)
Parts    == 1..NumClusters
Versions == 0..(VersionSize - 1)
Body     == [Parts -> Payload]

Superblock == [version : Versions, body : Body]

\* The HMAC of a superblock, salted with the place of its slot.
GenerateHmacForSuperblock(superblock, index) ==
    [index |-> index, superblock |-> superblock]

Hmac == [index : Slots, superblock : Superblock]

Slot == [magic : BOOLEAN, version : Versions, body : Body,
         hmac : Hmac \cup {None}]

ASSUME RingAssumption ==
    /\ NumSlots \in Nat /\ NumSlots >= 2
    /\ NumClusters \in Nat \ {0}
    /\ VersionSize \in Nat /\ VersionSize > NumSlots
    /\ None \notin Body \cup Superblock \cup Hmac

\* What the place of a slot holds that was never written.
BlankSlot(byte) == [magic |-> FALSE, version |-> 0,
                    body |-> [p \in Parts |-> byte], hmac |-> None]

\* cluster is written next, then `extra' more superblocks.
Flush == [cluster : Parts, extra : 0..(NumSlots - 1)]
Idle  == [cluster |-> 0, extra |-> 0]

-----------------------------------------------------------------------------
(* GetSuperblock on an image that was not read yet.                        *)

\* ReadSuperblock puts the clusters of a slot together as they are.
ReadSuperblock(i) == [version |-> slots[i].version, body |-> slots[i].body]

\* A plausible bug: the oldest superblock is loaded.
NewestMutant ==
    {i \in Slots : slots[i].magic /\
        \A j \in Slots : slots[j].magic => slots[i].version <= slots[j].version}

\* The slots of the highest version.
Newest ==
    {i \in Slots : slots[i].magic /\
        \A j \in Slots : slots[j].magic => slots[j].version <= slots[i].version}

\* The slot that is loaded: of equal versions, the last one.
Chosen == CHOOSE i \in Newest : \A j \in Newest : j <= i

Loaded == IF Newest = {} THEN None ELSE ReadSuperblock(Chosen)

Verified(i) ==
    slots[i].hmac = GenerateHmacForSuperblock(ReadSuperblock(i), i)

\* A new FileSystemImpl on the image, maybe after a crash.  When the HMAC is
\* wrong GetSuperblock returns null, but only the first time, to the constructor:
\* m_superblock was assigned, and every call of the client gets it.
Mount ==
    /\ m_superblock' = Loaded
    /\ m_superblock_index' = IF Newest = {} THEN 0 ELSE Chosen
    /\ flush' = Idle
    /\ torn' = IF flush = Idle THEN torn ELSE torn + 1
    /\ verified' = (Newest # {} /\ Verified(Chosen))
    /\ UNCHANGED <<slots, recent, flushed>>

-----------------------------------------------------------------------------
(* Changing the metadata, and FlushSuperblock.                             *)

\* A call of fs.cpp or file.cpp edits the superblock in memory, if there is one.
Edit(body) ==
    /\ flush = Idle /\ m_superblock # None
    /\ m_superblock' = [m_superblock EXCEPT !.body = body]
    /\ UNCHANGED <<slots, m_superblock_index, flush, recent, torn, flushed,
                   verified>>

\* Format makes a superblock when there is none, and a new FAT and FST.
Format(byte) ==
    /\ flush = Idle
    /\ m_superblock' = [version |-> IF m_superblock = None THEN 0
                                    ELSE m_superblock.version,
                        body |-> [p \in Parts |-> byte]]
    /\ verified' = TRUE
    /\ UNCHANGED <<slots, m_superblock_index, flush, recent, torn, flushed>>

\* A plausible bug: the slot that was loaded is written again.
SlotAfterMutant(index) == index

\* A plausible bug: the ring has no end.
SlotAfterUnwrapped(index) == index + 1

SlotAfter(index) == (index + 1) % NumSlots

\* The beginning of FlushSuperblock, up to its first WriteCluster.
Begin(extra) ==
    /\ m_superblock' = [m_superblock EXCEPT !.version = (@ + 1) % VersionSize]
    /\ m_superblock_index' = SlotAfter(m_superblock_index)
    /\ flush' = [cluster |-> 1, extra |-> extra]

FlushSuperblock ==
    /\ flush = Idle /\ m_superblock # None
    /\ Begin(0)
    /\ recent' = recent \cup {m_superblock.body}
    /\ flushed' = flushed \cup {m_superblock.body}
    /\ UNCHANGED <<slots, torn, verified>>

\* Cluster c of the superblock in memory is written to its slot.
WriteCluster(c) ==
    slots' = [slots EXCEPT ![m_superblock_index] =
        [magic   |-> TRUE,
         version |-> IF c = 1 THEN m_superblock.version ELSE @.version,
         body    |-> [@.body EXCEPT ![c] = m_superblock.body[c]],
         hmac    |-> IF c = NumClusters
                     THEN GenerateHmacForSuperblock(m_superblock,
                                                    m_superblock_index)
                     ELSE @.hmac]]

\* A plausible bug: one superblock of an earlier round is left.
ExtraSuperblocksMutant(version) == IF version = 0 THEN NumSlots - 2 ELSE 0

\* A plausible bug: every superblock is followed by another.
ExtraSuperblocksEndless(version) == 1

\* After an overflow of the version the other slots are overwritten as well.
ExtraSuperblocks(version) == IF version = 0 THEN NumSlots - 1 ELSE 0

WriteNextCluster ==
    /\ flush # Idle
    /\ flush.cluster < NumClusters
    /\ WriteCluster(flush.cluster)
    /\ flush' = [flush EXCEPT !.cluster = @ + 1]
    /\ UNCHANGED <<m_superblock, m_superblock_index, recent, torn, flushed,
                   verified>>

\* The last cluster, and the decision whether more superblocks follow.
WriteLastCluster ==
    LET left == flush.extra + ExtraSuperblocks(m_superblock.version)
    IN  /\ flush # Idle
        /\ flush.cluster = NumClusters
        /\ WriteCluster(NumClusters)
        /\ IF left > 0
           THEN Begin(left - 1) /\ UNCHANGED <<recent, torn>>
           ELSE /\ flush' = Idle
                /\ recent' = {m_superblock.body}
                /\ torn' = 0
                /\ UNCHANGED <<m_superblock, m_superblock_index>>
        /\ UNCHANGED <<flushed, verified>>

-----------------------------------------------------------------------------

\* An image without a superblock.
Init ==
    /\ \E byte \in Payload : slots = [i \in Slots |-> BlankSlot(byte)]
    /\ m_superblock = None
    /\ m_superblock_index = 0
    /\ flush = Idle
    /\ recent = {}
    /\ torn = 0
    /\ flushed = {}
    /\ verified = FALSE

\* A crash counts only as long as another slot is left (MayCrash).
MayCrash == flush = Idle \/ torn < NumSlots - 2

Next == \/ MayCrash /\ Mount
        \/ \E body \in Body : Edit(body)
        \/ \E byte \in Payload : Format(byte)
        \/ FlushSuperblock
        \/ WriteNextCluster
        \/ WriteLastCluster

\* Nothing makes the client call, but FlushSuperblock runs to its end unless the
\* process stops.
Spec == Init /\ [][Next]_vars /\ WF_vars(WriteNextCluster)
                              /\ WF_vars(WriteLastCluster)

-----------------------------------------------------------------------------
(* Properties.                                                             *)

\* Every variable stays in its range: a version fits 32 bits, an index a slot.
TypeOK ==
    /\ slots \in [Slots -> Slot]
    /\ m_superblock \in Superblock \cup {None}
    /\ m_superblock_index \in Slots
    /\ flush \in Flush \cup {Idle}
    /\ recent \subseteq Body
    /\ torn \in 0..(NumSlots - 2)
    /\ flushed \subseteq Body
    /\ verified \in BOOLEAN

\* Between two flushes a mount finds what the last one wrote, and its HMAC is
\* right: also after the version overflowed, when the older superblocks would
\* have the higher versions.
MountFindsLastFlush ==
    flush = Idle /\ torn = 0 /\ recent # {} =>
        Loaded.body \in recent /\ Verified(Chosen)

\* Once a flush has completed there is at every moment, so in every crash, a slot
\* that holds in full what it wrote or what a later flush was to write.
SomeSlotSurvives ==
    (\E i \in Slots : slots[i].hmac # None) =>
        \E i \in Slots : Verified(i) /\ slots[i].body \in recent

\* FlushSuperblock ends, with all its recursive calls, or the process does.
FlushEnds == flush # Idle ~> flush = Idle

\* The metadata the driver works on have passed the check of their HMAC, or were
\* made by Format.
OnlyVerifiedUsed == m_superblock # None => verified

\* What can be torn out of a flush: a superblock becomes the newest with its first
\* cluster, and the others follow.  In its place was another one before.
TornFrom == {pair \in Body \X Body : pair[1][1] = pair[2][1]}

\* What a mount would load, and the metadata in memory.
Memory == IF m_superblock = None THEN None ELSE m_superblock.body
Stored == IF Newest = {} THEN None ELSE Loaded.body
Valid  == Newest # {} /\ Verified(Chosen)

\* The ring implements the single place of SuperblockStore: after overflows of the
\* version and crashes too, what a mount finds is what it would have found before
\* the flush that was running, or what this flush was to write, or something torn.
\* What is torn fails its check, or is as a whole what some flush wrote: the HMAC
\* of an earlier superblock in the slot, left by torn flushes since then, fits again
\* when its version comes again after an overflow.
Store == INSTANCE SuperblockStore WITH
    Bodies   <- Body,
    Torn     <- TornFrom,
    memory   <- Memory,
    stored   <- Stored,
    valid    <- Valid,
    flushing <- flush # Idle

ImplementsStore == Store!Spec
=============================================================================
