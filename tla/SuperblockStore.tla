--------------------------- MODULE SuperblockStore ---------------------------
(***************************************************************************)
(* What the superblocks promise, taken together: one place on the NAND     *)
(* that holds the metadata.  A flush replaces its content, and until it    *)
(* has done so the place holds what it held before or something torn, which *)
(* passes its check only if it is what an earlier flush wrote; a mount     *)
(* loads whatever is there; a crash loses the edits since the last flush,  *)
(* and no more unless it tears one.                                        *)
(***************************************************************************)
CONSTANTS Bodies, \* the metadata: all of a superblock but its version
          Torn,   \* <<b, m>>: b can be torn out of the writing of m
          None    \* there is no superblock

VARIABLES memory,   \* the metadata the driver works on
          stored,   \* the metadata on the NAND
          valid,    \* they pass the check of their HMAC
          flushing, \* FlushSuperblock is running
          flushed   \* what the flushes so far were to write

vars == <<memory, stored, valid, flushing, flushed>>

Init == memory = None /\ stored = None /\ valid = FALSE /\ flushing = FALSE
        /\ flushed = {}

Edit == /\ ~flushing
        /\ memory' \in Bodies
        /\ UNCHANGED <<stored, valid, flushing, flushed>>

BeginFlush == /\ ~flushing /\ memory # None
              /\ flushing' = TRUE
              /\ flushed' = flushed \cup {memory}
              /\ UNCHANGED <<memory, stored, valid>>

\* A part of the metadata is written.  What passes its check then is, as a whole,
\* what was once to be written.
Tear == /\ flushing
        /\ stored' \in Bodies /\ <<stored', memory>> \in Torn
        /\ valid' \in BOOLEAN /\ (valid' => stored' \in flushed)
        /\ UNCHANGED <<memory, flushing, flushed>>

\* The flush takes effect, and may end with it.
Commit == /\ flushing
          /\ stored' = memory /\ valid' = TRUE
          /\ flushing' \in BOOLEAN
          /\ UNCHANGED <<memory, flushed>>

Mount == /\ memory' = stored
         /\ flushing' = FALSE
         /\ UNCHANGED <<stored, valid, flushed>>

Next == Edit \/ BeginFlush \/ Tear \/ Commit \/ Mount

Spec == Init /\ [][Next]_vars
=============================================================================
