------------------------------ MODULE MCFormats ------------------------------
(***************************************************************************)
(* The formats of the driver, for TLC: the image, an FST entry and a path. *)
(* They have nothing to do with each other, and a behaviour is about one   *)
(* of them, so that their state spaces add up.                             *)
(***************************************************************************)
EXTENDS NandImage, PathStrings, TLC

VARIABLE subject

Blank == ImageInit /\ EntryInit /\ path = <<>>

Init ==
    \/ subject \in {"image", "entry"} /\ Blank
    \/ subject = "path" /\ ImageInit /\ EntryInit /\ PathInit

\* Nothing happens to a path.
Next ==
    /\ UNCHANGED <<subject, path>>
    /\ \/ subject = "image" /\ ImageNext /\ UNCHANGED raw
       \/ subject = "entry" /\ EntryNext /\ UNCHANGED imageVars
       \/ subject = "path" /\ UNCHANGED <<raw, imageVars>>

Spec == Init /\ [][Next]_<<subject, imageVars, raw, path>>

-----------------------------------------------------------------------------

\* A rotation of the bits and the change of some: no block is mapped to itself.
MCBlockCipher ==
    [block \in Byte |-> Differ({(k + 3) % 8 : k \in block}, {0, 1, 5})]

\* Four bytes per page and two pages; the bits differ from byte to byte.
MCContents ==
    {[k \in 1..12 |-> {}], [k \in 1..12 |-> ByteOf(37 * k + 11)]}

MCNames == {<<97>>, <<97, 98, 97>>}

Full == {"Read", "Write"}
MCAccesses ==
    {<<Full, {"Read"}, {}>>, <<{"Read"}, {}, Full>>, <<{"Write"}, Full, {"Write"}>>}

\* The digits of 21 and 55 are 0120 and 1002, low ones first: no two places have
\* the same pair, so no exchange of bytes leaves both numbers as they are.
MCValues == [field \in Numbers |->
    CASE field = "attr" -> {0, 1} [] field = "sub" -> {0, 5}
      [] field = "sib" -> {0, 6}  [] field = "size" -> {21, 55}
      [] field = "uid" -> {0, 1}  [] field = "gid" -> {0, 2}
      [] field = "x3" -> {0}]

MCCallers == {<<0, 0>>, <<1, 0>>, <<2, 2>>, <<3, 1>>}
=============================================================================
