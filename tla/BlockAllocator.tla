--------------------------- MODULE BlockAllocator ---------------------------
(***************************************************************************)
(* What mem/alloc.h promises: blocks of as many bytes as were asked for,   *)
(* at the alignment that was asked for, none overlapping another, until    *)
(* they are given back.                                                    *)
(***************************************************************************)
EXTENDS Integers

VARIABLE blocks     \* the blocks in use, [start, size, align]

Apart(b, c) == b.start + b.size <= c.start \/ c.start + c.size <= b.start

\* An alignment of 0 asks for none.
AtAlignment(b) == b.align # 0 => b.start % b.align = 0

Init == blocks = {}

Alloc(b) ==
    /\ AtAlignment(b)
    /\ \A c \in blocks : Apart(b, c)
    /\ blocks' = blocks \cup {b}

Free(b) ==
    /\ b \in blocks
    /\ blocks' = blocks \ {b}

Next ==
    \/ \E b \in blocks' \ blocks : Alloc(b)
    \/ \E b \in blocks : Free(b)

Spec == Init /\ [][Next]_blocks
=============================================================================
