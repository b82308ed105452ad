--------------------------- MODULE FrameAllocator ---------------------------
(***************************************************************************)
(* What mem/palloc.h promises its callers, without table or memory map: a  *)
(* pool of page frames from which runs of consecutive frames are granted   *)
(* and to which exactly the frames of a released run return.               *)
(***************************************************************************)
EXTENDS Integers

CONSTANT Pool       \* the frames that may ever be granted

VARIABLES
    phase,          \* "boot", "ready" or "halted"
    free,           \* frames nobody owns
    held            \* granted runs [addr, pages]

vars == <<phase, free, held>>

Run(r) == r.addr .. r.addr + r.pages - 1

Init ==
    /\ phase = "boot"
    /\ free = {}
    /\ held = {}

\* The kernel keeps some frames for itself, and may fail to start.
Start ==
    /\ phase = "boot"
    /\ \/ /\ phase' = "ready"
          /\ free' \in SUBSET Pool
       \/ /\ phase' = "halted"
          /\ UNCHANGED free
    /\ UNCHANGED held

Grant(r) ==
    /\ phase = "ready"
    /\ r.pages > 0
    /\ Run(r) \subseteq free
    /\ free' = free \ Run(r)
    /\ held' = held \cup {r}
    /\ UNCHANGED phase

Release(r) ==
    /\ phase = "ready"
    /\ r \in held
    /\ free' = free \cup Run(r)
    /\ held' = held \ {r}
    /\ UNCHANGED phase

Next ==
    \/ Start
    \/ \E r \in held' \ held : Grant(r)
    \/ \E r \in held : Release(r)

Spec == Init /\ [][Next]_vars
=============================================================================
