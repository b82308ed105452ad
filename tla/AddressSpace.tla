---------------------------- MODULE AddressSpace ----------------------------
(***************************************************************************)
(* What mem/page_map.h promises: every linear page has a frame or none, and *)
(* mapping a page changes that page and no other.                          *)
(***************************************************************************)
EXTENDS Integers

CONSTANT Pages      \* the linear pages that are looked at

VARIABLE space      \* the frame of every page, {} if it has none

Init == space \in [Pages -> SUBSET Nat]

Map(p, f) == space' = [space EXCEPT ![p] = {f}]

Changed == {p \in Pages : space'[p] # space[p]}

Next == \E p \in Changed : \E f \in space'[p] : Map(p, f)

Spec == Init /\ [][Next]_space
=============================================================================
