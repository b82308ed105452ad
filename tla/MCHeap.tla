------------------------------- MODULE MCHeap -------------------------------
(* Heap with the requests the kernel makes while it starts.                *)
EXTENDS Heap

R(size, align) == [size |-> size, align |-> align]

\* The tables of pointers, a page for registers, the driver's list entry.
KernelRequests == {R(8, 0), R(4096, 4096), R(288, 0)}
=============================================================================
