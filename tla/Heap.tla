-------------------------------- MODULE Heap --------------------------------
(***************************************************************************)
(* The kernel heap, kernel/src/code/mem/alloc.c.                           *)
(*                                                                         *)
(* Blocks lie one behind the other above the kernel.  Behind every block   *)
(* its MEM_ALLOC_TAIL links it into a doubly linked list and holds the     *)
(* block's address.  mem_alloc takes the first gap of the list that is     *)
(* wide enough and otherwise appends; mem_free unlinks a tail.             *)
(*                                                                         *)
(* All addresses are those of the code, in bytes; 0 is the null pointer.   *)
(* The heap is followed as far as the window the boot code maps: a request *)
(* beyond it goes through mem_alloc_check_page into the page tables.       *)
(***************************************************************************)
EXTENDS Integers, FiniteSets

CONSTANTS
    KernelEnd,      \* endofkernel, where mem_init puts the first tail
    WindowEnd,      \* first address behind the pages the boot code maps
    Requests,       \* what callers ask for: [size, align]
    BadAddresses,   \* addresses mem_free is given that are no block's, the
                    \* address the first tail holds among them
    MaxBlocks       \* bound: blocks in use at the same time

sizeof_TAIL == 24

FirstVaddr == 8192      \* 0x2000, the address the first tail holds

ASSUME HeapAssumption ==
    /\ KernelEnd \in Nat /\ KernelEnd > FirstVaddr
    /\ WindowEnd \in Nat /\ KernelEnd + sizeof_TAIL <= WindowEnd
    /\ Requests \subseteq [size : Nat, align : Nat]
    /\ BadAddresses \subseteq 1 .. FirstVaddr
    /\ MaxBlocks \in Nat

VARIABLES
    status,         \* "running"; "corrupt" once a tail was written over
                    \* something that is in use; "damaged" once the kernel's
                    \* own tail was unlinked
    mem_listStart,  \* address of the first tail
    tail,           \* the linked tails: address -> [next, prev, vaddr]
    live,           \* blocks callers own, [start, size, align]
    ret             \* the last call, its argument and its result

vars == <<status, mem_listStart, tail, live, ret>>

\* Where a whole tail lies in mapped memory.
Places == KernelEnd .. WindowEnd - sizeof_TAIL

Tails == [next : Places \cup {0}, prev : Places \cup {0}, vaddr : Places \cup {FirstVaddr}]

Blocks == [start : Places, size : Nat, align : Nat]

TypeOK ==
    /\ status \in {"running", "corrupt", "damaged"}
    /\ mem_listStart \in Places
    /\ DOMAIN tail \subseteq Places
    /\ \A t \in DOMAIN tail : tail[t] \in Tails
    /\ live \subseteq Blocks
    /\ ret \in [call : {"none", "mem_alloc", "mem_free"}, addr : Nat, code : Nat]

Tail(next, prev, vaddr) == [next |-> next, prev |-> prev, vaddr |-> vaddr]

Returned(call, addr, code) == [call |-> call, addr |-> addr, code |-> code]

\* mem_init.
Init ==
    /\ status = "running"
    /\ mem_listStart = KernelEnd
    /\ tail = [t \in {KernelEnd} |-> Tail(0, 0, FirstVaddr)]
    /\ live = {}
    /\ ret = Returned("none", 0, 0)

-----------------------------------------------------------------------------
(* The walk along the list.                                                *)

\* The i-th tail of the list, counted from 0.
Walk[i \in 0 .. Cardinality(DOMAIN tail) - 1] ==
    IF i = 0 THEN mem_listStart ELSE tail[Walk[i - 1]].next

\* The walk meets tail d before tail e.
Precedes(d, e) ==
    \E i, j \in DOMAIN Walk : i < j /\ Walk[i] = d /\ Walk[j] = e

\* Mutant: an already aligned address may move on to one that is not.
AlignUp_Half(x, align) == IF align = 0 THEN x ELSE x + (align - (x % align)) \div 2

\* Moves x on to a multiple of align, at least by one byte.
AlignUp(x, align) == IF align = 0 THEN x ELSE x + align - (x % align)

\* Where a block would start in the gap in front of the block of tail e.
inserted_start(e, r) == AlignUp(tail[e].prev + sizeof_TAIL, r.align)

\* The gap has room for the block and a tail, counted from an address.
Room(e, r, from) ==
    /\ from < tail[e].vaddr
    /\ r.size + sizeof_TAIL <= tail[e].vaddr - from

\* Mutant: only the start is compared, not the width.
Fits_StartOnly(e, r) == tail[e].prev # 0 /\ inserted_start(e, r) < tail[e].vaddr

Fits(e, r) == tail[e].prev # 0 /\ Room(e, r, inserted_start(e, r))

-----------------------------------------------------------------------------
(* mem_alloc.                                                              *)

\* inserted_entry is a pointer to a tail: adding size to it moves it by size
\* tails, not by size bytes.
inserted_entry(e, r) == inserted_start(e, r) + r.size * sizeof_TAIL

\* The list with a tail written at t in front of tail e, linked to nothing yet.
Constructed(e, t, start) ==
    [a \in DOMAIN tail \cup {t} |->
        IF a = t THEN Tail(e, tail[e].prev, start) ELSE tail[a]]

\* Mutant: entry->prev is left as it was.
Inserted_NoPrev(e, t, start) ==
    [Constructed(e, t, start) EXCEPT ![tail[e].prev].next = t]

\* Mutant: the new tail holds its own address.
Inserted_OwnVaddr(e, t, start) ==
    [Constructed(e, t, t) EXCEPT ![tail[e].prev].next = t, ![e].prev = t]

\* The list with a tail t for the block at start linked in before tail e.
Inserted(e, t, start) ==
    [Constructed(e, t, start) EXCEPT ![tail[e].prev].next = t, ![e].prev = t]

\* Mutant: entry->next is left as it was.
Appended_NoNext(e, t, start) ==
    [a \in DOMAIN tail \cup {t} |-> IF a = t THEN Tail(0, e, start) ELSE tail[a]]

\* The list with a tail t for the block at start linked in behind tail e.
Appended(e, t, start) ==
    [a \in DOMAIN tail \cup {t} |->
        CASE a = t -> Tail(0, e, start)
          [] a = e -> [tail[a] EXCEPT !.next = t]
          [] OTHER -> tail[a]]

Grant(r, start) ==
    /\ live' = live \cup {[start |-> start, size |-> r.size, align |-> r.align]}
    /\ ret' = Returned("mem_alloc", start, 0)

\* Mutant: the page behind the block, which its tail needs, is not checked.
mem_alloc_check_page_NoTail(t) == t <= WindowEnd

\* Every page up to the end of the tail at t is mapped.
mem_alloc_check_page(t) == t + sizeof_TAIL <= WindowEnd

\* The first gap that fits is used.
mem_alloc_insert(r) ==
    \E e \in DOMAIN tail :
        LET start == inserted_start(e, r)
            t     == inserted_entry(e, r)
        IN  /\ Fits(e, r)
            /\ \A d \in DOMAIN tail : Precedes(d, e) => ~ Fits(d, r)
            /\ mem_alloc_check_page(t)
            /\ tail' = Inserted(e, t, start)
            /\ Grant(r, start)
            /\ status' = IF t + sizeof_TAIL <= tail[e].vaddr THEN "running" ELSE "corrupt"

\* Mutant: the last tail itself is not skipped.
append_start_OnTail(e, r) == AlignUp(e, r.align)

append_start(e, r) == AlignUp(e + sizeof_TAIL, r.align)

\* No gap fits: the block goes behind the last tail.
mem_alloc_append(r) ==
    \E e \in DOMAIN tail :
        LET start == append_start(e, r)
            t     == start + r.size
        IN  /\ tail[e].next = 0
            /\ \A d \in DOMAIN tail : ~ Fits(d, r)
            /\ mem_alloc_check_page(t)
            /\ tail' = Appended(e, t, start)
            /\ Grant(r, start)
            /\ UNCHANGED status

mem_alloc(r) ==
    /\ status = "running"
    /\ Cardinality(live) < MaxBlocks
    /\ mem_alloc_insert(r) \/ mem_alloc_append(r)
    /\ UNCHANGED mem_listStart

-----------------------------------------------------------------------------
(* mem_free.                                                               *)

\* The list without tail e.  A null next or prev is followed like any other:
\* the write then goes to address 8 or 0, which is no part of the heap.
Unlinked(e) ==
    [a \in DOMAIN tail \ {e} |->
        CASE a = tail[e].prev -> [tail[a] EXCEPT !.next = tail[e].next]
          [] a = tail[e].next -> [tail[a] EXCEPT !.prev = tail[e].prev]
          [] OTHER            -> tail[a]]

\* Mutant: the tail's own address is compared.
Holds_Tail(e, addr) == e = addr

\* The tail the search stops at.
Holds(e, addr) == tail[e].vaddr = addr

\* The search stops at the kernel's tail, which holds FirstVaddr although no
\* block begins there.  mem_listStart keeps pointing to it: only the tail
\* behind it loses its prev.
unlink_first ==
    LET n == tail[mem_listStart].next
    IN  IF n = 0 THEN UNCHANGED <<status, tail>>
                 ELSE tail' = [tail EXCEPT ![n].prev = 0] /\ status' = "damaged"

mem_free(addr) ==
    /\ status = "running"
    /\ \/ \E e \in DOMAIN tail :
             /\ Holds(e, addr)
             /\ \A d \in DOMAIN tail : Precedes(d, e) => ~ Holds(d, addr)
             /\ IF e = mem_listStart
                THEN unlink_first
                ELSE tail' = Unlinked(e) /\ UNCHANGED status
             /\ ret' = Returned("mem_free", addr, 0)
       \/ /\ \A e \in DOMAIN tail : ~ Holds(e, addr)
          /\ ret' = Returned("mem_free", addr, 1)
          /\ UNCHANGED <<status, tail>>
    /\ live' = {b \in live : b.start # addr}
    /\ UNCHANGED mem_listStart

Next ==
    \/ \E r \in Requests : mem_alloc(r)
    \/ \E b \in live : mem_free(b.start)
    \/ \E addr \in BadAddresses : mem_free(addr)

Spec == Init /\ [][Next]_vars

-----------------------------------------------------------------------------
(* Properties.                                                             *)

\* The bytes [a, a + m) and [b, b + n) have none in common.
Disjoint(a, m, b, n) == a + m <= b \/ b + n <= a

\* No byte belongs to two blocks, to two tails, or to a block and a tail:
\* whatever the order of calls, a caller that fills its block destroys
\* neither another block nor the list.
NoOverlap ==
    status = "running" =>
        /\ \A b, c \in live : b # c => Disjoint(b.start, b.size, c.start, c.size)
        /\ \A b \in live : \A t \in DOMAIN tail :
              Disjoint(b.start, b.size, t, sizeof_TAIL)
        /\ \A t, u \in DOMAIN tail :
              t # u => Disjoint(t, sizeof_TAIL, u, sizeof_TAIL)

\* next and prev are inverse to each other, lead upwards, and the walk from
\* mem_listStart meets every linked tail: every loop over the list ends and
\* misses none, after any mixture of inserting, appending and unlinking.
ListSound ==
    status = "running" =>
        /\ tail[mem_listStart].prev = 0
        /\ \A t \in DOMAIN tail :
              /\ tail[t].next # 0 =>
                    /\ tail[t].next \in DOMAIN tail
                    /\ tail[t].next > t
                    /\ tail[tail[t].next].prev = t
              /\ t # mem_listStart => tail[t].prev \in DOMAIN tail
              /\ \E i \in DOMAIN Walk : Walk[i] = t

\* The blocks in use are the blocks of the linked tails, one to one, and a
\* block's tail lies behind all of its bytes.
TailPerBlock ==
    status = "running" =>
        /\ Cardinality(live) = Cardinality(DOMAIN tail) - 1
        /\ \A b \in live : \E t \in DOMAIN tail :
              tail[t].vaddr = b.start /\ b.start + b.size <= t

\* mem_free succeeds exactly for the address of a block in use and for the
\* one address the kernel's own tail holds: after any mixture of calls it finds
\* every block, whichever gap it is in, and takes no other number for one.
FreeFindsBlocks ==
    [][ret'.call = "mem_free" /\ ret' # ret =>
          (ret'.code = 0 <=> \/ \E b \in live : b.start = ret'.addr
                             \/ ret'.addr = FirstVaddr)]_vars

Abstract == INSTANCE BlockAllocator WITH blocks <- live

\* The list of tails with its gaps implements aligned blocks that never overlap.
ImplementsBlockAllocator == Abstract!Spec

\* alloc.h:13 "size = number of bytes", alloc.c:62 "check for space": a tail
\* that goes into a gap stays inside of it.  Violated: inserted_entry moves by
\* 24 times the size and lands on the next block or its tail.
NeverCorrupt == status # "corrupt"
=============================================================================
