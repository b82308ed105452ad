------------------------------- MODULE Palloc -------------------------------
(***************************************************************************)
(* The page-frame allocator, kernel/src/code/mem/palloc.c.                 *)
(*                                                                         *)
(* A bit table placed right behind the kernel image holds one bit per page *)
(* frame, 1 = free.  The firmware's memory map cuts the table into pieces: *)
(* every RAM entry owns length/8 bytes, in the order of the map.           *)
(* mem_palloc scans the pieces for the first run of free frames;           *)
(* mem_pfree finds the entry a run lies in and sets its bits again.        *)
(*                                                                         *)
(* Addresses and lengths are counted in page frames.  A bit of the table   *)
(* is its index from mem_palloc_start (8 * byte_offset + bit_offset), and  *)
(* the table is the set of the bits that are 1.                            *)
(***************************************************************************)
EXTENDS Integers, Sequences, FiniteSets

CONSTANTS
    memorymap,      \* the E820 map: a sequence of [base, pages, type]
    PageBytes,      \* bytes in a page, 0x1000 in the code
    KernelLoad,     \* frame at which the boot sector puts the kernel image
    ImagePages,     \* sizes, in pages, the linked kernel image may have
    WindowPages,    \* pages the boot code maps at KERNEL_START, 512
    BootTables,     \* frames of the boot code's page tables
    StrayBits,      \* bits of the memory under and behind the table that
                    \* may happen to be 1 before the table is written
    RequestSizes,   \* numbers of pages the callers of mem_palloc ask for
    ForeignFrames   \* frames the disk driver frees without having got them

MEMORYMAP_TYPE_RAM == 1

OK         == 0     \* both calls
NO_SPACE   == 1     \* mem_palloc
NO_MATCHES == 1     \* mem_pfree

Indices == 1 .. Len(memorymap)

RamEntries == {e \in Indices : memorymap[e].type = MEMORYMAP_TYPE_RAM}

base(e) == memorymap[e].base
pages(e) == memorymap[e].pages

\* The frames of the n pages that start at frame a.
Frames(a, n) == a .. a + n - 1

\* The firmware reports whole pages, and no frame as RAM twice.
ASSUME MapAssumption ==
    /\ memorymap \in Seq([base : Nat, pages : Nat, type : Nat])
    /\ \A d, e \in RamEntries :
          d # e => Frames(base(d), pages(d)) \cap Frames(base(e), pages(e)) = {}

ASSUME SizeAssumption ==
    /\ PageBytes \in Nat \ {0}
    /\ KernelLoad \in Nat
    /\ WindowPages \in Nat
    /\ BootTables \subseteq Nat
    /\ ImagePages \subseteq Nat \ {0}
    /\ StrayBits \subseteq Nat
    /\ RequestSizes \subseteq Nat

-----------------------------------------------------------------------------
(* The layout of the table.                                                *)

\* The sum of w[d] over the d in D: the number of pairs <<d, i>>, i < w[d].
Total(D, w) == Cardinality(UNION {{d} \X (0 .. w[d] - 1) : d \in D})

\* Whole bytes of the table that belong to RAM entry e.
TableBytes(e) == pages(e) \div 8

\* The byte at which entry e starts: the loops over the map skip the bytes of
\* every RAM entry in front of it.
tbl_entry_start(e) ==
    Total(RamEntries \cap (1 .. e - 1), [d \in Indices |-> TableBytes(d)])

\* The bits of n pages of entry e, from its page number first on.
Bits(e, first, n) ==
    8 * tbl_entry_start(e) + first .. 8 * tbl_entry_start(e) + first + n - 1

\* The size of the table, in bytes: the RAM of all entries but the last.
mem_palloc_size ==
    Total(RamEntries \ {Len(memorymap)}, [d \in Indices |-> pages(d)]) \div 8

TableBits == 0 .. 8 * mem_palloc_size - 1

\* Bits of entry e that mem_palloc looks at.  bits_left starts as the number
\* of *bytes* of the entry and loses 8 with every byte that is scanned.
ScannedBits(e) == 8 * (TableBytes(e) \div 8)

\* The n frames from addr on lie in entry e.
Inside(e, addr, n) == base(e) <= addr /\ base(e) + pages(e) >= addr + n

\* Entry e is the one at which a loop over the map stops for these frames.
Matches(e, addr, n) ==
    /\ e \in RamEntries
    /\ Inside(e, addr, n)
    /\ \A d \in RamEntries : d < e => ~ Inside(d, addr, n)

\* An entry's last pages, those behind its last whole byte, share their bits
\* with the first pages of the next RAM entry: no caller may free one.
ASSUME ForeignAssumption ==
    /\ ForeignFrames \subseteq Nat
    /\ \A f \in ForeignFrames : \A e \in RamEntries :
          Inside(e, f, 1) => f - base(e) < 8 * TableBytes(e)

-----------------------------------------------------------------------------
VARIABLES
    status,         \* "boot" -> "ready", or "halted" in a while(1) or a fault
    endofkernel,    \* pages from startofkernel to the end of the kernel
    tbl,            \* the bits of the table that are 1
    granted,        \* runs [addr, pages] callers got and still own
    ret             \* what the last call returned

vars == <<status, endofkernel, tbl, granted, ret>>

Runs == [addr : Nat, pages : Nat]

Returned(call, n, code) == [call |-> call, pages |-> n, code |-> code]

KernelFrames == Frames(KernelLoad, endofkernel)

GrantedFrames == UNION {Frames(r.addr, r.pages) : r \in granted}

TypeOK ==
    /\ status \in {"boot", "ready", "halted"}
    /\ endofkernel \in Nat
    /\ tbl \subseteq Nat
    /\ granted \subseteq Runs
    /\ ret \in [call : {"none", "mem_palloc", "mem_pfree"}, pages : Nat, code : {0, 1}]

Init ==
    /\ status = "boot"
    /\ endofkernel \in ImagePages
    /\ tbl \in SUBSET StrayBits
    /\ granted = {}
    /\ ret = Returned("none", 0, OK)

-----------------------------------------------------------------------------
\* kernelend after the table and the rounding up to the next page.  The code
\* adds a whole page when the end is already on a page boundary.
KernelEndBehindTable == endofkernel + (mem_palloc_size + 1) \div PageBytes + 1

\* Mutant: the kernel's pages are counted before kernelend is moved.
mem_palloc_init_CountedEarly ==
    /\ status = "boot"
    /\ endofkernel' = KernelEndBehindTable
    /\ \E e \in RamEntries :
          /\ Matches(e, KernelLoad, endofkernel')
          /\ tbl' = (tbl \cup TableBits) \ Bits(e, KernelLoad - base(e), endofkernel)
    /\ status' = "ready"
    /\ UNCHANGED <<granted, ret>>

\* The frames the table is written to.  The boot code's page tables lie behind
\* the kernel as well, and a long table runs over them.
FilledFrames ==
    Frames(KernelLoad + endofkernel, (mem_palloc_size + PageBytes - 1) \div PageBytes)

\* After the table is filled page_trace_PML4 finds the page kernelend.
Traceable == KernelEndBehindTable < WindowPages /\ FilledFrames \cap BootTables = {}

\* mem_palloc_init: fill the table with 0xFF, then clear the kernel's frames.
\* The kernel with its table has to lie in one RAM entry.
mem_palloc_init ==
    /\ status = "boot"
    /\ endofkernel' = KernelEndBehindTable
    /\ \/ /\ Traceable
          /\ \E e \in RamEntries :
                /\ Matches(e, KernelLoad, endofkernel')
                /\ tbl' = (tbl \cup TableBits) \ Bits(e, KernelLoad - base(e), endofkernel')
          /\ status' = "ready"
       \/ /\ Traceable
             => ~ \E e \in RamEntries : Matches(e, KernelLoad, endofkernel')
          /\ tbl' = tbl \cup TableBits
          /\ status' = "halted"
    /\ UNCHANGED <<granted, ret>>

\* Mutant: bits_in_row_amout is not reset at a 0 bit, bits_in_row_start is.
IsRun_NoReset(e, s, n) ==
    \E last \in s .. ScannedBits(e) - 1 :
        /\ Bits(e, s, last - s + 1) \subseteq tbl
        /\ Cardinality(Bits(e, 0, last + 1) \cap tbl) = n

\* A run of n free frames at page s of entry e, as the scan sees it.
IsRun(e, s, n) ==
    /\ n > 0
    /\ n <= pages(e)
    /\ s + n <= ScannedBits(e)
    /\ Bits(e, s, n) \subseteq tbl

Starts(e) == 0 .. ScannedBits(e) - 1

\* The first one: the earliest entry, and in it the lowest page.
FirstRun(e, s, n) ==
    /\ IsRun(e, s, n)
    /\ \A t \in Starts(e) : IsRun(e, t, n) => s <= t
    /\ \A d \in RamEntries : d < e => ~ \E t \in Starts(d) : IsRun(d, t, n)

NoRun(n) == \A e \in RamEntries : ~ \E s \in Starts(e) : IsRun(e, s, n)

\* Mutant: the address is counted in bits of the table, across the holes.
PageAddr_Flat(e, s) == 8 * tbl_entry_start(e) + s

\* The address of page s of entry e.
PageAddr(e, s) == base(e) + s

mem_palloc(n) ==
    /\ status = "ready"
    /\ \/ \E e \in RamEntries : \E s \in Starts(e) :
             /\ FirstRun(e, s, n)
             /\ tbl' = tbl \ Bits(e, s, n)
             /\ granted' = granted \cup {[addr |-> PageAddr(e, s), pages |-> n]}
             /\ ret' = Returned("mem_palloc", n, OK)
       \/ /\ NoRun(n)
          /\ ret' = Returned("mem_palloc", n, NO_SPACE)
          /\ UNCHANGED <<tbl, granted>>
    /\ UNCHANGED <<status, endofkernel>>

\* Mutants: the last page is left out; the difference is taken the wrong way
\* round; tbl_entry_start moves on before the entry is tried.
FreedBits_Short(e, addr, n) == Bits(e, addr - base(e), n - 1)
FreedBits_Swapped(e, addr, n) == Bits(e, base(e) - addr, n)
FreedBits_NextEntry(e, addr, n) == Bits(e, 8 * TableBytes(e) + addr - base(e), n)

\* The bits mem_pfree sets for the n frames from addr on.
FreedBits(e, addr, n) == Bits(e, addr - base(e), n)

\* mem_pfree(addr, n), whoever owns the frames.
SetBits(addr, n) ==
    \/ \E e \in RamEntries :
          /\ Matches(e, addr, n)
          /\ tbl' = tbl \cup FreedBits(e, addr, n)
          /\ ret' = Returned("mem_pfree", n, OK)
    \/ /\ ~ \E e \in RamEntries : Matches(e, addr, n)
       /\ ret' = Returned("mem_pfree", n, NO_MATCHES)
       /\ UNCHANGED tbl

\* A caller gives back a run it was granted.
mem_pfree(r) ==
    /\ status = "ready"
    /\ r \in granted
    /\ SetBits(r.addr, r.pages)
    /\ granted' = granted \ {r}
    /\ UNCHANGED <<status, endofkernel>>

\* The disk driver frees the frame below a heap page or a port's command list
\* (disk/ahci.c:29, 147, 158); such a frame may never have been granted.
mem_pfree_frame(f) ==
    /\ status = "ready"
    /\ f \notin KernelFrames \cup GrantedFrames
    /\ SetBits(f, 1)
    /\ UNCHANGED <<status, endofkernel, granted>>

Next ==
    \/ mem_palloc_init
    \/ \E n \in RequestSizes : mem_palloc(n)
    \/ \E r \in granted : mem_pfree(r)
    \/ \E f \in ForeignFrames : mem_pfree_frame(f)

Spec == Init /\ [][Next]_vars

-----------------------------------------------------------------------------
(* Properties.                                                             *)

\* No page frame is ever in two runs at once: whatever was allocated and
\* freed before, mem_palloc hands out only frames nobody owns.
NoDoubleGrant ==
    \A q, r \in granted :
        q # r => Frames(q.addr, q.pages) \cap Frames(r.addr, r.pages) = {}

\* The frames under the kernel image and under the table itself are never
\* handed out, although mem_palloc_init starts from a table of all ones.
KernelNeverGranted == status = "ready" => KernelFrames \cap GrantedFrames = {}

\* Every granted run lies in one RAM entry of the map.
GrantedIsRam ==
    \A r \in granted : \E e \in RamEntries : Inside(e, r.addr, r.pages)

\* The table is exact where mem_palloc looks: a bit is 1 iff its frame is
\* neither the kernel's nor granted.  No frame leaks, none is freed early,
\* and no entry's bits are disturbed by calls about another entry.
TableExact ==
    status = "ready" =>
        \A e \in RamEntries : \A s \in Starts(e) :
            8 * tbl_entry_start(e) + s \in tbl
              <=> base(e) + s \notin KernelFrames \cup GrantedFrames

\* What the table has to contain: the frames mem_palloc can grant.
Pool == UNION {{base(e) + s : s \in Starts(e)} : e \in RamEntries}

BitOf(f) ==
    LET e == CHOOSE e \in RamEntries : Inside(e, f, 1)
    IN  8 * tbl_entry_start(e) + f - base(e)

FreePool == IF status = "ready" THEN {f \in Pool : BitOf(f) \in tbl} ELSE {}

Abstract == INSTANCE FrameAllocator WITH phase <- status, free <- FreePool, held <- granted

\* The table with its scan, its tables of bytes and its search by address
\* implements the pool of frames palloc.h describes.
ImplementsFrameAllocator == Abstract!Spec

\* palloc.h:24-26 "returns: 0->OK 1->NO SPACE": NO SPACE means that no run of
\* that many free pages exists in any entry's part of the table.  Violated:
\* bits_left starts as the bytes of the entry, and an eighth of it is scanned.
NoSpaceMeansFull ==
    ret.call = "mem_palloc" /\ ret.code = NO_SPACE =>
        ~ \E e \in RamEntries : \E s \in 0 .. 8 * TableBytes(e) - ret.pages :
              Bits(e, s, ret.pages) \subseteq tbl

\* palloc.c:31 "1 bit = 1 page | 0=allocated 1=free": a page that is handed
\* out has its bit in the table that mem_palloc_init filled.  Violated when
\* the last entry of the map is RAM: the loop over the map stops before it.
GrantedHasBit ==
    \A r \in granted : \E e \in RamEntries :
        Inside(e, r.addr, r.pages) /\ Bits(e, r.addr - base(e), r.pages) \subseteq TableBits

=============================================================================
