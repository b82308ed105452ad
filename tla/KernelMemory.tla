---------------------------- MODULE KernelMemory ----------------------------
(***************************************************************************)
(* Heap, page tables and page frames together: mem_alloc with the pages it *)
(* checks (mem/alloc.c:32-104), page_map_PML4 with the tables it takes from *)
(* mem_alloc in turn (mem/page_map.c:94-123), and the blocks the disk      *)
(* driver maps onto an adapter's memory (disk/ahci.c:25-38, 143-163).      *)
(*                                                                         *)
(* One program runs: calls is its stack, innermost call first.  The tails  *)
(* of the list are read and written through the processor's mapping.       *)
(* Addresses are bytes, pages and frames are numbers of pages.             *)
(***************************************************************************)
EXTENDS PageMap, Sequences, FiniteSets, FiniteSetsExt

CONSTANTS
    KernelEnd,      \* endofkernel, an address in the window
    WindowPages,    \* pages the boot code maps at KernelStart, 512
    Backups,        \* the kernel's spare tables, by the level that needs one
    Ram,            \* frames the firmware reports as RAM
    Occupied,       \* frames in the window that are no memory for a heap: the
                    \* boot code's tables, the hole below 1 MB
    Adapters,       \* where firmware put an adapter's memory: [registers,
                    \* clb, fis : frame, clb_offset, fis_offset : bytes]
    FreeSets,       \* for each of them, the sets of frames that may be free
                    \* when the heap starts
    Requests,       \* what callers ask for: [size, align, use]
    LookedAt,       \* pages of which AddressSpace tells the frames
    MaxBlocks,      \* bound: blocks in use at the same time
    MaxDepth        \* bound: calls on the stack

PageBytes == 8 * Entries

WindowEnd == (KernelStart + WindowPages) * PageBytes

PageOf(a) == a \div PageBytes

\* Pages of the n bytes from address a on.
PagesOf(a, n) == PageOf(a) .. PageOf(a + n - 1)

VARIABLES
    status,         \* "running"; "halted" in a while(1); "fault" in the page
                    \* fault handler; "corrupt" once a tail was written over
                    \* something that is in use
    mem_listStart, tail,    \* the list, as in Heap
    live,           \* blocks in use, [start, size, use]
    adapter,        \* the adapter of this machine
    calls,          \* the calls that have not returned
    free            \* frames whose bit mem_palloc finds set

vars == <<word, backup, tlb, status, mem_listStart, tail, live, adapter, calls, free>>

List == INSTANCE Heap WITH
    Requests <- {}, BadAddresses <- {}, MaxBlocks <- 0, ret <- 0

sizeof_TAIL == 24

\* What page_map_PML4 asks for when it has used a spare table.
TableRequest == [size |-> PageBytes, align |-> PageBytes, use |-> "table"]

CallerRequests ==
    [size : Nat, align : Nat, use : {"devices", "registers", "clb", "keep"}]

\* Below this page lies all that the first entry of the PML4 stands for.
FirstEntryEnd == Entries * Entries * Entries

\* The window is what one table maps, its frames have lower numbers than its
\* pages, and no request leads out of the first entry of the PML4.
ASSUME MemoryAssumption ==
    /\ WindowPages = Entries /\ KernelLoad + WindowPages <= KernelStart
    /\ KernelEnd \in Nat /\ KernelEnd + sizeof_TAIL <= WindowEnd
    /\ Backups \in [2 .. 4 -> KernelStart .. PageOf(KernelEnd) - 1]
    /\ Backups[2] # Backups[3]
    /\ Ram \subseteq Nat /\ \A a \in Adapters : \A F \in FreeSets[a] : F \subseteq Ram
    /\ TableFrames \subseteq Occupied
    /\ Adapters \subseteq [registers : Nat, clb : Nat, fis : Nat,
                          clb_offset : 0 .. PageBytes - 1, fis_offset : 0 .. PageBytes - 1]
    /\ \A a \in Adapters :
          /\ a.clb_offset % 128 = 0 /\ a.fis_offset % 128 = 0
          /\ a.clb \notin TableFrames /\ a.fis \notin TableFrames
    /\ Requests \subseteq CallerRequests
    /\ \A r \in Requests :
          /\ r.use \in {"registers", "clb"} => r.size = PageBytes /\ r.align = PageBytes
          /\ r.use = "devices" => r.align = 0
    /\ \A r \in Requests \cup {TableRequest} :
          PageOf(WindowEnd + r.align + sizeof_TAIL * (r.size + 2)) < FirstEntryEnd
    /\ LookedAt \subseteq 0 .. FirstEntryEnd - 1
    /\ MaxBlocks \in Nat
    /\ MaxDepth \in Nat /\ MaxDepth >= 3

TypeOK ==
    /\ status \in {"running", "halted", "fault", "corrupt"}
    /\ DOMAIN tail \subseteq KernelEnd .. WindowEnd - sizeof_TAIL
    /\ \A c \in DOMAIN word : c[2] \in 0 .. Entries - 1 /\ word[c] \subseteq Nat
    /\ backup \in [2 .. 4 -> KernelStart .. KernelStart + WindowPages - 1]
    /\ \A p \in DOMAIN tlb : tlb[p] \in Nat
    /\ \A b \in live : b.start + b.size <= WindowEnd
    /\ Len(calls) <= MaxDepth
    /\ free \subseteq Ram

Init ==
    /\ BootInit(Backups)
    /\ status = "running"
    /\ mem_listStart = KernelEnd
    /\ tail = [t \in {KernelEnd} |-> List!Tail(0, 0, List!FirstVaddr)]
    /\ live = {}
    /\ calls = << >>
    /\ adapter \in Adapters
    /\ free \in FreeSets[adapter]

Top == Head(calls)

Doing(op) == status = "running" /\ calls # << >> /\ Top.op = op

-----------------------------------------------------------------------------
(* mem_alloc.  The place is chosen at the call, as the code does, and the  *)
(* block is linked when every page of it has been checked.                 *)

MemAlloc(r, e, gap, start, at) ==
    [op |-> "mem_alloc", size |-> r.size, use |-> r.use,
     e |-> e, gap |-> gap, start |-> start, at |-> at]

\* The first gap that fits, or else the place behind the last tail.
Placements(r) ==
    LET gaps == {e \in DOMAIN tail :
                    /\ List!Fits(e, r)
                    /\ \A d \in DOMAIN tail : List!Precedes(d, e) => ~ List!Fits(d, r)}
        last == {e \in DOMAIN tail : gaps = {} /\ tail[e].next = 0}
    IN  {MemAlloc(r, e, TRUE, List!inserted_start(e, r), List!inserted_entry(e, r)) : e \in gaps}
        \cup {MemAlloc(r, e, FALSE, List!append_start(e, r), List!append_start(e, r) + r.size) : e \in last}

Caller(use) == [op |-> "caller", use |-> use, stage |-> "alloc", block |-> 0]

\* main has the bus scanned before anything else takes a block, and the second
\* scan frees the first table before it asks for its own.
request(r) ==
    /\ status = "running" /\ calls = << >>
    /\ r.use = "devices" => live = {}
    /\ Cardinality(live) < MaxBlocks
    /\ \E m \in Placements(r) : calls' = <<m, Caller(r.use)>>
    /\ UNCHANGED <<word, backup, tlb, status, mem_listStart, tail, live, free>>

PageMapCall(p, f) == [op |-> "page_map", page |-> p, frame |-> f, table |-> PML4, level |-> 4]

\* The pages of a block and its tail that have no frame.
Missed(m) ==
    {p \in PagesOf(m.start, m.at + sizeof_TAIL - m.start) : page_trace_PML4(p) = {}}

\* mem_alloc_check_page: the first page without a frame gets one.
mem_alloc_check_page ==
    /\ Doing("mem_alloc")
    /\ LET missed == Missed(Top)
       IN  /\ missed # {}
           /\ \/ /\ free # {}
                 /\ calls' = <<PageMapCall(Min(missed), Min(free))>> \o calls
                 /\ free' = free \ {Min(free)}
                 /\ UNCHANGED status
              \/ /\ free = {}
                 /\ status' = "halted"
                 /\ UNCHANGED <<calls, free>>
    /\ UNCHANGED <<word, backup, tlb, mem_listStart, tail, live>>

\* The call below gets the address: a new spare table, or a caller's block.
Return(m) ==
    LET below == calls[2]
    IN  IF below.op = "page_map"
        THEN /\ backup' = [backup EXCEPT ![below.level] = PageOf(m.start)]
             /\ calls' = Tail(calls)
        ELSE /\ calls' = [Tail(calls) EXCEPT ![1].block = m.start]
             /\ UNCHANGED backup

\* Mutant: the block is touched before its caller maps anything over it.
TailPages_WholeBlock(m) == PagesOf(m.start, m.at + sizeof_TAIL - m.start)

TailPages(m) == PagesOf(m.at, sizeof_TAIL)

\* The tail is written and linked in.
link ==
    /\ Doing("mem_alloc")
    /\ Missed(Top) = {}
    /\ LET m == Top
       IN  \/ /\ \E p \in TailPages(m) : Frame(p) = {}
              /\ status' = "fault"
              /\ UNCHANGED <<backup, tlb, tail, live, calls>>
           \/ /\ \A p \in TailPages(m) : Frame(p) # {}
              /\ \/ \E p \in TailPages(m) : Frame(p) \subseteq Occupied
                 \/ m.gap /\ m.at + sizeof_TAIL > tail[m.e].vaddr
              /\ status' = "corrupt"
              /\ UNCHANGED <<backup, tlb, tail, live, calls>>
           \/ /\ \A p \in TailPages(m) : ~ Frame(p) \subseteq Occupied
              /\ m.gap => m.at + sizeof_TAIL <= tail[m.e].vaddr
              /\ tail' = IF m.gap THEN List!Inserted(m.e, m.at, m.start)
                                  ELSE List!Appended(m.e, m.at, m.start)
              /\ live' = live \cup {[start |-> m.start, size |-> m.size, use |-> m.use]}
              /\ tlb' = Cached(TailPages(m))
              /\ Return(m)
              /\ UNCHANGED status
    /\ UNCHANGED <<word, mem_listStart, free>>

-----------------------------------------------------------------------------
(* page_map_PML4.                                                          *)

TopCell == Cell(Top.table, Top.page, Top.level)

descend ==
    /\ Doing("page_map") /\ Top.level > 1
    /\ ~ Missing(TopCell)
    /\ \E t \in Present(TopCell) : calls' = [calls EXCEPT ![1].table = t, ![1].level = @ - 1]
    /\ UNCHANGED <<word, backup, tlb, status, mem_listStart, tail, live, free>>

\* Mutant: the next spare table is asked for, but the entry is not written.
add_table_AllocFirst ==
    /\ Doing("page_map") /\ Top.level > 1
    /\ Missing(TopCell)
    /\ Len(calls) + 1 < MaxDepth
    /\ \E m \in Placements(TableRequest) : calls' = <<m>> \o calls
    /\ UNCHANGED <<word, backup, tlb, status, mem_listStart, tail, live, free>>

\* The spare table goes in, then the next spare one is asked for.  A table
\* over memory that is in use, or that is no memory, holds no entries.
add_table ==
    /\ Doing("page_map") /\ Top.level > 1
    /\ Missing(TopCell)
    /\ Len(calls) + 1 < MaxDepth
    /\ \/ /\ Frame(backup[Top.level]) \subseteq Occupied
          /\ status' = "corrupt"
          /\ UNCHANGED <<word, calls>>
       \/ /\ ~ Frame(backup[Top.level]) \subseteq Occupied
          /\ word' = Constructed(TopCell, backup[Top.level])
          /\ \E m \in Placements(TableRequest) : calls' = <<m>> \o calls
          /\ UNCHANGED status
    /\ UNCHANGED <<backup, tlb, mem_listStart, tail, live, free>>

map_page ==
    /\ Doing("page_map") /\ Top.level = 1
    /\ word' = Constructed(TopCell, Top.frame)
    /\ calls' = Tail(calls)
    /\ UNCHANGED <<backup, tlb, status, mem_listStart, tail, live, free>>
-----------------------------------------------------------------------------
(* What callers do with their block.                                       *)

\* Mutant: a frame that is in no entry of the memory map is freed as well.
mem_pfree_AnyFrame(f) == free \cup f

\* mem_pfree of one frame: the frames that are free then.  mem_palloc may never
\* look at some of them (palloc.c:108); here it may grant each.
mem_pfree(f) == free \cup (f \cap Ram)

ThenMap(f) ==
    calls' = <<PageMapCall(PageOf(Top.block), f)>> \o [calls EXCEPT ![1].stage = "mapped"]

Touch(ps) ==
    IF \E p \in ps : Frame(p) \subseteq Occupied
    THEN status' = "corrupt" /\ UNCHANGED <<tlb, calls>>
    ELSE tlb' = Cached(ps) /\ calls' = << >> /\ UNCHANGED status

\* The caller fills its block, or a part of it that nobody else uses.
keep ==
    /\ Doing("caller") /\ Top.use \in {"keep", "devices"}
    /\ \/ \E b \in live : b.start = Top.block /\ Touch(PagesOf(b.start, b.size))
       \/ Touch({})
    /\ UNCHANGED <<word, backup, mem_listStart, tail, live, free>>

\* ahci_init_disk: the frame below the block is freed and the adapter's
\* registers are mapped over it; a frame that is no RAM stops the kernel.
map_registers ==
    /\ Doing("caller") /\ Top.use = "registers" /\ Top.stage = "alloc"
    /\ LET paddr == page_trace_PML4(PageOf(Top.block))
       IN  /\ IF paddr # {} /\ paddr \subseteq Ram
              THEN ThenMap(adapter.registers) /\ UNCHANGED status
              ELSE status' = "halted" /\ UNCHANGED calls
           /\ free' = mem_pfree(paddr)
    /\ UNCHANGED <<word, backup, tlb, mem_listStart, tail, live>>

\* ahci_port_rebase: the same for the command list firmware gave the adapter.
map_cmd_list ==
    /\ Doing("caller") /\ Top.use = "clb" /\ Top.stage = "alloc"
    /\ free' = mem_pfree(page_trace_PML4(PageOf(Top.block)))
    /\ ThenMap(adapter.clb)
    /\ UNCHANGED <<word, backup, tlb, status, mem_listStart, tail, live>>

\* And for the FIS area; what is freed is the command list's frame.
map_fis ==
    /\ Doing("caller") /\ Top.use = "fis" /\ Top.stage = "alloc"
    /\ free' = mem_pfree({adapter.clb})
    /\ ThenMap(adapter.fis)
    /\ UNCHANGED <<word, backup, tlb, status, mem_listStart, tail, live>>

\* The registers are read through the new mapping.
use_registers ==
    /\ Doing("caller") /\ Top.use = "registers" /\ Top.stage = "mapped"
    /\ IF Frame(PageOf(Top.block)) = {}
       THEN status' = "fault" /\ UNCHANGED <<tlb, calls>>
       ELSE /\ tlb' = Cached({PageOf(Top.block)})
            /\ calls' = << >>
            /\ UNCHANGED status
    /\ UNCHANGED <<word, backup, mem_listStart, tail, live, free>>

\* Where the driver finds its structure: cmd_list_virt, fis_virt.
virt(c) == c.block + (IF c.use = "clb" THEN adapter.clb_offset ELSE adapter.fis_offset)

\* mem_write(from, 0, PageBytes): tails that lie there become zero.
Cleared(from) ==
    [t \in DOMAIN tail |->
        IF from <= t /\ t + sizeof_TAIL <= from + PageBytes THEN List!Tail(0, 0, 0) ELSE tail[t]]

\* A page is cleared from the structure on, into the next page if it starts
\* inside of one.  The command list is followed by the FIS area.
clear_mapped ==
    /\ Doing("caller") /\ Top.use \in {"clb", "fis"} /\ Top.stage = "mapped"
    /\ LET ps == PagesOf(virt(Top), PageBytes)
       IN  IF \E p \in ps : Frame(p) = {}
           THEN status' = "fault" /\ UNCHANGED <<tlb, tail, calls>>
           ELSE /\ tlb' = Cached(ps)
                /\ tail' = Cleared(virt(Top))
                /\ calls' = IF Top.use = "clb" THEN [calls EXCEPT ![1].use = "fis", ![1].stage = "ask"]
                                               ELSE << >>
                /\ UNCHANGED status
    /\ UNCHANGED <<word, backup, mem_listStart, live, free>>

ask_fis ==
    /\ Doing("caller") /\ Top.stage = "ask"
    /\ \E m \in Placements([size |-> PageBytes, align |-> PageBytes, use |-> "fis"]) :
          calls' = <<m>> \o [calls EXCEPT ![1].stage = "alloc"]
    /\ UNCHANGED <<word, backup, tlb, status, mem_listStart, tail, live, free>>

\* mem_free, whose only caller gives back the table of PCI devices while it
\* is the last block: the null next pointer sends a write to address 8.
mem_free(b) ==
    /\ status = "running" /\ calls = << >>
    /\ b.use = "devices"
    /\ \E e \in DOMAIN tail :
          /\ tail[e].vaddr = b.start /\ tail[e].next = 0
          /\ IF Frame(0) = {}
             THEN status' = "fault" /\ UNCHANGED <<tail, live>>
             ELSE /\ tail' = List!Unlinked(e)
                  /\ live' = live \ {b}
                  /\ UNCHANGED status
    /\ UNCHANGED <<word, backup, tlb, mem_listStart, calls, free>>

\* Calls go on by themselves once they are made.
Step ==
    \/ mem_alloc_check_page \/ link
    \/ descend \/ add_table \/ map_page
    \/ keep \/ map_registers \/ use_registers
    \/ map_cmd_list \/ map_fis \/ clear_mapped \/ ask_fis

Next ==
    /\ \/ Step
       \/ \E r \in Requests : request(r)
       \/ \E b \in live : mem_free(b)
    /\ UNCHANGED adapter

Spec == Init /\ [][Next]_vars /\ WF_vars(Step /\ UNCHANGED adapter)

-----------------------------------------------------------------------------
(* Properties.                                                             *)

WindowLinear == KernelStart .. KernelStart + WindowPages - 1

\* Linear pages an instance looks at: those in use around the heap.
Seen == (UNION {PagesOf(b.start, b.size + sizeof_TAIL) : b \in live}) \cup DOMAIN tlb

\* In the window, what page_trace_PML4 tells the kernel is the frame the
\* processor reaches, cached translations included: the addresses the driver
\* hands to its adapters are those of the memory it writes itself, and every
\* remapping took effect although nothing is invalidated.
TraceIsFrame ==
    status = "running" =>
        \A p \in Seen \cap WindowLinear : page_trace_PML4(p) = Frame(p)

\* The same wherever page_trace_PML4 finds a frame.  Violated: a new
\* table is linked by its linear address (page_map.c:101, 108, 115), where
\* the processor finds other memory.
TraceIsReachable ==
    \A p \in {PageOf(m.start) : m \in {calls[i] : i \in {j \in DOMAIN calls : calls[j].op = "mem_alloc"}}} :
        page_trace_PML4(p) # {} => Frame(p) = page_trace_PML4(p)

\* mem_alloc writes the tail of a block it puts into a gap so far behind the
\* block (alloc.c:65) that it ends behind the gap.
BehindGap(m) == m.gap /\ m.at + sizeof_TAIL > tail[m.e].vaddr

\* Where tails were written: those in the list, and the one whose write ended
\* the model because the memory there is in use; not one behind its gap.
TailsWritten ==
    IF status = "corrupt" /\ calls # << >> /\ Top.op = "mem_alloc" /\ ~ BehindGap(Top)
    THEN DOMAIN tail \cup {Top.at}
    ELSE DOMAIN tail

\* No tail and no block its caller keeps lies in a page that was mapped
\* anywhere else: the driver maps device memory over pages of its own only.
\* The exception is the tail behind its gap, which goes into whatever the next
\* block is mapped to.  A driver that finds a disk writes one: the 288 bytes of
\* ahci.c:140 fit before the page of the registers, their tail does not.
OwnMemory ==
    LET kept == {b \in live : b.use \in {"keep", "devices", "table"}}
    IN  \A p \in (UNION {PagesOf(t, sizeof_TAIL) : t \in TailsWritten})
                 \cup (UNION {PagesOf(b.start, b.size) : b \in kept}) :
            Frame(p) = {WindowFrame(p)}

\* Following next from the start meets every linked tail, upwards, whatever
\* the clearing of an adapter's structures ran over.
ListReached ==
    status = "running" =>
        /\ \A t \in DOMAIN tail : tail[t].next # 0 => tail[t].next \in DOMAIN tail /\ tail[t].next > t
        /\ \A t \in DOMAIN tail \ {mem_listStart} : \E u \in DOMAIN tail : tail[u].next = t

\* The processor faults only when a tail is written behind the window: the
\* list, the null write of mem_free and the clearing stay in mapped memory.
FaultsBehindWindow ==
    status = "fault" => calls # << >> /\ Top.op = "mem_alloc" /\ Top.at + sizeof_TAIL > WindowEnd

\* Every call returns or stops the kernel: mem_alloc, page_map_PML4 and the
\* mem_alloc inside of it do not call each other for ever.
CallsEnd == []<>(calls = << >> \/ status # "running")

Abstract == INSTANCE AddressSpace
    WITH Pages <- LookedAt, space <- [p \in LookedAt |-> Frame(p)]

\* As the processor sees it, a step maps one page or none, and the table
\* added for one page takes no other page away.
ImplementsAddressSpace == Abstract!Spec
=============================================================================
