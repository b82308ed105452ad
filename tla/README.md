# Verification of OS-v3

TLA+ models of the OS-v3 kernel, TLC runs on small instances of them, and
proofs checked by TLAPS. OS-v3 is a small x86-64 system: a boot sector, a
protected-mode stage that builds page tables, and a freestanding C kernel that
manages memory, drives the console and interrupts and looks for AHCI disks.

Paths below are relative to `src/`; `kernel/` stands for `kernel/src/code/`.

## 1. Inventory

The kernel runs on one processor. Its concurrency is the main program against
interrupt handlers, and the driver against devices that change their registers
and write memory on their own. Nothing is persistent and nothing restarts;
every failure ends in `while(1)`.

| component | source | state | operations |
| --- | --- | --- | --- |
| page-frame allocator | `kernel/mem/palloc.c` | bit table behind the kernel image, one bit per frame of each RAM entry of the E820 map | `mem_palloc_init`, `mem_palloc`, `mem_pfree` |
| kernel heap | `kernel/mem/alloc.c` | doubly linked list of tails, one behind each block | `mem_init`, `mem_alloc`, `mem_alloc_check_page`, `mem_free` |
| page tables | `kernel/mem/page_map.c` | four levels of tables, PML4 at a fixed place | `page_map_init`, `page_map_PML4`, `page_trace_PML4` (the PML5 variants are never called) |
| memory access, checksum | `kernel/mem/mem_access.c`, `kernel/tools/checksum.c` | none | byte loops |
| console | `kernel/screen.c` | text buffer, cursor, print status | printing, new line, scrolling, clearing, cursor moves |
| interrupts, timer, exceptions | `kernel/cpu/{pic,idt,timer,exception.isr}.c`, `timer-isr.s`, `idt-isr.s` | IDT, masks and bases of the two controllers, spinner | remap, set a gate, the handlers |
| PCI scan | `kernel/pci/pci.c` | table of bus/slot pairs and its length | `pciCheckBus`, `pciGetDeviceTable` |
| disk search | `kernel/disk/disk.c` | list of found AHCI controllers | `disk_searchDisks`, `disk_init` |
| AHCI driver | `kernel/disk/ahci.c` | list of linear addresses per port, command lists, tables and FIS areas shared with the adapter | `ahci_init_disk`, `ahci_port_rebase`, stop/start, `find_cmdslot`, `ahci_port_read` |
| start-up sequence | `kernel/kernel.c` | the order of everything above | `main` |
| CPU identification, ports | `kernel/cpu/cpuid.c`, `kernel/src/include/cpu/port.h` | none | instruction wrappers |
| boot sector | `boot/BS/` | the image in memory, attempts left | `load_kernel`, `load_sectors` |
| protected-mode stage | `boot/PM/` | memory map and its count, first page tables, interrupt flag | E820 loop, processor checks, long mode, jump to the kernel |

How they interact:

- The boot sector reads the image with the BIOS, which needs interrupts enabled;
  the protected-mode stage disables them and hands over with the BIOS's vectors
  still in the controllers and no IDT. It leaves the memory map at 0x9000 and the
  page tables at 0x70000 for the kernel.
- `main` calls every component in a fixed order: console, interrupt
  controllers, IDT, timer, `sti`, page tables, frame allocator, heap, PCI,
  disks. Everything after `sti` can be interrupted by the timer, whose handler
  writes into the console's text buffer.
- `screenUp` ends with `sti`, so a line printed in the last row enables the
  interrupts whatever they were before.
- The frame allocator puts its table behind the kernel image and moves
  `endofkernel`; the heap starts there.
- `mem_alloc` asks the frame allocator and the page tables for memory beyond
  the pages the boot code mapped; a new page table is itself taken from
  `mem_alloc`, in the middle of an allocation.
- The AHCI driver takes heap blocks, maps registers and command lists over
  them and frees the frames that were below, some of which the firmware owned.
- PCI and disk search share the table of devices; the second one has the bus
  scanned again.

What has to be right, by component: the allocators hand nothing out twice and
lose nothing, whatever the order of calls; the list of the heap stays a list,
also while a page table is allocated in the middle of an allocation and while
the driver maps and clears pages next to it; what the kernel takes for the frame
of a page is what the processor reaches; the kernel is entered only with its
whole image and a map the firmware wrote;
the console's array behaves as rows; ticks reach the timer and never an
unprepared IDT; the scans find the controllers at function 0 once and end; the
structures of a port are rewritten only while its engines are off, commands go to free
slots of restarted ports, and OK means that the command completed. The hard
behaviours, each at its line and with the properties for it, are the `hazards`
of `PROJECT.json`.

## 2. Modules

Each component has its module; `MC...` gives its constants small values;
abstract specifications and proofs have modules of their own.

| module | models | implements |
| --- | --- | --- |
| `Palloc`, `MCPalloc`, `PallocProofs` | the frame allocator | `FrameAllocator`: a pool of frames |
| `Heap`, `MCHeap`, `HeapProofs` | the heap | `BlockAllocator`: aligned blocks that never overlap |
| `PageMap` | the page tables, as the kernel and as the processor read them | |
| `KernelMemory`, `MCKernelMemory`, `KernelMemoryProofs` | `PageMap` and the list of `Heap` together, with frames and the driver's mappings | `AddressSpace`: mapping a page changes that page |
| `Screen`, `MCScreen`, `ScreenProofs` | the console, with the timer's writes | `Terminal`: rows and a cursor |
| `Ahci`, `MCAhci`, `AhciProofs` | the AHCI driver and the adapters | |
| `Pci`, `MCPci`, `PciProofs` | PCI scan and disk search | |
| `Interrupts` | start-up order of `main`, controllers, IDT, handlers | |
| `Boot` | boot sector and protected-mode stage | |
| `Startup`, `MCStartup`, `StartupProofs` | `Boot` handing over to `Interrupts` | |
| `NumberLemmas` | nothing of the system: least and greatest members, induction over a set, division | |

The refinement mapping of each component is in the component's module (`Abstract ==
INSTANCE ... WITH`), so that the run and the theorem speak of the same formula.

**Palloc.** Addresses are frames; the table is the set of bits that are 1, indexed
from its first bit, so that the position of a RAM entry's piece (`tbl_entry_start`)
is the code's sum of bytes. `mem_palloc_init` fills, then clears the kernel's
frames, or halts (also where the long table of a machine with more than about 10 GB
runs over the boot code's page tables). `mem_palloc(n)` is the first-fit scan over
the part of each entry the code looks at (an eighth: `ScannedBits`). `mem_pfree`
finds the entry and sets the bits. Each call is one action: nothing interrupts it
that touches the table. `mem_pfree_frame` is the AHCI driver's freeing of frames it
did not get from the allocator.

**Heap.** Addresses are bytes, as in the code. `mem_alloc` is two actions, a
block into the first gap that fits and a block behind the last tail;
`mem_alloc_check_page` is the guard that the pages are mapped. The block's tail
is placed where the code places it, by pointer arithmetic on a 24-byte type; a
tail that lands on memory in use makes `status` corrupt, and the model stops
there. `mem_free` stops at the first tail that holds the address. The kernel's own
tail holds 0x2000, where no block starts: freeing that address answers 0 and takes
`prev` from the tail behind it (`unlink_first`), after which `status` is damaged
and the model stops. `BadAddresses` are the numbers that are freed without being a
block; 0x2000 is one of them.

**Screen.** One array of characters with the code's row arithmetic; rows 0 to
`SCREEN_HIGHT` (19) are the console, and one row more is kept because the cursor
can stand behind the last column of the last row. Formats are left out: what is
printed is so many characters and new lines, each an action, with timer ticks
possible between them whenever interrupts are enabled. `screenUp` runs with
interrupts disabled and is therefore atomic. `Terminal` is what `screen.h` says: a
clear screen is clear, every character stays. Two steps of the code are no steps of
it, and `TerminalButTwoSteps` names both and allows nothing else: `KeepsLastRow`
(`screen.c:123` leaves the last row) and `LosesCharacter` (`screen.c:70` lets the
cursor go behind the last column, and what is printed there is not kept).

**Ahci.** One action per register access of the driver (both reads of `cmd` in
the stop loop, both polls of a turn in `ahci_port_read`), against adapters that
act between any two of them: engines follow ST and FRE, a busy drive may become
ready, an issued command completes or fails. Registers are external. The firmware
has put each port's command list and FIS area somewhere (`place`, one of `Layouts`),
of one or of several ports in a page. Memory is followed as far as which table a
command header points to, through `page_trace_PML4`, which drops the offset in the
page. `remap` clears 4096 bytes from the old structure on, as the code does: the
headers of every port whose list lies behind it in that page point to nowhere
afterwards (`Wipes`, `Rebased`), those of a port the driver rebased before included.
What is cleared behind the end of the page is heap, and is in `KernelMemory`. What
`ahci_port_read` writes into the FIS area with FRE set (`ahci.c:267-287`) changes no
header and has no effect in the model. Only one page of registers is mapped
(`ahci.c:25, 35`), which holds ports 0 to 29; controllers with more are outside of
the model, the port behind the last included (`AhciAssumption`).

**Pci.** A machine is a set of functions of devices, each with its bus, slot and
function number; it answers to every address that reaches it, slot bits that run
into the bus field included. The code asks for function 0 only, so the other
functions are in the machine but not in the table. The two loops of a scan, the
rescan of `pciGetDeviceTable` and the search are loops of one turn per action. The
number of devices is the code's `uint16_t`; the bits of an address are joined with
`IsOr`, a definition of the bitwise or by bits (`HasBit`), which a proof can use.

**PageMap.** Memory is looked at as words, a word being the page number of a present
entry. The boot code's entries are a function (`BootEntry`), those written since are
kept in `word`. An entry of a table stands for `Reach(level)` pages, which is what
the shifts of `Index` come from. `Walk` is the processor, which takes the number for
a frame; `page_trace_PML4` is the code, which takes it for a linear page and reads
the next table through the mapping itself. Both agree as long as all tables lie
where linear and physical addresses are the same. `BootEntry` carries an assumption
about the machine: memory nobody wrote holds no present entry. Nothing clears the
tables `page_map_PML4` adds (`page_map.c:102, 109, 116`), so on RAM the firmware
left dirty the entries of a new table could be anything; all properties of
`KernelMemory` are about RAM without such entries. `tlb` keeps every translation
that was ever used, because the code never invalidates one; real processors drop
some, which can only hide a stale one. `Cell` has the code's index: `page_map_PML4`
multiplies the PML4 index by 8.

**KernelMemory.** `calls` is the stack of the one program: `mem_alloc`, the
`page_map_PML4` inside of its `mem_alloc_check_page`, the `mem_alloc` inside of
that, and the caller. The place of a block is chosen when `mem_alloc` is called and
its tail is linked when the pages are checked, with the definitions of `Heap` (`List
== INSTANCE Heap`), so that nested allocations work on the list as the outer one
left it. Callers are those of the kernel: the table of PCI devices (freed before the
second scan), the registers, command lists and FIS areas mapped onto the adapter
(`ahci.c:25-38, 143-163`), its lists, list entries and command tables
(`ahci.c:16-17, 140, 171`), the buffer, and blocks large or aligned enough to leave
the window. `mem_pfree` offers every frame to later calls, also those the scan of
one eighth would never reach (`palloc.c:108`): the model allows more than the code
does. The table of devices is asked for before anything else is in use and again
after it was freed, as `main` does. A tail, a block or a new page table over the
boot code's tables or the hole below 1 MB, and a tail behind its gap on memory in
use, makes `status` corrupt; an access without translation makes it fault; both end
the run. `MemoryAssumption` says what the geometry of the boot code is used for: the
window is what one table maps, its frames have lower numbers than its pages, and no
request leads out of the 512 GB of the PML4's first entry.

**Interrupts.** The parts of `main` in order, each printing its line; the
pair of controllers (requests, masks, in-service bits, vector bases), delivery
through the IDT, the timer's handler, exceptions and the default handler. An
exception before `idt_init` would end in a triple fault and is left out. What `main`
does after `sti` is one part (`work`): lines are printed, for ever or until one of its
endless loops; `done` stands for any of those, the ones of the AHCI driver included.

**Boot.** One action per BIOS call: an attempt to reset the drive, a read that
may fail or come short, an entry of the memory map. Memory is the sectors of the
image; each read, the memory map (which lies inside of the image, in pages kept
for it) and the page tables write to it, so that one of them running over code
would show. `check_leaf` and `check_LM` send the machine to its reboot. What
`reboot` executes after loading an empty IDT ends in the processor's shutdown in
either mode and is one state. Descriptor tables and control registers are left
out.

**Startup.** `Boot` and `Interrupts` share the interrupt flag: the boot sector
enables interrupts, `PM_enter` disables them, and the kernel starts with what it
finds. Interrupts during `Boot` are the BIOS's own.

## 3. Runs

Every passing run checks a type invariant besides what is named here.

| run | question | instance |
| --- | --- | --- |
| `palloc` | Do frees and requests in any order keep the table exact, grant no frame twice, never the kernel's, and implement a pool? | low RAM of 68 pages, hole, high RAM of 64, reserved top; requests of 1 and 3 pages; images that fit, whose table runs over the page tables, that end behind their RAM entry or behind the window |
| `palloc_no_space` | Does NO SPACE mean that there is none? No. | requests of 3 pages until the scan fails |
| `palloc_last_entry` | Has every page that is handed out a bit? Not if RAM is last in the map. | RAM last, stray ones behind the table |
| `heap` | Do blocks, tails and list survive any order of calls, and what does `mem_free` find? | the kernel's own three kinds of requests, 4 blocks, 5 pages, two addresses that are no block: one nobody holds and 0x2000 |
| `heap_gap` | Does a tail stay inside the gap its block was fitted to? No. | the same |
| `screen` | Do wrapping, scrolling, moving and ticks implement a terminal, but for the two named steps? | 3 rows of 2 characters |
| `ahci` | Is a port rewritten only with its engines off, are commands issued only to ready ports and free slots and through which headers, is OK reported only for completed commands, and do the waits end? | two controllers of two ports (two drives; nothing, drive), two slots, two polls; structures on pages of their own, or all lists in one page and all FIS areas in another |
| `ahci_hang` | Does a read return? No. | the same |
| `pci` | Is the table filled exactly, is every AHCI controller at function 0 found and no other, one on bus 0 once, does the search end? | all 256 machines from eight functions on three buses, one of them a controller at function 2; eight numbers tried on four slots, room for four |
| `memory` | Is the frame the kernel sees the one the processor reaches, are remapped pages the driver's own but for a tail behind its gap, does the list survive clearing, do nested allocations end, does mapping a page change only that page? | the boot code's addresses, a heap that starts six pages below the page tables; twelve requests, three blocks, two adapters, one with seven free frames, one (whose structures are in RAM) with none |
| `memory_walk` | Does the processor find what `page_trace_PML4` finds? Not behind the window. | the same |
| `startup` | Is the image whole and the map the firmware's, do ticks reach the timer, do masked lines stay quiet, is each tick served and does the machine get past `sti`? | the image's real parts, three resets, reads that miss none, one or all but one of 64 sectors, a map of three entries, every kind of processor; timer, keyboard and IDE lines, every firmware mask, a page fault |

Why these bounds are enough. `palloc` has every kind of map entry, an entry whose
pages are no multiple of 8 (so that pages without a bit exist), a run that crosses
byte borders, fragmentation by both sizes and all ends of `mem_palloc_init`. `heap`
needs three blocks for a gap in the middle and a fourth to go into it or behind the
last; of the addresses that are no block only 0x2000 is held by a tail. `screen`
needs two columns to tell a full row from a first one and three rows so that a row
is scrolled twice. `ahci` needs a second controller for the loop over disks, a port
that is not SATA, two drives at one controller so that rebasing the second can clear
the first one's list, a drive that is not at port 0 and two slots so that one can be
occupied. `pci` needs a controller whose function 0 is another device, or missing.
`memory` keeps the real addresses, because what goes wrong depends on them: its
twelve requests are the kernel's own, of which those of 8 and 288 bytes go into the
gap in front of an aligned block, and others that go over the page tables, fill the
window but for its last page, leave it by a page, a table and a directory, leave a
gap in front of the last block and come back into it, and cross the first table
behind the window; its adapters have structures on pages of their own and two in one
page of RAM, with offsets. Frames are free where the firmware kept the structures
outside of RAM; where they are in RAM none is, so that the frames the driver frees
are the next ones granted. Three blocks are enough for a gap, the registers behind
it and a block in it. `startup` keeps the real parts of the image; of the 255
attempts to reset three are left, which is enough to reach the limit in each part,
and a map of three entries has a first, a middle and a last one to fail at. The
state spaces are explored completely.

Deadlock is checked for `screen`, whose console can always go on. The others
stop where the code stops (`while(1)`, or the end of the modelled sequence), or
at a bound on the number of blocks, and say so with `CHECK_DEADLOCK FALSE`.

The bounds in guards: `MaxBlocks` (blocks in use at once), `SpinLimit` (the
code's 1000000 polls), `MaxDepth` (calls on the stack of `KernelMemory`; it is
never reached: if a call could wait at it, `CallsEnd` would fail), `MaxResets`
and `MapLengths`. The poll counter of `ahci_port_read`'s second loop is
kept at 1, because only whether it is 0 matters.

### Fairness

- `Ahci`: weak fairness of the driver (it is the only program and polls), of
  each engine following its bit, and of an issued command ending well or badly.
  That a drive stops being busy is not assumed; the driver counts.
- `Pci`: weak fairness of the one program.
- `KernelMemory`: weak fairness of the steps of calls that were made; nothing
  obliges callers to ask.
- `Boot`: weak fairness of its steps: BIOS calls return.
- `Interrupts` and `Startup`: handlers and deliveries are weakly fair. `Main` is strongly
  fair, because it is disabled while a handler runs: the tick's period is
  longer than its handler by orders of magnitude, so the main program executes
  between two ticks. Nothing is assumed of how its last part ends: the driver may
  hang there or print for ever. `StartupEnds` therefore asks for the machine to get to
  that part, and `TicksServed` is about ticks during it too.
- `Palloc`, `Heap` and `Screen` are libraries; nothing obliges callers to call.

### Findings

| run | what |
| --- | --- |
| `palloc_no_space` | `palloc.c:108` counts the bytes of an entry's piece as bits, and seven eighths of the memory are never offered |
| `palloc_last_entry` | `palloc.c:36` leaves the last entry of the map out of the table's size |
| `heap_gap` | `alloc.c:65` moves a pointer to a tail by `size` tails, not by `size` bytes |
| `ahci_hang` | `ahci.c:311` stops the kernel unless the first poll finds the command completed |
| `memory_walk` | `page_map.c:101, 108, 115` link a new table by its linear address, so the first memory behind the window faults |

Noticed while modelling, without a run of their own:

- `screen.c:123`: `screenClear` leaves the last row, though `screen.h:36` says "clear
  screen"; `screen.c:70`: a character printed behind a full row is not kept. Both are
  named exceptions of `TerminalButTwoSteps`.
- `pci.c:42`, `disk.c:21`: function 0 is the only one asked for. A controller at
  another function, like 00:1f.2 of a common chipset, is missed (`FunctionZeroFound`).
- `alloc.c:17, 110`: `mem_free(0x2000)` returns 0 although no block starts there
  (`FreeFindsBlocks`). No caller passes that address.
- `ahci.c:152, 163`: clearing 4096 bytes from a structure that starts inside of a page
  clears the command lists of other ports that lie behind it, after which a command to
  such a port goes through headers that point to address 0 (`IssueReady`).
- `ahci.c:140` with `alloc.c:65`: the driver's list entry of 288 bytes fits in front of
  the page mapped onto the adapter's registers; its tail is written 24 times as far,
  into that page (`OwnMemory` excepts it).
- `ahci.c:25, 35`: registers of ports 30 and 31 lie behind the one page that is mapped,
  where the next heap block is.
- `pci.c:41`: the scan tries slot numbers of 8 bits in a field of 5, so a device
  on a bus other than 0 is found under several numbers; one on bus 0 is not
  (`BusZeroOnce`).
- `page_map.c:122`: no translation is invalidated. `TraceIsFrame` holds because
  `mem_free` has one caller, and that one frees a table which ends in the page
  the heap starts in (`DevicesFit` in the proofs). Were a block freed whose pages
  are then mapped onto an adapter, the driver would go on writing to the old frame.
- `alloc.c:113`: freeing the last block writes to address 8, which the boot code
  maps; the run `memory` takes that path.
- `ahci.c:152, 163`: 4096 bytes are cleared from an address with an offset, over
  the tail of the block itself. Its `prev` becomes 0, which `mem_alloc` takes
  for the mark of the first entry (`alloc.c:52`): the gap in front of it is never
  used again. The chain of `next` survives (`ListReached`).
- `ahci.c:158`: the command list's frame is freed twice, the FIS area's never.
  Like frames 0 to 12, which `mem_palloc_init` leaves free although they are in
  use, it can only be granted for a page behind the window, where the page fault
  of `memory_walk` comes first.
- `ahci.c:242`: the command is written over the driver's own list entry.
- The heap grows through the window over the page tables at 0x70000 and into the
  hole below 1 MB; nothing bounds it.

## 4. Proofs

`tlapm` proves, for every value of the constants that the modules' named
assumptions allow, every safety property the passing runs check, and the
refinement of all four abstract specifications (that of `Terminal` with its two
exceptions):

| theorem | statement | needs |
| --- | --- | --- |
| `PallocProofs!TypeCorrect` | the allocator's types | |
| `PallocProofs!DoubleGrantFree` | no frame is in two granted runs | |
| `PallocProofs!KernelProtected` | the kernel and its table are never granted | |
| `PallocProofs!OnlyRam` | a granted run lies in one RAM entry | |
| `PallocProofs!TableIsExact` | a bit is 1 if and only if its frame is free | `LastNotRam`, `KernelHasBits` |
| `PallocProofs!PallocIsFrameAllocator` | `Palloc` implements `FrameAllocator` | `LastNotRam`, `KernelHasBits` |
| `HeapProofs!TypeCorrect` | the heap's types | |
| `HeapProofs!BlocksApart` | blocks, and tails, do not overlap | |
| `HeapProofs!WalkComplete` | the walk from the first tail meets every tail once, upwards, and back by `prev` | |
| `HeapProofs!TailsAndBlocks` | each block has one tail, each tail but the kernel's one block | |
| `HeapProofs!FreeAnswers` | `mem_free` returns 0 exactly for the start of a block in use and for 0x2000 | |
| `HeapProofs!HeapIsBlockAllocator` | `Heap` implements `BlockAllocator` | |
| `KernelMemoryProofs!TypeCorrect` | the types of the kernel's memory | `DevicesFit` |
| `KernelMemoryProofs!TraceRight` | in the window `page_trace_PML4` finds the processor's frame | `DevicesFit` |
| `KernelMemoryProofs!MemoryIsOwn` | no table, kept block or tail is in a remapped page, but for a tail behind its gap | `DevicesFit` |
| `KernelMemoryProofs!ListIsWhole` | the chain of `next` reaches every tail | `DevicesFit` |
| `KernelMemoryProofs!FaultsAreBehind` | only a tail behind the window faults | `DevicesFit` |
| `KernelMemoryProofs!MappingIsLocal` | the page tables implement `AddressSpace` | `DevicesFit` |
| `ScreenProofs!TypeCorrect` | the console's types | |
| `ScreenProofs!WritesInBuffer` | the next character goes inside the buffer, in the last row too | |
| `ScreenProofs!SpinnerSteady` | the spinner shows only at the end of the first row | |
| `ScreenProofs!ConsoleIsTerminalButTwoSteps` | `Screen` implements `Terminal`, but for the two named steps | |
| `AhciProofs!TypeCorrect` | the driver's types | |
| `AhciProofs!EnginesOff` | a port's structures are rewritten only while its engines are off and no port has a command left | |
| `AhciProofs!Issue` | a command goes to a free slot of a restarted, listed port, through the driver's headers unless a later rebase cleared them | |
| `AhciProofs!OkDone` | OK is returned only for a completed command | |
| `PciProofs!TypeCorrect` | the types of the scan; no write behind the table | `SomeSilent` |
| `PciProofs!TableIsFull` | the second scan fills the table the first one measured | `SomeSilent` |
| `PciProofs!ControllersFound` | the search ends with the AHCI controllers at function 0 in the list, and no others | `SomeSilent` |
| `PciProofs!BusZeroFoundOnce` | a controller on bus 0 is there once | `SomeSilent` |
| `StartupProofs!StartupTypeCorrect` | the types of boot code and kernel | `FourRows` |
| `StartupProofs!MapIsCounted` | the entries `MEMORYMAP_CNT` counts were written by the firmware | |
| `StartupProofs!ImageIsWhole` | the kernel is entered only with its whole image | `Tracks63` |
| `StartupProofs!MaskedDevicesQuiet` | what the firmware masked interrupts nothing | |
| `StartupProofs!TicksGoToTimer` | a tick reaches the timer's handler, never an unprepared IDT | `FourRows` |

The last column names hypotheses of the theorem, beyond the assumptions of the
module. Each is a condition on the machine under which the code is right, and
each is needed:

- `LastNotRam`: the last entry of the memory map is not RAM. Otherwise
  `mem_palloc_size` leaves it out, which the run `palloc_last_entry` shows.
- `KernelHasBits`: a kernel that fits its RAM entry ends before the entry's last
  odd pages, whose bits are the first ones of the next entry.
- `DevicesFit`: the table of PCI devices ends in the page the heap starts in. As
  `mem_palloc_init` rounds the end of the kernel up to a page and an entry of the
  table has two bytes, that is true up to 2024 entries. The table is the
  only block that is ever freed, and nothing invalidates the translation of the
  page its tail was in; in the first page that does not matter, because the
  kernel's own tail keeps it from being mapped elsewhere.
- `SomeSilent`: of the 65536 numbers a scan tries, one is not answered. Otherwise
  the `uint16_t` that counts the devices would be 0 in the end.
- `FourRows`: `SCREEN_HIGHT` is at least 4; it is 19. With fewer, a line printed
  before the IDT is there would reach the last row and `screenUp` would enable
  the interrupts.
- `Tracks63`: the BIOS's tracks have 63 sectors, as `load_kernel` presumes when
  it counts on by tracks.

### Arguments

None of the properties but the types of the console is inductive. What had to be
added, by component:

**The frame allocator.** That `mem_palloc` grants only free frames depends on
which bits of the table are 0. `IInv` adds that granted runs are made of frames
that have bits (`GrantedHasBits`: a run lies within the whole table bytes of its
entry), that the bit of each frame of the kernel or of a run is 0
(`TakenIsZero`), and that runs are disjoint. Its heart is that bits of different
RAM entries are different bits although the table is one string of bytes:
`tbl_entry_start` of a later entry is behind the last whole byte of an earlier
one (the lemmas about `Total`, from `FiniteSetTheorems`), and within an entry a
bit determines its frame. Then freeing one run changes no bit of another.
`ExactInv` adds the other direction, that a frame which is neither the kernel's
nor granted has a 1, for which the two hypotheses are needed. With it, a call is
a step of `FrameAllocator` whose pool is the set of bits. The assumptions are
those of `Palloc`: the firmware's RAM entries do not overlap, and the driver
frees no page behind the last whole byte of an entry.

**The heap.** `IInv` says of each tail what its neighbours are: `prev` is the
next lower tail, and between the two lies the tail's block (`Backward`); `next` is
the tail whose `prev` this one is, or 0 at the highest one (`Forward`); blocks
and tails but the kernel's are one to one (`Owned`, `Counted`). Inserting,
appending and unlinking change three neighbours at most, which the lemmas of
each operation go through. `FreeAnswers` needs that no other tail holds 0x2000
(`FirstAlone`): it is below every block. After the kernel's tail was unlinked nothing
is claimed, and nothing happens. Ordering by address makes blocks disjoint without
looking at the rest of the list. `Walk` is a recursive function; that it has a
value at all (`WalkExists`) and meets the tails by rank (`WalkRanks`) is shown by
induction over a set of numbers, `InductiveSet` of `NumberLemmas`, which needs no
theorem with an operator for a parameter.

**The kernel's memory.** Here list, page tables, cached translations and the
stack of calls hold one another up, and the invariant has a part for each:

- the list is chained upwards and led to (`Chained`, `LedTo`), though a tail the
  driver cleared has lost its `prev`; each block lies behind one tail and in
  front of its own (`Behind`), blocks of the driver are single whole pages;
- an entry written since boot is `Harmless`: it is not on the boot code's path to
  the window, and if it is in the window's own table then the page it remaps is
  the driver's. Tables the kernel added are spare tables or blocks of their own
  (`OwnTable`), in memory of the window, either for directories (`Upper`) or for
  pages (`Lower`) and never both;
- what the processor keeps is what it would find, and only for pages in use
  (`TlbInv`): a page that is about to be remapped has never been used;
- each call on the stack is where it can be (`Sound`), was called by one that
  could call it (`CalledBy`), and the innermost one's view of the list is current
  (`Current`, `Placed`). The heart of it is that a block inside the window needs
  no new page, so that only an allocation that leaves the window (`Outside`) is
  ever interrupted by another one, and such an allocation never links its tail:
  the kernel stops before or at that write. That is why its stale place does no
  harm.

`OwnMemory` speaks of more than the list: a tail that was written over memory in use
ended the model before it was linked. `LastWriteKeeps` follows that write: the tail of
a block at the end of the list, or in a gap that holds it, lies in pages the driver
never had (`NewTailApart`), and so `Frame` still gives their own frames.

From this `Traced` shows that the code's walk and the processor's are the same in
the window. For `AddressSpace`, `FramesOfAll` says that under the first entry of
the PML4 the frame of a page depends on the window's table alone or, outside of
the window, on the boot code alone; a step writes one entry or none (`OneEntry`),
so it changes one page or none. The pages that are shown to the abstract
specification are a constant, `LookedAt`, any set of pages below the first entry's end.

**The console.** `Place` and `PlacesDiffer` say that row and column determine a
place and back, including the row behind the last. From them `TextScrolled`
(`screenUp` on the array is scrolling of the rows), `TextSet` and `TextSetBelow` (a
character changes one place of one row, or none) follow, and with these each
operation is a step of `Terminal` or one of the two exceptions. `TypeOK` is
inductive as it stands and, with it, so is `SpinnerStays`. The spinner is assumed to
be a symbol callers do not print, which lets its copies be told from theirs.

**The AHCI driver.** What the driver waited for stays true although the adapter
changes registers between any two of its steps, because the bits it cleared stay
clear (`Stopped`); a listed port has the driver's tables, or none when a port that
came into the list later wiped them, and, once the driver
left it, runs (`ListedRuns`); outside of a read nothing is issued
(`NothingElseIssued`), so a command the driver finds done is its own
(`SlotFree`, `PollSound`, `OkStays`). The proof has a step for each action of
the driver and one for all of the adapter's.

**PCI and disks.** Both loops of a scan visit the same numbers, so the invariant
compares each with one set: the numbers up to here that are answered at function 0
(`Found`).
The first loop counts it, the second enumerates it (`Enumerates`), and the search
is a filter of the table (`Filters`).

**Start-up.** Four invariants, one for each thing handed on: the memory map
(`BootInv`), the parts of the image that are in place after each of the
overlapping reads (`Loaded`), the firmware's masks (`MaskInv`), and in which
parts of `main` interrupts can be enabled, which rests on the number of lines
printed until then (`KernelInv`).

### Only model-checked

- Liveness (`StopEnds`, `StartEnds`, `SearchEnds`, `CallsEnd`, `TicksServed`,
  `StartupEnds`): it rests on fairness and `ENABLED`, which the prover does
  not have.
- The properties that are violated: a counterexample is TLC's to find.

## 5. Not modelled

- The checksum and the byte loop of `mem_write`: without state of their own; what
  `mem_write` does to the heap's list is in `KernelMemory`.
- CPU identification, ports: they return what the hardware says.
- The PML5 variants of mapping and tracing: never called. Permission, cache and
  protection bits of entries: every mapping is for the kernel, whose writes the
  processor does not check (CR0.WP is clear).
- What `main` does after `sti` is one part that prints lines in `Interrupts`; its
  calls are in the modules of the components.
- The contents of command tables and FIS structures, the attributes of the
  screen, number formats, and everything that only prints.

## 6. Plan

Done: all modules above with their abstract specifications; each safety property
and each refinement the runs check is proved. What is left:

1. `Ahci` with the bytes of the list entry, the FIS area and the tables.
2. Proofs: the part of the liveness properties that is safety. In
   `KernelMemory` a bound on the depth of nested calls, so that `MaxDepth` is
   a bound no call waits at; in `Ahci` and `Pci` a measure each turn of a loop lowers.

## 7. Files

`<run>.cfg` belongs to the run of that name in `PROJECT.json`, which also gives
the module of each run, the source lines each definition models, a mutant of the
code for each property, the hazards and the findings.

    tlc -config palloc.cfg MCPalloc
    tlapm PallocProofs.tla
