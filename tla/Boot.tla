-------------------------------- MODULE Boot --------------------------------
(***************************************************************************)
(* From the BIOS to the kernel: the boot sector (boot/BS/bootsec.s and its *)
(* functions) reads the image through the BIOS, the stage behind it        *)
(* (boot/PM/kernel-PM.s) asks for the memory map, enters long mode and     *)
(* jumps to the kernel.                                                    *)
(*                                                                         *)
(* The BIOS, its drive and the processor are external: a call may fail at  *)
(* any time.  Memory is counted in sectors of 512 bytes from KERNEL_OFFSET *)
(* on; a sector holds the number of the disk's sector that was put there,  *)
(* or 0 once something else was written to it.                             *)
(***************************************************************************)
EXTENDS Integers, Sequences

CONSTANTS
    SectorsPerTrack,    \* of the geometry the BIOS gives the drive, 63
    MaxResets,          \* 0xFF in the code
    Shortfalls,         \* numbers of sectors a read may come short of
    MapLengths,         \* numbers of entries the firmware's map may have
    Processors          \* what the processor may be

KERNEL_OFFSET == 32768          \* 0x8000
SECTOR        == 512
PAGE          == 4096

\* MEMORYMAP_START, and the page behind the two spacers that make room for
\* the map (0x9000 to 0xBFFF).
MEMORYMAP_START == 36866        \* 0x9002
MAP_END         == 49152        \* 0xC000

\* What the constants may be; assumed where Boot is instantiated.
BootAssumption ==
    /\ SectorsPerTrack \in Nat \ {0}
    /\ MaxResets \in Nat \ {0}
    /\ Shortfalls \subseteq Nat
    /\ MapLengths \subseteq {n \in Nat \ {0} : MEMORYMAP_START + 20 * n <= MAP_END}
    /\ Processors \subseteq {"no leaf", "32 bit", "64 bit"}

\* Mutant: the parts are put behind each other as if none overlapped.
Parts_Behind == <<
    [at |->   0, sectors |-> 63, head |-> 0, first |-> 2],
    [at |->  63, sectors |-> 64, head |-> 1, first |-> 1],
    [at |-> 127, sectors |-> 64, head |-> 2, first |-> 1],
    [at |-> 191, sectors |-> 64, head |-> 3, first |-> 1] >>

\* The four calls of load_kernel.  A track ends one sector before the part
\* that was begun in it: each part starts with the last sector of the one
\* before.
Parts == <<
    [at |->   0, sectors |-> 63, head |-> 0, first |-> 2],
    [at |->  62, sectors |-> 64, head |-> 1, first |-> 1],
    [at |-> 125, sectors |-> 64, head |-> 2, first |-> 1],
    [at |-> 188, sectors |-> 64, head |-> 3, first |-> 1] >>

ImageSectors == 0 .. 251

\* The sector of the disk at which a part begins, cylinder 0.
DiskSector(p) == p.head * SectorsPerTrack + p.first - 1

\* The sectors that bytes first to last are in.
SectorsOf(first, last) ==
    (first - KERNEL_OFFSET) \div SECTOR .. (last - KERNEL_OFFSET) \div SECTOR

\* Memory after bytes first to last were written.
Overwritten(memory, first, last) ==
    [s \in ImageSectors |-> IF s \in SectorsOf(first, last) THEN 0 ELSE memory[s]]

VARIABLES
    stage,          \* what is executed next
    part,           \* the part load_kernel is at
    resets,         \* esi: attempts left to reset the drive
    memory,         \* what the image's sectors hold
    cpu,            \* the processor's kind
    map_length,     \* entries of the firmware's map
    ebx,            \* continuation of the memory map: the last entry got
    edi,            \* place the next entry goes to, from MEMORYMAP_START
    places,         \* the places of the map, by the entry in each
    MEMORYMAP_CNT,
    IF_flag         \* interrupts are enabled

vars == <<stage, part, resets, memory, cpu, map_length, ebx, edi, places,
          MEMORYMAP_CNT, IF_flag>>

disk == <<part, resets>>
firmware_map == <<map_length, ebx, edi, places, MEMORYMAP_CNT>>

Stages == {"reset", "read", "map", "next entry", "PM", "leaf", "LM", "tables",
           "kernel", "halted", "rebooted"}

\* What the boot code keeps, in its ranges.
TypeOK ==
    /\ stage \in Stages
    /\ part \in DOMAIN Parts
    /\ resets \in 0 .. MaxResets
    /\ memory \in [ImageSectors -> Nat]
    /\ cpu \in Processors
    /\ map_length \in MapLengths
    /\ ebx \in 0 .. map_length
    /\ edi \in 1 .. map_length + 1
    /\ places \in [1 .. map_length -> 0 .. map_length]
    /\ MEMORYMAP_CNT \in 0 .. map_length
    /\ IF_flag \in BOOLEAN

\* The boot sector has its stack and has enabled interrupts.
Init ==
    /\ stage = "reset"
    /\ part = 1
    /\ resets = MaxResets
    /\ memory = [s \in ImageSectors |-> 0]
    /\ cpu \in Processors
    /\ map_length \in MapLengths
    /\ ebx = 0
    /\ edi = 1
    /\ places = [k \in 1 .. map_length |-> 0]
    /\ MEMORYMAP_CNT = 0
    /\ IF_flag = TRUE

-----------------------------------------------------------------------------
(* load_sectors.                                                           *)

\* Mutant: the limit is not tested, the counter wraps.
reset_drive_NoLimit ==
    /\ stage = "reset"
    /\ resets' = IF resets = 0 THEN MaxResets ELSE resets - 1
    /\ stage' \in {"reset", "read"}
    /\ UNCHANGED <<part, memory, cpu, firmware_map, IF_flag>>

\* One attempt to reset the drive; after the last one an L on the screen.
reset_drive ==
    /\ stage = "reset"
    /\ resets' = resets - 1
    /\ \/ resets' = 0 /\ stage' = "halted"
       \/ resets' # 0 /\ stage' \in {"reset", "read"}
    /\ UNCHANGED <<part, memory, cpu, firmware_map, IF_flag>>

\* Mutant: only the carry flag is looked at.
Whole_NoCount(got, carry) == ~ carry

\* The BIOS did not fail and got as many sectors as it was asked for.
Whole(got, carry) == ~ carry /\ got = Parts[part].sectors

\* The BIOS puts got sectors into memory.
Read(got) ==
    memory' = [s \in ImageSectors |->
                  IF s - Parts[part].at \in 0 .. got - 1
                  THEN DiskSector(Parts[part]) + s - Parts[part].at
                  ELSE memory[s]]

\* The part is read, and checked; anything missing ends with an E.
read_sectors(got, carry) ==
    /\ stage = "read"
    /\ got \in {Parts[part].sectors - n : n \in Shortfalls}
    /\ Read(got)
    /\ resets' = MaxResets
    /\ \/ /\ Whole(got, carry) /\ part < Len(Parts)
          /\ part' = part + 1
          /\ stage' = "reset"
       \/ /\ Whole(got, carry) /\ part = Len(Parts)
          /\ stage' = "map"
          /\ UNCHANGED part
       \/ /\ ~ Whole(got, carry)
          /\ stage' = "halted"
          /\ UNCHANGED part
    /\ UNCHANGED <<cpu, firmware_map, IF_flag>>

-----------------------------------------------------------------------------
(* The memory map.                                                         *)

\* The BIOS gives the entry behind ebx to the place at edi.  It closes its map
\* with a 0 for the last entry, or with an error instead of another one.
Entry(k) ==
    /\ k <= map_length
    /\ places' = [places EXCEPT ![edi] = k]
    /\ ebx' \in {k} \cup (IF k = map_length THEN {0} ELSE {})

\* The area of the map, written or not: the count, then places of 20 bytes.
MapWritten ==
    memory' = Overwritten(memory, MEMORYMAP_START - 2, MEMORYMAP_START + 20 * edi - 1)

\* Mutant: entries are put one on the other.
counted_OnePlace ==
    /\ MEMORYMAP_CNT' = MEMORYMAP_CNT + 1
    /\ stage' = IF ebx' = 0 THEN "PM" ELSE "next entry"
    /\ UNCHANGED edi

\* .l1: count the entry, and ask for more unless ebx is 0.
counted ==
    /\ edi' = edi + 1
    /\ MEMORYMAP_CNT' = MEMORYMAP_CNT + 1
    /\ stage' = IF ebx' = 0 THEN "PM" ELSE "next entry"

\* The first call; without a memory map the machine reboots.
first_entry ==
    /\ stage = "map"
    /\ \/ /\ Entry(1)
          /\ MapWritten
          /\ counted
       \/ /\ stage' = "rebooted"
          /\ UNCHANGED <<memory, ebx, edi, places, MEMORYMAP_CNT>>
    /\ UNCHANGED <<disk, cpu, map_length, IF_flag>>

\* Every further call; an error ends the map.
next_entry ==
    /\ stage = "next entry"
    /\ \/ /\ Entry(ebx + 1)
          /\ MapWritten
          /\ counted
       \/ /\ stage' = "PM"
          /\ UNCHANGED <<memory, ebx, edi, places, MEMORYMAP_CNT>>
    /\ UNCHANGED <<disk, cpu, map_length, IF_flag>>

-----------------------------------------------------------------------------
(* Protected and long mode.                                                *)

\* Mutant: interrupts stay enabled.
PM_enter_NoCli ==
    /\ stage = "PM"
    /\ stage' = "leaf"
    /\ UNCHANGED <<disk, memory, cpu, firmware_map, IF_flag>>

PM_enter ==
    /\ stage = "PM"
    /\ IF_flag' = FALSE
    /\ stage' = "leaf"
    /\ UNCHANGED <<disk, memory, cpu, firmware_map>>

check_leaf ==
    /\ stage = "leaf"
    /\ stage' = IF cpu = "no leaf" THEN "rebooted" ELSE "LM"
    /\ UNCHANGED <<disk, memory, cpu, firmware_map, IF_flag>>

check_LM ==
    /\ stage = "LM"
    /\ stage' = IF cpu = "64 bit" THEN "tables" ELSE "rebooted"
    /\ UNCHANGED <<disk, memory, cpu, firmware_map, IF_flag>>

PML4_BASE   == 458752       \* 0x70000
MAP_PT_ADDR == 483328       \* 0x76000

\* The four tables at PML4_BASE are cleared and filled, then the one that
\* maps the kernel (their contents: PageMap!BootInit), and the kernel runs.
enter_kernel ==
    /\ stage = "tables"
    /\ memory' = Overwritten(Overwritten(memory, PML4_BASE, PML4_BASE + 4 * PAGE - 1),
                             MAP_PT_ADDR, MAP_PT_ADDR + PAGE - 1)
    /\ stage' = "kernel"
    /\ UNCHANGED <<disk, cpu, firmware_map, IF_flag>>

Next ==
    \/ reset_drive
    \/ \E got \in 0 .. 64, carry \in BOOLEAN : read_sectors(got, carry)
    \/ first_entry \/ next_entry
    \/ PM_enter \/ check_leaf \/ check_LM \/ enter_kernel

\* The processor executes and the calls of the BIOS return.
Spec == Init /\ [][Next]_vars /\ WF_vars(Next)

-----------------------------------------------------------------------------
(* Properties.                                                             *)

\* load_kernel's comment gives each part its place.  When the kernel is
\* entered every sector of the image is where it was linked to be, except in
\* the pages kept for the memory map: four overlapping reads, a count that was
\* checked, and neither the map nor the page tables ran over code.
ImageWhole ==
    stage = "kernel" =>
        \A s \in ImageSectors \ SectorsOf(MEMORYMAP_START - 2, MAP_END - 1) :
            memory[s] = s + 1

\* The kernel reads MEMORYMAP_CNT entries (palloc.c): each of them was written
\* by the firmware, in its order, however the firmware ends its map.  An error
\* in the middle may cut the map short, but never adds a place nobody wrote.
MapCounted ==
    stage \in {"PM", "leaf", "LM", "tables", "kernel"} =>
        /\ MEMORYMAP_CNT > 0
        /\ \A k \in 1 .. MEMORYMAP_CNT : places[k] = k
=============================================================================
