---------------------------- MODULE StartupProofs ----------------------------
(***************************************************************************)
(* Proofs about Startup: what the boot code hands over to the kernel, and  *)
(* which handler a device reaches while the kernel comes up.               *)
(*                                                                         *)
(* One invariant for each thing that has to be carried along the control   *)
(* flow: how far the memory map is written (BootInv), what memory holds    *)
(* after each part of load_kernel (Loaded), what the firmware masked       *)
(* (MaskInv), and in which states the kernel can be interrupted            *)
(* (KernelInv).                                                            *)
(***************************************************************************)
EXTENDS Startup, SequenceTheorems, TLAPS

-----------------------------------------------------------------------------
(* The steps of the machine.                                               *)

\* A step of the machine is one action of the boot code, or one of the kernel.
LEMMA Steps ==
    ASSUME [StartupNext]_machine,
           NEW P,
           UNCHANGED machine => P,
           /\ UNCHANGED <<pc, cur_Y, IDT, running, pic, old_mask, last>>
           /\ \/ Boot!reset_drive
              \/ \E got \in 0 .. 64, carry \in BOOLEAN : Boot!read_sectors(got, carry)
              \/ Boot!first_entry \/ Boot!next_entry \/ Boot!PM_enter
              \/ Boot!check_leaf \/ Boot!check_LM \/ Boot!enter_kernel
           => P,
           stage = "kernel" /\ UNCHANGED boot /\ Next => P
    PROVE  P
  BY DEF StartupNext, BootStep, Boot!Next, InKernel

-----------------------------------------------------------------------------
(* The memory map.                                                         *)

AfterMap == {"PM", "leaf", "LM", "tables", "kernel"}

\* edi and MEMORYMAP_CNT move together, ebx with them until the firmware ends
\* its map, and the places below edi hold the entries in order.
Mapped ==
    /\ edi = MEMORYMAP_CNT + 1
    /\ \A k \in 1 .. MEMORYMAP_CNT : places[k] = k
    /\ stage \in {"reset", "read", "map"} => MEMORYMAP_CNT = 0
    /\ stage \in {"reset", "read", "map", "next entry"} => ebx = MEMORYMAP_CNT
    /\ stage \in AfterMap \cup {"next entry"} => MEMORYMAP_CNT > 0

BootInv ==
    /\ Boot!TypeOK
    /\ stage \in {"reset", "read"} => resets > 0
    /\ Mapped

LEMMA BootTypes ==
    /\ MaxResets \in Nat /\ MaxResets > 0
    /\ SectorsPerTrack \in Nat /\ SectorsPerTrack > 0
    /\ \A n \in MapLengths : n \in Nat /\ n > 0 /\ 36866 + 20 * n <= 49152
<1>1. /\ MaxResets \in Nat \ {0} /\ SectorsPerTrack \in Nat \ {0}
      /\ MapLengths \subseteq {n \in Nat \ {0} : Boot!MEMORYMAP_START + 20 * n <= Boot!MAP_END}
  BY StartupAssumption DEF Boot!BootAssumption
<1>2. Boot!MEMORYMAP_START = 36866 /\ Boot!MAP_END = 49152
  BY DEF Boot!MEMORYMAP_START, Boot!MAP_END
<1>3. ASSUME NEW n \in MapLengths
      PROVE  n \in Nat /\ n > 0 /\ 36866 + 20 * n <= 49152
  BY <1>1, <1>2
<1> QED
  BY <1>1, <1>3

\* load_kernel has four parts.
LEMMA FourParts ==
    /\ DOMAIN Boot!Parts = 1 .. 4 /\ Len(Boot!Parts) = 4
    /\ \A p \in 1 .. 4 :
          /\ Boot!Parts[p].at \in Nat /\ Boot!Parts[p].head \in Nat
          /\ Boot!Parts[p].first \in Nat \ {0} /\ Boot!Parts[p].sectors \in Nat
  BY DEF Boot!Parts

LEMMA InitBootInv == StartupInit => BootInv
<1> SUFFICES ASSUME StartupInit  PROVE BootInv
  OBVIOUS
<1> USE DEF StartupInit, Boot!Init
<1>1. Boot!TypeOK
  BY BootTypes, FourParts DEF Boot!TypeOK, Boot!Stages
<1>2. Mapped
  BY DEF Mapped, AfterMap
<1> QED
  BY <1>1, <1>2, BootTypes DEF BootInv

\* The drive is reset or a part is read: the map is not touched.
LEMMA DiskBootInv ==
    ASSUME BootInv,
           \/ Boot!reset_drive
           \/ \E got \in 0 .. 64, carry \in BOOLEAN : Boot!read_sectors(got, carry)
    PROVE  BootInv'
<1>1. /\ UNCHANGED <<cpu, map_length, ebx, edi, places, MEMORYMAP_CNT, IF_flag>>
      /\ stage \in {"reset", "read"} /\ stage' \in {"reset", "read", "map", "halted"}
  BY DEF Boot!reset_drive, Boot!read_sectors, Boot!firmware_map
<1>2. Mapped'
  BY <1>1 DEF Mapped, BootInv, AfterMap
<1>3. CASE Boot!reset_drive
  <2>1. /\ resets' \in 0 .. MaxResets
        /\ stage' \in {"reset", "read"} => resets' > 0
        /\ UNCHANGED <<part, memory>>
    BY <1>3, BootTypes DEF Boot!reset_drive, BootInv, Boot!TypeOK
  <2> QED
    BY <1>1, <1>2, <2>1 DEF BootInv, Boot!TypeOK, Boot!Stages
<1>4. ASSUME NEW got \in 0 .. 64, NEW carry \in BOOLEAN, Boot!read_sectors(got, carry)
      PROVE  BootInv'
  <2>1. resets' = MaxResets /\ part' \in DOMAIN Boot!Parts
    <3>1. part \in 1 .. 4
      BY FourParts DEF BootInv, Boot!TypeOK
    <3>2. part' = part \/ (part < 4 /\ part' = part + 1)
      BY <1>4, FourParts DEF Boot!read_sectors
    <3>3. part' \in 1 .. 4
      BY <3>1, <3>2
    <3> QED
      BY <1>4, <3>3, FourParts DEF Boot!read_sectors
  <2>2. memory' \in [Boot!ImageSectors -> Nat]
    <3>1. /\ part \in 1 .. 4
          /\ Boot!Parts[part].at \in Nat /\ Boot!Parts[part].head \in Nat
          /\ Boot!Parts[part].first \in Nat \ {0}
      BY FourParts DEF BootInv, Boot!TypeOK
    <3>2. Boot!DiskSector(Boot!Parts[part]) \in Nat
      <4>1. Boot!Parts[part].head * SectorsPerTrack \in Nat
        BY <3>1, BootTypes
      <4> QED
        BY <3>1, <4>1 DEF Boot!DiskSector
    <3>3. memory \in [Boot!ImageSectors -> Nat]
      BY DEF BootInv, Boot!TypeOK
    <3>4. Boot!Read(got)
      BY <1>4 DEF Boot!read_sectors
    <3> DEFINE at == Boot!Parts[part].at
               from == Boot!DiskSector(Boot!Parts[part])
    <3>5. at \in Nat /\ from \in Nat
      BY <3>1, <3>2
    <3>6. memory' = [s \in Boot!ImageSectors |->
                        IF s - at \in 0 .. got - 1 THEN from + s - at ELSE memory[s]]
      BY <3>4 DEF Boot!Read
    <3> HIDE DEF at, from
    <3>7. ASSUME NEW s \in Boot!ImageSectors
          PROVE  (IF s - at \in 0 .. got - 1 THEN from + s - at ELSE memory[s]) \in Nat
      BY <3>3, <3>5 DEF Boot!ImageSectors
    <3> QED
      BY <3>6, <3>7
  <2>3. resets' \in 0 .. MaxResets /\ resets' > 0
    BY <2>1, BootTypes
  <2>4. stage' \in Boot!Stages
    BY <1>1 DEF Boot!Stages
  <2>5. Boot!TypeOK'
    BY <1>1, <2>1, <2>2, <2>3, <2>4 DEF BootInv, Boot!TypeOK
  <2> QED
    BY <1>2, <2>3, <2>5 DEF BootInv
<1> QED
  BY <1>3, <1>4

\* Memory keeps its type when part of it is overwritten.
LEMMA OverwrittenType ==
    ASSUME NEW m \in [Boot!ImageSectors -> Nat], NEW first, NEW last_
    PROVE  Boot!Overwritten(m, first, last_) \in [Boot!ImageSectors -> Nat]
  BY DEF Boot!Overwritten

\* The BIOS is asked for an entry.
Asking == stage \in {"map", "next entry"}

\* The BIOS gave one more entry, the one behind those counted.
LEMMA EntryBootInv ==
    ASSUME BootInv, Asking,
           NEW next, next = ebx + 1, Boot!Entry(next), Boot!MapWritten, Boot!counted,
           UNCHANGED <<part, resets, cpu, map_length, IF_flag>>
    PROVE  BootInv' /\ edi <= map_length
<1>1. /\ map_length \in Nat /\ map_length > 0
      /\ MEMORYMAP_CNT \in Nat /\ ebx = MEMORYMAP_CNT /\ edi = MEMORYMAP_CNT + 1
      /\ MEMORYMAP_CNT + 1 <= map_length
      /\ places \in [1 .. map_length -> 0 .. map_length]
  <2>1. map_length \in MapLengths
    BY DEF BootInv, Boot!TypeOK
  <2>2. map_length \in Nat /\ map_length > 0
    BY <2>1, BootTypes
  <2>3. /\ MEMORYMAP_CNT \in 0 .. map_length
        /\ places \in [1 .. map_length -> 0 .. map_length]
        /\ edi = MEMORYMAP_CNT + 1
        /\ ebx = MEMORYMAP_CNT
        /\ ebx + 1 <= map_length
    BY DEF Asking, BootInv, Boot!TypeOK, Mapped, Boot!Entry
  <2>4. MEMORYMAP_CNT \in Nat
    BY <2>2, <2>3
  <2> QED
    BY <2>2, <2>3, <2>4
<1>2. /\ edi' = edi + 1 /\ MEMORYMAP_CNT' = MEMORYMAP_CNT + 1
      /\ ebx' \in {0, MEMORYMAP_CNT + 1}
      /\ places' = [places EXCEPT ![edi] = edi]
  BY <1>1 DEF Boot!counted, Boot!Entry
<1>8. /\ stage' \in {"PM", "next entry"}
      /\ stage' = "next entry" => ebx' = MEMORYMAP_CNT'
  BY <1>1 DEF Boot!counted, Boot!Entry
<1>3. ASSUME NEW k \in 1 .. MEMORYMAP_CNT'  PROVE places'[k] = k
  <2>1. \A j \in 1 .. MEMORYMAP_CNT : places[j] = j
    BY DEF BootInv, Mapped
  <2>4. k \in 1 .. map_length
    BY <1>1, <1>2
  <2>2. CASE k = edi
    BY <1>1, <1>2, <2>2, <2>4
  <2>3. CASE k # edi
    BY <1>1, <1>2, <2>1, <2>3, <2>4
  <2> QED
    BY <2>2, <2>3
<1>4. Mapped'
  <2>1. stage' \notin {"reset", "read", "map"}
    BY <1>8
  <2>2. edi' = MEMORYMAP_CNT' + 1 /\ MEMORYMAP_CNT' > 0
    BY <1>1, <1>2
  <2> QED
    BY <1>3, <1>8, <2>1, <2>2 DEF Mapped
<1>5. memory' \in [Boot!ImageSectors -> Nat]
  BY OverwrittenType DEF Boot!MapWritten, BootInv, Boot!TypeOK
<1>6. places' \in [1 .. map_length -> 0 .. map_length]
  BY <1>1, <1>2
<1>7. Boot!TypeOK'
  <2>1. /\ edi' \in 1 .. map_length + 1
        /\ ebx' \in 0 .. map_length
        /\ MEMORYMAP_CNT' \in 0 .. map_length
    BY <1>1, <1>2
  <2>2. stage' \in Boot!Stages
    BY <1>8 DEF Boot!Stages
  <2> QED
    BY <1>5, <1>6, <2>1, <2>2 DEF BootInv, Boot!TypeOK
<1> QED
  <2>1. edi <= map_length
    BY <1>1
  <2>2. stage' \notin {"reset", "read"}
    BY <1>8
  <2> QED
    BY <1>4, <1>7, <2>1, <2>2 DEF BootInv

LEMMA NextBootInv == BootInv /\ [StartupNext]_machine => BootInv'
<1> SUFFICES ASSUME BootInv, [StartupNext]_machine  PROVE BootInv'
  OBVIOUS
<1>1. CASE UNCHANGED boot /\ (IF_flag' = IF_flag \/ (stage = "kernel" /\ IF_flag' \in BOOLEAN))
  BY <1>1 DEF boot, BootInv, Boot!TypeOK, Mapped, AfterMap
<1>2. UNCHANGED machine => BootInv'
  BY <1>1 DEF machine, vars
<1>3. CASE \/ Boot!reset_drive
           \/ \E got \in 0 .. 64, carry \in BOOLEAN : Boot!read_sectors(got, carry)
  BY <1>3, DiskBootInv
<1>4. CASE Boot!first_entry
  <2>1. CASE UNCHANGED <<memory, ebx, edi, places, MEMORYMAP_CNT>> /\ stage' = "rebooted"
    BY <1>4, <2>1 DEF Boot!first_entry, Boot!disk, BootInv, Boot!TypeOK, Mapped, AfterMap, Boot!Stages
  <2>2. CASE Boot!Entry(1) /\ Boot!MapWritten /\ Boot!counted
    <3>1. ebx = 0
      BY <1>4 DEF Boot!first_entry, BootInv, Mapped
    <3> QED
      BY <1>4, <2>2, <3>1, EntryBootInv DEF Asking, Boot!first_entry, Boot!disk
  <2> QED
    BY <1>4, <2>1, <2>2 DEF Boot!first_entry
<1>5. CASE Boot!next_entry
  <2>1. CASE UNCHANGED <<memory, ebx, edi, places, MEMORYMAP_CNT>> /\ stage' = "PM"
    BY <1>5, <2>1 DEF Boot!next_entry, Boot!disk, BootInv, Boot!TypeOK, Mapped, AfterMap, Boot!Stages
  <2>2. CASE Boot!Entry(ebx + 1) /\ Boot!MapWritten /\ Boot!counted
    BY <1>5, <2>2, EntryBootInv DEF Asking, Boot!next_entry, Boot!disk
  <2> QED
    BY <1>5, <2>1, <2>2 DEF Boot!next_entry
<1>6. CASE Boot!PM_enter \/ Boot!check_leaf \/ Boot!check_LM
  BY <1>6 DEF Boot!PM_enter, Boot!check_leaf, Boot!check_LM, Boot!disk, Boot!firmware_map,
              BootInv, Boot!TypeOK, Mapped, AfterMap, Boot!Stages
<1>7. CASE Boot!enter_kernel
  <2>1. memory' \in [Boot!ImageSectors -> Nat]
    BY <1>7, OverwrittenType DEF Boot!enter_kernel, BootInv, Boot!TypeOK
  <2> QED
    BY <1>7, <2>1 DEF Boot!enter_kernel, Boot!disk, Boot!firmware_map,
              BootInv, Boot!TypeOK, Mapped, AfterMap, Boot!Stages
<1>8. CASE stage = "kernel" /\ UNCHANGED boot /\ Next
  <2>1. IF_flag' \in BOOLEAN
    BY <1>8 DEF Next, BootInv, Boot!TypeOK, Main, PrintLine, setup_screen, pic_remap,
         idt_init, set_exceptions, syscounter_init, enable_irqs, work, raise, interrupt,
         syscounter_isr, fault, exceptionISR
  <2> QED
    BY <1>1, <1>8, <2>1
<1> QED
  BY <1>2, <1>3, <1>4, <1>5, <1>6, <1>7, <1>8, Steps

\* However the firmware ends its map, and with any number of resets of the
\* drive, BootInv holds from the boot sector on.
THEOREM BootInductive == StartupSpec => []BootInv
  BY InitBootInv, NextBootInv, PTL DEF StartupSpec

\* Each of the MEMORYMAP_CNT entries the kernel reads was written by the
\* firmware, in its order, and there is at least one.
THEOREM MapIsCounted == StartupSpec => []MapCounted
<1>1. BootInv => MapCounted
  BY DEF BootInv, Mapped, MapCounted, Boot!MapCounted, AfterMap
<1> QED
  BY <1>1, BootInductive, PTL

-----------------------------------------------------------------------------
(* The image.                                                              *)

\* The tracks of the geometry the BIOS gives the drive: load_kernel's
\* constants are those of a track of 63 sectors.
Tracks63 == SectorsPerTrack = 63

Linked(S) == \A s \in S : memory[s] = s + 1

MapSectors == Boot!SectorsOf(Boot!MEMORYMAP_START - 2, Boot!MAP_END - 1)

\* While load_kernel runs, the sectors up to the one the part begins with are
\* in place; after it, all sectors that are not kept for the map.
Loaded ==
    /\ stage \in {"reset", "read"} => part = 1 \/ Linked(0 .. Boot!Parts[part].at)
    /\ stage \in {"map", "next entry"} \cup AfterMap
          => Linked(Boot!ImageSectors \ MapSectors)

\* The sectors of a part are put where the image is linked.
LEMMA PartPlaces ==
    ASSUME Tracks63, NEW p \in 1 .. 4
    PROVE  /\ Boot!DiskSector(Boot!Parts[p]) = Boot!Parts[p].at + 1
           /\ p < 4 => Boot!Parts[p + 1].at = Boot!Parts[p].at + Boot!Parts[p].sectors - 1
           /\ p = 1 => Boot!Parts[p].at = 0
           /\ p = 4 => Boot!Parts[p].at + Boot!Parts[p].sectors = 252
<1>1. CASE p = 1
  BY <1>1 DEF Tracks63, Boot!DiskSector, Boot!Parts
<1>2. CASE p = 2
  BY <1>2 DEF Tracks63, Boot!DiskSector, Boot!Parts
<1>3. CASE p = 3
  BY <1>3 DEF Tracks63, Boot!DiskSector, Boot!Parts
<1>4. CASE p = 4
  BY <1>4 DEF Tracks63, Boot!DiskSector, Boot!Parts
<1> QED
  BY <1>1, <1>2, <1>3, <1>4

\* A whole part moves the linked sectors on by the part's length.
LEMMA ReadLoaded ==
    ASSUME Tracks63, BootInv, Loaded,
           NEW got \in 0 .. 64, NEW carry \in BOOLEAN, Boot!read_sectors(got, carry)
    PROVE  Loaded'
<1> DEFINE at == Boot!Parts[part].at
           n == Boot!Parts[part].sectors
<1>1. part \in 1 .. 4 /\ part \in Nat /\ at \in Nat /\ n \in Nat
  <2>1. part \in 1 .. 4
    BY FourParts DEF BootInv, Boot!TypeOK
  <2> QED
    BY <2>1, FourParts
<1>2. stage = "read" /\ Boot!Read(got)
  BY DEF Boot!read_sectors
<1>3. /\ Boot!DiskSector(Boot!Parts[part]) = at + 1
      /\ part < 4 => Boot!Parts[part + 1].at = at + n - 1
      /\ part = 1 => at = 0
      /\ part = 4 => at + n = 252
  BY <1>1, PartPlaces
<1>4. CASE stage' = "halted"
  BY <1>4 DEF Loaded, AfterMap
<1>5. CASE stage' # "halted"
  <2>1. /\ got = n
        /\ \/ part < 4 /\ part' = part + 1 /\ stage' = "reset"
           \/ part = 4 /\ stage' = "map"
    BY <1>5, FourParts DEF Boot!read_sectors, Boot!Whole
  <2>2. \A s \in Boot!ImageSectors :
            memory'[s] = IF s - at \in 0 .. n - 1 THEN at + 1 + s - at ELSE memory[s]
    BY <1>2, <1>3, <2>1 DEF Boot!Read
  <2>3. part = 1 \/ \A s \in 0 .. at : memory[s] = s + 1
    BY <1>2 DEF Loaded, Linked
  <2> HIDE DEF at, n
  <2>4. ASSUME NEW s \in Boot!ImageSectors, s < at + n  PROVE memory'[s] = s + 1
    <3>1. s \in Nat
      BY DEF Boot!ImageSectors
    <3>2. CASE s >= at
      <4>1. s - at \in 0 .. n - 1
        BY <1>1, <2>4, <3>1, <3>2
      <4>2. at + 1 + s - at = s + 1
        BY <1>1, <3>1
      <4> QED
        BY <2>2, <2>4, <4>1, <4>2
    <3>3. CASE s < at
      <4>1. s - at \notin 0 .. n - 1
        BY <1>1, <3>1, <3>3
      <4>2. part # 1 /\ s \in 0 .. at
        BY <1>1, <1>3, <3>1, <3>3
      <4> QED
        BY <2>2, <2>3, <2>4, <4>1, <4>2
    <3> QED
      BY <1>1, <3>1, <3>2, <3>3
  <2>5. CASE part < 4 /\ part' = part + 1 /\ stage' = "reset"
    <3>1. Boot!Parts[part'].at = at + n - 1 /\ at + n <= 252
      BY <1>1, <1>3, <2>5 DEF at, n, Boot!Parts
    <3>2. ASSUME NEW s \in 0 .. Boot!Parts[part'].at  PROVE memory'[s] = s + 1
      BY <1>1, <2>4, <3>1 DEF Boot!ImageSectors
    <3> QED
      BY <2>5, <3>2 DEF Loaded, Linked, AfterMap
  <2>6. CASE part = 4 /\ stage' = "map"
    <3>1. \A s \in Boot!ImageSectors : memory'[s] = s + 1
      BY <1>1, <1>3, <2>4, <2>6 DEF Boot!ImageSectors
    <3> QED
      BY <2>6, <3>1 DEF Loaded, Linked, AfterMap
  <2> QED
    BY <2>1, <2>5, <2>6
<1> QED
  BY <1>4, <1>5

\* The area of a map the firmware may have is kept free of code.
LEMMA MapKept ==
    ASSUME NEW e \in Nat, 36866 + 20 * e <= 49152, e > 0
    PROVE  Boot!SectorsOf(Boot!MEMORYMAP_START - 2, Boot!MEMORYMAP_START + 20 * e - 1)
              \subseteq MapSectors
<1> DEFINE d == 36866 + 20 * e - 1 - 32768
           S == Boot!SectorsOf(Boot!MEMORYMAP_START - 2, Boot!MEMORYMAP_START + 20 * e - 1)
<1>1. d \in Int /\ d <= 16383
  OBVIOUS
<1>2. Boot!MEMORYMAP_START + 20 * e - 1 - Boot!KERNEL_OFFSET = d
  BY DEF Boot!MEMORYMAP_START, Boot!KERNEL_OFFSET
<1> HIDE DEF d
<1>3. d \div 512 <= 31 /\ d \div 512 \in Int
  BY <1>1
<1>4. MapSectors = 8 .. 31
  BY DEF MapSectors, Boot!SectorsOf, Boot!MEMORYMAP_START, Boot!MAP_END, Boot!KERNEL_OFFSET, Boot!SECTOR
<1>5. S = 8 .. d \div 512
  BY <1>2 DEF Boot!SectorsOf, Boot!MEMORYMAP_START, Boot!KERNEL_OFFSET, Boot!SECTOR
<1> DEFINE q == d \div 512
<1>6. q \in Int /\ q <= 31
  BY <1>3
<1> HIDE DEF q
<1>7. 8 .. q \subseteq 8 .. 31
  BY <1>6
<1> QED
  <2>1. 8 .. d \div 512 \subseteq 8 .. 31
    BY <1>7 DEF q
  <2> HIDE DEF S
  <2>2. S \subseteq MapSectors
    BY <1>4, <1>5, <2>1
  <2> QED
    BY <2>2 DEF S

\* The page tables lie behind the image.
LEMMA TablesBehind ==
    ASSUME NEW m, NEW s \in Boot!ImageSectors
    PROVE  Boot!Overwritten(Boot!Overwritten(m, Boot!PML4_BASE, Boot!PML4_BASE + 4 * Boot!PAGE - 1),
                            Boot!MAP_PT_ADDR, Boot!MAP_PT_ADDR + Boot!PAGE - 1)[s] = m[s]
<1>1. /\ Boot!SectorsOf(Boot!PML4_BASE, Boot!PML4_BASE + 4 * Boot!PAGE - 1) = 832 .. 863
      /\ Boot!SectorsOf(Boot!MAP_PT_ADDR, Boot!MAP_PT_ADDR + Boot!PAGE - 1) = 880 .. 887
  BY DEF Boot!SectorsOf, Boot!PML4_BASE, Boot!MAP_PT_ADDR, Boot!PAGE, Boot!KERNEL_OFFSET, Boot!SECTOR
<1>2. s \notin 832 .. 863 /\ s \notin 880 .. 887
  BY DEF Boot!ImageSectors
<1> QED
  BY <1>1, <1>2 DEF Boot!Overwritten

LEMMA NextLoaded ==
    ASSUME Tracks63, BootInv, Loaded, [StartupNext]_machine
    PROVE  Loaded'
<1>1. UNCHANGED <<memory, stage, part>> => Loaded'
  BY DEF Loaded, Linked
<1>2. UNCHANGED machine => Loaded'
  BY <1>1 DEF machine, boot
<1>3. CASE Boot!reset_drive
  BY <1>3 DEF Boot!reset_drive, Loaded, Linked, AfterMap
<1>4. ASSUME NEW got \in 0 .. 64, NEW carry \in BOOLEAN, Boot!read_sectors(got, carry)
      PROVE  Loaded'
  BY <1>4, ReadLoaded
<1>5. ASSUME Linked(Boot!ImageSectors \ MapSectors),
             Boot!MapWritten, 36866 + 20 * edi <= 49152
      PROVE  Linked(Boot!ImageSectors \ MapSectors)'
  <2>1. edi \in Nat /\ edi > 0
    <3>1. map_length \in Nat /\ edi \in 1 .. map_length + 1
      BY BootTypes DEF BootInv, Boot!TypeOK
    <3> QED
      BY <3>1
  <2>2. Boot!SectorsOf(Boot!MEMORYMAP_START - 2, Boot!MEMORYMAP_START + 20 * edi - 1)
              \subseteq MapSectors
    BY <1>5, <2>1, MapKept
  <2> QED
    BY <1>5, <2>2 DEF Boot!MapWritten, Boot!Overwritten, Linked, MapSectors
<1>6. ASSUME NEW next, next = ebx + 1, Asking, Boot!Entry(next), Boot!MapWritten, Boot!counted,
             UNCHANGED <<part, resets, cpu, map_length, IF_flag>>
      PROVE  Loaded'
  <2>1. edi <= map_length
    BY <1>6, EntryBootInv
  <2>5. stage' \in {"PM", "next entry"}
    BY <1>6 DEF Boot!counted
  <2>2. 36866 + 20 * edi <= 49152
    <3>1. map_length \in Nat /\ edi \in Nat /\ 36866 + 20 * map_length <= 49152
      BY BootTypes DEF BootInv, Boot!TypeOK
    <3> QED
      BY <2>1, <3>1
  <2>3. Linked(Boot!ImageSectors \ MapSectors)
    BY <1>6 DEF Asking, Loaded
  <2>4. Linked(Boot!ImageSectors \ MapSectors)'
    BY <1>5, <1>6, <2>2, <2>3
  <2> QED
    BY <2>4, <2>5 DEF Loaded
<1>7. CASE Boot!first_entry
  <2>1. CASE memory' = memory /\ stage' = "rebooted"
    BY <2>1 DEF Loaded, AfterMap
  <2>2. CASE Boot!Entry(1) /\ Boot!MapWritten /\ Boot!counted
    <3>1. ebx = 0
      BY <1>7 DEF Boot!first_entry, BootInv, Mapped
    <3> QED
      BY <1>6, <1>7, <2>2, <3>1 DEF Asking, Boot!first_entry, Boot!disk
  <2> QED
    BY <1>7, <2>1, <2>2 DEF Boot!first_entry
<1>8. CASE Boot!next_entry
  <2>1. CASE memory' = memory /\ stage' = "PM"
    BY <1>8, <2>1 DEF Boot!next_entry, Loaded, Linked, AfterMap, MapSectors
  <2>2. CASE Boot!Entry(ebx + 1) /\ Boot!MapWritten /\ Boot!counted
    BY <1>6, <1>8, <2>2 DEF Asking, Boot!next_entry, Boot!disk
  <2> QED
    BY <1>8, <2>1, <2>2 DEF Boot!next_entry
<1>9. CASE Boot!PM_enter \/ Boot!check_leaf \/ Boot!check_LM
  BY <1>9 DEF Boot!PM_enter, Boot!check_leaf, Boot!check_LM, Boot!disk, Loaded, Linked,
              AfterMap, MapSectors
<1>10. CASE Boot!enter_kernel
  <2>1. /\ Linked(Boot!ImageSectors \ MapSectors)
        /\ stage' = "kernel"
        /\ \A s \in Boot!ImageSectors : memory'[s] = memory[s]
    BY <1>10, TablesBehind DEF Boot!enter_kernel, Loaded, AfterMap
  <2> QED
    BY <2>1 DEF Loaded, Linked, MapSectors
<1>11. CASE UNCHANGED boot
  BY <1>1, <1>11 DEF boot
<1> QED
  BY <1>2, <1>3, <1>4, <1>7, <1>8, <1>9, <1>10, <1>11, Steps

\* On a drive with 63 sectors per track the kernel is entered with every
\* sector of its image where it was linked to be: neither the four overlapping
\* reads nor a memory map of any length nor the page tables damage it.
THEOREM ImageIsWhole ==
    ASSUME Tracks63
    PROVE  StartupSpec => []ImageWhole
<1>1. StartupInit => Loaded
  BY DEF StartupInit, Boot!Init, Loaded, AfterMap
<1>2. BootInv /\ Loaded /\ [StartupNext]_machine => Loaded'
  BY NextLoaded
<1>3. Loaded => ImageWhole
  BY DEF Loaded, Linked, MapSectors, AfterMap, ImageWhole, Boot!ImageWhole
<1> QED
  BY <1>1, <1>2, <1>3, BootInductive, PTL DEF StartupSpec

-----------------------------------------------------------------------------
(* Interrupts.                                                             *)

\* The firmware's masks are still set, and kept a masked device quiet.
MaskInv ==
    /\ imr = old_mask
    /\ -1 \notin old_mask
    /\ last.irq \notin old_mask

\* A line of a device masked by the firmware never interrupts the kernel, on
\* a console of any height.
THEOREM MaskedDevicesQuiet == StartupSpec => []MaskedStaysQuiet
<1>1. StartupInit => MaskInv
  BY InterruptsAssumption DEF StartupInit, KernelInit, MaskInv
<1>2. MaskInv /\ [StartupNext]_machine => MaskInv'
  <2> SUFFICES ASSUME MaskInv, [StartupNext]_machine  PROVE MaskInv'
    OBVIOUS
  <2>1. UNCHANGED <<imr, old_mask, last>> => MaskInv'
    BY DEF MaskInv
  <2>2. ASSUME NEW irq \in IRQs, interrupt(irq)  PROVE MaskInv'
    BY <2>2 DEF interrupt, MaskInv
  <2>3. Next => MaskInv'
    BY <2>1, <2>2 DEF Next, pic, Main, PrintLine, setup_screen, pic_remap, idt_init,
       set_exceptions, syscounter_init, enable_irqs, work, raise, syscounter_isr, fault,
       exceptionISR
  <2> QED
    BY <2>1, <2>3, Steps DEF machine, vars, pic
<1>3. MaskInv => MaskedStaysQuiet
  BY DEF MaskInv, MaskedStaysQuiet
<1> QED
  BY <1>1, <1>2, <1>3, PTL DEF StartupSpec

\* The console has a row more than main and one handler print lines before the
\* interrupts are enabled.
FourRows == SCREEN_HIGHT >= 4

Ready == {"sti", "work", "done"}

\* The console's row before each part of main.
Rows ==
    /\ pc = "screen" => cur_Y = 0
    /\ pc = "pic" => cur_Y = 1
    /\ pc = "idt" => cur_Y = 2
    /\ pc \in {"exceptions", "timer"} => cur_Y = 3

\* What the processor can be executing.
InMain == running = <<"main">>
InException == running = <<"main", "exceptionISR">>
InLoop == running = <<"main", "while(1)">>
InIsr ==
    \E h \in {"idt_isr_default", "syscounter_isr"} :
        running = <<"main", h>> \/ running = <<"main", "while(1)", h>>

\* The IDT before and after idt_init: exceptions and devices do not share a
\* handler of their own.
Gates ==
    \A v \in Vectors :
        IF pc \in {"screen", "pic", "idt"} THEN IDT[v] = "none"
        ELSE IDT[v] \in {"idt_isr_default",
                         IF v < SYSCOUNTER_IDTE THEN "exceptionISR" ELSE "syscounter_isr"}

\* Once the kernel runs it can be interrupted only in main or in the endless
\* loop of an exception, and only after the controllers, the IDT and the timer
\* are set up.
Interruptible ==
    /\ InMain \/ InException \/ InLoop \/ InIsr
    /\ IF_flag => pc \in Ready /\ (InMain \/ InLoop)
    /\ pc \notin Ready /\ (InMain \/ InException) => Rows
    /\ Top = "syscounter_isr" => pc \in Ready
    /\ Gates
    /\ pc \in Ready => pic_base = PicBases /\ IDT[SYSCOUNTER_IDTE] = "syscounter_isr"
    /\ pc \notin {"screen", "pic"} => pic_base = PicBases

\* Nothing of the kernel has run before it is entered, and it is entered with
\* the interrupts disabled.
KernelInv ==
    /\ TypeOK
    /\ stage # "kernel" => KernelInit
    /\ stage \in {"leaf", "LM", "tables"} => IF_flag = FALSE
    /\ stage = "kernel" => Interruptible
    /\ TickGoesToTimer

-----------------------------------------------------------------------------
(* The stack.                                                              *)

\* The stack with a handler on top.
LEMMA Pushed ==
    /\ \A a, h : Append(<<a>>, h) = <<a, h>>
    /\ \A a, b, h : Append(<<a, b>>, h) = <<a, b, h>>
<1> SUFFICES ASSUME NEW a, NEW b, NEW h
             PROVE  Append(<<a>>, h) = <<a, h>> /\ Append(<<a, b>>, h) = <<a, b, h>>
  OBVIOUS
<1> DEFINE S == {a, b, h}
<1>4. a \in S /\ b \in S /\ h \in S
  OBVIOUS
<1> HIDE DEF S
<1>1. /\ <<a>> \in Seq(S) /\ Len(<<a>>) = 1 /\ <<a>>[1] = a
      /\ <<a, b>> \in Seq(S) /\ Len(<<a, b>>) = 2 /\ <<a, b>>[1] = a /\ <<a, b>>[2] = b
      /\ <<a, h>> \in Seq(S) /\ Len(<<a, h>>) = 2 /\ <<a, h>>[1] = a /\ <<a, h>>[2] = h
      /\ <<a, b, h>> \in Seq(S) /\ Len(<<a, b, h>>) = 3
      /\ <<a, b, h>>[1] = a /\ <<a, b, h>>[2] = b /\ <<a, b, h>>[3] = h
  BY <1>4
<1>2. Append(<<a>>, h) = <<a, h>>
  <2> DEFINE x == <<a>>
             y == Append(x, h)
             z == <<a, h>>
  <2>1. y \in Seq(S) /\ Len(y) = 2 /\ y[1] = a /\ y[2] = h
    <3>1. x \in Seq(S) /\ Len(x) = 1 /\ x[1] = a
      BY <1>1
    <3> HIDE DEF x
    <3>2. /\ Append(x, h) \in Seq(S)
          /\ Len(Append(x, h)) = Len(x)+1
          /\ \A i \in 1.. Len(x) : Append(x, h)[i] = x[i]
          /\ Append(x, h)[Len(x)+1] = h
      BY <1>4, <3>1, AppendProperties, SMTT(30)
    <3> QED
      BY <3>1, <3>2
  <2>2. z \in Seq(S) /\ Len(z) = 2 /\ z[1] = a /\ z[2] = h
    BY <1>1
  <2> HIDE DEF y, z
  <2>3. y = z
    BY <2>1, <2>2, SeqEqual
  <2> QED
    BY <2>3 DEF y, z
<1>3. Append(<<a, b>>, h) = <<a, b, h>>
  <2> DEFINE x == <<a, b>>
             y == Append(x, h)
             z == <<a, b, h>>
  <2>1. y \in Seq(S) /\ Len(y) = 3 /\ y[1] = a /\ y[2] = b /\ y[3] = h
    <3>3. x \in Seq(S)
      BY <1>1
    <3>1. x \in Seq(S) /\ Len(x) = 2 /\ x[1] = a /\ x[2] = b
      BY <1>1
    <3> HIDE DEF x
    <3>2. /\ Append(x, h) \in Seq(S)
          /\ Len(Append(x, h)) = Len(x)+1
          /\ \A i \in 1.. Len(x) : Append(x, h)[i] = x[i]
          /\ Append(x, h)[Len(x)+1] = h
      BY <1>4, <3>3, AppendProperties
    <3> QED
      BY <3>1, <3>2
  <2>2. z \in Seq(S) /\ Len(z) = 3 /\ z[1] = a /\ z[2] = b /\ z[3] = h
    BY <1>1
  <2> HIDE DEF y, z
  <2>3. y = z
    BY <2>1, <2>2, SeqEqual
  <2> QED
    BY <2>3 DEF y, z
<1> QED
  BY <1>2, <1>3

\* The stack without its top.
LEMMA Popped ==
    /\ \A a, h : SubSeq(<<a, h>>, 1, Len(<<a, h>>) - 1) = <<a>>
    /\ \A a, b, h : SubSeq(<<a, b, h>>, 1, Len(<<a, b, h>>) - 1) = <<a, b>>
<1> SUFFICES ASSUME NEW a, NEW b, NEW h
             PROVE  /\ SubSeq(<<a, h>>, 1, Len(<<a, h>>) - 1) = <<a>>
                    /\ SubSeq(<<a, b, h>>, 1, Len(<<a, b, h>>) - 1) = <<a, b>>
  OBVIOUS
<1> DEFINE S == {a, b, h}
<1>4. a \in S /\ b \in S /\ h \in S
  OBVIOUS
<1> HIDE DEF S
<1>1. SubSeq(<<a, h>>, 1, 1) = <<a>>
  <2> DEFINE x == <<a, h>>
             y == SubSeq(x, 1, 1)
             z == <<a>>
  <2>1. x[1] = a /\ \A i \in 1 .. 1 : x[i] \in S
    BY <1>4
  <2>2. z \in Seq(S) /\ Len(z) = 1 /\ z[1] = a
    BY <1>4
  <2> HIDE DEF x, z
  <2>3. y \in Seq(S) /\ Len(y) = 1 /\ y[1] = a
    BY <2>1, SubSeqProperties
  <2> HIDE DEF y
  <2>4. y = z
    BY <2>2, <2>3, SeqEqual
  <2> QED
    BY <2>4 DEF x, y, z
<1>2. SubSeq(<<a, b, h>>, 1, 2) = <<a, b>>
  <2> DEFINE x == <<a, b, h>>
             y == SubSeq(x, 1, 2)
             z == <<a, b>>
  <2>1. x[1] = a /\ x[2] = b /\ \A i \in 1 .. 2 : x[i] \in S
    BY <1>4
  <2>2. z \in Seq(S) /\ Len(z) = 2 /\ z[1] = a /\ z[2] = b
    BY <1>4
  <2> HIDE DEF x, z
  <2>3. y \in Seq(S) /\ Len(y) = 2 /\ y[1] = a /\ y[2] = b
    BY <2>1, SubSeqProperties
  <2> HIDE DEF y
  <2>4. y = z
    BY <2>2, <2>3, SeqEqual
  <2> QED
    BY <2>4 DEF x, y, z
<1>3. Len(<<a, h>>) - 1 = 1 /\ Len(<<a, b, h>>) - 1 = 2
  OBVIOUS
<1> QED
  BY <1>1, <1>2, <1>3, Zenon

-----------------------------------------------------------------------------
(* The steps of the kernel.                                                *)

\* What holds of the kernel while it runs.
KernelState == TypeOK /\ Interruptible /\ TickGoesToTimer

\* What is on top of the stack tells what is below it.
LEMMA OnTop ==
    ASSUME Interruptible
    PROVE  /\ Top = "main" => InMain
           /\ Top = "exceptionISR" => InException
           /\ Top = "syscounter_isr" => InIsr
<1>1. InMain => Top = "main"
  BY DEF InMain, Top
<1>2. InException => Top = "exceptionISR"
  BY DEF InException, Top
<1>3. InLoop => Top = "while(1)"
  BY DEF InLoop, Top
<1>4. InIsr => Top \in {"idt_isr_default", "syscounter_isr"}
  BY DEF InIsr, Top
<1> QED
  BY <1>1, <1>2, <1>3, <1>4 DEF Interruptible

\* Each of these stacks has one to three frames.
LEMMA StackTypeNext ==
    ASSUME (InMain \/ InException \/ InLoop \/ InIsr)'
    PROVE  running' \in Seq(Handlers \cup {"main", "while(1)"}) /\ Len(running') \in 1 .. 3
<1>1. CASE InMain'
  BY <1>1 DEF InMain, Handlers
<1>2. CASE InException'
  BY <1>2 DEF InException, Handlers
<1>3. CASE InLoop'
  BY <1>3 DEF InLoop, Handlers
<1>4. CASE InIsr'
  <2>1. PICK h \in {"idt_isr_default", "syscounter_isr"} :
            running' = <<"main", h>> \/ running' = <<"main", "while(1)", h>>
    BY <1>4 DEF InIsr
  <2>2. CASE running' = <<"main", h>>
    BY <2>2 DEF Handlers
  <2>3. CASE running' = <<"main", "while(1)", h>>
    BY <2>3 DEF Handlers
  <2> QED
    BY <2>1, <2>2, <2>3
<1> QED
  BY <1>1, <1>2, <1>3, <1>4

\* Before a part of main the console has room for a line, unless the
\* interrupts may be enabled anyway.
LEMMA LineType ==
    ASSUME TypeOK, PrintLine
    PROVE  cur_Y' \in 0 .. SCREEN_HIGHT /\ IF_flag' \in BOOLEAN
<1>1. cur_Y \in 0 .. SCREEN_HIGHT /\ IF_flag \in BOOLEAN /\ SCREEN_HIGHT \in Nat
  BY InterruptsAssumption DEF TypeOK
<1>2. CASE cur_Y + 1 > SCREEN_HIGHT
  BY <1>1, <1>2 DEF PrintLine
<1>3. CASE ~ cur_Y + 1 > SCREEN_HIGHT
  BY <1>1, <1>3 DEF PrintLine
<1> QED
  BY <1>2, <1>3

\* In a row above the fourth a line does not scroll.
LEMMA NoScroll ==
    ASSUME FourRows, PrintLine, NEW y \in 0 .. 3, cur_Y = y
    PROVE  cur_Y' = y + 1 /\ IF_flag' = IF_flag
  BY InterruptsAssumption DEF FourRows, PrintLine

\* A part of main.
LEMMA MainStep ==
    ASSUME FourRows, KernelState, Main
    PROVE  KernelState'
<1>1. /\ TypeOK /\ Interruptible /\ TickGoesToTimer
      /\ Top = "main"
      /\ UNCHANGED <<running, imr, old_mask, last>>
      /\ irr' \in {irr, {}} /\ isr' \in {isr, {}}
  BY DEF KernelState, Main, Part, pic, setup_screen, pic_remap, idt_init, set_exceptions,
         syscounter_init, enable_irqs, work
<1>2. InMain /\ InMain' /\ Top' = "main"
  BY <1>1, OnTop DEF InMain, Top
<1>3. pc \notin Ready => Rows
  BY <1>1, <1>2 DEF Interruptible
<1>4. ASSUME cur_Y' \in 0 .. SCREEN_HIGHT, IF_flag' \in BOOLEAN, pc' \in Parts,
             pic_base' \in {pic_base, PicBases}, IDT' \in [Vectors -> Handlers]
      PROVE  TypeOK'
  <2>1. pic_base' \in Vectors \X Vectors
    <3>1. PicBases \in Vectors \X Vectors
      BY DEF PicBases, Vectors
    <3> QED
      BY <1>1, <1>4, <3>1 DEF TypeOK
  <2>2. {imr', irr', isr', old_mask'} \subseteq SUBSET IRQs
    BY <1>1 DEF TypeOK
  <2> QED
    BY <1>1, <1>4, <2>1, <2>2 DEF TypeOK
<1>5. TickGoesToTimer'
  BY <1>1 DEF TickGoesToTimer
<1>6. CASE setup_screen
  <2>1. /\ pc = "screen" /\ pc' = "pic" /\ UNCHANGED <<IDT, pic_base>> /\ PrintLine
    BY <1>6 DEF setup_screen, Part, pic
  <2>2. cur_Y = 0 /\ IF_flag = FALSE
    BY <1>1, <1>3, <2>1 DEF Rows, Ready, Interruptible, TypeOK
  <2>3. cur_Y' = 1 /\ IF_flag' = FALSE
    BY <2>1, <2>2, NoScroll
  <2>4. TypeOK'
    BY <1>1, <1>4, <2>1, LineType DEF TypeOK, Parts
  <2>5. Interruptible'
    BY <1>1, <1>2, <2>1, <2>3 DEF Interruptible, Gates, Rows, Ready
  <2> QED
    BY <1>5, <2>4, <2>5 DEF KernelState
<1>7. CASE pic_remap
  <2>1. /\ pc = "pic" /\ pc' = "idt" /\ UNCHANGED IDT /\ pic_base' = PicBases /\ PrintLine
    BY <1>7 DEF pic_remap, Part
  <2>2. cur_Y = 1 /\ IF_flag = FALSE
    BY <1>1, <1>3, <2>1 DEF Rows, Ready, Interruptible, TypeOK
  <2>3. cur_Y' = 2 /\ IF_flag' = FALSE
    BY <2>1, <2>2, NoScroll
  <2>4. TypeOK'
    BY <1>1, <1>4, <2>1, LineType DEF TypeOK, Parts
  <2>5. Interruptible'
    BY <1>1, <1>2, <2>1, <2>3 DEF Interruptible, Gates, Rows, Ready
  <2> QED
    BY <1>5, <2>4, <2>5 DEF KernelState
<1>8. CASE idt_init
  <2>1. /\ pc = "idt" /\ pc' = "exceptions" /\ pic_base' = pic_base /\ PrintLine
        /\ IDT' = [v \in Vectors |-> "idt_isr_default"]
    BY <1>8 DEF idt_init, Part, pic
  <2>2. cur_Y = 2 /\ IF_flag = FALSE
    BY <1>1, <1>3, <2>1 DEF Rows, Ready, Interruptible, TypeOK
  <2>3. cur_Y' = 3 /\ IF_flag' = FALSE
    BY <2>1, <2>2, NoScroll
  <2>4. TypeOK'
    BY <1>1, <1>4, <2>1, LineType DEF TypeOK, Parts, Handlers
  <2>5. Gates'
    BY <2>1 DEF Gates
  <2>6. Interruptible'
    BY <1>1, <1>2, <2>1, <2>3, <2>5 DEF Interruptible, Rows, Ready
  <2> QED
    BY <1>5, <2>4, <2>6 DEF KernelState
<1>9. CASE set_exceptions
  <2>1. /\ pc = "exceptions" /\ pc' = "timer" /\ pic_base' = pic_base
        /\ IDT' = [v \in Vectors |-> IF v \in ExceptionVectors THEN "exceptionISR" ELSE IDT[v]]
        /\ UNCHANGED <<cur_Y, IF_flag>>
    BY <1>9 DEF set_exceptions, Part, pic
  <2>2. cur_Y = 3 /\ IF_flag = FALSE
    BY <1>1, <1>3, <2>1 DEF Rows, Ready, Interruptible, TypeOK
  <2>3. IDT' \in [Vectors -> Handlers]
    BY <1>1, <2>1 DEF TypeOK, Handlers
  <2>4. TypeOK'
    BY <1>1, <1>4, <2>1, <2>3 DEF TypeOK, Parts
  <2>5. Gates'
    <3>1. ASSUME NEW v \in Vectors
          PROVE  IDT'[v] \in {"idt_isr_default",
                              IF v < SYSCOUNTER_IDTE THEN "exceptionISR" ELSE "syscounter_isr"}
      <4>1. IDT[v] \in {"idt_isr_default",
                        IF v < SYSCOUNTER_IDTE THEN "exceptionISR" ELSE "syscounter_isr"}
        BY <1>1, <2>1 DEF Interruptible, Gates
      <4>2. v \in ExceptionVectors => v < SYSCOUNTER_IDTE
        BY DEF ExceptionVectors, SYSCOUNTER_IDTE
      <4> QED
        BY <2>1, <4>1, <4>2
    <3> QED
      BY <2>1, <3>1 DEF Gates
  <2>6. Interruptible'
    BY <1>1, <1>2, <2>1, <2>2, <2>5 DEF Interruptible, Rows, Ready
  <2> QED
    BY <1>5, <2>4, <2>6 DEF KernelState
<1>10. CASE syscounter_init
  <2>1. /\ pc = "timer" /\ pc' = "sti" /\ pic_base' = pic_base /\ PrintLine
        /\ IDT' = [IDT EXCEPT ![SYSCOUNTER_IDTE] = "syscounter_isr"]
    BY <1>10 DEF syscounter_init, idt_set, Part, pic
  <2>2. IDT' \in [Vectors -> Handlers]
    BY <1>1, <2>1 DEF TypeOK, Handlers
  <2>3. TypeOK'
    BY <1>1, <1>4, <2>1, <2>2, LineType DEF TypeOK, Parts
  <2>4. /\ IDT'[SYSCOUNTER_IDTE] = "syscounter_isr"
        /\ \A v \in Vectors : v # SYSCOUNTER_IDTE => IDT'[v] = IDT[v]
    BY <1>1, <2>1 DEF TypeOK, SYSCOUNTER_IDTE, Vectors
  <2>5. Gates'
    <3>1. ASSUME NEW v \in Vectors
          PROVE  IDT'[v] \in {"idt_isr_default",
                              IF v < SYSCOUNTER_IDTE THEN "exceptionISR" ELSE "syscounter_isr"}
      <4>1. IDT[v] \in {"idt_isr_default",
                        IF v < SYSCOUNTER_IDTE THEN "exceptionISR" ELSE "syscounter_isr"}
        BY <1>1, <2>1 DEF Interruptible, Gates
      <4>2. ~ SYSCOUNTER_IDTE < SYSCOUNTER_IDTE
        BY DEF SYSCOUNTER_IDTE
      <4> QED
        BY <2>4, <4>1, <4>2
    <3> QED
      BY <2>1, <3>1 DEF Gates
  <2>6. pic_base' = PicBases
    BY <1>1, <2>1 DEF Interruptible
  <2>7. Interruptible'
    BY <1>2, <2>1, <2>4, <2>5, <2>6 DEF Interruptible, Ready
  <2> QED
    BY <1>5, <2>3, <2>7 DEF KernelState
<1>11. CASE enable_irqs \/ work
  <2>1. /\ pc \in Ready /\ pc' \in Ready /\ UNCHANGED <<IDT, pic_base>>
        /\ (UNCHANGED cur_Y /\ IF_flag' = TRUE) \/ PrintLine
    BY <1>11 DEF enable_irqs, work, Part, pic, Ready
  <2>2. cur_Y' \in 0 .. SCREEN_HIGHT /\ IF_flag' \in BOOLEAN
    BY <1>1, <2>1, LineType DEF TypeOK
  <2>3. TypeOK'
    BY <1>1, <1>4, <2>1, <2>2 DEF TypeOK, Parts, Ready
  <2>4. Interruptible'
    BY <1>1, <1>2, <2>1 DEF Interruptible, Gates, Ready
  <2> QED
    BY <1>5, <2>3, <2>4 DEF KernelState
<1> QED
  BY <1>6, <1>7, <1>8, <1>9, <1>10, <1>11 DEF Main

\* The processor takes a request: the controllers are set up and the vector is
\* a device's.
LEMMA InterruptStep ==
    ASSUME KernelState, NEW irq \in IRQs, interrupt(irq)
    PROVE  KernelState'
<1> DEFINE h == IDT[Vector(irq)]
<1>1. TypeOK /\ Interruptible /\ IF_flag /\ pc \in Ready /\ (InMain \/ InLoop)
  BY DEF KernelState, interrupt, Interruptible
<1>2. irq \in 0 .. 15
  BY InterruptsAssumption
<1>3. Vector(irq) = 32 + irq
  <2>1. pic_base = <<32, 40>>
    BY <1>1 DEF Interruptible, PicBases
  <2>2. pic_base[1] = 32 /\ pic_base[2] = 40
    BY <2>1
  <2> QED
    BY <1>2, <2>2 DEF Vector
<1>4. h \in {"idt_isr_default", "syscounter_isr"}
  <2>1. 32 + irq \in Vectors /\ ~ 32 + irq < SYSCOUNTER_IDTE
    BY <1>2 DEF Vectors, SYSCOUNTER_IDTE
  <2>2. Vector(irq) \in Vectors /\ ~ Vector(irq) < SYSCOUNTER_IDTE
    BY <1>3, <2>1
  <2> QED
    BY <1>1, <2>2 DEF Interruptible, Gates, Ready
<1>5. irq = 0 => h = "syscounter_isr"
  <2>1. irq = 0 => Vector(irq) = SYSCOUNTER_IDTE
    BY <1>3 DEF SYSCOUNTER_IDTE
  <2> QED
    BY <1>1, <2>1 DEF Interruptible
<1>6. /\ irr' = irr \ {irq} /\ isr' = isr \cup {irq} /\ IF_flag' = FALSE
      /\ running' = Append(running, h)
      /\ last' = [irq |-> irq, handler |-> h]
      /\ UNCHANGED <<pc, cur_Y, IDT, pic_base, imr, old_mask>>
  BY DEF interrupt
<1> HIDE DEF h
<1>7. InIsr'
  <2>1. CASE InMain
    <3>1. running' = <<"main", h>>
      BY <1>6, <2>1, Pushed DEF InMain
    <3> QED
      BY <1>4, <3>1 DEF InIsr
  <2>2. CASE InLoop
    <3>1. running' = <<"main", "while(1)", h>>
      BY <1>6, <2>2, Pushed DEF InLoop
    <3> QED
      BY <1>4, <3>1 DEF InIsr
  <2> QED
    BY <1>1, <2>1, <2>2
<1>8. TypeOK'
  <2>1. running' \in Seq(Handlers \cup {"main", "while(1)"}) /\ Len(running') \in 1 .. 3
    BY <1>7, StackTypeNext
  <2>2. last' \in [irq : IRQs \cup {-1}, handler : Handlers]
    BY <1>4, <1>6 DEF Handlers
  <2> QED
    BY <1>1, <1>6, <2>1, <2>2 DEF TypeOK
<1>9. Interruptible'
  BY <1>1, <1>6, <1>7 DEF Interruptible, Gates, Ready
<1>10. TickGoesToTimer'
  BY <1>5, <1>6 DEF TickGoesToTimer
<1> QED
  BY <1>8, <1>9, <1>10 DEF KernelState

\* The timer's handler returns to what it interrupted.
LEMMA ReturnStep ==
    ASSUME KernelState, syscounter_isr
    PROVE  KernelState'
<1>1. TypeOK /\ Interruptible /\ TickGoesToTimer /\ Top = "syscounter_isr" /\ InIsr
  BY OnTop DEF KernelState, syscounter_isr
<1>2. /\ isr' \subseteq isr /\ IF_flag' = TRUE
      /\ running' = SubSeq(running, 1, Len(running) - 1)
      /\ UNCHANGED <<pc, cur_Y, IDT, pic_base, imr, irr, old_mask, last>>
  BY DEF syscounter_isr, Acknowledged
<1>3. InMain' \/ InLoop'
  <2>1. PICK h \in {"idt_isr_default", "syscounter_isr"} :
            running = <<"main", h>> \/ running = <<"main", "while(1)", h>>
    BY <1>1 DEF InIsr
  <2>2. CASE running = <<"main", h>>
    <3>1. running' = <<"main">>
      BY <1>2, <2>2, Popped
    <3> QED
      BY <3>1 DEF InMain
  <2>3. CASE running = <<"main", "while(1)", h>>
    <3>1. running' = <<"main", "while(1)">>
      BY <1>2, <2>3, Popped
    <3> QED
      BY <3>1 DEF InLoop
  <2> QED
    BY <2>1, <2>2, <2>3
<1>4. TypeOK'
  <2>1. running' \in Seq(Handlers \cup {"main", "while(1)"}) /\ Len(running') \in 1 .. 3
    BY <1>3, StackTypeNext
  <2>2. {imr', irr', isr', old_mask'} \subseteq SUBSET IRQs
    BY <1>1, <1>2 DEF TypeOK
  <2> QED
    BY <1>1, <1>2, <2>1, <2>2 DEF TypeOK
<1>5. Interruptible'
  BY <1>1, <1>2, <1>3 DEF Interruptible, Gates, Ready, Top, InMain, InLoop
<1> QED
  BY <1>1, <1>2, <1>4, <1>5 DEF KernelState, TickGoesToTimer

\* An exception interrupts main; its gate leads to a handler that does not
\* return.
LEMMA FaultStep ==
    ASSUME KernelState, NEW v \in Faults, fault(v)
    PROVE  KernelState'
<1> DEFINE h == IDT[v]
<1>1. TypeOK /\ Interruptible /\ TickGoesToTimer /\ Top = "main" /\ InMain
  BY OnTop DEF KernelState, fault
<1>2. v \in Vectors /\ v < SYSCOUNTER_IDTE
  BY InterruptsAssumption DEF Vectors, SYSCOUNTER_IDTE
<1>3. h \in {"idt_isr_default", "exceptionISR"}
  BY <1>1, <1>2 DEF fault, Interruptible, Gates
<1>4. /\ running' = Append(running, h) /\ IF_flag' = FALSE
      /\ UNCHANGED <<pc, cur_Y, IDT, pic_base, imr, irr, isr, old_mask, last>>
  BY DEF fault, pic
<1> HIDE DEF h
<1>5. running' = <<"main", h>>
  BY <1>1, <1>4, Pushed DEF InMain
<1>6. /\ InException' \/ InIsr'
      /\ Top' # "syscounter_isr"
  BY <1>3, <1>5 DEF InException, InIsr, Top
<1>7. TypeOK'
  <2>1. running' \in Seq(Handlers \cup {"main", "while(1)"}) /\ Len(running') \in 1 .. 3
    BY <1>6, StackTypeNext
  <2> QED
    BY <1>1, <1>4, <2>1 DEF TypeOK
<1>8. Interruptible'
  BY <1>1, <1>4, <1>6 DEF Interruptible, Gates, Ready, Rows
<1> QED
  BY <1>1, <1>4, <1>7, <1>8 DEF KernelState, TickGoesToTimer

\* The handler of an exception prints and loops.  If its message scrolls, the
\* interrupts are enabled: by then the controllers and the IDT are set up.
LEMMA ExceptionStep ==
    ASSUME FourRows, KernelState, exceptionISR
    PROVE  KernelState'
<1>1. TypeOK /\ Interruptible /\ TickGoesToTimer /\ Top = "exceptionISR" /\ InException
  BY OnTop DEF KernelState, exceptionISR
<1>2. /\ PrintLine \/ UNCHANGED <<cur_Y, IF_flag>>
      /\ running' = [running EXCEPT ![Len(running)] = "while(1)"]
      /\ UNCHANGED <<pc, IDT, pic_base, imr, irr, isr, old_mask, last>>
  BY DEF exceptionISR, pic
<1>3. running' = <<"main", "while(1)">>
  BY <1>1, <1>2 DEF InException
<1>4. InLoop' /\ Top' # "syscounter_isr" /\ ~ InMain' /\ ~ InException'
  BY <1>3 DEF InLoop, Top, InMain, InException
<1>5. cur_Y' \in 0 .. SCREEN_HIGHT /\ IF_flag' \in BOOLEAN
  BY <1>1, <1>2, LineType DEF TypeOK
<1>6. IF_flag' => pc \in Ready
  <2> SUFFICES ASSUME pc \notin Ready  PROVE IF_flag' = IF_flag
    BY <1>1, <1>2, <1>5 DEF Interruptible, TypeOK
  <2>1. cur_Y \in 0 .. 3
    BY <1>1 DEF Interruptible, Rows, TypeOK, Parts, Ready
  <2> QED
    BY <1>2, <2>1, NoScroll
<1>7. TypeOK'
  <2>1. running' \in Seq(Handlers \cup {"main", "while(1)"}) /\ Len(running') \in 1 .. 3
    BY <1>4, StackTypeNext
  <2> QED
    BY <1>1, <1>2, <1>5, <2>1 DEF TypeOK
<1>8. Interruptible'
  BY <1>1, <1>2, <1>4, <1>6 DEF Interruptible, Gates, Ready
<1> QED
  BY <1>1, <1>2, <1>7, <1>8 DEF KernelState, TickGoesToTimer

\* A device requests service.
LEMMA RaiseStep ==
    ASSUME KernelState, NEW irq \in IRQs, raise(irq)
    PROVE  KernelState'
<1>1. /\ irr' = irr \cup {irq}
      /\ UNCHANGED <<pc, cur_Y, IDT, IF_flag, running, pic_base, imr, isr, old_mask, last>>
  BY DEF raise
<1>2. TypeOK'
  BY <1>1 DEF KernelState, TypeOK
<1>3. Interruptible'
  BY <1>1 DEF KernelState, Interruptible, Gates, Rows, Top, InMain, InException, InLoop, InIsr
<1> QED
  BY <1>1, <1>2, <1>3 DEF KernelState, TickGoesToTimer

\* Entering the kernel establishes what holds while it runs.
LEMMA KernelEnteredNext ==
    ASSUME KernelInit', IF_flag' = FALSE
    PROVE  Interruptible'
<1>1. InMain' /\ Top' = "main"
  BY DEF KernelInit, InMain, Top
<1> QED
  BY <1>1 DEF KernelInit, Interruptible, Rows, Gates, Ready

\* Every step of the boot code or the kernel keeps KernelInv.
LEMMA NextKernelInv ==
    ASSUME FourRows, KernelInv, [StartupNext]_machine
    PROVE  KernelInv'
<1>1. UNCHANGED machine => KernelInv'
  BY DEF machine, boot, vars, pic, KernelInv, TypeOK, KernelInit, Interruptible, Gates, Rows,
         Top, InMain, InException, InLoop, InIsr, TickGoesToTimer
<1>2. ASSUME UNCHANGED <<pc, cur_Y, IDT, running, pic, old_mask, last>>,
             stage # "kernel", IF_flag' \in BOOLEAN,
             stage' = "kernel" => IF_flag' = FALSE,
             stage' \in {"leaf", "LM", "tables"} => IF_flag' = FALSE
      PROVE  KernelInv'
  <2>1. KernelInit
    BY <1>2 DEF KernelInv
  <2>2. KernelInit'
    BY <1>2, <2>1 DEF KernelInit, pic
  <2>3. TypeOK'
    BY <1>2 DEF KernelInv, TypeOK, pic
  <2>4. TickGoesToTimer'
    BY <1>2 DEF KernelInv, TickGoesToTimer
  <2>5. stage' = "kernel" => Interruptible'
    BY <1>2, <2>2, KernelEnteredNext
  <2> QED
    BY <1>2, <2>2, <2>3, <2>4, <2>5 DEF KernelInv
<1>3. ASSUME UNCHANGED <<pc, cur_Y, IDT, running, pic, old_mask, last>>,
             \/ Boot!reset_drive
             \/ \E got \in 0 .. 64, carry \in BOOLEAN : Boot!read_sectors(got, carry)
             \/ Boot!first_entry \/ Boot!next_entry \/ Boot!PM_enter
             \/ Boot!check_leaf \/ Boot!check_LM \/ Boot!enter_kernel
      PROVE  KernelInv'
  <2>1. stage # "kernel" /\ IF_flag' \in {IF_flag, FALSE}
    BY <1>3 DEF Boot!reset_drive, Boot!read_sectors, Boot!first_entry, Boot!next_entry,
                Boot!PM_enter, Boot!check_leaf, Boot!check_LM, Boot!enter_kernel
  <2>2. /\ stage' = "kernel" => IF_flag' = FALSE
        /\ stage' \in {"leaf", "LM", "tables"} => IF_flag' = FALSE
    BY <1>3 DEF KernelInv, Boot!reset_drive, Boot!read_sectors, Boot!first_entry,
                Boot!next_entry, Boot!PM_enter, Boot!check_leaf, Boot!check_LM,
                Boot!enter_kernel, Boot!counted
  <2>3. IF_flag' \in BOOLEAN
    BY <2>1 DEF KernelInv, TypeOK
  <2> QED
    BY <1>2, <1>3, <2>1, <2>2, <2>3
<1>4. ASSUME stage = "kernel", UNCHANGED boot, Next
      PROVE  KernelInv'
  <2>1. KernelState
    BY <1>4 DEF KernelInv, KernelState
  <2>2. KernelState'
    BY <1>4, <2>1, MainStep, InterruptStep, ReturnStep, FaultStep, ExceptionStep, RaiseStep
       DEF Next
  <2>3. stage' = "kernel"
    BY <1>4 DEF boot
  <2> QED
    BY <2>2, <2>3 DEF KernelInv, KernelState
<1> QED
  BY <1>1, <1>3, <1>4, Steps

\* On a console of at least five rows KernelInv holds from the boot sector on.
THEOREM KernelInductive ==
    ASSUME FourRows
    PROVE  StartupSpec => []KernelInv
<1>1. StartupInit => KernelInv
  <2> SUFFICES ASSUME StartupInit  PROVE KernelInv
    OBVIOUS
  <2>1. KernelInit /\ stage = "reset" /\ IF_flag = TRUE
    BY DEF StartupInit, Boot!Init
  <2>2. TypeOK
    <3>1. {imr, irr, isr, old_mask} \subseteq SUBSET IRQs
      BY <2>1, InterruptsAssumption DEF KernelInit
    <3>2. /\ cur_Y \in 0 .. SCREEN_HIGHT
          /\ pic_base \in Vectors \X Vectors
      BY <2>1, InterruptsAssumption DEF KernelInit, Vectors
    <3>3. running \in Seq(Handlers \cup {"main", "while(1)"}) /\ Len(running) \in 1 .. 3
      BY <2>1 DEF KernelInit, Handlers
    <3> QED
      BY <2>1, <3>1, <3>2, <3>3 DEF KernelInit, TypeOK, Parts, Handlers
  <2>3. TickGoesToTimer
    BY <2>1 DEF KernelInit, TickGoesToTimer
  <2> QED
    BY <2>1, <2>2, <2>3 DEF KernelInv
<1>2. KernelInv /\ [StartupNext]_machine => KernelInv'
  BY NextKernelInv
<1> QED
  BY <1>1, <1>2, PTL DEF StartupSpec

\* A tick of the timer is never taken for an exception and never meets an IDT
\* that is not ready, with any set of devices, masks of the firmware and
\* exceptions, on a console of at least five rows.
THEOREM TicksGoToTimer ==
    ASSUME FourRows
    PROVE  StartupSpec => []TickGoesToTimer
<1>1. KernelInv => TickGoesToTimer
  BY DEF KernelInv
<1> QED
  BY <1>1, KernelInductive, PTL

\* The machine's state stays in its ranges; in particular no more than three
\* programs are ever nested.
THEOREM StartupTypeCorrect ==
    ASSUME FourRows
    PROVE  StartupSpec => []StartupTypeOK
<1>1. BootInv /\ KernelInv => StartupTypeOK
  BY DEF BootInv, KernelInv, StartupTypeOK
<1> QED
  BY <1>1, BootInductive, KernelInductive, PTL

=============================================================================
