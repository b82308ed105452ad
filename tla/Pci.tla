-------------------------------- MODULE Pci --------------------------------
(***************************************************************************)
(* The PCI scan, kernel/src/code/pci/pci.c, and the search for disk        *)
(* controllers on top of it, kernel/src/code/disk/disk.c.                  *)
(*                                                                         *)
(* main scans the bus once; disk_searchDisks has it scanned again and      *)
(* then looks for AHCI controllers.  The numbers of bus, slot and function *)
(* are put into one configuration address: the address decides which       *)
(* function of which device answers.  The kernel asks for function 0 only. *)
(***************************************************************************)
EXTENDS Integers, Sequences, FiniteSets

CONSTANTS
    BusCount,       \* numbers a scan tries, 256
    SlotCount,      \* numbers a scan tries on each bus, 256
    SlotsPerBus,    \* slots a configuration address can tell apart, 32
    DISK_MAX_AHCI,  \* room in disk_found_ahci_addr, 5
    Machines        \* sets of [bus, slot, func, ahci] a machine may have

\* Bus and slot are 8-bit numbers.
ASSUME PciAssumption ==
    /\ BusCount \in 1 .. 256
    /\ SlotCount \in 1 .. 256
    /\ SlotsPerBus \in 1 .. SlotCount
    /\ DISK_MAX_AHCI \in Nat \ {0}
    /\ \A m \in Machines :
          m \subseteq [bus : 0 .. BusCount - 1, slot : 0 .. SlotsPerBus - 1, func : 0 .. 7,
                      ahci : BOOLEAN]

VARIABLES
    devices,                    \* the functions of the machine's devices
    pc,                         \* where the kernel is
    pos,                        \* how far the scan or the search is
    scans,                      \* finished calls of pciCheckBus
    pci_devices_amount,
    size,                       \* places in the allocated table
    pci_devices_address,        \* the table, <<bus, slot>> in each place
    disk_found_ahci_addr

vars == <<devices, pc, pos, scans, pci_devices_amount, size, pci_devices_address,
          disk_found_ahci_addr>>

\* The numbers a scan tries, in its order.
ScanLength == BusCount * SlotCount
Tried(n) == <<n \div SlotCount, n % SlotCount>>

\* The number n is a | b, bit by bit of the 8 bits of a bus.
HasBit(n, w) == (n \div w) % 2 = 1
IsOr(n, a, b) ==
    \A w \in {1, 2, 4, 8, 16, 32, 64, 128} : HasBit(n, w) <=> HasBit(a, w) \/ HasBit(b, w)

\* Mutant: what does not fit into the slot field is cut off.
Answers_Masked(d, addr, func) ==
    /\ d.bus = addr[1]
    /\ d.slot = addr[2] % SlotsPerBus
    /\ d.func = func

\* The device that answers to a bus, a slot and a function number.  What does
\* not fit into the slot field of the address is or-ed into the number of the
\* bus; the function has a field of its own.
Answers(d, addr, func) ==
    /\ IsOr(d.bus, addr[1], addr[2] \div SlotsPerBus)
    /\ d.slot = addr[2] % SlotsPerBus
    /\ d.func = func

\* pciConfigReadWord reads something else than 0xFFFF from function 0.
Present(addr) == \E d \in devices : Answers(d, addr, 0)

\* The class code of function 0 is 0x01 and the subclass 0x06.
IsAhci(addr) == \E d \in devices : Answers(d, addr, 0) /\ d.ahci

TypeOK ==
    /\ devices \in Machines
    /\ pc \in {"count", "alloc", "fill", "search", "disk_init", "no disk", "halt"}
    /\ pos \in 0 .. ScanLength
    /\ scans \in 0 .. 2
    /\ pci_devices_amount \in 0 .. ScanLength - 1
    /\ size \in 0 .. ScanLength - 1
    /\ pci_devices_address \in Seq((0 .. BusCount - 1) \X (0 .. SlotCount - 1))
    /\ Len(pci_devices_address) <= size
    /\ disk_found_ahci_addr \in Seq((0 .. BusCount - 1) \X (0 .. SlotCount - 1))
    /\ Len(disk_found_ahci_addr) <= DISK_MAX_AHCI

Init ==
    /\ devices \in Machines
    /\ pc = "count"
    /\ pos = 0
    /\ scans = 0
    /\ pci_devices_amount = 0
    /\ size = 0
    /\ pci_devices_address = <<>>
    /\ disk_found_ahci_addr = <<>>

-----------------------------------------------------------------------------
(* pciCheckBus.                                                            *)

\* Mutant: the counters are a bit too narrow and wrap before the loop ends.
count_device_Wraps ==
    /\ pc = "count"
    /\ IF pos < ScanLength
       THEN /\ pos' = (pos + 1) % ScanLength
            /\ UNCHANGED <<pc, pci_devices_amount>>
       ELSE /\ pc' = "alloc"
            /\ UNCHANGED <<pos, pci_devices_amount>>
    /\ UNCHANGED <<devices, scans, size, pci_devices_address, disk_found_ahci_addr>>

\* One turn of the first loop.  The amount is a uint16_t, which has as many
\* values as there are numbers to try.
count_device ==
    /\ pc = "count"
    /\ IF pos < ScanLength
       THEN /\ pos' = pos + 1
            /\ pci_devices_amount' =
                  (pci_devices_amount + (IF Present(Tried(pos)) THEN 1 ELSE 0)) % ScanLength
            /\ UNCHANGED pc
       ELSE /\ pc' = "alloc"
            /\ UNCHANGED <<pos, pci_devices_amount>>
    /\ UNCHANGED <<devices, scans, size, pci_devices_address, disk_found_ahci_addr>>

\* mem_alloc never returns 0.
alloc_table ==
    /\ pc = "alloc"
    /\ size' = pci_devices_amount
    /\ pci_devices_address' = <<>>
    /\ pos' = 0
    /\ pc' = "fill"
    /\ UNCHANGED <<devices, scans, pci_devices_amount, disk_found_ahci_addr>>

\* Mutant: the amount is not set back.
rescan_NoReset ==
    /\ pc' = "count"
    /\ pos' = 0
    /\ UNCHANGED pci_devices_amount

\* pciGetDeviceTable has the bus scanned again: pciCheckBus gives the table
\* back and starts from 0.
rescan ==
    /\ pc' = "count"
    /\ pos' = 0
    /\ pci_devices_amount' = 0

\* One turn of the second loop.  After the first scan main goes on to
\* disk_searchDisks, after the second disk_searchDisks to the table.
fill_table ==
    /\ pc = "fill"
    /\ IF pos < ScanLength
       THEN /\ pos' = pos + 1
            /\ pci_devices_address' = IF Present(Tried(pos))
                                      THEN Append(pci_devices_address, Tried(pos))
                                      ELSE pci_devices_address
            /\ UNCHANGED <<pc, scans, pci_devices_amount>>
       ELSE /\ scans' = scans + 1
            /\ IF scans = 0
               THEN rescan
               ELSE pc' = "search" /\ pos' = 0 /\ UNCHANGED pci_devices_amount
            /\ UNCHANGED pci_devices_address
    /\ UNCHANGED <<devices, size, disk_found_ahci_addr>>

-----------------------------------------------------------------------------
(* disk_searchDisks.                                                       *)

\* Mutant: the test is left out.
TooMany_Never == FALSE

TooMany == Len(disk_found_ahci_addr) = DISK_MAX_AHCI - 1

\* Mutant: bus and slot of an entry are taken the wrong way round.
Decoded_Swapped(entry) == <<entry[2], entry[1]>>

\* The bus and the slot of an entry.
Decoded(entry) == <<entry[1], entry[2]>>

\* One turn of the loop over the table.
search_entry ==
    /\ pc = "search"
    /\ pos < pci_devices_amount
    /\ LET entry == pci_devices_address[pos + 1]
       IN  \/ /\ IsAhci(Decoded(entry)) /\ TooMany
              /\ pc' = "halt"
              /\ UNCHANGED <<pos, disk_found_ahci_addr>>
           \/ /\ IsAhci(Decoded(entry)) /\ ~ TooMany
              /\ disk_found_ahci_addr' = Append(disk_found_ahci_addr, entry)
              /\ pos' = pos + 1
              /\ UNCHANGED pc
           \/ /\ ~ IsAhci(Decoded(entry))
              /\ pos' = pos + 1
              /\ UNCHANGED <<pc, disk_found_ahci_addr>>
    /\ UNCHANGED <<devices, scans, pci_devices_amount, size, pci_devices_address>>

\* What disk_searchDisks returns, and what main does with it.
search_end ==
    /\ pc = "search"
    /\ pos = pci_devices_amount
    /\ pc' = IF disk_found_ahci_addr # <<>> THEN "disk_init" ELSE "no disk"
    /\ UNCHANGED <<devices, pos, scans, pci_devices_amount, size, pci_devices_address,
                   disk_found_ahci_addr>>

Next ==
    \/ count_device \/ alloc_table \/ fill_table
    \/ search_entry \/ search_end

Spec == Init /\ [][Next]_vars /\ WF_vars(Next)

-----------------------------------------------------------------------------
(* Properties.                                                             *)

\* The table that is searched is full: the second scan counted from 0 and
\* found as many devices as the first loop counted, no place is left unwritten.
TableFull ==
    pc = "search" =>
        /\ pci_devices_amount = size
        /\ Len(pci_devices_address) = size

\* When the kernel goes on to initialise disks, or gives up for want of one,
\* its list holds the AHCI controllers that are function 0 of their device and
\* nothing else.  A controller at another function is missed (pci.c:42 and
\* disk.c:21 ask for function 0): a machine with no other one ends in
\* "no disk", though disk.h:5 has 0 stand for "nothing found".
FunctionZeroFound ==
    pc \in {"disk_init", "no disk"} =>
        /\ \A d \in devices : d.ahci =>
              (d.func = 0 <=> \E n \in DOMAIN disk_found_ahci_addr :
                                 Answers(d, disk_found_ahci_addr[n], 0))
        /\ \A n \in DOMAIN disk_found_ahci_addr : IsAhci(disk_found_ahci_addr[n])

\* The scans and the search end, whatever the machine has: the kernel gets
\* to one of its three ends.
SearchEnds == <>(pc \in {"disk_init", "no disk", "halt"})

\* A controller at function 0 on bus 0, where an emulated machine has it, is in
\* the list once: the slot numbers that run over into the bus never lead back to it.
\* A second entry would have disk_init set the controller up again.
BusZeroOnce ==
    pc = "disk_init" =>
        \A d \in devices : d.ahci /\ d.bus = 0 /\ d.func = 0 =>
            Cardinality({n \in DOMAIN disk_found_ahci_addr :
                            Answers(d, disk_found_ahci_addr[n], 0)}) = 1
=============================================================================
