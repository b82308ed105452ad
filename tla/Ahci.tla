-------------------------------- MODULE Ahci --------------------------------
(***************************************************************************)
(* The AHCI driver, kernel/src/code/disk/ahci.c, and the host bus adapters *)
(* it talks to.                                                            *)
(*                                                                         *)
(* ahci_init_disk goes over the controllers disk_searchDisks found.  On    *)
(* each it stops every SATA port, gives the port new command tables,       *)
(* starts it again, and finally reads a sector from port 0.  The driver    *)
(* polls; the adapter changes its registers at any moment in between.      *)
(*                                                                         *)
(* Memory is followed as far as the adapter sees it: where the command     *)
(* lists lie, and which table a command header points to.                  *)
(***************************************************************************)
EXTENDS Integers, Sequences, FiniteSets

CONSTANTS
    disk_count,     \* controllers, in the order of disk_addr
    NPorts,         \* ports of a controller
    Implemented,    \* ports_implemented: controller -> set of ports
    PortType,       \* what ahci_port_check_type finds: <<disk, port>> -> type
    NSlots,         \* command slots of a port, 32
    TablesPerPage,  \* command tables mem_alloc puts into a page: 8
    SpinLimit,      \* polls until a busy port counts as hung, 1000000
    Layouts         \* where the firmware may have put the ports' structures:
                    \* a set of functions from ports to Areas

Disks == 1 .. disk_count
Slots == 0 .. NSlots - 1

\* A port of a controller.  Number NPorts is the one behind the last, which
\* the rebase looks at too; it lies in the mapped page of registers, which
\* holds the numbers 0 to 29.
PortIds == Disks \X (0 .. NPorts)

\* The command list (clb) and the FIS area (fb) of a port: page and offset.
Areas == [list : Nat \X (0 .. 4095), fis : Nat \X (0 .. 4095)]

DEV_NULL == 0
DEV_SATA == 1

OK    == 0
ERROR == 1
NONE  == 2      \* no read has returned yet

ASSUME AhciAssumption ==
    /\ disk_count \in Nat \ {0}
    /\ NPorts \in 1 .. 29
    /\ NSlots \in Nat \ {0}
    /\ TablesPerPage \in Nat \ {0}
    /\ SpinLimit \in Nat
    /\ Implemented \in [Disks -> SUBSET (0 .. NPorts - 1)]
    /\ PortType \in [PortIds -> 0 .. 4]
    /\ \A d \in Disks : \A p \in 0 .. NPorts :
          p \notin Implemented[d] => PortType[<<d, p>>] = DEV_NULL
    /\ Layouts \subseteq [PortIds -> Areas]

VARIABLES
    pc,                 \* where the driver is
    disk,               \* the controller it works on, i in the code
    port_index,         \* the port it rebases
    slot,               \* the slot of the read
    spin,               \* polls so far
    lin_address_list,   \* ids of the ports in the driver's list
    result,             \* what the last ahci_port_read returned
    reg,                \* the registers of every port
    cmd_tbl_base,       \* command headers: port -> slot -> table
    place               \* where the command lists and FIS areas lie

driver == <<pc, disk, port_index, slot, spin, lin_address_list, result>>
vars == <<driver, reg, cmd_tbl_base, place>>

\* The place of slot i's table: port, page and number in the page.
TableOf(id, i) == <<id, i \div TablesPerPage, i % TablesPerPage>>

\* The tables the firmware left.
Firmware(id) == <<id, -1, 0>>

\* What a cleared command header points to: physical address 0.
Nowhere == <<<<0, 0>>, -1, 0>>

Tables == {TableOf(id, i) : id \in PortIds, i \in Slots}

Registers ==
    [ST   : BOOLEAN, FRE : BOOLEAN,     \* cmd, written by the driver
     CR   : BOOLEAN, FR  : BOOLEAN,     \* cmd, the engines that run
     busy : BOOLEAN,                    \* tfd, BUSY or DRQ
     ci   : SUBSET Slots,               \* commands issued
     sact : SUBSET Slots,               \* sata_active
     TFES : BOOLEAN,                    \* is, task file error
     done : BOOLEAN]                    \* ghost: the last command completed

Stages == {"rebase", "stopFRE", "waitFR", "waitCR", "remap", "startCR", "startFRE",
           "startST", "read", "busy", "issue", "pollCI", "pollIS", "next", "hang", "done"}

TypeOK ==
    /\ pc \in Stages
    /\ disk \in Disks
    /\ port_index \in -1 .. NPorts
    /\ slot \in Slots
    /\ spin \in 0 .. SpinLimit + 1
    /\ lin_address_list \in Seq(PortIds)
    /\ result \in {OK, ERROR, NONE}
    /\ reg \in [PortIds -> Registers]
    /\ cmd_tbl_base \in
          [PortIds -> [Slots -> Tables \cup {Firmware(id) : id \in PortIds} \cup {Nowhere}]]
    /\ place \in Layouts

\* The registers of a port: busy and its engines as the firmware left them.
Left(on, busy, tags) ==
    [ST |-> on, FRE |-> on, CR |-> on, FR |-> on, busy |-> busy,
     ci |-> {}, sact |-> tags, TFES |-> FALSE, done |-> FALSE]

\* The firmware may have left the engines of a port running and tags in
\* sata_active; it waited for the commands it issued.  A port that is not
\* implemented reads as 0.
Init ==
    /\ pc = "rebase"
    /\ disk = 1
    /\ port_index = -1
    /\ slot = 0
    /\ spin = 0
    /\ lin_address_list = <<>>
    /\ result = NONE
    /\ \E on, b \in BOOLEAN : \E tags \in {{}, {0}, Slots} :
          reg = [id \in PortIds |-> IF id[2] \in Implemented[id[1]]
                                    THEN Left(on, b, tags)
                                    ELSE Left(FALSE, FALSE, {})]
    /\ cmd_tbl_base = [id \in PortIds |-> [i \in Slots |-> Firmware(id)]]
    /\ place \in Layouts

Id == <<disk, port_index>>      \* the port of the rebase
Port0 == <<disk, 0>>            \* the port of the read: ahci_abar[i]->ports

Goto(stage) == pc' = stage

SetReg(id, field, value) == reg' = [reg EXCEPT ![id][field] = value]

-----------------------------------------------------------------------------
(* ahci_port_rebase.                                                       *)

\* impl starts one bit higher than the register, so the loop visits one port
\* more than the highest implemented one.
LastPort == IF Implemented[disk] = {} THEN -1
            ELSE 1 + CHOOSE h \in Implemented[disk] : \A p \in Implemented[disk] : p <= h

\* The loop moves on to the next port and skips it unless it is SATA; the
\* first thing it does to a SATA port is to clear ST.
rebase_next ==
    /\ pc = "rebase"
    /\ \/ /\ port_index < LastPort
          /\ port_index' = port_index + 1
          /\ IF PortType[<<disk, port_index + 1>>] = DEV_SATA
             THEN SetReg(<<disk, port_index + 1>>, "ST", FALSE) /\ Goto("stopFRE")
             ELSE UNCHANGED <<reg, pc>>
       \/ /\ port_index >= LastPort
          /\ Goto("read")
          /\ UNCHANGED <<port_index, reg>>
    /\ UNCHANGED <<disk, slot, spin, lin_address_list, result, cmd_tbl_base>>

\* Mutant: FRE is left set.
stop_FRE_Forgotten ==
    /\ pc = "stopFRE"
    /\ Goto("waitFR")
    /\ UNCHANGED <<disk, port_index, slot, spin, lin_address_list, result, reg, cmd_tbl_base>>

stop_FRE ==
    /\ pc = "stopFRE"
    /\ SetReg(Id, "FRE", FALSE)
    /\ Goto("waitFR")
    /\ UNCHANGED <<disk, port_index, slot, spin, lin_address_list, result, cmd_tbl_base>>

\* Two reads of cmd, one for FR and one for CR; either sends the loop back.
wait_FR ==
    /\ pc = "waitFR"
    /\ ~ reg[Id].FR
    /\ Goto("waitCR")
    /\ UNCHANGED <<disk, port_index, slot, spin, lin_address_list, result, reg, cmd_tbl_base>>

\* Mutant: CR is not waited for.
wait_CR_Skipped ==
    /\ pc = "waitCR"
    /\ Goto("remap")
    /\ UNCHANGED <<disk, port_index, slot, spin, lin_address_list, result, reg, cmd_tbl_base>>

wait_CR ==
    /\ pc = "waitCR"
    /\ Goto(IF reg[Id].CR THEN "waitFR" ELSE "remap")
    /\ UNCHANGED <<disk, port_index, slot, spin, lin_address_list, result, reg, cmd_tbl_base>>

\* page_trace_PML4 returns the frame of a table, without the offset in it.
traced(id, i) == <<id, i \div TablesPerPage, 0>>

\* 4096 bytes are cleared from the command list of port a on, and as many
\* from its FIS area on, through one mapped page each: what lies behind them
\* in the page goes, the command list of port b too.  (What is left of the
\* 4096 bytes goes to the next linear page, KernelMemory's clear_mapped.)
Wipes(a, b) ==
    \E from \in {place[a].list, place[a].fis} :
        from[1] = place[b].list[1] /\ from[2] <= place[b].list[2]

\* The command headers after port id was given its 32 tables.
Rebased(id) ==
    [x \in PortIds |->
        CASE x = id                -> [i \in Slots |-> traced(id, i)]
          [] x # id /\ Wipes(id, x) -> [i \in Slots |-> Nowhere]
          [] OTHER                 -> cmd_tbl_base[x]]

\* Mutant: ST is set again before the wait for CR.
remap_STEarly ==
    /\ pc = "remap"
    /\ lin_address_list' = Append(lin_address_list, Id)
    /\ cmd_tbl_base' = Rebased(Id)
    /\ SetReg(Id, "ST", TRUE)
    /\ Goto("startCR")
    /\ UNCHANGED <<disk, port_index, slot, spin, result>>

\* The list entry, the cleared command list and FIS area, and the 32 tables.
remap ==
    /\ pc = "remap"
    /\ lin_address_list' = Append(lin_address_list, Id)
    /\ cmd_tbl_base' = Rebased(Id)
    /\ Goto("startCR")
    /\ UNCHANGED <<disk, port_index, slot, spin, result, reg>>

start_CR ==
    /\ pc = "startCR"
    /\ ~ reg[Id].CR
    /\ Goto("startFRE")
    /\ UNCHANGED <<disk, port_index, slot, spin, lin_address_list, result, reg, cmd_tbl_base>>

start_FRE ==
    /\ pc = "startFRE"
    /\ SetReg(Id, "FRE", TRUE)
    /\ Goto("startST")
    /\ UNCHANGED <<disk, port_index, slot, spin, lin_address_list, result, cmd_tbl_base>>

\* Mutant: ST is not set again.
start_ST_Forgotten ==
    /\ pc = "startST"
    /\ Goto("rebase")
    /\ UNCHANGED <<disk, port_index, slot, spin, lin_address_list, result, reg, cmd_tbl_base>>

start_ST ==
    /\ pc = "startST"
    /\ SetReg(Id, "ST", TRUE)
    /\ Goto("rebase")
    /\ UNCHANGED <<disk, port_index, slot, spin, lin_address_list, result, cmd_tbl_base>>

-----------------------------------------------------------------------------
(* ahci_port_read.                                                         *)

Return(code) == result' = code /\ Goto("next")

\* Mutant: only the issued commands count as busy slots.
BusySlots_Issued(id) == reg[id].ci

\* Slots find_cmdslot passes over.
BusySlots(id) == reg[id].sact \cup reg[id].ci

\* The port must be in the list; is is cleared; the lowest free slot is taken
\* and its header filled in, its pointer apart.  The rest of the command is
\* written over the list entry and over the FIS area, whose engine runs and
\* may write there too: what the two leave there nothing reads.
read_setup ==
    /\ pc = "read"
    /\ \/ /\ \A n \in DOMAIN lin_address_list : lin_address_list[n] # Port0
          /\ Return(ERROR)
          /\ UNCHANGED <<slot, spin, reg>>
       \/ /\ \E n \in DOMAIN lin_address_list : lin_address_list[n] = Port0
          /\ reg' = [reg EXCEPT ![Port0].TFES = FALSE]
          /\ \/ /\ Slots \subseteq BusySlots(Port0)
                /\ Return(ERROR)
                /\ UNCHANGED <<slot, spin>>
             \/ /\ slot' \in Slots \ BusySlots(Port0)
                /\ \A i \in Slots \ BusySlots(Port0) : slot' <= i
                /\ spin' = 0
                /\ Goto("busy")
                /\ UNCHANGED result
    /\ UNCHANGED <<disk, port_index, lin_address_list, cmd_tbl_base>>

\* Mutant: the polls are not limited.
read_busy_NoLimit ==
    /\ pc = "busy"
    /\ \/ /\ reg[Port0].busy
          /\ spin' = spin + 1
          /\ UNCHANGED <<pc, result>>
       \/ /\ ~ reg[Port0].busy
          /\ Goto("issue")
          /\ UNCHANGED <<spin, result>>
    /\ UNCHANGED <<disk, port_index, slot, lin_address_list, reg, cmd_tbl_base>>

\* One turn of the loop on tfd.  A port that becomes free at the last turn
\* still counts as hung.
read_busy ==
    /\ pc = "busy"
    /\ \/ /\ reg[Port0].busy /\ spin < SpinLimit
          /\ spin' = spin + 1
          /\ UNCHANGED <<pc, result>>
       \/ /\ ~ (reg[Port0].busy /\ spin < SpinLimit)
          /\ IF spin = SpinLimit THEN Return(ERROR) ELSE Goto("issue") /\ UNCHANGED result
          /\ UNCHANGED spin
    /\ UNCHANGED <<disk, port_index, slot, lin_address_list, reg, cmd_tbl_base>>

read_issue ==
    /\ pc = "issue"
    /\ reg' = [reg EXCEPT ![Port0].ci = @ \cup {slot}, ![Port0].done = FALSE]
    /\ spin' = 0
    /\ Goto("pollCI")
    /\ UNCHANGED <<disk, port_index, slot, lin_address_list, result, cmd_tbl_base>>

\* Mutant: the test of the slot's bit is the wrong way round.
Finished_Inverted == slot \in reg[Port0].ci

Finished == slot \notin reg[Port0].ci

\* The command is over when its bit in ci is clear; then a spin count other
\* than 0 leads into while(1).
read_pollCI ==
    /\ pc = "pollCI"
    /\ \/ /\ Finished
          /\ IF spin # 0 THEN Goto("hang") /\ UNCHANGED result ELSE Return(OK)
       \/ /\ ~ Finished
          /\ Goto("pollIS")
          /\ UNCHANGED result
    /\ UNCHANGED <<disk, port_index, slot, spin, lin_address_list, reg, cmd_tbl_base>>

\* All that matters of the count is whether it is 0: it is kept at 1.
read_pollIS ==
    /\ pc = "pollIS"
    /\ IF reg[Port0].TFES
       THEN Return(ERROR) /\ UNCHANGED spin
       ELSE Goto("pollCI") /\ spin' = 1 /\ UNCHANGED result
    /\ UNCHANGED <<disk, port_index, slot, lin_address_list, reg, cmd_tbl_base>>

\* ahci_init_disk ignores the result and turns to the next controller.
next_disk ==
    /\ pc = "next"
    /\ IF disk < disk_count
       THEN disk' = disk + 1 /\ port_index' = -1 /\ Goto("rebase")
       ELSE Goto("done") /\ UNCHANGED <<disk, port_index>>
    /\ UNCHANGED <<slot, spin, lin_address_list, result, reg, cmd_tbl_base>>

Driver ==
    /\ \/ rebase_next \/ stop_FRE \/ wait_FR \/ wait_CR \/ remap
       \/ start_CR \/ start_FRE \/ start_ST
       \/ read_setup \/ read_busy \/ read_issue \/ read_pollCI \/ read_pollIS
       \/ next_disk
    /\ UNCHANGED place

-----------------------------------------------------------------------------
(* The adapter, as far as the driver's use of it tells.                    *)

\* The command engine follows ST, the FIS engine FRE; without ST the adapter
\* drops the commands of the port, and perhaps its tags.
hba_CR(id) ==
    /\ reg[id].CR # reg[id].ST
    /\ \E tags \in IF reg[id].ST THEN {reg[id].sact} ELSE {reg[id].sact, {}} :
          reg' = [reg EXCEPT ![id].CR = reg[id].ST,
                             ![id].ci = IF reg[id].ST THEN @ ELSE {},
                             ![id].sact = tags]

hba_FR(id) ==
    /\ reg[id].FR # reg[id].FRE
    /\ SetReg(id, "FR", reg[id].FRE)

hba_ready(id) ==
    /\ reg[id].busy
    /\ SetReg(id, "busy", FALSE)

\* A running engine completes an issued command or reports an error for it.
hba_complete(id) ==
    /\ reg[id].CR /\ ~ reg[id].TFES
    /\ \E i \in reg[id].ci :
          reg' = [reg EXCEPT ![id].ci = @ \ {i}, ![id].done = TRUE]

hba_error(id) ==
    /\ reg[id].CR /\ ~ reg[id].TFES
    /\ reg[id].ci # {}
    /\ SetReg(id, "TFES", TRUE)

Adapter(id) ==
    /\ hba_CR(id) \/ hba_FR(id) \/ hba_ready(id) \/ hba_complete(id) \/ hba_error(id)
    /\ UNCHANGED <<driver, cmd_tbl_base, place>>

Next == Driver \/ \E id \in PortIds : Adapter(id)

\* The processor executes the driver; a port's engines follow their bits and
\* an issued command ends, well or badly.  That a drive stops being busy is
\* not assumed: the driver counts.
Fairness ==
    /\ WF_vars(Driver)
    /\ \A id \in PortIds :
          /\ WF_vars(hba_CR(id) /\ UNCHANGED <<driver, cmd_tbl_base, place>>)
          /\ WF_vars(hba_FR(id) /\ UNCHANGED <<driver, cmd_tbl_base, place>>)
          /\ WF_vars((hba_complete(id) \/ hba_error(id)) /\ UNCHANGED <<driver, cmd_tbl_base, place>>)

Spec == Init /\ [][Next]_vars /\ Fairness

-----------------------------------------------------------------------------
(* Properties.                                                             *)

\* While the driver clears and rewrites the memory a port's engines fetch
\* from, both engines of that port are off.  The clearing reaches the lists of
\* other ports in the page, whose engines may well run; but none of them has a
\* command left that it would fetch from there.
EnginesOffWhileRebased ==
    pc = "remap" =>
        /\ ~ reg[Id].CR /\ ~ reg[Id].FR
        /\ \A id \in PortIds : reg[id].ci = {} \/ reg[id].TFES

\* A port that came into the list after its n-th entry cleared that one's
\* command headers.
WipedSince(n) ==
    \E m \in DOMAIN lin_address_list :
        m > n /\ Wipes(lin_address_list[m], lin_address_list[n])

\* A command is issued only to a port whose engines were switched on again
\* after its tables changed, and only in a slot the adapter is not using.
\* The headers of the port are those the driver filled in, unless a port
\* rebased later has its structures in front of them in the same page: then,
\* and only then, the command is issued through a header that points nowhere.
IssueReady ==
    pc = "issue" =>
        /\ reg[Port0].ST /\ reg[Port0].FRE
        /\ slot \notin reg[Port0].ci \cup reg[Port0].sact
        /\ \E n \in DOMAIN lin_address_list :
              /\ lin_address_list[n] = Port0
              /\ cmd_tbl_base[Port0] =
                    [i \in Slots |-> IF WipedSince(n) THEN Nowhere ELSE traced(Port0, i)]

\* ahci_port_read returns OK only if the adapter completed the command it
\* was issued, whatever the adapter does between two polls.
OkMeansDone == pc = "next" /\ result = OK => reg[Port0].done /\ ~ reg[Port0].TFES

\* ahci_port_stop_cmd and ahci_port_start_cmd end: their waits for FR and CR
\* are waits for bits the adapter does clear.
StopEnds == pc \in {"stopFRE", "waitFR", "waitCR"} ~> pc = "remap"
StartEnds == pc \in {"startCR", "startFRE", "startST"} ~> pc = "rebase"

\* ahci.h:128-130 "returns: 0 -> OK 1 -> ERROR": ahci_port_read returns.
\* Violated: a command that is not complete at the first poll ends in while(1).
ReadReturns == pc = "issue" ~> pc = "next"
=============================================================================
