----------------------------- MODULE AhciProofs -----------------------------
(***************************************************************************)
(* What the AHCI driver and its adapters keep true for every number of     *)
(* controllers, ports and slots: theorems about Ahci.                      *)
(***************************************************************************)
EXTENDS Ahci, NumberLemmas

-----------------------------------------------------------------------------
(* The inductive invariant.                                                *)

\* The driver is between the first and the last write to a port's cmd.
Rebasing == {"stopFRE", "waitFR", "waitCR", "remap", "startCR", "startFRE", "startST"}

\* ahci_port_rebase has returned for this controller.
Reading == {"read", "busy", "issue", "pollCI", "pollIS", "next", "hang", "done"}

\* The driver waits for the end of the command it issued.
Polling == {"pollCI", "pollIS"}

\* From ahci_port_stop_cmd to ahci_port_start_cmd the bits the driver cleared
\* stay clear, and what it waited for stays so.
Stopped ==
    pc \in Rebasing =>
        /\ port_index >= 0
        /\ ~ reg[Id].ST
        /\ pc \in {"waitFR", "waitCR", "remap", "startCR", "startFRE"} => ~ reg[Id].FRE
        /\ pc \in {"waitCR", "remap", "startCR"} => ~ reg[Id].FR
        /\ pc \in {"remap", "startCR", "startFRE", "startST"} => ~ reg[Id].CR
        /\ pc = "startST" => reg[Id].FRE

Listed(id) == \E n \in DOMAIN lin_address_list : lin_address_list[n] = id

\* The driver passed the port.
Passed(id) ==
    \/ id[1] < disk
    \/ id[1] = disk /\ id[2] < port_index
    \/ id = Id /\ pc \notin {"stopFRE", "waitFR", "waitCR", "remap"}

\* A port in the list runs again as soon as the driver is done with it.
ListedRuns ==
    \A id \in PortIds : Listed(id) =>
        /\ Passed(id)
        /\ (id # Id \/ pc \notin Rebasing) => reg[id].ST /\ reg[id].FRE

\* The driver issues one command on each controller, to port 0.
Issued(id) ==
    /\ id[2] = 0
    /\ \/ id[1] < disk
       \/ id[1] = disk /\ pc \in Polling \cup {"next", "hang", "done"}

NothingElseIssued == \A id \in PortIds : ~ Issued(id) => reg[id].ci = {}

\* From the search for a slot on the port is in the list, and its slot free.
SlotFree ==
    pc \in {"busy", "issue"} =>
        /\ Listed(Port0)
        /\ slot \notin reg[Port0].sact
        /\ ~ reg[Port0].TFES

\* While the command's bit is set it is not done, and without an error it is
\* done once the bit is clear.
PollSound ==
    pc \in Polling =>
        /\ Listed(Port0)
        /\ reg[Port0].ci \subseteq {slot}
        /\ slot \notin reg[Port0].ci => reg[Port0].done /\ ~ reg[Port0].TFES

\* After a read that returned OK nothing is left in ci that could fail.
OkStays ==
    pc = "next" /\ result = OK =>
        /\ Listed(Port0)
        /\ reg[Port0].ci = {}
        /\ reg[Port0].done
        /\ ~ reg[Port0].TFES

IInv ==
    /\ TypeOK
    /\ Stopped
    /\ ListedRuns
    /\ NothingElseIssued
    /\ SlotFree
    /\ PollSound
    /\ OkStays

\* The list names no port twice, and the headers of a port in it are those the
\* driver filled in until a later port clears them.
ListedTables ==
    /\ \A m, n \in DOMAIN lin_address_list :
          lin_address_list[m] = lin_address_list[n] => m = n
    /\ \A n \in DOMAIN lin_address_list :
          cmd_tbl_base[lin_address_list[n]] =
              [i \in Slots |-> IF WipedSince(n) THEN Nowhere ELSE traced(lin_address_list[n], i)]

\* Only the port the driver polls has a command the adapter may still fetch.
Settled ==
    \A id \in PortIds :
        id # Port0 \/ pc \notin Polling \cup {"hang"} => reg[id].ci = {} \/ reg[id].TFES

-----------------------------------------------------------------------------
(* The operators.                                                          *)

\* The ports the rebase visits have a place in PortIds.
LEMMA LastPortType == disk \in Disks => LastPort \in -1 .. NPorts
<1> SUFFICES ASSUME disk \in Disks, Implemented[disk] # {}
             PROVE  LastPort \in -1 .. NPorts
  BY AhciAssumption DEF LastPort
<1>1. Implemented[disk] \in SUBSET (0 .. NPorts - 1)
  BY AhciAssumption
<1>2. \E h \in Implemented[disk] : \A p \in Implemented[disk] : p <= h
  <2> DEFINE S == Implemented[disk]
  <2>1. S \in SUBSET Nat /\ S # {} /\ NPorts \in Nat /\ \A n \in S : n <= NPorts
    BY <1>1, AhciAssumption
  <2> HIDE DEF S
  <2>2. \E h \in S : \A p \in S : p <= h
    BY <2>1, GreatestMember
  <2> QED
    BY <2>2 DEF S
<1>3. LastPort = 1 + CHOOSE h \in Implemented[disk] : \A p \in Implemented[disk] : p <= h
  BY DEF LastPort
<1> QED
  BY <1>1, <1>2, <1>3, AhciAssumption

\* The tables the driver enters are tables of the port.
LEMMA TracedType ==
    ASSUME NEW id \in PortIds, NEW i \in Slots
    PROVE  traced(id, i) \in Tables /\ traced(id, i) # Firmware(id)
<1> DEFINE q == i \div TablesPerPage
           j == q * TablesPerPage
<1>1. i \in Nat /\ i < NSlots /\ TablesPerPage \in Nat /\ TablesPerPage > 0
  BY AhciAssumption DEF Slots
<1>2. q \in Nat /\ i = q * TablesPerPage + (i % TablesPerPage) /\ i % TablesPerPage \in Nat
  BY <1>1
<1>3. j \in Nat /\ j <= i
  BY <1>1, <1>2
<1>4. j \in Slots
  BY <1>1, <1>3, AhciAssumption DEF Slots
<1>5. j \div TablesPerPage = q /\ j % TablesPerPage = 0
  BY <1>1, <1>2
<1>6. traced(id, i) = TableOf(id, j)
  BY <1>5 DEF traced, TableOf
<1>7. traced(id, i) # Firmware(id)
  BY <1>2 DEF traced, Firmware
<1> QED
  BY <1>4, <1>6, <1>7 DEF Tables

LEMMA IdType ==
    ASSUME TypeOK
    PROVE  /\ Port0 \in PortIds
           /\ port_index >= 0 => Id \in PortIds
           /\ port_index + 1 <= NPorts => <<disk, port_index + 1>> \in PortIds
BY AhciAssumption DEF TypeOK, Port0, Id, PortIds

LEMMA InitIInv == Init => IInv
<1> SUFFICES ASSUME Init  PROVE IInv
  OBVIOUS
<1>1. TypeOK
  <2>1. disk \in Disks /\ 0 \in Slots /\ port_index \in -1 .. NPorts /\ spin \in 0 .. SpinLimit + 1
    BY AhciAssumption DEF Init, Disks, Slots
  <2>2. reg \in [PortIds -> Registers]
    <3>1. PICK on \in BOOLEAN, b \in BOOLEAN, tags \in {{}, {0}, Slots} :
          reg = [id \in PortIds |-> IF id[2] \in Implemented[id[1]]
                                    THEN Left(on, b, tags)
                                    ELSE Left(FALSE, FALSE, {})]
      BY DEF Init
    <3>2. tags \in SUBSET Slots
      BY <2>1
    <3>3. Left(on, b, tags) \in Registers /\ Left(FALSE, FALSE, {}) \in Registers
      BY <3>2 DEF Registers, Left
    <3> QED
      BY <3>1, <3>3
  <2>3. pc \in Stages /\ lin_address_list \in Seq(PortIds) /\ result \in {OK, ERROR, NONE}
    BY DEF Init, Stages
  <2>4. cmd_tbl_base \in
           [PortIds -> [Slots -> Tables \cup {Firmware(id) : id \in PortIds} \cup {Nowhere}]]
    BY DEF Init
  <2> QED
    BY <2>1, <2>2, <2>3, <2>4 DEF Init, TypeOK
<1>2. \A id \in PortIds : reg[id].ci = {}
  BY DEF Init, Left
<1>3. pc = "rebase" /\ lin_address_list = <<>> /\ result = NONE
  BY DEF Init
<1> QED
  BY <1>1, <1>2, <1>3 DEF IInv, Stopped, ListedRuns, Listed, NothingElseIssued, SlotFree,
                    PollSound, OkStays, Rebasing, Polling, NONE, OK

-----------------------------------------------------------------------------
(* The registers of one port.                                              *)

\* A register is changed and nothing else.
LEMMA SetRegType ==
    ASSUME TypeOK, NEW id \in PortIds, NEW v \in BOOLEAN,
           NEW field \in {"ST", "FRE", "CR", "FR", "busy", "TFES", "done"},
           SetReg(id, field, v)
    PROVE  /\ reg' \in [PortIds -> Registers]
           /\ \A x \in PortIds \ {id} : reg'[x] = reg[x]
           /\ reg'[id] = [reg[id] EXCEPT ![field] = v]
<1>1. reg \in [PortIds -> Registers] /\ reg[id] \in Registers
  BY DEF TypeOK
<1>2. reg' = [reg EXCEPT ![id] = [reg[id] EXCEPT ![field] = v]]
  BY DEF SetReg
<1>3. [reg[id] EXCEPT ![field] = v] \in Registers
  BY <1>1 DEF Registers
<1> QED
  BY <1>1, <1>2, <1>3

\* What a step of the adapter may do to a port: it does not touch the bits of
\* the driver, starts no engine whose bit is clear, and takes a command out of
\* ci of a started port only when it is done.
AdapterEffect(id) ==
    /\ reg' \in [PortIds -> Registers]
    /\ \A x \in PortIds \ {id} : reg'[x] = reg[x]
    /\ reg'[id].ST = reg[id].ST
    /\ reg'[id].FRE = reg[id].FRE
    /\ ~ reg[id].ST /\ ~ reg[id].CR => ~ reg'[id].CR
    /\ ~ reg[id].FRE /\ ~ reg[id].FR => ~ reg'[id].FR
    /\ reg'[id].ci \subseteq reg[id].ci
    /\ reg'[id].sact \subseteq reg[id].sact
    /\ reg[id].done => reg'[id].done
    /\ reg[id].ST /\ reg'[id].ci # reg[id].ci => reg'[id].done /\ ~ reg'[id].TFES
    /\ reg'[id].TFES => reg[id].TFES \/ reg[id].ci # {}
    /\ reg[id].TFES => reg'[id].TFES

LEMMA AdapterEffects ==
    ASSUME TypeOK, NEW id \in PortIds, Adapter(id)
    PROVE  AdapterEffect(id)
<1>1. reg \in [PortIds -> Registers] /\ reg[id] \in Registers
  BY DEF TypeOK
<1>2. CASE hba_CR(id)
  <2>1. PICK tags \in IF reg[id].ST THEN {reg[id].sact} ELSE {reg[id].sact, {}} :
          reg' = [reg EXCEPT ![id].CR = reg[id].ST,
                             ![id].ci = IF reg[id].ST THEN @ ELSE {},
                             ![id].sact = tags]
    BY <1>2 DEF hba_CR
  <2> DEFINE r == [reg[id] EXCEPT !.CR = reg[id].ST,
                                  !.ci = IF reg[id].ST THEN reg[id].ci ELSE {},
                                  !.sact = tags]
  <2>2. reg' = [reg EXCEPT ![id] = r]
    BY <1>1, <2>1
  <2>3. /\ r \in Registers
        /\ r.ST = reg[id].ST /\ r.FRE = reg[id].FRE /\ r.FR = reg[id].FR
        /\ r.CR = reg[id].ST
        /\ r.ci = IF reg[id].ST THEN reg[id].ci ELSE {}
        /\ r.sact \subseteq reg[id].sact
        /\ r.done = reg[id].done /\ r.TFES = reg[id].TFES
    BY <1>1, <2>1 DEF Registers
  <2>4. reg'[id] = r /\ reg' \in [PortIds -> Registers] /\ \A x \in PortIds \ {id} : reg'[x] = reg[x]
    BY <1>1, <2>2, <2>3
  <2> HIDE DEF r
  <2> QED
    BY <2>3, <2>4 DEF AdapterEffect
<1>3. CASE hba_FR(id)
  <2>1. reg[id].FRE \in BOOLEAN /\ SetReg(id, "FR", reg[id].FRE)
    BY <1>1, <1>3 DEF hba_FR, Registers
  <2>2. /\ reg' \in [PortIds -> Registers]
        /\ \A x \in PortIds \ {id} : reg'[x] = reg[x]
        /\ reg'[id] = [reg[id] EXCEPT !["FR"] = reg[id].FRE]
    BY <2>1, SetRegType
  <2> QED
    BY <1>1, <2>2 DEF AdapterEffect, Registers
<1>4. CASE hba_ready(id)
  <2>1. SetReg(id, "busy", FALSE)
    BY <1>4 DEF hba_ready
  <2>2. /\ reg' \in [PortIds -> Registers]
        /\ \A x \in PortIds \ {id} : reg'[x] = reg[x]
        /\ reg'[id] = [reg[id] EXCEPT !["busy"] = FALSE]
    BY <2>1, SetRegType
  <2> QED
    BY <1>1, <2>2 DEF AdapterEffect, Registers
<1>5. CASE hba_complete(id)
  <2>1. PICK i \in reg[id].ci :
          reg' = [reg EXCEPT ![id].ci = @ \ {i}, ![id].done = TRUE]
    BY <1>5 DEF hba_complete
  <2> DEFINE r == [reg[id] EXCEPT !.ci = reg[id].ci \ {i}, !.done = TRUE]
  <2>2. reg' = [reg EXCEPT ![id] = r]
    BY <1>1, <2>1
  <2>3. /\ r \in Registers
        /\ r.ST = reg[id].ST /\ r.FRE = reg[id].FRE
        /\ r.FR = reg[id].FR /\ r.CR = reg[id].CR
        /\ r.ci \subseteq reg[id].ci
        /\ r.sact = reg[id].sact
        /\ r.done
        /\ r.TFES = reg[id].TFES
    BY <1>1, <2>1 DEF Registers
  <2>4. reg'[id] = r /\ reg' \in [PortIds -> Registers] /\ \A x \in PortIds \ {id} : reg'[x] = reg[x]
    BY <1>1, <2>2, <2>3
  <2>5. ~ reg[id].TFES
    BY <1>5 DEF hba_complete
  <2> HIDE DEF r
  <2> QED
    BY <2>3, <2>4, <2>5 DEF AdapterEffect
<1>6. CASE hba_error(id)
  <2>1. SetReg(id, "TFES", TRUE) /\ reg[id].ci # {}
    BY <1>6 DEF hba_error
  <2>2. /\ reg' \in [PortIds -> Registers]
        /\ \A x \in PortIds \ {id} : reg'[x] = reg[x]
        /\ reg'[id] = [reg[id] EXCEPT !["TFES"] = TRUE]
    BY <2>1, SetRegType
  <2> QED
    BY <1>1, <2>1, <2>2 DEF AdapterEffect, Registers
<1> QED
  BY <1>2, <1>3, <1>4, <1>5, <1>6 DEF Adapter

-----------------------------------------------------------------------------
(* The steps.                                                              *)

\* The list stays as it is: so does what is said of it, as long as the driver
\* goes on within a port or has returned from the rebase.
LEMMA ListedRunsKept ==
    ASSUME ListedRuns, UNCHANGED <<disk, port_index, lin_address_list, cmd_tbl_base>>,
           \A id \in PortIds : reg'[id].ST = reg[id].ST /\ reg'[id].FRE = reg[id].FRE,
           pc' \in {"stopFRE", "waitFR", "waitCR", "remap"}
             => pc \in {"stopFRE", "waitFR", "waitCR", "remap"},
           pc \in Rebasing => pc' \in Rebasing
    PROVE  ListedRuns'
<1>1. \A id : Listed(id)' <=> Listed(id)
  BY DEF Listed
<1>2. Id' = Id
  BY DEF Id
<1>3. \A id : Passed(id) => Passed(id)'
  BY <1>2 DEF Passed
<1> QED
  BY <1>1, <1>2, <1>3 DEF ListedRuns

LEMMA AdapterIInv ==
    ASSUME IInv, NEW id \in PortIds, Adapter(id)
    PROVE  IInv'
<1>1. UNCHANGED <<pc, disk, port_index, slot, spin, lin_address_list, result, cmd_tbl_base, place>>
  BY DEF Adapter, driver
<1>2. AdapterEffect(id)
  BY AdapterEffects DEF IInv
<1>3. TypeOK'
  BY <1>1, <1>2 DEF IInv, TypeOK, AdapterEffect
<1>4. /\ Id' = Id /\ Port0' = Port0 /\ Port0 \in PortIds
      /\ port_index >= 0 => Id \in PortIds
  BY <1>1, IdType DEF IInv, Id, Port0
<1>5. \A x : Listed(x)' <=> Listed(x)
  BY <1>1 DEF Listed
<1>6. Stopped'
  BY <1>1, <1>2, <1>4 DEF IInv, Stopped, AdapterEffect
<1>7. \A x \in PortIds : reg'[x].ST = reg[x].ST /\ reg'[x].FRE = reg[x].FRE
  BY <1>2 DEF AdapterEffect
<1>8. ListedRuns'
  BY <1>1, <1>7, ListedRunsKept DEF IInv
<1>9. NothingElseIssued'
  <2>1. \A x : Issued(x)' <=> Issued(x)
    BY <1>1 DEF Issued
  <2> QED
    BY <1>2, <2>1 DEF IInv, NothingElseIssued, AdapterEffect
<1>10. SlotFree'
  <2>1. pc \in {"busy", "issue"} => reg[Port0].ci = {}
    BY <1>4, SMTT(30) DEF IInv, NothingElseIssued, Issued, Port0, Polling, TypeOK, Disks
  <2> QED
    BY <1>1, <1>2, <1>4, <1>5, <2>1 DEF IInv, SlotFree, AdapterEffect
<1>11. pc \in Polling \cup {"next"} /\ Listed(Port0) => reg[Port0].ST
  BY <1>4 DEF IInv, ListedRuns, Polling, Rebasing
<1>12. PollSound'
  BY <1>1, <1>2, <1>4, <1>5, <1>11 DEF IInv, PollSound, AdapterEffect
<1>13. OkStays'
  BY <1>1, <1>2, <1>4, <1>5, <1>11 DEF IInv, OkStays, AdapterEffect
<1> QED
  BY <1>3, <1>6, <1>8, <1>9, <1>10, <1>12, <1>13 DEF IInv

\* A step of the driver within the rebase of a port, or back from it, that
\* changes neither lists nor tables, and at most one port's registers.
LEMMA RebaseStepRest ==
    ASSUME IInv, UNCHANGED <<disk, slot>>,
           pc \in Rebasing \cup {"rebase"}, pc' \in Rebasing \cup {"rebase", "read"},
           \A id \in PortIds : reg'[id].ci = reg[id].ci
    PROVE  NothingElseIssued' /\ SlotFree' /\ PollSound' /\ OkStays'
<1>1. \A id : Issued(id)' => Issued(id)
  BY DEF Issued, Rebasing, Polling
<1>2. \A id : Issued(id) => Issued(id)'
  BY DEF Issued, Rebasing, Polling
<1>3. NothingElseIssued'
  BY <1>2 DEF IInv, NothingElseIssued
<1> QED
  BY <1>3 DEF SlotFree, PollSound, OkStays, Rebasing, Polling

LEMMA rebase_nextIInv == IInv /\ UNCHANGED place /\ rebase_next => IInv'
<1> SUFFICES ASSUME IInv, UNCHANGED place, rebase_next  PROVE IInv'
  OBVIOUS
<1> DEFINE next == <<disk, port_index + 1>>
<1>1. /\ pc = "rebase"
      /\ UNCHANGED <<disk, slot, spin, lin_address_list, result, cmd_tbl_base>>
  BY DEF rebase_next
<1>2. TypeOK /\ disk \in Disks /\ port_index \in -1 .. NPorts /\ NPorts \in Nat
  BY AhciAssumption DEF IInv, TypeOK
<1>3. \A id : Listed(id)' <=> Listed(id)
  BY <1>1 DEF Listed
<1>4. \A id \in PortIds : Listed(id) =>
          /\ id[1] < disk \/ (id[1] = disk /\ id[2] <= port_index)
          /\ reg[id].ST /\ reg[id].FRE
  <2> SUFFICES ASSUME NEW id \in PortIds, Listed(id)
               PROVE  /\ id[1] < disk \/ (id[1] = disk /\ id[2] <= port_index)
                      /\ reg[id].ST /\ reg[id].FRE
    OBVIOUS
  <2>1. Passed(id) /\ reg[id].ST /\ reg[id].FRE
    BY <1>1 DEF IInv, ListedRuns, Rebasing
  <2>2. id[2] \in Int /\ port_index \in Int
    BY <1>2 DEF PortIds
  <2>3. id = Id => id[1] = disk /\ id[2] = port_index
    BY DEF Id
  <2> QED
    BY <2>1, <2>2, <2>3 DEF Passed
<1>5. CASE /\ port_index < LastPort
           /\ PortType[next] = DEV_SATA
  <2>1. /\ port_index' = port_index + 1
        /\ SetReg(next, "ST", FALSE)
        /\ pc' = "stopFRE"
    <3>1. LastPort \in -1 .. NPorts
      BY <1>2, LastPortType
    <3>2. ~ (port_index >= LastPort)
      BY <1>2, <1>5, <3>1
    <3> QED
      BY <1>5, <3>2 DEF rebase_next, Goto, SetReg
  <2>2. port_index + 1 \in 0 .. NPorts /\ next \in PortIds
    BY <1>2, <1>5, LastPortType, IdType
  <2>3. /\ reg' \in [PortIds -> Registers]
        /\ \A x \in PortIds \ {next} : reg'[x] = reg[x]
        /\ reg'[next] = [reg[next] EXCEPT !["ST"] = FALSE]
    BY <1>2, <2>1, <2>2, SetRegType
  <2>4. reg[next] \in Registers
    BY <1>2, <2>2 DEF TypeOK
  <2>5. Id' = next
    BY <1>1, <2>1 DEF Id
  <2>6. TypeOK'
    BY <1>1, <1>2, <2>1, <2>2, <2>3 DEF TypeOK, Stages
  <2>7. Stopped'
    BY <2>1, <2>2, <2>3, <2>4, <2>5 DEF Stopped, Registers
  <2>8. ListedRuns'
    <3> SUFFICES ASSUME NEW id \in PortIds, Listed(id)
                 PROVE  /\ Passed(id)'
                        /\ id # next => reg'[id].ST /\ reg'[id].FRE
      BY <1>1, <1>3, <2>1, <2>5 DEF ListedRuns, Rebasing
    <3>1. Passed(id)'
      BY <1>1, <1>2, <1>4, <2>1 DEF Passed, PortIds
    <3> QED
      BY <1>4, <2>3, <3>1
  <2>9. \A x \in PortIds : reg'[x].ci = reg[x].ci
    BY <2>2, <2>3, <2>4 DEF Registers
  <2> QED
    BY <1>1, <2>1, <2>6, <2>7, <2>8, <2>9, RebaseStepRest DEF IInv, Rebasing
<1>6. CASE /\ port_index < LastPort
           /\ PortType[next] # DEV_SATA
  <2>1. /\ port_index' = port_index + 1
        /\ UNCHANGED <<reg, pc>>
    BY <1>6, <1>2, LastPortType DEF rebase_next
  <2>2. port_index + 1 \in 0 .. NPorts
    BY <1>2, <1>6, LastPortType
  <2>3. TypeOK'
    BY <1>1, <1>2, <2>1, <2>2 DEF TypeOK
  <2>4. Stopped'
    BY <1>1, <2>1 DEF Stopped, Rebasing
  <2>5. ListedRuns'
    <3> SUFFICES ASSUME NEW id \in PortIds, Listed(id)
                 PROVE  /\ Passed(id)'
                        /\ reg[id].ST /\ reg[id].FRE
      BY <1>1, <1>3, <2>1 DEF ListedRuns
    <3>1. Passed(id)'
      BY <1>1, <1>2, <1>4, <2>1 DEF Passed, PortIds
    <3> QED
      BY <1>4, <3>1
  <2> QED
    BY <1>1, <2>1, <2>3, <2>4, <2>5, RebaseStepRest DEF IInv, Rebasing
<1>7. CASE port_index >= LastPort
  <2>1. pc' = "read" /\ UNCHANGED <<port_index, reg>>
    <3>1. LastPort \in -1 .. NPorts
      BY <1>2, LastPortType
    <3>2. ~ (port_index < LastPort)
      BY <1>2, <1>7, <3>1
    <3> QED
      BY <3>2 DEF rebase_next, Goto
  <2>2. TypeOK'
    BY <1>1, <1>2, <2>1 DEF TypeOK, Stages
  <2>3. Stopped'
    BY <2>1 DEF Stopped, Rebasing
  <2>4. ListedRuns'
    BY <1>1, <2>1, ListedRunsKept DEF IInv, Rebasing
  <2> QED
    BY <1>1, <2>1, <2>2, <2>3, <2>4, RebaseStepRest DEF IInv, Rebasing
<1> QED
  BY <1>2, <1>5, <1>6, <1>7, LastPortType

\* The steps of the rebase that only look at the registers.
LEMMA RebaseWaits == IInv /\ UNCHANGED place /\ (wait_FR \/ wait_CR \/ start_CR) => IInv'
<1> SUFFICES ASSUME IInv, UNCHANGED place, wait_FR \/ wait_CR \/ start_CR  PROVE IInv'
  OBVIOUS
<1>1. UNCHANGED <<disk, port_index, slot, spin, lin_address_list, result, reg, cmd_tbl_base>>
  BY DEF wait_FR, wait_CR, start_CR
<1>2. /\ pc \in {"waitFR", "waitCR", "startCR"}
      /\ pc' \in {"waitFR", "waitCR", "remap", "startFRE"}
      /\ pc = "startCR" <=> pc' = "startFRE"
  BY DEF wait_FR, wait_CR, start_CR, Goto
<1>3. TypeOK'
  BY <1>1, <1>2 DEF IInv, TypeOK, Stages
<1>4. Id' = Id
  BY <1>1 DEF Id
<1>5. Stopped'
  BY <1>1, <1>4 DEF IInv, Stopped, Rebasing, wait_FR, wait_CR, start_CR, Goto
<1>6. ListedRuns'
  BY <1>1, <1>2, ListedRunsKept DEF IInv, Rebasing
<1> QED
  BY <1>1, <1>2, <1>3, <1>5, <1>6, RebaseStepRest DEF IInv, Rebasing

\* A step of the rebase that writes a bit of the port's own cmd.
LEMMA RebaseWrites == IInv /\ UNCHANGED place /\ (stop_FRE \/ start_FRE \/ start_ST) => IInv'
<1> SUFFICES ASSUME IInv, UNCHANGED place, stop_FRE \/ start_FRE \/ start_ST  PROVE IInv'
  OBVIOUS
<1>1. UNCHANGED <<disk, port_index, slot, spin, lin_address_list, result, cmd_tbl_base>>
  BY DEF stop_FRE, start_FRE, start_ST
<1>2. \/ pc = "stopFRE" /\ pc' = "waitFR" /\ SetReg(Id, "FRE", FALSE)
      \/ pc = "startFRE" /\ pc' = "startST" /\ SetReg(Id, "FRE", TRUE)
      \/ pc = "startST" /\ pc' = "rebase" /\ SetReg(Id, "ST", TRUE)
  BY DEF stop_FRE, start_FRE, start_ST, Goto
<1>3. TypeOK /\ Id \in PortIds /\ port_index >= 0
  BY <1>2, IdType DEF IInv, Stopped, Rebasing
<1>4. reg[Id] \in Registers
  BY <1>3 DEF TypeOK
<1>5. /\ reg' \in [PortIds -> Registers]
      /\ \A x \in PortIds \ {Id} : reg'[x] = reg[x]
      /\ pc = "stopFRE" => reg'[Id] = [reg[Id] EXCEPT !["FRE"] = FALSE]
      /\ pc = "startFRE" => reg'[Id] = [reg[Id] EXCEPT !["FRE"] = TRUE]
      /\ pc = "startST" => reg'[Id] = [reg[Id] EXCEPT !["ST"] = TRUE]
  BY <1>2, <1>3, SetRegType
<1>6. TypeOK'
  BY <1>1, <1>2, <1>3, <1>5 DEF TypeOK, Stages
<1>7. Id' = Id
  BY <1>1 DEF Id
<1>8. Stopped'
  BY <1>1, <1>2, <1>4, <1>5, <1>7 DEF IInv, Stopped, Rebasing, Registers
<1>9. ListedRuns'
  <2> SUFFICES ASSUME NEW id \in PortIds, Listed(id)
               PROVE  /\ Passed(id)'
                      /\ (id # Id \/ pc' = "rebase") => reg'[id].ST /\ reg'[id].FRE
    BY <1>1, <1>2, <1>7 DEF ListedRuns, Listed, Rebasing
  <2>1. /\ Passed(id)
        /\ id # Id => reg[id].ST /\ reg[id].FRE
    BY DEF IInv, ListedRuns
  <2>2. Passed(id)'
    BY <1>1, <1>2, <1>7, <2>1 DEF Passed
  <2>3. pc = "startST" => reg[Id].FRE
    BY DEF IInv, Stopped, Rebasing
  <2> QED
    BY <1>2, <1>4, <1>5, <2>1, <2>2, <2>3 DEF Registers
<1>10. \A x \in PortIds : reg'[x].ci = reg[x].ci
  BY <1>2, <1>4, <1>5 DEF Registers
<1> QED
  BY <1>1, <1>2, <1>6, <1>8, <1>9, <1>10, RebaseStepRest DEF IInv, Rebasing

\* The port gets its tables and its place in the list while it is stopped.
LEMMA remapIInv == IInv /\ UNCHANGED place /\ remap => IInv'
<1> SUFFICES ASSUME IInv, UNCHANGED place, remap  PROVE IInv'
  OBVIOUS
<1>1. /\ pc = "remap" /\ pc' = "startCR"
      /\ lin_address_list' = Append(lin_address_list, Id)
      /\ cmd_tbl_base' = Rebased(Id)
      /\ UNCHANGED <<disk, port_index, slot, spin, result, reg>>
  BY DEF remap, Goto
<1>2. TypeOK /\ Id \in PortIds
  BY <1>1, IdType DEF IInv, Stopped, Rebasing
<1>3. lin_address_list \in Seq(PortIds)
  BY <1>2 DEF TypeOK
<1>4. /\ lin_address_list' \in Seq(PortIds)
      /\ \A id : Listed(id)' <=> Listed(id) \/ id = Id
  <2> DEFINE s == lin_address_list
             t == Append(s, Id)
  <2>1. /\ t \in Seq(PortIds)
        /\ DOMAIN t = 1 .. Len(s) + 1
        /\ DOMAIN s = 1 .. Len(s)
        /\ Len(s) \in Nat
        /\ \A n \in DOMAIN s : t[n] = s[n]
        /\ t[Len(s) + 1] = Id
    BY <1>2, <1>3
  <2>2. \A id : (\E n \in DOMAIN t : t[n] = id) <=> (\E n \in DOMAIN s : s[n] = id) \/ id = Id
    <3> HIDE DEF s, t
    <3> QED
      BY <2>1
  <2>3. lin_address_list' = t
    BY <1>1
  <2> QED
    BY <2>1, <2>2, <2>3 DEF Listed
<1>5. TypeOK'
  <2> DEFINE Bases == Tables \cup {Firmware(id) : id \in PortIds} \cup {Nowhere}
  <2>1. cmd_tbl_base \in [PortIds -> [Slots -> Bases]]
    BY <1>2 DEF TypeOK
  <2>2. /\ [i \in Slots |-> traced(Id, i)] \in [Slots -> Bases]
        /\ [i \in Slots |-> Nowhere] \in [Slots -> Bases]
    BY <1>2, TracedType
  <2> HIDE DEF Bases
  <2>3. cmd_tbl_base' \in [PortIds -> [Slots -> Bases]]
    <3>1. \A x \in PortIds :
             (CASE x = Id                 -> [i \in Slots |-> traced(Id, i)]
                [] x # Id /\ Wipes(Id, x) -> [i \in Slots |-> Nowhere]
                [] OTHER                  -> cmd_tbl_base[x]) \in [Slots -> Bases]
      BY <2>1, <2>2
    <3> QED
      BY <1>1, <3>1 DEF Rebased
  <2> QED
    BY <1>1, <1>2, <1>4, <2>3 DEF TypeOK, Stages, Bases
<1>6. Id' = Id
  BY <1>1 DEF Id
<1>7. Stopped'
  BY <1>1, <1>6 DEF IInv, Stopped, Rebasing
<1>8. ListedRuns'
  <2> SUFFICES ASSUME NEW id \in PortIds, Listed(id) \/ id = Id
               PROVE  /\ Passed(id)'
                      /\ id # Id => reg[id].ST /\ reg[id].FRE
    BY <1>1, <1>4, <1>6 DEF ListedRuns, Rebasing
  <2>1. CASE id = Id
    BY <1>1, <1>6, <2>1 DEF Passed
  <2>2. CASE id # Id
    <3>1. Passed(id) /\ reg[id].ST /\ reg[id].FRE
      BY <2>2 DEF IInv, ListedRuns
    <3>2. Passed(id)'
      BY <1>1, <1>6, <2>2, <3>1 DEF Passed
    <3> QED
      BY <3>1, <3>2
  <2> QED
    BY <2>1, <2>2
<1> QED
  BY <1>1, <1>5, <1>7, <1>8, RebaseStepRest DEF IInv, Rebasing

\* The read changes no list, no table and none of the driver's bits.
LEMMA ReadStepRest ==
    ASSUME IInv, UNCHANGED <<disk, port_index, lin_address_list, cmd_tbl_base>>,
           pc \in Reading, pc' \in Reading,
           \A id \in PortIds : reg'[id].ST = reg[id].ST /\ reg'[id].FRE = reg[id].FRE
    PROVE  /\ Stopped' /\ ListedRuns'
           /\ Port0' = Port0 /\ Port0 \in PortIds
           /\ \A id : Listed(id)' <=> Listed(id)
<1>1. Stopped'
  BY DEF Stopped, Rebasing, Reading
<1>2. ListedRuns'
  BY ListedRunsKept DEF IInv, Rebasing, Reading
<1> QED
  BY <1>1, <1>2, IdType DEF IInv, Port0, Listed

\* Before the driver's own command nothing is issued to the port of the read.
LEMMA NothingOnPort0 ==
    ASSUME IInv, pc \in {"read", "busy", "issue"}
    PROVE  reg[Port0].ci = {}
<1>1. Port0 \in PortIds /\ disk \in Int
  BY IdType DEF IInv, TypeOK, Disks
<1>2. ~ Issued(Port0)
  BY <1>1 DEF Issued, Port0, Polling
<1> QED
  BY <1>1, <1>2 DEF IInv, NothingElseIssued

LEMMA read_setupIInv == IInv /\ UNCHANGED place /\ read_setup => IInv'
<1> SUFFICES ASSUME IInv, UNCHANGED place, read_setup  PROVE IInv'
  OBVIOUS
<1>1. /\ pc = "read"
      /\ UNCHANGED <<disk, port_index, lin_address_list, cmd_tbl_base>>
      /\ pc' \in {"next", "busy"}
  BY DEF read_setup, Return, Goto
<1>2. TypeOK /\ Port0 \in PortIds /\ reg[Port0] \in Registers /\ reg \in [PortIds -> Registers]
  BY IdType DEF IInv, TypeOK
<1>3. /\ reg' \in [PortIds -> Registers]
      /\ \A x \in PortIds : /\ reg'[x].ST = reg[x].ST /\ reg'[x].FRE = reg[x].FRE
                            /\ reg'[x].ci = reg[x].ci /\ reg'[x].sact = reg[x].sact
  <2>1. CASE reg' = reg
    BY <1>2, <2>1
  <2>2. CASE reg' = [reg EXCEPT ![Port0].TFES = FALSE]
    BY <1>2, <2>2 DEF Registers
  <2> QED
    BY <2>1, <2>2 DEF read_setup
<1>4. /\ slot' \in Slots
      /\ spin' \in 0 .. SpinLimit + 1
      /\ result' \in {OK, ERROR, NONE}
  BY <1>2, AhciAssumption DEF read_setup, TypeOK, Return
<1>5. TypeOK'
  BY <1>1, <1>2, <1>3, <1>4 DEF TypeOK, Stages
<1>6. /\ Stopped' /\ ListedRuns' /\ Port0' = Port0
      /\ \A id : Listed(id)' <=> Listed(id)
  BY <1>1, <1>3, ReadStepRest DEF Reading
<1>7. NothingElseIssued'
  <2>1. \A x : Issued(x) => Issued(x)'
    BY <1>1 DEF Issued, Polling
  <2> QED
    BY <1>3, <2>1 DEF IInv, NothingElseIssued
<1>8. SlotFree'
  <2> SUFFICES ASSUME pc' = "busy"
               PROVE  /\ Listed(Port0)
                      /\ slot' \notin reg[Port0].sact
                      /\ ~ reg'[Port0].TFES
    BY <1>1, <1>2, <1>3, <1>6 DEF SlotFree
  <2>1. /\ Listed(Port0)
        /\ reg' = [reg EXCEPT ![Port0].TFES = FALSE]
        /\ slot' \in Slots \ BusySlots(Port0)
    BY DEF read_setup, Return, Goto, Listed
  <2> QED
    BY <1>2, <2>1 DEF BusySlots, Registers
<1>9. PollSound'
  BY <1>1 DEF PollSound, Polling
<1>10. OkStays'
  <2>1. pc' = "next" => result' = ERROR
    BY DEF read_setup, Return, Goto
  <2> QED
    BY <2>1 DEF OkStays, OK, ERROR
<1> QED
  BY <1>5, <1>6, <1>7, <1>8, <1>9, <1>10 DEF IInv

LEMMA read_busyIInv == IInv /\ UNCHANGED place /\ read_busy => IInv'
<1> SUFFICES ASSUME IInv, UNCHANGED place, read_busy  PROVE IInv'
  OBVIOUS
<1>1. /\ pc = "busy"
      /\ pc' \in {"busy", "issue", "next"}
      /\ pc' = "next" => result' = ERROR
      /\ result' \in {result, ERROR}
      /\ spin' = spin \/ (spin' = spin + 1 /\ spin < SpinLimit)
      /\ UNCHANGED <<disk, port_index, slot, lin_address_list, reg, cmd_tbl_base>>
  <2>1. CASE /\ reg[Port0].busy /\ spin < SpinLimit
             /\ spin' = spin + 1
             /\ UNCHANGED <<pc, result>>
    BY <2>1 DEF read_busy
  <2>2. CASE /\ IF spin = SpinLimit THEN Return(ERROR) ELSE Goto("issue") /\ UNCHANGED result
             /\ UNCHANGED spin
    BY <2>2 DEF read_busy, Return, Goto
  <2> QED
    BY <2>1, <2>2 DEF read_busy
<1>2. TypeOK'
  BY <1>1, AhciAssumption DEF IInv, TypeOK, Stages
<1>3. /\ Stopped' /\ ListedRuns' /\ Port0' = Port0 /\ Port0 \in PortIds
      /\ \A id : Listed(id)' <=> Listed(id)
  BY <1>1, ReadStepRest DEF Reading
<1>4. NothingElseIssued'
  <2>1. \A x : Issued(x) => Issued(x)'
    BY <1>1 DEF Issued, Polling
  <2> QED
    BY <1>1, <2>1 DEF IInv, NothingElseIssued
<1> QED
  BY <1>1, <1>2, <1>3, <1>4 DEF IInv, SlotFree, PollSound, OkStays, Polling, OK, ERROR

\* The command goes to a port with nothing in ci: it is alone there.
LEMMA read_issueIInv == IInv /\ UNCHANGED place /\ read_issue => IInv'
<1> SUFFICES ASSUME IInv, UNCHANGED place, read_issue  PROVE IInv'
  OBVIOUS
<1>1. /\ pc = "issue" /\ pc' = "pollCI"
      /\ reg' = [reg EXCEPT ![Port0].ci = @ \cup {slot}, ![Port0].done = FALSE]
      /\ spin' = 0
      /\ UNCHANGED <<disk, port_index, slot, lin_address_list, result, cmd_tbl_base>>
  BY DEF read_issue, Goto
<1>2. /\ TypeOK /\ Port0 \in PortIds /\ slot \in Slots
      /\ reg \in [PortIds -> Registers] /\ reg[Port0] \in Registers
  BY IdType DEF IInv, TypeOK
<1>3. reg[Port0].ci = {}
  BY <1>1, NothingOnPort0
<1> DEFINE r == [reg[Port0] EXCEPT !.ci = reg[Port0].ci \cup {slot}, !.done = FALSE]
<1>4. /\ r \in Registers
      /\ r.ST = reg[Port0].ST /\ r.FRE = reg[Port0].FRE
      /\ r.ci = {slot}
  BY <1>2, <1>3 DEF Registers
<1>5. reg' = [reg EXCEPT ![Port0] = r]
  BY <1>1, <1>2
<1> HIDE DEF r
<1>6. /\ reg' \in [PortIds -> Registers]
      /\ reg'[Port0] = r
      /\ \A x \in PortIds \ {Port0} : reg'[x] = reg[x]
  BY <1>2, <1>4, <1>5
<1>7. TypeOK'
  BY <1>1, <1>2, <1>6, AhciAssumption DEF TypeOK, Stages
<1>8. \A x \in PortIds : reg'[x].ST = reg[x].ST /\ reg'[x].FRE = reg[x].FRE
  BY <1>4, <1>6
<1>9. /\ Stopped' /\ ListedRuns' /\ Port0' = Port0
      /\ \A id : Listed(id)' <=> Listed(id)
  BY <1>1, <1>8, ReadStepRest DEF Reading
<1>10. NothingElseIssued'
  <2> SUFFICES ASSUME NEW x \in PortIds, ~ Issued(x)'
               PROVE  reg'[x].ci = {}
    BY DEF NothingElseIssued
  <2>1. ~ Issued(x) /\ x # Port0
    BY <1>1 DEF Issued, Polling, Port0
  <2> QED
    BY <1>6, <2>1 DEF IInv, NothingElseIssued
<1>11. PollSound'
  BY <1>1, <1>4, <1>6, <1>9 DEF IInv, SlotFree, PollSound
<1> QED
  BY <1>1, <1>7, <1>9, <1>10, <1>11 DEF IInv, SlotFree, OkStays

\* The polls read the registers and change none.
LEMMA read_pollIInv == IInv /\ UNCHANGED place /\ (read_pollCI \/ read_pollIS) => IInv'
<1> SUFFICES ASSUME IInv, UNCHANGED place, read_pollCI \/ read_pollIS  PROVE IInv'
  OBVIOUS
<1>1. /\ pc \in Polling
      /\ pc' \in {"pollCI", "pollIS", "hang", "next"}
      /\ result' \in {OK, ERROR, NONE}
      /\ pc' = "next" /\ result' = OK => slot \notin reg[Port0].ci
      /\ spin' \in {spin, 1}
      /\ UNCHANGED <<disk, port_index, slot, lin_address_list, reg, cmd_tbl_base>>
  BY DEF IInv, TypeOK, read_pollCI, read_pollIS, Finished, Return, Goto, Polling, OK, ERROR
<1>2. TypeOK'
  BY <1>1, AhciAssumption DEF IInv, TypeOK, Stages
<1>3. /\ Stopped' /\ ListedRuns' /\ Port0' = Port0
      /\ \A id : Listed(id)' <=> Listed(id)
  BY <1>1, ReadStepRest DEF Reading, Polling
<1>4. NothingElseIssued'
  <2>1. \A x : Issued(x) => Issued(x)'
    BY <1>1 DEF Issued, Polling
  <2> QED
    BY <1>1, <2>1 DEF IInv, NothingElseIssued
<1>5. /\ Listed(Port0)
      /\ reg[Port0].ci \subseteq {slot}
      /\ slot \notin reg[Port0].ci => reg[Port0].done /\ ~ reg[Port0].TFES
  BY <1>1 DEF IInv, PollSound
<1>6. PollSound'
  BY <1>1, <1>3, <1>5 DEF PollSound
<1>7. OkStays'
  BY <1>1, <1>3, <1>5 DEF OkStays
<1> QED
  BY <1>1, <1>2, <1>3, <1>4, <1>6, <1>7 DEF IInv, SlotFree

LEMMA next_diskIInv == IInv /\ UNCHANGED place /\ next_disk => IInv'
<1> SUFFICES ASSUME IInv, UNCHANGED place, next_disk  PROVE IInv'
  OBVIOUS
<1>1. /\ pc = "next"
      /\ UNCHANGED <<slot, spin, lin_address_list, result, reg, cmd_tbl_base>>
      /\ \/ disk < disk_count /\ disk' = disk + 1 /\ port_index' = -1 /\ pc' = "rebase"
         \/ disk' = disk /\ port_index' = port_index /\ pc' = "done"
  BY DEF next_disk, Goto
<1>2. TypeOK /\ disk \in Disks /\ port_index \in -1 .. NPorts
  BY DEF IInv, TypeOK
<1>3. TypeOK'
  BY <1>1, <1>2, AhciAssumption DEF TypeOK, Disks, Stages
<1>4. Stopped'
  BY <1>1 DEF Stopped, Rebasing
<1>5. ListedRuns'
  <2> SUFFICES ASSUME NEW id \in PortIds, Listed(id)
               PROVE  /\ Passed(id)'
                      /\ reg[id].ST /\ reg[id].FRE
    BY <1>1 DEF ListedRuns, Listed
  <2>1. /\ Passed(id)
        /\ reg[id].ST /\ reg[id].FRE
    BY <1>1 DEF IInv, ListedRuns, Rebasing
  <2>2. id[1] \in Int /\ disk \in Int
    BY <1>2 DEF PortIds, Disks
  <2>3. id[1] <= disk
    BY <2>1, <2>2 DEF Passed, Id
  <2>4. Passed(id)'
    BY <1>1, <2>1, <2>2, <2>3 DEF Passed, Id
  <2> QED
    BY <2>1, <2>4
<1>6. NothingElseIssued'
  <2>1. \A x \in PortIds : Issued(x) => Issued(x)'
    BY <1>1, <1>2 DEF Issued, PortIds, Disks, Polling
  <2> QED
    BY <1>1, <2>1 DEF IInv, NothingElseIssued
<1> QED
  BY <1>1, <1>3, <1>4, <1>5, <1>6 DEF IInv, SlotFree, PollSound, OkStays, Polling

-----------------------------------------------------------------------------
(* The invariant and what follows from it.                                 *)

LEMMA NextIInv == IInv /\ [Next]_vars => IInv'
<1> SUFFICES ASSUME IInv, [Next]_vars  PROVE IInv'
  OBVIOUS
<1>1. CASE Driver
  BY <1>1, rebase_nextIInv, RebaseWaits, RebaseWrites, remapIInv, read_setupIInv,
     read_busyIInv, read_issueIInv, read_pollIInv, next_diskIInv DEF Driver
<1>2. CASE \E id \in PortIds : Adapter(id)
  BY <1>2, AdapterIInv
<1>3. CASE UNCHANGED vars
  <2>1. UNCHANGED <<pc, disk, port_index, slot, spin, lin_address_list, result, reg,
                 cmd_tbl_base, place>>
    BY <1>3 DEF vars, driver
  <2>2. Id' = Id /\ Port0' = Port0
    BY <2>1 DEF Id, Port0
  <2>3. \A x : (Listed(x)' <=> Listed(x)) /\ (Passed(x)' <=> Passed(x)) /\ (Issued(x)' <=> Issued(x))
    BY <2>1, <2>2 DEF Listed, Passed, Issued
  <2> QED
    BY <2>1, <2>2, <2>3 DEF IInv, TypeOK, Stopped, ListedRuns, NothingElseIssued, SlotFree,
                            PollSound, OkStays
<1> QED
  BY <1>1, <1>2, <1>3 DEF Next

LEMMA TablesKept == IInv /\ ListedTables /\ [Next]_vars => ListedTables'
<1> SUFFICES ASSUME IInv, ListedTables, [Next]_vars  PROVE ListedTables'
  OBVIOUS
<1>1. CASE UNCHANGED <<lin_address_list, cmd_tbl_base, place>>
  <2>1. \A a, b : Wipes(a, b)' <=> Wipes(a, b)
    BY <1>1 DEF Wipes
  <2>2. \A n : WipedSince(n)' <=> WipedSince(n)
    BY <1>1, <2>1 DEF WipedSince
  <2>3. \A id, i : traced(id, i)' = traced(id, i)
    BY DEF traced
  <2> QED
    BY <1>1, <2>2, <2>3 DEF ListedTables
<1>2. CASE remap /\ UNCHANGED place
  <2> DEFINE s == lin_address_list
             t == lin_address_list'
             Headers(x) == [i \in Slots |-> traced(x, i)]
             Cleared == [i \in Slots |-> Nowhere]
  <2>1. TypeOK /\ Id \in PortIds /\ pc = "remap"
    BY <1>2, IdType DEF IInv, Stopped, Rebasing, remap
  <2>2. s \in Seq(PortIds) /\ t = Append(s, Id) /\ cmd_tbl_base' = Rebased(Id)
    BY <1>2, <2>1 DEF remap, TypeOK
  <2>3. PICK k \in Nat : k = Len(s) + 1
    BY <2>2
  <2>4. /\ k \in Nat /\ DOMAIN s = 1 .. k - 1 /\ DOMAIN t = 1 .. k
        /\ \A n \in DOMAIN s : t[n] = s[n] /\ s[n] \in PortIds
        /\ t[k] = Id
    BY <2>1, <2>2, <2>3
  <2>5. \A n \in DOMAIN s : s[n] # Id
    <3> SUFFICES ASSUME NEW n \in DOMAIN s, s[n] = Id  PROVE FALSE
      OBVIOUS
    <3>1. Passed(Id)
      BY <2>1 DEF IInv, ListedRuns, Listed
    <3>2. Id[1] = disk /\ Id[2] = port_index /\ disk \in Int /\ port_index \in Int
      BY <2>1 DEF Id, TypeOK, Disks
    <3> QED
      BY <2>1, <3>1, <3>2 DEF Passed
  <2>6. \A a, b : Wipes(a, b)' <=> Wipes(a, b)
    BY <1>2 DEF Wipes
  <2>7. \A n \in DOMAIN s : WipedSince(n)' <=> WipedSince(n) \/ Wipes(Id, s[n])
    <3> SUFFICES ASSUME NEW n \in DOMAIN s
                 PROVE  (\E m \in DOMAIN t : m > n /\ Wipes(t[m], t[n])) <=>
                           (\E m \in DOMAIN s : m > n /\ Wipes(s[m], s[n])) \/ Wipes(Id, s[n])
      BY <2>6 DEF WipedSince
    <3>1. k \in DOMAIN t /\ k > n
      BY <2>4
    <3>2. \A m \in DOMAIN t : m \in DOMAIN s \/ m = k
      BY <2>4
    <3>3. DOMAIN s \subseteq DOMAIN t
      BY <2>4
    <3> HIDE DEF s, t
    <3> QED
      BY <2>4, <3>1, <3>2, <3>3
  <2>8. ~ WipedSince(k)'
    <3>1. ~ \E m \in DOMAIN t : m > k
      BY <2>4
    <3> QED
      BY <3>1 DEF WipedSince
  <2>9. \A id, i : traced(id, i)' = traced(id, i)
    BY DEF traced
  <2>10. \A x \in PortIds :
            cmd_tbl_base'[x] = CASE x = Id                 -> Headers(x)
                                 [] x # Id /\ Wipes(Id, x) -> Cleared
                                 [] OTHER                  -> cmd_tbl_base[x]
    BY <2>2 DEF Rebased
  <2>11. cmd_tbl_base'[Id] = Headers(Id)
    BY <2>1, <2>10
  <2>12. \A n \in DOMAIN s :
            cmd_tbl_base'[s[n]] = IF Wipes(Id, s[n]) THEN Cleared ELSE cmd_tbl_base[s[n]]
    BY <2>4, <2>5, <2>10
  <2>13. \A n \in DOMAIN s :
            cmd_tbl_base[s[n]] =
                [i \in Slots |-> IF WipedSince(n) THEN Nowhere ELSE traced(s[n], i)]
    BY DEF ListedTables
  <2>14. \A n \in DOMAIN s :
            cmd_tbl_base'[s[n]] =
                [i \in Slots |-> IF WipedSince(n)' THEN Nowhere ELSE traced(s[n], i)]
    <3> SUFFICES ASSUME NEW n \in DOMAIN s
                 PROVE  cmd_tbl_base'[s[n]] =
                           [i \in Slots |-> IF WipedSince(n)' THEN Nowhere ELSE traced(s[n], i)]
      OBVIOUS
    <3>1. CASE Wipes(Id, s[n])
      BY <2>7, <2>12, <3>1
    <3>2. CASE ~ Wipes(Id, s[n])
      BY <2>7, <2>12, <2>13, <3>2
    <3> QED
      BY <3>1, <3>2
  <2>15. cmd_tbl_base'[t[k]] =
            [i \in Slots |-> IF WipedSince(k)' THEN Nowhere ELSE traced(t[k], i)]
    BY <2>4, <2>8, <2>11
  <2>16. \A n \in DOMAIN t :
            cmd_tbl_base'[t[n]] =
                [i \in Slots |-> IF WipedSince(n)' THEN Nowhere ELSE traced(t[n], i)]
    <3> SUFFICES ASSUME NEW n \in DOMAIN t
                 PROVE  cmd_tbl_base'[t[n]] =
                           [i \in Slots |-> IF WipedSince(n)' THEN Nowhere ELSE traced(t[n], i)]
      OBVIOUS
    <3>1. CASE n = k
      BY <2>15, <3>1
    <3>2. CASE n # k
      <4>1. n \in DOMAIN s /\ t[n] = s[n]
        BY <2>4, <3>2
      <4> QED
        BY <2>14, <4>1
    <3> QED
      BY <3>1, <3>2
  <2>17. \A m, n \in DOMAIN t : t[m] = t[n] => m = n
    <3> SUFFICES ASSUME NEW m \in DOMAIN t, NEW n \in DOMAIN t, t[m] = t[n]  PROVE m = n
      OBVIOUS
    <3>1. \A j \in DOMAIN t : j = k \/ (j \in DOMAIN s /\ t[j] = s[j] /\ t[j] # Id)
      <4>1. \A j \in DOMAIN t : j = k \/ j \in DOMAIN s
        BY <2>4
      <4> QED
        BY <2>4, <2>5, <4>1
    <3>2. \A i, j \in DOMAIN s : s[i] = s[j] => i = j
      BY DEF ListedTables
    <3> HIDE DEF s, t
    <3> QED
      BY <2>4, <3>1, <3>2
  <2> HIDE DEF Headers, Cleared
  <2> QED
    BY <2>9, <2>16, <2>17 DEF ListedTables
<1>3. ASSUME NEW id \in PortIds, Adapter(id)  PROVE UNCHANGED <<lin_address_list, cmd_tbl_base, place>>
  BY <1>3 DEF Adapter, driver
<1>4. CASE Driver
  <2>1. UNCHANGED place
    BY <1>4 DEF Driver
  <2>2. remap \/ UNCHANGED <<lin_address_list, cmd_tbl_base>>
    BY <1>4 DEF Driver, rebase_next, stop_FRE, wait_FR, wait_CR, start_CR, start_FRE, start_ST,
                read_setup, read_busy, read_issue, read_pollCI, read_pollIS, next_disk
  <2> QED
    BY <1>1, <1>2, <2>1, <2>2
<1> QED
  BY <1>1, <1>3, <1>4 DEF Next, vars, driver

LEMMA SettledKept == IInv /\ Settled /\ [Next]_vars => Settled'
<1> SUFFICES ASSUME IInv, Settled, [Next]_vars  PROVE Settled'
  OBVIOUS
<1>1. TypeOK /\ reg \in [PortIds -> Registers] /\ Port0 \in PortIds
  BY IdType DEF IInv, TypeOK
<1>2. ASSUME NEW id \in PortIds, Adapter(id)  PROVE Settled'
  <2>1. AdapterEffect(id) /\ UNCHANGED <<pc, disk>>
    BY <1>1, <1>2, AdapterEffects DEF Adapter, driver
  <2>2. Port0' = Port0
    BY <2>1 DEF Port0
  <2>3. \A x \in PortIds : reg[x].ci = {} \/ reg[x].TFES => reg'[x].ci = {} \/ reg'[x].TFES
    BY <2>1 DEF AdapterEffect
  <2> QED
    BY <2>1, <2>2, <2>3 DEF Settled
<1>3. CASE rebase_next \/ stop_FRE \/ start_FRE \/ start_ST
  <2>1. /\ pc \in Rebasing \cup {"rebase"}
        /\ reg' = reg \/ \E id \in PortIds, v \in BOOLEAN :
                           SetReg(id, "ST", v) \/ SetReg(id, "FRE", v)
    <3>1. CASE rebase_next
      <4>1. \/ reg' = reg
            \/ port_index < LastPort /\ SetReg(<<disk, port_index + 1>>, "ST", FALSE)
        BY <3>1 DEF rebase_next
      <4>2. port_index < LastPort => <<disk, port_index + 1>> \in PortIds
        BY <1>1, LastPortType, AhciAssumption DEF TypeOK, PortIds
      <4> QED
        BY <3>1, <4>1, <4>2 DEF rebase_next
    <3>2. CASE stop_FRE \/ start_FRE \/ start_ST
      <4>1. pc \in Rebasing /\ Id \in PortIds
        BY <3>2, IdType DEF IInv, Stopped, Rebasing, stop_FRE, start_FRE, start_ST
      <4> QED
        BY <3>2, <4>1 DEF stop_FRE, start_FRE, start_ST
    <3> QED
      BY <1>3, <3>1, <3>2
  <2>2. \A x \in PortIds : reg'[x].ci = reg[x].ci /\ reg'[x].TFES = reg[x].TFES
    <3>1. CASE reg' = reg
      BY <3>1
    <3>2. ASSUME NEW id \in PortIds, NEW v \in BOOLEAN, NEW f \in {"ST", "FRE"}, SetReg(id, f, v)
          PROVE  \A x \in PortIds : reg'[x].ci = reg[x].ci /\ reg'[x].TFES = reg[x].TFES
      <4>1. /\ \A x \in PortIds \ {id} : reg'[x] = reg[x]
            /\ reg'[id] = [reg[id] EXCEPT ![f] = v]
        <5>1. CASE f = "ST"
          <6>1. SetReg(id, "ST", v)
            BY <3>2, <5>1
          <6> QED
            BY <1>1, <5>1, <6>1, SetRegType
        <5>2. CASE f = "FRE"
          <6>1. SetReg(id, "FRE", v)
            BY <3>2, <5>2
          <6> QED
            BY <1>1, <5>2, <6>1, SetRegType
        <5> QED
          BY <5>1, <5>2
      <4>2. reg[id] \in Registers
        BY <1>1
      <4> QED
        BY <4>1, <4>2 DEF Registers
    <3> QED
      BY <2>1, <3>1, <3>2
  <2>3. \A x \in PortIds : reg[x].ci = {} \/ reg[x].TFES
    BY <2>1 DEF Settled, Polling, Rebasing
  <2> QED
    BY <2>2, <2>3 DEF Settled
<1>4. CASE wait_FR \/ wait_CR \/ remap \/ start_CR \/ read_busy \/ next_disk
  <2>1. reg' = reg
    BY <1>4 DEF wait_FR, wait_CR, remap, start_CR, read_busy, next_disk
  <2>2. pc \notin Polling \cup {"hang"}
    BY <1>4 DEF wait_FR, wait_CR, remap, start_CR, read_busy, next_disk, Polling
  <2> QED
    BY <2>1, <2>2 DEF Settled
<1>5. CASE read_setup
  <2>1. pc = "read" /\ (reg' = reg \/ reg' = [reg EXCEPT ![Port0].TFES = FALSE])
    BY <1>5 DEF read_setup
  <2>2. reg[Port0].ci = {}
    BY <2>1, NothingOnPort0
  <2>3. \A x \in PortIds : reg[x].ci = {} \/ reg[x].TFES
    BY <2>1 DEF Settled, Polling
  <2>4. reg[Port0] \in Registers
    BY <1>1
  <2>5. \A x \in PortIds : reg'[x].ci = {} \/ reg'[x].TFES
    BY <1>1, <2>1, <2>2, <2>3, <2>4 DEF Registers
  <2> QED
    BY <2>5 DEF Settled
<1>6. CASE read_issue
  <2>1. /\ pc = "issue" /\ disk' = disk
        /\ reg' = [reg EXCEPT ![Port0].ci = @ \cup {slot}, ![Port0].done = FALSE]
    BY <1>6 DEF read_issue
  <2>2. Port0' = Port0 /\ \A x \in PortIds \ {Port0} : reg'[x] = reg[x]
    BY <1>1, <2>1 DEF Port0
  <2>3. pc' = "pollCI"
    BY <1>6 DEF read_issue, Goto
  <2> QED
    BY <2>2, <2>3 DEF Settled, Polling
<1>7. CASE read_pollCI \/ read_pollIS
  <2>1. reg' = reg /\ disk' = disk /\ pc \in Polling
    BY <1>7 DEF read_pollCI, read_pollIS, Polling
  <2>2. pc' \in Polling \cup {"hang"} \/ reg[Port0].ci = {} \/ reg[Port0].TFES
    <3>1. reg[Port0].ci \subseteq {slot}
      BY <2>1 DEF IInv, PollSound
    <3> QED
      BY <1>7, <3>1 DEF read_pollCI, read_pollIS, Finished, Return, Goto, Polling
  <2>3. Port0' = Port0
    BY <2>1 DEF Port0
  <2> QED
    BY <2>1, <2>2, <2>3 DEF Settled
<1>8. CASE UNCHANGED vars
  BY <1>8 DEF Settled, vars, driver, Port0
<1> QED
  BY <1>2, <1>3, <1>4, <1>5, <1>6, <1>7, <1>8 DEF Next, Driver

THEOREM Inductive == Spec => [](IInv /\ ListedTables /\ Settled)
<1>1. Init => IInv /\ ListedTables /\ Settled
  <2>1. Init => ListedTables
    BY DEF Init, ListedTables
  <2>2. Init => Settled
    BY DEF Init, Settled, Left
  <2> QED
    BY <2>1, <2>2, InitIInv
<1>2. IInv /\ ListedTables /\ Settled /\ [Next]_vars => (IInv /\ ListedTables /\ Settled)'
  BY NextIInv, TablesKept, SettledKept
<1> QED
  BY <1>1, <1>2, PTL DEF Spec

\* Every variable of the driver and of its adapters keeps its type.
THEOREM TypeCorrect == Spec => []TypeOK
<1>1. IInv => TypeOK
  BY DEF IInv
<1> QED
  BY <1>1, Inductive, PTL

\* ahci_port_rebase, ahci.c: when the driver clears and rewrites the memory of
\* a port, ahci_port_stop_cmd has switched off both engines that fetch from
\* it, and no other port, on this controller or an earlier one, has a command
\* left to fetch from a list that is cleared along with it.
THEOREM EnginesOff == Spec => []EnginesOffWhileRebased
<1>1. IInv /\ Settled => EnginesOffWhileRebased
  BY DEF IInv, Stopped, Settled, Rebasing, Polling, EnginesOffWhileRebased
<1> QED
  BY <1>1, Inductive, PTL

\* ahci_port_read, ahci.c: a command is issued only to a port that runs again,
\* in a slot the adapter is not using, and through the headers the driver
\* filled in, unless the rebase of a later port cleared them again.
THEOREM Issue == Spec => []IssueReady
<1>1. IInv /\ ListedTables => IssueReady
  <2> SUFFICES ASSUME IInv, ListedTables, pc = "issue"
               PROVE  /\ reg[Port0].ST /\ reg[Port0].FRE
                      /\ slot \notin reg[Port0].ci \cup reg[Port0].sact
                      /\ \E n \in DOMAIN lin_address_list :
                            /\ lin_address_list[n] = Port0
                            /\ cmd_tbl_base[Port0] =
                                  [i \in Slots |-> IF WipedSince(n) THEN Nowhere
                                                   ELSE traced(Port0, i)]
    BY DEF IssueReady
  <2>1. Port0 \in PortIds
    BY IdType DEF IInv
  <2>2. Listed(Port0) /\ slot \notin reg[Port0].sact
    BY DEF IInv, SlotFree
  <2>3. reg[Port0].ST /\ reg[Port0].FRE
    BY <2>1, <2>2 DEF IInv, ListedRuns, Rebasing
  <2>4. reg[Port0].ci = {}
    BY NothingOnPort0
  <2>5. PICK n \in DOMAIN lin_address_list : lin_address_list[n] = Port0
    BY <2>2 DEF Listed
  <2>6. cmd_tbl_base[Port0] =
            [i \in Slots |-> IF WipedSince(n) THEN Nowhere ELSE traced(Port0, i)]
    BY <2>5 DEF ListedTables
  <2> QED
    BY <2>2, <2>3, <2>4, <2>5, <2>6
<1> QED
  BY <1>1, Inductive, PTL

\* ahci_port_read, ahci.c: it returns OK only if the adapter completed the
\* command without an error, although it reads ci and is one after the other
\* while the adapter changes both.
THEOREM OkDone == Spec => []OkMeansDone
<1>1. IInv => OkMeansDone
  BY DEF IInv, OkStays, OkMeansDone
<1> QED
  BY <1>1, Inductive, PTL
=============================================================================
