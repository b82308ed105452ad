------------------------------ MODULE PciProofs ------------------------------
(***************************************************************************)
(* Proofs about Pci: what the table of devices and the list of controllers *)
(* hold at the end of the search.                                          *)
(*                                                                         *)
(* The scans count and then enumerate the same set, the numbers at which a *)
(* device answers.  The invariant says how far each loop is with that set; *)
(* the search is a filter of the finished table.                           *)
(***************************************************************************)
EXTENDS Pci, NumberLemmas, SequenceTheorems

Addresses == (0 .. BusCount - 1) \X (0 .. SlotCount - 1)

\* Not every number a scan tries is answered: the amount, a uint16_t, does not
\* wrap.
SomeSilent ==
    \A m \in Machines : \E k \in 0 .. ScanLength - 1 : \A d \in m : ~ Answers(d, Tried(k), 0)

\* The numbers below n at which a device answers.
Found(n) == {k \in 0 .. n - 1 : Present(Tried(k))}

All == Cardinality(Found(ScanLength))

\* The table t holds the address of every number of Found(n), each once.
Enumerates(t, n) ==
    /\ Len(t) = Cardinality(Found(n))
    /\ \A k \in Found(n) : \E i \in DOMAIN t : t[i] = Tried(k)
    /\ \A i \in DOMAIN t : \E k \in Found(n) : t[i] = Tried(k)
    /\ \A i, j \in DOMAIN t : t[i] = t[j] => i = j

\* The list f holds the controllers among the first p places of the table t,
\* each once.
Filters(f, t, p) ==
    /\ \A i \in 1 .. p : IsAhci(t[i]) => \E n \in DOMAIN f : f[n] = t[i]
    /\ \A n \in DOMAIN f : IsAhci(f[n]) /\ \E i \in 1 .. p : t[i] = f[n]
    /\ \A m, n \in DOMAIN f : f[m] = f[n] => m = n

Searching == {"search", "disk_init", "no disk", "halt"}

IInv ==
    /\ TypeOK
    /\ pc \notin Searching => disk_found_ahci_addr = <<>> /\ scans \in {0, 1}
    /\ pc = "count" => pci_devices_amount = Cardinality(Found(pos))
    /\ pc \in {"alloc", "fill"} \cup Searching => pci_devices_amount = All
    /\ pc \in {"fill"} \cup Searching => size = All
    /\ pc = "fill" => Enumerates(pci_devices_address, pos)
    /\ pc \in Searching =>
          /\ Enumerates(pci_devices_address, ScanLength)
          /\ pos <= All
          /\ Filters(disk_found_ahci_addr, pci_devices_address, pos)
          /\ Len(disk_found_ahci_addr) < DISK_MAX_AHCI
    /\ pc \in {"disk_init", "no disk"} => pos = All

-----------------------------------------------------------------------------
(* Numbers and addresses.                                                  *)

LEMMA Sizes ==
    /\ BusCount \in Nat /\ BusCount > 0 /\ BusCount <= 256
    /\ SlotCount \in Nat /\ SlotCount > 0 /\ SlotCount <= 256
    /\ SlotsPerBus \in Nat /\ SlotsPerBus > 0 /\ SlotsPerBus <= SlotCount
    /\ DISK_MAX_AHCI \in Nat /\ DISK_MAX_AHCI > 0
  BY PciAssumption

LEMMA ScanLengthNat == ScanLength \in Nat /\ ScanLength > 0
  BY Sizes DEF ScanLength

\* The scan tries every address once.
LEMMA TriedAddress ==
    ASSUME NEW k \in 0 .. ScanLength - 1
    PROVE  /\ Tried(k) \in Addresses
           /\ \A j \in 0 .. ScanLength - 1 : Tried(j) = Tried(k) => j = k
<1>1. k \in Nat /\ k < BusCount * SlotCount /\ BusCount * SlotCount \in Nat
  BY ScanLengthNat DEF ScanLength
<1>2. /\ k \div SlotCount \in Nat /\ k % SlotCount \in Nat /\ k % SlotCount < SlotCount
      /\ k = SlotCount * (k \div SlotCount) + (k % SlotCount)
  BY <1>1, Sizes, DivMod
<1>3. k \div SlotCount < BusCount
  <2> DEFINE q == k \div SlotCount
             r == k % SlotCount
  <2>1. q \in Nat /\ r \in Nat /\ k = SlotCount * q + r
    BY <1>2
  <2> HIDE DEF q, r
  <2> SUFFICES ASSUME q >= BusCount  PROVE FALSE
    BY <2>1, Sizes DEF q
  <2>2. SlotCount * q >= SlotCount * BusCount
    BY <2>1, Sizes
  <2>3. SlotCount * q \in Nat /\ SlotCount * BusCount = BusCount * SlotCount
    BY <2>1, Sizes
  <2> QED
    BY <1>1, <2>1, <2>2, <2>3
<1>4. Tried(k) \in Addresses
  BY <1>2, <1>3, Sizes DEF Tried, Addresses
<1>5. ASSUME NEW j \in 0 .. ScanLength - 1, Tried(j) = Tried(k)  PROVE j = k
  <2>1. j \div SlotCount = k \div SlotCount /\ j % SlotCount = k % SlotCount
    BY <1>5 DEF Tried
  <2>2. j \in Nat
    BY ScanLengthNat
  <2>3. j = SlotCount * (j \div SlotCount) + (j % SlotCount)
    BY <2>2, Sizes, DivMod
  <2> QED
    BY <1>2, <2>1, <2>3
<1> QED
  BY <1>4, <1>5

\* It tries each of them.
LEMMA AddressTried ==
    ASSUME NEW b \in 0 .. BusCount - 1, NEW s \in 0 .. SlotCount - 1
    PROVE  \E k \in 0 .. ScanLength - 1 : Tried(k) = <<b, s>>
<1> DEFINE k == SlotCount * b + s
<1>1. /\ b \in Nat /\ b <= BusCount - 1 /\ s \in Nat /\ s < SlotCount
      /\ SlotCount * b \in Nat
  BY Sizes
<1>2. SlotCount * b <= SlotCount * (BusCount - 1)
  BY <1>1, Sizes
<1>3. SlotCount * (BusCount - 1) = BusCount * SlotCount - SlotCount
  BY Sizes
<1>4. k \in Nat /\ k < ScanLength
  BY <1>1, <1>2, <1>3, Sizes, ScanLengthNat DEF ScanLength
<1>7. k = SlotCount * b + s
  OBVIOUS
<1> HIDE DEF k
<1>5. k \div SlotCount = b /\ k % SlotCount = s
  BY <1>1, <1>4, <1>7, Sizes, DivUnique
<1>6. Tried(k) = <<b, s>> /\ k \in 0 .. ScanLength - 1
  BY <1>4, <1>5, ScanLengthNat DEF Tried
<1> QED
  BY <1>6

-----------------------------------------------------------------------------
(* What a loop has found.                                                  *)

LEMMA FoundCount ==
    ASSUME NEW n \in 0 .. ScanLength
    PROVE  /\ IsFiniteSet(Found(n))
           /\ Cardinality(Found(n)) \in 0 .. n
           /\ Cardinality(Found(n)) <= All
           /\ All \in 0 .. ScanLength
<1>1. n \in Nat /\ n <= ScanLength
  BY ScanLengthNat
<1>2. ASSUME NEW m \in Nat
      PROVE  IsFiniteSet(Found(m)) /\ Cardinality(Found(m)) \in 0 .. m
  <2>1. IsFiniteSet(0 .. m - 1) /\ Cardinality(0 .. m - 1) = m
    BY FS_Interval
  <2>2. Found(m) \subseteq 0 .. m - 1
    BY DEF Found
  <2>3. /\ IsFiniteSet(Found(m)) /\ Cardinality(Found(m)) <= Cardinality(0 .. m - 1)
    BY <2>1, <2>2, FS_Subset
  <2>4. Cardinality(Found(m)) \in Nat
    BY <2>3, FS_CardinalityType
  <2> QED
    BY <2>1, <2>3, <2>4
<1>3. Found(n) \subseteq Found(ScanLength)
  BY <1>1, ScanLengthNat DEF Found
<1>4. IsFiniteSet(Found(ScanLength)) /\ All \in 0 .. ScanLength
  BY <1>2, ScanLengthNat DEF All
<1>5. Cardinality(Found(n)) <= All
  BY <1>3, <1>4, FS_Subset DEF All
<1> QED
  BY <1>1, <1>2, <1>4, <1>5

\* One turn of a loop.
LEMMA FoundNext ==
    ASSUME NEW n \in 0 .. ScanLength - 1
    PROVE  /\ Present(Tried(n)) => /\ Found(n + 1) = Found(n) \cup {n}
                                   /\ Cardinality(Found(n + 1)) = Cardinality(Found(n)) + 1
           /\ ~ Present(Tried(n)) => Found(n + 1) = Found(n)
<1>1. n \in Nat /\ n \in 0 .. ScanLength
  BY ScanLengthNat
<1>2. n \notin Found(n)
  BY <1>1 DEF Found
<1>3. ASSUME NEW k  PROVE k \in 0 .. (n + 1) - 1 <=> k \in 0 .. n - 1 \/ k = n
  BY <1>1
<1>4. Present(Tried(n)) => Found(n + 1) = Found(n) \cup {n}
  BY <1>3 DEF Found
<1>5. ~ Present(Tried(n)) => Found(n + 1) = Found(n)
  BY <1>3 DEF Found
<1>6. Cardinality(Found(n) \cup {n}) = Cardinality(Found(n)) + 1
  BY <1>1, <1>2, FoundCount, FS_AddElement
<1> QED
  BY <1>4, <1>5, <1>6

LEMMA FoundNone == Found(0) = {} /\ Cardinality(Found(0)) = 0
<1>1. Found(0) = {}
  BY DEF Found
<1> QED
  BY <1>1, FS_EmptySet

\* The amount does not wrap.
LEMMA AllCounted ==
    ASSUME SomeSilent, devices \in Machines
    PROVE  All < ScanLength
<1>1. PICK k \in 0 .. ScanLength - 1 : ~ Present(Tried(k))
  BY DEF SomeSilent, Present
<1> DEFINE R == 0 .. ScanLength - 1
<1>2. IsFiniteSet(R) /\ Cardinality(R) = ScanLength
  BY ScanLengthNat, FS_Interval
<1>3. Found(ScanLength) \subseteq R \ {k}
  BY <1>1 DEF Found
<1>4. IsFiniteSet(R \ {k}) /\ Cardinality(R \ {k}) = ScanLength - 1
  BY <1>1, <1>2, FS_RemoveElement
<1> HIDE DEF R
<1>5. Cardinality(Found(ScanLength)) <= Cardinality(R \ {k})
  BY <1>3, <1>4, FS_Subset
<1> QED
  BY <1>4, <1>5, ScanLengthNat, FoundCount DEF All

-----------------------------------------------------------------------------
(* The scans.                                                              *)

\* The type invariant, less what is about the search.
Types ==
    /\ devices \in Machines
    /\ pos \in 0 .. ScanLength
    /\ pci_devices_amount \in 0 .. ScanLength - 1
    /\ size \in 0 .. ScanLength - 1
    /\ pci_devices_address \in Seq(Addresses)
    /\ disk_found_ahci_addr \in Seq(Addresses)

LEMMA TypesOfTypeOK == TypeOK => Types
  BY DEF TypeOK, Types, Addresses

LEMMA InitIInv == Init => IInv
<1> SUFFICES ASSUME Init  PROVE IInv
  OBVIOUS
<1>1. TypeOK
  BY ScanLengthNat, Sizes DEF Init, TypeOK
<1>2. pci_devices_amount = Cardinality(Found(pos))
  BY FoundNone DEF Init
<1> QED
  BY <1>1, <1>2 DEF Init, IInv, Searching

LEMMA CountStep ==
    ASSUME SomeSilent, IInv, count_device
    PROVE  IInv'
<1>1. /\ pc = "count" /\ TypeOK /\ Types /\ pci_devices_amount = Cardinality(Found(pos))
      /\ disk_found_ahci_addr = <<>> /\ scans \in {0, 1}
      /\ UNCHANGED <<devices, scans, size, pci_devices_address, disk_found_ahci_addr>>
  BY TypesOfTypeOK DEF IInv, Searching, count_device
<1>2. \A n : Found(n)' = Found(n)
  BY <1>1 DEF Found, Present
<1>3. CASE pos < ScanLength
  <2>1. pos \in 0 .. ScanLength - 1 /\ pos \in Nat
    BY <1>1, <1>3, ScanLengthNat DEF Types
  <2>2. /\ pos' = pos + 1 /\ pc' = pc
        /\ pci_devices_amount' =
              (pci_devices_amount + (IF Present(Tried(pos)) THEN 1 ELSE 0)) % ScanLength
    BY <1>1, <1>3 DEF count_device
  <2> DEFINE c == Cardinality(Found(pos + 1))
  <2>3. c = pci_devices_amount + (IF Present(Tried(pos)) THEN 1 ELSE 0)
    BY <1>1, <2>1, FoundNext DEF Types
  <2>4. c \in Nat /\ c < ScanLength
    <3>1. pos + 1 \in 0 .. ScanLength
      BY <2>1, ScanLengthNat
    <3>2. All < ScanLength
      BY <1>1, AllCounted DEF Types
    <3> QED
      BY <2>1, <3>1, <3>2, FoundCount, ScanLengthNat
  <2> HIDE DEF c
  <2>5. c % ScanLength = c
    BY <2>4, ScanLengthNat, DivUnique
  <2>6. pci_devices_amount' = c
    BY <2>2, <2>3, <2>5
  <2>7. pci_devices_amount' = Cardinality(Found(pos)')
    BY <1>2, <2>2, <2>6 DEF c
  <2>8. TypeOK'
    <3>1. pos' \in 0 .. ScanLength /\ pci_devices_amount' \in 0 .. ScanLength - 1
      BY <2>1, <2>2, <2>4, <2>6, ScanLengthNat
    <3> QED
      BY <1>1, <2>2, <3>1 DEF TypeOK
  <2>9. pc' = "count"
    BY <1>1, <2>2
  <2> QED
    BY <1>1, <2>7, <2>8, <2>9 DEF IInv, Searching
<1>4. CASE ~ pos < ScanLength
  <2>1. pos = ScanLength
    BY <1>1, <1>4, ScanLengthNat DEF Types
  <2>2. pc' = "alloc" /\ UNCHANGED <<pos, pci_devices_amount>>
    BY <1>4 DEF count_device
  <2>3. pci_devices_amount' = All'
    BY <1>1, <1>2, <2>1, <2>2 DEF All
  <2>4. TypeOK'
    BY <1>1, <2>2 DEF TypeOK
  <2> QED
    BY <1>1, <2>2, <2>3, <2>4 DEF IInv, Searching
<1> QED
  BY <1>3, <1>4

LEMMA AllocStep ==
    ASSUME IInv, alloc_table
    PROVE  IInv'
<1>1. /\ pc = "alloc" /\ TypeOK /\ pci_devices_amount = All
      /\ disk_found_ahci_addr = <<>> /\ scans \in {0, 1}
      /\ UNCHANGED <<devices, scans, pci_devices_amount, disk_found_ahci_addr>>
      /\ pc' = "fill" /\ pos' = 0 /\ size' = pci_devices_amount /\ pci_devices_address' = <<>>
  BY DEF IInv, Searching, alloc_table
<1>2. \A n : Found(n)' = Found(n)
  BY <1>1 DEF Found, Present
<1>3. pci_devices_amount' = All' /\ size' = All'
  BY <1>1, <1>2 DEF All
<1>4. Enumerates(pci_devices_address, pos)'
  <2>1. Found(pos)' = {} /\ Cardinality(Found(pos)') = 0
    BY <1>1, <1>2, FoundNone
  <2> QED
    BY <1>1, <2>1 DEF Enumerates
<1>5. TypeOK'
  BY <1>1, ScanLengthNat DEF TypeOK
<1> QED
  BY <1>1, <1>3, <1>4, <1>5 DEF IInv, Searching

\* The table with one more address.
LEMMA EnumeratesNext ==
    ASSUME NEW n \in 0 .. ScanLength - 1, NEW t \in Seq(Addresses), Enumerates(t, n)
    PROVE  /\ Present(Tried(n)) =>
                 /\ Append(t, Tried(n)) \in Seq(Addresses)
                 /\ Enumerates(Append(t, Tried(n)), n + 1)
           /\ ~ Present(Tried(n)) => Enumerates(t, n + 1)
<1>1. ASSUME Present(Tried(n))
      PROVE  Append(t, Tried(n)) \in Seq(Addresses) /\ Enumerates(Append(t, Tried(n)), n + 1)
  <2> DEFINE a == Tried(n)
             u == Append(t, a)
  <2>1. a \in Addresses
    BY TriedAddress
  <2>2. /\ u \in Seq(Addresses) /\ Len(u) = Len(t) + 1 /\ Len(t) \in Nat
        /\ DOMAIN t = 1 .. Len(t) /\ DOMAIN u = 1 .. Len(t) + 1
        /\ \A i \in 1 .. Len(t) : u[i] = t[i]
        /\ u[Len(t) + 1] = a
    <3> HIDE DEF a
    <3> QED
      BY <2>1, AppendProperties, LenProperties
  <2>3. /\ Found(n + 1) = Found(n) \cup {n}
        /\ Cardinality(Found(n + 1)) = Cardinality(Found(n)) + 1
    BY <1>1, FoundNext
  <2>4. \A i \in DOMAIN t : t[i] # a
    <3> SUFFICES ASSUME NEW i \in DOMAIN t, t[i] = a  PROVE FALSE
      OBVIOUS
    <3>1. PICK k \in Found(n) : t[i] = Tried(k)
      BY DEF Enumerates
    <3>2. k \in 0 .. ScanLength - 1 /\ k # n
      BY <3>1, ScanLengthNat DEF Found
    <3> QED
      BY <3>1, <3>2, TriedAddress
  <2> HIDE DEF u
  <2>5. \A k \in Found(n + 1) : \E i \in DOMAIN u : u[i] = Tried(k)
    <3> SUFFICES ASSUME NEW k \in Found(n + 1)
                 PROVE  \E i \in 1 .. Len(t) + 1 : u[i] = Tried(k)
      BY <2>2
    <3>1. CASE k = n
      BY <2>2, <3>1
    <3>2. CASE k \in Found(n)
      <4>1. PICK i \in 1 .. Len(t) : t[i] = Tried(k)
        BY <2>2, <3>2 DEF Enumerates
      <4>2. i \in 1 .. Len(t) + 1 /\ u[i] = Tried(k)
        BY <2>2, <4>1
      <4> QED
        BY <4>2
    <3> QED
      BY <2>3, <3>1, <3>2
  <2>6. \A i \in DOMAIN u : \E k \in Found(n + 1) : u[i] = Tried(k)
    <3> SUFFICES ASSUME NEW i \in 1 .. Len(t) + 1
                 PROVE  \E k \in Found(n + 1) : u[i] = Tried(k)
      BY <2>2
    <3>1. CASE i = Len(t) + 1
      BY <2>2, <2>3, <3>1
    <3>2. CASE i \in 1 .. Len(t)
      BY <2>2, <2>3, <3>2 DEF Enumerates
    <3> QED
      BY <2>2, <3>1, <3>2
  <2>7. \A i, j \in DOMAIN u : u[i] = u[j] => i = j
    <3> SUFFICES ASSUME NEW i \in 1 .. Len(t) + 1, NEW j \in 1 .. Len(t) + 1, u[i] = u[j]
                 PROVE  i = j
      BY <2>2
    <3>1. CASE i \in 1 .. Len(t) /\ j \in 1 .. Len(t)
      BY <2>2, <3>1 DEF Enumerates
    <3>2. i = Len(t) + 1 \/ i \in 1 .. Len(t)
      BY <2>2
    <3>3. j = Len(t) + 1 \/ j \in 1 .. Len(t)
      BY <2>2
    <3> HIDE DEF a
    <3> QED
      BY <2>2, <2>4, <3>1, <3>2, <3>3
  <2>8. Enumerates(u, n + 1)
    BY <2>2, <2>3, <2>5, <2>6, <2>7 DEF Enumerates
  <2> QED
    BY <2>2, <2>8 DEF u
<1>2. ~ Present(Tried(n)) => Enumerates(t, n + 1)
  BY FoundNext DEF Enumerates
<1> QED
  BY <1>1, <1>2

LEMMA FillStep ==
    ASSUME IInv, fill_table
    PROVE  IInv'
<1>1. /\ pc = "fill" /\ TypeOK /\ Types /\ pci_devices_amount = All /\ size = All
      /\ Enumerates(pci_devices_address, pos)
      /\ disk_found_ahci_addr = <<>> /\ scans \in {0, 1}
      /\ UNCHANGED <<devices, size, disk_found_ahci_addr>>
  BY TypesOfTypeOK DEF IInv, Searching, fill_table
<1>2. \A n : Found(n)' = Found(n)
  BY <1>1 DEF Found, Present
<1>3. ASSUME NEW t, NEW n, Enumerates(t, n), pci_devices_address' = t, pos' = n
      PROVE  Enumerates(pci_devices_address, pos)'
  BY <1>2, <1>3 DEF Enumerates
<1>5. CASE pos < ScanLength
  <2>1. pos \in 0 .. ScanLength - 1 /\ pos \in Nat
    BY <1>1, <1>5, ScanLengthNat DEF Types
  <2>2. /\ pos' = pos + 1 /\ pc' = "fill" /\ UNCHANGED <<scans, pci_devices_amount>>
        /\ pci_devices_address' = IF Present(Tried(pos))
                                  THEN Append(pci_devices_address, Tried(pos))
                                  ELSE pci_devices_address
    BY <1>1, <1>5 DEF fill_table
  <2> DEFINE t == pci_devices_address'
  <2>3. t \in Seq(Addresses) /\ Enumerates(t, pos + 1)
    <3>1. CASE Present(Tried(pos))
      BY <1>1, <2>1, <2>2, <3>1, EnumeratesNext DEF Types
    <3>2. CASE ~ Present(Tried(pos))
      BY <1>1, <2>1, <2>2, <3>2, EnumeratesNext DEF Types
    <3> QED
      BY <3>1, <3>2
  <2>4. Enumerates(pci_devices_address, pos)'
    BY <1>3, <2>2, <2>3
  <2>5. Len(t) <= size
    <3>1. pos + 1 \in 0 .. ScanLength
      BY <2>1, ScanLengthNat
    <3>2. Len(t) = Cardinality(Found(pos + 1))
      BY <2>3 DEF Enumerates
    <3> QED
      BY <1>1, <3>1, <3>2, FoundCount
  <2>6. TypeOK'
    <3>1. pos' \in 0 .. ScanLength
      BY <2>1, <2>2, ScanLengthNat
    <3> QED
      BY <1>1, <2>2, <2>3, <2>5, <3>1 DEF TypeOK, Addresses
  <2>7. pci_devices_amount' = All' /\ size' = All'
    BY <1>1, <1>2, <2>2 DEF All
  <2> QED
    BY <1>1, <2>2, <2>4, <2>6, <2>7 DEF IInv, Searching
<1>6. CASE ~ pos < ScanLength
  <2>1. pos = ScanLength
    BY <1>1, <1>6, ScanLengthNat DEF Types
  <2>2. scans' = scans + 1 /\ pos' = 0 /\ UNCHANGED pci_devices_address
    BY <1>6 DEF fill_table, rescan
  <2>3. CASE scans = 0
    <3>1. pc' = "count" /\ pci_devices_amount' = 0
      BY <1>6, <2>3 DEF fill_table, rescan
    <3>2. TypeOK'
      BY <1>1, <2>2, <2>3, <3>1, ScanLengthNat DEF TypeOK
    <3>3. pci_devices_amount' = Cardinality(Found(pos)')
      BY <1>2, <2>2, <3>1, FoundNone
    <3> QED
      BY <1>1, <2>2, <2>3, <3>1, <3>2, <3>3 DEF IInv, Searching
  <2>4. CASE scans # 0
    <3>1. pc' = "search" /\ UNCHANGED pci_devices_amount
      BY <1>6, <2>4 DEF fill_table
    <3>2. TypeOK'
      BY <1>1, <2>2, <2>4, <3>1, ScanLengthNat DEF TypeOK
    <3>3. pci_devices_amount' = All' /\ size' = All'
      BY <1>1, <1>2, <3>1 DEF All
    <3>4. Enumerates(pci_devices_address, ScanLength)'
      BY <1>1, <1>2, <2>1, <2>2 DEF Enumerates
    <3>5. Filters(disk_found_ahci_addr, pci_devices_address, pos)'
      BY <1>1, <2>2 DEF Filters
    <3>6. pos' <= All'
      <4>1. All \in Nat /\ All' = All
        BY <1>1, <1>2, ScanLengthNat DEF Types, All
      <4> QED
        BY <2>2, <4>1
    <3>7. Len(disk_found_ahci_addr') < DISK_MAX_AHCI
      BY <1>1, Sizes
    <3> QED
      BY <3>1, <3>2, <3>3, <3>4, <3>5, <3>6, <3>7 DEF IInv, Searching
  <2> QED
    BY <2>3, <2>4
<1> QED
  BY <1>5, <1>6

-----------------------------------------------------------------------------
(* The search.                                                             *)

\* A place of the table holds an address as disk_searchDisks decodes it.
LEMMA EntryDecoded ==
    ASSUME NEW a \in Addresses
    PROVE  Decoded(a) = a
  BY DEF Decoded, Addresses

LEMMA SearchStep ==
    ASSUME IInv, search_entry
    PROVE  IInv'
<1> DEFINE t == pci_devices_address
           f == disk_found_ahci_addr
           entry == t[pos + 1]
<1>1. /\ pc = "search" /\ TypeOK /\ Types /\ pci_devices_amount = All /\ size = All
      /\ Enumerates(t, ScanLength) /\ Filters(f, t, pos) /\ Len(f) < DISK_MAX_AHCI
      /\ pos < All
      /\ UNCHANGED <<devices, scans, pci_devices_amount, size, pci_devices_address>>
  BY TypesOfTypeOK DEF IInv, Searching, search_entry
<1>2. \A n : Found(n)' = Found(n)
  BY <1>1 DEF Found, Present
<1>3. pci_devices_amount' = All' /\ size' = All' /\ All' = All
  BY <1>1, <1>2 DEF All
<1>4. Enumerates(t, ScanLength)'
  BY <1>1, <1>2 DEF Enumerates
<1>5. /\ pos \in Nat /\ All \in 0 .. ScanLength /\ pos + 1 \in 1 .. All
      /\ pos + 1 <= All /\ pos + 1 \in 0 .. ScanLength
  <2>1. pos \in Nat /\ All \in 0 .. ScanLength
    BY <1>1, ScanLengthNat, FoundCount DEF Types
  <2> QED
    BY <1>1, <2>1, ScanLengthNat
<1>6. DOMAIN t = 1 .. All /\ entry \in Addresses /\ Decoded(entry) = entry
  <2>1. t \in Seq(Addresses) /\ Len(t) = All
    BY <1>1 DEF Types, Enumerates, All
  <2> QED
    BY <1>5, <2>1, LenProperties, ElementOfSeq, EntryDecoded
<1>7. f \in Seq(Addresses) /\ DOMAIN f = 1 .. Len(f) /\ Len(f) \in Nat
  BY <1>1, LenProperties DEF Types
<1>8. ASSUME NEW i  PROVE i \in 1 .. pos + 1 <=> i \in 1 .. pos \/ i = pos + 1
  BY <1>5
<1> HIDE DEF entry
<1>9. CASE IsAhci(Decoded(entry)) /\ TooMany /\ pc' = "halt" /\ UNCHANGED <<pos, disk_found_ahci_addr>>
  <2>1. TypeOK'
    BY <1>1, <1>9 DEF TypeOK
  <2>2. Filters(f, t, pos)'
    BY <1>1, <1>9 DEF Filters, IsAhci
  <2> QED
    BY <1>1, <1>3, <1>4, <1>9, <2>1, <2>2 DEF IInv, Searching
<1>10. CASE /\ IsAhci(Decoded(entry)) /\ ~ TooMany /\ f' = Append(f, entry)
            /\ pos' = pos + 1 /\ pc' = pc
  <2> DEFINE g == Append(f, entry)
  <2>1. /\ g \in Seq(Addresses) /\ Len(g) = Len(f) + 1 /\ DOMAIN g = 1 .. Len(f) + 1
        /\ \A n \in 1 .. Len(f) : g[n] = f[n]
        /\ g[Len(f) + 1] = entry
    BY <1>6, <1>7, AppendProperties, LenProperties
  <2>2. Len(g) < DISK_MAX_AHCI
    BY <1>1, <1>7, <1>10, <2>1, Sizes DEF TooMany
  <2> HIDE DEF g
  <2>3. \A n \in 1 .. Len(f) : f[n] # entry
    <3> SUFFICES ASSUME NEW n \in 1 .. Len(f), f[n] = entry  PROVE FALSE
      OBVIOUS
    <3>1. PICK i \in 1 .. pos : t[i] = f[n]
      BY <1>1, <1>7 DEF Filters
    <3>2. t[i] = t[pos + 1] /\ i \in DOMAIN t /\ pos + 1 \in DOMAIN t
      BY <1>5, <1>6, <3>1 DEF entry
    <3>3. i = pos + 1
      BY <1>1, <3>2 DEF Enumerates
    <3> QED
      BY <1>5, <3>1, <3>3
  <2>4. Filters(g, t, pos + 1)
    <3>1. ASSUME NEW i \in 1 .. pos + 1, IsAhci(t[i])
          PROVE  \E n \in DOMAIN g : g[n] = t[i]
      <4>1. CASE i = pos + 1
        <5>1. Len(f) + 1 \in DOMAIN g /\ g[Len(f) + 1] = t[i]
          BY <1>7, <2>1, <4>1 DEF entry
        <5> QED
          BY <5>1
      <4>2. CASE i \in 1 .. pos
        <5>1. PICK n \in 1 .. Len(f) : f[n] = t[i]
          BY <1>1, <1>7, <3>1, <4>2 DEF Filters
        <5>2. n \in DOMAIN g /\ g[n] = t[i]
          BY <1>7, <2>1, <5>1
        <5> QED
          BY <5>2
      <4> QED
        BY <1>8, <4>1, <4>2
    <3>2. ASSUME NEW n \in DOMAIN g
          PROVE  IsAhci(g[n]) /\ \E i \in 1 .. pos + 1 : t[i] = g[n]
      <4>1. n = Len(f) + 1 \/ n \in 1 .. Len(f)
        BY <1>7, <2>1
      <4>2. CASE n = Len(f) + 1
        <5>1. g[n] = entry /\ t[pos + 1] = g[n] /\ pos + 1 \in 1 .. pos + 1
          BY <1>5, <2>1, <4>2 DEF entry
        <5> QED
          BY <1>6, <1>10, <5>1
      <4>3. CASE n \in 1 .. Len(f)
        BY <1>1, <1>7, <1>8, <2>1, <4>3 DEF Filters
      <4> QED
        BY <4>1, <4>2, <4>3
    <3>3. ASSUME NEW m \in DOMAIN g, NEW n \in DOMAIN g, g[m] = g[n]
          PROVE  m = n
      <4>1. n = Len(f) + 1 \/ n \in 1 .. Len(f)
        BY <1>7, <2>1
      <4>2. m = Len(f) + 1 \/ m \in 1 .. Len(f)
        BY <1>7, <2>1
      <4>3. CASE m \in 1 .. Len(f) /\ n \in 1 .. Len(f)
        BY <1>1, <1>7, <2>1, <3>3, <4>3 DEF Filters
      <4> QED
        BY <2>1, <2>3, <3>3, <4>1, <4>2, <4>3
    <3> QED
      BY <3>1, <3>2, <3>3 DEF Filters
  <2>5. Filters(f, t, pos)'
    <3>1. f' = g /\ t' = t /\ pos' = pos + 1 /\ devices' = devices
      BY <1>1, <1>10 DEF g
    <3> QED
      BY <2>4, <3>1 DEF Filters, IsAhci
  <2>6. TypeOK'
    <3>1. f' \in Seq(Addresses) /\ Len(f') < DISK_MAX_AHCI /\ Len(f') \in Nat
      BY <1>7, <1>10, <2>1, <2>2 DEF g
    <3>2. Len(f') <= DISK_MAX_AHCI
      BY <3>1, Sizes
    <3> QED
      BY <1>1, <1>5, <1>10, <3>1, <3>2 DEF TypeOK, Addresses
  <2>7. Len(f') < DISK_MAX_AHCI
    BY <1>10, <2>2 DEF g
  <2>8. pc' = "search"
    BY <1>1, <1>10
  <2>9. pos' <= All'
    BY <1>3, <1>5, <1>10
  <2> QED
    BY <1>3, <1>4, <2>5, <2>6, <2>7, <2>8, <2>9 DEF IInv, Searching
<1>11. CASE ~ IsAhci(Decoded(entry)) /\ pos' = pos + 1 /\ UNCHANGED <<pc, disk_found_ahci_addr>>
  <2>1. TypeOK'
    BY <1>1, <1>5, <1>11 DEF TypeOK
  <2>2. ~ IsAhci(t[pos + 1])
    BY <1>6, <1>11 DEF entry
  <2>3. Filters(f, t, pos + 1)
    BY <1>1, <1>8, <2>2 DEF Filters
  <2>4. Filters(f, t, pos)'
    BY <1>1, <1>11, <2>3 DEF Filters, IsAhci
  <2>5. pos' <= All'
    BY <1>3, <1>5, <1>11
  <2>6. pc' = "search" /\ Len(f') < DISK_MAX_AHCI
    BY <1>1, <1>11
  <2> QED
    BY <1>3, <1>4, <2>1, <2>4, <2>5, <2>6 DEF IInv, Searching
<1> QED
  BY <1>9, <1>10, <1>11 DEF search_entry, entry

LEMMA EndStep ==
    ASSUME IInv, search_end
    PROVE  IInv'
<1>1. /\ pc = "search" /\ TypeOK /\ pos = pci_devices_amount
      /\ pc' \in {"disk_init", "no disk"}
      /\ UNCHANGED <<devices, pos, scans, pci_devices_amount, size, pci_devices_address,
                     disk_found_ahci_addr>>
  BY DEF IInv, search_end
<1>2. TypeOK'
  BY <1>1 DEF TypeOK
<1>3. \A n : Found(n)' = Found(n)
  BY <1>1 DEF Found, Present
<1>4. /\ pci_devices_amount' = All' /\ size' = All' /\ pos' = All' /\ pos' <= All'
      /\ Len(disk_found_ahci_addr') < DISK_MAX_AHCI
  BY <1>1, <1>3 DEF IInv, Searching, All
<1>5. Enumerates(pci_devices_address, ScanLength)'
  BY <1>1, <1>3 DEF IInv, Searching, Enumerates
<1>6. Filters(disk_found_ahci_addr, pci_devices_address, pos)'
  BY <1>1 DEF IInv, Searching, Filters, IsAhci
<1> QED
  BY <1>1, <1>2, <1>4, <1>5, <1>6 DEF IInv, Searching

\* On a machine with room for an unanswered number IInv holds in every state.
THEOREM Inductive ==
    ASSUME SomeSilent
    PROVE  Spec => []IInv
<1>1. IInv /\ [Next]_vars => IInv'
  <2> SUFFICES ASSUME IInv, [Next]_vars  PROVE IInv'
    OBVIOUS
  <2>1. CASE UNCHANGED vars
    <3>1. TypeOK'
      BY <2>1 DEF vars, IInv, TypeOK
    <3>2. /\ All' = All
          /\ Found(pos)' = Found(pos)
          /\ Enumerates(pci_devices_address, pos)' <=> Enumerates(pci_devices_address, pos)
          /\ Enumerates(pci_devices_address, ScanLength)'
                <=> Enumerates(pci_devices_address, ScanLength)
      BY <2>1 DEF vars, All, Found, Present, Enumerates
    <3>3. Filters(disk_found_ahci_addr, pci_devices_address, pos)'
             <=> Filters(disk_found_ahci_addr, pci_devices_address, pos)
      BY <2>1 DEF vars, Filters, IsAhci
    <3> QED
      BY <2>1, <3>1, <3>2, <3>3 DEF vars, IInv, Searching
  <2> QED
    BY <2>1, CountStep, AllocStep, FillStep, SearchStep, EndStep DEF Next
<1> QED
  BY <1>1, InitIInv, PTL DEF Spec

\* Amount, table and list keep their ranges: the list is never full.
THEOREM TypeCorrect ==
    ASSUME SomeSilent
    PROVE  Spec => []TypeOK
<1>1. IInv => TypeOK
  BY DEF IInv
<1> QED
  BY <1>1, Inductive, PTL

\* The table disk_searchDisks reads has been written to its last place.
THEOREM TableIsFull ==
    ASSUME SomeSilent
    PROVE  Spec => []TableFull
<1>1. IInv => TableFull
  BY DEF IInv, TableFull, Searching, Enumerates, All
<1> QED
  BY <1>1, Inductive, PTL

-----------------------------------------------------------------------------
(* The controllers.                                                        *)

\* A device answers to its own address, at function 0.
LEMMA OwnAddress ==
    ASSUME TypeOK, NEW d \in devices, d.func = 0
    PROVE  /\ d.bus \in 0 .. BusCount - 1 /\ d.slot \in 0 .. SlotCount - 1
           /\ Answers(d, <<d.bus, d.slot>>, 0)
<1>1. /\ d.bus \in 0 .. BusCount - 1
      /\ d.slot \in 0 .. SlotsPerBus - 1
  BY PciAssumption DEF TypeOK
<1>2. d.slot \in Nat /\ d.slot < SlotsPerBus /\ d.slot \in 0 .. SlotCount - 1
  BY <1>1, Sizes
<1>3. d.slot \div SlotsPerBus = 0 /\ d.slot % SlotsPerBus = d.slot
  BY <1>2, Sizes, DivUnique
<1>4. IsOr(d.bus, d.bus, 0)
  <2>1. \A w \in {1, 2, 4, 8, 16, 32, 64, 128} : ~ HasBit(0, w)
    BY DEF HasBit
  <2> QED
    BY <2>1 DEF IsOr
<1> QED
  BY <1>1, <1>2, <1>3, <1>4 DEF Answers

\* When the search is over the list holds the address of every controller that
\* is function 0 of its device.
LEMMA ListHolds ==
    ASSUME IInv, pc \in {"disk_init", "no disk"}, NEW d \in devices,
           d.ahci, d.func = 0
    PROVE  \E n \in DOMAIN disk_found_ahci_addr : disk_found_ahci_addr[n] = <<d.bus, d.slot>>
<1> DEFINE t == pci_devices_address
           f == disk_found_ahci_addr
<1>1. /\ TypeOK /\ Types /\ pos = All /\ Enumerates(t, ScanLength) /\ Filters(f, t, pos)
  BY TypesOfTypeOK DEF IInv, Searching
<1>2. PICK k \in 0 .. ScanLength - 1 : Tried(k) = <<d.bus, d.slot>>
  BY <1>1, OwnAddress, AddressTried
<1>3. Answers(d, Tried(k), 0)
  BY <1>1, <1>2, OwnAddress
<1>4. k \in Found(ScanLength) /\ IsAhci(Tried(k))
  BY <1>3 DEF Found, Present, IsAhci
<1>5. PICK i \in DOMAIN t : t[i] = Tried(k)
  BY <1>1, <1>4 DEF Enumerates
<1>6. i \in 1 .. pos
  <2>1. DOMAIN t = 1 .. Len(t) /\ Len(t) = All
    BY <1>1, LenProperties DEF Types, Enumerates, All
  <2> QED
    BY <1>1, <2>1
<1>7. PICK n \in DOMAIN f : f[n] = t[i]
  BY <1>1, <1>4, <1>5, <1>6 DEF Filters
<1> QED
  BY <1>2, <1>5, <1>7

\* Whatever answers where the kernel looks, when it goes on to initialise
\* disks or gives up for want of one its list holds the AHCI controllers that
\* are function 0 of their device and nothing else: no other is ever found.
THEOREM ControllersFound ==
    ASSUME SomeSilent
    PROVE  Spec => []FunctionZeroFound
<1>1. IInv => FunctionZeroFound
  <2> DEFINE f == disk_found_ahci_addr
  <2> SUFFICES ASSUME IInv, pc \in {"disk_init", "no disk"}
               PROVE  /\ \A d \in devices : d.ahci =>
                            (d.func = 0 <=> \E n \in DOMAIN f : Answers(d, f[n], 0))
                      /\ \A n \in DOMAIN f : IsAhci(f[n])
    BY DEF FunctionZeroFound
  <2>1. ASSUME NEW d \in devices, d.ahci, d.func = 0
        PROVE  \E n \in DOMAIN f : Answers(d, f[n], 0)
    <3>1. PICK n \in DOMAIN f : f[n] = <<d.bus, d.slot>>
      BY <2>1, ListHolds
    <3>2. Answers(d, <<d.bus, d.slot>>, 0)
      BY <2>1, OwnAddress DEF IInv
    <3> QED
      BY <3>1, <3>2
  <2>2. ASSUME NEW d \in devices, NEW n \in DOMAIN f, Answers(d, f[n], 0)
        PROVE  d.func = 0
    BY <2>2 DEF Answers
  <2>3. \A n \in DOMAIN f : IsAhci(f[n])
    BY DEF IInv, Searching, Filters
  <2> QED
    BY <2>1, <2>2, <2>3
<1> QED
  BY <1>1, Inductive, PTL

\* An 8-bit number without a bit is 0.
LEMMA NoBits ==
    ASSUME NEW a \in 0 .. 255,
           \A w \in {1, 2, 4, 8, 16, 32, 64, 128} : ~ HasBit(a, w)
    PROVE  a = 0
<1>1. a < 128
  BY DEF HasBit
<1>2. a < 64
  BY <1>1 DEF HasBit
<1>3. a < 32
  BY <1>2 DEF HasBit
<1>4. a < 16
  BY <1>3 DEF HasBit
<1>5. a < 8
  BY <1>4 DEF HasBit
<1>6. a < 4
  BY <1>5 DEF HasBit
<1>7. a < 2
  BY <1>6 DEF HasBit
<1> QED
  BY <1>7 DEF HasBit

\* A device on bus 0 answers to no other address than its own: where the slot
\* runs over into the bus, the bus is not 0.
LEMMA BusZeroAddress ==
    ASSUME TypeOK, NEW d \in devices, d.bus = 0, NEW a \in Addresses, Answers(d, a, 0)
    PROVE  a = <<d.bus, d.slot>>
<1> DEFINE q == a[2] \div SlotsPerBus
<1>1. a[1] \in 0 .. BusCount - 1 /\ a[2] \in 0 .. SlotCount - 1 /\ a = <<a[1], a[2]>>
  BY DEF Addresses
<1>2. a[1] \in 0 .. 255 /\ a[2] \in Nat /\ a[2] <= 255
  BY <1>1, Sizes
<1>3. /\ q \in Nat /\ a[2] = SlotsPerBus * q + (a[2] % SlotsPerBus)
      /\ a[2] % SlotsPerBus \in Nat
  BY <1>2, Sizes, DivMod
<1>4. IsOr(0, a[1], q) /\ d.slot = a[2] % SlotsPerBus
  BY DEF Answers
<1> HIDE DEF q
<1>5. q \in 0 .. 255
  <2>1. SlotsPerBus * q >= q
    BY <1>3, Sizes
  <2>2. SlotsPerBus * q \in Nat
    BY <1>3, Sizes
  <2> QED
    BY <1>2, <1>3, <2>1, <2>2
<1>6. \A w \in {1, 2, 4, 8, 16, 32, 64, 128} : ~ HasBit(a[1], w) /\ ~ HasBit(q, w)
  <2>1. \A w \in {1, 2, 4, 8, 16, 32, 64, 128} : ~ HasBit(0, w)
    BY DEF HasBit
  <2> QED
    BY <1>4, <2>1 DEF IsOr
<1>7. a[1] = 0 /\ q = 0
  BY <1>2, <1>5, <1>6, NoBits, SMTT(30)
<1>8. a[2] = d.slot
  BY <1>3, <1>4, <1>7, Sizes
<1> QED
  BY <1>1, <1>7, <1>8

\* A controller on bus 0 is in the list once, so disk_init sets it up once.
THEOREM BusZeroFoundOnce ==
    ASSUME SomeSilent
    PROVE  Spec => []BusZeroOnce
<1>1. IInv => BusZeroOnce
  <2> DEFINE f == disk_found_ahci_addr
  <2> SUFFICES ASSUME IInv, pc = "disk_init", NEW d \in devices, d.ahci, d.bus = 0,
                      d.func = 0
               PROVE  Cardinality({n \in DOMAIN f : Answers(d, f[n], 0)}) = 1
    BY DEF BusZeroOnce
  <2>1. TypeOK /\ f \in Seq(Addresses) /\ \A m, n \in DOMAIN f : f[m] = f[n] => m = n
    BY TypesOfTypeOK DEF IInv, Types, Searching, Filters
  <2>2. PICK n \in DOMAIN f : f[n] = <<d.bus, d.slot>>
    BY ListHolds
  <2>3. Answers(d, f[n], 0)
    BY <2>1, <2>2, OwnAddress
  <2>4. ASSUME NEW m \in DOMAIN f, Answers(d, f[m], 0)  PROVE m = n
    <3>1. f[m] \in Addresses
      BY <2>1, ElementOfSeq, LenProperties
    <3>2. f[m] = f[n]
      BY <2>1, <2>2, <2>4, <3>1, BusZeroAddress
    <3> QED
      BY <2>1, <3>2
  <2>5. {m \in DOMAIN f : Answers(d, f[m], 0)} = {n}
    BY <2>3, <2>4
  <2> QED
    BY <2>5, FS_Singleton
<1> QED
  BY <1>1, Inductive, PTL

=============================================================================
