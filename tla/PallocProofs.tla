---------------------------- MODULE PallocProofs ----------------------------
(***************************************************************************)
(* What the page-frame allocator keeps true on every memory map, for every *)
(* size of the kernel image and every request: theorems about Palloc.      *)
(***************************************************************************)
EXTENDS Palloc, FiniteSetTheorems, TLAPS

-----------------------------------------------------------------------------
(* Sums.                                                                   *)

\* The numbers below n.
LEMMA BelowFinite ==
    ASSUME NEW n \in Nat
    PROVE  IsFiniteSet(0 .. n - 1) /\ Cardinality(0 .. n - 1) = n
<1>1. 0 \in Int /\ n - 1 \in Int
  OBVIOUS
<1>2. /\ IsFiniteSet(0 .. n - 1)
      /\ Cardinality(0 .. n - 1) = IF 0 > n - 1 THEN 0 ELSE (n - 1) - 0 + 1
  BY <1>1, FS_Interval
<1> QED
  BY <1>2

\* The pairs that Total counts, and how they grow with the set.
LEMMA SlotsFinite ==
    ASSUME NEW D, IsFiniteSet(D), NEW w, \A d \in D : w[d] \in Nat
    PROVE  IsFiniteSet(UNION {{d} \X (0 .. w[d] - 1) : d \in D})
<1> DEFINE Slot(d) == {d} \X (0 .. w[d] - 1)
           Slots == {Slot(d) : d \in D}
           f == [d \in D |-> Slot(d)]
<1>1. f \in Surjection(D, Slots)
  BY DEF Surjection
<1>2. IsFiniteSet(Slots)
  BY <1>1, FS_Surjection
<1>3. \A T \in Slots : IsFiniteSet(T)
  <2>1. SUFFICES ASSUME NEW d \in D  PROVE IsFiniteSet(Slot(d))
    OBVIOUS
  <2>2. IsFiniteSet(0 .. w[d] - 1)
    BY BelowFinite
  <2>3. IsFiniteSet({d})
    BY FS_Singleton
  <2> QED
    BY <2>2, <2>3, FS_Product
<1> QED
  BY <1>2, <1>3, FS_UNION

\* A sum of natural numbers is one.
LEMMA TotalNat ==
    ASSUME NEW D, IsFiniteSet(D), NEW w, \A d \in D : w[d] \in Nat
    PROVE  Total(D, w) \in Nat
BY SlotsFinite, FS_CardinalityType DEF Total

\* A sum over D and one more element x is at most the sum over a set that
\* contains both.
LEMMA TotalGrows ==
    ASSUME NEW D, NEW E, IsFiniteSet(E), NEW x \in E, x \notin D, D \subseteq E,
           NEW w, \A d \in E : w[d] \in Nat
    PROVE  Total(D, w) + w[x] <= Total(E, w)
<1> DEFINE Slots(S) == UNION {{d} \X (0 .. w[d] - 1) : d \in S}
           Slot == {x} \X (0 .. w[x] - 1)
<1>1. IsFiniteSet(D)
  BY FS_Subset
<1>2. IsFiniteSet(Slots(D)) /\ IsFiniteSet(Slots(E))
  BY <1>1, SlotsFinite
<1>3. IsFiniteSet(Slot) /\ Cardinality(Slot) = w[x]
  <2>1. w[x] \in Nat
    OBVIOUS
  <2>2. IsFiniteSet(0 .. w[x] - 1) /\ Cardinality(0 .. w[x] - 1) = w[x]
    BY <2>1, BelowFinite
  <2>3. IsFiniteSet({x}) /\ Cardinality({x}) = 1
    BY FS_Singleton
  <2>4. /\ IsFiniteSet(Slot)
        /\ Cardinality(Slot) = Cardinality({x}) * Cardinality(0 .. w[x] - 1)
    BY <2>2, <2>3, FS_Product
  <2>5. 1 * w[x] = w[x]
    BY <2>1
  <2> QED
    BY <2>2, <2>3, <2>4, <2>5
<1>4. Slots(D) \cap Slot = {}
  OBVIOUS
<1>5. Slots(D) \cup Slot \subseteq Slots(E)
  OBVIOUS
<1>6. Cardinality(Slots(D) \cup Slot) = Cardinality(Slots(D)) + w[x]
  <2>1. Cardinality({}) = 0
    BY FS_EmptySet
  <2>2. Cardinality(Slots(D)) \in Nat
    BY <1>2, FS_CardinalityType
  <2>3. Cardinality(Slots(D) \cup Slot)
          = Cardinality(Slots(D)) + Cardinality(Slot) - Cardinality(Slots(D) \cap Slot)
    BY <1>2, <1>3, FS_Union
  <2> QED
    BY <1>3, <1>4, <2>1, <2>2, <2>3
<1>7. Cardinality(Slots(D) \cup Slot) <= Cardinality(Slots(E))
  BY <1>2, <1>5, FS_Subset
<1> QED
  BY <1>6, <1>7 DEF Total

-----------------------------------------------------------------------------
(* The layout of the table.                                                *)

\* What the assumptions say of one entry of the map.
LEMMA EntryNat ==
    ASSUME NEW e \in Indices
    PROVE  /\ base(e) \in Nat
           /\ pages(e) \in Nat
           /\ TableBytes(e) \in Nat
           /\ 8 * TableBytes(e) <= pages(e)
           /\ ScannedBits(e) \in Nat
           /\ ScannedBits(e) <= TableBytes(e)
<1>1. memorymap[e] \in [base : Nat, pages : Nat, type : Nat]
  <2> DEFINE Rec == [base : Nat, pages : Nat, type : Nat]
  <2>1. memorymap \in Seq(Rec)
    BY MapAssumption
  <2>2. e \in 1 .. Len(memorymap)
    BY DEF Indices
  <2> HIDE DEF Rec
  <2>3. memorymap[e] \in Rec
    BY <2>1, <2>2
  <2> QED
    BY <2>3 DEF Rec
<1>2. base(e) \in Nat /\ pages(e) \in Nat
  BY <1>1 DEF base, pages
<1>3. TableBytes(e) \in Nat /\ 8 * TableBytes(e) <= pages(e)
  BY <1>2 DEF TableBytes
<1> QED
  BY <1>2, <1>3 DEF ScannedBits

LEMMA RamEntriesFinite == IsFiniteSet(RamEntries) /\ RamEntries \subseteq Indices
<1>1. Len(memorymap) \in Nat
  BY MapAssumption
<1>2. IsFiniteSet(1 .. Len(memorymap))
  BY <1>1, FS_Interval
<1> QED
  BY <1>2, FS_Subset DEF RamEntries, Indices

\* The entries' parts of the table follow one another.
LEMMA EntryOrder ==
    /\ \A e \in RamEntries : tbl_entry_start(e) \in Nat
    /\ \A e, f \in RamEntries :
          e < f => tbl_entry_start(e) + TableBytes(e) <= tbl_entry_start(f)
<1> DEFINE w == [d \in Indices |-> TableBytes(d)]
           Before(e) == RamEntries \cap (1 .. e - 1)
<1>1. \A d \in Indices : w[d] \in Nat
  BY EntryNat
<1>2. \A e : IsFiniteSet(Before(e)) /\ Before(e) \subseteq Indices
  BY RamEntriesFinite, FS_Subset
<1>3. \A e : Total(Before(e), w) \in Nat
  BY <1>1, <1>2, TotalNat
<1>4. ASSUME NEW e \in RamEntries, NEW f \in RamEntries, e < f
      PROVE  Total(Before(e), w) + w[e] <= Total(Before(f), w)
  <2>1. e \in Nat /\ f \in Nat
    BY RamEntriesFinite DEF Indices
  <2>2. e \in Before(f) /\ e \notin Before(e) /\ Before(e) \subseteq Before(f)
    BY <1>4, <2>1, RamEntriesFinite DEF Indices
  <2>3. \A d \in Before(f) : w[d] \in Nat
    BY <1>1, <1>2
  <2> HIDE DEF Before, w
  <2> QED
    BY <1>2, <2>2, <2>3, TotalGrows
<1> QED
  BY <1>3, <1>4, RamEntriesFinite DEF tbl_entry_start

\* No two pages share a bit, as long as each has a byte of its entry's own.
LEMMA BitsDiffer ==
    ASSUME NEW e \in RamEntries, NEW f \in RamEntries,
           NEW s \in 0 .. 8 * TableBytes(e) - 1, NEW t \in 0 .. 8 * TableBytes(f) - 1,
           8 * tbl_entry_start(e) + s = 8 * tbl_entry_start(f) + t
    PROVE  e = f /\ s = t
<1>1. e \in Indices /\ f \in Indices /\ e \in Nat /\ f \in Nat
  BY RamEntriesFinite DEF Indices
<1>2. /\ TableBytes(e) \in Nat
      /\ TableBytes(f) \in Nat
      /\ tbl_entry_start(e) \in Nat
      /\ tbl_entry_start(f) \in Nat
  BY <1>1, EntryNat, EntryOrder
<1>3. ~ e < f
  <2>1. e < f => tbl_entry_start(e) + TableBytes(e) <= tbl_entry_start(f)
    BY EntryOrder
  <2> QED
    BY <1>2, <2>1
<1>4. ~ f < e
  <2>1. f < e => tbl_entry_start(f) + TableBytes(f) <= tbl_entry_start(e)
    BY EntryOrder
  <2> QED
    BY <1>2, <2>1
<1>5. e = f
  BY <1>1, <1>3, <1>4
<1> QED
  BY <1>2, <1>5

\* No frame lies in two RAM entries.
LEMMA EntriesDiffer ==
    ASSUME NEW e \in RamEntries, NEW f \in RamEntries, NEW x \in Int,
           base(e) <= x, x < base(e) + pages(e),
           base(f) <= x, x < base(f) + pages(f)
    PROVE  e = f
<1>1. e \in Indices /\ f \in Indices
  BY RamEntriesFinite
<1>2. x \in Frames(base(e), pages(e)) /\ x \in Frames(base(f), pages(f))
  BY <1>1, EntryNat DEF Frames
<1> QED
  BY <1>2, MapAssumption

\* The bits of a run of one entry are the bits of its frames.
LEMMA RunBits ==
    ASSUME NEW e \in RamEntries, NEW k \in Nat, NEW n \in Nat, k + n <= 8 * TableBytes(e),
           NEW f \in RamEntries, NEW t \in 0 .. 8 * TableBytes(f) - 1
    PROVE  8 * tbl_entry_start(f) + t \in Bits(e, k, n)
             <=> base(f) + t \in Frames(base(e) + k, n)
<1>1. /\ base(e) \in Nat /\ pages(e) \in Nat /\ TableBytes(e) \in Nat
      /\ 8 * TableBytes(e) <= pages(e)
      /\ base(f) \in Nat /\ pages(f) \in Nat /\ TableBytes(f) \in Nat
      /\ 8 * TableBytes(f) <= pages(f)
      /\ tbl_entry_start(e) \in Nat /\ tbl_entry_start(f) \in Nat
      /\ t \in Nat /\ t < 8 * TableBytes(f)
  BY RamEntriesFinite, EntryNat, EntryOrder
<1>2. ASSUME 8 * tbl_entry_start(f) + t \in Bits(e, k, n)
      PROVE  base(f) + t \in Frames(base(e) + k, n)
  <2> DEFINE u == 8 * tbl_entry_start(f) + t - 8 * tbl_entry_start(e)
  <2>1. /\ 8 * tbl_entry_start(e) + k <= 8 * tbl_entry_start(f) + t
        /\ 8 * tbl_entry_start(f) + t <= 8 * tbl_entry_start(e) + k + n - 1
    BY <1>2 DEF Bits
  <2>2. u \in Int /\ 8 * tbl_entry_start(f) + t = 8 * tbl_entry_start(e) + u
    BY <1>1
  <2> HIDE DEF u
  <2>3. u \in k .. k + n - 1 /\ u \in 0 .. 8 * TableBytes(e) - 1
    BY <1>1, <2>1, <2>2
  <2>4. e = f /\ t = u
    BY <2>2, <2>3, BitsDiffer
  <2> QED
    BY <1>1, <2>3, <2>4 DEF Frames
<1>3. ASSUME base(f) + t \in Frames(base(e) + k, n)
      PROVE  8 * tbl_entry_start(f) + t \in Bits(e, k, n)
  <2>1. base(e) + k <= base(f) + t /\ base(f) + t <= base(e) + k + n - 1
    BY <1>3 DEF Frames
  <2>2. e = f
    BY <1>1, <2>1, EntriesDiffer
  <2> QED
    BY <1>1, <2>1, <2>2 DEF Bits
<1> QED
  BY <1>2, <1>3

-----------------------------------------------------------------------------
(* The inductive invariant.                                                *)

\* Every granted run lies in the part of one RAM entry that has bits.
GrantedHasBits ==
    \A r \in granted :
        /\ r.pages > 0
        /\ \E e \in RamEntries :
              /\ base(e) <= r.addr
              /\ r.addr + r.pages <= base(e) + 8 * TableBytes(e)

\* The bit of a page that is the kernel's or granted is 0.
TakenIsZero ==
    status = "ready" =>
        \A e \in RamEntries : \A s \in 0 .. 8 * TableBytes(e) - 1 :
            base(e) + s \in KernelFrames \cup GrantedFrames
              => 8 * tbl_entry_start(e) + s \notin tbl

IInv ==
    /\ TypeOK
    /\ status # "ready" => granted = {}
    /\ GrantedHasBits
    /\ NoDoubleGrant
    /\ KernelNeverGranted
    /\ TakenIsZero

LEMMA PallocSizeNat == mem_palloc_size \in Nat
<1> DEFINE w == [d \in Indices |-> pages(d)]
           D == RamEntries \ {Len(memorymap)}
<1>1. \A d \in D : w[d] \in Nat
  BY EntryNat, RamEntriesFinite
<1>2. IsFiniteSet(D)
  BY RamEntriesFinite, FS_Subset
<1>3. Total(D, w) \in Nat
  <2> HIDE DEF D, w
  <2> QED
    BY <1>1, <1>2, TotalNat
<1> QED
  BY <1>3 DEF mem_palloc_size

LEMMA InitIInv == Init => IInv
<1> SUFFICES ASSUME Init  PROVE IInv
  OBVIOUS
<1> USE DEF Init
<1>1. TypeOK
  BY SizeAssumption DEF TypeOK, Returned, OK
<1> QED
  BY <1>1 DEF IInv, GrantedHasBits, NoDoubleGrant, KernelNeverGranted, TakenIsZero

LEMMA mem_palloc_initIInv == IInv /\ mem_palloc_init => IInv'
<1> SUFFICES ASSUME IInv, mem_palloc_init  PROVE IInv'
  OBVIOUS
<1>1. granted = {} /\ granted' = {} /\ ret' = ret
  BY DEF IInv, mem_palloc_init
<1>2. endofkernel' \in Nat
  <2>1. endofkernel' = endofkernel + (mem_palloc_size + 1) \div PageBytes + 1
    BY DEF mem_palloc_init, KernelEndBehindTable
  <2>2. (mem_palloc_size + 1) \div PageBytes \in Nat
    BY PallocSizeNat, SizeAssumption
  <2> QED
    BY <2>1, <2>2 DEF IInv, TypeOK
<1>3. tbl' \subseteq Nat
  <2>1. TableBits \subseteq Nat
    BY PallocSizeNat DEF TableBits
  <2>2. tbl' \subseteq tbl \cup TableBits
    BY DEF mem_palloc_init
  <2> QED
    BY <2>1, <2>2 DEF IInv, TypeOK
<1>4. TypeOK'
  BY <1>1, <1>2, <1>3 DEF IInv, TypeOK, mem_palloc_init
<1>5. TakenIsZero'
  <2> SUFFICES ASSUME status' = "ready",
                      NEW e \in RamEntries, NEW s \in 0 .. 8 * TableBytes(e) - 1,
                      base(e) + s \in KernelFrames'
               PROVE  8 * tbl_entry_start(e) + s \notin tbl'
    BY <1>1 DEF TakenIsZero, GrantedFrames
  <2>1. PICK d \in RamEntries :
           /\ Matches(d, KernelLoad, endofkernel')
           /\ tbl' = (tbl \cup TableBits) \ Bits(d, KernelLoad - base(d), endofkernel')
    BY DEF mem_palloc_init
  <2>2. e \in Indices /\ d \in Indices
    BY RamEntriesFinite
  <2>3. /\ base(d) \in Nat
        /\ pages(d) \in Nat
        /\ base(e) \in Nat
        /\ pages(e) \in Nat
        /\ TableBytes(e) \in Nat
        /\ 8 * TableBytes(e) <= pages(e)
        /\ KernelLoad \in Nat
    BY <2>2, EntryNat, SizeAssumption
  <2>4. /\ base(d) <= KernelLoad
        /\ base(d) + pages(d) >= KernelLoad + endofkernel'
    BY <2>1 DEF Matches, Inside
  <2>5. /\ base(e) + s \in Int
        /\ KernelLoad <= base(e) + s
        /\ base(e) + s <= KernelLoad + endofkernel' - 1
    BY <2>3, <1>2 DEF KernelFrames, Frames
  <2>6. e = d
    BY <2>3, <2>4, <2>5, <1>2, EntriesDiffer
  <2>7. tbl_entry_start(e) \in Nat
    BY EntryOrder
  <2>8. 8 * tbl_entry_start(e) + s \in Bits(d, KernelLoad - base(d), endofkernel')
    BY <2>3, <2>4, <2>5, <2>6, <2>7, <1>2 DEF Bits
  <2> QED
    BY <2>1, <2>8
<1> QED
  BY <1>1, <1>4, <1>5
  DEF IInv, GrantedHasBits, NoDoubleGrant, KernelNeverGranted, GrantedFrames

LEMMA mem_pallocIInv ==
    ASSUME IInv, NEW n \in RequestSizes, mem_palloc(n)
    PROVE  IInv'
<1>1. /\ status = "ready"
      /\ status' = status
      /\ endofkernel' = endofkernel
      /\ endofkernel \in Nat
      /\ tbl \subseteq Nat
      /\ granted \subseteq Runs
      /\ n \in Nat
  BY SizeAssumption DEF mem_palloc, IInv, TypeOK
<1>2. ret' \in [call : {"none", "mem_palloc", "mem_pfree"}, pages : Nat, code : {0, 1}]
  BY <1>1 DEF mem_palloc, Returned, OK, NO_SPACE
<1>3. KernelFrames' = KernelFrames
  BY <1>1 DEF KernelFrames
<1>4. ASSUME NEW e \in RamEntries, NEW s \in Starts(e), FirstRun(e, s, n),
             tbl' = tbl \ Bits(e, s, n),
             granted' = granted \cup {[addr |-> PageAddr(e, s), pages |-> n]}
      PROVE  IInv'
  <2> DEFINE r0 == [addr |-> base(e) + s, pages |-> n]
             F0 == Frames(base(e) + s, n)
  <2>1. /\ e \in Indices
        /\ base(e) \in Nat
        /\ pages(e) \in Nat
        /\ TableBytes(e) \in Nat
        /\ 8 * TableBytes(e) <= pages(e)
        /\ ScannedBits(e) \in Nat
        /\ ScannedBits(e) <= TableBytes(e)
        /\ tbl_entry_start(e) \in Nat
    BY RamEntriesFinite, EntryNat, EntryOrder
  <2>2. /\ s \in Nat
        /\ n > 0
        /\ s + n <= 8 * TableBytes(e)
        /\ Bits(e, s, n) \subseteq tbl
    BY <1>1, <1>4, <2>1 DEF FirstRun, IsRun, Starts
  <2>3. granted' = granted \cup {r0} /\ r0 \in Runs
    BY <1>1, <1>4, <2>1, <2>2 DEF PageAddr, Runs
  <2>4. GrantedFrames' = GrantedFrames \cup F0
    BY <2>3 DEF GrantedFrames
  <2>5. \A x \in F0 : x \notin KernelFrames \cup GrantedFrames
    <3> SUFFICES ASSUME NEW x \in F0  PROVE x \notin KernelFrames \cup GrantedFrames
      OBVIOUS
    <3> DEFINE t == x - base(e)
    <3>1. x = base(e) + t /\ t \in s .. s + n - 1 /\ t \in 0 .. 8 * TableBytes(e) - 1
      BY <1>1, <2>1, <2>2 DEF Frames
    <3>2. 8 * tbl_entry_start(e) + t \in tbl
      BY <1>1, <2>1, <2>2, <3>1 DEF Bits
    <3> QED
      BY <1>1, <3>1, <3>2 DEF IInv, TakenIsZero
  <2>6. TypeOK'
    BY <1>1, <1>2, <1>4, <2>3 DEF TypeOK
  <2>7. GrantedHasBits'
    <3>1. /\ r0.pages > 0
          /\ base(e) <= r0.addr
          /\ r0.addr + r0.pages <= base(e) + 8 * TableBytes(e)
      BY <1>1, <2>1, <2>2
    <3> QED
      BY <2>3, <3>1 DEF IInv, GrantedHasBits
  <2>8. NoDoubleGrant'
    <3>1. \A q \in granted : Frames(q.addr, q.pages) \cap F0 = {}
      BY <2>5 DEF GrantedFrames
    <3>2. Frames(r0.addr, r0.pages) = F0
      OBVIOUS
    <3> QED
      BY <2>3, <3>1, <3>2 DEF IInv, NoDoubleGrant
  <2>9. KernelNeverGranted'
    BY <1>1, <1>3, <2>4, <2>5 DEF IInv, KernelNeverGranted
  <2>10. TakenIsZero'
    <3> SUFFICES ASSUME NEW f \in RamEntries, NEW t \in 0 .. 8 * TableBytes(f) - 1,
                        base(f) + t \in KernelFrames' \cup GrantedFrames'
                 PROVE  8 * tbl_entry_start(f) + t \notin tbl'
      BY DEF TakenIsZero
    <3>1. CASE base(f) + t \in KernelFrames \cup GrantedFrames
      BY <1>1, <1>4, <3>1 DEF IInv, TakenIsZero
    <3>2. CASE base(f) + t \in F0
      <4>1. /\ f \in Indices
            /\ base(f) \in Nat
            /\ pages(f) \in Nat
            /\ TableBytes(f) \in Nat
            /\ 8 * TableBytes(f) <= pages(f)
        BY RamEntriesFinite, EntryNat
      <4>2. f = e
        BY <1>1, <2>1, <2>2, <3>2, <4>1, EntriesDiffer DEF Frames
      <4>3. t \in s .. s + n - 1
        BY <1>1, <2>1, <2>2, <3>2, <4>1, <4>2 DEF Frames
      <4> QED
        BY <1>1, <1>4, <2>1, <2>2, <4>2, <4>3 DEF Bits
    <3> QED
      BY <1>3, <2>4, <3>1, <3>2
  <2> QED
    BY <1>1, <2>6, <2>7, <2>8, <2>9, <2>10 DEF IInv
<1>5. ASSUME UNCHANGED <<tbl, granted>>
      PROVE  IInv'
  <2>1. TypeOK'
    BY <1>1, <1>2, <1>5 DEF TypeOK
  <2> QED
    BY <1>1, <1>5, <2>1
    DEF IInv, GrantedHasBits, NoDoubleGrant, KernelNeverGranted, TakenIsZero,
        KernelFrames, GrantedFrames
<1> QED
  BY <1>4, <1>5 DEF mem_palloc

\* mem_pfree sets bits of the frames it is given and of no others, provided
\* that these frames have bits of their own.
LEMMA SetBitsLocal ==
    ASSUME NEW addr \in Nat, NEW n \in Nat, SetBits(addr, n), tbl \subseteq Nat,
           \A e \in RamEntries :
               Matches(e, addr, n) => addr + n <= base(e) + 8 * TableBytes(e)
    PROVE  /\ tbl' \subseteq Nat
           /\ ret' \in [call : {"none", "mem_palloc", "mem_pfree"}, pages : Nat, code : {0, 1}]
           /\ \A e \in RamEntries : \A s \in 0 .. 8 * TableBytes(e) - 1 :
                 8 * tbl_entry_start(e) + s \in tbl'
                   => \/ 8 * tbl_entry_start(e) + s \in tbl
                      \/ base(e) + s \in Frames(addr, n)
<1>1. CASE tbl' = tbl /\ ret' = Returned("mem_pfree", n, NO_MATCHES)
  BY <1>1 DEF Returned, NO_MATCHES
<1>2. ASSUME NEW d \in RamEntries, Matches(d, addr, n), tbl' = tbl \cup FreedBits(d, addr, n)
      PROVE  /\ tbl' \subseteq Nat
             /\ \A e \in RamEntries : \A s \in 0 .. 8 * TableBytes(e) - 1 :
                   8 * tbl_entry_start(e) + s \in tbl'
                     => \/ 8 * tbl_entry_start(e) + s \in tbl
                        \/ base(e) + s \in Frames(addr, n)
  <2> DEFINE k == addr - base(d)
  <2>1. /\ base(d) \in Nat
        /\ TableBytes(d) \in Nat
        /\ tbl_entry_start(d) \in Nat
    BY RamEntriesFinite, EntryNat, EntryOrder
  <2>2. k \in Nat /\ k + n <= 8 * TableBytes(d) /\ addr = base(d) + k
    BY <1>2, <2>1 DEF Matches, Inside
  <2>3. FreedBits(d, addr, n) =
          8 * tbl_entry_start(d) + k .. 8 * tbl_entry_start(d) + k + n - 1
    BY DEF FreedBits, Bits
  <2> HIDE DEF k
  <2>4. tbl' \subseteq Nat
    <3>1. FreedBits(d, addr, n) \subseteq Nat
      BY <2>1, <2>2, <2>3
    <3> QED
      BY <1>2, <3>1
  <2>5. ASSUME NEW e \in RamEntries, NEW s \in 0 .. 8 * TableBytes(e) - 1,
               8 * tbl_entry_start(e) + s \in FreedBits(d, addr, n)
        PROVE  base(e) + s \in Frames(addr, n)
    <3> DEFINE t == 8 * tbl_entry_start(e) + s - 8 * tbl_entry_start(d)
    <3>1. tbl_entry_start(e) \in Nat /\ TableBytes(e) \in Nat
      BY RamEntriesFinite, EntryNat, EntryOrder
    <3>2. /\ t \in k .. k + n - 1
          /\ t \in 0 .. 8 * TableBytes(d) - 1
          /\ 8 * tbl_entry_start(e) + s = 8 * tbl_entry_start(d) + t
      <4>1. /\ 8 * tbl_entry_start(d) + k <= 8 * tbl_entry_start(e) + s
            /\ 8 * tbl_entry_start(e) + s <= 8 * tbl_entry_start(d) + k + n - 1
        <5>1. 8 * tbl_entry_start(e) + s
                \in 8 * tbl_entry_start(d) + k .. 8 * tbl_entry_start(d) + k + n - 1
          BY <2>3, <2>5
        <5> QED
          BY <5>1
      <4>2. s \in Nat /\ t \in Int
        BY <2>1, <3>1
      <4>3. /\ 8 * tbl_entry_start(e) + s = 8 * tbl_entry_start(d) + t
            /\ t = 8 * tbl_entry_start(e) + s - 8 * tbl_entry_start(d)
        BY <2>1, <3>1, <4>2
      <4> HIDE DEF t
      <4> QED
        BY <2>1, <2>2, <3>1, <4>1, <4>2, <4>3
    <3>3. e = d /\ s = t
      <4> HIDE DEF t
      <4> QED
        BY <3>2, BitsDiffer
    <3> QED
      BY <2>1, <2>2, <3>2, <3>3 DEF Frames
  <2> QED
    BY <1>2, <2>4, <2>5
<1> QED
  BY <1>1, <1>2 DEF SetBits, Returned, OK, NO_MATCHES

LEMMA mem_pfreeIInv ==
    ASSUME IInv, NEW r \in granted, mem_pfree(r)
    PROVE  IInv'
<1>1. /\ status = "ready"
      /\ status' = status
      /\ endofkernel' = endofkernel
      /\ endofkernel \in Nat
      /\ tbl \subseteq Nat
      /\ granted \subseteq Runs
      /\ granted' = granted \ {r}
      /\ SetBits(r.addr, r.pages)
  BY DEF mem_pfree, IInv, TypeOK
<1>2. r.addr \in Nat /\ r.pages \in Nat
  BY <1>1 DEF Runs
<1>3. ASSUME NEW e \in RamEntries, Matches(e, r.addr, r.pages)
      PROVE  r.addr + r.pages <= base(e) + 8 * TableBytes(e)
  <2>1. PICK d \in RamEntries :
           /\ r.pages > 0
           /\ base(d) <= r.addr
           /\ r.addr + r.pages <= base(d) + 8 * TableBytes(d)
    BY DEF IInv, GrantedHasBits
  <2>2. /\ base(d) \in Nat
        /\ pages(d) \in Nat
        /\ TableBytes(d) \in Nat
        /\ 8 * TableBytes(d) <= pages(d)
        /\ base(e) \in Nat
        /\ pages(e) \in Nat
    BY RamEntriesFinite, EntryNat
  <2>3. base(e) <= r.addr /\ r.addr + r.pages <= base(e) + pages(e)
    BY <1>2, <1>3, <2>2 DEF Matches, Inside
  <2>4. r.addr < base(d) + pages(d) /\ r.addr < base(e) + pages(e)
    BY <1>2, <2>1, <2>2, <2>3
  <2>5. d = e
    BY <1>2, <2>1, <2>3, <2>4, EntriesDiffer
  <2> QED
    BY <2>1, <2>5
<1>4. /\ tbl' \subseteq Nat
      /\ ret' \in [call : {"none", "mem_palloc", "mem_pfree"}, pages : Nat, code : {0, 1}]
      /\ \A e \in RamEntries : \A s \in 0 .. 8 * TableBytes(e) - 1 :
            8 * tbl_entry_start(e) + s \in tbl'
              => \/ 8 * tbl_entry_start(e) + s \in tbl
                 \/ base(e) + s \in Frames(r.addr, r.pages)
  BY <1>1, <1>2, <1>3, SetBitsLocal
<1>5. Frames(r.addr, r.pages) \subseteq GrantedFrames
  BY DEF GrantedFrames
<1>6. GrantedFrames' \subseteq GrantedFrames /\ KernelFrames' = KernelFrames
  BY <1>1 DEF GrantedFrames, KernelFrames
<1>7. Frames(r.addr, r.pages) \cap (KernelFrames' \cup GrantedFrames') = {}
  <2>1. Frames(r.addr, r.pages) \cap GrantedFrames' = {}
    BY <1>1 DEF IInv, NoDoubleGrant, GrantedFrames
  <2>2. Frames(r.addr, r.pages) \cap KernelFrames' = {}
    BY <1>1, <1>5, <1>6 DEF IInv, KernelNeverGranted
  <2> QED
    BY <2>1, <2>2
<1>8. TypeOK'
  BY <1>1, <1>4 DEF TypeOK
<1>9. TakenIsZero'
  <2> SUFFICES ASSUME NEW e \in RamEntries, NEW s \in 0 .. 8 * TableBytes(e) - 1,
                      base(e) + s \in KernelFrames' \cup GrantedFrames'
               PROVE  8 * tbl_entry_start(e) + s \notin tbl'
    BY DEF TakenIsZero
  <2>1. 8 * tbl_entry_start(e) + s \notin tbl
    BY <1>1, <1>6 DEF IInv, TakenIsZero
  <2>2. base(e) + s \notin Frames(r.addr, r.pages)
    BY <1>7
  <2> QED
    BY <1>4, <2>1, <2>2
<1>10. GrantedHasBits' /\ NoDoubleGrant' /\ KernelNeverGranted'
  BY <1>1, <1>6 DEF IInv, GrantedHasBits, NoDoubleGrant, KernelNeverGranted
<1> QED
  BY <1>1, <1>8, <1>9, <1>10 DEF IInv

LEMMA mem_pfree_frameIInv ==
    ASSUME IInv, NEW f \in ForeignFrames, mem_pfree_frame(f)
    PROVE  IInv'
<1>1. /\ status = "ready"
      /\ status' = status
      /\ endofkernel' = endofkernel
      /\ endofkernel \in Nat
      /\ tbl \subseteq Nat
      /\ granted' = granted
      /\ f \notin KernelFrames \cup GrantedFrames
      /\ SetBits(f, 1)
  BY DEF mem_pfree_frame, IInv, TypeOK
<1>2. f \in Nat
  BY ForeignAssumption
<1>3. ASSUME NEW e \in RamEntries, Matches(e, f, 1)
      PROVE  f + 1 <= base(e) + 8 * TableBytes(e)
  <2>1. base(e) \in Nat /\ TableBytes(e) \in Nat
    BY RamEntriesFinite, EntryNat
  <2>2. f - base(e) < 8 * TableBytes(e)
    BY <1>3, ForeignAssumption DEF Matches
  <2> QED
    BY <1>2, <2>1, <2>2
<1>4. /\ tbl' \subseteq Nat
      /\ ret' \in [call : {"none", "mem_palloc", "mem_pfree"}, pages : Nat, code : {0, 1}]
      /\ \A e \in RamEntries : \A s \in 0 .. 8 * TableBytes(e) - 1 :
            8 * tbl_entry_start(e) + s \in tbl'
              => \/ 8 * tbl_entry_start(e) + s \in tbl
                 \/ base(e) + s \in Frames(f, 1)
  BY <1>1, <1>2, <1>3, SetBitsLocal
<1>5. GrantedFrames' = GrantedFrames /\ KernelFrames' = KernelFrames
  BY <1>1 DEF GrantedFrames, KernelFrames
<1>6. TypeOK'
  BY <1>1, <1>4 DEF IInv, TypeOK
<1>7. Frames(f, 1) = {f}
  BY <1>2 DEF Frames
<1>8. TakenIsZero'
  <2> SUFFICES ASSUME NEW e \in RamEntries, NEW s \in 0 .. 8 * TableBytes(e) - 1,
                      base(e) + s \in KernelFrames \cup GrantedFrames
               PROVE  8 * tbl_entry_start(e) + s \notin tbl'
    BY <1>5 DEF TakenIsZero
  <2>1. 8 * tbl_entry_start(e) + s \notin tbl
    BY <1>1 DEF IInv, TakenIsZero
  <2> QED
    BY <1>1, <1>4, <1>7, <2>1
<1> QED
  BY <1>1, <1>5, <1>6, <1>8 DEF IInv, GrantedHasBits, NoDoubleGrant, KernelNeverGranted

-----------------------------------------------------------------------------
(* The theorems.                                                           *)

\* IInv holds in every reachable state of the allocator: calls of
\* mem_palloc_init, mem_palloc and mem_pfree, in any order, keep it.
THEOREM Invariance == Spec => []IInv
<1>1. IInv /\ [Next]_vars => IInv'
  <2> SUFFICES ASSUME IInv, [Next]_vars  PROVE IInv'
    OBVIOUS
  <2>1. CASE mem_palloc_init
    BY <2>1, mem_palloc_initIInv
  <2>2. CASE \E n \in RequestSizes : mem_palloc(n)
    BY <2>2, mem_pallocIInv
  <2>3. CASE \E r \in granted : mem_pfree(r)
    BY <2>3, mem_pfreeIInv
  <2>4. CASE \E f \in ForeignFrames : mem_pfree_frame(f)
    BY <2>4, mem_pfree_frameIInv
  <2>5. CASE UNCHANGED vars
    BY <2>5
    DEF vars, IInv, TypeOK, GrantedHasBits, NoDoubleGrant, KernelNeverGranted,
        TakenIsZero, KernelFrames, GrantedFrames
  <2> QED
    BY <2>1, <2>2, <2>3, <2>4, <2>5 DEF Next
<1> QED
  BY <1>1, InitIInv, PTL DEF Spec

\* The variables keep their types: no bit below the table is ever written.
THEOREM TypeCorrect == Spec => []TypeOK
<1>1. IInv => TypeOK
  BY DEF IInv
<1> QED
  BY <1>1, Invariance, PTL

\* mem_palloc never hands out a frame that some caller still owns.
THEOREM DoubleGrantFree == Spec => []NoDoubleGrant
<1>1. IInv => NoDoubleGrant
  BY DEF IInv
<1> QED
  BY <1>1, Invariance, PTL

\* mem_palloc never hands out a frame of the kernel image or of its table.
THEOREM KernelProtected == Spec => []KernelNeverGranted
<1>1. IInv => KernelNeverGranted
  BY DEF IInv
<1> QED
  BY <1>1, Invariance, PTL

\* Every run mem_palloc hands out lies in one RAM entry of the memory map.
THEOREM OnlyRam == Spec => []GrantedIsRam
<1>1. IInv => GrantedIsRam
  <2> SUFFICES ASSUME IInv, NEW r \in granted
               PROVE  \E e \in RamEntries : Inside(e, r.addr, r.pages)
    BY DEF GrantedIsRam
  <2>1. PICK e \in RamEntries :
           /\ base(e) <= r.addr
           /\ r.addr + r.pages <= base(e) + 8 * TableBytes(e)
    BY DEF IInv, GrantedHasBits
  <2>2. base(e) \in Nat /\ pages(e) \in Nat /\ TableBytes(e) \in Nat
        /\ 8 * TableBytes(e) <= pages(e)
    BY RamEntriesFinite, EntryNat
  <2>3. r.addr \in Nat /\ r.pages \in Nat
    BY DEF IInv, TypeOK, Runs
  <2> QED
    BY <2>1, <2>2, <2>3 DEF Inside
<1> QED
  BY <1>1, Invariance, PTL

-----------------------------------------------------------------------------
(* The table is exact.  Two conditions on the machine are needed: the loop   *)
(* that measures the table stops before the last entry of the map, and an    *)
(* entry's pages behind its last whole byte share bits with the next entry.  *)

\* mem_palloc_size counts every RAM entry.
LastNotRam == Len(memorymap) \notin RamEntries

\* A kernel that fits its entry ends before those last pages.
KernelHasBits ==
    \A n \in ImagePages : \A e \in RamEntries :
        LET m == n + (mem_palloc_size + 1) \div PageBytes + 1
        IN  Inside(e, KernelLoad, m) => KernelLoad + m <= base(e) + 8 * TableBytes(e)

\* Runs are granted where mem_palloc scans.
GrantedScanned ==
    \A r \in granted :
        /\ r.pages > 0
        /\ \E e \in RamEntries :
              /\ base(e) <= r.addr
              /\ r.addr + r.pages <= base(e) + ScannedBits(e)

\* The bit of a free page is 1 where mem_palloc looks.
FreeIsOne ==
    status = "ready" =>
        \A e \in RamEntries : \A s \in Starts(e) :
            base(e) + s \notin KernelFrames \cup GrantedFrames
              => 8 * tbl_entry_start(e) + s \in tbl

ExactInv ==
    /\ IInv
    /\ status = "boot" => endofkernel \in ImagePages
    /\ GrantedScanned
    /\ FreeIsOne

\* A table of an eighth of the pages in bytes has a bit for all of them.
LEMMA TotalEighth ==
    ASSUME NEW D, IsFiniteSet(D), NEW w, NEW v,
           \A d \in D : w[d] \in Nat /\ v[d] \in Nat /\ 8 * w[d] <= v[d]
    PROVE  8 * Total(D, w) <= Total(D, v)
<1> DEFINE P == UNION {{d} \X (0 .. w[d] - 1) : d \in D}
           Q == UNION {{d} \X (0 .. v[d] - 1) : d \in D}
           S == (0 .. 7) \X P
           f == [x \in S |-> <<x[2][1], 8 * x[2][2] + x[1]>>]
<1>1. IsFiniteSet(P) /\ IsFiniteSet(Q)
  BY SlotsFinite
<1>2. IsFiniteSet(0 .. 7) /\ Cardinality(0 .. 7) = 8
  <2>1. 8 \in Nat /\ 8 - 1 = 7
    OBVIOUS
  <2> QED
    BY <2>1, BelowFinite
<1>3. IsFiniteSet(S) /\ Cardinality(S) = 8 * Cardinality(P)
  <2> HIDE DEF P
  <2> QED
    BY <1>1, <1>2, FS_Product
<1>4. \A x \in S : /\ x = <<x[1], x[2]>> /\ x[1] \in 0 .. 7
                   /\ x[2] = <<x[2][1], x[2][2]>>
                   /\ x[2][1] \in D /\ x[2][2] \in 0 .. w[x[2][1]] - 1
  OBVIOUS
<1>5. \A x \in S : f[x] \in Q
  <2> SUFFICES ASSUME NEW x \in S  PROVE f[x] \in Q
    OBVIOUS
  <2> DEFINE d == x[2][1]
             i == x[2][2]
             j == x[1]
  <2>1. d \in D /\ i \in 0 .. w[d] - 1 /\ j \in 0 .. 7
    BY <1>4
  <2>2. f[x] = <<d, 8 * i + j>>
    OBVIOUS
  <2> HIDE DEF d, i, j, f
  <2>3. 8 * i + j \in 0 .. v[d] - 1
    BY <2>1
  <2> QED
    BY <2>1, <2>2, <2>3
<1>6. \A x, y \in S : f[x] = f[y] => x = y
  <2> SUFFICES ASSUME NEW x \in S, NEW y \in S, f[x] = f[y]  PROVE x = y
    OBVIOUS
  <2>1. x[2][1] = y[2][1] /\ 8 * x[2][2] + x[1] = 8 * y[2][2] + y[1]
    OBVIOUS
  <2>2. /\ x[2][2] \in Nat /\ x[1] \in 0 .. 7
        /\ y[2][2] \in Nat /\ y[1] \in 0 .. 7
    <3>1. w[x[2][1]] \in Nat /\ w[y[2][1]] \in Nat
      BY <1>4
    <3> QED
      BY <1>4, <3>1
  <2>3. x[2][2] = y[2][2] /\ x[1] = y[1]
    BY <2>1, <2>2, SMTT(30)
  <2> HIDE DEF S, f
  <2> QED
    BY <1>4, <2>1, <2>3
<1>7. f \in Injection(S, Q)
  <2>1. f \in [S -> Q]
    <3> HIDE DEF S, Q
    <3> QED
      BY <1>5
  <2> HIDE DEF S, Q, f
  <2> QED
    BY <1>6, <2>1 DEF Injection, IsInjective
<1>8. Cardinality(S) <= Cardinality(Q)
  <2> HIDE DEF S, Q, f
  <2> QED
    BY <1>1, <1>7, FS_Injection
<1> QED
  BY <1>3, <1>8 DEF Total

\* The table reaches over the part of every RAM entry.
LEMMA TableCovers ==
    ASSUME LastNotRam, NEW e \in RamEntries
    PROVE  tbl_entry_start(e) + TableBytes(e) <= mem_palloc_size
<1> DEFINE w == [d \in Indices |-> TableBytes(d)]
           v == [d \in Indices |-> pages(d)]
           Before == RamEntries \cap (1 .. e - 1)
<1>1. \A d \in RamEntries : /\ w[d] \in Nat /\ v[d] \in Nat /\ 8 * w[d] <= v[d]
                            /\ w[d] = TableBytes(d)
  BY RamEntriesFinite, EntryNat
<1>2. RamEntries \ {Len(memorymap)} = RamEntries
  BY DEF LastNotRam
<1>3. mem_palloc_size = Total(RamEntries, v) \div 8
  BY <1>2 DEF mem_palloc_size
<1>4. tbl_entry_start(e) = Total(Before, w)
  BY DEF tbl_entry_start
<1> HIDE DEF w, v
<1>5. 8 * Total(RamEntries, w) <= Total(RamEntries, v)
  BY <1>1, RamEntriesFinite, TotalEighth
<1>6. Total(RamEntries, w) \in Nat /\ Total(RamEntries, v) \in Nat
  BY <1>1, RamEntriesFinite, TotalNat
<1>7. Total(Before, w) + w[e] <= Total(RamEntries, w)
  <2>1. Before \subseteq RamEntries /\ e \notin Before
    BY RamEntriesFinite DEF Indices
  <2> HIDE DEF Before
  <2> QED
    BY <1>1, <2>1, RamEntriesFinite, TotalGrows
<1>8. Total(RamEntries, w) <= Total(RamEntries, v) \div 8
  BY <1>5, <1>6
<1>9. Total(Before, w) \in Nat /\ TableBytes(e) \in Nat
  BY <1>4, EntryOrder, EntryNat, RamEntriesFinite
<1>10. mem_palloc_size \in Nat
  BY PallocSizeNat
<1> QED
  BY <1>1, <1>3, <1>4, <1>6, <1>7, <1>8, <1>9, <1>10

\* A run that lies in the whole bytes of an entry is freed there.
LEMMA FreedExact ==
    ASSUME NEW d \in RamEntries, NEW addr \in Nat, NEW n \in Nat, n > 0,
           base(d) <= addr, addr + n <= base(d) + 8 * TableBytes(d),
           SetBits(addr, n)
    PROVE  tbl' = tbl \cup Bits(d, addr - base(d), n)
<1>1. /\ base(d) \in Nat /\ pages(d) \in Nat /\ TableBytes(d) \in Nat
      /\ 8 * TableBytes(d) <= pages(d)
  BY RamEntriesFinite, EntryNat
<1>2. Inside(d, addr, n)
  BY <1>1 DEF Inside
<1>3. ASSUME NEW e \in RamEntries, Inside(e, addr, n)  PROVE e = d
  <2>1. base(e) \in Nat /\ pages(e) \in Nat
    BY RamEntriesFinite, EntryNat
  <2> QED
    BY <1>1, <1>3, <2>1, EntriesDiffer DEF Inside
<1>4. Matches(d, addr, n)
  <2>1. d \in Nat
    BY RamEntriesFinite DEF Indices
  <2> QED
    BY <1>2, <1>3, <2>1 DEF Matches
<1>5. \A e \in RamEntries : Matches(e, addr, n) => e = d
  BY <1>3 DEF Matches
<1> QED
  BY <1>4, <1>5 DEF SetBits, FreedBits

LEMMA InitExact == Init => ExactInv
<1> SUFFICES ASSUME Init  PROVE ExactInv
  OBVIOUS
<1>1. IInv
  BY InitIInv
<1> QED
  BY <1>1 DEF Init, ExactInv, GrantedScanned, FreeIsOne

LEMMA mem_palloc_initExact ==
    ASSUME LastNotRam, KernelHasBits, ExactInv, mem_palloc_init
    PROVE  ExactInv'
<1>1. IInv' /\ granted' = {} /\ status = "boot"
  BY mem_palloc_initIInv DEF ExactInv, IInv, mem_palloc_init
<1>2. FreeIsOne'
  <2> SUFFICES ASSUME status' = "ready",
                      NEW e \in RamEntries, NEW s \in Starts(e),
                      base(e) + s \notin KernelFrames'
               PROVE  8 * tbl_entry_start(e) + s \in tbl'
    BY DEF FreeIsOne
  <2>1. PICK d \in RamEntries :
           /\ Matches(d, KernelLoad, endofkernel')
           /\ tbl' = (tbl \cup TableBits) \ Bits(d, KernelLoad - base(d), endofkernel')
    BY DEF mem_palloc_init
  <2>2. /\ base(d) \in Nat /\ pages(d) \in Nat /\ TableBytes(d) \in Nat
        /\ base(e) \in Nat /\ TableBytes(e) \in Nat
        /\ ScannedBits(e) \in Nat /\ ScannedBits(e) <= TableBytes(e)
        /\ tbl_entry_start(e) \in Nat /\ tbl_entry_start(d) \in Nat
        /\ KernelLoad \in Nat /\ mem_palloc_size \in Nat
        /\ endofkernel' \in Nat
    BY <1>1, RamEntriesFinite, EntryNat, EntryOrder, SizeAssumption, PallocSizeNat DEF IInv, TypeOK
  <2>3. s \in 0 .. 8 * TableBytes(e) - 1
    BY <2>2 DEF Starts
  <2>4. 8 * tbl_entry_start(e) + s \in TableBits
    BY <2>2, <2>3, TableCovers DEF TableBits
  <2>5. /\ base(d) <= KernelLoad
        /\ KernelLoad + endofkernel' <= base(d) + 8 * TableBytes(d)
    <3>1. Inside(d, KernelLoad, endofkernel')
      BY <2>1 DEF Matches
    <3>2. /\ endofkernel \in ImagePages
          /\ endofkernel' = endofkernel + (mem_palloc_size + 1) \div PageBytes + 1
      BY <1>1 DEF ExactInv, mem_palloc_init, KernelEndBehindTable
    <3> QED
      BY <3>1, <3>2 DEF KernelHasBits, Inside
  <2>6. 8 * tbl_entry_start(e) + s \notin Bits(d, KernelLoad - base(d), endofkernel')
    <3> DEFINE k == KernelLoad - base(d)
               m == endofkernel'
    <3>1. /\ k \in Nat /\ m \in Nat
          /\ k + m <= 8 * TableBytes(d) /\ KernelLoad = base(d) + k
      BY <2>2, <2>5
    <3>2. base(e) + s \notin Frames(base(d) + k, m)
      BY <3>1 DEF KernelFrames
    <3> HIDE DEF k, m
    <3>3. 8 * tbl_entry_start(e) + s \notin Bits(d, k, m)
      BY <2>3, <3>1, <3>2, RunBits
    <3> QED
      BY <3>3 DEF k, m
  <2> QED
    BY <2>1, <2>4, <2>6
<1>3. status' # "boot"
  BY DEF mem_palloc_init
<1> QED
  BY <1>1, <1>2, <1>3 DEF ExactInv, GrantedScanned

LEMMA mem_pallocExact ==
    ASSUME ExactInv, NEW n \in RequestSizes, mem_palloc(n)
    PROVE  ExactInv'
<1>1. /\ IInv' /\ status = "ready" /\ status' = "ready" /\ endofkernel' = endofkernel
      /\ n \in Nat
      /\ KernelFrames' = KernelFrames
  BY mem_pallocIInv, SizeAssumption DEF ExactInv, mem_palloc, KernelFrames
<1>2. ASSUME UNCHANGED <<tbl, granted>>  PROVE ExactInv'
  BY <1>1, <1>2 DEF ExactInv, GrantedScanned, FreeIsOne, GrantedFrames
<1>3. ASSUME NEW e \in RamEntries, NEW s \in Starts(e), FirstRun(e, s, n),
             tbl' = tbl \ Bits(e, s, n),
             granted' = granted \cup {[addr |-> PageAddr(e, s), pages |-> n]}
      PROVE  ExactInv'
  <2> DEFINE r0 == [addr |-> base(e) + s, pages |-> n]
  <2>1. granted' = granted \cup {r0}
    BY <1>3 DEF PageAddr
  <2>2. /\ base(e) \in Nat /\ ScannedBits(e) \in Nat /\ ScannedBits(e) <= TableBytes(e)
        /\ TableBytes(e) \in Nat /\ tbl_entry_start(e) \in Nat
    BY RamEntriesFinite, EntryNat, EntryOrder
  <2>3. s \in Nat /\ n > 0 /\ s + n <= ScannedBits(e)
    BY <1>3, <2>2 DEF FirstRun, IsRun, Starts
  <2>4. GrantedScanned'
    <3>1. /\ r0.pages > 0 /\ base(e) <= r0.addr
          /\ r0.addr + r0.pages <= base(e) + ScannedBits(e)
      BY <1>1, <2>2, <2>3
    <3> QED
      BY <2>1, <3>1 DEF ExactInv, GrantedScanned
  <2>5. GrantedFrames' = GrantedFrames \cup Frames(base(e) + s, n)
    <3>1. r0.addr = base(e) + s /\ r0.pages = n
      OBVIOUS
    <3> HIDE DEF r0
    <3> QED
      BY <2>1, <3>1 DEF GrantedFrames
  <2>6. FreeIsOne'
    <3> SUFFICES ASSUME NEW f \in RamEntries, NEW t \in Starts(f),
                        base(f) + t \notin KernelFrames \cup GrantedFrames,
                        base(f) + t \notin Frames(base(e) + s, n)
                 PROVE  8 * tbl_entry_start(f) + t \in tbl'
      BY <1>1, <2>5 DEF FreeIsOne
    <3>1. 8 * tbl_entry_start(f) + t \in tbl
      BY <1>1 DEF ExactInv, FreeIsOne
    <3>2. /\ base(f) \in Nat /\ ScannedBits(f) \in Nat /\ ScannedBits(f) <= TableBytes(f)
          /\ TableBytes(f) \in Nat /\ tbl_entry_start(f) \in Nat
      BY RamEntriesFinite, EntryNat, EntryOrder
    <3>3. t \in 0 .. 8 * TableBytes(f) - 1
      BY <3>2 DEF Starts
    <3>4. 8 * tbl_entry_start(f) + t \notin Bits(e, s, n)
      <4>1. s + n <= 8 * TableBytes(e)
        BY <1>1, <2>2, <2>3
      <4> QED
        BY <1>1, <2>3, <3>3, <4>1, RunBits
    <3> QED
      BY <1>3, <3>1, <3>4
  <2> QED
    BY <1>1, <2>4, <2>6 DEF ExactInv
<1> QED
  BY <1>2, <1>3 DEF mem_palloc

\* The bits of a granted run are set again, all of them and no others.
LEMMA ReturnedBits ==
    ASSUME ExactInv, NEW r \in granted, mem_pfree(r)
    PROVE  \E d \in RamEntries :
              /\ r.pages > 0 /\ r.addr \in Nat /\ r.pages \in Nat
              /\ base(d) <= r.addr /\ r.addr + r.pages <= base(d) + ScannedBits(d)
              /\ tbl' = tbl \cup Bits(d, r.addr - base(d), r.pages)
<1>1. r.addr \in Nat /\ r.pages \in Nat /\ SetBits(r.addr, r.pages)
  BY DEF ExactInv, IInv, TypeOK, Runs, mem_pfree
<1>2. PICK d \in RamEntries :
          /\ r.pages > 0
          /\ base(d) <= r.addr
          /\ r.addr + r.pages <= base(d) + ScannedBits(d)
  BY DEF ExactInv, GrantedScanned
<1>3. /\ base(d) \in Nat /\ ScannedBits(d) \in Nat /\ ScannedBits(d) <= TableBytes(d)
      /\ TableBytes(d) \in Nat
  BY RamEntriesFinite, EntryNat
<1>4. r.addr + r.pages <= base(d) + 8 * TableBytes(d)
  BY <1>1, <1>2, <1>3
<1>5. tbl' = tbl \cup Bits(d, r.addr - base(d), r.pages)
  BY <1>1, <1>2, <1>4, FreedExact
<1> QED
  BY <1>1, <1>2, <1>5

LEMMA mem_pfreeExact ==
    ASSUME ExactInv, NEW r \in granted, mem_pfree(r)
    PROVE  ExactInv'
<1>1. /\ IInv' /\ status = "ready" /\ status' = "ready"
      /\ granted' = granted \ {r}
      /\ KernelFrames' = KernelFrames
  BY mem_pfreeIInv DEF ExactInv, mem_pfree, KernelFrames
<1>2. PICK d \in RamEntries :
          /\ r.pages > 0 /\ r.addr \in Nat /\ r.pages \in Nat
          /\ base(d) <= r.addr /\ r.addr + r.pages <= base(d) + ScannedBits(d)
          /\ tbl' = tbl \cup Bits(d, r.addr - base(d), r.pages)
  BY ReturnedBits
<1>3. GrantedFrames \subseteq GrantedFrames' \cup Frames(r.addr, r.pages)
  BY <1>1 DEF GrantedFrames
<1>4. FreeIsOne'
  <2> SUFFICES ASSUME NEW e \in RamEntries, NEW s \in Starts(e),
                      base(e) + s \notin KernelFrames \cup GrantedFrames'
               PROVE  8 * tbl_entry_start(e) + s \in tbl'
    BY <1>1 DEF FreeIsOne
  <2>1. CASE base(e) + s \notin GrantedFrames
    BY <1>1, <1>2, <2>1 DEF ExactInv, FreeIsOne
  <2>2. CASE base(e) + s \in Frames(r.addr, r.pages)
    <3> DEFINE k == r.addr - base(d)
    <3>1. /\ base(d) \in Nat /\ TableBytes(d) \in Nat
          /\ ScannedBits(d) \in Nat /\ ScannedBits(d) <= TableBytes(d)
          /\ TableBytes(e) \in Nat
          /\ ScannedBits(e) \in Nat /\ ScannedBits(e) <= TableBytes(e)
      BY RamEntriesFinite, EntryNat
    <3>2. k \in Nat /\ r.addr = base(d) + k /\ k + r.pages <= 8 * TableBytes(d)
      BY <1>2, <3>1
    <3>3. s \in 0 .. 8 * TableBytes(e) - 1
      BY <3>1 DEF Starts
    <3> HIDE DEF k
    <3>4. 8 * tbl_entry_start(e) + s \in Bits(d, k, r.pages)
      BY <1>2, <2>2, <3>2, <3>3, RunBits
    <3> QED
      BY <1>2, <3>4 DEF k
  <2> QED
    BY <1>3, <2>1, <2>2
<1> QED
  BY <1>1, <1>4 DEF ExactInv, GrantedScanned

LEMMA mem_pfree_frameExact ==
    ASSUME ExactInv, NEW f \in ForeignFrames, mem_pfree_frame(f)
    PROVE  ExactInv'
<1>1. /\ IInv' /\ status = "ready" /\ status' = "ready"
      /\ granted' = granted
      /\ KernelFrames' = KernelFrames
      /\ GrantedFrames' = GrantedFrames
  BY mem_pfree_frameIInv DEF ExactInv, mem_pfree_frame, KernelFrames, GrantedFrames
<1>2. tbl \subseteq tbl'
  BY DEF mem_pfree_frame, SetBits
<1> QED
  BY <1>1, <1>2 DEF ExactInv, GrantedScanned, FreeIsOne

LEMMA NextExact == LastNotRam /\ KernelHasBits /\ ExactInv /\ [Next]_vars => ExactInv'
<1> SUFFICES ASSUME LastNotRam, KernelHasBits, ExactInv, [Next]_vars  PROVE ExactInv'
  OBVIOUS
<1>1. CASE mem_palloc_init
  BY <1>1, mem_palloc_initExact
<1>2. CASE \E n \in RequestSizes : mem_palloc(n)
  BY <1>2, mem_pallocExact
<1>3. CASE \E r \in granted : mem_pfree(r)
  BY <1>3, mem_pfreeExact
<1>4. CASE \E f \in ForeignFrames : mem_pfree_frame(f)
  BY <1>4, mem_pfree_frameExact
<1>5. CASE UNCHANGED vars
  BY <1>5
  DEF vars, ExactInv, IInv, TypeOK, GrantedHasBits, NoDoubleGrant, KernelNeverGranted,
      TakenIsZero, KernelFrames, GrantedFrames, GrantedScanned, FreeIsOne
<1> QED
  BY <1>1, <1>2, <1>3, <1>4, <1>5 DEF Next

\* On a machine whose map does not end in RAM, and with a kernel that ends in
\* the part of its entry that has bits, ExactInv holds in every state.
THEOREM ExactInvariance ==
    ASSUME LastNotRam, KernelHasBits
    PROVE  Spec => []ExactInv
<1>1. ExactInv /\ [Next]_vars => ExactInv'
  BY NextExact
<1> QED
  BY <1>1, InitExact, PTL DEF Spec

\* On such a machine a bit mem_palloc looks at is 1 exactly if its frame is
\* free: no sequence of calls leaks a frame or frees one too early.
THEOREM TableIsExact ==
    ASSUME LastNotRam, KernelHasBits
    PROVE  Spec => []TableExact
<1>1. ExactInv => TableExact
  <2> SUFFICES ASSUME ExactInv, status = "ready",
                      NEW e \in RamEntries, NEW s \in Starts(e)
               PROVE  8 * tbl_entry_start(e) + s \in tbl
                        <=> base(e) + s \notin KernelFrames \cup GrantedFrames
    BY DEF TableExact
  <2>1. ScannedBits(e) \in Nat /\ ScannedBits(e) <= TableBytes(e) /\ TableBytes(e) \in Nat
    BY RamEntriesFinite, EntryNat
  <2>2. s \in 0 .. 8 * TableBytes(e) - 1
    BY <2>1 DEF Starts
  <2> QED
    BY <2>2 DEF ExactInv, IInv, TakenIsZero, FreeIsOne
<1> QED
  BY <1>1, ExactInvariance, PTL

-----------------------------------------------------------------------------
(* The frame allocator.                                                    *)

\* A frame of the pool has one bit, that of its page in its entry.
LEMMA PoolBit ==
    ASSUME NEW e \in RamEntries, NEW s \in Starts(e)
    PROVE  /\ base(e) + s \in Pool
           /\ BitOf(base(e) + s) = 8 * tbl_entry_start(e) + s
           /\ s \in 0 .. 8 * TableBytes(e) - 1
<1> DEFINE f == base(e) + s
           c == CHOOSE d \in RamEntries : Inside(d, f, 1)
<1>1. /\ base(e) \in Nat /\ pages(e) \in Nat /\ TableBytes(e) \in Nat
      /\ 8 * TableBytes(e) <= pages(e)
      /\ ScannedBits(e) \in Nat /\ ScannedBits(e) <= TableBytes(e)
      /\ tbl_entry_start(e) \in Nat
  BY RamEntriesFinite, EntryNat, EntryOrder
<1>2. s \in Nat /\ s < ScannedBits(e)
  BY <1>1 DEF Starts
<1>3. f \in Pool
  BY DEF Pool
<1>4. f \in Int /\ f = base(e) + s
  BY <1>1, <1>2
<1>5. BitOf(f) = 8 * tbl_entry_start(c) + f - base(c)
  BY DEF BitOf
<1> HIDE DEF f
<1>6. Inside(e, f, 1) /\ base(e) <= f /\ f < base(e) + pages(e)
  BY <1>1, <1>2, <1>4 DEF Inside
<1>7. c \in RamEntries /\ Inside(c, f, 1)
  BY <1>6
<1> HIDE DEF c
<1>8. base(c) \in Nat /\ pages(c) \in Nat
  BY <1>7, RamEntriesFinite, EntryNat
<1>9. c = e
  BY <1>4, <1>6, <1>7, <1>8, EntriesDiffer DEF Inside
<1>10. 8 * tbl_entry_start(e) + f - base(e) = 8 * tbl_entry_start(e) + s
  BY <1>1, <1>2, <1>4
<1> QED
  BY <1>1, <1>2, <1>3, <1>5, <1>9, <1>10 DEF f

\* The frames of a run where mem_palloc scans are in the pool, and a frame of
\* the pool belongs to the run exactly if its bit belongs to the run's bits.
LEMMA PoolRun ==
    ASSUME NEW e \in RamEntries, NEW k \in Nat, NEW n \in Nat, k + n <= ScannedBits(e)
    PROVE  /\ Frames(base(e) + k, n) \subseteq Pool
           /\ \A f \in Pool : BitOf(f) \in Bits(e, k, n) <=> f \in Frames(base(e) + k, n)
<1>1. /\ base(e) \in Nat /\ TableBytes(e) \in Nat
      /\ ScannedBits(e) \in Nat /\ ScannedBits(e) <= TableBytes(e)
  BY RamEntriesFinite, EntryNat
<1>2. k + n <= 8 * TableBytes(e)
  BY <1>1
<1>3. ASSUME NEW x \in Frames(base(e) + k, n)  PROVE x \in Pool
  <2>1. x - base(e) \in Starts(e) /\ x = base(e) + (x - base(e))
    BY <1>1 DEF Frames, Starts
  <2> QED
    BY <2>1, PoolBit
<1>4. ASSUME NEW f \in Pool
      PROVE  BitOf(f) \in Bits(e, k, n) <=> f \in Frames(base(e) + k, n)
  <2>1. PICK d \in RamEntries : \E t \in Starts(d) : f = base(d) + t
    BY DEF Pool
  <2>2. PICK t \in Starts(d) : f = base(d) + t
    BY <2>1
  <2> QED
    BY <1>2, <2>2, PoolBit, RunBits
<1> QED
  BY <1>3, <1>4

LEMMA GrantStep ==
    ASSUME ExactInv, NEW n \in RequestSizes, mem_palloc(n)
    PROVE  [Abstract!Next]_(Abstract!vars)
<1>1. /\ status = "ready" /\ status' = "ready" /\ n \in Nat
  BY SizeAssumption DEF mem_palloc
<1>2. CASE UNCHANGED <<tbl, granted>>
  <2>1. FreePool' = FreePool
    BY <1>1, <1>2 DEF FreePool, BitOf
  <2> QED
    BY <1>1, <1>2, <2>1 DEF Abstract!vars
<1>3. ASSUME NEW e \in RamEntries, NEW s \in Starts(e), FirstRun(e, s, n),
             tbl' = tbl \ Bits(e, s, n),
             granted' = granted \cup {[addr |-> PageAddr(e, s), pages |-> n]}
      PROVE  Abstract!Next
  <2> DEFINE r == [addr |-> base(e) + s, pages |-> n]
             F == Frames(base(e) + s, n)
  <2>1. /\ granted' = granted \cup {r}
        /\ Abstract!Run(r) = F
    BY <1>3 DEF PageAddr, Abstract!Run, Frames
  <2>2. /\ base(e) \in Nat /\ ScannedBits(e) \in Nat
        /\ s \in Nat /\ n > 0 /\ s + n <= ScannedBits(e)
        /\ Bits(e, s, n) \subseteq tbl
    BY <1>3, RamEntriesFinite, EntryNat DEF FirstRun, IsRun, Starts
  <2>3. /\ F \subseteq Pool
        /\ \A f \in Pool : BitOf(f) \in Bits(e, s, n) <=> f \in F
    BY <1>1, <2>2, PoolRun
  <2>4. F \subseteq FreePool
    BY <1>1, <2>2, <2>3 DEF FreePool
  <2>5. FreePool' = FreePool \ F
    BY <1>1, <1>3, <2>3 DEF FreePool, BitOf
  <2>6. r \notin granted
    <3> SUFFICES ASSUME r \in granted  PROVE FALSE
      OBVIOUS
    <3>1. r.addr = base(e) + s /\ r.pages = n
      OBVIOUS
    <3> HIDE DEF r
    <3>2. base(e) + s \in GrantedFrames
      <4>1. base(e) + s \in Frames(r.addr, r.pages)
        BY <1>1, <2>2, <3>1 DEF Frames
      <4> QED
        BY <4>1 DEF GrantedFrames
    <3>3. 8 * tbl_entry_start(e) + s \notin tbl
      BY <1>1, <3>2, PoolBit DEF ExactInv, IInv, TakenIsZero
    <3>4. 8 * tbl_entry_start(e) + s \in Bits(e, s, n)
      BY <1>1, <2>2, EntryOrder DEF Bits
    <3> QED
      BY <2>2, <3>3, <3>4
  <2>7. r.pages > 0
    BY <2>2
  <2> HIDE DEF r, F
  <2>8. Abstract!Grant(r)
    BY <1>1, <2>1, <2>4, <2>5, <2>7 DEF Abstract!Grant
  <2> QED
    BY <2>1, <2>6, <2>8 DEF Abstract!Next
<1> QED
  BY <1>2, <1>3 DEF mem_palloc

LEMMA ReleaseStep ==
    ASSUME ExactInv, NEW r \in granted, mem_pfree(r)
    PROVE  Abstract!Next
<1>1. status = "ready" /\ status' = "ready" /\ granted' = granted \ {r}
  BY DEF mem_pfree
<1>2. PICK d \in RamEntries :
          /\ r.pages > 0 /\ r.addr \in Nat /\ r.pages \in Nat
          /\ base(d) <= r.addr /\ r.addr + r.pages <= base(d) + ScannedBits(d)
          /\ tbl' = tbl \cup Bits(d, r.addr - base(d), r.pages)
  BY ReturnedBits
<1> DEFINE k == r.addr - base(d)
           F == Frames(r.addr, r.pages)
<1>3. /\ k \in Nat /\ r.addr = base(d) + k /\ k + r.pages <= ScannedBits(d)
  <2>1. base(d) \in Nat /\ ScannedBits(d) \in Nat
    BY RamEntriesFinite, EntryNat
  <2> QED
    BY <1>2, <2>1
<1>4. tbl' = tbl \cup Bits(d, k, r.pages)
  BY <1>2
<1> HIDE DEF k
<1>5. /\ F \subseteq Pool
      /\ \A f \in Pool : BitOf(f) \in Bits(d, k, r.pages) <=> f \in F
  BY <1>2, <1>3, PoolRun
<1>6. FreePool' = FreePool \cup F
  BY <1>1, <1>4, <1>5 DEF FreePool, BitOf
<1>7. Abstract!Run(r) = F
  BY DEF Abstract!Run, Frames
<1> QED
  BY <1>1, <1>6, <1>7 DEF Abstract!Release, Abstract!Next

\* A frame nobody was granted is free already, or none mem_palloc looks at.
LEMMA ForeignStep ==
    ASSUME ExactInv, NEW f \in ForeignFrames, mem_pfree_frame(f)
    PROVE  UNCHANGED Abstract!vars
<1>1. /\ status = "ready" /\ status' = "ready" /\ granted' = granted
      /\ f \notin KernelFrames \cup GrantedFrames
      /\ SetBits(f, 1)
      /\ f \in Nat
  BY ForeignAssumption DEF mem_pfree_frame
<1>2. ASSUME NEW g \in Pool  PROVE BitOf(g) \in tbl' <=> BitOf(g) \in tbl
  <2>1. CASE tbl' = tbl
    BY <2>1
  <2>2. ASSUME NEW e \in RamEntries, Matches(e, f, 1), tbl' = tbl \cup FreedBits(e, f, 1)
        PROVE  BitOf(g) \in tbl' <=> BitOf(g) \in tbl
    <3> DEFINE k == f - base(e)
    <3>1. /\ k \in Nat /\ k + 1 <= 8 * TableBytes(e) /\ f = base(e) + k
      <4>1. base(e) \in Nat /\ TableBytes(e) \in Nat
        BY RamEntriesFinite, EntryNat
      <4>2. base(e) <= f /\ f - base(e) < 8 * TableBytes(e)
        BY <2>2, ForeignAssumption DEF Matches, Inside
      <4> QED
        BY <1>1, <4>1, <4>2
    <3>2. tbl' = tbl \cup Bits(e, k, 1)
      BY <2>2 DEF FreedBits
    <3> HIDE DEF k
    <3>3. PICK d \in RamEntries : \E t \in Starts(d) : g = base(d) + t
      BY DEF Pool
    <3>5. PICK t \in Starts(d) : g = base(d) + t
      BY <3>3
    <3>4. ASSUME BitOf(g) \in Bits(e, k, 1)  PROVE BitOf(g) \in tbl
      <4>1. g \in Frames(f, 1)
        BY <3>1, <3>5, <3>4, PoolBit, RunBits
      <4>2. g = f
        BY <1>1, <4>1 DEF Frames
      <4> QED
        BY <1>1, <3>5, <4>2, PoolBit DEF ExactInv, FreeIsOne
    <3> QED
      BY <3>2, <3>4
  <2> QED
    BY <1>1, <2>1, <2>2 DEF SetBits
<1>3. FreePool' = FreePool
  BY <1>1, <1>2 DEF FreePool, BitOf
<1> QED
  BY <1>1, <1>3 DEF Abstract!vars

\* On such a machine the table with its scan, its bytes per entry and its
\* search by address (palloc.c) implements the pool of frames of palloc.h.
THEOREM PallocIsFrameAllocator ==
    ASSUME LastNotRam, KernelHasBits
    PROVE  Spec => ImplementsFrameAllocator
<1>1. Init => Abstract!Init
  BY DEF Init, FreePool, Abstract!Init
<1>2. ExactInv /\ [Next]_vars => [Abstract!Next]_(Abstract!vars)
  <2> SUFFICES ASSUME ExactInv, [Next]_vars  PROVE [Abstract!Next]_(Abstract!vars)
    OBVIOUS
  <2>1. CASE mem_palloc_init
    <3>1. /\ status = "boot" /\ granted' = granted
          /\ status' \in {"ready", "halted"}
      BY <2>1 DEF mem_palloc_init
    <3>2. FreePool' \in SUBSET Pool /\ (status' = "halted" => FreePool' = FreePool)
      BY <3>1 DEF FreePool
    <3> QED
      BY <3>1, <3>2 DEF Abstract!Start, Abstract!Next
  <2>2. CASE \E n \in RequestSizes : mem_palloc(n)
    BY <2>2, GrantStep
  <2>3. CASE \E r \in granted : mem_pfree(r)
    BY <2>3, ReleaseStep
  <2>4. CASE \E f \in ForeignFrames : mem_pfree_frame(f)
    BY <2>4, ForeignStep
  <2>5. CASE UNCHANGED vars
    BY <2>5 DEF vars, Abstract!vars, FreePool, BitOf
  <2> QED
    BY <2>1, <2>2, <2>3, <2>4, <2>5 DEF Next
<1> QED
  BY <1>1, <1>2, ExactInvariance, PTL DEF Spec, ImplementsFrameAllocator, Abstract!Spec
=============================================================================
