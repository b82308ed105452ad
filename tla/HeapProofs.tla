----------------------------- MODULE HeapProofs -----------------------------
(***************************************************************************)
(* What the list of tails keeps true for every kernel size, window and     *)
(* every sequence of requests: theorems about Heap.                        *)
(***************************************************************************)
EXTENDS Heap, NumberLemmas

-----------------------------------------------------------------------------
(* The inductive invariant.                                                *)

Linked == DOMAIN tail

\* The tail of the kernel, which mem_init writes, starts the list for good.
First ==
    /\ KernelEnd \in Linked
    /\ tail[KernelEnd].prev = 0
    /\ tail[KernelEnd].vaddr = FirstVaddr

\* prev is the next lower tail, and behind that one lies the tail's block.
Backward ==
    \A t \in Linked \ {KernelEnd} :
        /\ tail[t].prev \in Linked
        /\ tail[tail[t].prev].next = t
        /\ tail[t].prev + sizeof_TAIL <= tail[t].vaddr
        /\ tail[t].vaddr <= t
        /\ \A u \in Linked : u < t => u <= tail[t].prev

\* next leads to the tail that has this one for its prev; the highest ends
\* the list.
Forward ==
    \A t \in Linked :
        /\ tail[t].next = 0 => \A u \in Linked : u <= t
        /\ tail[t].next # 0 =>
              /\ tail[t].next \in Linked
              /\ tail[t].next > t
              /\ tail[tail[t].next].prev = t

\* The blocks in use and the tails but the kernel's are one to one.
Owned ==
    /\ \A b \in live : \E t \in Linked \ {KernelEnd} :
          tail[t].vaddr = b.start /\ b.start + b.size <= t
    /\ \A t \in Linked \ {KernelEnd} : \E b \in live : b.start = tail[t].vaddr
    /\ \A b, c \in live : b.start = c.start => b = c

Counted ==
    /\ IsFiniteSet(live)
    /\ Cardinality(live) = Cardinality(Linked) - 1

IInv ==
    /\ TypeOK
    /\ mem_listStart = KernelEnd
    /\ status = "running" => First /\ Backward /\ Forward /\ Owned /\ Counted

-----------------------------------------------------------------------------
(* The operators.                                                          *)

\* Aligning never moves an address down, and reaches a multiple.
LEMMA AlignUpFits ==
    ASSUME NEW x \in Nat, NEW align \in Nat
    PROVE  /\ AlignUp(x, align) \in Nat
           /\ AlignUp(x, align) >= x
           /\ align # 0 => AlignUp(x, align) % align = 0
<1>1. CASE align = 0
  BY <1>1 DEF AlignUp
<1>2. CASE align # 0
  <2> DEFINE q == x \div align
             m == x % align
  <2>1. q \in Nat /\ m \in 0 .. align - 1 /\ x = q * align + m
    BY <1>2
  <2>2. AlignUp(x, align) = x + align - m
    BY <1>2 DEF AlignUp
  <2>3. x + align - m = (q + 1) * align
    <3> HIDE DEF q, m
    <3> QED
      BY <1>2, <2>1
  <2>4. ((q + 1) * align) % align = 0
    <3> HIDE DEF q
    <3> QED
      BY <1>2, <2>1
  <2> QED
    BY <1>2, <2>1, <2>2, <2>3, <2>4
<1> QED
  BY <1>1, <1>2

\* Addresses are numbers, none lies below the kernel's tail, and what is in a
\* tail is an address too.
LEMMA Addresses ==
    ASSUME TypeOK
    PROVE  /\ KernelEnd \in Nat /\ WindowEnd \in Nat /\ KernelEnd > FirstVaddr
           /\ Linked \subseteq Places
           /\ Places \subseteq Nat
           /\ \A t \in Places : KernelEnd <= t /\ t + sizeof_TAIL <= WindowEnd
           /\ \A t \in Linked :
                 /\ tail[t] = Tail(tail[t].next, tail[t].prev, tail[t].vaddr)
                 /\ tail[t].next \in Places \cup {0}
                 /\ tail[t].prev \in Places \cup {0}
                 /\ tail[t].vaddr \in Places \cup {FirstVaddr}
                 /\ tail[t].vaddr >= FirstVaddr
<1>1. /\ KernelEnd \in Nat /\ WindowEnd \in Nat /\ KernelEnd > FirstVaddr
      /\ Places \subseteq Nat
      /\ \A t \in Places : KernelEnd <= t /\ t + sizeof_TAIL <= WindowEnd
  BY HeapAssumption DEF Places, sizeof_TAIL, FirstVaddr
<1>2. Linked \subseteq Places /\ \A t \in Linked : tail[t] \in Tails
  BY DEF TypeOK, Linked
<1>3. \A t \in Linked :
         /\ tail[t] = Tail(tail[t].next, tail[t].prev, tail[t].vaddr)
         /\ tail[t].next \in Places \cup {0}
         /\ tail[t].prev \in Places \cup {0}
         /\ tail[t].vaddr \in Places \cup {FirstVaddr}
  BY <1>2 DEF Tails, Tail
<1>4. \A v \in Places \cup {FirstVaddr} : v >= FirstVaddr
  BY <1>1 DEF FirstVaddr
<1> QED
  BY <1>1, <1>2, <1>3, <1>4

\* Between two tails lies the higher one's block.
LEMMA Spaced ==
    ASSUME IInv, status = "running",
           NEW t \in Linked, NEW u \in Linked, t < u
    PROVE  /\ u # KernelEnd
           /\ t <= tail[u].prev
           /\ t + sizeof_TAIL <= tail[u].vaddr
           /\ tail[u].vaddr <= u
<1>1. /\ t \in Nat /\ u \in Nat /\ KernelEnd \in Nat /\ KernelEnd <= t
      /\ tail[u].prev \in Nat /\ tail[u].vaddr \in Nat
  BY Addresses DEF IInv, FirstVaddr
<1>2. u # KernelEnd
  BY <1>1
<1>3. /\ t <= tail[u].prev
      /\ tail[u].prev + sizeof_TAIL <= tail[u].vaddr
      /\ tail[u].vaddr <= u
  BY <1>2 DEF IInv, Backward
<1> QED
  BY <1>1, <1>2, <1>3 DEF sizeof_TAIL

\* Only the last tail that is free keeps no block in front of it.
LEMMA InitIInv == Init => IInv
<1> SUFFICES ASSUME Init  PROVE IInv
  OBVIOUS
<1>1. Linked = {KernelEnd} /\ tail[KernelEnd] = Tail(0, 0, FirstVaddr)
  BY DEF Init, Linked
<1>2. KernelEnd \in Places
  BY HeapAssumption DEF Places, sizeof_TAIL, FirstVaddr
<1>3. TypeOK
  BY <1>1, <1>2 DEF Init, TypeOK, Linked, Tails, Tail, Returned
<1>4. First /\ Backward
  BY <1>1 DEF First, Backward, Tail
<1>5. Forward
  BY <1>1, <1>2, HeapAssumption DEF Forward, Tail
<1>6. Owned
  BY <1>1 DEF Init, Owned
<1>7. Counted
  BY <1>1, FS_EmptySet, FS_Singleton DEF Init, Counted
<1> QED
  BY <1>3, <1>4, <1>5, <1>6, <1>7 DEF Init, IInv

\* The tails are finitely many.
LEMMA FiniteTails == TypeOK => IsFiniteSet(Linked)
<1> SUFFICES ASSUME TypeOK  PROVE IsFiniteSet(Linked)
  OBVIOUS
<1>1. Linked \in SUBSET Nat /\ \A t \in Linked : t <= WindowEnd
  BY Addresses DEF sizeof_TAIL
<1> QED
  BY <1>1, HeapAssumption, FS_BoundedSetOfNaturals

-----------------------------------------------------------------------------
(* mem_alloc into a gap.                                                   *)

\* Where the block and the tail lie in the gap in front of the block of e.
LEMMA GapPlaces ==
    ASSUME TypeOK, NEW r \in Requests, NEW e \in Linked, Fits(e, r),
           tail[e].prev \in Places
    PROVE  LET start == inserted_start(e, r)
               t     == inserted_entry(e, r)
           IN  /\ start \in Nat /\ t \in Nat /\ r.size \in Nat /\ r.align \in Nat
               /\ tail[e].prev + sizeof_TAIL <= start
               /\ start + r.size <= t
               /\ start + r.size + sizeof_TAIL <= tail[e].vaddr
               /\ r.align # 0 => start % r.align = 0
<1> DEFINE x == tail[e].prev + sizeof_TAIL
           start == inserted_start(e, r)
<1>1. x \in Nat /\ r.size \in Nat /\ r.align \in Nat /\ tail[e].vaddr \in Nat
  <2>1. r \in [size : Nat, align : Nat]
    BY HeapAssumption
  <2>2. tail[e].vaddr \in Nat /\ tail[e].prev \in Nat
    BY Addresses DEF FirstVaddr
  <2> QED
    BY <2>1, <2>2 DEF sizeof_TAIL
<1>2. start = AlignUp(x, r.align)
  BY DEF inserted_start
<1>3. start \in Nat /\ x <= start /\ (r.align # 0 => start % r.align = 0)
  BY <1>1, <1>2, AlignUpFits
<1>4. r.size + sizeof_TAIL <= tail[e].vaddr - start
  BY DEF Fits, Room
<1>5. inserted_entry(e, r) = start + r.size * sizeof_TAIL
  BY DEF inserted_entry
<1> HIDE DEF start, x
<1>6. /\ start + r.size * sizeof_TAIL \in Nat
      /\ start + r.size <= start + r.size * sizeof_TAIL
      /\ start + r.size + sizeof_TAIL <= tail[e].vaddr
  BY <1>1, <1>3, <1>4 DEF sizeof_TAIL
<1> QED
  BY <1>1, <1>3, <1>5, <1>6 DEF start, x

\* A new block with a new tail keeps blocks and tails one to one.
LEMMA OwnedGrows ==
    ASSUME TypeOK, Owned, Counted,
           NEW t \in Places \ Linked, t # KernelEnd,
           NEW b, tail'[t].vaddr = b.start, b.start + b.size <= t,
           live' = live \cup {b},
           Linked' = Linked \cup {t},
           \A u \in Linked : tail'[u].vaddr = tail[u].vaddr,
           \A u \in Linked \ {KernelEnd} : tail[u].vaddr # b.start
    PROVE  Owned' /\ Counted'
<1>1. \A c \in live : c.start # b.start
  BY DEF Owned
<1>2. \A c \in live' : \E u \in Linked' \ {KernelEnd} :
          tail'[u].vaddr = c.start /\ c.start + c.size <= u
  <2> SUFFICES ASSUME NEW c \in live
               PROVE  \E u \in Linked' \ {KernelEnd} :
                         tail'[u].vaddr = c.start /\ c.start + c.size <= u
    OBVIOUS
  <2>1. PICK u \in Linked \ {KernelEnd} : tail[u].vaddr = c.start /\ c.start + c.size <= u
    BY DEF Owned
  <2> QED
    BY <2>1
<1>3. \A u \in Linked' \ {KernelEnd} : \E c \in live' : c.start = tail'[u].vaddr
  <2> SUFFICES ASSUME NEW u \in Linked \ {KernelEnd}
               PROVE  \E c \in live' : c.start = tail'[u].vaddr
    OBVIOUS
  <2>1. PICK c \in live : c.start = tail[u].vaddr
    BY DEF Owned
  <2> QED
    BY <2>1
<1>4. \A c, d \in live' : c.start = d.start => c = d
  BY <1>1 DEF Owned
<1>5. Counted'
  <2>1. b \notin live
    BY <1>1
  <2>2. IsFiniteSet(live') /\ Cardinality(live') = Cardinality(live) + 1
    BY <2>1, FS_AddElement DEF Counted
  <2>3. Cardinality(Linked') = Cardinality(Linked) + 1
    BY FiniteTails, FS_AddElement
  <2>4. Cardinality(Linked) \in Nat
    BY FiniteTails, FS_CardinalityType
  <2> QED
    BY <2>2, <2>3, <2>4 DEF Counted
<1> QED
  BY <1>2, <1>3, <1>4, <1>5 DEF Owned

LEMMA InsertKeepsList ==
    ASSUME IInv, status = "running",
           NEW e \in Linked, NEW t \in Places, NEW b \in Blocks,
           tail[e].prev \in Places,
           tail[e].prev + sizeof_TAIL <= b.start,
           b.start + b.size <= t,
           t + sizeof_TAIL <= tail[e].vaddr,
           tail' = Inserted(e, t, b.start),
           live' = live \cup {b}
    PROVE  (First /\ Backward /\ Forward /\ Owned /\ Counted)'
<1> DEFINE p == tail[e].prev
<1>1. /\ TypeOK /\ First /\ Backward /\ Forward /\ Owned /\ Counted
      /\ Linked \subseteq Nat /\ KernelEnd \in Nat
      /\ t \in Nat /\ p \in Nat /\ b.start \in Nat /\ b.size \in Nat
      /\ \A a \in Linked : KernelEnd <= a /\ tail[a].vaddr \in Nat
                           /\ tail[a].prev \in Nat /\ tail[a].next \in Nat
      /\ KernelEnd > 0
  BY Addresses DEF IInv, Blocks, FirstVaddr
<1>2. /\ e # KernelEnd /\ p \in Linked /\ tail[p].next = e
      /\ tail[e].vaddr <= e
      /\ \A u \in Linked : u < e => u <= p
  <2>1. e # KernelEnd
    BY <1>1 DEF First, Places
  <2> QED
    BY <2>1, <1>1 DEF Backward
<1>3. KernelEnd <= p /\ p < b.start /\ b.start <= t /\ t < tail[e].vaddr /\ t < e
  BY <1>1, <1>2 DEF sizeof_TAIL
<1>4. \A u \in Linked : u <= p \/ e <= u
  BY <1>1, <1>2
<1>5. t \notin Linked /\ t # KernelEnd /\ p # e
  BY <1>1, <1>3, <1>4
<1>6. /\ Linked' = Linked \cup {t}
      /\ tail'[t] = Tail(e, p, b.start)
      /\ tail'[e] = [tail[e] EXCEPT !.prev = t]
      /\ tail'[p] = [tail[p] EXCEPT !.next = t]
      /\ \A a \in Linked \ {e, p} : tail'[a] = tail[a]
  <2> DEFINE f == Constructed(e, t, b.start)
  <2>1. /\ DOMAIN f = Linked \cup {t}
        /\ f[t] = Tail(e, p, b.start)
        /\ \A a \in Linked : f[a] = tail[a]
    BY <1>5 DEF Constructed, Linked
  <2>2. tail' = [f EXCEPT ![p].next = t, ![e].prev = t]
    BY DEF Inserted
  <2>3. f = [a \in DOMAIN f |-> f[a]]
    BY DEF Constructed
  <2> HIDE DEF f, p
  <2> QED
    BY <1>2, <1>5, <2>1, <2>2, <2>3 DEF Linked
<1>7. /\ tail'[t].next = e /\ tail'[t].prev = p /\ tail'[t].vaddr = b.start
      /\ tail'[e].next = tail[e].next /\ tail'[e].prev = t /\ tail'[e].vaddr = tail[e].vaddr
      /\ tail'[p].next = t /\ tail'[p].prev = tail[p].prev /\ tail'[p].vaddr = tail[p].vaddr
  <2>1. tail[e] = Tail(tail[e].next, tail[e].prev, tail[e].vaddr)
    BY <1>1, Addresses
  <2>2. tail[p] = Tail(tail[p].next, tail[p].prev, tail[p].vaddr)
    BY <1>1, <1>2, Addresses
  <2> QED
    BY <1>6, <2>1, <2>2 DEF Tail
<1> HIDE DEF p
<1>8. \A a \in Linked : tail'[a].vaddr = tail[a].vaddr
  BY <1>6, <1>7
<1>9. First'
  BY <1>1, <1>2, <1>6, <1>7, <1>8 DEF First
<1>10. Backward'
  <2> SUFFICES ASSUME NEW a \in Linked \cup {t}, a # KernelEnd
               PROVE  /\ tail'[a].prev \in Linked \cup {t}
                      /\ tail'[tail'[a].prev].next = a
                      /\ tail'[a].prev + sizeof_TAIL <= tail'[a].vaddr
                      /\ tail'[a].vaddr <= a
                      /\ \A u \in Linked \cup {t} : u < a => u <= tail'[a].prev
    BY <1>6 DEF Backward
  <2>1. CASE a = t
    BY <2>1, <1>1, <1>2, <1>3, <1>4, <1>7 DEF p
  <2>2. CASE a = e
    BY <2>2, <1>1, <1>2, <1>3, <1>4, <1>7
  <2>3. CASE a \in Linked /\ a # e
    <3>1. /\ tail[a].prev \in Linked
          /\ tail[tail[a].prev].next = a
          /\ tail[a].prev + sizeof_TAIL <= tail[a].vaddr
          /\ tail[a].vaddr <= a
          /\ \A u \in Linked : u < a => u <= tail[a].prev
      BY <1>1, <2>3 DEF Backward
    <3>2. tail'[a].prev = tail[a].prev
      BY <1>6, <1>7, <2>3
    <3>3. tail[a].prev # p
      BY <1>2, <2>3, <3>1
    <3>4. tail'[tail[a].prev].next = a
      BY <1>6, <1>7, <3>1, <3>3
    <3>5. t < a => t <= tail[a].prev
      BY <1>1, <1>2, <1>3, <1>4, <2>3, <3>1
    <3> QED
      BY <1>8, <2>3, <3>1, <3>2, <3>4, <3>5
  <2> QED
    BY <2>1, <2>2, <2>3
<1>11. Forward'
  <2> SUFFICES ASSUME NEW a \in Linked \cup {t}
               PROVE  /\ tail'[a].next = 0 => \A u \in Linked \cup {t} : u <= a
                      /\ tail'[a].next # 0 =>
                            /\ tail'[a].next \in Linked \cup {t}
                            /\ tail'[a].next > a
                            /\ tail'[tail'[a].next].prev = a
    BY <1>6 DEF Forward
  <2>1. CASE a = t
    BY <2>1, <1>1, <1>2, <1>3, <1>7
  <2>2. CASE a = p
    BY <2>2, <1>1, <1>2, <1>3, <1>7
  <2>3. CASE a \in Linked /\ a # p
    <3>1. /\ tail[a].next = 0 => \A u \in Linked : u <= a
          /\ tail[a].next # 0 =>
                /\ tail[a].next \in Linked
                /\ tail[a].next > a
                /\ tail[tail[a].next].prev = a
      BY <1>1, <2>3 DEF Forward
    <3>2. tail'[a].next = tail[a].next
      BY <1>6, <1>7, <2>3
    <3>3. tail[a].next = 0 => t <= a
      BY <1>1, <1>3, <3>1
    <3>4. tail[a].next # 0 => tail[a].next # e
      BY <2>3, <3>1 DEF p
    <3>5. tail[a].next # 0 => tail'[tail[a].next].prev = a
      <4>1. CASE tail[a].next = p
        BY <1>7, <3>1, <4>1
      <4>2. CASE tail[a].next # p
        BY <1>6, <3>1, <3>4, <4>2
      <4> QED
        BY <4>1, <4>2
    <3> QED
      BY <3>1, <3>2, <3>3, <3>5
  <2> QED
    BY <2>1, <2>2, <2>3
<1>12. \A u \in Linked \ {KernelEnd} : tail[u].vaddr # b.start
  <2> SUFFICES ASSUME NEW u \in Linked, u # KernelEnd  PROVE tail[u].vaddr # b.start
    OBVIOUS
  <2>1. CASE u <= p
    BY <1>1, <1>3, <2>1 DEF Backward
  <2>2. CASE u = e
    BY <1>1, <1>3, <2>2
  <2>3. CASE u > e
    BY <1>1, <1>3, <2>3, Spaced DEF sizeof_TAIL
  <2> QED
    BY <1>1, <1>4, <2>1, <2>2, <2>3
<1>13. Owned' /\ Counted'
  BY <1>1, <1>5, <1>6, <1>7, <1>8, <1>12, OwnedGrows
<1> QED
  BY <1>9, <1>10, <1>11, <1>13

-----------------------------------------------------------------------------
(* mem_alloc behind the last tail.                                         *)

LEMMA AppendKeepsList ==
    ASSUME IInv, status = "running",
           NEW e \in Linked, NEW t \in Places, NEW b \in Blocks,
           tail[e].next = 0,
           e + sizeof_TAIL <= b.start,
           b.start + b.size <= t,
           tail' = Appended(e, t, b.start),
           live' = live \cup {b}
    PROVE  (First /\ Backward /\ Forward /\ Owned /\ Counted)'
<1>1. /\ TypeOK /\ First /\ Backward /\ Forward /\ Owned /\ Counted
      /\ Linked \subseteq Nat /\ KernelEnd \in Nat
      /\ t \in Nat /\ b.start \in Nat /\ b.size \in Nat
      /\ \A a \in Linked : KernelEnd <= a /\ tail[a].vaddr \in Nat
                           /\ tail[a].prev \in Nat /\ tail[a].next \in Nat
      /\ KernelEnd > 0
  BY Addresses DEF IInv, Blocks, FirstVaddr
<1>2. \A u \in Linked : u <= e
  BY <1>1 DEF Forward
<1>3. e < b.start /\ b.start <= t /\ e < t
  <2>1. e \in Nat
    BY <1>1
  <2> QED
    BY <1>1, <2>1 DEF sizeof_TAIL
<1>4. t \notin Linked /\ t # KernelEnd
  BY <1>1, <1>2, <1>3
<1>5. /\ Linked' = Linked \cup {t}
      /\ tail'[t] = Tail(0, e, b.start)
      /\ tail'[e] = [tail[e] EXCEPT !.next = t]
      /\ \A a \in Linked \ {e} : tail'[a] = tail[a]
  BY <1>4 DEF Appended, Linked
<1>6. /\ tail'[t].next = 0 /\ tail'[t].prev = e /\ tail'[t].vaddr = b.start
      /\ tail'[e].next = t /\ tail'[e].prev = tail[e].prev /\ tail'[e].vaddr = tail[e].vaddr
  <2>1. tail[e] = Tail(tail[e].next, tail[e].prev, tail[e].vaddr)
    BY <1>1, Addresses
  <2> QED
    BY <1>5, <2>1 DEF Tail
<1>7. \A a \in Linked : tail'[a].vaddr = tail[a].vaddr /\ tail'[a].prev = tail[a].prev
  BY <1>5, <1>6
<1>8. First'
  BY <1>1, <1>5, <1>7 DEF First
<1>9. Backward'
  <2> SUFFICES ASSUME NEW a \in Linked \cup {t}, a # KernelEnd
               PROVE  /\ tail'[a].prev \in Linked \cup {t}
                      /\ tail'[tail'[a].prev].next = a
                      /\ tail'[a].prev + sizeof_TAIL <= tail'[a].vaddr
                      /\ tail'[a].vaddr <= a
                      /\ \A u \in Linked \cup {t} : u < a => u <= tail'[a].prev
    BY <1>5 DEF Backward
  <2>1. CASE a = t
    BY <2>1, <1>1, <1>2, <1>3, <1>6
  <2>2. CASE a \in Linked
    <3>1. /\ tail[a].prev \in Linked
          /\ tail[tail[a].prev].next = a
          /\ tail[a].prev + sizeof_TAIL <= tail[a].vaddr
          /\ tail[a].vaddr <= a
          /\ \A u \in Linked : u < a => u <= tail[a].prev
      BY <1>1, <2>2 DEF Backward
    <3>2. tail[a].prev # e
      BY <1>1, <2>2, <3>1
    <3>3. ~ (t < a)
      <4>1. a \in Nat /\ e \in Nat /\ a <= e
        BY <1>1, <1>2, <2>2
      <4> QED
        BY <1>1, <1>3, <4>1
    <3> QED
      BY <1>5, <1>7, <2>2, <3>1, <3>2, <3>3
  <2> QED
    BY <2>1, <2>2
<1>10. Forward'
  <2> SUFFICES ASSUME NEW a \in Linked \cup {t}
               PROVE  /\ tail'[a].next = 0 => \A u \in Linked \cup {t} : u <= a
                      /\ tail'[a].next # 0 =>
                            /\ tail'[a].next \in Linked \cup {t}
                            /\ tail'[a].next > a
                            /\ tail'[tail'[a].next].prev = a
    BY <1>5 DEF Forward
  <2>1. CASE a = t
    BY <2>1, <1>1, <1>2, <1>3, <1>6
  <2>2. CASE a = e
    BY <2>2, <1>1, <1>3, <1>6
  <2>3. CASE a \in Linked /\ a # e
    <3>1. tail'[a].next = tail[a].next
      BY <1>5, <2>3
    <3>2. tail[a].next # 0
      BY <1>1, <1>2, <2>3 DEF Forward
    <3>3. tail[a].next \in Linked /\ tail[a].next > a /\ tail[tail[a].next].prev = a
      BY <1>1, <2>3, <3>2 DEF Forward
    <3> QED
      BY <1>7, <3>1, <3>2, <3>3
  <2> QED
    BY <2>1, <2>2, <2>3
<1>11. \A u \in Linked \ {KernelEnd} : tail[u].vaddr # b.start
  BY <1>1, <1>2, <1>3 DEF Backward
<1>12. Owned' /\ Counted'
  BY <1>1, <1>4, <1>5, <1>6, <1>7, <1>11, OwnedGrows
<1> QED
  BY <1>8, <1>9, <1>10, <1>12

-----------------------------------------------------------------------------
(* mem_free.                                                               *)

LEMMA UnlinkKeepsList ==
    ASSUME IInv, status = "running",
           NEW e \in Linked, e # KernelEnd,
           tail' = Unlinked(e),
           live' = {b \in live : b.start # tail[e].vaddr}
    PROVE  (First /\ Backward /\ Forward /\ Owned /\ Counted)'
<1> DEFINE p == tail[e].prev
           n == tail[e].next
<1>1. /\ TypeOK /\ First /\ Backward /\ Forward /\ Owned /\ Counted
      /\ Linked \subseteq Nat /\ KernelEnd \in Nat
      /\ p \in Nat /\ n \in Nat
      /\ \A a \in Linked : KernelEnd <= a /\ tail[a].vaddr \in Nat
                           /\ tail[a].prev \in Nat /\ tail[a].next \in Nat
      /\ KernelEnd > 0
  BY Addresses DEF IInv, FirstVaddr
<1>2. /\ p \in Linked /\ tail[p].next = e /\ p < e
      /\ p + sizeof_TAIL <= tail[e].vaddr /\ tail[e].vaddr <= e
      /\ \A u \in Linked : u < e => u <= p
  BY <1>1 DEF Backward, sizeof_TAIL
<1>3. /\ n = 0 => \A u \in Linked : u <= e
      /\ n # 0 => n \in Linked /\ n > e /\ tail[n].prev = e
  BY <1>1 DEF Forward
<1>4. 0 \notin Linked /\ p # n
  BY <1>1, <1>2, <1>3
<1>5. /\ Linked' = Linked \ {e}
      /\ tail'[p] = [tail[p] EXCEPT !.next = n]
      /\ n # 0 => tail'[n] = [tail[n] EXCEPT !.prev = p]
      /\ \A a \in Linked \ {e, p, n} : tail'[a] = tail[a]
  BY <1>2, <1>3, <1>4 DEF Unlinked, Linked
<1>6. /\ tail'[p].next = n /\ tail'[p].prev = tail[p].prev /\ tail'[p].vaddr = tail[p].vaddr
      /\ n # 0 => /\ tail'[n].next = tail[n].next
                  /\ tail'[n].prev = p
                  /\ tail'[n].vaddr = tail[n].vaddr
  <2>1. tail[p] = Tail(tail[p].next, tail[p].prev, tail[p].vaddr)
    BY <1>1, <1>2, Addresses
  <2>2. n # 0 => tail[n] = Tail(tail[n].next, tail[n].prev, tail[n].vaddr)
    BY <1>1, <1>3, Addresses
  <2> QED
    BY <1>5, <2>1, <2>2 DEF Tail
<1> HIDE DEF p, n
<1>7. \A a \in Linked \ {e} : tail'[a].vaddr = tail[a].vaddr
  BY <1>4, <1>5, <1>6
<1>8. First'
  <2>1. KernelEnd # n
    BY <1>1, <1>3
  <2>2. KernelEnd = p \/ tail'[KernelEnd] = tail[KernelEnd]
    BY <1>1, <1>5, <2>1 DEF First
  <2> QED
    BY <1>1, <1>5, <1>6, <2>2 DEF First
<1>9. Backward'
  <2> SUFFICES ASSUME NEW a \in Linked \ {e}, a # KernelEnd
               PROVE  /\ tail'[a].prev \in Linked \ {e}
                      /\ tail'[tail'[a].prev].next = a
                      /\ tail'[a].prev + sizeof_TAIL <= tail'[a].vaddr
                      /\ tail'[a].vaddr <= a
                      /\ \A u \in Linked \ {e} : u < a => u <= tail'[a].prev
    BY <1>5 DEF Backward
  <2>1. /\ tail[a].prev \in Linked
        /\ tail[tail[a].prev].next = a
        /\ tail[a].prev + sizeof_TAIL <= tail[a].vaddr
        /\ tail[a].vaddr <= a
        /\ \A u \in Linked : u < a => u <= tail[a].prev
    BY <1>1 DEF Backward
  <2>2. CASE a = n
    <3>1. n # 0 /\ tail[n].prev = e
      BY <1>3, <1>4, <2>2
    <3>2. p + sizeof_TAIL <= tail[n].vaddr
      BY <1>1, <1>2, <2>1, <2>2, <3>1 DEF sizeof_TAIL
    <3>3. \A u \in Linked \ {e} : u < n => u <= p
      BY <1>1, <1>2, <2>1, <2>2, <3>1
    <3> QED
      BY <1>2, <1>6, <2>1, <2>2, <3>1, <3>2, <3>3
  <2>3. CASE a # n
    <3>1. tail'[a].prev = tail[a].prev
      BY <1>5, <1>6, <2>3
    <3>2. tail[a].prev # e /\ tail[a].prev # p
      BY <1>2, <2>1, <2>3 DEF n
    <3>3. tail'[tail[a].prev].next = a
      BY <1>4, <1>5, <1>6, <2>1, <3>2
    <3> QED
      BY <1>7, <2>1, <3>1, <3>2, <3>3
  <2> QED
    BY <2>2, <2>3
<1>10. Forward'
  <2> SUFFICES ASSUME NEW a \in Linked \ {e}
               PROVE  /\ tail'[a].next = 0 => \A u \in Linked \ {e} : u <= a
                      /\ tail'[a].next # 0 =>
                            /\ tail'[a].next \in Linked \ {e}
                            /\ tail'[a].next > a
                            /\ tail'[tail'[a].next].prev = a
    BY <1>5 DEF Forward
  <2>1. CASE a = p
    BY <1>1, <1>2, <1>3, <1>6, <2>1
  <2>2. CASE a # p
    <3>1. /\ tail[a].next = 0 => \A u \in Linked : u <= a
          /\ tail[a].next # 0 =>
                /\ tail[a].next \in Linked
                /\ tail[a].next > a
                /\ tail[tail[a].next].prev = a
      BY <1>1 DEF Forward
    <3>2. tail'[a].next = tail[a].next
      BY <1>4, <1>5, <1>6, <2>2
    <3>3. tail[a].next # 0 => tail[a].next # e /\ tail[a].next # n
      BY <1>3, <2>2, <3>1 DEF p
    <3>4. ASSUME tail[a].next # 0  PROVE tail'[tail[a].next].prev = a
      <4>1. tail[a].next \in Linked \ {e} /\ tail[a].next # n
        BY <3>1, <3>3, <3>4
      <4>2. tail'[tail[a].next].prev = tail[tail[a].next].prev
        BY <1>5, <1>6, <4>1
      <4> QED
        BY <3>1, <3>4, <4>2
    <3> QED
      BY <3>1, <3>2, <3>3, <3>4
  <2> QED
    BY <2>1, <2>2
<1>11. \A u \in Linked \ {e, KernelEnd} : tail[u].vaddr # tail[e].vaddr
  <2> SUFFICES ASSUME NEW u \in Linked, u # e, u # KernelEnd  PROVE tail[u].vaddr # tail[e].vaddr
    OBVIOUS
  <2>1. CASE u < e
    <3>1. u + sizeof_TAIL <= tail[e].vaddr
      BY <2>1, Spaced
    <3> QED
      BY <1>1, <3>1 DEF Backward, sizeof_TAIL
  <2>2. CASE e < u
    <3>1. e + sizeof_TAIL <= tail[u].vaddr
      BY <2>2, Spaced
    <3> QED
      BY <1>1, <1>2, <3>1 DEF sizeof_TAIL
  <2> QED
    BY <1>1, <2>1, <2>2
<1>12. PICK b \in live : b.start = tail[e].vaddr
  BY <1>1 DEF Owned
<1>13. live' = live \ {b}
  BY <1>1, <1>12 DEF Owned
<1>14. Owned'
  <2>1. \A c \in live \ {b} : \E u \in Linked \ {e, KernelEnd} :
            tail'[u].vaddr = c.start /\ c.start + c.size <= u
    <3> SUFFICES ASSUME NEW c \in live, c # b
                 PROVE  \E u \in Linked \ {e, KernelEnd} :
                           tail'[u].vaddr = c.start /\ c.start + c.size <= u
      OBVIOUS
    <3>1. PICK u \in Linked \ {KernelEnd} : tail[u].vaddr = c.start /\ c.start + c.size <= u
      BY <1>1 DEF Owned
    <3>2. u # e
      BY <1>1, <1>12, <3>1 DEF Owned
    <3> QED
      BY <1>7, <3>1, <3>2
  <2>2. \A u \in Linked \ {e, KernelEnd} : \E c \in live \ {b} : c.start = tail'[u].vaddr
    <3> SUFFICES ASSUME NEW u \in Linked \ {e, KernelEnd}
                 PROVE  \E c \in live \ {b} : c.start = tail'[u].vaddr
      OBVIOUS
    <3>1. PICK c \in live : c.start = tail[u].vaddr
      BY <1>1 DEF Owned
    <3>2. c # b
      BY <1>11, <1>12, <3>1
    <3> QED
      BY <1>7, <3>1, <3>2
  <2> QED
    BY <1>1, <1>5, <1>13, <2>1, <2>2 DEF Owned
<1>15. Counted'
  <2>1. IsFiniteSet(live') /\ Cardinality(live') = Cardinality(live) - 1
    BY <1>1, <1>13, FS_RemoveElement DEF Counted
  <2>2. Cardinality(Linked') = Cardinality(Linked) - 1
    BY <1>1, <1>5, FiniteTails, FS_RemoveElement
  <2>3. Cardinality(Linked) \in Nat
    BY <1>1, FiniteTails, FS_CardinalityType
  <2> QED
    BY <1>1, <2>1, <2>2, <2>3 DEF Counted
<1> QED
  BY <1>8, <1>9, <1>10, <1>14, <1>15

-----------------------------------------------------------------------------
(* The steps.                                                              *)

\* A block mem_alloc grants starts at the alignment that was asked for and
\* overlaps no block in use, whether it goes into a gap or behind the list.
Granted ==
    \E b \in Blocks :
        /\ live' = live \cup {b}
        /\ Abstract!AtAlignment(b)
        /\ \A c \in live : Abstract!Apart(b, c)

LEMMA InsertStep ==
    ASSUME IInv, NEW r \in Requests, mem_alloc_insert(r), status = "running",
           UNCHANGED mem_listStart
    PROVE  IInv' /\ Granted /\ ret'.call = "mem_alloc"
<1>1. PICK e \in Linked :
          /\ Fits(e, r)
          /\ mem_alloc_check_page(inserted_entry(e, r))
          /\ tail' = Inserted(e, inserted_entry(e, r), inserted_start(e, r))
          /\ Grant(r, inserted_start(e, r))
          /\ status' = IF inserted_entry(e, r) + sizeof_TAIL <= tail[e].vaddr
                       THEN "running" ELSE "corrupt"
  BY DEF mem_alloc_insert, Linked
<1> DEFINE start == inserted_start(e, r)
           t == inserted_entry(e, r)
           b == [start |-> start, size |-> r.size, align |-> r.align]
<1>2. TypeOK /\ tail[e].prev \in Places
  BY <1>1, Addresses DEF IInv, Fits
<1>3. /\ start \in Nat /\ t \in Nat /\ r.size \in Nat /\ r.align \in Nat
      /\ tail[e].prev + sizeof_TAIL <= start
      /\ start + r.size <= t
      /\ start + r.size + sizeof_TAIL <= tail[e].vaddr
      /\ r.align # 0 => start % r.align = 0
  BY <1>1, <1>2, GapPlaces
<1>4. t + sizeof_TAIL <= WindowEnd
  BY <1>1 DEF mem_alloc_check_page
<1>5. /\ tail' = Inserted(e, t, start)
      /\ live' = live \cup {b}
      /\ ret' = Returned("mem_alloc", start, 0)
      /\ status' = IF t + sizeof_TAIL <= tail[e].vaddr THEN "running" ELSE "corrupt"
  BY <1>1 DEF Grant
<1> HIDE DEF start, t
<1>6. t \in Places /\ start \in Places
  <2>1. /\ KernelEnd \in Nat /\ KernelEnd <= tail[e].prev /\ tail[e].prev \in Nat
        /\ WindowEnd \in Nat
    BY <1>2, Addresses
  <2> QED
    BY <1>3, <1>4, <2>1 DEF Places, sizeof_TAIL
<1>7. b \in Blocks /\ b.start = start /\ b.size = r.size /\ b.align = r.align
  BY <1>3, <1>6 DEF Blocks
<1> HIDE DEF b
<1>8. TypeOK'
  <2> DEFINE f == Constructed(e, t, start)
  <2>1. f \in [Linked \cup {t} -> Tails]
    <3>1. /\ \A a \in Linked : tail[a] \in Tails
          /\ Tail(e, tail[e].prev, start) \in Tails
      BY <1>2, <1>6 DEF TypeOK, Tails, Tail, Linked
    <3> QED
      BY <3>1 DEF Constructed, Linked
  <2>2. tail' \in [Linked \cup {t} -> Tails]
    <3>1. \A x \in Tails : /\ [x EXCEPT !.prev = t] \in Tails
                           /\ [x EXCEPT !.next = t] \in Tails
      BY <1>6 DEF Tails
    <3> DEFINE g == [f EXCEPT ![tail[e].prev] = [f[tail[e].prev] EXCEPT !.next = t]]
    <3>2. g \in [Linked \cup {t} -> Tails]
      <4> HIDE DEF f
      <4> QED
        BY <2>1, <3>1
    <3>3. tail' = [g EXCEPT ![e] = [g[e] EXCEPT !.prev = t]]
      <4> HIDE DEF f
      <4> QED
        BY <1>5, <2>1 DEF Inserted, f
    <3> HIDE DEF g
    <3> QED
      BY <3>1, <3>2, <3>3
  <2>3. ret' \in [call : {"none", "mem_alloc", "mem_free"}, addr : Nat, code : Nat]
    BY <1>3, <1>5 DEF Returned
  <2>4. status' \in {"running", "corrupt"}
    BY <1>5
  <2> QED
    <3>1. DOMAIN tail' \subseteq Places /\ \A a \in DOMAIN tail' : tail'[a] \in Tails
      BY <1>2, <1>6, <2>2, Addresses
    <3> QED
      BY <1>2, <1>5, <1>7, <2>3, <2>4, <3>1 DEF TypeOK
<1>9. status' = "running" => (First /\ Backward /\ Forward /\ Owned /\ Counted)'
  BY <1>2, <1>3, <1>5, <1>6, <1>7, InsertKeepsList
<1>10. \A c \in live : Abstract!Apart(b, c)
  <2> SUFFICES ASSUME NEW c \in live
               PROVE  start + r.size <= c.start \/ c.start + c.size <= start
    BY <1>7 DEF Abstract!Apart
  <2>1. PICK u \in Linked \ {KernelEnd} : tail[u].vaddr = c.start /\ c.start + c.size <= u
    BY DEF IInv, Owned
  <2>2. /\ u \in Nat /\ e \in Nat /\ tail[u].vaddr \in Nat /\ tail[e].vaddr \in Nat
        /\ c.size \in Nat /\ tail[e].prev \in Nat
    BY <1>2, Addresses DEF FirstVaddr, TypeOK, Blocks
  <2>3. CASE u < e
    BY <1>3, <2>1, <2>2, <2>3, Spaced DEF sizeof_TAIL
  <2>4. CASE u = e
    BY <1>3, <2>1, <2>2, <2>4 DEF sizeof_TAIL
  <2>5. CASE e < u
    <3>1. e # KernelEnd
      BY <1>2, Addresses DEF IInv, First, FirstVaddr
    <3>2. e + sizeof_TAIL <= tail[u].vaddr /\ tail[e].vaddr <= e
      BY <2>5, <3>1, Spaced DEF IInv, Backward
    <3> QED
      BY <1>3, <2>1, <2>2, <3>2 DEF sizeof_TAIL
  <2> QED
    BY <2>2, <2>3, <2>4, <2>5
<1>11. Granted
  BY <1>3, <1>5, <1>7, <1>10 DEF Granted, Abstract!AtAlignment
<1> QED
  BY <1>5, <1>8, <1>9, <1>11 DEF IInv, Returned

LEMMA AppendStep ==
    ASSUME IInv, NEW r \in Requests, mem_alloc_append(r), status = "running",
           UNCHANGED mem_listStart
    PROVE  IInv' /\ Granted /\ ret'.call = "mem_alloc"
<1>1. PICK e \in Linked :
          /\ tail[e].next = 0
          /\ mem_alloc_check_page(append_start(e, r) + r.size)
          /\ tail' = Appended(e, append_start(e, r) + r.size, append_start(e, r))
          /\ Grant(r, append_start(e, r))
          /\ UNCHANGED status
  BY DEF mem_alloc_append, Linked
<1> DEFINE start == append_start(e, r)
           t == start + r.size
           b == [start |-> start, size |-> r.size, align |-> r.align]
<1>2. /\ TypeOK /\ e \in Places /\ e \in Nat /\ KernelEnd \in Nat /\ KernelEnd <= e
      /\ WindowEnd \in Nat
  BY Addresses DEF IInv
<1>3. /\ start \in Nat /\ t \in Nat /\ r.size \in Nat /\ r.align \in Nat
      /\ e + sizeof_TAIL <= start
      /\ r.align # 0 => start % r.align = 0
  <2>1. r.size \in Nat /\ r.align \in Nat
    <3>1. r \in [size : Nat, align : Nat]
      BY HeapAssumption
    <3> QED
      BY <3>1
  <2>2. e + sizeof_TAIL \in Nat
    BY <1>2 DEF sizeof_TAIL
  <2>3. start = AlignUp(e + sizeof_TAIL, r.align)
    BY DEF append_start
  <2>4. /\ start \in Nat /\ e + sizeof_TAIL <= start
        /\ r.align # 0 => start % r.align = 0
    BY <2>1, <2>2, <2>3, AlignUpFits
  <2> HIDE DEF start
  <2> QED
    BY <2>1, <2>4
<1>4. t + sizeof_TAIL <= WindowEnd
  BY <1>1 DEF mem_alloc_check_page
<1>5. /\ tail' = Appended(e, t, start)
      /\ live' = live \cup {b}
      /\ ret' = Returned("mem_alloc", start, 0)
      /\ status' = "running"
  BY <1>1 DEF Grant
<1>6. start + r.size = t
  OBVIOUS
<1> HIDE DEF start, t
<1>7. t \in Places /\ start \in Places
  BY <1>2, <1>3, <1>4, <1>6 DEF Places, sizeof_TAIL
<1>8. b \in Blocks /\ b.start = start /\ b.size = r.size /\ b.align = r.align
  BY <1>3, <1>7 DEF Blocks
<1> HIDE DEF b
<1>9. TypeOK'
  <2>1. \A a \in Linked \cup {t} : Appended(e, t, start)[a] \in Tails
    <3> SUFFICES ASSUME NEW a \in Linked \cup {t}
                 PROVE  Appended(e, t, start)[a] \in Tails
      OBVIOUS
    <3>1. /\ a # t => tail[a] \in Tails
          /\ Tail(0, e, start) \in Tails
      BY <1>2, <1>7 DEF TypeOK, Tails, Tail, Linked
    <3>2. a # t => [tail[a] EXCEPT !.next = t] \in Tails
      BY <1>7, <3>1 DEF Tails
    <3>3. CASE a = t
      BY <1>2, <1>3, <1>6, <3>1, <3>3 DEF Appended, Linked, sizeof_TAIL
    <3>4. CASE a # t /\ a = e
      BY <3>2, <3>4 DEF Appended, Linked
    <3>5. CASE a # t /\ a # e
      BY <3>1, <3>5 DEF Appended, Linked
    <3> QED
      BY <3>3, <3>4, <3>5
  <2>2. DOMAIN tail' = Linked \cup {t}
    BY <1>5 DEF Appended, Linked
  <2>3. ret' \in [call : {"none", "mem_alloc", "mem_free"}, addr : Nat, code : Nat]
    BY <1>3, <1>5 DEF Returned
  <2> QED
    BY <1>2, <1>5, <1>7, <1>8, <2>1, <2>2, <2>3 DEF TypeOK, Linked
<1>10. (First /\ Backward /\ Forward /\ Owned /\ Counted)'
  BY <1>1, <1>3, <1>5, <1>6, <1>7, <1>8, AppendKeepsList
<1>11. \A c \in live : Abstract!Apart(b, c)
  <2> SUFFICES ASSUME NEW c \in live
               PROVE  start + r.size <= c.start \/ c.start + c.size <= start
    BY <1>8 DEF Abstract!Apart
  <2>1. PICK u \in Linked \ {KernelEnd} : tail[u].vaddr = c.start /\ c.start + c.size <= u
    BY DEF IInv, Owned
  <2>2. u \in Nat /\ u <= e /\ c.start \in Nat /\ c.size \in Nat
    BY <1>1, <1>2, Addresses DEF IInv, Forward, TypeOK, Blocks
  <2> QED
    BY <1>2, <1>3, <2>1, <2>2 DEF sizeof_TAIL
<1>12. Granted
  BY <1>3, <1>5, <1>8, <1>11 DEF Granted, Abstract!AtAlignment
<1> QED
  BY <1>5, <1>9, <1>10, <1>12 DEF IInv, Returned

\* What mem_free looks for is found in exactly one tail, never the kernel's,
\* if it is a block's address, and otherwise in none.
LEMMA FreeFinds ==
    ASSUME IInv, status = "running", NEW addr,
           (\E b \in live : b.start = addr) \/ addr \in BadAddresses,
           addr # FirstVaddr
    PROVE  /\ \A e \in Linked : Holds(e, addr) => e # KernelEnd
           /\ (\E b \in live : b.start = addr) <=> \E e \in Linked : Holds(e, addr)
           /\ addr \in Nat
<1>1. /\ TypeOK
      /\ KernelEnd \in Nat /\ KernelEnd > FirstVaddr
      /\ \A t \in Linked : tail[t].vaddr \in Nat /\ tail[t].vaddr >= FirstVaddr
      /\ \A b \in live : b.start \in Nat /\ b.start >= KernelEnd
      /\ addr \in BadAddresses => addr \in Nat
  <2>1. TypeOK
    BY DEF IInv
  <2>2. /\ KernelEnd \in Nat /\ KernelEnd > FirstVaddr
        /\ \A t \in Linked : tail[t].vaddr \in Nat /\ tail[t].vaddr >= FirstVaddr
        /\ \A t \in Places : t \in Nat /\ t >= KernelEnd
    BY <2>1, Addresses DEF FirstVaddr
  <2>3. \A b \in live : b.start \in Places
    BY <2>1 DEF TypeOK, Blocks
  <2>4. addr \in BadAddresses => addr \in Nat
    <3>1. BadAddresses \subseteq 1 .. FirstVaddr
      BY HeapAssumption
    <3> QED
      BY <3>1, SMTT(30) DEF FirstVaddr
  <2> QED
    BY <2>1, <2>2, <2>3, <2>4
<1>2. addr \in Nat
  BY <1>1
<1>3. \A e \in Linked : Holds(e, addr) => e # KernelEnd
  BY <1>2 DEF IInv, First, Holds
<1>4. ASSUME NEW b \in live, b.start = addr  PROVE \E e \in Linked : Holds(e, addr)
  BY <1>4 DEF IInv, Owned, Holds
<1>5. ASSUME NEW e \in Linked, Holds(e, addr)  PROVE \E b \in live : b.start = addr
  BY <1>3, <1>5 DEF IInv, Owned, Holds
<1> QED
  BY <1>2, <1>3, <1>4, <1>5

\* Only the kernel's own tail holds the address it was given by mem_init.
LEMMA FirstAlone ==
    ASSUME IInv, status = "running", NEW e \in Linked, tail[e].vaddr = FirstVaddr
    PROVE  e = KernelEnd
<1>1. /\ KernelEnd \in Nat /\ KernelEnd > FirstVaddr
      /\ \A t \in Linked : t \in Nat /\ KernelEnd <= t
  BY Addresses DEF IInv
<1>2. e # KernelEnd => tail[e].prev \in Linked /\ tail[e].prev + sizeof_TAIL <= tail[e].vaddr
  BY DEF IInv, Backward
<1> QED
  BY <1>1, <1>2 DEF FirstVaddr, sizeof_TAIL

\* mem_free of the address the kernel's tail holds gives back no block.
LEMMA FreeFirstStep ==
    ASSUME IInv, mem_free(FirstVaddr)
    PROVE  /\ IInv'
           /\ live' = live
           /\ ret' = Returned("mem_free", FirstVaddr, 0)
<1>1. /\ status = "running" /\ mem_listStart' = mem_listStart /\ mem_listStart = KernelEnd
      /\ live' = {b \in live : b.start # FirstVaddr}
      /\ TypeOK
  BY DEF IInv, mem_free
<1>2. live' = live
  <2>1. \A b \in live : b.start \in Nat /\ b.start >= KernelEnd
    <3>1. \A b \in live : b.start \in Places
      BY <1>1 DEF TypeOK, Blocks
    <3> QED
      BY <1>1, <3>1, Addresses
  <2>2. \A b \in live : b.start # FirstVaddr
    BY <1>1, <2>1, Addresses DEF FirstVaddr
  <2> QED
    BY <1>1, <2>2
<1>3. unlink_first /\ ret' = Returned("mem_free", FirstVaddr, 0)
  <2>1. KernelEnd \in Linked /\ tail[KernelEnd].vaddr = FirstVaddr
    BY <1>1 DEF IInv, First
  <2>2. PICK e \in Linked : /\ Holds(e, FirstVaddr)
                            /\ IF e = mem_listStart
                               THEN unlink_first
                               ELSE tail' = Unlinked(e) /\ UNCHANGED status
                            /\ ret' = Returned("mem_free", FirstVaddr, 0)
    BY <2>1 DEF mem_free, Holds, Linked
  <2>3. e = mem_listStart
    BY <1>1, <2>2, FirstAlone DEF Holds
  <2> QED
    BY <2>2, <2>3
<1>4. TypeOK'
  <2>1. Linked' = Linked /\ \A a \in Linked : tail'[a] = tail[a] \/ tail'[a] = [tail[a] EXCEPT !.prev = 0]
    BY <1>3 DEF unlink_first, Linked
  <2>2. \A a \in Linked : tail[a] \in Tails /\ [tail[a] EXCEPT !.prev = 0] \in Tails
    BY <1>1 DEF TypeOK, Tails, Linked
  <2>3. \A a \in Linked' : tail'[a] \in Tails
    BY <2>1, <2>2
  <2>4. ret' \in [call : {"none", "mem_alloc", "mem_free"}, addr : Nat, code : Nat]
    BY <1>3 DEF Returned, FirstVaddr
  <2>5. status' \in {"running", "corrupt", "damaged"}
    BY <1>1, <1>3 DEF unlink_first
  <2> QED
    BY <1>1, <1>2, <2>1, <2>3, <2>4, <2>5 DEF TypeOK, Linked
<1>5. CASE tail[KernelEnd].next = 0
  <2>1. tail' = tail /\ status' = status
    BY <1>1, <1>3, <1>5 DEF unlink_first
  <2> QED
    BY <1>1, <1>2, <1>3, <1>4, <2>1 DEF IInv, First, Backward, Forward, Owned, Counted, Linked
<1>6. CASE tail[KernelEnd].next # 0
  <2>1. status' = "damaged"
    BY <1>1, <1>3, <1>6 DEF unlink_first
  <2> QED
    BY <1>1, <1>2, <1>3, <1>4, <2>1 DEF IInv
<1> QED
  BY <1>5, <1>6

\* mem_free of any other address keeps the list.
LEMMA FreeStep ==
    ASSUME IInv, NEW addr, mem_free(addr), addr # FirstVaddr,
           (\E b \in live : b.start = addr) \/ addr \in BadAddresses
    PROVE  /\ IInv'
           /\ live' = live \/ \E b \in live : live' = live \ {b}
           /\ ret' = Returned("mem_free", addr, IF \E b \in live : b.start = addr THEN 0 ELSE 1)
<1>0. \A e \in Linked : Holds(e, addr) => e # mem_listStart
  BY FreeFinds DEF IInv, mem_free
<1>1. /\ status = "running" /\ status' = "running"
      /\ mem_listStart' = mem_listStart
      /\ live' = {b \in live : b.start # addr}
      /\ TypeOK
  BY <1>0 DEF IInv, mem_free, Linked
<1>2. /\ \A e \in Linked : Holds(e, addr) => e # KernelEnd
      /\ (\E b \in live : b.start = addr) <=> \E e \in Linked : Holds(e, addr)
      /\ addr \in Nat
  BY <1>1, FreeFinds
<1>3. CASE \E b \in live : b.start = addr
  <2>1. PICK e \in Linked : /\ Holds(e, addr)
                            /\ tail' = Unlinked(e)
                            /\ ret' = Returned("mem_free", addr, 0)
    BY <1>0, <1>2, <1>3 DEF mem_free, Linked
  <2>2. e # KernelEnd /\ tail[e].vaddr = addr
    BY <1>2, <2>1 DEF Holds
  <2>3. (First /\ Backward /\ Forward /\ Owned /\ Counted)'
    BY <1>1, <2>1, <2>2, UnlinkKeepsList
  <2>4. \E b \in live : live' = live \ {b}
    <3>1. PICK b \in live : b.start = addr
      BY <1>3
    <3>2. live' = live \ {b}
      BY <1>1, <3>1 DEF IInv, Owned
    <3> QED
      BY <3>2
  <2>5. TypeOK'
    <3>1. tail[e].next \in Places \cup {0} /\ tail[e].prev \in Places \cup {0}
      BY <1>1, Addresses
    <3>2. \A a \in Linked \ {e} : Unlinked(e)[a] \in Tails
      <4> SUFFICES ASSUME NEW a \in Linked, a # e
                   PROVE  Unlinked(e)[a] \in Tails
        OBVIOUS
      <4>1. tail[a] \in Tails
        BY <1>1 DEF TypeOK, Linked
      <4>2. /\ [tail[a] EXCEPT !.next = tail[e].next] \in Tails
            /\ [tail[a] EXCEPT !.prev = tail[e].prev] \in Tails
        BY <3>1, <4>1 DEF Tails
      <4>3. Unlinked(e)[a] =
                CASE a = tail[e].prev -> [tail[a] EXCEPT !.next = tail[e].next]
                  [] a = tail[e].next -> [tail[a] EXCEPT !.prev = tail[e].prev]
                  [] OTHER            -> tail[a]
        BY DEF Unlinked, Linked
      <4> QED
        BY <4>1, <4>2, <4>3
    <3>3. DOMAIN tail' = Linked \ {e}
      BY <2>1 DEF Unlinked, Linked
    <3>4. ret' \in [call : {"none", "mem_alloc", "mem_free"}, addr : Nat, code : Nat]
      BY <1>2, <2>1 DEF Returned
    <3> QED
      BY <1>1, <2>1, <3>2, <3>3, <3>4 DEF TypeOK, Linked
  <2> QED
    BY <1>1, <1>3, <2>1, <2>3, <2>4, <2>5 DEF IInv
<1>4. CASE ~ \E b \in live : b.start = addr
  <2>1. ret' = Returned("mem_free", addr, 1) /\ tail' = tail
    BY <1>2, <1>4 DEF mem_free, Linked
  <2>2. live' = live
    BY <1>1, <1>4
  <2>3. ret' \in [call : {"none", "mem_alloc", "mem_free"}, addr : Nat, code : Nat]
    BY <1>2, <2>1 DEF Returned
  <2>4. IInv'
    BY <1>1, <2>1, <2>2, <2>3
       DEF IInv, TypeOK, First, Backward, Forward, Owned, Counted, Linked
  <2> QED
    BY <1>4, <2>1, <2>2, <2>4
<1> QED
  BY <1>3, <1>4

LEMMA NextIInv == IInv /\ [Next]_vars => IInv'
<1> SUFFICES ASSUME IInv, [Next]_vars  PROVE IInv'
  OBVIOUS
<1>1. ASSUME NEW r \in Requests, mem_alloc(r)  PROVE IInv'
  BY <1>1, InsertStep, AppendStep DEF mem_alloc
<1>2. ASSUME NEW b \in live, mem_free(b.start)  PROVE IInv'
  BY <1>2, FreeStep, FreeFirstStep
<1>3. ASSUME NEW addr \in BadAddresses, mem_free(addr)  PROVE IInv'
  BY <1>3, FreeStep, FreeFirstStep
<1>4. CASE UNCHANGED vars
  BY <1>4 DEF vars, IInv, TypeOK, First, Backward, Forward, Owned, Counted, Linked
<1> QED
  BY <1>1, <1>2, <1>3, <1>4 DEF Next

-----------------------------------------------------------------------------
(* The walk from mem_listStart.                                            *)

\* The tails below an address.
Below(t) == {u \in Linked : u < t}

\* The higher of two tails has more tails below it.
LEMMA BelowGrows ==
    ASSUME TypeOK, NEW t \in Linked, NEW u \in Linked, t < u
    PROVE  Cardinality(Below(t)) < Cardinality(Below(u))
<1>1. /\ Linked \subseteq Nat
      /\ IsFiniteSet(Linked)
  BY Addresses, FiniteTails
<1>2. Below(u) \in SUBSET Linked /\ Below(t) \in SUBSET Below(u)
  <2>1. \A a \in Linked : a < t => a < u
    BY <1>1
  <2> QED
    BY <2>1 DEF Below
<1>3. t \in Below(u) /\ t \notin Below(t)
  BY <1>1 DEF Below
<1>4. IsFiniteSet(Below(u))
  BY <1>1, <1>2, FS_Subset
<1>5. /\ Cardinality(Below(t)) <= Cardinality(Below(u))
      /\ Cardinality(Below(u)) = Cardinality(Below(t)) => Below(u) = Below(t)
      /\ IsFiniteSet(Below(t))
  BY <1>2, <1>4, FS_Subset
<1>6. Cardinality(Below(t)) \in Nat /\ Cardinality(Below(u)) \in Nat
  BY <1>4, <1>5, FS_CardinalityType
<1> QED
  BY <1>3, <1>5, <1>6

\* next leads from a tail to the one with just one more below it.
LEMMA BelowNext ==
    ASSUME IInv, status = "running", NEW t \in Linked, tail[t].next # 0
    PROVE  /\ tail[t].next \in Linked
           /\ Cardinality(Below(tail[t].next)) = Cardinality(Below(t)) + 1
<1> DEFINE n == tail[t].next
<1>1. n \in Linked /\ n > t /\ tail[n].prev = t
  BY DEF IInv, Forward
<1>2. Linked \subseteq Nat /\ IsFiniteSet(Linked) /\ KernelEnd \in Nat /\ \A u \in Linked : KernelEnd <= u
  BY Addresses, FiniteTails DEF IInv
<1>3. n # KernelEnd
  BY <1>1, <1>2
<1>4. \A u \in Linked : u < n => u <= t
  BY <1>1, <1>3 DEF IInv, Backward
<1> HIDE DEF n
<1>5. Below(n) = Below(t) \cup {t}
  BY <1>1, <1>2, <1>4 DEF Below
<1>6. t \notin Below(t) /\ Below(t) \in SUBSET Linked
  BY <1>2 DEF Below
<1>7. IsFiniteSet(Below(t))
  BY <1>2, <1>6, FS_Subset
<1>8. Cardinality(Below(t) \cup {t}) = Cardinality(Below(t)) + 1
  BY <1>6, <1>7, FS_AddElement
<1> QED
  BY <1>1, <1>5, <1>8 DEF n

\* The equation of Walk has a solution, found by adding one tail at a time.
LEMMA WalkExists ==
    \A n \in Nat : \E f : f = [i \in 0 .. n - 1 |-> IF i = 0 THEN mem_listStart ELSE tail[f[i - 1]].next]
<1> DEFINE S == {n \in Nat : \E f : f = [i \in 0 .. n - 1 |->
                                IF i = 0 THEN mem_listStart ELSE tail[f[i - 1]].next]}
<1>1. 0 \in S
  <2> DEFINE f == [i \in {} |-> 0]
  <2>1. f = [i \in 0 .. 0 - 1 |-> IF i = 0 THEN mem_listStart ELSE tail[f[i - 1]].next]
    OBVIOUS
  <2> QED
    BY <2>1
<1>2. ASSUME NEW n \in S  PROVE n + 1 \in S
  <2>1. n \in Nat
    OBVIOUS
  <2>2. PICK f : f = [i \in 0 .. n - 1 |-> IF i = 0 THEN mem_listStart ELSE tail[f[i - 1]].next]
    OBVIOUS
  <2> DEFINE last == IF n = 0 THEN mem_listStart ELSE tail[f[n - 1]].next
             g == [i \in 0 .. n |-> IF i = n THEN last ELSE f[i]]
  <2>3. \A i \in 0 .. n : g[i] = IF i = 0 THEN mem_listStart ELSE tail[g[i - 1]].next
    <3> SUFFICES ASSUME NEW i \in 0 .. n
                 PROVE  g[i] = IF i = 0 THEN mem_listStart ELSE tail[g[i - 1]].next
      OBVIOUS
    <3>1. i # 0 => g[i - 1] = f[i - 1]
      BY <2>1
    <3>2. CASE i = n
      BY <2>1, <3>1, <3>2
    <3>3. CASE i # n
      <4>1. i \in 0 .. n - 1
        BY <2>1, <3>3
      <4>2. f[i] = IF i = 0 THEN mem_listStart ELSE tail[f[i - 1]].next
        BY <2>2, <4>1
      <4> QED
        BY <3>1, <3>3, <4>2
    <3> QED
      BY <3>2, <3>3
  <2>4. g = [i \in 0 .. n |-> IF i = 0 THEN mem_listStart ELSE tail[g[i - 1]].next]
    <3>1. g = [i \in 0 .. n |-> g[i]]
      OBVIOUS
    <3> HIDE DEF g
    <3> QED
      BY <2>3, <3>1
  <2>5. (n + 1) - 1 = n /\ n + 1 \in Nat
    BY <2>1
  <2> HIDE DEF g
  <2> QED
    BY <2>4, <2>5
<1>3. Nat \subseteq S
  <2> HIDE DEF S
  <2> QED
    BY <1>1, <1>2, InductiveSet
<1> QED
  BY <1>3

LEMMA WalkStep ==
    ASSUME TypeOK, NEW i \in 0 .. Cardinality(Linked) - 1
    PROVE  /\ DOMAIN Walk = 0 .. Cardinality(Linked) - 1
           /\ Walk[i] = IF i = 0 THEN mem_listStart ELSE tail[Walk[i - 1]].next
<1>1. Cardinality(Linked) \in Nat
  BY FiniteTails, FS_CardinalityType
<1>2. Walk = [j \in 0 .. Cardinality(Linked) - 1 |->
                IF j = 0 THEN mem_listStart ELSE tail[Walk[j - 1]].next]
  BY <1>1, WalkExists DEF Walk, Linked
<1> QED
  BY <1>2

\* After i steps the walk is at the tail with i others below it.
LEMMA WalkRanks ==
    ASSUME IInv, status = "running"
    PROVE  \A i \in 0 .. Cardinality(Linked) - 1 :
              Walk[i] \in Linked /\ Cardinality(Below(Walk[i])) = i
<1> DEFINE N == Cardinality(Linked)
           S == {i \in Nat : i < N => Walk[i] \in Linked /\ Cardinality(Below(Walk[i])) = i}
<1>1. TypeOK /\ IsFiniteSet(Linked) /\ N \in Nat /\ Linked \subseteq Nat
  BY FiniteTails, FS_CardinalityType, Addresses DEF IInv
<1>2. 0 \in S
  <2> SUFFICES ASSUME 0 < N
               PROVE  Walk[0] \in Linked /\ Cardinality(Below(Walk[0])) = 0
    OBVIOUS
  <2>1. Walk[0] = KernelEnd
    BY <1>1, WalkStep DEF IInv
  <2>2. Below(KernelEnd) = {}
    <3>1. KernelEnd \in Nat /\ \A u \in Linked : u \in Nat /\ KernelEnd <= u
      BY <1>1, Addresses
    <3> QED
      BY <3>1 DEF Below
  <2> QED
    BY <2>1, <2>2, FS_EmptySet DEF IInv, First
<1>3. ASSUME NEW i \in S  PROVE i + 1 \in S
  <2> SUFFICES ASSUME i + 1 < N
               PROVE  Walk[i + 1] \in Linked /\ Cardinality(Below(Walk[i + 1])) = i + 1
    OBVIOUS
  <2>1. i \in Nat /\ i < N /\ i + 1 \in 0 .. N - 1 /\ i + 1 # 0 /\ (i + 1) - 1 = i
    BY <1>1
  <2>2. Walk[i] \in Linked /\ Cardinality(Below(Walk[i])) = i
    BY <2>1
  <2>3. Walk[i + 1] = tail[Walk[i]].next
    BY <1>1, <2>1, WalkStep
  <2>4. tail[Walk[i]].next # 0
    <3> SUFFICES ASSUME tail[Walk[i]].next = 0  PROVE FALSE
      OBVIOUS
    <3>1. \A u \in Linked : u <= Walk[i]
      BY <2>2 DEF IInv, Forward
    <3>2. Linked = Below(Walk[i]) \cup {Walk[i]} /\ Walk[i] \notin Below(Walk[i])
      <4> DEFINE w == Walk[i]
      <4>1. w \in Linked /\ w \in Nat /\ \A u \in Linked : u \in Nat /\ u <= w
        BY <1>1, <2>2, <3>1
      <4> HIDE DEF w
      <4>2. \A u \in Linked : u < w \/ u = w
        BY <4>1
      <4>3. ~ (w < w)
        BY <4>1
      <4>4. Linked = Below(w) \cup {w} /\ w \notin Below(w)
        BY <4>1, <4>2, <4>3 DEF Below
      <4> QED
        BY <4>4 DEF w
    <3>3. IsFiniteSet(Below(Walk[i]))
      <4>1. Below(Walk[i]) \in SUBSET Linked
        BY DEF Below
      <4> QED
        BY <1>1, <4>1, FS_Subset
    <3>4. Cardinality(Below(Walk[i]) \cup {Walk[i]}) = i + 1
      BY <2>2, <3>2, <3>3, FS_AddElement
    <3> QED
      BY <1>1, <2>1, <3>2, <3>4
  <2> QED
    BY <2>2, <2>3, <2>4, BelowNext
<1>4. Nat \subseteq S
  <2> HIDE DEF S
  <2> QED
    BY <1>2, <1>3, InductiveSet
<1> QED
  BY <1>1, <1>4

LEMMA WalkMeetsAll ==
    ASSUME IInv, status = "running", NEW t \in Linked
    PROVE  \E i \in DOMAIN Walk : Walk[i] = t
<1> DEFINE N == Cardinality(Linked)
           k == Cardinality(Below(t))
<1>1. TypeOK /\ IsFiniteSet(Linked) /\ N \in Nat /\ Linked \subseteq Nat
  BY FiniteTails, FS_CardinalityType, Addresses DEF IInv
<1>2. Below(t) \in SUBSET Linked /\ t \notin Below(t)
  BY <1>1 DEF Below
<1>3. IsFiniteSet(Below(t)) /\ k <= N /\ k # N /\ k \in Nat
  BY <1>1, <1>2, FS_Subset, FS_CardinalityType
<1>4. k \in 0 .. N - 1
  BY <1>1, <1>3
<1>5. Walk[k] \in Linked /\ Cardinality(Below(Walk[k])) = k
  BY <1>4, WalkRanks
<1>6. ~ (Walk[k] < t) /\ ~ (t < Walk[k])
  <2> HIDE DEF k
  <2>1. Walk[k] < t => k < k
    BY <1>1, <1>5, BelowGrows DEF k
  <2>2. t < Walk[k] => k < k
    BY <1>1, <1>5, BelowGrows DEF k
  <2> QED
    BY <1>3, <2>1, <2>2
<1>7. Walk[k] = t
  <2> HIDE DEF k
  <2>1. Walk[k] \in Nat /\ t \in Nat
    BY <1>1, <1>5
  <2> QED
    BY <1>6, <2>1
<1>8. k \in DOMAIN Walk
  BY <1>1, <1>4, WalkStep
<1> QED
  BY <1>7, <1>8

-----------------------------------------------------------------------------
(* The invariant and what follows from it.                                 *)

\* The list keeps its order, its links and its blocks over every step.
THEOREM Inductive == Spec => []IInv
BY InitIInv, NextIInv, PTL DEF Spec

\* Every address in the list and in the hands of a caller lies in the window
\* that is mapped, whatever was allocated and freed.
THEOREM TypeCorrect == Spec => []TypeOK
<1>1. IInv => TypeOK
  BY DEF IInv
<1> QED
  BY <1>1, Inductive, PTL

\* mem_alloc and mem_free, alloc.c: no order of calls makes two blocks, two
\* tails, or a block and a tail share a byte, unless a tail was put over the
\* next block already.
THEOREM BlocksApart == Spec => []NoOverlap
<1>1. IInv => NoOverlap
  <2> SUFFICES ASSUME IInv, status = "running"
               PROVE  /\ \A b, c \in live : b # c => Disjoint(b.start, b.size, c.start, c.size)
                      /\ \A b \in live : \A t \in Linked :
                            Disjoint(b.start, b.size, t, sizeof_TAIL)
                      /\ \A t, u \in Linked :
                            t # u => Disjoint(t, sizeof_TAIL, u, sizeof_TAIL)
    BY DEF NoOverlap, Linked
  <2>1. /\ Linked \subseteq Nat
        /\ \A t \in Linked : tail[t].vaddr \in Nat /\ tail[t].prev \in Nat
        /\ \A b \in live : b.start \in Nat /\ b.size \in Nat
    <3>1. TypeOK
      BY DEF IInv
    <3>2. \A b \in live : b.start \in Places /\ b.size \in Nat
      BY <3>1 DEF TypeOK, Blocks
    <3> QED
      BY <3>1, <3>2, Addresses DEF FirstVaddr
  <2>2. \A b \in live : \E t \in Linked \ {KernelEnd} : tail[t].vaddr = b.start /\ b.start + b.size <= t
    BY DEF IInv, Owned
  <2>3. \A t \in Linked \ {KernelEnd} : tail[t].vaddr <= t
    BY DEF IInv, Backward
  <2>4. ASSUME NEW b \in live, NEW c \in live, b # c
        PROVE  Disjoint(b.start, b.size, c.start, c.size)
    <3>1. PICK t \in Linked \ {KernelEnd} : tail[t].vaddr = b.start /\ b.start + b.size <= t
      BY <2>2
    <3>2. PICK u \in Linked \ {KernelEnd} : tail[u].vaddr = c.start /\ c.start + c.size <= u
      BY <2>2
    <3>3. t # u /\ t \in Nat /\ u \in Nat
      BY <2>1, <2>4, <3>1, <3>2 DEF IInv, Owned
    <3>4. CASE t < u
      <4>1. t + sizeof_TAIL <= tail[u].vaddr
        BY <3>4, Spaced
      <4> QED
        BY <2>1, <3>1, <3>2, <3>3, <4>1 DEF Disjoint, sizeof_TAIL
    <3>5. CASE u < t
      <4>1. u + sizeof_TAIL <= tail[t].vaddr
        BY <3>5, Spaced
      <4> QED
        BY <2>1, <3>1, <3>2, <3>3, <4>1 DEF Disjoint, sizeof_TAIL
    <3> QED
      BY <2>1, <3>3, <3>4, <3>5
  <2>5. ASSUME NEW b \in live, NEW u \in Linked
        PROVE  Disjoint(b.start, b.size, u, sizeof_TAIL)
    <3>1. PICK t \in Linked \ {KernelEnd} : tail[t].vaddr = b.start /\ b.start + b.size <= t
      BY <2>2
    <3>2. CASE u < t
      BY <3>1, <3>2, Spaced DEF Disjoint
    <3>3. CASE t <= u
      BY <2>1, <3>1, <3>3 DEF Disjoint
    <3>4. t \in Nat /\ u \in Nat
      BY <2>1
    <3> QED
      BY <3>2, <3>3, <3>4
  <2>6. ASSUME NEW t \in Linked, NEW u \in Linked, t < u
        PROVE  t + sizeof_TAIL <= u
    BY <2>1, <2>6, Spaced DEF sizeof_TAIL
  <2>7. ASSUME NEW t \in Linked, NEW u \in Linked, t # u
        PROVE  Disjoint(t, sizeof_TAIL, u, sizeof_TAIL)
    BY <2>1, <2>6, <2>7 DEF Disjoint
  <2> QED
    BY <2>4, <2>5, <2>7
<1> QED
  BY <1>1, Inductive, PTL

\* mem_alloc and mem_free, alloc.c: next and prev stay inverse to each other
\* and lead upwards, and a walk from mem_listStart meets every linked tail
\* within as many steps as there are tails.
THEOREM WalkComplete == Spec => []ListSound
<1>1. IInv => ListSound
  <2> SUFFICES ASSUME IInv, status = "running"
               PROVE  /\ tail[mem_listStart].prev = 0
                      /\ \A t \in Linked :
                            /\ tail[t].next # 0 =>
                                  /\ tail[t].next \in Linked
                                  /\ tail[t].next > t
                                  /\ tail[tail[t].next].prev = t
                            /\ t # mem_listStart => tail[t].prev \in Linked
                            /\ \E i \in DOMAIN Walk : Walk[i] = t
    BY DEF ListSound, Linked
  <2>1. mem_listStart = KernelEnd /\ tail[mem_listStart].prev = 0
    BY DEF IInv, First
  <2>2. ASSUME NEW t \in Linked
        PROVE  /\ tail[t].next # 0 =>
                     /\ tail[t].next \in Linked
                     /\ tail[t].next > t
                     /\ tail[tail[t].next].prev = t
               /\ t # KernelEnd => tail[t].prev \in Linked
    BY DEF IInv, Forward, Backward
  <2> QED
    BY <2>1, <2>2, WalkMeetsAll
<1> QED
  BY <1>1, Inductive, PTL

\* mem_alloc and mem_free, alloc.c: a tail for every block in use, one for
\* one, behind all of its bytes.
THEOREM TailsAndBlocks == Spec => []TailPerBlock
<1>1. IInv => TailPerBlock
  BY DEF IInv, Counted, Owned, TailPerBlock, Linked
<1> QED
  BY <1>1, Inductive, PTL

\* mem_free, alloc.c: it finds the tail of every block in use, and fails for
\* an address that is no block's, but for the one the kernel's own tail holds.
THEOREM FreeAnswers == Spec => FreeFindsBlocks
<1>1. IInv /\ [Next]_vars =>
          [ret'.call = "mem_free" /\ ret' # ret =>
              (ret'.code = 0 <=> \/ \E b \in live : b.start = ret'.addr
                                 \/ ret'.addr = FirstVaddr)]_vars
  <2> SUFFICES ASSUME IInv, Next, ret'.call = "mem_free"
               PROVE  ret'.code = 0 <=> \/ \E b \in live : b.start = ret'.addr
                                        \/ ret'.addr = FirstVaddr
    BY DEF vars
  <2>1. ASSUME NEW r \in Requests, mem_alloc(r)  PROVE FALSE
    BY <2>1, InsertStep, AppendStep DEF mem_alloc
  <2>2. ASSUME NEW addr, mem_free(addr), addr # FirstVaddr,
               (\E b \in live : b.start = addr) \/ addr \in BadAddresses
        PROVE  ret'.code = 0 <=> \/ \E b \in live : b.start = ret'.addr
                                 \/ ret'.addr = FirstVaddr
    <3>1. ret' = Returned("mem_free", addr, IF \E b \in live : b.start = addr THEN 0 ELSE 1)
      BY <2>2, FreeStep
    <3>2. ret'.addr = addr /\ ret'.code = IF \E b \in live : b.start = addr THEN 0 ELSE 1
      BY <3>1 DEF Returned
    <3> QED
      BY <2>2, <3>2
  <2>3. ASSUME mem_free(FirstVaddr)
        PROVE  ret'.code = 0 /\ ret'.addr = FirstVaddr
    BY <2>3, FreeFirstStep DEF Returned
  <2> QED
    BY <2>1, <2>2, <2>3 DEF Next
<1> QED
  BY <1>1, Inductive, PTL DEF Spec, FreeFindsBlocks

\* The list of tails, with gaps that are filled again (alloc.c), implements
\* what alloc.h promises: aligned blocks that never overlap.
THEOREM HeapIsBlockAllocator == Spec => ImplementsBlockAllocator
<1>1. Init => Abstract!Init
  BY DEF Init, Abstract!Init
<1>2. IInv /\ [Next]_vars => [Abstract!Next]_live
  <2> SUFFICES ASSUME IInv, [Next]_vars, live' # live  PROVE Abstract!Next
    OBVIOUS
  <2>1. ASSUME NEW r \in Requests, mem_alloc(r)  PROVE Abstract!Next
    <3>1. Granted
      BY <2>1, InsertStep, AppendStep DEF mem_alloc
    <3>2. PICK b \in Blocks : /\ live' = live \cup {b}
                              /\ Abstract!AtAlignment(b)
                              /\ \A c \in live : Abstract!Apart(b, c)
      BY <3>1 DEF Granted
    <3>3. b \in live' \ live
      BY <3>2
    <3> QED
      BY <3>2, <3>3 DEF Abstract!Next, Abstract!Alloc
  <2>2. ASSUME NEW addr, mem_free(addr), (\E b \in live : b.start = addr) \/ addr \in BadAddresses
        PROVE  Abstract!Next
    <3>1. \E b \in live : live' = live \ {b}
      BY <2>2, FreeStep, FreeFirstStep
    <3> QED
      BY <3>1 DEF Abstract!Next, Abstract!Free
  <2> QED
    BY <2>1, <2>2 DEF Next, vars
<1> QED
  BY <1>1, <1>2, Inductive, PTL DEF Spec, ImplementsBlockAllocator, Abstract!Spec
=============================================================================
