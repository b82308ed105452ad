------------------------ MODULE KernelMemoryProofs ------------------------
(***************************************************************************)
(* Proofs about the kernel's memory: the list of tails, the page tables    *)
(* and the calls that change both.                                         *)
(***************************************************************************)
EXTENDS KernelMemory, NumberLemmas, SequenceTheorems

-----------------------------------------------------------------------------
(* The list and its blocks.                                                *)

Linked == DOMAIN tail

Mapped == {"registers", "clb", "fis"}

Uses == Mapped \cup {"devices", "keep", "table"}

\* t is the tail of block b, which lies behind every lower tail.  The vaddr of
\* a tail that clear_mapped ran over is 0.
Behind(b, t) ==
    /\ t \in Linked \ {KernelEnd}
    /\ b.start + b.size <= t
    /\ tail[t].vaddr \in {b.start, 0}
    /\ \A u \in Linked : u < t => u + sizeof_TAIL <= b.start

\* next leads to the next higher tail, and the highest ends the list.
Chained ==
    \A t \in Linked :
        /\ tail[t].next = 0 => \A u \in Linked : u <= t
        /\ tail[t].next # 0 =>
              /\ tail[t].next \in Linked
              /\ tail[t].next > t
              /\ \A u \in Linked : u > t => tail[t].next <= u

\* Every tail but the kernel's is led to; prev leads back unless it was cleared.
LedTo ==
    \A t \in Linked \ {KernelEnd} :
        /\ \E u \in Linked : tail[u].next = t
        /\ tail[t].prev = 0 <=> tail[t].vaddr = 0
        /\ tail[t].prev # 0 => tail[t].prev \in Linked /\ tail[tail[t].prev].next = t

ListInv ==
    /\ \A t \in Linked : /\ t \in KernelEnd .. WindowEnd - sizeof_TAIL
                         /\ tail[t] \in [next : Nat, prev : Nat, vaddr : Nat]
    /\ mem_listStart = KernelEnd
    /\ KernelEnd \in Linked /\ tail[KernelEnd].prev = 0
    /\ Chained
    /\ LedTo

BlockInv ==
    /\ live \subseteq [start : Nat, size : Nat, use : Uses]
    /\ \A b \in live : \E t \in Linked : Behind(b, t)
    /\ \A t \in Linked \ {KernelEnd} : \E b \in live : Behind(b, t)
    /\ \A b, c \in live, t \in Linked : Behind(b, t) /\ Behind(c, t) => b = c
    /\ \A b \in live : b.use \in Mapped \cup {"table"} =>
          b.size = PageBytes /\ b.start = PageOf(b.start) * PageBytes
    /\ \A b \in live, t \in Linked :
          b.use = "devices" /\ Behind(b, t) => PageOf(t + 23) = PageOf(KernelEnd)

-----------------------------------------------------------------------------
(* The tables.                                                             *)

Window == KernelStart .. KernelStart + Entries - 1

\* A page that holds a table and nothing else, and is never mapped elsewhere.
OwnTable(t) ==
    /\ t \in Window
    /\ t < PageOf(KernelEnd) \/ \E b \in live : b.use = "table" /\ PageOf(b.start) = t

\* Tables the kernel added: t holds directory entries, or entries of pages.
Upper(t) == \E c \in DOMAIN word : c[1] = PDPT /\ word[c] = {t}

Lower(t) ==
    \E c \in DOMAIN word :
        /\ word[c] = {t}
        /\ c[1] = PD \/ \E s \in Window : c[1] = WindowFrame(s) /\ Upper(s)

\* An entry written since boot leaves the boot code's path to the window alone.
Harmless(c) ==
    /\ c \in Nat \X (0 .. Entries - 1)
    /\ \E g \in Nat : word[c] = {g}
    /\ c[1] \notin {PML4, IdentityPT}
    /\ c[1] = PDPT => c[2] # 0
    /\ c[1] = PD => c[2] \notin {0, WindowIndex}
    /\ c[1] = WindowPT =>
          \E b \in live : b.use \in Mapped /\ PageOf(b.start) = KernelStart + c[2]
    /\ c[1] \notin TableFrames =>
          \E t \in Window : (Upper(t) \/ Lower(t)) /\ c[1] = WindowFrame(t)

TableInv ==
    /\ \A c \in DOMAIN word : Harmless(c)
    /\ \A t \in Nat : Upper(t) \/ Lower(t) => OwnTable(t) /\ WindowFrame(t) \notin Occupied
    /\ \A t \in Nat : ~ (Upper(t) /\ Lower(t))
    /\ backup \in [2 .. 4 -> Window]
    /\ \A l \in 2 .. 4 : OwnTable(backup[l])
    /\ ~ Upper(backup[2]) /\ ~ Lower(backup[3]) /\ backup[2] # backup[3]

\* Address a belongs to the kernel's tail, or to a block or what is behind it
\* up to the end of its tail.
Taken(a) ==
    \/ a \in KernelEnd .. KernelEnd + sizeof_TAIL - 1
    \/ \E b \in live, t \in Linked :
          Behind(b, t) /\ a \in b.start .. t + sizeof_TAIL - 1

\* What the processor keeps is what it would find, in pages that are in use.
TlbInv ==
    \A p \in DOMAIN tlb :
        /\ p \in Window
        /\ Walk(p) = {tlb[p]}
        /\ \E a \in Nat : Taken(a) /\ PageOf(a) = p

-----------------------------------------------------------------------------
(* The calls.                                                              *)

Stages == {"alloc", "mapped", "ask"}

Calls ==
    [op : {"mem_alloc"}, size : Nat, use : Uses, e : Nat, gap : BOOLEAN, start : Nat, at : Nat]
    \cup [op : {"page_map"}, page : Nat, frame : Nat, table : Nat, level : 1 .. 4]
    \cup [op : {"caller"}, use : Uses, stage : Stages, block : Nat]

\* A block that leaves the window with the end of its tail.
Outside(m) == m.at + sizeof_TAIL > WindowEnd

\* A page behind the window, under the first entry of the PML4.
Far(p) == p \in KernelStart + Entries .. FirstEntryEnd - 1

\* Where page_map_PML4 stands.
NearTable(c) ==
    /\ c.level = 4 => c.table = PML4
    /\ c.level = 3 => c.table = PDPT
    /\ c.level = 2 => c.table = PD
    /\ c.level = 1 => c.table = WindowPT

FarTable(c) ==
    /\ c.level = 4 => c.table = PML4
    /\ c.level = 3 => c.table = PDPT
    /\ c.level = 2 /\ Index(c.page, 3) = 0 => c.table = PD
    /\ c.level = 2 /\ Index(c.page, 3) # 0 => Upper(c.table)
    /\ c.level = 1 => Lower(c.table)

Sound(c) ==
    /\ c.op = "mem_alloc" =>
          /\ KernelEnd + sizeof_TAIL <= c.start
          /\ c.start + c.size <= c.at
          /\ PageOf(c.at + sizeof_TAIL) < FirstEntryEnd
          /\ c.use \in Mapped \cup {"table"} =>
                c.size = PageBytes /\ c.start = PageOf(c.start) * PageBytes
          /\ c.use = "devices" /\ ~ Outside(c) => PageOf(c.at + 23) = PageOf(KernelEnd)
    /\ c.op = "page_map" =>
          \/ c.page \in Window /\ NearTable(c)
          \/ Far(c.page) /\ FarTable(c)

\* The block a caller was given, and whether its tail is at the end of the list
\* or far away from it.
Holds(c) ==
    \E b \in live, t \in Linked :
        /\ Behind(b, t)
        /\ b.start = c.block /\ b.use = c.use
        /\ c.use \in {"clb", "fis"} => tail[t].next = 0 \/ b.start + 2 * PageBytes <= t

\* c was called by d.
CalledBy(c, d) ==
    \/ /\ c.op = "mem_alloc" /\ d.op = "caller"
       /\ c.use = d.use /\ d.stage = "alloc"
    \/ /\ c.op = "mem_alloc" /\ d.op = "page_map"
       /\ c.use = "table" /\ d.level \in 2 .. 4 /\ Far(d.page)
    \/ /\ c.op = "page_map" /\ d.op = "mem_alloc"
       /\ Far(c.page) /\ Outside(d)
    \/ /\ c.op = "page_map" /\ d.op = "caller"
       /\ d.use \in Mapped /\ d.stage = "mapped"
       /\ c.page \in Window /\ c.page = PageOf(d.block)
       /\ c.page \notin DOMAIN tlb
       /\ Holds(d)

\* The place of a block inside the window is still what the list says.
Placed(m) ==
    /\ m.e \in Linked
    /\ m.gap =>
          /\ tail[m.e].prev # 0
          /\ tail[m.e].prev + sizeof_TAIL <= m.start
          /\ m.start + m.size + sizeof_TAIL <= tail[m.e].vaddr
          /\ m.at = m.start + sizeof_TAIL * m.size
    /\ ~ m.gap =>
          /\ tail[m.e].next = 0
          /\ m.e + sizeof_TAIL <= m.start
          /\ m.at = m.start + m.size

Current(c) ==
    /\ c.op = "mem_alloc" /\ ~ Outside(c) => Placed(c)
    /\ c.op = "caller" =>
          /\ c.stage # "ask" => Holds(c)
          /\ c.stage = "ask" => c.use = "fis"
          /\ c.stage = "mapped" => c.use \in Mapped
          /\ c.stage = "alloc" /\ c.use \in Mapped => PageOf(c.block) \notin DOMAIN tlb

StackInv ==
    /\ calls \in Seq(Calls)
    /\ Len(calls) <= MaxDepth
    /\ \A i \in 1 .. Len(calls) :
          /\ Sound(calls[i])
          /\ calls[i].op = "mem_alloc" => Len(calls) - i + 1 < MaxDepth
    /\ \A i \in 1 .. Len(calls) - 1 : CalledBy(calls[i], calls[i + 1])
    /\ calls # << >> => calls[Len(calls)].op = "caller" /\ Current(calls[1])

IInv ==
    /\ status \in {"running", "halted", "fault", "corrupt"}
    /\ adapter \in Adapters
    /\ free \subseteq Ram
    /\ ListInv
    /\ BlockInv
    /\ TableInv
    /\ TlbInv
    /\ StackInv
    /\ FaultsBehindWindow

\* The table of devices does not reach out of the first page of the heap.
DevicesFit ==
    \A r \in Requests : r.use = "devices" =>
        PageOf(KernelEnd + 2 * sizeof_TAIL + r.size - 1) = PageOf(KernelEnd)

-----------------------------------------------------------------------------
(* Numbers, pages and indices.                                             *)

\* The geometry the assumptions fix.
LEMMA Sizes ==
    /\ Entries \in Nat /\ Entries >= 2
    /\ PageBytes \in Nat /\ PageBytes >= 16 /\ PageBytes = 8 * Entries
    /\ KernelLoad \in Nat /\ KernelStart \in Nat
    /\ KernelLoad + Entries <= KernelStart
    /\ KernelEnd \in Nat
    /\ WindowEnd = (KernelStart + Entries) * PageBytes
    /\ KernelEnd + 24 <= WindowEnd
    /\ TableFrames \subseteq 0 .. Entries - 1
<1>1. Entries \in Nat /\ Entries >= 2 /\ KernelLoad \in Nat /\ KernelStart \in Nat
  BY PageMapAssumption
<1>2. PageBytes \in Nat /\ PageBytes >= 16 /\ PageBytes = 8 * Entries
  BY <1>1 DEF PageBytes
<1>3. WindowPages = Entries /\ KernelLoad + Entries <= KernelStart /\ KernelEnd \in Nat
  BY MemoryAssumption
<1>4. KernelEnd + 24 <= WindowEnd
  BY MemoryAssumption DEF sizeof_TAIL
<1> QED
  BY <1>1, <1>2, <1>3, <1>4, PageMapAssumption DEF WindowEnd

\* An address lies in its page.
LEMMA InPage ==
    ASSUME NEW a \in Nat
    PROVE  /\ PageOf(a) \in Nat
           /\ PageOf(a) * PageBytes \in Nat
           /\ PageOf(a) * PageBytes <= a
           /\ a < PageOf(a) * PageBytes + PageBytes
<1>1. PageBytes \in Nat /\ PageBytes > 0
  BY Sizes
<1> DEFINE q == a \div PageBytes
<1>2. q \in Nat /\ a % PageBytes \in Nat /\ a % PageBytes < PageBytes
      /\ a = PageBytes * q + (a % PageBytes)
  BY <1>1, DivMod
<1>3. PageOf(a) = q
  BY DEF PageOf
<1> HIDE DEF q
<1>4. PageBytes * q = q * PageBytes /\ q * PageBytes \in Nat
  BY <1>1, <1>2
<1> QED
  BY <1>1, <1>2, <1>3, <1>4

\* And in no other page.
LEMMA OnePage ==
    ASSUME NEW a \in Nat, NEW p \in Nat, p * PageBytes <= a, a < p * PageBytes + PageBytes
    PROVE  PageOf(a) = p
<1>1. PageBytes \in Nat /\ PageBytes > 0
  BY Sizes
<1> DEFINE x == p * PageBytes
<1>2. x \in Nat /\ PageBytes * p = x /\ x <= a /\ a < x + PageBytes
  BY <1>1
<1> HIDE DEF x
<1>3. PICK r \in Nat : r = a - x
  BY <1>2
<1>4. r < PageBytes /\ a = x + r
  BY <1>1, <1>2, <1>3
<1> QED
  BY <1>1, <1>2, <1>4, DivUnique DEF PageOf

\* Higher pages lie behind all of a lower one.
LEMMA PagesApart ==
    ASSUME NEW p \in Nat, NEW q \in Nat, p < q
    PROVE  /\ p * PageBytes \in Nat /\ q * PageBytes \in Nat
           /\ p * PageBytes + PageBytes <= q * PageBytes
<1>1. PageBytes \in Nat
  BY Sizes
<1>2. (q - p - 1) * PageBytes \in Nat
  BY <1>1
<1>3. q * PageBytes = p * PageBytes + PageBytes + (q - p - 1) * PageBytes
  BY <1>1
<1>4. p * PageBytes \in Nat /\ q * PageBytes \in Nat
  BY <1>1
<1> QED
  BY <1>1, <1>2, <1>3, <1>4

\* Higher addresses lie in higher pages or in the same one.
LEMMA PagesRise ==
    ASSUME NEW a \in Nat, NEW b \in Nat, a <= b
    PROVE  PageOf(a) <= PageOf(b)
<1>1. SUFFICES ASSUME PageOf(b) < PageOf(a)  PROVE FALSE
  BY InPage
<1>2. PageOf(b) * PageBytes + PageBytes <= PageOf(a) * PageBytes
  BY <1>1, InPage, PagesApart
<1> QED
  BY <1>2, InPage, Sizes

\* The pages of addresses in the window.
LEMMA WindowPage ==
    ASSUME NEW a \in Nat
    PROVE  /\ KernelEnd <= a /\ a < WindowEnd => PageOf(a) \in Window
           /\ WindowEnd <= a => PageOf(a) >= KernelStart + Entries
           /\ KernelStart < PageOf(KernelEnd)
<1>1. KernelStart < PageOf(KernelEnd) /\ PageOf(KernelEnd) \in Nat
  <2>1. Backups[2] \in KernelStart .. PageOf(KernelEnd) - 1
    BY MemoryAssumption
  <2>2. PageOf(KernelEnd) \in Nat /\ KernelStart \in Nat
    BY Sizes, InPage
  <2> QED
    BY <2>1, <2>2
<1>2. ASSUME KernelEnd <= a, a < WindowEnd  PROVE PageOf(a) \in Window
  <2>1. PageOf(KernelEnd) <= PageOf(a) /\ PageOf(a) \in Nat
    BY <1>2, Sizes, PagesRise, InPage
  <2>2. PageOf(a) < KernelStart + Entries
    <3>1. SUFFICES ASSUME KernelStart + Entries <= PageOf(a)  PROVE FALSE
      BY <2>1, Sizes
    <3>2. (KernelStart + Entries) * PageBytes <= PageOf(a) * PageBytes
      <4>1. CASE KernelStart + Entries = PageOf(a)
        BY <4>1, <2>1, Sizes
      <4>2. CASE KernelStart + Entries < PageOf(a)
        <5>1. KernelStart + Entries \in Nat
          BY Sizes
        <5> QED
          BY <4>2, <5>1, <2>1, PagesApart, Sizes
      <4> QED
        BY <4>1, <4>2, <3>1, <2>1, Sizes
    <3>3. WindowEnd <= a
      BY <3>2, Sizes, InPage
    <3> QED
      BY <3>3, <1>2, Sizes
  <2> QED
    BY <1>1, <2>1, <2>2, Sizes DEF Window
<1>3. ASSUME WindowEnd <= a  PROVE PageOf(a) >= KernelStart + Entries
  <2>1. KernelStart + Entries \in Nat /\ WindowEnd \in Nat
    BY Sizes
  <2>2. PageOf(WindowEnd) = KernelStart + Entries
    <3>1. WindowEnd < (KernelStart + Entries) * PageBytes + PageBytes
      BY Sizes, <2>1
    <3> QED
      BY <2>1, <3>1, Sizes, OnePage
  <2> QED
    BY <1>3, <2>1, <2>2, PagesRise
<1> QED
  BY <1>1, <1>2, <1>3

\* The indices of a page are indices of tables.
LEMMA Indices ==
    ASSUME NEW p \in Nat
    PROVE  /\ \A l \in 1 .. 4 : Index(p, l) \in 0 .. Entries - 1
           /\ Index(p, 1) = p % Entries
           /\ Index(p, 2) = (p \div Entries) % Entries
           /\ Index(p, 3) = (p \div (Entries * Entries)) % Entries
           /\ Index(p, 4) = (p \div (Entries * Entries * Entries)) % Entries
<1>1. Entries \in Nat /\ Entries > 0
  BY Sizes
<1>2. Entries * Entries \in Nat /\ Entries * Entries > 0
  BY <1>1
<1>3. Entries * Entries * Entries \in Nat /\ Entries * Entries * Entries > 0
  BY <1>1, <1>2
<1>4. /\ Reach(1) = 1 /\ Reach(2) = Entries /\ Reach(3) = Entries * Entries
      /\ Reach(4) = Entries * Entries * Entries
  BY DEF Reach
<1>5. \A q \in Nat : q % Entries \in 0 .. Entries - 1
  BY <1>1, DivMod
<1>6. /\ p \div 1 = p
      /\ p \div Entries \in Nat
      /\ p \div (Entries * Entries) \in Nat
      /\ p \div (Entries * Entries * Entries) \in Nat
  <2>1. p \div Entries \in Nat
    BY <1>1, DivMod
  <2>2. p \div (Entries * Entries) \in Nat
    BY <1>2, DivMod
  <2>3. p \div (Entries * Entries * Entries) \in Nat
    BY <1>3, DivMod
  <2> QED
    BY <2>1, <2>2, <2>3
<1>7. /\ Index(p, 1) = p % Entries
      /\ Index(p, 2) = (p \div Entries) % Entries
      /\ Index(p, 3) = (p \div (Entries * Entries)) % Entries
      /\ Index(p, 4) = (p \div (Entries * Entries * Entries)) % Entries
  BY <1>4, <1>6 DEF Index
<1>8. ASSUME NEW l \in 1 .. 4  PROVE Index(p, l) \in 0 .. Entries - 1
  <2>1. l = 1 \/ l = 2 \/ l = 3 \/ l = 4
    OBVIOUS
  <2> QED
    BY <2>1, <1>5, <1>6, <1>7
<1> QED
  BY <1>7, <1>8

\* Pages below a power of Entries have index 0 in the tables above it.
LEMMA LowPages ==
    ASSUME NEW p \in Nat
    PROVE  /\ p < Entries * Entries * Entries => Index(p, 4) = 0
           /\ p < Entries * Entries => Index(p, 3) = 0 /\ Index(p, 4) = 0
           /\ p < Entries => Index(p, 2) = 0 /\ Index(p, 1) = p
<1>1. Entries \in Nat /\ Entries >= 2 /\ 0 % Entries = 0
  BY Sizes
<1> DEFINE square == Entries * Entries
           cube == Entries * Entries * Entries
<1>2. square \in Nat /\ square >= Entries
  BY <1>1
<1>3. cube \in Nat /\ cube >= square
  BY <1>1, <1>2
<1>4. \A d \in Nat : p < d => p \div d = 0 /\ p % d = p
  <2> SUFFICES ASSUME NEW d \in Nat, p < d  PROVE p \div d = 0 /\ p % d = p
    OBVIOUS
  <2>1. p = d * 0 + p /\ d > 0
    OBVIOUS
  <2> QED
    BY <2>1, DivUnique
<1>5. /\ Index(p, 1) = p % Entries
      /\ Index(p, 2) = (p \div Entries) % Entries
      /\ Index(p, 3) = (p \div square) % Entries
      /\ Index(p, 4) = (p \div cube) % Entries
  BY Indices
<1> HIDE DEF square, cube
<1>6. /\ p < cube => Index(p, 4) = 0
      /\ p < square => Index(p, 3) = 0 /\ Index(p, 4) = 0
      /\ p < Entries => Index(p, 2) = 0 /\ Index(p, 1) = p
  BY <1>1, <1>2, <1>3, <1>4, <1>5
<1> QED
  BY <1>6 DEF square, cube

\* The window is what one entry of the boot code's directory stands for.
LEMMA WindowIndices ==
    /\ WindowIndex \in 1 .. Entries - 1
    /\ \A p \in Window : /\ p \in Nat
                         /\ Index(p, 4) = 0 /\ Index(p, 3) = 0
                         /\ Index(p, 2) = WindowIndex /\ Index(p, 1) = p - KernelStart
    /\ KernelStart + Entries <= Entries * Entries
    /\ KernelStart = Entries * WindowIndex
<1>1. Entries \in Nat /\ Entries >= 2 /\ KernelStart \in Nat
  BY Sizes
<1> DEFINE k == KernelStart \div Entries
<1>2. k \in Nat /\ KernelStart = Entries * k
  BY <1>1, PageMapAssumption, DivMod
<1>3. WindowIndex = k % Entries /\ WindowIndex # 0 /\ KernelStart < Entries * Entries
  BY PageMapAssumption DEF WindowIndex
<1> HIDE DEF k
<1>4. k < Entries
  <2>1. SUFFICES ASSUME k >= Entries  PROVE FALSE
    BY <1>1, <1>2
  <2>2. Entries * (k - Entries) \in Nat
    BY <1>1, <1>2, <2>1
  <2>3. Entries * k = Entries * Entries + Entries * (k - Entries)
    BY <1>1, <1>2
  <2>4. Entries * Entries \in Nat
    BY <1>1
  <2> QED
    BY <1>2, <1>3, <2>2, <2>3, <2>4
<1>5. k = Entries * 0 + k
  BY <1>1, <1>2
<1>6. k % Entries = k /\ k \div Entries = 0
  BY <1>1, <1>2, <1>4, <1>5, DivUnique
<1>7. WindowIndex = k /\ k >= 1
  BY <1>2, <1>3, <1>6
<1>8. Entries * k + Entries <= Entries * Entries
  <2>1. Entries * (Entries - 1 - k) \in Nat
    BY <1>1, <1>2, <1>4
  <2>2. Entries * Entries = Entries * k + Entries + Entries * (Entries - 1 - k)
    BY <1>1, <1>2
  <2>3. Entries * k \in Nat
    BY <1>1, <1>2
  <2> QED
    BY <1>1, <2>1, <2>2, <2>3
<1>9. ASSUME NEW p \in Window
      PROVE  /\ p \in Nat
             /\ Index(p, 4) = 0 /\ Index(p, 3) = 0
             /\ Index(p, 2) = WindowIndex /\ Index(p, 1) = p - KernelStart
  <2> DEFINE i == p - KernelStart
  <2>1. p \in Nat /\ i \in Nat /\ i < Entries /\ p = KernelStart + i
    BY <1>1 DEF Window
  <2> HIDE DEF i
  <2>2. p = Entries * k + i
    BY <2>1, <1>2
  <2>3. p \div Entries = k /\ p % Entries = i
    BY <1>1, <1>2, <2>1, <2>2, DivUnique
  <2>4. p < Entries * Entries
    <3>1. Entries * k \in Nat /\ Entries * Entries \in Nat
      BY <1>1, <1>2
    <3> QED
      BY <1>1, <1>8, <2>1, <2>2, <3>1
  <2>5. Index(p, 4) = 0 /\ Index(p, 3) = 0
    BY <2>1, <2>4, LowPages
  <2>6. Index(p, 2) = k % Entries /\ Index(p, 1) = i
    BY <2>1, <2>3, Indices
  <2>7. i = p - KernelStart
    BY DEF i
  <2> QED
    BY <2>1, <2>5, <2>6, <2>7, <1>6, <1>7
<1> QED
  BY <1>1, <1>2, <1>4, <1>7, <1>8, <1>9

\* The path to a page behind the window leaves the boot code's at PDPT or PD.
LEMMA FarIndices ==
    ASSUME NEW p, Far(p)
    PROVE  /\ p \in Nat
           /\ Index(p, 4) = 0
           /\ Index(p, 3) = 0 => Index(p, 2) \notin {0, WindowIndex}
<1>1. Entries \in Nat /\ Entries >= 2 /\ KernelStart \in Nat
  BY Sizes
<1>2. p \in Nat /\ KernelStart + Entries <= p /\ p < Entries * Entries * Entries
  <2>1. Entries * Entries * Entries \in Int
    BY <1>1
  <2> QED
    BY <1>1, <2>1 DEF Far, FirstEntryEnd
<1>3. Index(p, 4) = 0
  BY <1>2, LowPages
<1>4. ASSUME Index(p, 3) = 0  PROVE Index(p, 2) \notin {0, WindowIndex}
  <2> DEFINE square == Entries * Entries
             q == p \div square
             j == p \div Entries
  <2>1. square \in Nat /\ square > 0 /\ Entries * square \in Nat
        /\ Entries * Entries * Entries = Entries * square
    BY <1>1
  <2>2. /\ Index(p, 3) = q % Entries
        /\ Index(p, 2) = j % Entries
    BY <1>2, Indices
  <2> HIDE DEF square
  <2>3. q \in Nat /\ p % square \in Nat /\ p % square < square
        /\ p = square * q + (p % square)
    BY <1>2, <2>1, DivMod
  <2>4. j \in Nat /\ p % Entries \in Nat /\ p % Entries < Entries
        /\ p = Entries * j + (p % Entries)
    BY <1>1, <1>2, DivMod
  <2> HIDE DEF q, j
  <2>5. q < Entries
    <3>1. SUFFICES ASSUME q >= Entries  PROVE FALSE
      BY <1>1, <2>3
    <3>2. square * (q - Entries) \in Nat
      BY <1>1, <2>1, <2>3, <3>1
    <3>3. square * q = Entries * square + square * (q - Entries)
      BY <1>1, <2>1, <2>3
    <3> QED
      BY <1>2, <2>1, <2>3, <3>2, <3>3
  <2>6. q = 0
    <3>1. q = Entries * 0 + q
      BY <1>1, <2>3
    <3>2. q % Entries = q
      BY <1>1, <2>3, <2>5, <3>1, DivUnique
    <3> QED
      BY <1>4, <2>2, <3>2
  <2>7. p < square
    BY <2>1, <2>3, <2>6
  <2>8. j < Entries
    <3>1. SUFFICES ASSUME j >= Entries  PROVE FALSE
      BY <1>1, <2>4
    <3>2. Entries * (j - Entries) \in Nat
      BY <1>1, <2>4, <3>1
    <3>3. Entries * j = square + Entries * (j - Entries)
      BY <1>1, <2>4 DEF square
    <3> QED
      BY <2>1, <2>4, <2>7, <3>2, <3>3
  <2>9. j % Entries = j
    <3>1. j = Entries * 0 + j
      BY <1>1, <2>4
    <3> QED
      BY <1>1, <2>4, <2>8, <3>1, DivUnique
  <2>10. j > WindowIndex
    <3>1. WindowIndex \in Nat /\ KernelStart = Entries * WindowIndex
      BY WindowIndices
    <3>2. SUFFICES ASSUME j <= WindowIndex  PROVE FALSE
      BY <2>4, <3>1
    <3>3. Entries * (WindowIndex - j) \in Nat
      BY <1>1, <2>4, <3>1, <3>2
    <3>4. Entries * WindowIndex = Entries * j + Entries * (WindowIndex - j)
      BY <1>1, <2>4, <3>1
    <3>5. Entries * j \in Nat
      BY <1>1, <2>4
    <3> QED
      BY <1>1, <1>2, <2>4, <3>1, <3>3, <3>4, <3>5
  <2> QED
    BY <2>2, <2>4, <2>9, <2>10, WindowIndices
<1> QED
  BY <1>2, <1>3, <1>4

-----------------------------------------------------------------------------
(* Translations.                                                           *)

\* The boot code's five tables are five frames, all below the window's pages.
LEMMA FiveTables ==
    /\ PML4 \in Nat /\ PDPT \in Nat /\ PD \in Nat /\ IdentityPT \in Nat /\ WindowPT \in Nat
    /\ PML4 < PDPT /\ PDPT < PD /\ PD < IdentityPT /\ IdentityPT < WindowPT
    /\ WindowPT < Entries /\ Entries <= KernelStart
    /\ \A t \in Window : t \in Nat /\ t \notin TableFrames
<1>1. \A f \in TableFrames : f \in Nat /\ f < Entries
  BY Sizes
<1>2. /\ PML4 \in TableFrames /\ PDPT \in TableFrames /\ PD \in TableFrames
      /\ IdentityPT \in TableFrames /\ WindowPT \in TableFrames
  BY DEF TableFrames
<1>3. Entries <= KernelStart
  <2>1. Entries * (WindowIndex - 1) \in Nat
    BY Sizes, WindowIndices
  <2>2. KernelStart = Entries + Entries * (WindowIndex - 1)
    BY Sizes, WindowIndices
  <2> QED
    BY <2>1, <2>2, Sizes
<1>4. \A t \in Window : t \in Nat /\ t >= KernelStart
  BY Sizes DEF Window
<1>5. \A t \in Window : t \notin TableFrames
  BY <1>1, <1>3, <1>4, Sizes
<1> QED
  BY <1>1, <1>2, <1>3, <1>4, <1>5, PageMapAssumption

\* Frames of the window are numbered differently page by page, below its pages.
LEMMA WindowFrames ==
    /\ \A t \in Window : WindowFrame(t) \in Nat /\ WindowFrame(t) < KernelStart
    /\ \A s, t \in Window : WindowFrame(s) = WindowFrame(t) => s = t
  BY Sizes DEF Window, WindowFrame

\* The entries on the boot code's path stay what they were; a table that the
\* kernel added has none where the processor looks for it.
LEMMA PathEntries ==
    ASSUME TableInv
    PROVE  /\ Entry(PML4, 0) = {PDPT}
           /\ \A i \in 1 .. Entries - 1 : Entry(PML4, i) = {}
           /\ Entry(PDPT, 0) = {PD}
           /\ Entry(PD, 0) = {IdentityPT}
           /\ Entry(PD, WindowIndex) = {WindowPT}
           /\ \A i \in 0 .. Entries - 1 : Entry(IdentityPT, i) = {i}
           /\ \A t \in Window : \A i : Entry(t, i) = {}
<1>1. \A c \in DOMAIN word : Harmless(c)
  BY DEF TableInv
<1>2. \A c \in DOMAIN word : c[1] \notin {PML4, IdentityPT}
  BY <1>1 DEF Harmless
<1>3. <<PDPT, 0>> \notin DOMAIN word /\ <<PD, 0>> \notin DOMAIN word
      /\ <<PD, WindowIndex>> \notin DOMAIN word
  BY <1>1 DEF Harmless
<1>4. \A i : <<PML4, i>> \notin DOMAIN word /\ <<IdentityPT, i>> \notin DOMAIN word
  BY <1>2
<1>5. WindowIndex # 0
  BY PageMapAssumption
<1>6. Entry(PML4, 0) = {PDPT} /\ \A i \in 1 .. Entries - 1 : Entry(PML4, i) = {}
  <2>1. Entry(PML4, 0) = {PDPT}
    <3>1. PML4 # PDPT /\ PML4 # PD /\ PML4 # IdentityPT /\ PML4 # WindowPT
      BY FiveTables
    <3>2. BootEntry(PML4, 0) = {PDPT}
      BY <3>1 DEF BootEntry
    <3> QED
      BY <3>2, <1>4 DEF Entry
  <2>2. ASSUME NEW i \in 1 .. Entries - 1  PROVE Entry(PML4, i) = {}
    <3>1. i # 0 /\ PML4 # PDPT /\ PML4 # PD /\ PML4 # IdentityPT /\ PML4 # WindowPT
      BY FiveTables
    <3>2. BootEntry(PML4, i) = {}
      BY <3>1 DEF BootEntry
    <3>3. <<PML4, i>> \notin DOMAIN word
      BY <1>4
    <3> QED
      BY <3>2, <3>3 DEF Entry
  <2> QED
    BY <2>1, <2>2
<1>7. Entry(PDPT, 0) = {PD}
  BY <1>3, FiveTables DEF Entry, BootEntry
<1>8. Entry(PD, 0) = {IdentityPT} /\ Entry(PD, WindowIndex) = {WindowPT}
  BY <1>3, <1>5, FiveTables DEF Entry, BootEntry
<1>9. \A i \in 0 .. Entries - 1 : Entry(IdentityPT, i) = {i}
  <2>1. IdentityPT # PML4 /\ IdentityPT # PDPT /\ IdentityPT # PD /\ IdentityPT # WindowPT
    BY FiveTables
  <2>2. ASSUME NEW i  PROVE BootEntry(IdentityPT, i) = {i}
    <3>1. /\ ~ (IdentityPT = PML4 /\ i = 0) /\ ~ (IdentityPT = PDPT /\ i = 0)
          /\ ~ (IdentityPT = PD /\ i = 0) /\ ~ (IdentityPT = PD /\ i = WindowIndex)
          /\ IdentityPT # WindowPT
      BY <2>1
    <3> QED
      BY <3>1 DEF BootEntry
  <2> QED
    BY <1>4, <2>2 DEF Entry
<1>10. ASSUME NEW t \in Window, NEW i  PROVE Entry(t, i) = {}
  <2>1. t \in Nat /\ t \notin TableFrames /\ t >= KernelStart /\ KernelStart \in Nat
    BY FiveTables, Sizes DEF Window
  <2>2. <<t, i>> \notin DOMAIN word
    <3>1. SUFFICES ASSUME <<t, i>> \in DOMAIN word  PROVE FALSE
      OBVIOUS
    <3>2. \E s \in Window : t = WindowFrame(s)
      BY <1>1, <2>1, <3>1 DEF Harmless
    <3> QED
      BY <2>1, <3>2, WindowFrames
  <2> QED
    BY <2>1, <2>2 DEF Entry, BootEntry, TableFrames
<1> QED
  BY <1>6, <1>7, <1>8, <1>9, <1>10

LEMMA OneBelow ==
    /\ \A f, i : Below({f}, i) = Entry(f, i)
    /\ \A i : Below({}, i) = {}
  BY DEF Below

\* What the processor finds, by the indices of a page: the window's table, the
\* table of pages mapped to themselves, or nothing.
LEMMA Walks ==
    ASSUME TableInv, NEW p \in Nat
    PROVE  /\ Index(p, 4) = 0 /\ Index(p, 3) = 0 /\ Index(p, 2) = WindowIndex
                => Walk(p) = Entry(WindowPT, Index(p, 1))
           /\ Index(p, 4) = 0 /\ Index(p, 3) = 0 /\ Index(p, 2) = 0
                => Walk(p) = {Index(p, 1)}
           /\ ~ (Index(p, 4) = 0 /\ Index(p, 3) = 0 /\ Index(p, 2) \in {0, WindowIndex})
                => Walk(p) = {}
<1> DEFINE a == Index(p, 4)
           b == Index(p, 3)
           c == Index(p, 2)
           d == Index(p, 1)
<1>1. /\ a \in 0 .. Entries - 1 /\ b \in 0 .. Entries - 1
      /\ c \in 0 .. Entries - 1 /\ d \in 0 .. Entries - 1
  BY Indices
<1>2. Walk(p) = Below(Below(Below(Below({PML4}, a), b), c), d)
  BY DEF Walk
<1> HIDE DEF a, b, c, d
<1>3. Walk(p) = Below(Below(Below(Entry(PML4, a), b), c), d)
  BY <1>2, OneBelow
<1>4. CASE a # 0
  <2>1. Entry(PML4, a) = {}
    BY <1>1, <1>4, PathEntries
  <2> QED
    BY <1>3, <1>4, <2>1, OneBelow DEF a
<1>5. CASE a = 0
  <2>1. Walk(p) = Below(Below(Entry(PDPT, b), c), d)
    BY <1>3, <1>5, PathEntries, OneBelow
  <2>2. CASE b # 0
    <3>1. Entry(PDPT, b) = {} \/ \E t \in Window : Entry(PDPT, b) = {t}
      <4>1. CASE <<PDPT, b>> \in DOMAIN word
        <5>1. PICK g \in Nat : word[<<PDPT, b>>] = {g}
          BY <4>1 DEF TableInv, Harmless
        <5>2. Upper(g)
          BY <4>1, <5>1 DEF Upper
        <5>3. g \in Window
          BY <5>2 DEF TableInv, OwnTable
        <5> QED
          BY <4>1, <5>1, <5>3 DEF Entry
      <4>2. CASE <<PDPT, b>> \notin DOMAIN word
        BY <4>2, <2>2, FiveTables DEF Entry, BootEntry
      <4> QED
        BY <4>1, <4>2
    <3>2. Below(Entry(PDPT, b), c) = {}
      BY <3>1, OneBelow, PathEntries
    <3> QED
      BY <2>1, <2>2, <3>2, OneBelow DEF b
  <2>3. CASE b = 0
    <3>1. Walk(p) = Below(Entry(PD, c), d)
      BY <2>1, <2>3, PathEntries, OneBelow
    <3>2. CASE c \notin {0, WindowIndex}
      <4>1. Entry(PD, c) = {} \/ \E t \in Window : Entry(PD, c) = {t}
        <5>1. CASE <<PD, c>> \in DOMAIN word
          <6>1. PICK g \in Nat : word[<<PD, c>>] = {g}
            BY <5>1 DEF TableInv, Harmless
          <6>2. Lower(g)
            BY <5>1, <6>1 DEF Lower
          <6>3. g \in Window
            BY <6>2 DEF TableInv, OwnTable
          <6> QED
            BY <5>1, <6>1, <6>3 DEF Entry
        <5>2. CASE <<PD, c>> \notin DOMAIN word
          BY <5>2, <3>2, FiveTables DEF Entry, BootEntry
        <5> QED
          BY <5>1, <5>2
      <4>2. Below(Entry(PD, c), d) = {}
        BY <4>1, OneBelow, PathEntries
      <4> QED
        BY <3>1, <3>2, <4>2 DEF c
    <3>3. CASE c = 0
      <4>1. Walk(p) = {d}
        BY <1>1, <3>1, <3>3, PathEntries, OneBelow
      <4>2. WindowIndex # 0
        BY PageMapAssumption
      <4> QED
        BY <1>5, <2>3, <3>3, <4>1, <4>2 DEF a, b, c, d
    <3>4. CASE c = WindowIndex
      <4>1. Walk(p) = Entry(WindowPT, d)
        BY <3>1, <3>4, PathEntries, OneBelow
      <4>2. WindowIndex # 0
        BY PageMapAssumption
      <4> QED
        BY <1>5, <2>3, <3>4, <4>1, <4>2 DEF a, b, c, d
    <3> QED
      BY <3>2, <3>3, <3>4
  <2> QED
    BY <2>2, <2>3
<1> QED
  BY <1>4, <1>5

\* In the window every page has one frame, which the window's table names.
LEMMA WindowWalk ==
    ASSUME TableInv, NEW p \in Window
    PROVE  /\ Walk(p) = Entry(WindowPT, p - KernelStart)
           /\ \E f \in Nat : Walk(p) = {f}
<1> DEFINE i == p - KernelStart
<1>1. p \in Nat /\ i \in 0 .. Entries - 1 /\ i \in Nat
  BY Sizes DEF Window
<1>2. Walk(p) = Entry(WindowPT, i)
  BY <1>1, WindowIndices, Walks
<1> HIDE DEF i
<1>3. \E f \in Nat : Entry(WindowPT, i) = {f}
  <2>1. CASE <<WindowPT, i>> \in DOMAIN word
    BY <2>1 DEF TableInv, Harmless, Entry
  <2>2. CASE <<WindowPT, i>> \notin DOMAIN word
    <3>1. WindowPT # PML4 /\ WindowPT # PDPT /\ WindowPT # PD /\ WindowPT # IdentityPT
      BY FiveTables
    <3>2. BootEntry(WindowPT, i) = {KernelLoad + i}
      BY <3>1 DEF BootEntry
    <3>3. Entry(WindowPT, i) = {KernelLoad + i}
      BY <2>2, <3>2 DEF Entry
    <3> QED
      BY <1>1, <3>3, Sizes
  <2> QED
    BY <2>1, <2>2
<1> QED
  BY <1>2, <1>3 DEF i

\* A page of the window that nothing was mapped over has the boot code's frame.
LEMMA BootWalk ==
    ASSUME TableInv, NEW p \in Window, <<WindowPT, p - KernelStart>> \notin DOMAIN word
    PROVE  Walk(p) = {WindowFrame(p)}
<1>1. WindowPT # PML4 /\ WindowPT # PDPT /\ WindowPT # PD /\ WindowPT # IdentityPT
  BY FiveTables
<1>2. BootEntry(WindowPT, p - KernelStart) = {KernelLoad + (p - KernelStart)}
  BY <1>1 DEF BootEntry
<1> QED
  BY <1>2, WindowWalk DEF Entry, WindowFrame

\* The frame of a page: in the window as the tables say, below it and under
\* the first table the page's own number, behind the window none.
LEMMA Frames ==
    ASSUME TableInv, TlbInv
    PROVE  /\ \A p \in Window : Frame(p) = Walk(p) /\ \E f \in Nat : Frame(p) = {f}
           /\ \A p \in 0 .. Entries - 1 : Frame(p) = {p}
           /\ \A p : Far(p) => Frame(p) = {}
<1>1. ASSUME NEW p \in Window
      PROVE  Frame(p) = Walk(p) /\ \E f \in Nat : Frame(p) = {f}
  <2>1. Frame(p) = Walk(p)
    BY DEF Frame, TlbInv
  <2> QED
    BY <2>1, WindowWalk
<1>2. ASSUME NEW p \in 0 .. Entries - 1  PROVE Frame(p) = {p}
  <2>1. p \in Nat /\ p < Entries /\ p < Entries * Entries
    <3>1. Entries * Entries >= Entries
      BY Sizes
    <3> QED
      BY <3>1, Sizes
  <2>2. Index(p, 4) = 0 /\ Index(p, 3) = 0 /\ Index(p, 2) = 0 /\ Index(p, 1) = p
    BY <2>1, LowPages
  <2>3. Walk(p) = {p}
    BY <2>1, <2>2, Walks
  <2>4. p \notin Window
    BY <2>1, FiveTables, Sizes DEF Window
  <2>5. p \notin DOMAIN tlb
    BY <2>4 DEF TlbInv
  <2> QED
    BY <2>3, <2>5 DEF Frame
<1>3. ASSUME NEW p, Far(p)  PROVE Frame(p) = {}
  <2>1. p \in Nat /\ ~ (Index(p, 4) = 0 /\ Index(p, 3) = 0 /\ Index(p, 2) \in {0, WindowIndex})
    BY <1>3, FarIndices
  <2>2. Walk(p) = {}
    BY <2>1, Walks
  <2>3. p \notin Window
    BY <1>3, Sizes DEF Far, Window
  <2>4. p \notin DOMAIN tlb
    BY <2>3 DEF TlbInv
  <2> QED
    BY <2>2, <2>4 DEF Frame
<1> QED
  BY <1>1, <1>2, <1>3

\* The boot code's tables lie in frames the kernel reaches under their numbers.
LEMMA BootTables ==
    ASSUME TableInv, TlbInv, NEW t \in TableFrames
    PROVE  /\ t \in Nat /\ Frame(t) = {t}
           /\ \A i : BelowPage({t}, i) = Entry(t, i)
<1>1. t \in 0 .. Entries - 1 /\ t \in Nat
  BY Sizes
<1>2. Frame(t) = {t}
  BY <1>1, Frames
<1>3. UNION {Frame(s) : s \in {t}} = {t}
  BY <1>2
<1> QED
  BY <1>1, <1>2, <1>3, OneBelow DEF BelowPage

\* In the window the kernel's trace finds what the processor finds.
LEMMA Traced ==
    ASSUME TableInv, TlbInv, NEW p \in Window
    PROVE  page_trace_PML4(p) = Walk(p)
<1>1. /\ p \in Nat /\ Index(p, 4) = 0 /\ Index(p, 3) = 0
      /\ Index(p, 2) = WindowIndex /\ Index(p, 1) = p - KernelStart
  BY WindowIndices
<1>2. page_trace_PML4(p) =
        BelowPage(BelowPage(BelowPage(BelowPage({PML4}, 0), 0), WindowIndex), p - KernelStart)
  BY <1>1 DEF page_trace_PML4
<1>3. BelowPage({PML4}, 0) = {PDPT}
  BY BootTables, PathEntries DEF TableFrames
<1>4. BelowPage({PDPT}, 0) = {PD}
  BY BootTables, PathEntries DEF TableFrames
<1>5. BelowPage({PD}, WindowIndex) = {WindowPT}
  BY BootTables, PathEntries DEF TableFrames
<1>6. BelowPage({WindowPT}, p - KernelStart) = Entry(WindowPT, p - KernelStart)
  BY BootTables DEF TableFrames
<1> QED
  BY <1>2, <1>3, <1>4, <1>5, <1>6, WindowWalk

-----------------------------------------------------------------------------
(* Blocks, tails and pages.                                                *)

\* Where a block and its tail lie.
LEMMA Bounds ==
    ASSUME ListInv, BlockInv, NEW b \in live, NEW t \in Linked, Behind(b, t)
    PROVE  /\ b.start \in Nat /\ b.size \in Nat /\ b.use \in Uses /\ t \in Nat
           /\ KernelEnd + 24 <= b.start
           /\ b.start + b.size <= t
           /\ t + 24 <= WindowEnd
           /\ KernelEnd < t
<1>1. b.start \in Nat /\ b.size \in Nat /\ b.use \in Uses
  BY DEF BlockInv
<1>2. t \in Nat /\ t >= KernelEnd /\ t + 24 <= WindowEnd /\ t # KernelEnd
  BY Sizes DEF ListInv, Behind, sizeof_TAIL
<1>3. KernelEnd < t /\ KernelEnd \in Linked
  BY <1>2, Sizes DEF ListInv
<1>4. KernelEnd + 24 <= b.start /\ b.start + b.size <= t
  BY <1>3 DEF Behind, sizeof_TAIL
<1> QED
  BY <1>1, <1>2, <1>3, <1>4

\* No address belongs to two blocks with their tails, or to one and the
\* kernel's tail.
LEMMA RegionsApart ==
    ASSUME ListInv, BlockInv, NEW a \in Nat,
           NEW b \in live, NEW t \in Linked, Behind(b, t), b.start <= a, a < t + 24
    PROVE  /\ KernelEnd + 24 <= a
           /\ \A c \in live, u \in Linked :
                 Behind(c, u) /\ c.start <= a /\ a < u + 24 => c = b /\ u = t
<1>1. KernelEnd + 24 <= a
  BY Bounds, Sizes
<1>2. ASSUME NEW c \in live, NEW u \in Linked, Behind(c, u), c.start <= a, a < u + 24
      PROVE  c = b /\ u = t
  <2>1. b.start \in Nat /\ c.start \in Nat /\ t \in Nat /\ u \in Nat
    BY <1>2, Bounds
  <2>2. t < u => t + 24 <= c.start
    BY <1>2 DEF Behind, sizeof_TAIL
  <2>3. u < t => u + 24 <= b.start
    BY DEF Behind, sizeof_TAIL
  <2>4. t = u
    BY <1>2, <2>1, <2>2, <2>3
  <2> QED
    BY <1>2, <2>4 DEF BlockInv
<1> QED
  BY <1>1, <1>2

\* A block that fills its page shares it with nothing.
LEMMA PageAlone ==
    ASSUME ListInv, BlockInv, NEW b \in live, b.use \in Mapped \cup {"table"}
    PROVE  /\ PageOf(b.start) \in Window
           /\ KernelEnd + 24 <= b.start
           /\ PageOf(KernelEnd) < PageOf(b.start)
           /\ \A a \in Nat : PageOf(a) = PageOf(b.start) =>
                 /\ b.start <= a /\ a < b.start + PageBytes
                 /\ ~ a \in KernelEnd .. KernelEnd + 23
                 /\ \A c \in live, u \in Linked :
                       Behind(c, u) /\ c.start <= a /\ a < u + 24 => c = b
<1>1. PICK t \in Linked : Behind(b, t)
  BY DEF BlockInv
<1>2. /\ b.start \in Nat /\ t \in Nat /\ KernelEnd + 24 <= b.start
      /\ b.start + b.size <= t /\ t + 24 <= WindowEnd
  BY <1>1, Bounds
<1>3. b.size = PageBytes /\ b.start = PageOf(b.start) * PageBytes
  BY DEF BlockInv
<1>4. PageOf(b.start) \in Window
  BY <1>2, <1>3, WindowPage, Sizes
<1>5. PageOf(KernelEnd) < PageOf(b.start)
  <2>1. PageOf(KernelEnd) <= PageOf(b.start) /\ PageOf(KernelEnd) \in Nat /\ PageOf(b.start) \in Nat
    <3>1. KernelEnd \in Nat /\ b.start \in Nat /\ KernelEnd <= b.start
      BY <1>2, Sizes
    <3> QED
      BY <3>1, PagesRise, InPage
  <2>2. PageOf(KernelEnd) # PageOf(b.start)
    <3>1. PageOf(KernelEnd) * PageBytes <= KernelEnd
      BY InPage, Sizes
    <3> QED
      BY <1>2, <1>3, <3>1, Sizes
  <2> QED
    BY <2>1, <2>2
<1>6. ASSUME NEW a \in Nat, PageOf(a) = PageOf(b.start)
      PROVE  /\ b.start <= a /\ a < b.start + PageBytes
             /\ ~ a \in KernelEnd .. KernelEnd + 23
             /\ \A c \in live, u \in Linked :
                   Behind(c, u) /\ c.start <= a /\ a < u + 24 => c = b
  <2>1. b.start <= a /\ a < b.start + PageBytes
    BY <1>3, <1>6, InPage
  <2>2. a < t + 24
    BY <1>2, <1>3, <2>1, Sizes
  <2>3. /\ KernelEnd + 24 <= a
        /\ \A c \in live, u \in Linked :
              Behind(c, u) /\ c.start <= a /\ a < u + 24 => c = b /\ u = t
    BY <1>1, <2>1, <2>2, RegionsApart
  <2> QED
    BY <2>1, <2>3, Sizes
<1> QED
  BY <1>2, <1>4, <1>5, <1>6

\* A page that holds a table has its frame from the boot code.
LEMMA OwnFrame ==
    ASSUME ListInv, BlockInv, TableInv, TlbInv, NEW t, OwnTable(t)
    PROVE  /\ t \in Window /\ t \in Nat
           /\ <<WindowPT, t - KernelStart>> \notin DOMAIN word
           /\ Frame(t) = {WindowFrame(t)}
<1>1. t \in Window /\ t \in Nat
  BY FiveTables DEF OwnTable
<1>2. <<WindowPT, t - KernelStart>> \notin DOMAIN word
  <2>1. SUFFICES ASSUME <<WindowPT, t - KernelStart>> \in DOMAIN word  PROVE FALSE
    OBVIOUS
  <2>2. \E b \in live : b.use \in Mapped /\ PageOf(b.start) = KernelStart + (t - KernelStart)
    BY <2>1 DEF TableInv, Harmless
  <2>3. KernelStart + (t - KernelStart) = t
    BY <1>1, Sizes
  <2>4. PICK b \in live : b.use \in Mapped /\ PageOf(b.start) = t
    BY <2>2, <2>3
  <2>5. PageOf(KernelEnd) < t
    BY <2>4, PageAlone
  <2>6. PICK c \in live : c.use = "table" /\ PageOf(c.start) = t
    <3>1. KernelEnd \in Nat
      BY Sizes
    <3>2. PageOf(KernelEnd) \in Nat
      BY <3>1, InPage
    <3> QED
      BY <1>1, <2>5, <3>2 DEF OwnTable
  <2>7. PICK u \in Linked : Behind(c, u)
    BY DEF BlockInv
  <2>8. c.start \in Nat /\ c.start <= c.start /\ c.start < u + 24
    BY <2>7, Bounds
  <2>9. c = b
    BY <2>4, <2>6, <2>7, <2>8, PageAlone
  <2> QED
    BY <2>4, <2>6, <2>9 DEF Mapped
<1>3. Walk(t) = {WindowFrame(t)}
  BY <1>1, <1>2, BootWalk
<1> QED
  BY <1>1, <1>2, <1>3, Frames

-----------------------------------------------------------------------------
(* The list changes.                                                       *)

\* Linked tails and what is in them are numbers; only the kernel's tail has no
\* block, and it is no null pointer.
LEMMA Tails ==
    ASSUME ListInv
    PROVE  /\ KernelEnd \in Nat /\ KernelEnd > 0 /\ KernelEnd \in Linked
           /\ \A t \in Linked :
                 /\ t \in Nat /\ KernelEnd <= t /\ t + 24 <= WindowEnd
                 /\ tail[t].next \in Nat /\ tail[t].prev \in Nat /\ tail[t].vaddr \in Nat
                 /\ tail[t] = List!Tail(tail[t].next, tail[t].prev, tail[t].vaddr)
<1>1. KernelEnd \in Nat /\ KernelEnd \in Linked
  BY Sizes DEF ListInv
<1>2. KernelEnd > 0
  <2>1. KernelStart < PageOf(KernelEnd) /\ KernelStart \in Nat
    BY <1>1, WindowPage, Sizes
  <2>2. PageOf(0) = 0
    <3>1. 0 * PageBytes = 0 /\ 0 < 0 * PageBytes + PageBytes
      BY Sizes
    <3> QED
      BY <3>1, OnePage
  <2> QED
    BY <1>1, <2>1, <2>2
<1>3. ASSUME NEW t \in Linked
      PROVE  /\ t \in Nat /\ KernelEnd <= t /\ t + 24 <= WindowEnd
             /\ tail[t].next \in Nat /\ tail[t].prev \in Nat /\ tail[t].vaddr \in Nat
             /\ tail[t] = List!Tail(tail[t].next, tail[t].prev, tail[t].vaddr)
  <2>1. t \in KernelEnd .. WindowEnd - 24 /\ tail[t] \in [next : Nat, prev : Nat, vaddr : Nat]
    BY DEF ListInv, sizeof_TAIL
  <2> QED
    BY <2>1, Sizes DEF List!Tail
<1> QED
  BY <1>1, <1>2, <1>3

\* A new block whose tail t lies between the tails below the block and the
\* blocks above t: blocks and tails stay one to one.
LEMMA BlocksGrow ==
    ASSUME ListInv, BlockInv,
           NEW t \in Nat, t \notin Linked, Linked' = Linked \cup {t},
           NEW b \in [start : Nat, size : Nat, use : Uses],
           KernelEnd + 24 <= b.start, b.start + b.size <= t,
           b.use \in Mapped \cup {"table"} =>
              b.size = PageBytes /\ b.start = PageOf(b.start) * PageBytes,
           b.use = "devices" => PageOf(t + 23) = PageOf(KernelEnd),
           tail'[t].vaddr = b.start,
           \A u \in Linked : tail'[u].vaddr = tail[u].vaddr,
           \A u \in Linked : u < t => u + 24 <= b.start,
           \A c \in live, u \in Linked : t < u /\ Behind(c, u) => t + 24 <= c.start,
           live' = live \cup {b}
    PROVE  /\ BlockInv'
           /\ \A c \in live, u \in Linked : Behind(c, u) => Behind(c, u)'
           /\ Behind(b, t)'
<1>0. \A u \in Linked : u \in Nat /\ KernelEnd <= u
  BY Tails
<1>1. ASSUME NEW c \in live, NEW u \in Linked, Behind(c, u)  PROVE Behind(c, u)'
  BY <1>1 DEF Behind, sizeof_TAIL
<1>2. t # KernelEnd /\ KernelEnd \in Nat
  BY Tails
<1>3. Behind(b, t)'
  BY <1>2 DEF Behind, sizeof_TAIL
<1>4. ASSUME NEW c \in live, NEW u \in Linked, Behind(c, u)'  PROVE Behind(c, u)
  BY <1>4 DEF Behind, sizeof_TAIL
<1>5. ASSUME NEW u \in Linked, Behind(b, u)'  PROVE FALSE
  <2>1. b.start + b.size <= u /\ \A v \in Linked' : v < u => v + 24 <= b.start
    BY <1>5 DEF Behind, sizeof_TAIL
  <2>2. u \in Nat /\ u # t /\ b.start \in Nat /\ b.size \in Nat
    BY <1>0
  <2>3. CASE u < t
    BY <2>1, <2>2, <2>3
  <2>4. CASE t < u
    <3>1. t + 24 <= b.start
      BY <2>1, <2>4
    <3> QED
      BY <3>1, <2>2
  <2> QED
    BY <2>2, <2>3, <2>4
<1>6. ASSUME NEW c \in live, Behind(c, t)'  PROVE FALSE
  <2>1. PICK u \in Linked : Behind(c, u)
    BY DEF BlockInv
  <2>2. /\ c.start \in Nat /\ c.size \in Nat /\ u \in Nat /\ c.start + c.size <= u
        /\ b.start \in Nat /\ b.size \in Nat /\ u # t
    BY <2>1, Bounds
  <2>3. c.start = b.start
    <3>1. tail'[t].vaddr \in {c.start, 0}
      BY <1>6 DEF Behind
    <3> QED
      BY <3>1, <2>2, <1>2
  <2>4. CASE u < t
    BY <2>2, <2>3, <2>4
  <2>5. CASE t < u
    <3>1. t + 24 <= c.start
      BY <2>1, <2>5
    <3> QED
      BY <3>1, <2>2, <2>3
  <2> QED
    BY <2>2, <2>4, <2>5
<1>7. BlockInv'
  <2>1. live' \subseteq [start : Nat, size : Nat, use : Uses]
    BY DEF BlockInv
  <2>2. \A c \in live' : \E u \in Linked' : Behind(c, u)'
    <3> SUFFICES ASSUME NEW c \in live'  PROVE \E u \in Linked' : Behind(c, u)'
      OBVIOUS
    <3>1. CASE c = b
      BY <1>3, <3>1
    <3>2. CASE c \in live
      <4>1. PICK u \in Linked : Behind(c, u)
        BY <3>2 DEF BlockInv
      <4> QED
        BY <1>1, <3>2, <4>1
    <3> QED
      BY <3>1, <3>2
  <2>3. \A u \in Linked' \ {KernelEnd} : \E c \in live' : Behind(c, u)'
    <3> SUFFICES ASSUME NEW u \in Linked' \ {KernelEnd}  PROVE \E c \in live' : Behind(c, u)'
      OBVIOUS
    <3>1. CASE u = t
      BY <1>3, <3>1
    <3>2. CASE u \in Linked
      <4>1. PICK c \in live : Behind(c, u)
        BY <3>2 DEF BlockInv
      <4> QED
        BY <1>1, <3>2, <4>1
    <3> QED
      BY <3>1, <3>2
  <2>4. \A c, d \in live', u \in Linked' : Behind(c, u)' /\ Behind(d, u)' => c = d
    <3> SUFFICES ASSUME NEW c \in live', NEW d \in live', NEW u \in Linked',
                        Behind(c, u)', Behind(d, u)'
                 PROVE  c = d
      OBVIOUS
    <3>1. CASE u = t
      BY <1>6, <3>1
    <3>2. CASE u \in Linked
      <4>1. c \in live /\ d \in live
        BY <1>5, <3>2
      <4>2. Behind(c, u) /\ Behind(d, u)
        BY <1>4, <3>2, <4>1
      <4> QED
        BY <3>2, <4>1, <4>2 DEF BlockInv
    <3> QED
      BY <3>1, <3>2
  <2>5. \A c \in live' : c.use \in Mapped \cup {"table"} =>
            c.size = PageBytes /\ c.start = PageOf(c.start) * PageBytes
    BY DEF BlockInv
  <2>6. \A c \in live', u \in Linked' :
            c.use = "devices" /\ Behind(c, u)' => PageOf(u + 23) = PageOf(KernelEnd)
    <3> SUFFICES ASSUME NEW c \in live', NEW u \in Linked', c.use = "devices", Behind(c, u)'
                 PROVE  PageOf(u + 23) = PageOf(KernelEnd)
      OBVIOUS
    <3>1. CASE u = t
      <4>1. c = b
        BY <1>6, <3>1
      <4> QED
        BY <3>1, <4>1
    <3>2. CASE u \in Linked
      <4>1. c \in live
        BY <1>5, <3>2
      <4>2. Behind(c, u)
        BY <1>4, <3>2, <4>1
      <4> QED
        BY <3>2, <4>1, <4>2 DEF BlockInv
    <3> QED
      BY <3>1, <3>2
  <2> QED
    BY <2>1, <2>2, <2>3, <2>4, <2>5, <2>6 DEF BlockInv
<1> QED
  BY <1>1, <1>3, <1>7

\* A tail is as far from the next lower one as the sizes say.
LEMMA TailsApart ==
    ASSUME ListInv, BlockInv, NEW u \in Linked, NEW t \in Linked, u < t
    PROVE  u + 24 <= t
<1>1. t # KernelEnd /\ u \in Nat /\ t \in Nat
  BY Tails
<1>2. PICK b \in live : Behind(b, t)
  BY <1>1 DEF BlockInv
<1>3. b.start \in Nat /\ b.size \in Nat /\ b.start + b.size <= t
  BY <1>2, Bounds
<1>4. u + 24 <= b.start
  BY <1>2 DEF Behind, sizeof_TAIL
<1> QED
  BY <1>1, <1>3, <1>4

\* A tail in front of the block of e: where it lies among the others.
LEMMA InsertPlace ==
    ASSUME ListInv, BlockInv, NEW e \in Linked, tail[e].prev # 0,
           NEW start \in Nat, NEW t \in Nat, start <= t,
           tail[e].prev + 24 <= start, t + 24 <= tail[e].vaddr
    PROVE  /\ tail[e].prev \in Linked /\ tail[e].prev \in Nat
           /\ tail[tail[e].prev].next = e
           /\ tail[e].prev < t /\ t < e /\ t \notin Linked
           /\ e # KernelEnd /\ tail[e].vaddr # 0
           /\ \A u \in Linked : u > tail[e].prev => e <= u
           /\ \A u \in Linked : u < t => u + 24 <= start
           /\ \A c \in live, u \in Linked : t < u /\ Behind(c, u) => t + 24 <= c.start
<1> DEFINE p == tail[e].prev
<1>1. e # KernelEnd
  BY DEF ListInv
<1>2. /\ p \in Linked /\ tail[p].next = e
      /\ (p = 0 <=> tail[e].vaddr = 0)
  BY <1>1 DEF ListInv, LedTo
<1>3. p \in Nat /\ e \in Nat /\ tail[e].vaddr \in Nat /\ tail[e].vaddr # 0 /\ p # 0
  BY <1>2, Tails
<1>4. e > p /\ \A u \in Linked : u > p => e <= u
  <2>1. tail[p].next # 0
    BY <1>2, Tails
  <2> QED
    BY <1>2, <2>1 DEF ListInv, Chained
<1>5. PICK c \in live : Behind(c, e)
  BY <1>1 DEF BlockInv
<1>6. /\ c.start \in Nat /\ c.size \in Nat /\ c.start + c.size <= e
      /\ tail[e].vaddr = c.start
  BY <1>3, <1>5, Bounds DEF Behind
<1>7. p + 24 <= start /\ t + 24 <= c.start
  BY <1>6
<1> HIDE DEF p
<1>8. p < t /\ t < e /\ t + 24 <= e
  BY <1>3, <1>6, <1>7
<1>9. \A u \in Linked : u \in Nat /\ (u < e => u <= p)
  BY <1>3, <1>4, Tails
<1>10. t \notin Linked
  BY <1>8, <1>9, <1>3
<1>11. ASSUME NEW u \in Linked, u < t  PROVE u + 24 <= start
  <2>1. u \in Nat /\ u <= p
    <3>1. u \in Nat /\ (u < e => u <= p)
      BY <1>9
    <3> QED
      BY <1>3, <1>8, <1>11, <3>1
  <2>2. u < p => u + 24 <= p
    BY <1>2, TailsApart
  <2> QED
    BY <1>3, <1>7, <2>1, <2>2
<1>12. ASSUME NEW d \in live, NEW u \in Linked, t < u, Behind(d, u)  PROVE t + 24 <= d.start
  <2>1. d.start \in Nat /\ u \in Nat
    BY <1>12, Bounds
  <2>2. e <= u
    BY <1>3, <1>4, <1>8, <1>12, <2>1
  <2>3. CASE u = e
    <3>1. d = c
      BY <1>5, <1>12, <2>3 DEF BlockInv
    <3> QED
      BY <3>1, <1>7
  <2>4. CASE e < u
    <3>1. e + 24 <= d.start
      BY <1>12, <2>4 DEF Behind, sizeof_TAIL
    <3> QED
      BY <3>1, <1>3, <1>8, <2>1
  <2> QED
    BY <1>3, <2>1, <2>2, <2>3, <2>4
<1> QED
  BY <1>1, <1>2, <1>3, <1>4, <1>8, <1>10, <1>11, <1>12 DEF p

\* And it leaves the list a list.
LEMMA InsertKeeps ==
    ASSUME ListInv, BlockInv, NEW e \in Linked, tail[e].prev # 0,
           NEW start \in Nat, NEW t \in Nat, start <= t,
           tail[e].prev + 24 <= start, t + 24 <= tail[e].vaddr,
           tail' = List!Inserted(e, t, start), UNCHANGED mem_listStart
    PROVE  /\ ListInv'
           /\ Linked' = Linked \cup {t}
           /\ tail'[t].vaddr = start
           /\ \A u \in Linked : tail'[u].vaddr = tail[u].vaddr
<1> DEFINE p == tail[e].prev
<1>1. /\ p \in Linked /\ p \in Nat
      /\ tail[p].next = e
      /\ p < t /\ t < e /\ t \notin Linked
      /\ e # KernelEnd /\ tail[e].vaddr # 0
      /\ \A u \in Linked : u > p => e <= u
  BY InsertPlace
<1>2. p # 0 /\ p + 24 <= start /\ e \in Nat /\ p # e
  BY <1>1, Tails
<1>3. tail' = [List!Constructed(e, t, start) EXCEPT ![p].next = t, ![e].prev = t]
  BY DEF List!Inserted
<1>4. List!Constructed(e, t, start) =
        [a \in DOMAIN tail \cup {t} |-> IF a = t THEN List!Tail(e, p, start) ELSE tail[a]]
  BY DEF List!Constructed
<1> HIDE DEF p
<1>5. Linked' = Linked \cup {t}
  BY <1>3, <1>4 DEF Linked
<1>6. tail'[t] = List!Tail(e, p, start)
  BY <1>1, <1>2, <1>3, <1>4
<1>7. \A u \in Linked \ {p, e} : tail'[u] = tail[u]
  BY <1>1, <1>3, <1>4 DEF Linked
<1>8. tail'[p] = List!Tail(t, tail[p].prev, tail[p].vaddr)
  <2>1. tail[p] = List!Tail(tail[p].next, tail[p].prev, tail[p].vaddr)
    BY <1>1, Tails
  <2>2. tail'[p] = [tail[p] EXCEPT !.next = t]
    BY <1>1, <1>2, <1>3, <1>4 DEF Linked
  <2> QED
    BY <2>1, <2>2 DEF List!Tail
<1>9. tail'[e] = List!Tail(tail[e].next, t, tail[e].vaddr)
  <2>1. tail[e] = List!Tail(tail[e].next, tail[e].prev, tail[e].vaddr)
    BY Tails
  <2>2. tail'[e] = [tail[e] EXCEPT !.prev = t]
    BY <1>1, <1>2, <1>3, <1>4 DEF Linked
  <2> QED
    BY <2>1, <2>2 DEF List!Tail
<1>10. /\ tail'[t].next = e /\ tail'[t].prev = p /\ tail'[t].vaddr = start
       /\ tail'[p].next = t /\ tail'[p].prev = tail[p].prev /\ tail'[p].vaddr = tail[p].vaddr
       /\ tail'[e].next = tail[e].next /\ tail'[e].prev = t /\ tail'[e].vaddr = tail[e].vaddr
  BY <1>6, <1>8, <1>9 DEF List!Tail
<1>11. \A u \in Linked : tail'[u].vaddr = tail[u].vaddr
  BY <1>7, <1>10
<1>12. \A u \in Linked \ {p} : tail'[u].next = tail[u].next
  BY <1>7, <1>10
<1>13. \A u \in Linked \ {e} : tail'[u].prev = tail[u].prev
  BY <1>7, <1>10
<1>14. \A u \in Linked' : /\ u \in KernelEnd .. WindowEnd - sizeof_TAIL
                          /\ tail'[u] \in [next : Nat, prev : Nat, vaddr : Nat]
  <2>1. t \in KernelEnd .. WindowEnd - sizeof_TAIL
    <3>1. KernelEnd \in Nat /\ KernelEnd <= p /\ e + 24 <= WindowEnd /\ WindowEnd \in Nat
      BY <1>1, Tails, Sizes
    <3> QED
      BY <1>1, <1>2, <3>1 DEF sizeof_TAIL
  <2>2. tail'[t] \in [next : Nat, prev : Nat, vaddr : Nat]
    BY <1>1, <1>2, <1>6 DEF List!Tail
  <2>3. tail'[p] \in [next : Nat, prev : Nat, vaddr : Nat]
    <3>1. tail[p].prev \in Nat /\ tail[p].vaddr \in Nat /\ t \in Nat
      BY <1>1, Tails
    <3> QED
      BY <1>8, <3>1 DEF List!Tail
  <2>4. tail'[e] \in [next : Nat, prev : Nat, vaddr : Nat]
    <3>1. tail[e].next \in Nat /\ tail[e].vaddr \in Nat /\ t \in Nat
      BY Tails
    <3> QED
      BY <1>9, <3>1 DEF List!Tail
  <2>5. \A u \in Linked : u \in KernelEnd .. WindowEnd - sizeof_TAIL
                          /\ tail[u] \in [next : Nat, prev : Nat, vaddr : Nat]
    BY DEF ListInv
  <2> QED
    BY <1>5, <1>7, <2>1, <2>2, <2>3, <2>4, <2>5
<1>15. Chained'
  <2>1. \A u \in Linked : u \in Nat /\ (u > p => e <= u)
    BY <1>1, Tails
  <2> SUFFICES ASSUME NEW v \in Linked'
               PROVE  /\ tail'[v].next = 0 => \A u \in Linked' : u <= v
                      /\ tail'[v].next # 0 =>
                            /\ tail'[v].next \in Linked'
                            /\ tail'[v].next > v
                            /\ \A u \in Linked' : u > v => tail'[v].next <= u
    BY DEF Chained
  <2>2. CASE v = t
    BY <1>1, <1>2, <1>5, <1>10, <2>1, <2>2
  <2>3. CASE v = p
    BY <1>1, <1>2, <1>5, <1>10, <2>1, <2>3
  <2>4. CASE v \in Linked \ {p}
    <3>1. tail'[v].next = tail[v].next /\ tail[v].next \in Nat /\ v \in Nat
      BY <1>12, <2>4, Tails
    <3>2. /\ tail[v].next = 0 => \A u \in Linked : u <= v
          /\ tail[v].next # 0 =>
                /\ tail[v].next \in Linked
                /\ tail[v].next > v
                /\ \A u \in Linked : u > v => tail[v].next <= u
      BY <2>4 DEF ListInv, Chained
    <3>3. tail[v].next = 0 => t <= v
      BY <1>1, <1>2, <3>1, <3>2
    <3>4. tail[v].next # 0 /\ t > v => tail[v].next <= t
      <4>1. SUFFICES ASSUME tail[v].next # 0, t > v  PROVE tail[v].next <= t
        OBVIOUS
      <4>2. v < p
        BY <1>1, <1>2, <2>1, <2>4, <3>1, <4>1
      <4> QED
        BY <1>1, <3>1, <3>2, <4>1, <4>2
    <3> QED
      BY <1>5, <3>1, <3>2, <3>3, <3>4
  <2> QED
    BY <1>5, <2>2, <2>3, <2>4
<1>16. LedTo'
  <2> SUFFICES ASSUME NEW v \in Linked' \ {KernelEnd}
               PROVE  /\ \E u \in Linked' : tail'[u].next = v
                      /\ tail'[v].prev = 0 <=> tail'[v].vaddr = 0
                      /\ tail'[v].prev # 0 =>
                            tail'[v].prev \in Linked' /\ tail'[tail'[v].prev].next = v
    BY DEF LedTo
  <2>1. CASE v = t
    BY <1>1, <1>2, <1>5, <1>10, <2>1
  <2>2. CASE v = e
    BY <1>1, <1>5, <1>10, <2>2
  <2>3. CASE v \in Linked \ {e}
    <3>1. /\ \E u \in Linked : tail[u].next = v
          /\ tail[v].prev = 0 <=> tail[v].vaddr = 0
          /\ tail[v].prev # 0 => tail[v].prev \in Linked /\ tail[tail[v].prev].next = v
      BY <2>3 DEF ListInv, LedTo
    <3>2. tail'[v].prev = tail[v].prev /\ tail'[v].vaddr = tail[v].vaddr
      BY <1>11, <1>13, <2>3
    <3>3. \A u \in Linked : tail[u].next = v => tail'[u].next = v
      BY <1>1, <1>12, <2>3
    <3> QED
      BY <1>5, <3>1, <3>2, <3>3
  <2> QED
    BY <1>5, <2>1, <2>2, <2>3
<1>17. tail'[KernelEnd].prev = 0 /\ KernelEnd \in Linked' /\ mem_listStart' = KernelEnd
  BY <1>1, <1>5, <1>13 DEF ListInv
<1> QED
  BY <1>5, <1>10, <1>11, <1>14, <1>15, <1>16, <1>17 DEF ListInv

\* A tail behind the last one: where it lies, and that the list stays a list.
LEMMA AppendKeeps ==
    ASSUME ListInv, BlockInv, NEW e \in Linked, tail[e].next = 0,
           NEW start \in Nat, NEW t \in Nat, start <= t,
           e + 24 <= start, t + 24 <= WindowEnd,
           tail' = List!Appended(e, t, start), UNCHANGED mem_listStart
    PROVE  /\ ListInv'
           /\ t \notin Linked
           /\ Linked' = Linked \cup {t}
           /\ tail'[t].vaddr = start /\ tail'[t].next = 0
           /\ \A u \in Linked : tail'[u].vaddr = tail[u].vaddr
           /\ \A u \in Linked : u < t /\ u + 24 <= start
<1>1. /\ e \in Nat /\ KernelEnd \in Nat /\ KernelEnd > 0 /\ KernelEnd <= e
      /\ \A u \in Linked : u \in Nat /\ u <= e
  BY Tails DEF ListInv, Chained
<1>2. ASSUME NEW u \in Linked  PROVE u < t /\ u + 24 <= start
  BY <1>1, <1>2
<1>3. t \notin Linked /\ e < t /\ e # t
  BY <1>1, <1>2
<1>4. tail' = [a \in DOMAIN tail \cup {t} |->
                  CASE a = t -> List!Tail(0, e, start)
                    [] a = e -> [tail[a] EXCEPT !.next = t]
                    [] OTHER -> tail[a]]
  BY DEF List!Appended
<1>5. Linked' = Linked \cup {t}
  BY <1>4 DEF Linked
<1>6. tail'[t] = List!Tail(0, e, start)
  BY <1>3, <1>4
<1>7. \A u \in Linked \ {e} : tail'[u] = tail[u]
  BY <1>3, <1>4 DEF Linked
<1>8. tail'[e] = List!Tail(t, tail[e].prev, tail[e].vaddr)
  <2>1. tail[e] = List!Tail(tail[e].next, tail[e].prev, tail[e].vaddr)
    BY Tails
  <2>2. tail'[e] = [tail[e] EXCEPT !.next = t]
    BY <1>3, <1>4 DEF Linked
  <2> QED
    BY <2>1, <2>2 DEF List!Tail
<1>9. /\ tail'[t].next = 0 /\ tail'[t].prev = e /\ tail'[t].vaddr = start
      /\ tail'[e].next = t /\ tail'[e].prev = tail[e].prev /\ tail'[e].vaddr = tail[e].vaddr
  BY <1>6, <1>8 DEF List!Tail
<1>10. \A u \in Linked : tail'[u].vaddr = tail[u].vaddr /\ tail'[u].prev = tail[u].prev
  BY <1>7, <1>9
<1>11. \A u \in Linked' : /\ u \in KernelEnd .. WindowEnd - sizeof_TAIL
                          /\ tail'[u] \in [next : Nat, prev : Nat, vaddr : Nat]
  <2>1. t \in KernelEnd .. WindowEnd - sizeof_TAIL
    BY <1>1, <1>3, Sizes DEF sizeof_TAIL
  <2>2. tail'[t] \in [next : Nat, prev : Nat, vaddr : Nat]
    BY <1>1, <1>6 DEF List!Tail
  <2>3. tail'[e] \in [next : Nat, prev : Nat, vaddr : Nat]
    <3>1. tail[e].prev \in Nat /\ tail[e].vaddr \in Nat
      BY Tails
    <3> QED
      BY <1>8, <3>1 DEF List!Tail
  <2>4. \A u \in Linked : u \in KernelEnd .. WindowEnd - sizeof_TAIL
                          /\ tail[u] \in [next : Nat, prev : Nat, vaddr : Nat]
    BY DEF ListInv
  <2> QED
    BY <1>5, <1>7, <2>1, <2>2, <2>3, <2>4
<1>12. Chained'
  <2> SUFFICES ASSUME NEW v \in Linked'
               PROVE  /\ tail'[v].next = 0 => \A u \in Linked' : u <= v
                      /\ tail'[v].next # 0 =>
                            /\ tail'[v].next \in Linked'
                            /\ tail'[v].next > v
                            /\ \A u \in Linked' : u > v => tail'[v].next <= u
    BY DEF Chained
  <2>1. CASE v = t
    BY <1>2, <1>5, <1>9, <2>1
  <2>2. CASE v = e
    BY <1>1, <1>3, <1>5, <1>9, <2>2
  <2>3. CASE v \in Linked \ {e}
    <3>1. tail'[v] = tail[v] /\ v \in Nat /\ v < e
      <4>1. v \in Nat /\ v <= e /\ v # e /\ tail'[v] = tail[v]
        BY <1>1, <1>7, <2>3
      <4> QED
        BY <1>1, <4>1
    <3>2. /\ tail[v].next = 0 => \A u \in Linked : u <= v
          /\ tail[v].next # 0 =>
                /\ tail[v].next \in Linked
                /\ tail[v].next > v
                /\ \A u \in Linked : u > v => tail[v].next <= u
      BY <2>3 DEF ListInv, Chained
    <3>3. tail[v].next # 0
      BY <1>1, <3>1, <3>2
    <3>4. tail[v].next \in Linked /\ tail[v].next <= t
      <4>1. tail[v].next \in Linked
        BY <3>2, <3>3
      <4>2. tail[v].next \in Nat /\ tail[v].next <= e
        BY <1>1, <4>1
      <4> QED
        BY <1>1, <1>3, <4>1, <4>2
    <3> QED
      BY <1>5, <3>1, <3>2, <3>3, <3>4
  <2> QED
    BY <1>5, <2>1, <2>2, <2>3
<1>13. LedTo'
  <2> SUFFICES ASSUME NEW v \in Linked' \ {KernelEnd}
               PROVE  /\ \E u \in Linked' : tail'[u].next = v
                      /\ tail'[v].prev = 0 <=> tail'[v].vaddr = 0
                      /\ tail'[v].prev # 0 =>
                            tail'[v].prev \in Linked' /\ tail'[tail'[v].prev].next = v
    BY DEF LedTo
  <2>1. CASE v = t
    <3>1. start # 0 /\ e # 0
      BY <1>1
    <3> QED
      BY <1>5, <1>9, <2>1, <3>1
  <2>2. CASE v \in Linked
    <3>1. /\ \E u \in Linked : tail[u].next = v
          /\ tail[v].prev = 0 <=> tail[v].vaddr = 0
          /\ tail[v].prev # 0 => tail[v].prev \in Linked /\ tail[tail[v].prev].next = v
      BY <2>2 DEF ListInv, LedTo
    <3>2. v # 0
      BY <2>2, Tails
    <3>3. \A u \in Linked : tail[u].next = v => tail'[u].next = v
      BY <1>7, <3>2
    <3> QED
      BY <1>5, <1>10, <2>2, <3>1, <3>3
  <2> QED
    BY <1>5, <2>1, <2>2
<1>14. tail'[KernelEnd].prev = 0 /\ KernelEnd \in Linked' /\ mem_listStart' = KernelEnd
  BY <1>5, <1>10 DEF ListInv
<1> QED
  BY <1>2, <1>3, <1>5, <1>9, <1>10, <1>11, <1>12, <1>13, <1>14 DEF ListInv

\* Of the last block the address leads to its own tail.
LEMMA LastBlock ==
    ASSUME ListInv, BlockInv, NEW b \in live, NEW e \in Linked,
           tail[e].vaddr = b.start, tail[e].next = 0
    PROVE  /\ Behind(b, e)
           /\ \A u \in Linked : u <= e
           /\ tail[e].prev \in Linked /\ tail[tail[e].prev].next = e
           /\ tail[e].prev < e
           /\ \A u \in Linked \ {e} : u <= tail[e].prev
<1>1. /\ e \in Nat /\ KernelEnd \in Nat /\ KernelEnd > 0
      /\ \A u \in Linked : u \in Nat /\ u <= e
  BY Tails DEF ListInv, Chained
<1>2. PICK u \in Linked : Behind(b, u)
  BY DEF BlockInv
<1>3. /\ b.start \in Nat /\ b.size \in Nat /\ u \in Nat /\ b.start + b.size <= u
      /\ KernelEnd < u /\ b.start > 0
  <2>1. /\ b.start \in Nat /\ b.size \in Nat /\ u \in Nat /\ b.start + b.size <= u
        /\ KernelEnd < u /\ KernelEnd + 24 <= b.start
    BY <1>2, Bounds
  <2> QED
    BY <1>1, <2>1
<1>4. e # KernelEnd
  BY <1>1, <1>3
<1>5. PICK c \in live : Behind(c, e)
  BY <1>4 DEF BlockInv
<1>6. c.start = b.start
  BY <1>3, <1>5 DEF Behind
<1>7. u = e
  <2>1. SUFFICES ASSUME u < e  PROVE FALSE
    BY <1>1, <1>3
  <2>2. u + 24 <= c.start
    BY <1>5, <2>1 DEF Behind, sizeof_TAIL
  <2> QED
    BY <1>3, <1>6, <2>2
<1>8. tail[e].prev # 0 /\ tail[e].prev \in Linked /\ tail[tail[e].prev].next = e
  BY <1>3, <1>4 DEF ListInv, LedTo
<1>9. tail[e].prev < e /\ \A v \in Linked : v > tail[e].prev => e <= v
  <2>1. tail[tail[e].prev].next # 0
    BY <1>1, <1>4, <1>8, Tails
  <2> QED
    BY <1>1, <1>8, <2>1 DEF ListInv, Chained
<1>10. ASSUME NEW v \in Linked \ {e}  PROVE v <= tail[e].prev
  <2>1. v \in Nat /\ v <= e /\ v # e /\ tail[e].prev \in Nat
    BY <1>1, <1>8
  <2>2. v > tail[e].prev => e <= v
    BY <1>9
  <2> QED
    BY <1>1, <2>1, <2>2
<1> QED
  BY <1>1, <1>2, <1>7, <1>8, <1>9, <1>10

\* The last block is taken off the list.
LEMMA UnlinkKeeps ==
    ASSUME ListInv, BlockInv, NEW b \in live, NEW e \in Linked,
           tail[e].vaddr = b.start, tail[e].next = 0,
           tail' = List!Unlinked(e), UNCHANGED mem_listStart, live' = live \ {b}
    PROVE  /\ ListInv' /\ BlockInv'
           /\ Linked' = Linked \ {e}
           /\ \A c \in live', u \in Linked' : Behind(c, u) => Behind(c, u)'
<1> DEFINE p == tail[e].prev
<1>1. /\ Behind(b, e)
      /\ \A u \in Linked : u <= e
      /\ p \in Linked /\ tail[p].next = e
      /\ p < e
      /\ \A u \in Linked \ {e} : u <= p
  BY LastBlock
<1>2. e \in Nat /\ p \in Nat /\ KernelEnd \in Nat /\ KernelEnd > 0 /\ e # KernelEnd
  BY <1>1, Tails DEF Behind
<1> HIDE DEF p
<1>3. tail' = [a \in DOMAIN tail \ {e} |->
                  CASE a = p -> [tail[a] EXCEPT !.next = 0]
                    [] a = 0 -> [tail[a] EXCEPT !.prev = p]
                    [] OTHER -> tail[a]]
  BY DEF List!Unlinked, p
<1>4. Linked' = Linked \ {e}
  BY <1>3 DEF Linked
<1>5. \A u \in Linked : u \in Nat /\ u # 0
  BY Tails
<1>6. \A u \in Linked' \ {p} : tail'[u] = tail[u]
  BY <1>3, <1>4, <1>5 DEF Linked
<1>7. tail'[p] = List!Tail(0, tail[p].prev, tail[p].vaddr)
  <2>1. tail[p] = List!Tail(tail[p].next, tail[p].prev, tail[p].vaddr)
    BY <1>1, Tails
  <2>2. tail'[p] = [tail[p] EXCEPT !.next = 0]
    BY <1>1, <1>2, <1>3, <1>5 DEF Linked
  <2> QED
    BY <2>1, <2>2 DEF List!Tail
<1>8. tail'[p].next = 0 /\ tail'[p].prev = tail[p].prev /\ tail'[p].vaddr = tail[p].vaddr
  BY <1>7 DEF List!Tail
<1>9. \A u \in Linked' : tail'[u].prev = tail[u].prev /\ tail'[u].vaddr = tail[u].vaddr
  BY <1>6, <1>8
<1>10. \A u \in Linked' : /\ u \in KernelEnd .. WindowEnd - sizeof_TAIL
                          /\ tail'[u] \in [next : Nat, prev : Nat, vaddr : Nat]
  <2>1. tail'[p] \in [next : Nat, prev : Nat, vaddr : Nat]
    <3>1. tail[p].prev \in Nat /\ tail[p].vaddr \in Nat
      BY <1>1, Tails
    <3> QED
      BY <1>7, <3>1 DEF List!Tail
  <2>2. \A u \in Linked : u \in KernelEnd .. WindowEnd - sizeof_TAIL
                          /\ tail[u] \in [next : Nat, prev : Nat, vaddr : Nat]
    BY DEF ListInv
  <2> QED
    BY <1>4, <1>6, <2>1, <2>2
<1>11. Chained'
  <2> SUFFICES ASSUME NEW v \in Linked'
               PROVE  /\ tail'[v].next = 0 => \A u \in Linked' : u <= v
                      /\ tail'[v].next # 0 =>
                            /\ tail'[v].next \in Linked'
                            /\ tail'[v].next > v
                            /\ \A u \in Linked' : u > v => tail'[v].next <= u
    BY DEF Chained
  <2>1. CASE v = p
    BY <1>1, <1>4, <1>8, <2>1
  <2>2. CASE v # p
    <3>1. tail'[v] = tail[v] /\ v \in Nat /\ v < p
      BY <1>1, <1>2, <1>4, <1>5, <1>6, <2>2
    <3>2. /\ tail[v].next = 0 => \A u \in Linked : u <= v
          /\ tail[v].next # 0 =>
                /\ tail[v].next \in Linked
                /\ tail[v].next > v
                /\ \A u \in Linked : u > v => tail[v].next <= u
      BY <1>4 DEF ListInv, Chained
    <3>3. tail[v].next # 0 /\ tail[v].next <= p
      BY <1>1, <1>2, <3>1, <3>2
    <3>4. tail[v].next # e
      BY <1>1, <1>2, <3>3
    <3> QED
      BY <1>4, <3>1, <3>2, <3>3, <3>4
  <2> QED
    BY <2>1, <2>2
<1>12. LedTo'
  <2> SUFFICES ASSUME NEW v \in Linked' \ {KernelEnd}
               PROVE  /\ \E u \in Linked' : tail'[u].next = v
                      /\ tail'[v].prev = 0 <=> tail'[v].vaddr = 0
                      /\ tail'[v].prev # 0 =>
                            tail'[v].prev \in Linked' /\ tail'[tail'[v].prev].next = v
    BY DEF LedTo
  <2>1. v \in Linked /\ v # e /\ v # 0
    BY <1>4, <1>5
  <2>2. /\ \E u \in Linked : tail[u].next = v
        /\ tail[v].prev = 0 <=> tail[v].vaddr = 0
        /\ tail[v].prev # 0 => tail[v].prev \in Linked /\ tail[tail[v].prev].next = v
    BY <2>1 DEF ListInv, LedTo
  <2>3. \A u \in Linked : tail[u].next = v => u \in Linked' /\ tail'[u].next = v
    BY <1>1, <1>4, <1>6, <2>1
  <2> QED
    BY <1>9, <2>2, <2>3
<1>13. tail'[KernelEnd].prev = 0 /\ KernelEnd \in Linked' /\ mem_listStart' = KernelEnd
  BY <1>2, <1>4, <1>9 DEF ListInv
<1>14. ListInv'
  BY <1>10, <1>11, <1>12, <1>13 DEF ListInv
<1>15. ASSUME NEW c \in live, NEW u \in Linked'
       PROVE  Behind(c, u) <=> Behind(c, u)'
  <2>1. u \in Linked /\ u <= e /\ u # e /\ u \in Nat
    BY <1>1, <1>4, <1>5
  <2>2. tail'[u].vaddr = tail[u].vaddr
    BY <1>9
  <2>3. ~ e < u
    BY <1>2, <2>1
  <2> QED
    BY <1>4, <2>1, <2>2, <2>3 DEF Behind
<1>16. BlockInv'
  <2>1. live' \subseteq [start : Nat, size : Nat, use : Uses]
    BY DEF BlockInv
  <2>2. \A c \in live' : \E u \in Linked' : Behind(c, u)'
    <3> SUFFICES ASSUME NEW c \in live \ {b}  PROVE \E u \in Linked' : Behind(c, u)'
      OBVIOUS
    <3>1. PICK u \in Linked : Behind(c, u)
      BY DEF BlockInv
    <3>2. u # e
      BY <1>1, <3>1 DEF BlockInv
    <3> QED
      BY <1>4, <1>15, <3>1, <3>2
  <2>3. \A u \in Linked' \ {KernelEnd} : \E c \in live' : Behind(c, u)'
    <3> SUFFICES ASSUME NEW u \in Linked' \ {KernelEnd}  PROVE \E c \in live' : Behind(c, u)'
      OBVIOUS
    <3>1. u \in Linked /\ u # e
      BY <1>4
    <3>2. PICK c \in live : Behind(c, u)
      BY <3>1 DEF BlockInv
    <3>3. c # b
      <4>1. SUFFICES ASSUME c = b  PROVE FALSE
        OBVIOUS
      <4>2. b.start \in Nat /\ b.size \in Nat /\ b.start + b.size <= u /\ u \in Nat /\ u < e
        <5>1. b.start \in Nat /\ b.size \in Nat /\ b.start + b.size <= u /\ u \in Nat
          BY <3>1, <3>2, <4>1, Bounds
        <5>2. u <= e /\ u # e
          BY <1>1, <3>1
        <5> QED
          BY <1>2, <5>1, <5>2
      <4>3. u + 24 <= b.start
        BY <1>1, <3>1, <4>2 DEF Behind, sizeof_TAIL
      <4> QED
        BY <4>2, <4>3
    <3> QED
      BY <1>15, <3>2, <3>3
  <2>4. \A c, d \in live', u \in Linked' : Behind(c, u)' /\ Behind(d, u)' => c = d
    BY <1>4, <1>15 DEF BlockInv
  <2>5. \A c \in live' : c.use \in Mapped \cup {"table"} =>
            c.size = PageBytes /\ c.start = PageOf(c.start) * PageBytes
    BY DEF BlockInv
  <2>6. \A c \in live', u \in Linked' :
            c.use = "devices" /\ Behind(c, u)' => PageOf(u + 23) = PageOf(KernelEnd)
    BY <1>4, <1>15 DEF BlockInv
  <2> QED
    BY <2>1, <2>2, <2>3, <2>4, <2>5, <2>6 DEF BlockInv
<1> QED
  BY <1>4, <1>14, <1>15, <1>16

\* Clearing a page from inside a page-sized block on runs over no tail but the
\* block's own, and over that one only where it is the last.
LEMMA ClearKeeps ==
    ASSUME ListInv, BlockInv, NEW b \in live, NEW t \in Linked, Behind(b, t),
           tail[t].next = 0 \/ b.start + 2 * PageBytes <= t,
           NEW from \in Nat, b.start <= from, from < b.start + PageBytes,
           tail' = Cleared(from), UNCHANGED <<mem_listStart, live>>
    PROVE  /\ ListInv' /\ BlockInv'
           /\ Linked' = Linked
           /\ \A c \in live, u \in Linked : Behind(c, u) => Behind(c, u)'
<1>1. /\ b.start \in Nat /\ b.size \in Nat /\ t \in Nat /\ KernelEnd < t
      /\ b.start + b.size <= t
      /\ KernelEnd \in Nat /\ KernelEnd > 0 /\ PageBytes \in Nat
  BY Bounds, Tails, Sizes
<1>2. tail' = [u \in DOMAIN tail |->
                 IF from <= u /\ u + sizeof_TAIL <= from + PageBytes THEN List!Tail(0, 0, 0) ELSE tail[u]]
  BY DEF Cleared
<1>3. Linked' = Linked
  BY <1>2 DEF Linked
<1>4. ASSUME NEW u \in Linked, from <= u, u + 24 <= from + PageBytes
      PROVE  u = t /\ tail[t].next = 0
  <2>1. u \in Nat /\ b.start <= u /\ u < b.start + 2 * PageBytes
    BY <1>1, <1>4, Tails
  <2>2. t <= u
    <3>1. SUFFICES ASSUME u < t  PROVE FALSE
      BY <1>1, <2>1
    <3>2. u + 24 <= b.start
      BY <3>1 DEF Behind, sizeof_TAIL
    <3> QED
      BY <1>1, <2>1, <3>2
  <2>3. tail[t].next = 0
    BY <1>1, <2>1, <2>2
  <2>4. u <= t
    BY <2>3 DEF ListInv, Chained
  <2> QED
    BY <1>1, <2>1, <2>2, <2>3, <2>4
<1>5. \A u \in Linked \ {t} : tail'[u] = tail[u]
  BY <1>2, <1>4 DEF Linked, sizeof_TAIL
<1>6. tail'[t] = tail[t] \/ (tail[t].next = 0 /\ tail'[t] = List!Tail(0, 0, 0))
  BY <1>2, <1>4 DEF Linked, sizeof_TAIL
<1>7. tail'[t].next = tail[t].next
  BY <1>6 DEF List!Tail
<1>8. \A u \in Linked : tail'[u].next = tail[u].next
  BY <1>5, <1>7
<1>9. \A u \in Linked : /\ u \in KernelEnd .. WindowEnd - sizeof_TAIL
                        /\ tail'[u] \in [next : Nat, prev : Nat, vaddr : Nat]
  <2>1. \A u \in Linked : u \in KernelEnd .. WindowEnd - sizeof_TAIL
                          /\ tail[u] \in [next : Nat, prev : Nat, vaddr : Nat]
    BY DEF ListInv
  <2>2. List!Tail(0, 0, 0) \in [next : Nat, prev : Nat, vaddr : Nat]
    BY DEF List!Tail
  <2> QED
    BY <1>5, <1>6, <2>1, <2>2
<1>10. Chained'
  BY <1>3, <1>8 DEF ListInv, Chained
<1>11. LedTo'
  <2> SUFFICES ASSUME NEW v \in Linked \ {KernelEnd}
               PROVE  /\ \E u \in Linked : tail'[u].next = v
                      /\ tail'[v].prev = 0 <=> tail'[v].vaddr = 0
                      /\ tail'[v].prev # 0 =>
                            tail'[v].prev \in Linked /\ tail'[tail'[v].prev].next = v
    BY <1>3 DEF LedTo
  <2>1. /\ \E u \in Linked : tail[u].next = v
        /\ tail[v].prev = 0 <=> tail[v].vaddr = 0
        /\ tail[v].prev # 0 => tail[v].prev \in Linked /\ tail[tail[v].prev].next = v
    BY DEF ListInv, LedTo
  <2>2. CASE tail'[v] = tail[v]
    BY <1>8, <2>1, <2>2
  <2>3. CASE tail'[v] # tail[v]
    <3>1. tail'[v] = List!Tail(0, 0, 0)
      BY <1>5, <1>6, <2>3
    <3>2. tail'[v].prev = 0 /\ tail'[v].vaddr = 0
      BY <3>1 DEF List!Tail
    <3> QED
      BY <1>8, <2>1, <3>2
  <2> QED
    BY <2>2, <2>3
<1>12. tail'[KernelEnd].prev = 0 /\ KernelEnd \in Linked' /\ mem_listStart' = KernelEnd
  BY <1>1, <1>3, <1>5 DEF ListInv
<1>13. ListInv'
  BY <1>3, <1>9, <1>10, <1>11, <1>12 DEF ListInv
<1>14. ASSUME NEW c \in live, NEW u \in Linked, Behind(c, u)  PROVE Behind(c, u)'
  <2>1. tail'[u].vaddr \in {c.start, 0}
    <3>1. tail[u].vaddr \in {c.start, 0}
      BY <1>14 DEF Behind
    <3>2. tail'[u] = tail[u] \/ tail'[u] = List!Tail(0, 0, 0)
      BY <1>5, <1>6
    <3> QED
      BY <3>1, <3>2 DEF List!Tail
  <2> QED
    BY <1>3, <1>14, <2>1 DEF Behind
<1>15. ASSUME NEW c \in live, NEW u \in Linked, Behind(c, u)'  PROVE Behind(c, u)
  <2>1. PICK w \in Linked : Behind(c, w)
    BY DEF BlockInv
  <2>2. /\ c.start \in Nat /\ c.size \in Nat /\ w \in Nat /\ c.start + c.size <= w
    BY <2>1, Bounds
  <2>3. u \in Nat /\ c.start + c.size <= u /\ \A v \in Linked : v < u => v + 24 <= c.start
    BY <1>3, <1>15, Tails DEF Behind, sizeof_TAIL
  <2>4. ~ w < u
    BY <2>2, <2>3
  <2>5. ~ u < w
    <3>1. u < w => u + 24 <= c.start
      BY <2>1 DEF Behind, sizeof_TAIL
    <3> QED
      BY <2>2, <2>3, <3>1
  <2> QED
    BY <2>1, <2>2, <2>3, <2>4, <2>5
<1>16. BlockInv'
  <2>1. live' = live
    OBVIOUS
  <2>2. \A c \in live : \E u \in Linked : Behind(c, u)'
    BY <1>14 DEF BlockInv
  <2>3. \A u \in Linked \ {KernelEnd} : \E c \in live : Behind(c, u)'
    BY <1>14 DEF BlockInv
  <2>4. \A c, d \in live, u \in Linked : Behind(c, u)' /\ Behind(d, u)' => c = d
    BY <1>15 DEF BlockInv
  <2>5. \A c \in live, u \in Linked :
            c.use = "devices" /\ Behind(c, u)' => PageOf(u + 23) = PageOf(KernelEnd)
    BY <1>15 DEF BlockInv
  <2>6. /\ live \subseteq [start : Nat, size : Nat, use : Uses]
        /\ \A c \in live : c.use \in Mapped \cup {"table"} =>
            c.size = PageBytes /\ c.start = PageOf(c.start) * PageBytes
    BY DEF BlockInv
  <2> QED
    BY <1>3, <2>1, <2>2, <2>3, <2>4, <2>5, <2>6 DEF BlockInv
<1> QED
  BY <1>3, <1>13, <1>14, <1>16

-----------------------------------------------------------------------------
(* Where mem_alloc puts a block.                                           *)

\* Aligning moves an address up, by the alignment at most, to a multiple.
LEMMA Aligned ==
    ASSUME NEW x \in Nat, NEW align \in Nat
    PROVE  /\ List!AlignUp(x, align) \in Nat
           /\ x <= List!AlignUp(x, align) /\ List!AlignUp(x, align) <= x + align
           /\ align # 0 => \E q \in Nat : List!AlignUp(x, align) = q * align
<1>1. CASE align = 0
  BY <1>1 DEF List!AlignUp
<1>2. CASE align # 0
  <2> DEFINE q == x \div align
             m == x % align
  <2>1. q \in Nat /\ m \in Nat /\ m < align /\ x = align * q + m
    BY <1>2, DivMod
  <2>2. List!AlignUp(x, align) = x + align - m
    BY <1>2 DEF List!AlignUp
  <2> HIDE DEF q, m
  <2>3. x + align - m = (q + 1) * align /\ q + 1 \in Nat
    BY <2>1
  <2>4. /\ x + align - m \in Nat /\ x <= x + align - m /\ x + align - m <= x + align
    BY <2>1
  <2>5. \E k \in Nat : List!AlignUp(x, align) = k * align
    BY <2>2, <2>3
  <2> QED
    BY <2>2, <2>4, <2>5
<1> QED
  BY <1>1, <1>2

\* Requests whose block lies under the first entry of the PML4.
Near(r) ==
    /\ r \in [size : Nat, align : Nat, use : Uses]
    /\ r.use \in Mapped \cup {"table"} => r.size = PageBytes /\ r.align = PageBytes
    /\ PageOf(WindowEnd + r.align + sizeof_TAIL * (r.size + 2)) < FirstEntryEnd

\* What Placements offers: a call whose block lies behind the kernel's tail,
\* in a gap or behind the last tail.
LEMMA Placing ==
    ASSUME ListInv, NEW r, Near(r), NEW m \in Placements(r)
    PROVE  /\ m \in Calls /\ m.op = "mem_alloc"
           /\ m.size = r.size /\ m.use = r.use
           /\ Placed(m)
           /\ KernelEnd + sizeof_TAIL <= m.start
           /\ m.start + m.size <= m.at
           /\ PageOf(m.at + sizeof_TAIL) < FirstEntryEnd
           /\ m.use \in Mapped \cup {"table"} =>
                 m.size = PageBytes /\ m.start = PageOf(m.start) * PageBytes
           /\ ~ m.gap => m.e \in Linked /\ m.start = List!append_start(m.e, r)
<1>1. r.size \in Nat /\ r.align \in Nat /\ r.use \in Uses
  BY DEF Near
<1>2. /\ PageBytes \in Nat /\ PageBytes > 0 /\ KernelEnd \in Nat /\ WindowEnd \in Nat
      /\ \A t \in Linked : t \in Nat /\ KernelEnd <= t /\ t + 24 <= WindowEnd
  BY Sizes, Tails
<1> DEFINE top == WindowEnd + r.align + 24 * (r.size + 2)
<1>3. top \in Nat /\ PageOf(top) < FirstEntryEnd
  BY <1>1, <1>2 DEF Near, sizeof_TAIL
<1>4. FirstEntryEnd \in Nat
  <2>1. Entries \in Nat
    BY Sizes
  <2> QED
    BY <2>1 DEF FirstEntryEnd
<1>5. ASSUME NEW a \in Nat, a <= top  PROVE PageOf(a) < FirstEntryEnd
  <2> HIDE DEF top
  <2>1. PageOf(a) <= PageOf(top) /\ PageOf(a) \in Nat /\ PageOf(top) \in Nat
    BY <1>3, <1>5, PagesRise, InPage
  <2> QED
    BY <1>3, <1>4, <2>1
<1>6. ASSUME NEW x \in Nat, r.use \in Mapped \cup {"table"},
             NEW y \in Nat, y = List!AlignUp(x, r.align)
      PROVE  r.size = PageBytes /\ y = PageOf(y) * PageBytes
  <2>1. r.size = PageBytes /\ r.align = PageBytes
    BY <1>6 DEF Near
  <2>2. PICK q \in Nat : y = q * PageBytes
    <3>1. PICK g \in Nat : g = r.align
      BY <1>1
    <3>2. g = PageBytes /\ g # 0
      BY <1>2, <2>1, <3>1
    <3>3. \E q \in Nat : List!AlignUp(x, g) = q * g
      BY <3>2, Aligned
    <3> QED
      BY <1>6, <3>1, <3>2, <3>3
  <2>3. PageOf(y) = q
    <3>1. q * PageBytes <= y /\ y < q * PageBytes + PageBytes
      BY <1>2, <2>2
    <3> QED
      BY <3>1, OnePage
  <2> QED
    BY <2>1, <2>2, <2>3
<1>7. \/ \E e \in Linked :
            /\ List!Fits(e, r)
            /\ m = MemAlloc(r, e, TRUE, List!inserted_start(e, r), List!inserted_entry(e, r))
      \/ \E e \in Linked :
            /\ tail[e].next = 0
            /\ m = MemAlloc(r, e, FALSE, List!append_start(e, r), List!append_start(e, r) + r.size)
  BY DEF Placements, Linked
<1>8. CASE \E e \in Linked :
              /\ List!Fits(e, r)
              /\ m = MemAlloc(r, e, TRUE, List!inserted_start(e, r), List!inserted_entry(e, r))
  <2>1. PICK e \in Linked :
              /\ List!Fits(e, r)
              /\ m = MemAlloc(r, e, TRUE, List!inserted_start(e, r), List!inserted_entry(e, r))
    BY <1>8
  <2> DEFINE start == List!inserted_start(e, r)
             p == tail[e].prev
  <2>2. /\ p # 0 /\ List!Room(e, r, start)
    BY <2>1 DEF List!Fits
  <2>3. e # KernelEnd /\ p \in Nat /\ tail[e].vaddr \in Nat /\ e \in Nat
    BY <2>2, Tails DEF ListInv
  <2>4. p \in Linked
    BY <2>2, <2>3 DEF ListInv, LedTo
  <2>5. start = List!AlignUp(p + 24, r.align)
    BY DEF List!inserted_start, List!sizeof_TAIL
  <2>6. start \in Nat /\ p + 24 <= start /\ start <= p + 24 + r.align
    <3>1. PICK x \in Nat : x = p + 24
      BY <2>3
    <3>2. start = List!AlignUp(x, r.align)
      BY <2>5, <3>1
    <3> QED
      BY <1>1, <3>1, <3>2, Aligned
  <2>7. start < tail[e].vaddr /\ r.size + 24 <= tail[e].vaddr - start
    BY <2>2 DEF List!Room, List!sizeof_TAIL
  <2>8. List!inserted_entry(e, r) = start + r.size * 24
    BY DEF List!inserted_entry, List!sizeof_TAIL
  <2> HIDE DEF start, p
  <2>9. /\ m.op = "mem_alloc" /\ m.size = r.size /\ m.use = r.use /\ m.e = e /\ m.gap = TRUE
        /\ m.start = start /\ m.at = start + 24 * r.size
        /\ m = [op |-> "mem_alloc", size |-> r.size, use |-> r.use,
                e |-> e, gap |-> TRUE, start |-> start, at |-> start + r.size * 24]
    BY <1>1, <2>1, <2>6, <2>8 DEF MemAlloc, start
  <2>10. start + r.size * 24 \in Nat
    BY <1>1, <2>6
  <2>11. m \in Calls
    BY <1>1, <2>3, <2>6, <2>9, <2>10 DEF Calls
  <2>12. Placed(m)
    <3>1. start + r.size + 24 <= tail[e].vaddr
      BY <1>1, <2>3, <2>6, <2>7
    <3> QED
      BY <2>2, <2>6, <2>9, <3>1 DEF Placed, p, sizeof_TAIL
  <2>13. KernelEnd + 24 <= m.start /\ m.start + m.size <= m.at
    BY <1>1, <1>2, <2>4, <2>6, <2>9
  <2>14. PageOf(m.at + 24) < FirstEntryEnd
    <3>1. m.at + 24 \in Nat /\ m.at + 24 <= top
      BY <1>1, <1>2, <2>4, <2>6, <2>9
    <3> QED
      BY <1>5, <3>1
  <2>15. m.use \in Mapped \cup {"table"} => m.size = PageBytes /\ m.start = PageOf(m.start) * PageBytes
    BY <1>6, <2>3, <2>5, <2>6, <2>9
  <2> QED
    BY <2>9, <2>11, <2>12, <2>13, <2>14, <2>15 DEF sizeof_TAIL
<1>9. CASE \E e \in Linked :
            /\ tail[e].next = 0
            /\ m = MemAlloc(r, e, FALSE, List!append_start(e, r), List!append_start(e, r) + r.size)
  <2>1. PICK e \in Linked :
            /\ tail[e].next = 0
            /\ m = MemAlloc(r, e, FALSE, List!append_start(e, r), List!append_start(e, r) + r.size)
    BY <1>9
  <2> DEFINE start == List!append_start(e, r)
  <2>2. start = List!AlignUp(e + 24, r.align) /\ e \in Nat
    BY <1>2 DEF List!append_start, List!sizeof_TAIL
  <2>3. start \in Nat /\ e + 24 <= start /\ start <= e + 24 + r.align
    <3>1. PICK x \in Nat : x = e + 24
      BY <2>2
    <3>2. start = List!AlignUp(x, r.align)
      BY <2>2, <3>1
    <3> QED
      BY <1>1, <3>1, <3>2, Aligned
  <2> HIDE DEF start
  <2>4. /\ m.op = "mem_alloc" /\ m.size = r.size /\ m.use = r.use /\ m.e = e /\ m.gap = FALSE
        /\ m.start = start /\ m.at = start + r.size
        /\ m = [op |-> "mem_alloc", size |-> r.size, use |-> r.use,
                e |-> e, gap |-> FALSE, start |-> start, at |-> start + r.size]
    BY <2>1 DEF MemAlloc, start
  <2>5. m \in Calls
    BY <1>1, <2>2, <2>3, <2>4 DEF Calls
  <2>6. Placed(m)
    BY <2>1, <2>3, <2>4 DEF Placed, sizeof_TAIL
  <2>7. KernelEnd + 24 <= m.start /\ m.start + m.size <= m.at
    BY <1>1, <1>2, <2>3, <2>4
  <2>8. PageOf(m.at + 24) < FirstEntryEnd
    <3>1. m.at + 24 \in Nat /\ m.at + 24 <= top
      BY <1>1, <1>2, <2>3, <2>4
    <3> QED
      BY <1>5, <3>1
  <2>9. m.use \in Mapped \cup {"table"} => m.size = PageBytes /\ m.start = PageOf(m.start) * PageBytes
    BY <1>6, <2>2, <2>3, <2>4
  <2> QED
    BY <2>4, <2>5, <2>6, <2>7, <2>8, <2>9 DEF sizeof_TAIL, start
<1> QED
  BY <1>7, <1>8, <1>9

-----------------------------------------------------------------------------
(* The stack of calls.                                                     *)

\* What the innermost call is, and who called it.
LEMMA TopOfStack ==
    ASSUME StackInv, calls # << >>
    PROVE  /\ calls \in Seq(Calls) /\ Len(calls) \in Nat /\ Len(calls) >= 1
           /\ Len(calls) <= MaxDepth
           /\ Top = calls[1] /\ Top \in Calls /\ Sound(Top) /\ Current(Top)
           /\ Top.op = "mem_alloc" => Len(calls) < MaxDepth
           /\ Top.op = "caller" => Len(calls) = 1
           /\ Top.op # "caller" =>
                 Len(calls) >= 2 /\ calls[2] \in Calls /\ Sound(calls[2]) /\ CalledBy(Top, calls[2])
           /\ \A i \in 2 .. Len(calls) : calls[i].op = "page_map" => Far(calls[i].page)
<1>1. calls \in Seq(Calls) /\ Len(calls) <= MaxDepth
  BY DEF StackInv
<1>2. Len(calls) \in Nat /\ Len(calls) # 0
  BY <1>1, EmptySeq, LenProperties
<1>3. Top = calls[1]
  BY <1>1 DEF Top
<1>4. \A i \in 1 .. Len(calls) : calls[i] \in Calls
  BY <1>1, ElementOfSeq
<1>5. Top \in Calls /\ Sound(Top) /\ Current(Top) /\ calls[Len(calls)].op = "caller"
  BY <1>2, <1>3, <1>4 DEF StackInv
<1>6. Top.op = "mem_alloc" => Len(calls) < MaxDepth
  <2>1. calls[1].op = "mem_alloc" => Len(calls) - 1 + 1 < MaxDepth
    BY <1>2 DEF StackInv
  <2> QED
    BY <1>2, <1>3, <2>1
<1>7. \A i \in 1 .. Len(calls) - 1 : CalledBy(calls[i], calls[i + 1])
  BY DEF StackInv
<1>8. Top.op = "caller" => Len(calls) = 1
  <2>1. ASSUME Len(calls) > 1  PROVE CalledBy(calls[1], calls[1 + 1])
    BY <1>2, <1>7, <2>1
  <2>2. Len(calls) > 1 => Top.op # "caller"
    BY <1>3, <2>1 DEF CalledBy
  <2>3. Len(calls) > 1 \/ Len(calls) = 1
    <3>1. PICK n \in Nat : n = Len(calls)
      BY <1>2
    <3>2. n > 1 \/ n = 1
      BY <1>2, <3>1
    <3> QED
      BY <3>1, <3>2
  <2> QED
    BY <2>2, <2>3
<1>9. Top.op # "caller" =>
         Len(calls) >= 2 /\ calls[2] \in Calls /\ Sound(calls[2]) /\ CalledBy(Top, calls[2])
  <2>1. SUFFICES ASSUME Top.op # "caller"
                 PROVE  Len(calls) >= 2 /\ calls[2] \in Calls /\ Sound(calls[2]) /\ CalledBy(Top, calls[2])
    OBVIOUS
  <2>2. Len(calls) >= 2
    BY <1>2, <1>3, <1>5, <2>1
  <2>3. calls[2] \in Calls /\ Sound(calls[2])
    BY <1>2, <1>4, <2>2 DEF StackInv
  <2>4. CalledBy(calls[1], calls[1 + 1])
    BY <1>2, <1>7, <2>2
  <2> QED
    BY <1>3, <2>2, <2>3, <2>4
<1>10. ASSUME NEW i \in 2 .. Len(calls), calls[i].op = "page_map"  PROVE Far(calls[i].page)
  <2>1. i - 1 \in 1 .. Len(calls) - 1 /\ (i - 1) + 1 = i
    BY <1>2
  <2>2. CalledBy(calls[i - 1], calls[i])
    BY <1>7, <2>1
  <2> QED
    BY <1>10, <2>2 DEF CalledBy
<1> QED
  BY <1>1, <1>2, <1>3, <1>5, <1>6, <1>8, <1>9, <1>10

\* What a call is made of.
LEMMA Kinds ==
    ASSUME NEW c \in Calls
    PROVE  /\ c.op = "mem_alloc" =>
                 c \in [op : {"mem_alloc"}, size : Nat, use : Uses, e : Nat, gap : BOOLEAN, start : Nat, at : Nat]
           /\ c.op = "page_map" =>
                 c \in [op : {"page_map"}, page : Nat, frame : Nat, table : Nat, level : 1 .. 4]
           /\ c.op = "caller" =>
                 c \in [op : {"caller"}, use : Uses, stage : Stages, block : Nat]
  BY DEF Calls

\* The stack of the next state, given by its calls.
LEMMA StackStep ==
    ASSUME NEW S \in Seq(Calls), calls' = S, Len(S) <= MaxDepth,
           \A i \in 1 .. Len(S) :
              Sound(S[i])' /\ (S[i].op = "mem_alloc" => Len(S) - i + 1 < MaxDepth),
           \A i \in 1 .. Len(S) - 1 : CalledBy(S[i], S[i + 1])',
           S # << >> => S[Len(S)].op = "caller" /\ Current(S[1])'
    PROVE  StackInv'
<1>1. \A i \in 1 .. Len(calls') : /\ Sound(calls[i])'
                                  /\ calls'[i].op = "mem_alloc" => Len(calls') - i + 1 < MaxDepth
  <2>1. SUFFICES ASSUME NEW i \in 1 .. Len(S)  PROVE Sound(calls[i])'
    OBVIOUS
  <2>2. PICK c : c = S[i]
    OBVIOUS
  <2>3. Sound(c)' /\ calls'[i] = c
    BY <2>2
  <2> QED
    BY <2>3 DEF Sound, FarTable, NearTable
<1>2. \A i \in 1 .. Len(calls') - 1 : CalledBy(calls[i], calls[i + 1])'
  <2>1. SUFFICES ASSUME NEW i \in 1 .. Len(S) - 1  PROVE CalledBy(calls[i], calls[i + 1])'
    OBVIOUS
  <2>2. PICK c : c = S[i]
    OBVIOUS
  <2>3. PICK d : d = S[i + 1]
    OBVIOUS
  <2>4. CalledBy(c, d)' /\ calls'[i] = c /\ calls'[i + 1] = d
    BY <2>2, <2>3
  <2> QED
    BY <2>4 DEF CalledBy, Holds, Behind, Linked
<1>3. ASSUME calls' # << >>
      PROVE  calls'[Len(calls')].op = "caller" /\ Current(calls[1])'
  <2>1. PICK c : c = S[1]
    OBVIOUS
  <2>2. Current(c)' /\ calls'[1] = c
    BY <1>3, <2>1
  <2>3. Current(calls[1])'
    BY <2>2 DEF Current, Placed, Holds, Behind, Linked
  <2> QED
    BY <1>3, <2>3
<1> QED
  BY <1>1, <1>2, <1>3 DEF StackInv

\* No call: nothing to say.
LEMMA NoCalls == calls' = << >> => StackInv'
<1> SUFFICES ASSUME calls' = << >>  PROVE StackInv'
  OBVIOUS
<1> DEFINE S == << >>
<1>1. S \in Seq(Calls) /\ Len(S) = 0 /\ calls' = S
  BY EmptySeq
<1>2. MaxDepth \in Nat
  BY MemoryAssumption
<1> HIDE DEF S
<1>3. S = << >>
  BY DEF S
<1>4. \A i \in 1 .. Len(S) : Sound(S[i])' /\ (S[i].op = "mem_alloc" => Len(S) - i + 1 < MaxDepth)
  BY <1>1
<1>5. \A i \in 1 .. Len(S) - 1 : CalledBy(S[i], S[i + 1])'
  BY <1>1
<1>6. Len(S) <= MaxDepth
  BY <1>1, <1>2
<1>7. S # << >> => S[Len(S)].op = "caller" /\ Current(S[1])'
  BY <1>3
<1> QED
  BY <1>1, <1>4, <1>5, <1>6, <1>7, StackStep

\* One call, of a caller that has its block or asks for it.
LEMMA OneCall ==
    ASSUME NEW d \in Calls, d.op = "caller",
           calls' \in Seq(Calls), Len(calls') = 1, calls'[1] = d,
           Current(d)'
    PROVE  StackInv'
<1>1. PICK S : S = calls'
  OBVIOUS
<1>2. S \in Seq(Calls) /\ Len(S) = 1 /\ S[1] = d
  BY <1>1
<1>3. Sound(d)'
  BY DEF Sound
<1>4. MaxDepth \in Nat /\ MaxDepth >= 3
  BY MemoryAssumption
<1>5. \A i \in 1 .. Len(S) : i = 1
  BY <1>2
<1>6. \A i \in 1 .. Len(S) : Sound(S[i])' /\ (S[i].op = "mem_alloc" => Len(S) - i + 1 < MaxDepth)
  BY <1>2, <1>3, <1>5
<1>7. \A i \in 1 .. Len(S) - 1 : CalledBy(S[i], S[i + 1])'
  BY <1>2
<1>8. S[Len(S)].op = "caller" /\ Current(S[1])'
  BY <1>2
<1> QED
  BY <1>1, <1>2, <1>4, <1>6, <1>7, <1>8, StackStep

\* What is sound stays so while tables are only added.
LEMMA SoundKept ==
    ASSUME \A t : Upper(t) => Upper(t)', \A t : Lower(t) => Lower(t)', NEW c, Sound(c)
    PROVE  Sound(c)'
<1>1. FarTable(c) => FarTable(c)'
  BY DEF FarTable
<1>2. NearTable(c) => NearTable(c)'
  BY DEF NearTable
<1> QED
  BY <1>1, <1>2 DEF Sound

\* What a call counts on is in the list, the blocks and the kept translations.
LEMMA CallsKept ==
    ASSUME UNCHANGED <<tail, live, tlb>>
    PROVE  /\ \A c, d : CalledBy(c, d) => CalledBy(c, d)'
           /\ \A c : Current(c) => Current(c)'
<1>1. ASSUME NEW c, Holds(c)  PROVE Holds(c)'
  BY <1>1 DEF Holds, Behind, Linked
<1>2. ASSUME NEW c, Placed(c)  PROVE Placed(c)'
  BY <1>2 DEF Placed, Linked
<1>3. ASSUME NEW c, NEW d, CalledBy(c, d)  PROVE CalledBy(c, d)'
  BY <1>1, <1>3 DEF CalledBy
<1>4. ASSUME NEW c, Current(c)  PROVE Current(c)'
  BY <1>1, <1>2, <1>4 DEF Current
<1> QED
  BY <1>3, <1>4

\* The stack stays as it was.
LEMMA StackKept ==
    ASSUME StackInv, UNCHANGED <<calls, tail, live, tlb>>,
           \A t : Upper(t) => Upper(t)', \A t : Lower(t) => Lower(t)'
    PROVE  StackInv'
<1>1. PICK S : S = calls
  OBVIOUS
<1>2. /\ S \in Seq(Calls) /\ Len(S) <= MaxDepth
      /\ \A i \in 1 .. Len(S) :
            Sound(S[i]) /\ (S[i].op = "mem_alloc" => Len(S) - i + 1 < MaxDepth)
      /\ \A i \in 1 .. Len(S) - 1 : CalledBy(S[i], S[i + 1])
      /\ S # << >> => S[Len(S)].op = "caller" /\ Current(S[1])
  BY <1>1 DEF StackInv
<1>3. \A i \in 1 .. Len(S) : Sound(S[i])'
  <2> TAKE i \in 1 .. Len(S)
  <2>1. PICK c : c = S[i]
    OBVIOUS
  <2>2. Sound(c)'
    BY <1>2, <2>1, SoundKept
  <2> QED
    BY <2>1, <2>2
<1>4. \A i \in 1 .. Len(S) - 1 : CalledBy(S[i], S[i + 1])'
  BY <1>2, CallsKept
<1>5. S # << >> => Current(S[1])'
  BY <1>2, CallsKept
<1> QED
  BY <1>1, <1>2, <1>3, <1>4, <1>5, StackStep

\* A caller's call.
LEMMA TwoCalls ==
    ASSUME NEW m \in Calls, NEW d \in Calls, d.op = "caller", m.op # "caller",
           calls' \in Seq(Calls), Len(calls') = 2, calls'[1] = m, calls'[2] = d,
           Sound(m), CalledBy(m, d), Current(m),
           UNCHANGED <<tail, live, tlb>>,
           \A t : Upper(t) => Upper(t)', \A t : Lower(t) => Lower(t)'
    PROVE  StackInv'
<1>1. PICK S : S = calls'
  OBVIOUS
<1>2. S \in Seq(Calls) /\ Len(S) = 2 /\ S[1] = m /\ S[2] = d
  BY <1>1
<1>3. Sound(m)' /\ Sound(d)'
  <2>1. Sound(m)'
    BY SoundKept
  <2> QED
    BY <2>1 DEF Sound
<1>4. MaxDepth \in Nat /\ MaxDepth >= 3
  BY MemoryAssumption
<1>5. \A i \in 1 .. Len(S) : i = 1 \/ i = 2
  BY <1>2
<1>6. \A i \in 1 .. Len(S) : Sound(S[i])'
  BY <1>2, <1>3, <1>5
<1>7. \A i \in 1 .. Len(S) : S[i].op = "mem_alloc" => Len(S) - i + 1 < MaxDepth
  BY <1>2, <1>4, <1>5
<1>8. \A i \in 1 .. Len(S) - 1 : CalledBy(S[i], S[i + 1])'
  <2>1. CalledBy(m, d)'
    BY CallsKept
  <2>2. \A i \in 1 .. Len(S) - 1 : i = 1 /\ i + 1 = 2
    BY <1>2
  <2> QED
    BY <1>2, <2>1, <2>2
<1>9. S[Len(S)].op = "caller" /\ Current(S[1])'
  BY <1>2, CallsKept
<1>10. Len(S) <= MaxDepth
  BY <1>2, <1>4
<1> QED
  BY <1>1, <1>2, <1>6, <1>7, <1>8, <1>9, <1>10, StackStep

\* A call on top of others.
LEMMA PushKeeps ==
    ASSUME StackInv, calls # << >>, NEW m \in Calls, calls' = <<m>> \o calls,
           Len(calls) + 1 <= MaxDepth,
           m.op = "mem_alloc" => Len(calls) + 1 < MaxDepth,
           Sound(m), CalledBy(m, Top), Current(m),
           UNCHANGED <<tail, live, tlb>>,
           \A t : Upper(t) => Upper(t)', \A t : Lower(t) => Lower(t)'
    PROVE  StackInv'
<1>1. PICK S : S = calls
  OBVIOUS
<1>2. /\ S \in Seq(Calls) /\ Len(S) \in Nat /\ Len(S) >= 1 /\ S[1] = Top
      /\ \A i \in 1 .. Len(S) :
            Sound(S[i]) /\ (S[i].op = "mem_alloc" => Len(S) - i + 1 < MaxDepth)
      /\ \A i \in 1 .. Len(S) - 1 : CalledBy(S[i], S[i + 1])
      /\ S[Len(S)].op = "caller"
  BY <1>1, TopOfStack DEF StackInv
<1>3. PICK T : T = <<m>> \o S
  OBVIOUS
<1>4. /\ T \in Seq(Calls) /\ Len(T) = Len(S) + 1
      /\ T[1] = m
      /\ \A i \in 1 .. Len(S) : T[i + 1] = S[i]
  <2>1. PICK one : one = <<m>>
    OBVIOUS
  <2>2. one \in Seq(Calls) /\ Len(one) = 1 /\ one[1] = m
    BY <2>1
  <2>3. T = one \o S
    BY <1>3, <2>1
  <2>4. /\ one \o S \in Seq(Calls) /\ Len(one \o S) = Len(one) + Len(S)
        /\ \A i \in 1 .. Len(one) + Len(S) :
              (one \o S)[i] = IF i <= Len(one) THEN one[i] ELSE S[i - Len(one)]
    BY <1>2, <2>2, ConcatProperties
  <2>5. /\ T \in Seq(Calls) /\ Len(T) = 1 + Len(S)
        /\ \A i \in 1 .. 1 + Len(S) : T[i] = IF i <= 1 THEN one[i] ELSE S[i - 1]
    BY <2>2, <2>3, <2>4
  <2>6. ASSUME NEW i \in 1 .. Len(S)  PROVE T[i + 1] = S[i]
    <3>1. i + 1 \in 1 .. 1 + Len(S) /\ ~ (i + 1 <= 1) /\ (i + 1) - 1 = i
      BY <1>2
    <3> QED
      BY <2>5, <3>1
  <2>7. T[1] = m
    BY <1>2, <2>2, <2>5
  <2>8. 1 + Len(S) = Len(S) + 1
    BY <1>2
  <2> QED
    BY <2>5, <2>6, <2>7, <2>8
<1>5. \A i \in 1 .. Len(T) : i = 1 \/ \E j \in 1 .. Len(S) : i = j + 1
  <2> TAKE i \in 1 .. Len(T)
  <2>1. i = 1 \/ (i - 1 \in 1 .. Len(S) /\ i = (i - 1) + 1)
    BY <1>2, <1>4
  <2> QED
    BY <2>1
<1>6. ASSUME NEW i \in 1 .. Len(T)
      PROVE  Sound(T[i])' /\ (T[i].op = "mem_alloc" => Len(T) - i + 1 < MaxDepth)
  <2>1. CASE i = 1
    <3>1. Sound(m)'
      BY SoundKept
    <3>2. m.op = "mem_alloc" => Len(T) - 1 + 1 < MaxDepth
      BY <1>1, <1>2, <1>4
    <3> QED
      BY <1>4, <2>1, <3>1, <3>2
  <2>2. CASE \E j \in 1 .. Len(S) : i = j + 1
    <3>1. PICK j \in 1 .. Len(S) : i = j + 1
      BY <2>2
    <3>2. PICK c : c = S[j]
      OBVIOUS
    <3>3. T[i] = c /\ Sound(c) /\ (c.op = "mem_alloc" => Len(S) - j + 1 < MaxDepth)
      BY <1>2, <1>4, <3>1, <3>2
    <3>4. Sound(c)'
      BY <3>3, SoundKept
    <3>5. Len(T) - i + 1 = Len(S) - j + 1
      BY <1>2, <1>4, <3>1
    <3> QED
      BY <3>3, <3>4, <3>5
  <2> QED
    BY <1>5, <2>1, <2>2
<1>7. ASSUME NEW i \in 1 .. Len(T) - 1  PROVE CalledBy(T[i], T[i + 1])'
  <2>1. CASE i = 1
    <3>1. T[1] = m /\ T[1 + 1] = Top
      BY <1>2, <1>4
    <3>2. CalledBy(m, S[1])'
      BY <1>2, CallsKept
    <3> QED
      BY <1>2, <2>1, <3>1, <3>2
  <2>2. CASE i # 1
    <3>1. PICK j \in 1 .. Len(S) - 1 : i = j + 1
      <4>1. i - 1 \in 1 .. Len(S) - 1 /\ i = (i - 1) + 1
        BY <1>2, <1>4, <2>2
      <4> QED
        BY <4>1
    <3>2. j \in 1 .. Len(S) /\ j + 1 \in 1 .. Len(S)
      BY <1>2
    <3>3. T[i] = S[j] /\ T[i + 1] = S[j + 1]
      BY <1>4, <3>1, <3>2
    <3>4. CalledBy(S[j], S[j + 1])'
      BY <1>2, CallsKept
    <3> QED
      BY <3>3, <3>4
  <2> QED
    BY <2>1, <2>2
<1>8. T # << >> => T[Len(T)].op = "caller" /\ Current(T[1])'
  <2>1. T[Len(T)] = S[Len(S)]
    BY <1>2, <1>4
  <2> QED
    BY <1>2, <1>4, <2>1, CallsKept
<1>9. calls' = T /\ Len(T) <= MaxDepth
  BY <1>1, <1>2, <1>3, <1>4
<1> QED
  BY <1>4, <1>6, <1>7, <1>8, <1>9, StackStep

\* The innermost call goes on from another table.
LEMMA ReplaceKeeps ==
    ASSUME StackInv, calls # << >>, Top.op = "page_map",
           NEW m \in Calls, m.op = "page_map", m.page = Top.page,
           calls' = [calls EXCEPT ![1] = m],
           Sound(m), UNCHANGED <<word, tail, live, tlb>>
    PROVE  StackInv'
<1>1. PICK S : S = calls
  OBVIOUS
<1>2. /\ S \in Seq(Calls) /\ Len(S) \in Nat /\ Len(S) >= 2 /\ S[1] = Top
      /\ \A i \in 1 .. Len(S) :
            Sound(S[i]) /\ (S[i].op = "mem_alloc" => Len(S) - i + 1 < MaxDepth)
      /\ \A i \in 1 .. Len(S) - 1 : CalledBy(S[i], S[i + 1])
      /\ S[Len(S)].op = "caller" /\ Len(S) <= MaxDepth
      /\ CalledBy(Top, S[2])
  BY <1>1, TopOfStack DEF StackInv
<1>3. PICK T : T = [S EXCEPT ![1] = m]
  OBVIOUS
<1>4. /\ T \in Seq(Calls) /\ Len(T) = Len(S) /\ T[1] = m
      /\ \A i \in 2 .. Len(S) : T[i] = S[i]
  <2>1. 1 \in 1 .. Len(S)
    BY <1>2
  <2>2. /\ [S EXCEPT ![1] = m] \in Seq(Calls)
        /\ Len([S EXCEPT ![1] = m]) = Len(S)
        /\ \A j \in 1 .. Len(S) : [S EXCEPT ![1] = m][j] = IF j = 1 THEN m ELSE S[j]
    BY <1>2, <2>1, ExceptSeq
  <2>3. \A j \in 1 .. Len(S) : T[j] = IF j = 1 THEN m ELSE S[j]
    BY <1>3, <2>2
  <2> QED
    BY <1>2, <1>3, <2>1, <2>2, <2>3
<1>5. \A t : (Upper(t) => Upper(t)') /\ (Lower(t) => Lower(t)')
  BY DEF Upper, Lower
<1>6. ASSUME NEW i \in 1 .. Len(T)
      PROVE  Sound(T[i])' /\ (T[i].op = "mem_alloc" => Len(T) - i + 1 < MaxDepth)
  <2>1. CASE i = 1
    <3>1. Sound(m)'
      BY <1>5, SoundKept
    <3> QED
      BY <1>4, <2>1, <3>1
  <2>2. CASE i # 1
    <3>1. i \in 2 .. Len(S)
      BY <1>2, <1>4, <2>2
    <3>2. PICK c : c = S[i]
      OBVIOUS
    <3>3. T[i] = c /\ Sound(c) /\ (c.op = "mem_alloc" => Len(S) - i + 1 < MaxDepth)
      BY <1>2, <1>4, <3>1, <3>2
    <3>4. Sound(c)'
      BY <1>5, <3>3, SoundKept
    <3> QED
      BY <1>4, <3>3, <3>4
  <2> QED
    BY <2>1, <2>2
<1>7. ASSUME NEW i \in 1 .. Len(T) - 1  PROVE CalledBy(T[i], T[i + 1])'
  <2>1. CASE i = 1
    <3>1. PICK d : d = S[2]
      OBVIOUS
    <3>2. T[1] = m /\ T[1 + 1] = d
      BY <1>2, <1>4, <3>1
    <3>3. CalledBy(m, d)
      BY <1>2, <3>1 DEF CalledBy
    <3>4. CalledBy(m, d)'
      BY <3>3, CallsKept
    <3> QED
      BY <2>1, <3>2, <3>4
  <2>2. CASE i # 1
    <3>1. i \in 2 .. Len(S) /\ i + 1 \in 2 .. Len(S) /\ i \in 1 .. Len(S) - 1
      BY <1>2, <1>4, <2>2
    <3>2. T[i] = S[i] /\ T[i + 1] = S[i + 1]
      BY <1>4, <3>1
    <3>3. CalledBy(S[i], S[i + 1])'
      BY <1>2, <3>1, CallsKept
    <3> QED
      BY <3>2, <3>3
  <2> QED
    BY <2>1, <2>2
<1>8. T[Len(T)].op = "caller" /\ Current(T[1])'
  <2>1. T[Len(T)] = S[Len(S)]
    BY <1>2, <1>4
  <2>2. Current(m)'
    BY DEF Current
  <2> QED
    BY <1>2, <1>4, <2>1, <2>2
<1>9. calls' = T /\ Len(T) <= MaxDepth
  BY <1>1, <1>2, <1>3, <1>4
<1> QED
  BY <1>4, <1>6, <1>7, <1>8, <1>9, StackStep

\* The innermost call returns.
LEMMA PopStep ==
    ASSUME StackInv, NEW S, S = calls, Len(calls) >= 2, calls' = Tail(S),
           \A t : Upper(t) => Upper(t)', \A t : Lower(t) => Lower(t)',
           \A i \in 2 .. Len(S) - 1 : CalledBy(S[i], S[i + 1])',
           Current(S[2])'
    PROVE  StackInv'
<1>1. calls # << >> /\ Len(S) \in Nat /\ Len(S) >= 2
  <2>1. Len(calls) \in Nat
    BY LenProperties DEF StackInv
  <2>2. calls # << >>
    BY EmptySeq
  <2> QED
    BY <2>1, <2>2
<1>2. /\ S \in Seq(Calls)
      /\ \A i \in 1 .. Len(S) :
            Sound(S[i]) /\ (S[i].op = "mem_alloc" => Len(S) - i + 1 < MaxDepth)
      /\ S[Len(S)].op = "caller" /\ Len(S) <= MaxDepth
  BY <1>1 DEF StackInv
<1>3. PICK T : T = Tail(S)
  OBVIOUS
<1>4. /\ T \in Seq(Calls) /\ Len(T) = Len(S) - 1
      /\ \A i \in 1 .. Len(T) : T[i] = S[i + 1]
  BY <1>1, <1>2, <1>3, HeadTailProperties
<1>5. ASSUME NEW i \in 1 .. Len(T)
      PROVE  Sound(T[i])' /\ (T[i].op = "mem_alloc" => Len(T) - i + 1 < MaxDepth)
  <2>1. i + 1 \in 1 .. Len(S) /\ Len(S) - (i + 1) + 1 = Len(T) - i + 1
    BY <1>1, <1>4
  <2>2. PICK c : c = S[i + 1]
    OBVIOUS
  <2>3. T[i] = c /\ Sound(c) /\ (c.op = "mem_alloc" => Len(T) - i + 1 < MaxDepth)
    BY <1>2, <1>4, <2>1, <2>2
  <2>4. Sound(c)'
    BY <2>3, SoundKept
  <2> QED
    BY <2>3, <2>4
<1>6. ASSUME NEW i \in 1 .. Len(T) - 1  PROVE CalledBy(T[i], T[i + 1])'
  <2>1. i + 1 \in 2 .. Len(S) - 1 /\ i \in 1 .. Len(T) /\ i + 1 \in 1 .. Len(T)
    BY <1>1, <1>4
  <2>2. T[i] = S[i + 1] /\ T[i + 1] = S[(i + 1) + 1]
    BY <1>4, <2>1
  <2>3. CalledBy(S[i + 1], S[(i + 1) + 1])'
    BY <2>1
  <2> QED
    BY <2>2, <2>3
<1>7. T[Len(T)].op = "caller" /\ Current(T[1])'
  <2>1. T[Len(T)] = S[Len(S)] /\ T[1] = S[2]
    BY <1>1, <1>4
  <2> QED
    BY <1>2, <2>1
<1>8. calls' = T /\ Len(T) <= MaxDepth
  <2>1. MaxDepth \in Nat
    BY MemoryAssumption
  <2> QED
    BY <1>1, <1>2, <1>3, <1>4, <2>1
<1> QED
  BY <1>4, <1>5, <1>6, <1>7, <1>8, StackStep

\* page_map_PML4 returns to a call that leaves the window, or to a caller that
\* holds its block.
LEMMA PageMapReturns ==
    ASSUME StackInv, calls # << >>, Top.op = "page_map", calls' = Tail(calls),
           UNCHANGED <<tail, live, tlb>>,
           \A t : Upper(t) => Upper(t)', \A t : Lower(t) => Lower(t)'
    PROVE  StackInv'
<1>1. PICK S : S = calls
  OBVIOUS
<1>2. /\ S \in Seq(Calls) /\ Len(S) \in Nat /\ Len(S) >= 2 /\ Len(calls) >= 2
      /\ CalledBy(Top, S[2])
      /\ \A i \in 1 .. Len(S) - 1 : CalledBy(S[i], S[i + 1])
  BY <1>1, TopOfStack DEF StackInv
<1>3. Current(S[2])
  BY <1>2 DEF CalledBy, Current, Mapped
<1>4. Current(S[2])'
  BY <1>3, CallsKept
<1>5. ASSUME NEW i \in 2 .. Len(S) - 1  PROVE CalledBy(S[i], S[i + 1])'
  <2>1. i \in 1 .. Len(S) - 1
    BY <1>2
  <2> QED
    BY <1>2, <2>1, CallsKept
<1> QED
  BY <1>1, <1>2, <1>4, <1>5, PopStep

\* mem_alloc returns a table to page_map_PML4.
LEMMA TableReturns ==
    ASSUME StackInv, calls # << >>, Top.op = "mem_alloc", calls[2].op = "page_map",
           calls' = Tail(calls), UNCHANGED word
    PROVE  StackInv'
<1>1. PICK S : S = calls
  OBVIOUS
<1>2. /\ S \in Seq(Calls) /\ Len(S) \in Nat /\ Len(S) >= 2 /\ Len(calls) >= 2
      /\ \A i \in 1 .. Len(S) - 1 : CalledBy(S[i], S[i + 1])
      /\ \A i \in 2 .. Len(S) : S[i].op = "page_map" => Far(S[i].page)
      /\ S[2].op = "page_map"
  BY <1>1, TopOfStack DEF StackInv
<1>3. \A t : (Upper(t) => Upper(t)') /\ (Lower(t) => Lower(t)')
  BY DEF Upper, Lower
<1>4. Current(S[2])'
  BY <1>2 DEF Current
<1>5. ASSUME NEW i \in 2 .. Len(S) - 1  PROVE CalledBy(S[i], S[i + 1])'
  <2>1. i \in 1 .. Len(S) - 1 /\ i \in 2 .. Len(S)
    BY <1>2
  <2>2. PICK c : c = S[i]
    OBVIOUS
  <2>3. PICK d : d = S[i + 1]
    OBVIOUS
  <2>4. CalledBy(c, d) /\ (c.op = "page_map" => Far(c.page))
    BY <1>2, <2>1, <2>2, <2>3
  <2>5. Far(c.page) => c.page \notin Window
    BY Sizes DEF Far, Window
  <2>6. CalledBy(c, d)'
    BY <2>4, <2>5 DEF CalledBy
  <2> QED
    BY <2>2, <2>3, <2>6
<1> QED
  BY <1>1, <1>2, <1>3, <1>4, <1>5, PopStep

-----------------------------------------------------------------------------
(* The tables change.                                                      *)

\* WindowWalk in one formula.
LEMMA WindowWalks ==
    TableInv => \A p \in Window : Walk(p) = Entry(WindowPT, p - KernelStart)
  BY WindowWalk

\* While no entry of the window's table is written, or one of a page nobody has
\* used, and no taken address is given up, the kept translations stay right.
LEMMA TlbKept ==
    ASSUME TableInv, TableInv', TlbInv, UNCHANGED tlb,
           \A p \in DOMAIN tlb :
              Entry(WindowPT, p - KernelStart)' = Entry(WindowPT, p - KernelStart),
           \A p \in DOMAIN tlb : (\E a \in Nat : Taken(a) /\ PageOf(a) = p)
                                    => (\E a \in Nat : Taken(a)' /\ PageOf(a) = p)
    PROVE  TlbInv'
<1>1. (TableInv => \A p \in Window : Walk(p) = Entry(WindowPT, p - KernelStart))'
  BY WindowWalks, PTL
<1>2. ASSUME NEW p \in DOMAIN tlb
      PROVE  /\ p \in Window
             /\ Walk(p)' = {tlb[p]}
             /\ \E a \in Nat : Taken(a)' /\ PageOf(a) = p
  <2>1. p \in Window /\ Walk(p) = {tlb[p]} /\ \E a \in Nat : Taken(a) /\ PageOf(a) = p
    BY <1>2 DEF TlbInv
  <2>2. Walk(p) = Entry(WindowPT, p - KernelStart)
    BY <2>1, WindowWalks
  <2>3. Walk(p)' = Entry(WindowPT, p - KernelStart)'
    BY <1>1, <2>1
  <2>4. Entry(WindowPT, p - KernelStart)' = Entry(WindowPT, p - KernelStart)
    BY <1>2
  <2> QED
    BY <1>2, <2>1, <2>2, <2>3, <2>4
<1> QED
  BY <1>2 DEF TlbInv

\* Accesses to pages of the window that are in use leave right translations.
LEMMA TlbGrows ==
    ASSUME TableInv, TlbInv, UNCHANGED word,
           NEW ps, ps \subseteq Window, tlb' = Cached(ps),
           \A a \in Nat : Taken(a) => Taken(a)',
           \A p \in ps : \E a \in Nat : Taken(a)' /\ PageOf(a) = p
    PROVE  TlbInv'
<1>1. \A p : Walk(p)' = Walk(p)
  BY DEF Walk, Below, Entry
<1>2. tlb' = [p \in DOMAIN tlb \cup ps |-> CHOOSE f \in Frame(p) : TRUE]
  BY DEF Cached
<1>3. ASSUME NEW p \in DOMAIN tlb \cup ps
      PROVE  /\ p \in Window
             /\ Walk(p) = {tlb'[p]}
             /\ \E a \in Nat : Taken(a)' /\ PageOf(a) = p
  <2>1. p \in Window
    BY <1>3 DEF TlbInv
  <2>2. PICK f \in Nat : Frame(p) = {f} /\ Walk(p) = {f}
    BY <2>1, Frames
  <2>3. tlb'[p] = f
    BY <1>2, <2>2
  <2>4. \E a \in Nat : Taken(a)' /\ PageOf(a) = p
    <3>1. CASE p \in ps
      BY <3>1
    <3>2. CASE p \in DOMAIN tlb
      <4>1. PICK a \in Nat : Taken(a) /\ PageOf(a) = p
        BY <3>2 DEF TlbInv
      <4> QED
        BY <4>1
    <3> QED
      BY <3>1, <3>2
  <2> QED
    BY <2>1, <2>2, <2>3, <2>4
<1>4. DOMAIN tlb' = DOMAIN tlb \cup ps
  BY <1>2
<1> QED
  BY <1>1, <1>3, <1>4 DEF TlbInv

\* Taken addresses stay taken while no block is given back.
LEMMA TakenKept ==
    ASSUME live \subseteq live', Linked \subseteq Linked',
           \A c \in live, u \in Linked : Behind(c, u) => Behind(c, u)'
    PROVE  \A a : Taken(a) => Taken(a)'
<1> SUFFICES ASSUME NEW a, Taken(a)  PROVE Taken(a)'
  OBVIOUS
<1>1. CASE a \in KernelEnd .. KernelEnd + sizeof_TAIL - 1
  BY <1>1 DEF Taken
<1>2. CASE \E b \in live, t \in Linked : Behind(b, t) /\ a \in b.start .. t + sizeof_TAIL - 1
  <2>1. PICK b \in live, t \in Linked : Behind(b, t) /\ a \in b.start .. t + sizeof_TAIL - 1
    BY <1>2
  <2>2. Behind(b, t)' /\ b \in live' /\ t \in Linked'
    BY <2>1
  <2> QED
    BY <2>1, <2>2 DEF Taken
<1> QED
  BY <1>1, <1>2 DEF Taken

\* Tables and mapped blocks stay in use, and the spare tables are tables.
LEMMA TablesKept ==
    ASSUME TableInv, UNCHANGED word,
           \A b \in live : b.use \in Mapped \cup {"table"} => b \in live',
           NEW B \in [2 .. 4 -> Window], backup' = B,
           \A l \in 2 .. 4 : OwnTable(B[l])',
           ~ Upper(B[2]), ~ Lower(B[3]), B[2] # B[3]
    PROVE  TableInv'
<1>1. \A t : (Upper(t)' <=> Upper(t)) /\ (Lower(t)' <=> Lower(t))
  BY DEF Upper, Lower
<1>2. \A t : OwnTable(t) => OwnTable(t)'
  BY DEF OwnTable
<1>3. ASSUME NEW c \in DOMAIN word  PROVE Harmless(c)'
  <2>1. Harmless(c)
    BY DEF TableInv
  <2>2. /\ c \in Nat \X (0 .. Entries - 1)
        /\ \E g \in Nat : word'[c] = {g}
        /\ c[1] \notin {PML4, IdentityPT}
        /\ c[1] = PDPT => c[2] # 0
        /\ c[1] = PD => c[2] \notin {0, WindowIndex}
    BY <2>1 DEF Harmless
  <2>3. c[1] = WindowPT =>
          \E b \in live' : b.use \in Mapped /\ PageOf(b.start) = KernelStart + c[2]
    BY <2>1 DEF Harmless
  <2>4. c[1] \notin TableFrames =>
          \E t \in Window : (Upper(t)' \/ Lower(t)') /\ c[1] = WindowFrame(t)
    BY <1>1, <2>1 DEF Harmless
  <2> QED
    BY <2>2, <2>3, <2>4 DEF Harmless
<1>4. \A t \in Nat : Upper(t)' \/ Lower(t)' => OwnTable(t)' /\ WindowFrame(t) \notin Occupied
  BY <1>1, <1>2 DEF TableInv
<1>5. \A t \in Nat : ~ (Upper(t)' /\ Lower(t)')
  BY <1>1 DEF TableInv
<1>6. ~ Upper(B[2])' /\ ~ Lower(B[3])'
  BY <1>1
<1>7. /\ backup' \in [2 .. 4 -> Window]
      /\ \A l \in 2 .. 4 : OwnTable(backup[l])'
      /\ ~ Upper(backup[2])' /\ ~ Lower(backup[3])' /\ backup'[2] # backup'[3]
  <2>1. \A l \in 2 .. 4 : OwnTable(backup[l])'
    BY DEF OwnTable
  <2>2. ~ Upper(backup[2])'
    BY <1>6 DEF Upper
  <2>3. ~ Lower(backup[3])'
    BY <1>6 DEF Lower
  <2> QED
    BY <2>1, <2>2, <2>3
<1> QED
  BY <1>3, <1>4, <1>5, <1>7 DEF TableInv

\* What a new entry leaves of the others.
LEMMA NewEntry ==
    ASSUME NEW c, NEW g, word' = Constructed(c, g)
    PROVE  /\ DOMAIN word' = DOMAIN word \cup {c}
           /\ word'[c] = {g}
           /\ \A d \in DOMAIN word : d # c => word'[d] = word[d]
  BY DEF Constructed

\* Frames of tables the kernel added are no frames of the boot code's tables.
LEMMA AddedFrames ==
    ASSUME TableInv, NEW t \in Nat, Upper(t) \/ Lower(t)
    PROVE  /\ t \in Window /\ OwnTable(t)
           /\ WindowFrame(t) \notin TableFrames /\ WindowFrame(t) \in Nat
<1>1. OwnTable(t) /\ WindowFrame(t) \notin Occupied
  BY DEF TableInv
<1>2. t \in Window
  BY <1>1 DEF OwnTable
<1> QED
  BY <1>1, <1>2, WindowFrames, MemoryAssumption

\* An entry for a page, in the window's table over a block of the driver's or in
\* a table the kernel added for pages.
LEMMA MapKeeps ==
    ASSUME TableInv, NEW c \in Nat \X (0 .. Entries - 1), NEW g \in Nat,
           word' = Constructed(c, g), UNCHANGED <<backup, live>>,
           \/ /\ c[1] = WindowPT
              /\ \E b \in live : b.use \in Mapped /\ PageOf(b.start) = KernelStart + c[2]
           \/ \E t \in Window : Lower(t) /\ c[1] = WindowFrame(t)
    PROVE  /\ TableInv'
           /\ \A t : (Upper(t)' <=> Upper(t)) /\ (Lower(t)' <=> Lower(t))
<1>1. /\ DOMAIN word' = DOMAIN word \cup {c}
      /\ word'[c] = {g}
      /\ \A d \in DOMAIN word : d # c => word'[d] = word[d]
  BY NewEntry
<1>2. /\ c[1] \notin {PML4, IdentityPT, PDPT, PD}
      /\ \A s \in Window : Upper(s) => c[1] # WindowFrame(s)
  <2>1. CASE c[1] = WindowPT
    <3>1. \A s \in Window : Upper(s) => WindowFrame(s) \notin TableFrames
      BY AddedFrames, FiveTables
    <3>2. WindowPT \in TableFrames
      BY DEF TableFrames
    <3> QED
      BY <2>1, <3>1, <3>2, FiveTables
  <2>2. CASE \E t \in Window : Lower(t) /\ c[1] = WindowFrame(t)
    <3>1. PICK t \in Window : Lower(t) /\ c[1] = WindowFrame(t)
      BY <2>2
    <3>2. c[1] \notin TableFrames
      BY <3>1, AddedFrames, FiveTables
    <3>3. \A s \in Window : Upper(s) => c[1] # WindowFrame(s)
      BY <3>1, FiveTables, WindowFrames DEF TableInv
    <3> QED
      BY <3>2, <3>3 DEF TableFrames
  <2> QED
    BY <2>1, <2>2
<1>3. \A t : Upper(t)' <=> Upper(t)
  BY <1>1, <1>2 DEF Upper
<1>4. \A t : Lower(t)' <=> Lower(t)
  BY <1>1, <1>2, <1>3 DEF Lower
<1>5. ASSUME NEW d \in DOMAIN word'  PROVE Harmless(d)'
  <2>1. CASE d = c
    <3>1. c[1] = WindowPT =>
            \E b \in live : b.use \in Mapped /\ PageOf(b.start) = KernelStart + c[2]
      <4>1. \A t \in Window : Lower(t) => WindowFrame(t) \notin TableFrames
        BY AddedFrames, FiveTables
      <4>2. WindowPT \in TableFrames
        BY DEF TableFrames
      <4> QED
        BY <4>1, <4>2
    <3>2. c[1] \notin TableFrames =>
            \E t \in Window : (Upper(t)' \/ Lower(t)') /\ c[1] = WindowFrame(t)
      BY <1>4 DEF TableFrames
    <3>3. \E h \in Nat : word'[c] = {h}
      BY <1>1
    <3> QED
      BY <1>2, <2>1, <3>1, <3>2, <3>3 DEF Harmless
  <2>2. CASE d # c
    <3>1. d \in DOMAIN word /\ word'[d] = word[d] /\ Harmless(d)
      BY <1>1, <2>2 DEF TableInv
    <3>2. /\ d \in Nat \X (0 .. Entries - 1)
          /\ \E h \in Nat : word'[d] = {h}
          /\ d[1] \notin {PML4, IdentityPT}
          /\ d[1] = PDPT => d[2] # 0
          /\ d[1] = PD => d[2] \notin {0, WindowIndex}
      BY <3>1 DEF Harmless
    <3>3. d[1] = WindowPT =>
            \E b \in live' : b.use \in Mapped /\ PageOf(b.start) = KernelStart + d[2]
      BY <3>1 DEF Harmless
    <3>4. d[1] \notin TableFrames =>
            \E t \in Window : (Upper(t)' \/ Lower(t)') /\ d[1] = WindowFrame(t)
      BY <1>3, <1>4, <3>1 DEF Harmless
    <3> QED
      BY <3>2, <3>3, <3>4 DEF Harmless
  <2> QED
    BY <2>1, <2>2
<1>6. \A t : OwnTable(t)' <=> OwnTable(t)
  BY DEF OwnTable
<1>7. \A t \in Nat : Upper(t)' \/ Lower(t)' => OwnTable(t)' /\ WindowFrame(t) \notin Occupied
  BY <1>3, <1>4, <1>6 DEF TableInv
<1>8. \A t \in Nat : ~ (Upper(t)' /\ Lower(t)')
  BY <1>3, <1>4 DEF TableInv
<1>9. /\ backup' \in [2 .. 4 -> Window]
      /\ \A l \in 2 .. 4 : OwnTable(backup[l])'
      /\ ~ Upper(backup[2])' /\ ~ Lower(backup[3])' /\ backup'[2] # backup'[3]
  <2>1. PICK B : B = backup
    OBVIOUS
  <2>2. /\ B \in [2 .. 4 -> Window]
        /\ \A l \in 2 .. 4 : OwnTable(B[l])
        /\ ~ Upper(B[2]) /\ ~ Lower(B[3]) /\ B[2] # B[3]
    BY <2>1 DEF TableInv
  <2>3. \A l \in 2 .. 4 : OwnTable(B[l])'
    BY <1>6, <2>2
  <2>4. ~ Upper(B[2])' /\ ~ Lower(B[3])'
    BY <1>3, <1>4, <2>2
  <2>5. backup' = B
    BY <2>1
  <2>6. \A l \in 2 .. 4 : OwnTable(backup[l])'
    BY <2>3, <2>5 DEF OwnTable
  <2>7. ~ Upper(backup[2])'
    BY <2>4, <2>5 DEF Upper
  <2>8. ~ Lower(backup[3])'
    BY <2>4, <2>5 DEF Lower
  <2> QED
    BY <2>2, <2>5, <2>6, <2>7, <2>8
<1> QED
  BY <1>3, <1>4, <1>5, <1>7, <1>8, <1>9 DEF TableInv

\* The spare table for level l goes in below an entry that was not present.
LEMMA AddKeeps ==
    ASSUME TableInv, NEW c \in Nat \X (0 .. Entries - 1), c \notin DOMAIN word,
           NEW l \in {2, 3}, NEW g, g = backup[l], WindowFrame(g) \notin Occupied,
           word' = Constructed(c, g), UNCHANGED <<backup, live>>,
           l = 3 => c[1] = PDPT /\ c[2] # 0,
           l = 2 => \/ c[1] = PD /\ c[2] \notin {0, WindowIndex}
                    \/ \E s \in Window : Upper(s) /\ c[1] = WindowFrame(s)
    PROVE  /\ TableInv'
           /\ \A t : (Upper(t) => Upper(t)') /\ (Lower(t) => Lower(t)')
<1>1. /\ DOMAIN word' = DOMAIN word \cup {c}
      /\ word'[c] = {g}
      /\ \A d \in DOMAIN word : word'[d] = word[d]
  <2>1. /\ DOMAIN word' = DOMAIN word \cup {c}
        /\ word'[c] = {g}
        /\ \A d \in DOMAIN word : d # c => word'[d] = word[d]
    BY NewEntry
  <2>2. \A d \in DOMAIN word : d # c
    OBVIOUS
  <2> QED
    BY <2>1, <2>2
<1>2. PICK B : B = backup
  OBVIOUS
<1>3. /\ B \in [2 .. 4 -> Window]
      /\ \A k \in 2 .. 4 : OwnTable(B[k])
      /\ ~ Upper(B[2]) /\ ~ Lower(B[3]) /\ B[2] # B[3]
  BY <1>2 DEF TableInv
<1>4. g = B[l] /\ g \in Window /\ g \in Nat /\ OwnTable(g)
  BY <1>2, <1>3, FiveTables
<1>5. /\ PML4 \in TableFrames /\ PDPT \in TableFrames /\ PD \in TableFrames
      /\ IdentityPT \in TableFrames /\ WindowPT \in TableFrames
      /\ PDPT # PML4 /\ PDPT # PD /\ PDPT # IdentityPT /\ PDPT # WindowPT
      /\ PD # PML4 /\ PD # IdentityPT /\ PD # WindowPT
  BY FiveTables DEF TableFrames
<1>6. \A s \in Window : (Upper(s) \/ Lower(s)) => WindowFrame(s) \notin TableFrames
  BY AddedFrames, FiveTables
<1>7. c[1] \notin {PML4, IdentityPT, WindowPT}
  BY <1>5, <1>6
<1>8. \A t : Upper(t)' <=> Upper(t) \/ (l = 3 /\ t = g)
  <2>1. CASE l = 3
    BY <1>1, <2>1 DEF Upper
  <2>2. CASE l = 2
    <3>1. c[1] # PDPT
      BY <1>5, <1>6, <2>2
    <3> QED
      BY <1>1, <2>2, <3>1 DEF Upper
  <2> QED
    BY <2>1, <2>2
<1>9. ASSUME NEW d \in DOMAIN word, d[1] = WindowFrame(g), l = 3  PROVE Upper(g)
  <2>1. WindowFrame(g) \notin TableFrames
    BY MemoryAssumption
  <2>2. PICK t \in Window : (Upper(t) \/ Lower(t)) /\ d[1] = WindowFrame(t)
    BY <1>9, <2>1 DEF TableInv, Harmless
  <2>3. t = g
    BY <1>4, <1>9, <2>2, WindowFrames
  <2> QED
    BY <1>3, <1>4, <1>9, <2>2, <2>3
<1>10. \A t : Lower(t)' <=> Lower(t) \/ (l = 2 /\ t = g)
  <2>1. CASE l = 3
    <3>1. \A s \in Window : Upper(s)' => WindowFrame(s) \notin TableFrames
      BY <1>6, <1>8, MemoryAssumption
    <3>2. c[1] # PD /\ \A s \in Window : Upper(s)' => c[1] # WindowFrame(s)
      BY <1>5, <2>1, <3>1
    <3>3. ASSUME NEW t, Lower(t)  PROVE Lower(t)'
      BY <1>1, <1>8, <3>3 DEF Lower
    <3>4. ASSUME NEW t, Lower(t)'  PROVE Lower(t)
      <4>1. PICK d \in DOMAIN word' :
              /\ word'[d] = {t}
              /\ d[1] = PD \/ \E s \in Window : d[1] = WindowFrame(s) /\ Upper(s)'
        BY <3>4 DEF Lower
      <4>2. d # c /\ d \in DOMAIN word /\ word[d] = {t}
        BY <1>1, <3>2, <4>1
      <4>3. d[1] = PD \/ \E s \in Window : d[1] = WindowFrame(s) /\ Upper(s)
        BY <1>8, <1>9, <2>1, <4>1, <4>2
      <4> QED
        BY <4>2, <4>3 DEF Lower
    <3> QED
      BY <2>1, <3>3, <3>4
  <2>2. CASE l = 2
    <3>1. \A t : Upper(t)' <=> Upper(t)
      BY <1>8, <2>2
    <3>2. c[1] = PD \/ \E s \in Window : c[1] = WindowFrame(s) /\ Upper(s)
      BY <2>2
    <3> QED
      BY <1>1, <2>2, <3>1, <3>2 DEF Lower
  <2> QED
    BY <2>1, <2>2
<1>11. \A t : (Upper(t) => Upper(t)') /\ (Lower(t) => Lower(t)')
  BY <1>8, <1>10
<1>12. ASSUME NEW d \in DOMAIN word'  PROVE Harmless(d)'
  <2>1. CASE d = c
    <3>1. c[1] \notin TableFrames =>
            \E t \in Window : (Upper(t)' \/ Lower(t)') /\ c[1] = WindowFrame(t)
      BY <1>5, <1>11
    <3>2. \E h \in Nat : word'[c] = {h}
      BY <1>1, <1>4
    <3>3. c[1] = PDPT => c[2] # 0
      BY <1>5, <1>6
    <3>4. c[1] = PD => c[2] \notin {0, WindowIndex}
      BY <1>5, <1>6
    <3> QED
      BY <1>7, <2>1, <3>1, <3>2, <3>3, <3>4 DEF Harmless
  <2>2. CASE d # c
    <3>1. d \in DOMAIN word /\ word'[d] = word[d] /\ Harmless(d)
      BY <1>1, <2>2 DEF TableInv
    <3>2. /\ d \in Nat \X (0 .. Entries - 1)
          /\ \E h \in Nat : word'[d] = {h}
          /\ d[1] \notin {PML4, IdentityPT}
          /\ d[1] = PDPT => d[2] # 0
          /\ d[1] = PD => d[2] \notin {0, WindowIndex}
      BY <3>1 DEF Harmless
    <3>3. d[1] = WindowPT =>
            \E b \in live' : b.use \in Mapped /\ PageOf(b.start) = KernelStart + d[2]
      BY <3>1 DEF Harmless
    <3>4. d[1] \notin TableFrames =>
            \E t \in Window : (Upper(t)' \/ Lower(t)') /\ d[1] = WindowFrame(t)
      BY <1>11, <3>1 DEF Harmless
    <3> QED
      BY <3>2, <3>3, <3>4 DEF Harmless
  <2> QED
    BY <2>1, <2>2
<1>13. \A t : OwnTable(t)' <=> OwnTable(t)
  BY DEF OwnTable
<1>14. \A t \in Nat : Upper(t)' \/ Lower(t)' => OwnTable(t)' /\ WindowFrame(t) \notin Occupied
  BY <1>4, <1>8, <1>10, <1>13 DEF TableInv
<1>15. \A t \in Nat : ~ (Upper(t)' /\ Lower(t)')
  BY <1>3, <1>4, <1>8, <1>10 DEF TableInv
<1>16. /\ backup' \in [2 .. 4 -> Window]
       /\ \A k \in 2 .. 4 : OwnTable(backup[k])'
       /\ ~ Upper(backup[2])' /\ ~ Lower(backup[3])' /\ backup'[2] # backup'[3]
  <2>1. backup' = B
    BY <1>2
  <2>2. \A k \in 2 .. 4 : OwnTable(B[k])'
    BY <1>3, <1>13
  <2>3. ~ Upper(B[2])' /\ ~ Lower(B[3])'
    BY <1>3, <1>4, <1>8, <1>10
  <2>4. \A k \in 2 .. 4 : OwnTable(backup[k])'
    BY <2>1, <2>2 DEF OwnTable
  <2>5. ~ Upper(backup[2])'
    BY <2>1, <2>3 DEF Upper
  <2>6. ~ Lower(backup[3])'
    BY <2>1, <2>3 DEF Lower
  <2> QED
    BY <1>3, <2>1, <2>4, <2>5, <2>6
<1> QED
  BY <1>11, <1>12, <1>14, <1>15, <1>16 DEF TableInv

-----------------------------------------------------------------------------
(* The invariant holds at first.                                           *)

LEMMA InitIInv == Init => IInv
<1> SUFFICES ASSUME Init  PROVE IInv
  OBVIOUS
<1>1. /\ word = [c \in {} |-> {}] /\ backup = Backups /\ tlb = [p \in {} |-> 0]
      /\ status = "running" /\ mem_listStart = KernelEnd /\ live = {} /\ calls = << >>
      /\ adapter \in Adapters /\ free \in FreeSets[adapter]
      /\ tail = [t \in {KernelEnd} |-> List!Tail(0, 0, List!FirstVaddr)]
  BY DEF Init, BootInit
<1>2. DOMAIN word = {} /\ DOMAIN tlb = {} /\ Linked = {KernelEnd}
  BY <1>1 DEF Linked
<1>3. free \subseteq Ram
  BY <1>1, MemoryAssumption
<1>4. tail[KernelEnd] = [next |-> 0, prev |-> 0, vaddr |-> 8192]
  BY <1>1 DEF List!Tail, List!FirstVaddr
<1>5. ListInv
  <2>1. KernelEnd \in KernelEnd .. WindowEnd - sizeof_TAIL
    BY Sizes DEF sizeof_TAIL
  <2>2. tail[KernelEnd] \in [next : Nat, prev : Nat, vaddr : Nat]
    BY <1>4
  <2>3. Chained
    BY <1>2, <1>4, Sizes DEF Chained
  <2>4. LedTo
    BY <1>2 DEF LedTo
  <2> QED
    BY <1>1, <1>2, <1>4, <2>1, <2>2, <2>3, <2>4 DEF ListInv
<1>6. BlockInv
  BY <1>1, <1>2 DEF BlockInv
<1>7. TableInv
  <2>1. \A t : ~ Upper(t) /\ ~ Lower(t)
    BY <1>2 DEF Upper, Lower
  <2>2. PageOf(KernelEnd) \in Nat /\ PageOf(KernelEnd) \in Window /\ KernelStart \in Nat
    <3>1. KernelEnd \in Nat /\ KernelEnd <= KernelEnd /\ KernelEnd < WindowEnd
      BY Sizes
    <3> QED
      BY <3>1, WindowPage, InPage, Sizes
  <2>3. Backups \in [2 .. 4 -> KernelStart .. PageOf(KernelEnd) - 1] /\ Backups[2] # Backups[3]
    BY MemoryAssumption
  <2>4. \A l \in 2 .. 4 : Backups[l] \in Window /\ Backups[l] < PageOf(KernelEnd)
    BY <2>2, <2>3, Sizes DEF Window
  <2>5. \A l \in 2 .. 4 : OwnTable(Backups[l])
    BY <2>4 DEF OwnTable
  <2>6. Backups \in [2 .. 4 -> Window]
    BY <2>3, <2>4
  <2> QED
    BY <1>1, <1>2, <2>1, <2>3, <2>5, <2>6 DEF TableInv
<1>8. TlbInv
  BY <1>2 DEF TlbInv
<1>9. StackInv
  <2>1. Len(calls) = 0 /\ calls \in Seq(Calls)
    BY <1>1, EmptySeq
  <2>2. Len(calls) <= MaxDepth
    BY <2>1, MemoryAssumption
  <2>3. (1 .. Len(calls)) = {} /\ (1 .. Len(calls) - 1) = {}
    BY <2>1
  <2> QED
    BY <1>1, <2>1, <2>2, <2>3 DEF StackInv
<1>10. FaultsBehindWindow
  BY <1>1 DEF FaultsBehindWindow
<1> QED
  BY <1>1, <1>3, <1>5, <1>6, <1>7, <1>8, <1>9, <1>10 DEF IInv

-----------------------------------------------------------------------------
(* Actions that only call.                                                 *)

\* Where nothing in memory changes.
LEMMA MemoryKept ==
    ASSUME IInv, UNCHANGED <<word, backup, tlb, mem_listStart, tail, live>>
    PROVE  /\ ListInv' /\ BlockInv' /\ TableInv' /\ TlbInv'
           /\ \A t : (Upper(t) => Upper(t)') /\ (Lower(t) => Lower(t)')
<1>1. ListInv'
  BY DEF IInv, ListInv, Chained, LedTo, Linked
<1>2. /\ \A b, t : Behind(b, t)' <=> Behind(b, t)
      /\ Linked' = Linked
  BY DEF Behind, Linked
<1>3. BlockInv'
  BY <1>2 DEF IInv, BlockInv
<1>4. \A t : (Upper(t) => Upper(t)') /\ (Lower(t) => Lower(t)')
  BY DEF Upper, Lower
<1>5. TableInv'
  <2>1. PICK B : B = backup
    OBVIOUS
  <2>2. /\ B \in [2 .. 4 -> Window] /\ backup' = B
        /\ ~ Upper(B[2]) /\ ~ Lower(B[3]) /\ B[2] # B[3]
        /\ \A l \in 2 .. 4 : OwnTable(B[l])
    BY <2>1 DEF IInv, TableInv
  <2>3. \A t : OwnTable(t) => OwnTable(t)'
    BY DEF OwnTable
  <2>4. \A l \in 2 .. 4 : OwnTable(B[l])'
    BY <2>2, <2>3
  <2> QED
    BY <2>2, <2>4, TablesKept DEF IInv
<1>6. TlbInv'
  <2>1. \A p : Entry(WindowPT, p - KernelStart)' = Entry(WindowPT, p - KernelStart)
    BY DEF Entry
  <2>2. \A a : Taken(a) => Taken(a)'
    BY <1>2, TakenKept
  <2> QED
    BY <1>5, <2>1, <2>2, TlbKept DEF IInv
<1> QED
  BY <1>1, <1>3, <1>4, <1>5, <1>6

\* What every request of a caller, of page_map_PML4 or of the driver keeps to.
LEMMA NearRequests ==
    /\ \A r \in Requests : Near(r) /\ r.use \notin {"table", "fis"}
    /\ Near(TableRequest)
    /\ Near([size |-> PageBytes, align |-> PageBytes, use |-> "fis"])
<1>1. PageBytes \in Nat
  BY Sizes
<1>2. \A r \in Requests \cup {TableRequest} :
         PageOf(WindowEnd + r.align + sizeof_TAIL * (r.size + 2)) < FirstEntryEnd
  BY MemoryAssumption
<1>3. ASSUME NEW r \in Requests  PROVE Near(r) /\ r.use \notin {"table", "fis"}
  <2>1. r \in [size : Nat, align : Nat, use : {"devices", "registers", "clb", "keep"}]
    BY MemoryAssumption DEF CallerRequests
  <2>2. r.use \in {"registers", "clb"} => r.size = PageBytes /\ r.align = PageBytes
    BY MemoryAssumption
  <2>3. r \in [size : Nat, align : Nat, use : Uses]
    BY <2>1 DEF Uses, Mapped
  <2>4. r.use \in Mapped \cup {"table"} => r.size = PageBytes /\ r.align = PageBytes
    BY <2>1, <2>2 DEF Mapped
  <2> QED
    BY <1>2, <2>1, <2>3, <2>4 DEF Near
<1>4. Near(TableRequest)
  <2>1. /\ TableRequest \in [size : Nat, align : Nat, use : Uses]
        /\ TableRequest.size = PageBytes /\ TableRequest.align = PageBytes
    BY <1>1 DEF TableRequest, Uses
  <2> QED
    BY <1>2, <2>1 DEF Near
<1>5. Near([size |-> PageBytes, align |-> PageBytes, use |-> "fis"])
  <2> DEFINE r == [size |-> PageBytes, align |-> PageBytes, use |-> "fis"]
  <2>1. /\ r \in [size : Nat, align : Nat, use : Uses]
        /\ r.size = PageBytes /\ r.align = PageBytes
    BY <1>1 DEF Uses, Mapped
  <2>2. PageOf(WindowEnd + PageBytes + sizeof_TAIL * (PageBytes + 2)) < FirstEntryEnd
    <3>1. PICK q : q = TableRequest
      OBVIOUS
    <3>2. q.size = PageBytes /\ q.align = PageBytes
      BY <3>1 DEF TableRequest
    <3>3. PageOf(WindowEnd + q.align + sizeof_TAIL * (q.size + 2)) < FirstEntryEnd
      BY <1>2, <3>1
    <3> QED
      BY <3>2, <3>3
  <2> HIDE DEF r
  <2>3. Near(r)
    BY <2>1, <2>2 DEF Near
  <2> QED
    BY <2>3 DEF r
<1> QED
  BY <1>3, <1>4, <1>5

\* A caller's own call of mem_alloc.
LEMMA RequestKeeps ==
    ASSUME DevicesFit, IInv, NEW r \in Requests, request(r), UNCHANGED adapter
    PROVE  IInv'
<1>1. PICK m \in Placements(r) : calls' = <<m, Caller(r.use)>>
  BY DEF request
<1>2. /\ Near(r)
      /\ UNCHANGED <<word, backup, tlb, status, mem_listStart, tail, live, free>>
      /\ status = "running"
      /\ r.use = "devices" => live = {}
  BY NearRequests DEF request
<1>3. /\ ListInv' /\ BlockInv' /\ TableInv' /\ TlbInv'
      /\ \A t : (Upper(t) => Upper(t)') /\ (Lower(t) => Lower(t)')
  BY <1>2, MemoryKept
<1>4. /\ m \in Calls /\ m.op = "mem_alloc"
      /\ m.size = r.size /\ m.use = r.use
      /\ Placed(m)
      /\ KernelEnd + sizeof_TAIL <= m.start
      /\ m.start + m.size <= m.at
      /\ PageOf(m.at + sizeof_TAIL) < FirstEntryEnd
      /\ m.use \in Mapped \cup {"table"} =>
            m.size = PageBytes /\ m.start = PageOf(m.start) * PageBytes
      /\ ~ m.gap => m.e \in Linked /\ m.start = List!append_start(m.e, r)
  BY <1>1, <1>2, Placing DEF IInv
<1>5. m.use = "devices" => PageOf(m.at + 23) = PageOf(KernelEnd)
  <2>1. SUFFICES ASSUME m.use = "devices"  PROVE PageOf(m.at + 23) = PageOf(KernelEnd)
    OBVIOUS
  <2>2. live = {} /\ r.use = "devices"
    BY <1>2, <1>4, <2>1
  <2>3. Linked = {KernelEnd} /\ tail[KernelEnd].prev = 0
    BY <2>2 DEF IInv, BlockInv, ListInv
  <2>4. ~ m.gap /\ m.e = KernelEnd
    BY <1>4, <2>3 DEF Placed
  <2>5. r.align = 0 /\ r.size \in Nat
    BY <2>2, MemoryAssumption DEF CallerRequests
  <2>6. m.start = KernelEnd + 24
    BY <1>4, <2>4, <2>5 DEF List!append_start, List!AlignUp, List!sizeof_TAIL
  <2>7. m.at = KernelEnd + 24 + r.size
    BY <1>4, <2>4, <2>6 DEF Placed
  <2>8. PageOf(KernelEnd + 48 + r.size - 1) = PageOf(KernelEnd)
    BY <2>2 DEF DevicesFit, sizeof_TAIL
  <2>9. m.at + 23 = KernelEnd + 48 + r.size - 1
    BY <2>5, <2>7, Sizes
  <2> QED
    BY <2>8, <2>9
<1>6. Sound(m)
  BY <1>4, <1>5 DEF Sound
<1>7. PICK d : d = Caller(r.use)
  OBVIOUS
<1>8. d \in Calls /\ d.op = "caller" /\ d.use = r.use /\ d.stage = "alloc"
  BY <1>2, <1>7 DEF Near, Caller, Calls, Stages
<1>9. CalledBy(m, d)
  BY <1>4, <1>8 DEF CalledBy
<1>10. Current(m)
  BY <1>4 DEF Current
<1>11. calls' \in Seq(Calls) /\ Len(calls') = 2 /\ calls'[1] = m /\ calls'[2] = d
  BY <1>1, <1>4, <1>7, <1>8
<1>12. StackInv'
  BY <1>2, <1>3, <1>4, <1>6, <1>8, <1>9, <1>10, <1>11, TwoCalls
<1>13. FaultsBehindWindow'
  BY <1>2 DEF FaultsBehindWindow
<1> QED
  BY <1>2, <1>3, <1>12, <1>13 DEF IInv

-----------------------------------------------------------------------------
(* page_map_PML4.                                                          *)

\* The cell of an entry in a table with a frame.
LEMMA CellIs ==
    ASSUME NEW p \in Nat, NEW l \in 1 .. 4, l = 4 => Index(p, 4) = 0,
           NEW t, NEW f \in Nat, Frame(t) = {f}
    PROVE  /\ Cell(t, p, l) = <<f, Index(p, l)>>
           /\ <<f, Index(p, l)>> \in Nat \X (0 .. Entries - 1)
<1>1. (CHOOSE g \in Frame(t) : TRUE) = f
  OBVIOUS
<1>2. PICK i : i = Index(p, l)
  OBVIOUS
<1>3. i \in 0 .. Entries - 1 /\ Entries \in Nat /\ Entries >= 2
  BY <1>2, Indices, Sizes
<1>4. (IF l = 4 THEN 8 * Index(p, 4) ELSE Index(p, l)) = i
  BY <1>2
<1>5. i \div Entries = 0 /\ i % Entries = i
  <2>1. i = Entries * 0 + i
    BY <1>3
  <2> QED
    BY <1>3, <2>1, DivUnique
<1>6. Cell(t, p, l) = <<f + i \div Entries, i % Entries>>
  BY <1>1, <1>4 DEF Cell
<1> QED
  BY <1>2, <1>3, <1>5, <1>6

\* Entries the boot code did not write.
LEMMA BootEmpty ==
    ASSUME NEW f, NEW i,
           \/ f \notin TableFrames
           \/ f = PDPT /\ i # 0
           \/ f = PD /\ i \notin {0, WindowIndex}
    PROVE  BootEntry(f, i) = {}
<1>1. /\ ~ (f = PML4 /\ i = 0)
      /\ ~ (f = PDPT /\ i = 0)
      /\ ~ (f = PD /\ i = 0)
      /\ ~ (f = PD /\ i = WindowIndex)
      /\ f # IdentityPT
      /\ f # WindowPT
  BY FiveTables DEF TableFrames
<1> QED
  BY <1>1 DEF BootEntry

\* The cells on the way to a page of the window.
LEMMA NearCells ==
    ASSUME TableInv, TlbInv, NEW c \in Calls, c.op = "page_map",
           c.page \in Window, NearTable(c)
    PROVE  /\ c.level = 4 => Present(Cell(c.table, c.page, c.level)) = {PDPT}
           /\ c.level = 3 => Present(Cell(c.table, c.page, c.level)) = {PD}
           /\ c.level = 2 => Present(Cell(c.table, c.page, c.level)) = {WindowPT}
           /\ c.level = 1 =>
                 Cell(c.table, c.page, c.level) = <<WindowPT, c.page - KernelStart>>
           /\ Cell(c.table, c.page, c.level) \in Nat \X (0 .. Entries - 1)
<1>1. PICK p : p = c.page
  OBVIOUS
<1>2. PICK l : l = c.level
  OBVIOUS
<1>3. PICK t : t = c.table
  OBVIOUS
<1>4. /\ p \in Window /\ p \in Nat /\ l \in 1 .. 4
      /\ Index(p, 4) = 0 /\ Index(p, 3) = 0 /\ Index(p, 2) = WindowIndex
      /\ Index(p, 1) = p - KernelStart
  BY <1>1, <1>2, WindowIndices, Kinds
<1>5. /\ l = 4 => t = PML4
      /\ l = 3 => t = PDPT
      /\ l = 2 => t = PD
      /\ l = 1 => t = WindowPT
  BY <1>2, <1>3 DEF NearTable
<1>6. t \in TableFrames
  BY <1>4, <1>5 DEF TableFrames
<1>7. t \in Nat /\ Frame(t) = {t}
  BY <1>6, BootTables
<1>8. Cell(t, p, l) = <<t, Index(p, l)>> /\ <<t, Index(p, l)>> \in Nat \X (0 .. Entries - 1)
  BY <1>4, <1>7, CellIs
<1>9. Present(<<t, Index(p, l)>>) = Entry(t, Index(p, l))
  BY DEF Present
<1>10. /\ l = 4 => Present(Cell(t, p, l)) = {PDPT}
       /\ l = 3 => Present(Cell(t, p, l)) = {PD}
       /\ l = 2 => Present(Cell(t, p, l)) = {WindowPT}
       /\ l = 1 => Cell(t, p, l) = <<WindowPT, p - KernelStart>>
  BY <1>4, <1>5, <1>8, <1>9, PathEntries
<1> QED
  BY <1>1, <1>2, <1>3, <1>8, <1>10

\* The frame of a table the kernel added.
LEMMA AddedTable ==
    ASSUME ListInv, BlockInv, TableInv, TlbInv, NEW t, Upper(t) \/ Lower(t), t \in Nat
    PROVE  t \in Window /\ Frame(t) = {WindowFrame(t)} /\ WindowFrame(t) \in Nat
<1>1. OwnTable(t)
  BY DEF TableInv
<1> QED
  BY <1>1, OwnFrame, WindowFrames

\* The cells on the way to a page behind the window.
LEMMA FarCells ==
    ASSUME ListInv, BlockInv, TableInv, TlbInv, NEW c \in Calls, c.op = "page_map",
           Far(c.page), FarTable(c),
           NEW d, d = Cell(c.table, c.page, c.level)
    PROVE  /\ d \in Nat \X (0 .. Entries - 1)
           /\ c.level = 4 => Present(d) = {PDPT}
           /\ c.level = 3 => d = <<PDPT, Index(c.page, 3)>>
           /\ c.level = 2 =>
                 \/ d[1] = PD /\ d[2] \notin {0, WindowIndex} /\ Index(c.page, 3) = 0
                 \/ /\ Index(c.page, 3) # 0
                    /\ \E s \in Window : Upper(s) /\ d[1] = WindowFrame(s)
           /\ c.level = 1 => \E s \in Window : Lower(s) /\ d[1] = WindowFrame(s)
<1>1. PICK p : p = c.page
  OBVIOUS
<1>2. PICK l : l = c.level
  OBVIOUS
<1>3. PICK t : t = c.table
  OBVIOUS
<1>4. /\ p \in Nat /\ l \in 1 .. 4 /\ t \in Nat
      /\ Index(p, 4) = 0
      /\ Index(p, 3) = 0 => Index(p, 2) \notin {0, WindowIndex}
  BY <1>1, <1>2, <1>3, FarIndices, Kinds
<1>5. /\ l = 4 => t = PML4
      /\ l = 3 => t = PDPT
      /\ l = 2 /\ Index(p, 3) = 0 => t = PD
      /\ l = 2 /\ Index(p, 3) # 0 => Upper(t)
      /\ l = 1 => Lower(t)
  BY <1>1, <1>2, <1>3 DEF FarTable
<1>6. d = Cell(t, p, l)
  BY <1>1, <1>2, <1>3
<1>7. CASE t \in {PML4, PDPT, PD} /\ (l = 4 \/ l = 3 \/ (l = 2 /\ Index(p, 3) = 0))
  <2>1. t \in TableFrames
    BY <1>7 DEF TableFrames
  <2>2. t \in Nat /\ Frame(t) = {t}
    BY <2>1, BootTables
  <2>3. d = <<t, Index(p, l)>> /\ d \in Nat \X (0 .. Entries - 1)
    <3>1. Cell(t, p, l) = <<t, Index(p, l)>> /\ <<t, Index(p, l)>> \in Nat \X (0 .. Entries - 1)
      BY <1>4, <2>2, CellIs
    <3> QED
      BY <1>6, <3>1
  <2>4. Present(<<t, Index(p, l)>>) = Entry(t, Index(p, l))
    BY DEF Present
  <2>5. l = 4 => Present(d) = {PDPT}
    BY <1>4, <1>5, <2>3, <2>4, PathEntries
  <2> QED
    BY <1>1, <1>2, <1>4, <1>5, <1>7, <2>3, <2>5
<1>8. CASE (l = 2 /\ Index(p, 3) # 0 /\ Upper(t)) \/ (l = 1 /\ Lower(t))
  <2>1. t \in Window /\ Frame(t) = {WindowFrame(t)} /\ WindowFrame(t) \in Nat
    BY <1>4, <1>8, AddedTable
  <2>2. PICK f \in Nat : f = WindowFrame(t)
    BY <2>1
  <2>3. d = <<f, Index(p, l)>> /\ d \in Nat \X (0 .. Entries - 1)
    <3>1. Cell(t, p, l) = <<f, Index(p, l)>> /\ <<f, Index(p, l)>> \in Nat \X (0 .. Entries - 1)
      BY <1>4, <2>1, <2>2, CellIs
    <3> QED
      BY <1>6, <3>1
  <2>4. d[1] = WindowFrame(t)
    BY <2>2, <2>3
  <2> QED
    BY <1>1, <1>2, <1>8, <2>1, <2>3, <2>4
<1> QED
  BY <1>4, <1>5, <1>7, <1>8

\* Present entries hold page numbers.
LEMMA EntryNat ==
    ASSUME TableInv, NEW f \in Nat, NEW i \in 0 .. Entries - 1, NEW s \in Entry(f, i)
    PROVE  s \in Nat
<1>1. CASE <<f, i>> \in DOMAIN word
  <2>1. Harmless(<<f, i>>)
    BY <1>1 DEF TableInv
  <2> QED
    BY <1>1, <2>1 DEF Harmless, Entry
<1>2. CASE <<f, i>> \notin DOMAIN word
  <2>1. s \in BootEntry(f, i)
    BY <1>2 DEF Entry
  <2>2. KernelLoad + i \in Nat /\ i \in Nat
    BY Sizes
  <2>3. s \in {PDPT, PD, IdentityPT, WindowPT, i, KernelLoad + i}
    BY <2>1 DEF BootEntry
  <2> QED
    BY <2>2, <2>3, FiveTables
<1> QED
  BY <1>1, <1>2

\* What lies below an entry that is present on the way to a page behind the
\* window.
LEMMA FarBelow ==
    ASSUME ListInv, BlockInv, TableInv, TlbInv, NEW c \in Calls, c.op = "page_map",
           Far(c.page), FarTable(c), c.level \in 2 .. 4,
           NEW s \in Present(Cell(c.table, c.page, c.level)),
           NEW m \in Calls, m = [c EXCEPT !.table = s, !.level = c.level - 1]
    PROVE  FarTable(m)
<1>1. PICK d : d = Cell(c.table, c.page, c.level)
  OBVIOUS
<1>2. c \in [op : {"page_map"}, page : Nat, frame : Nat, table : Nat, level : 1 .. 4]
  BY Kinds
<1>3. m.page = c.page /\ m.table = s /\ m.level = c.level - 1
  BY <1>2
<1>4. s \in Present(d) /\ Present(d) = Entry(d[1], d[2])
  BY <1>1 DEF Present
<1>5. /\ d \in Nat \X (0 .. Entries - 1)
      /\ c.level = 4 => Present(d) = {PDPT}
      /\ c.level = 3 => d = <<PDPT, Index(c.page, 3)>>
      /\ c.level = 2 =>
            \/ d[1] = PD /\ d[2] \notin {0, WindowIndex} /\ Index(c.page, 3) = 0
            \/ /\ Index(c.page, 3) # 0
               /\ \E w \in Window : Upper(w) /\ d[1] = WindowFrame(w)
  BY <1>1, FarCells
<1>6. d = <<d[1], d[2]>>
  BY <1>5
<1>7. CASE c.level = 4
  BY <1>3, <1>4, <1>5, <1>7 DEF FarTable
<1>8. CASE c.level = 3
  <2>1. CASE Index(c.page, 3) = 0
    <3>1. s = PD
      BY <1>4, <1>5, <1>8, <2>1, PathEntries
    <3> QED
      BY <1>3, <1>8, <2>1, <3>1 DEF FarTable
  <2>2. CASE Index(c.page, 3) # 0
    <3>1. d[1] = PDPT /\ d[2] # 0
      BY <1>5, <1>8, <2>2
    <3>2. BootEntry(d[1], d[2]) = {}
      BY <3>1, BootEmpty
    <3>3. d \in DOMAIN word /\ s \in word[d]
      BY <1>4, <1>6, <3>2 DEF Entry
    <3>4. word[d] = {s}
      BY <3>3 DEF TableInv, Harmless
    <3>5. Upper(s)
      BY <3>1, <3>3, <3>4 DEF Upper
    <3> QED
      BY <1>3, <1>8, <2>2, <3>5 DEF FarTable
  <2> QED
    BY <2>1, <2>2
<1>9. CASE c.level = 2
  <2>1. BootEntry(d[1], d[2]) = {}
    <3>1. \A w \in Window : Upper(w) => WindowFrame(w) \notin TableFrames
      BY AddedFrames, FiveTables
    <3> QED
      BY <1>5, <1>9, <3>1, BootEmpty
  <2>2. d \in DOMAIN word /\ s \in word[d]
    BY <1>4, <1>6, <2>1 DEF Entry
  <2>3. word[d] = {s}
    BY <2>2 DEF TableInv, Harmless
  <2>4. Lower(s)
    BY <1>5, <1>9, <2>2, <2>3 DEF Lower
  <2> QED
    BY <1>3, <1>9, <2>4 DEF FarTable
<1> QED
  BY <1>7, <1>8, <1>9

\* And on the way to a page of the window.
LEMMA NearBelow ==
    ASSUME TableInv, TlbInv, NEW c \in Calls, c.op = "page_map",
           c.page \in Window, NearTable(c), c.level \in 2 .. 4,
           NEW s \in Present(Cell(c.table, c.page, c.level)),
           NEW m \in Calls, m = [c EXCEPT !.table = s, !.level = c.level - 1]
    PROVE  NearTable(m)
<1>1. c \in [op : {"page_map"}, page : Nat, frame : Nat, table : Nat, level : 1 .. 4]
  BY Kinds
<1>2. m.table = s /\ m.level = c.level - 1
  BY <1>1
<1>3. /\ c.level = 4 => s = PDPT
      /\ c.level = 3 => s = PD
      /\ c.level = 2 => s = WindowPT
  BY NearCells
<1> QED
  BY <1>2, <1>3 DEF NearTable

\* Going down to the next table.
LEMMA DescendKeeps ==
    ASSUME IInv, descend, UNCHANGED adapter
    PROVE  IInv'
<1>1. /\ calls # << >> /\ Top.op = "page_map" /\ Top.level > 1 /\ status = "running"
      /\ UNCHANGED <<word, backup, tlb, status, mem_listStart, tail, live, free>>
  BY DEF descend, Doing
<1>2. PICK s \in Present(TopCell) : calls' = [calls EXCEPT ![1].table = s, ![1].level = @ - 1]
  BY DEF descend
<1>3. /\ ListInv' /\ BlockInv' /\ TableInv' /\ TlbInv'
      /\ ListInv /\ BlockInv /\ TableInv /\ TlbInv /\ StackInv
  BY <1>1, MemoryKept DEF IInv
<1>4. PICK c : c = Top
  OBVIOUS
<1>5. /\ c \in Calls /\ c.op = "page_map" /\ Sound(c) /\ c.level > 1
      /\ calls \in Seq(Calls) /\ c = calls[1] /\ Len(calls) \in Nat /\ Len(calls) >= 1
  BY <1>1, <1>3, <1>4, TopOfStack
<1>6. /\ c \in [op : {"page_map"}, page : Nat, frame : Nat, table : Nat, level : 1 .. 4]
      /\ c.level \in 2 .. 4
  BY <1>5, Kinds
<1>7. s \in Present(Cell(c.table, c.page, c.level))
  BY <1>2, <1>4 DEF TopCell
<1>8. s \in Nat
  <2>1. PICK d : d = Cell(c.table, c.page, c.level)
    OBVIOUS
  <2>2. s \in Entry(d[1], d[2])
    BY <1>7, <2>1 DEF Present
  <2>3. d \in Nat \X (0 .. Entries - 1)
    BY <1>3, <1>5, <2>1, NearCells, FarCells DEF Sound
  <2> QED
    BY <1>3, <2>2, <2>3, EntryNat
<1>9. PICK m : m = [c EXCEPT !.table = s, !.level = c.level - 1]
  OBVIOUS
<1>10. m \in [op : {"page_map"}, page : Nat, frame : Nat, table : Nat, level : 1 .. 4]
  <2>1. c.level - 1 \in 1 .. 4
    BY <1>6
  <2> QED
    BY <1>6, <1>8, <1>9, <2>1
<1>11. m \in Calls /\ m.op = "page_map" /\ m.page = c.page
  BY <1>6, <1>9, <1>10 DEF Calls
<1>12. calls' = [calls EXCEPT ![1] = m]
  BY <1>2, <1>5, <1>6, <1>9
<1>13. Sound(m)
  <2>1. CASE c.page \in Window /\ NearTable(c)
    <3>1. NearTable(m)
      BY <1>3, <1>5, <1>6, <1>7, <1>9, <1>11, <2>1, NearBelow
    <3> QED
      BY <1>11, <2>1, <3>1 DEF Sound
  <2>2. CASE Far(c.page) /\ FarTable(c)
    <3>1. FarTable(m)
      BY <1>3, <1>5, <1>6, <1>7, <1>9, <1>11, <2>2, FarBelow
    <3> QED
      BY <1>11, <2>2, <3>1 DEF Sound
  <2> QED
    BY <1>5, <2>1, <2>2 DEF Sound
<1>14. StackInv'
  BY <1>1, <1>3, <1>4, <1>11, <1>12, <1>13, ReplaceKeeps
<1>15. FaultsBehindWindow'
  BY <1>1 DEF FaultsBehindWindow
<1> QED
  BY <1>1, <1>3, <1>14, <1>15 DEF IInv

\* Where list and blocks do not change.
LEMMA ListKept ==
    ASSUME ListInv, BlockInv, UNCHANGED <<mem_listStart, tail, live>>
    PROVE  /\ ListInv' /\ BlockInv'
           /\ \A a : Taken(a) => Taken(a)'
<1>1. ListInv'
  BY DEF ListInv, Chained, LedTo, Linked
<1>2. /\ \A b, t : Behind(b, t)' <=> Behind(b, t)
      /\ Linked' = Linked
  BY DEF Behind, Linked
<1>3. BlockInv'
  BY <1>2 DEF BlockInv
<1>4. \A a : Taken(a) => Taken(a)'
  BY <1>2, TakenKept
<1> QED
  BY <1>1, <1>3, <1>4

\* The spare table goes in, and the next one is asked for.
LEMMA AddTableKeeps ==
    ASSUME IInv, add_table, UNCHANGED adapter
    PROVE  IInv'
<1>1. /\ calls # << >> /\ Top.op = "page_map" /\ Top.level > 1 /\ status = "running"
      /\ Missing(TopCell) /\ Len(calls) + 1 < MaxDepth
      /\ UNCHANGED <<backup, tlb, mem_listStart, tail, live, free>>
  BY DEF add_table, Doing
<1>2. ListInv /\ BlockInv /\ TableInv /\ TlbInv /\ StackInv
  BY DEF IInv
<1>3. CASE status' = "corrupt" /\ UNCHANGED <<word, calls>>
  <2>1. /\ ListInv' /\ BlockInv' /\ TableInv' /\ TlbInv'
        /\ \A t : (Upper(t) => Upper(t)') /\ (Lower(t) => Lower(t)')
    BY <1>1, <1>3, MemoryKept
  <2>2. StackInv'
    BY <1>1, <1>2, <1>3, <2>1, StackKept
  <2>3. FaultsBehindWindow'
    BY <1>3 DEF FaultsBehindWindow
  <2> QED
    BY <1>1, <1>3, <2>1, <2>2, <2>3 DEF IInv
<1>4. CASE /\ ~ Frame(backup[Top.level]) \subseteq Occupied
           /\ word' = Constructed(TopCell, backup[Top.level])
           /\ \E m \in Placements(TableRequest) : calls' = <<m>> \o calls
           /\ UNCHANGED status
  <2>1. PICK c : c = Top
    OBVIOUS
  <2>2. PICK d : d = TopCell
    OBVIOUS
  <2>3. PICK l : l = c.level
    OBVIOUS
  <2>4. /\ c \in Calls /\ c.op = "page_map" /\ Sound(c) /\ l > 1
        /\ calls \in Seq(Calls) /\ c = calls[1] /\ Len(calls) \in Nat
    BY <1>1, <1>2, <2>1, <2>3, TopOfStack
  <2>5. l \in 2 .. 4
    BY <2>3, <2>4, Kinds
  <2>6. d = Cell(c.table, c.page, c.level) /\ Present(d) = {}
    BY <1>1, <2>1, <2>2 DEF TopCell, Missing
  <2>7. Far(c.page) /\ FarTable(c)
    <3>1. ~ (c.page \in Window /\ NearTable(c))
      <4>1. SUFFICES ASSUME c.page \in Window, NearTable(c)  PROVE FALSE
        OBVIOUS
      <4>2. /\ c.level = 4 => Present(d) = {PDPT}
            /\ c.level = 3 => Present(d) = {PD}
            /\ c.level = 2 => Present(d) = {WindowPT}
        BY <1>2, <2>4, <2>6, <4>1, NearCells
      <4>3. c.level = 4 \/ c.level = 3 \/ c.level = 2
        BY <2>3, <2>5
      <4> QED
        BY <2>6, <4>2, <4>3
    <3> QED
      BY <2>4, <3>1 DEF Sound
  <2>8. /\ d \in Nat \X (0 .. Entries - 1)
        /\ l # 4
        /\ l = 3 => d = <<PDPT, Index(c.page, 3)>>
        /\ l = 2 =>
              \/ d[1] = PD /\ d[2] \notin {0, WindowIndex}
              \/ \E s \in Window : Upper(s) /\ d[1] = WindowFrame(s)
    BY <1>2, <2>3, <2>4, <2>6, <2>7, FarCells
  <2>9. d \notin DOMAIN word
    <3>1. SUFFICES ASSUME d \in DOMAIN word  PROVE FALSE
      OBVIOUS
    <3>2. word[d] # {}
      BY <3>1, <1>2 DEF TableInv, Harmless
    <3>3. d = <<d[1], d[2]>>
      BY <2>8
    <3>4. Entry(d[1], d[2]) = word[d]
      BY <3>1, <3>3 DEF Entry
    <3> QED
      BY <2>6, <3>2, <3>4 DEF Present
  <2>10. l = 3 => d[1] = PDPT /\ d[2] # 0
    <3>1. SUFFICES ASSUME l = 3, Index(c.page, 3) = 0  PROVE FALSE
      BY <2>8
    <3>2. Present(d) = Entry(PDPT, 0)
      BY <2>8, <3>1 DEF Present
    <3> QED
      BY <1>2, <2>6, <3>2, PathEntries
  <2>11. PICK g : g = backup[l]
    OBVIOUS
  <2>12. OwnTable(g)
    BY <1>2, <2>5, <2>11 DEF TableInv
  <2>13. Frame(g) = {WindowFrame(g)}
    BY <1>2, <2>12, OwnFrame
  <2>14. WindowFrame(g) \notin Occupied
    BY <1>4, <2>1, <2>3, <2>11, <2>13
  <2>15. l \in {2, 3}
    BY <2>5, <2>8
  <2>16. word' = Constructed(d, g)
    BY <1>4, <2>1, <2>2, <2>3, <2>11
  <2>17. /\ TableInv'
         /\ \A t : (Upper(t) => Upper(t)') /\ (Lower(t) => Lower(t)')
    BY <1>1, <1>2, <2>8, <2>9, <2>10, <2>11, <2>14, <2>15, <2>16, AddKeeps
  <2>18. ListInv' /\ BlockInv' /\ \A a : Taken(a) => Taken(a)'
    BY <1>1, <1>2, ListKept
  <2>19. d[1] # WindowPT
    <3>1. \A s \in Window : Upper(s) => WindowFrame(s) \notin TableFrames
      BY <1>2, AddedFrames, FiveTables
    <3>2. WindowPT \in TableFrames /\ PDPT # WindowPT /\ PD # WindowPT
      BY FiveTables DEF TableFrames
    <3> QED
      BY <2>8, <2>10, <2>15, <3>1, <3>2
  <2>20. TlbInv'
    <3>1. \A i : Entry(WindowPT, i)' = Entry(WindowPT, i)
      <4>1. /\ DOMAIN word' = DOMAIN word \cup {d}
            /\ \A e \in DOMAIN word : e # d => word'[e] = word[e]
        BY <2>16, NewEntry
      <4>2. \A i : <<WindowPT, i>> # d
        BY <2>19
      <4> QED
        BY <4>1, <4>2 DEF Entry
    <3> QED
      BY <1>1, <1>2, <2>17, <2>18, <3>1, TlbKept
  <2>21. PICK m \in Placements(TableRequest) : calls' = <<m>> \o calls
    BY <1>4
  <2>22. /\ m \in Calls /\ m.op = "mem_alloc" /\ m.use = TableRequest.use
         /\ Placed(m)
         /\ KernelEnd + sizeof_TAIL <= m.start
         /\ m.start + m.size <= m.at
         /\ PageOf(m.at + sizeof_TAIL) < FirstEntryEnd
         /\ m.use \in Mapped \cup {"table"} =>
               m.size = PageBytes /\ m.start = PageOf(m.start) * PageBytes
    BY <1>2, <2>21, NearRequests, Placing
  <2>23. m.use = "table"
    BY <2>22 DEF TableRequest
  <2>24. Sound(m) /\ Current(m)
    BY <2>22, <2>23 DEF Sound, Current
  <2>25. CalledBy(m, Top)
    BY <2>1, <2>3, <2>4, <2>5, <2>7, <2>22, <2>23 DEF CalledBy
  <2>26. StackInv'
    <3>1. MaxDepth \in Nat
      BY MemoryAssumption
    <3> QED
      BY <1>1, <1>2, <2>4, <2>17, <2>21, <2>22, <2>24, <2>25, <3>1, PushKeeps
  <2>27. FaultsBehindWindow'
    BY <1>1, <1>4 DEF FaultsBehindWindow
  <2> QED
    BY <1>1, <1>4, <2>17, <2>18, <2>20, <2>26, <2>27 DEF IInv
<1> QED
  BY <1>3, <1>4 DEF add_table

\* The page is mapped, and page_map_PML4 returns.
LEMMA MapPageKeeps ==
    ASSUME IInv, map_page, UNCHANGED adapter
    PROVE  IInv'
<1>1. /\ calls # << >> /\ Top.op = "page_map" /\ Top.level = 1 /\ status = "running"
      /\ word' = Constructed(TopCell, Top.frame)
      /\ calls' = Tail(calls)
      /\ UNCHANGED <<backup, tlb, status, mem_listStart, tail, live, free>>
  BY DEF map_page, Doing
<1>2. ListInv /\ BlockInv /\ TableInv /\ TlbInv /\ StackInv
  BY DEF IInv
<1>3. PICK c : c = Top
  OBVIOUS
<1>4. PICK d : d = TopCell
  OBVIOUS
<1>5. /\ c \in Calls /\ c.op = "page_map" /\ Sound(c) /\ c.level = 1
      /\ c.frame \in Nat /\ CalledBy(c, calls[2])
  BY <1>1, <1>2, <1>3, TopOfStack, Kinds
<1>6. d = Cell(c.table, c.page, c.level) /\ word' = Constructed(d, c.frame)
  BY <1>1, <1>3, <1>4 DEF TopCell
<1>7. /\ d \in Nat \X (0 .. Entries - 1)
      /\ \/ /\ d[1] = WindowPT
            /\ \E b \in live : b.use \in Mapped /\ PageOf(b.start) = KernelStart + d[2]
         \/ \E t \in Window : Lower(t) /\ d[1] = WindowFrame(t)
      /\ \A p \in DOMAIN tlb : d # <<WindowPT, p - KernelStart>>
  <2>1. CASE c.page \in Window /\ NearTable(c)
    <3>1. d \in Nat \X (0 .. Entries - 1) /\ d = <<WindowPT, c.page - KernelStart>>
      BY <1>2, <1>5, <1>6, <2>1, NearCells
    <3>2. ~ Far(c.page)
      BY <2>1, Sizes DEF Far, Window
    <3>3. PICK e : e = calls[2]
      OBVIOUS
    <3>4. /\ e.use \in Mapped /\ c.page = PageOf(e.block) /\ c.page \notin DOMAIN tlb
          /\ Holds(e)
      BY <1>5, <3>2, <3>3 DEF CalledBy
    <3>5. \E b \in live : b.use \in Mapped /\ PageOf(b.start) = c.page
      BY <3>4 DEF Holds
    <3>6. d[1] = WindowPT /\ KernelStart + d[2] = c.page
      BY <2>1, <3>1, Sizes DEF Window
    <3>7. ASSUME NEW p \in DOMAIN tlb, d = <<WindowPT, p - KernelStart>>  PROVE FALSE
      <4>1. p \in Window /\ p # c.page
        BY <1>2, <3>4, <3>7 DEF TlbInv
      <4>2. p - KernelStart = c.page - KernelStart
        BY <3>1, <3>7
      <4> QED
        BY <2>1, <4>1, <4>2, Sizes DEF Window
    <3> QED
      BY <3>1, <3>5, <3>6, <3>7
  <2>2. CASE Far(c.page) /\ FarTable(c)
    <3>1. d \in Nat \X (0 .. Entries - 1) /\ \E s \in Window : Lower(s) /\ d[1] = WindowFrame(s)
      BY <1>2, <1>5, <1>6, <2>2, FarCells
    <3>2. d[1] # WindowPT
      <4>1. \A s \in Window : Lower(s) => WindowFrame(s) \notin TableFrames
        BY <1>2, AddedFrames, FiveTables
      <4> QED
        BY <3>1, <4>1 DEF TableFrames
    <3> QED
      BY <3>1, <3>2
  <2> QED
    BY <1>5, <2>1, <2>2 DEF Sound
<1>8. /\ TableInv'
      /\ \A t : (Upper(t)' <=> Upper(t)) /\ (Lower(t)' <=> Lower(t))
  BY <1>1, <1>2, <1>5, <1>6, <1>7, MapKeeps
<1>9. ListInv' /\ BlockInv' /\ \A a : Taken(a) => Taken(a)'
  BY <1>1, <1>2, ListKept
<1>10. TlbInv'
  <2>1. \A p \in DOMAIN tlb :
           Entry(WindowPT, p - KernelStart)' = Entry(WindowPT, p - KernelStart)
    BY <1>6, <1>7, NewEntry DEF Entry
  <2> QED
    BY <1>1, <1>2, <1>8, <1>9, <2>1, TlbKept
<1>11. StackInv'
  BY <1>1, <1>2, <1>8, PageMapReturns
<1>12. FaultsBehindWindow'
  BY <1>1 DEF FaultsBehindWindow
<1> QED
  BY <1>1, <1>8, <1>9, <1>10, <1>11, <1>12 DEF IInv

-----------------------------------------------------------------------------
(* mem_alloc.                                                              *)

\* The pages of addresses from x on are pages of those addresses.
LEMMA PageHit ==
    ASSUME NEW x \in Nat, x > 0, NEW n \in Nat, NEW p \in PagesOf(x, n)
    PROVE  \E a \in Nat : x <= a /\ a <= x + n /\ PageOf(a) = p /\ (n > 0 => a < x + n)
<1>1. CASE n = 0
  <2>1. p \in PageOf(x) .. PageOf(x - 1)
    BY <1>1 DEF PagesOf
  <2>2. PageOf(x) = p
    <3>1. PageOf(x - 1) <= PageOf(x) /\ PageOf(x) \in Nat /\ PageOf(x - 1) \in Nat
      BY PagesRise, InPage
    <3> QED
      BY <2>1, <3>1
  <2> QED
    BY <1>1, <2>2
<1>2. CASE n > 0
  <2>1. x + n - 1 \in Nat /\ PageOf(x) \in Nat /\ PageOf(x + n - 1) \in Nat /\ p \in Nat
        /\ PageOf(x) <= p /\ p <= PageOf(x + n - 1)
    BY <1>2, InPage DEF PagesOf
  <2>2. CASE PageOf(x) = p
    BY <1>2, <2>2
  <2>3. CASE PageOf(x) < p
    <3>1. p * PageBytes \in Nat /\ PageOf(x) * PageBytes + PageBytes <= p * PageBytes
      BY <2>1, <2>3, PagesApart
    <3>2. PageOf(p * PageBytes) = p
      BY <2>1, <3>1, Sizes, OnePage
    <3>3. x <= p * PageBytes
      BY <3>1, InPage, Sizes
    <3>4. p * PageBytes <= x + n - 1
      <4>1. PageOf(x + n - 1) * PageBytes \in Nat
            /\ PageOf(x + n - 1) * PageBytes <= x + n - 1
        BY <2>1, InPage
      <4>2. CASE p = PageOf(x + n - 1)
        BY <4>1, <4>2
      <4>3. CASE p < PageOf(x + n - 1)
        BY <2>1, <3>1, <4>1, <4>3, PagesApart, Sizes
      <4> QED
        BY <2>1, <4>2, <4>3
    <3>5. p * PageBytes <= x + n /\ p * PageBytes < x + n
      BY <2>1, <3>1, <3>4
    <3> QED
      BY <3>1, <3>2, <3>3, <3>5
  <2> QED
    BY <2>1, <2>2, <2>3
<1> QED
  BY <1>1, <1>2

\* Every page a mem_alloc call looks at lies in the window or behind it.
LEMMA CallPages ==
    ASSUME NEW m \in Calls, m.op = "mem_alloc", Sound(m),
           NEW p \in PagesOf(m.start, m.at + sizeof_TAIL - m.start)
    PROVE  /\ p \in Nat
           /\ p \in Window \/ Far(p)
           /\ ~ Outside(m) => p \in Window
<1>1. /\ m.start \in Nat /\ m.size \in Nat /\ m.at \in Nat
      /\ KernelEnd + 24 <= m.start /\ m.start + m.size <= m.at
      /\ PageOf(m.at + 24) < FirstEntryEnd
  BY Kinds DEF Sound, sizeof_TAIL
<1>2. PICK n \in Nat : n = m.at + 24 - m.start /\ m.start + n = m.at + 24 /\ n > 0
  BY <1>1
<1>3. PICK a \in Nat : m.start <= a /\ a < m.at + 24 /\ PageOf(a) = p
  <2>1. m.start > 0
    BY <1>1, Sizes
  <2>2. PICK x \in Nat : x = m.start
    BY <1>1
  <2>3. p \in PagesOf(x, n) /\ x > 0
    BY <1>2, <2>1, <2>2 DEF sizeof_TAIL
  <2>4. PICK a \in Nat : x <= a /\ PageOf(a) = p /\ a < x + n
    BY <1>2, <2>3, PageHit
  <2> QED
    BY <1>2, <2>2, <2>4
<1>4. p \in Nat /\ p <= PageOf(m.at + 24) /\ PageOf(m.at + 24) \in Nat
  BY <1>1, <1>3, PagesRise, InPage
<1>5. FirstEntryEnd \in Nat
  BY Sizes DEF FirstEntryEnd
<1>6. KernelEnd <= a
  BY <1>1, <1>3, Sizes
<1>7. CASE a < WindowEnd
  BY <1>3, <1>4, <1>6, <1>7, WindowPage
<1>8. CASE WindowEnd <= a
  <2>1. p >= KernelStart + Entries
    BY <1>3, <1>8, WindowPage
  <2>2. Far(p)
    BY <1>1, <1>4, <1>5, <2>1, Sizes DEF Far
  <2>3. Outside(m)
    BY <1>1, <1>3, <1>8, Sizes DEF Outside, sizeof_TAIL
  <2> QED
    BY <1>4, <2>2, <2>3
<1> QED
  BY <1>3, <1>7, <1>8, Sizes

\* The first page without a frame gets one.
LEMMA CheckPageKeeps ==
    ASSUME IInv, mem_alloc_check_page, UNCHANGED adapter
    PROVE  IInv'
<1>1. /\ calls # << >> /\ Top.op = "mem_alloc" /\ status = "running"
      /\ Missed(Top) # {}
      /\ UNCHANGED <<word, backup, tlb, mem_listStart, tail, live>>
  BY DEF mem_alloc_check_page, Doing
<1>2. ListInv /\ BlockInv /\ TableInv /\ TlbInv /\ StackInv /\ free \subseteq Ram
  BY DEF IInv
<1>3. /\ ListInv' /\ BlockInv' /\ TableInv' /\ TlbInv'
      /\ \A t : (Upper(t) => Upper(t)') /\ (Lower(t) => Lower(t)')
  BY <1>1, MemoryKept
<1>4. PICK m : m = Top
  OBVIOUS
<1>5. /\ m \in Calls /\ m.op = "mem_alloc" /\ Sound(m)
      /\ calls \in Seq(Calls) /\ Len(calls) \in Nat /\ Len(calls) < MaxDepth
  BY <1>1, <1>2, <1>4, TopOfStack
<1>6. ASSUME NEW p \in Missed(m)  PROVE p \in Nat /\ Far(p) /\ Outside(m)
  <2>1. /\ p \in PagesOf(m.start, m.at + sizeof_TAIL - m.start)
        /\ page_trace_PML4(p) = {}
    BY <1>6 DEF Missed
  <2>2. p \in Nat /\ (p \in Window \/ Far(p)) /\ (~ Outside(m) => p \in Window)
    BY <1>5, <2>1, CallPages
  <2>3. p \notin Window
    BY <1>2, <2>1, Traced, WindowWalk
  <2> QED
    BY <2>2, <2>3
<1>7. CASE /\ free # {}
           /\ calls' = <<PageMapCall(Min(Missed(Top)), Min(free))>> \o calls
           /\ free' = free \ {Min(free)}
           /\ UNCHANGED status
  <2>1. Min(Missed(m)) \in Missed(m)
    <3>1. Missed(m) \in SUBSET Nat /\ Missed(m) # {}
      BY <1>1, <1>4, <1>6
    <3>2. PICK x \in Missed(m) : \A y \in Missed(m) : x <= y
      BY <3>1, LeastMember
    <3> QED
      BY <3>2 DEF Min
  <2>2. Min(free) \in free /\ Min(free) \in Nat
    <3>1. free \in SUBSET Nat /\ free # {}
      BY <1>2, <1>7, MemoryAssumption
    <3>2. PICK x \in free : \A y \in free : x <= y
      BY <3>1, LeastMember
    <3> QED
      BY <3>1, <3>2 DEF Min
  <2>3. PICK p : p = Min(Missed(m))
    OBVIOUS
  <2>4. PICK f \in Nat : f = Min(free)
    BY <2>2
  <2>5. p \in Nat /\ Far(p) /\ Outside(m)
    BY <1>6, <2>1, <2>3
  <2>6. PICK c : c = PageMapCall(p, f)
    OBVIOUS
  <2>7. c = [op |-> "page_map", page |-> p, frame |-> f, table |-> PML4, level |-> 4]
    BY <2>6 DEF PageMapCall
  <2>8. c \in Calls /\ c.op = "page_map" /\ c.page = p /\ c.level = 4 /\ c.table = PML4
    BY <2>5, <2>7, FiveTables DEF Calls
  <2>9. Sound(c)
    BY <2>5, <2>8 DEF Sound, FarTable
  <2>10. CalledBy(c, Top)
    BY <1>4, <1>5, <2>5, <2>8 DEF CalledBy
  <2>11. Current(c)
    BY <2>8 DEF Current
  <2>12. calls' = <<c>> \o calls
    BY <1>4, <1>7, <2>3, <2>4, <2>6
  <2>13. StackInv'
    <3>1. MaxDepth \in Nat
      BY MemoryAssumption
    <3> QED
      BY <1>1, <1>2, <1>3, <1>5, <2>8, <2>9, <2>10, <2>11, <2>12, <3>1, PushKeeps
  <2>14. FaultsBehindWindow'
    BY <1>1, <1>7 DEF FaultsBehindWindow
  <2>15. free' \subseteq Ram
    BY <1>2, <1>7
  <2> QED
    BY <1>1, <1>3, <1>7, <2>13, <2>14, <2>15 DEF IInv
<1>8. CASE free = {} /\ status' = "halted" /\ UNCHANGED <<calls, free>>
  <2>1. StackInv'
    BY <1>1, <1>2, <1>3, <1>8, StackKept
  <2>2. FaultsBehindWindow'
    BY <1>8 DEF FaultsBehindWindow
  <2> QED
    BY <1>1, <1>2, <1>3, <1>8, <2>1, <2>2 DEF IInv
<1> QED
  BY <1>7, <1>8 DEF mem_alloc_check_page

\* The block and the tail a finished call of mem_alloc adds to the list.
LEMMA LinkList ==
    ASSUME ListInv, BlockInv, NEW m \in Calls, m.op = "mem_alloc", Sound(m), Placed(m),
           ~ Outside(m), m.gap => m.at + sizeof_TAIL <= tail[m.e].vaddr,
           tail' = IF m.gap THEN List!Inserted(m.e, m.at, m.start)
                            ELSE List!Appended(m.e, m.at, m.start),
           NEW b, b = [start |-> m.start, size |-> m.size, use |-> m.use],
           live' = live \cup {b}, UNCHANGED mem_listStart
    PROVE  /\ ListInv' /\ BlockInv'
           /\ Linked' = Linked \cup {m.at}
           /\ \A c \in live, u \in Linked : Behind(c, u) => Behind(c, u)'
           /\ Behind(b, m.at)'
           /\ ~ m.gap => tail'[m.at].next = 0
           /\ \A c \in live, u \in Linked :
                 Behind(c, u) => u + 24 <= m.start \/ m.at + 24 <= c.start
<1>1. /\ m.start \in Nat /\ m.size \in Nat /\ m.at \in Nat /\ m.use \in Uses
      /\ m.gap \in BOOLEAN
      /\ KernelEnd + 24 <= m.start /\ m.start + m.size <= m.at /\ m.at + 24 <= WindowEnd
      /\ m.start <= m.at
      /\ m.use \in Mapped \cup {"table"} =>
            m.size = PageBytes /\ m.start = PageOf(m.start) * PageBytes
      /\ m.use = "devices" => PageOf(m.at + 23) = PageOf(KernelEnd)
  BY Kinds, Sizes DEF Sound, Outside, sizeof_TAIL
<1>2. PICK t \in Nat : t = m.at
  BY <1>1
<1>3. PICK s \in Nat : s = m.start
  BY <1>1
<1>4. /\ ListInv'
      /\ t \notin Linked /\ Linked' = Linked \cup {t}
      /\ tail'[t].vaddr = s
      /\ \A u \in Linked : tail'[u].vaddr = tail[u].vaddr
      /\ ~ m.gap => tail'[t].next = 0
      /\ \A u \in Linked : u < t => u + 24 <= s
      /\ \A c \in live, u \in Linked : t < u /\ Behind(c, u) => t + 24 <= c.start
  <2>1. PICK e : e = m.e
    OBVIOUS
  <2>2. CASE m.gap
    <3>1. /\ e \in Linked /\ tail[e].prev # 0 /\ s <= t
          /\ tail[e].prev + 24 <= s /\ t + 24 <= tail[e].vaddr
          /\ tail' = List!Inserted(e, t, s)
      BY <1>1, <1>2, <1>3, <2>1, <2>2 DEF Placed, sizeof_TAIL
    <3>2. /\ t \notin Linked
          /\ \A u \in Linked : u < t => u + 24 <= s
          /\ \A c \in live, u \in Linked : t < u /\ Behind(c, u) => t + 24 <= c.start
      BY <3>1, InsertPlace
    <3>3. /\ ListInv'
          /\ Linked' = Linked \cup {t}
          /\ tail'[t].vaddr = s
          /\ \A u \in Linked : tail'[u].vaddr = tail[u].vaddr
      BY <3>1, InsertKeeps
    <3> QED
      BY <2>2, <3>2, <3>3
  <2>3. CASE ~ m.gap
    <3>1. /\ e \in Linked /\ tail[e].next = 0 /\ s <= t
          /\ e + 24 <= s /\ t + 24 <= WindowEnd
          /\ tail' = List!Appended(e, t, s)
      BY <1>1, <1>2, <1>3, <2>1, <2>3 DEF Placed, sizeof_TAIL
    <3>2. /\ ListInv'
          /\ t \notin Linked
          /\ Linked' = Linked \cup {t}
          /\ tail'[t].vaddr = s /\ tail'[t].next = 0
          /\ \A u \in Linked : tail'[u].vaddr = tail[u].vaddr
          /\ \A u \in Linked : u < t /\ u + 24 <= s
      BY <3>1, AppendKeeps
    <3>3. \A u \in Linked : ~ t < u
      <4>1. \A u \in Linked : u \in Nat
        BY Tails
      <4> QED
        BY <3>2, <4>1
    <3> QED
      BY <2>3, <3>2, <3>3
  <2> QED
    BY <2>2, <2>3
<1>5. /\ b \in [start : Nat, size : Nat, use : Uses]
      /\ b.start = s /\ b.size = m.size /\ b.use = m.use
  BY <1>1, <1>3
<1>6. /\ KernelEnd + 24 <= b.start /\ b.start + b.size <= t
      /\ b.use \in Mapped \cup {"table"} =>
            b.size = PageBytes /\ b.start = PageOf(b.start) * PageBytes
      /\ b.use = "devices" => PageOf(t + 23) = PageOf(KernelEnd)
  BY <1>1, <1>2, <1>3, <1>5
<1>7. /\ BlockInv'
      /\ \A c \in live, u \in Linked : Behind(c, u) => Behind(c, u)'
      /\ Behind(b, t)'
  BY <1>4, <1>5, <1>6, BlocksGrow
<1>8. ASSUME NEW c \in live, NEW u \in Linked, Behind(c, u)
      PROVE  u + 24 <= s \/ t + 24 <= c.start
  <2>1. u \in Nat /\ u # t
    BY <1>4, Tails
  <2> QED
    BY <1>4, <1>8, <2>1
<1> QED
  BY <1>2, <1>3, <1>4, <1>7, <1>8

\* The page of a new block that fills one page holds nothing that was taken.
LEMMA FreshPage ==
    ASSUME NEW m \in Calls, m.op = "mem_alloc", Sound(m), m.use \in Mapped \cup {"table"},
           \A c \in live, u \in Linked :
              Behind(c, u) => u + 24 <= m.start \/ m.at + 24 <= c.start,
           ListInv, BlockInv,
           NEW a \in Nat, PageOf(a) = PageOf(m.start)
    PROVE  ~ Taken(a) /\ m.start <= a /\ a < m.at
<1>1. /\ m.start \in Nat /\ m.at \in Nat
      /\ KernelEnd + 24 <= m.start /\ m.start + PageBytes <= m.at
      /\ m.start = PageOf(m.start) * PageBytes
  BY Kinds, Sizes DEF Sound, sizeof_TAIL
<1>2. m.start <= a /\ a < m.start + PageBytes
  BY <1>1, InPage
<1>3. a < m.at
  BY <1>1, <1>2, Sizes
<1>4. a \notin KernelEnd .. KernelEnd + sizeof_TAIL - 1
  BY <1>1, <1>2, Sizes DEF sizeof_TAIL
<1>5. ASSUME NEW c \in live, NEW u \in Linked, Behind(c, u), a \in c.start .. u + sizeof_TAIL - 1
      PROVE  FALSE
  <2>1. c.start \in Nat /\ u \in Nat /\ c.start <= a /\ a < u + 24
    BY <1>5, Bounds DEF sizeof_TAIL
  <2>2. u + 24 <= m.start \/ m.at + 24 <= c.start
    BY <1>5
  <2> QED
    BY <1>1, <1>2, <1>3, <2>1, <2>2
<1> QED
  BY <1>2, <1>3, <1>4, <1>5 DEF Taken

\* No table lies in the page of such a block.
LEMMA FreshTable ==
    ASSUME NEW m \in Calls, m.op = "mem_alloc", Sound(m), m.use = "table",
           \A c \in live, u \in Linked :
              Behind(c, u) => u + 24 <= m.start \/ m.at + 24 <= c.start,
           ListInv, BlockInv, NEW t, OwnTable(t)
    PROVE  t # PageOf(m.start)
<1>1. SUFFICES ASSUME t = PageOf(m.start)  PROVE FALSE
  OBVIOUS
<1>2. m.start \in Nat /\ KernelEnd + 24 <= m.start
  BY Kinds, Sizes DEF Sound, sizeof_TAIL
<1>3. ~ t < PageOf(KernelEnd)
  <2>1. KernelEnd \in Nat /\ KernelEnd <= m.start
    BY <1>2, Sizes
  <2>2. PageOf(KernelEnd) <= PageOf(m.start) /\ PageOf(KernelEnd) \in Nat /\ PageOf(m.start) \in Nat
    BY <1>2, <2>1, PagesRise, InPage
  <2> QED
    BY <1>1, <2>2
<1>4. PICK c \in live : c.use = "table" /\ PageOf(c.start) = t
  BY <1>3 DEF OwnTable
<1>5. PICK u \in Linked : Behind(c, u)
  BY DEF BlockInv
<1>6. c.start \in Nat /\ c.size \in Nat /\ c.start + c.size <= u /\ u \in Nat
  BY <1>5, Bounds
<1>7. Taken(c.start)
  <2>1. c.start \in c.start .. u + sizeof_TAIL - 1
    BY <1>6 DEF sizeof_TAIL
  <2> QED
    BY <1>5, <2>1 DEF Taken
<1> QED
  BY <1>1, <1>4, <1>6, <1>7, FreshPage

\* The pages of a tail inside the window, and an address of the tail in each.
LEMMA TailPagesIn ==
    ASSUME NEW m \in Calls, m.op = "mem_alloc", Sound(m), ~ Outside(m)
    PROVE  \A p \in TailPages(m) :
              /\ p \in Window
              /\ \E a \in Nat : m.at <= a /\ a < m.at + 24 /\ PageOf(a) = p
<1>1. /\ m.start \in Nat /\ m.size \in Nat /\ m.at \in Nat
      /\ KernelEnd + 24 <= m.start /\ m.start + m.size <= m.at /\ m.at + 24 <= WindowEnd
  BY Kinds, Sizes DEF Sound, Outside, sizeof_TAIL
<1>2. m.at > 0 /\ KernelEnd <= m.at /\ KernelEnd \in Nat
  BY <1>1, Sizes
<1>3. SUFFICES ASSUME NEW p \in TailPages(m)
               PROVE  /\ p \in Window
                      /\ \E a \in Nat : m.at <= a /\ a < m.at + 24 /\ PageOf(a) = p
  OBVIOUS
<1>4. p \in PagesOf(m.at, 24)
  BY <1>3 DEF TailPages, sizeof_TAIL
<1>5. PICK x \in Nat : x = m.at
  BY <1>1
<1>6. PICK a \in Nat : x <= a /\ PageOf(a) = p /\ a < x + 24
  BY <1>2, <1>4, <1>5, PageHit
<1>7. KernelEnd <= a /\ a < WindowEnd
  BY <1>1, <1>2, <1>5, <1>6, Sizes
<1> QED
  BY <1>5, <1>6, <1>7, WindowPage

\* A tail that is written without a fault lies in the window.
LEMMA LinkedInside ==
    ASSUME TableInv, TlbInv, NEW m \in Calls, m.op = "mem_alloc", Sound(m),
           \A p \in TailPages(m) : Frame(p) # {}
    PROVE  ~ Outside(m)
<1>1. SUFFICES ASSUME Outside(m)  PROVE FALSE
  OBVIOUS
<1>2. /\ m.at \in Nat /\ m.at + 24 > WindowEnd /\ PageOf(m.at + 24) < FirstEntryEnd
  BY <1>1, Kinds DEF Sound, Outside, sizeof_TAIL
<1>3. PICK a \in Nat : a = m.at + 23
  BY <1>2
<1>4. WindowEnd <= a
  BY <1>2, <1>3, Sizes
<1>5. PageOf(a) >= KernelStart + Entries /\ PageOf(a) \in Nat
  BY <1>4, WindowPage, InPage
<1>6. PageOf(a) <= PageOf(m.at + 24) /\ PageOf(m.at + 24) \in Nat /\ PageOf(m.at) <= PageOf(a)
  <2>1. m.at + 24 \in Nat /\ a <= m.at + 24 /\ m.at <= a
    BY <1>2, <1>3
  <2> QED
    BY <1>2, <2>1, PagesRise, InPage
<1>7. FirstEntryEnd \in Nat
  BY Sizes DEF FirstEntryEnd
<1>8. Far(PageOf(a))
  BY <1>2, <1>5, <1>6, <1>7, Sizes DEF Far
<1>9. Frame(PageOf(a)) = {}
  BY <1>8, Frames
<1>10. PageOf(a) \in TailPages(m)
  <2>1. m.at + sizeof_TAIL - 1 = a
    BY <1>2, <1>3 DEF sizeof_TAIL
  <2>2. PageOf(m.at) \in Nat
    BY <1>2, InPage
  <2> QED
    BY <1>5, <1>6, <2>1, <2>2 DEF TailPages, PagesOf
<1> QED
  BY <1>9, <1>10

\* Where the call stops the kernel.
LEMMA LinkStops ==
    ASSUME IInv, Doing("mem_alloc"),
           UNCHANGED <<word, backup, tlb, mem_listStart, tail, live, calls, free, adapter>>,
           \/ status' = "corrupt"
           \/ status' = "fault" /\ \E p \in TailPages(Top) : Frame(p) = {}
    PROVE  IInv'
<1>1. /\ calls # << >> /\ Top.op = "mem_alloc" /\ status = "running"
      /\ ListInv /\ BlockInv /\ TableInv /\ TlbInv /\ StackInv /\ free \subseteq Ram
  BY DEF IInv, Doing
<1>2. /\ ListInv' /\ BlockInv' /\ TableInv' /\ TlbInv'
      /\ \A t : (Upper(t) => Upper(t)') /\ (Lower(t) => Lower(t)')
  BY MemoryKept
<1>3. StackInv'
  BY <1>1, <1>2, StackKept
<1>4. FaultsBehindWindow'
  <2>1. CASE status' = "corrupt"
    BY <2>1 DEF FaultsBehindWindow
  <2>2. CASE status' = "fault" /\ \E p \in TailPages(Top) : Frame(p) = {}
    <3>1. PICK m : m = Top
      OBVIOUS
    <3>2. m \in Calls /\ m.op = "mem_alloc" /\ Sound(m) /\ m.at \in Nat
      BY <1>1, <3>1, TopOfStack, Kinds
    <3>3. Outside(m)
      <4>1. SUFFICES ASSUME ~ Outside(m)  PROVE FALSE
        OBVIOUS
      <4>2. PICK p \in TailPages(m) : Frame(p) = {}
        BY <2>2, <3>1
      <4>3. p \in Window
        BY <3>2, <4>1, <4>2, TailPagesIn
      <4>4. \E f \in Nat : Frame(p) = {f}
        BY <1>1, <4>3, Frames
      <4> QED
        BY <4>2, <4>4
    <3>4. Top' = Top
      BY DEF Top
    <3> QED
      BY <1>1, <3>1, <3>2, <3>3, <3>4 DEF FaultsBehindWindow, Outside
  <2> QED
    BY <2>1, <2>2
<1>5. adapter' \in Adapters /\ free' \subseteq Ram
      /\ status' \in {"running", "halted", "fault", "corrupt"}
  BY <1>1 DEF IInv
<1> QED
  BY <1>2, <1>3, <1>4, <1>5 DEF IInv

\* The call returns its block.
LEMMA LinkReturns ==
    ASSUME IInv, Doing("mem_alloc"),
           \A p \in TailPages(Top) : ~ Frame(p) \subseteq Occupied,
           Top.gap => Top.at + sizeof_TAIL <= tail[Top.e].vaddr,
           tail' = IF Top.gap THEN List!Inserted(Top.e, Top.at, Top.start)
                              ELSE List!Appended(Top.e, Top.at, Top.start),
           live' = live \cup {[start |-> Top.start, size |-> Top.size, use |-> Top.use]},
           tlb' = Cached(TailPages(Top)),
           Return(Top),
           UNCHANGED <<status, word, mem_listStart, free, adapter>>
    PROVE  IInv'
<1>1. /\ calls # << >> /\ Top.op = "mem_alloc" /\ status = "running"
      /\ ListInv /\ BlockInv /\ TableInv /\ TlbInv /\ StackInv /\ free \subseteq Ram
  BY DEF IInv, Doing
<1>2. PICK m : m = Top
  OBVIOUS
<1>3. PICK d : d = calls[2]
  OBVIOUS
<1>4. /\ m \in Calls /\ m.op = "mem_alloc" /\ Sound(m) /\ Current(m)
      /\ calls \in Seq(Calls) /\ Len(calls) \in Nat /\ Len(calls) >= 2
      /\ d \in Calls /\ CalledBy(m, d)
  BY <1>1, <1>2, <1>3, TopOfStack
<1>5. ~ Outside(m)
  BY <1>1, <1>2, <1>4, LinkedInside
<1>6. Placed(m)
  BY <1>4, <1>5 DEF Current
<1>7. PICK b : b = [start |-> m.start, size |-> m.size, use |-> m.use]
  OBVIOUS
<1>8. /\ live' = live \cup {b}
      /\ tail' = IF m.gap THEN List!Inserted(m.e, m.at, m.start)
                          ELSE List!Appended(m.e, m.at, m.start)
      /\ m.gap => m.at + sizeof_TAIL <= tail[m.e].vaddr
  BY <1>2, <1>7
<1>9. /\ ListInv' /\ BlockInv'
      /\ Linked' = Linked \cup {m.at}
      /\ \A c \in live, u \in Linked : Behind(c, u) => Behind(c, u)'
      /\ Behind(b, m.at)'
      /\ ~ m.gap => tail'[m.at].next = 0
      /\ \A c \in live, u \in Linked :
            Behind(c, u) => u + 24 <= m.start \/ m.at + 24 <= c.start
  BY <1>1, <1>4, <1>5, <1>6, <1>7, <1>8, LinkList
<1>10. \A a : Taken(a) => Taken(a)'
  BY <1>8, <1>9, TakenKept
<1>11. /\ m.start \in Nat /\ m.size \in Nat /\ m.at \in Nat /\ m.use \in Uses /\ m.gap \in BOOLEAN
       /\ KernelEnd + 24 <= m.start /\ m.start + m.size <= m.at
       /\ m.use \in Mapped \cup {"table"} =>
             m.size = PageBytes /\ m.start = PageOf(m.start) * PageBytes
  BY <1>4, Kinds DEF Sound, sizeof_TAIL
<1>12. \A p \in TailPages(m) :
          /\ p \in Window
          /\ \E a \in Nat : m.at <= a /\ a < m.at + 24 /\ PageOf(a) = p
  BY <1>4, <1>5, TailPagesIn
<1>13. TlbInv'
  <2>1. ASSUME NEW p \in TailPages(m)  PROVE \E a \in Nat : Taken(a)' /\ PageOf(a) = p
    <3>1. PICK a \in Nat : m.at <= a /\ a < m.at + 24 /\ PageOf(a) = p
      BY <1>12
    <3>2. a \in b.start .. m.at + sizeof_TAIL - 1
      BY <1>7, <1>11, <3>1 DEF sizeof_TAIL
    <3>3. Taken(a)'
      BY <1>8, <1>9, <3>2 DEF Taken
    <3> QED
      BY <3>1, <3>3
  <2>2. TailPages(m) \subseteq Window
    BY <1>12
  <2>3. tlb' = Cached(TailPages(m))
    BY <1>2
  <2> QED
    BY <1>1, <1>10, <2>1, <2>2, <2>3, TlbGrows
<1>14. FaultsBehindWindow'
  BY <1>1 DEF FaultsBehindWindow
<1>15. \A t : OwnTable(t) => OwnTable(t)'
  BY <1>8 DEF OwnTable
<1>16. PICK B : B = backup
  OBVIOUS
<1>17. /\ B \in [2 .. 4 -> Window]
       /\ \A l \in 2 .. 4 : OwnTable(B[l])
       /\ ~ Upper(B[2]) /\ ~ Lower(B[3]) /\ B[2] # B[3]
  BY <1>1, <1>16 DEF TableInv
<1>18. CASE d.op = "page_map"
  <2>1. PICK l : l = d.level
    OBVIOUS
  <2>2. l \in 2 .. 4 /\ m.use = "table"
    BY <1>4, <1>18, <2>1 DEF CalledBy
  <2>3. PICK t : t = PageOf(m.start)
    OBVIOUS
  <2>4. PICK C : C = [B EXCEPT ![l] = t]
    OBVIOUS
  <2>5. backup' = C /\ calls' = Tail(calls)
    BY <1>2, <1>3, <1>16, <1>18, <2>1, <2>3, <2>4 DEF Return
  <2>6. OwnTable(t)'
    <3>1. b \in live' /\ b.use = "table" /\ PageOf(b.start) = t
      BY <1>7, <1>8, <2>2, <2>3
    <3>2. t \in Window
      <4>1. m.at + 24 <= WindowEnd /\ KernelEnd <= m.start /\ m.start < WindowEnd
        BY <1>5, <1>11, Sizes DEF Outside, sizeof_TAIL
      <4> QED
        BY <1>11, <2>3, <4>1, WindowPage
    <3> QED
      BY <3>1, <3>2 DEF OwnTable
  <2>7. t \in Window /\ t \in Nat
    BY <2>6, FiveTables DEF OwnTable
  <2>8. \A s : OwnTable(s) => s # t
    BY <1>1, <1>4, <1>9, <2>2, <2>3, FreshTable
  <2>9. ~ Upper(t) /\ ~ Lower(t)
    BY <1>1, <2>7, <2>8 DEF TableInv
  <2>10. /\ C \in [2 .. 4 -> Window]
         /\ \A k \in 2 .. 4 : C[k] = IF k = l THEN t ELSE B[k]
    BY <1>17, <2>4, <2>7
  <2>11. \A k \in 2 .. 4 : OwnTable(C[k])'
    BY <1>15, <1>17, <2>6, <2>10
  <2>12. B[2] # t /\ B[3] # t
    BY <1>17, <2>8
  <2>13. ~ Upper(C[2]) /\ ~ Lower(C[3]) /\ C[2] # C[3]
    BY <1>17, <2>2, <2>9, <2>10, <2>12
  <2>14. TableInv'
    BY <1>1, <1>8, <2>5, <2>10, <2>11, <2>13, TablesKept
  <2>15. StackInv'
    BY <1>1, <1>3, <1>18, <2>5, TableReturns
  <2> QED
    BY <1>1, <1>9, <1>13, <1>14, <2>14, <2>15 DEF IInv
<1>19. CASE d.op = "caller"
  <2>1. calls' = [Tail(calls) EXCEPT ![1].block = m.start] /\ backup' = B
    BY <1>2, <1>3, <1>16, <1>19 DEF Return
  <2>2. TableInv'
    <3>1. \A l \in 2 .. 4 : OwnTable(B[l])'
      BY <1>15, <1>17
    <3> QED
      BY <1>1, <1>8, <1>17, <2>1, <3>1, TablesKept
  <2>3. Len(calls) = 2
    <3>0. PICK n \in Nat : n = Len(calls) /\ n >= 2
      BY <1>4
    <3>1. SUFFICES ASSUME n >= 3  PROVE FALSE
      BY <3>0
    <3>2. 2 \in 1 .. Len(calls) - 1
      BY <3>0, <3>1
    <3>3. CalledBy(calls[2], calls[3])
      <4>1. CalledBy(calls[2], calls[2 + 1])
        BY <1>1, <3>2 DEF StackInv
      <4> QED
        BY <4>1
    <3> QED
      BY <1>3, <1>19, <3>3 DEF CalledBy
  <2>4. PICK e : e = [d EXCEPT !.block = m.start]
    OBVIOUS
  <2>5. /\ d \in [op : {"caller"}, use : Uses, stage : Stages, block : Nat]
        /\ d.use = m.use /\ d.stage = "alloc"
    BY <1>4, <1>19, Kinds DEF CalledBy
  <2>6. /\ e \in Calls /\ e.op = "caller" /\ e.use = m.use /\ e.stage = "alloc"
        /\ e.block = m.start
    BY <1>11, <2>4, <2>5 DEF Calls
  <2>7. calls' \in Seq(Calls) /\ Len(calls') = 1 /\ calls'[1] = e
    <3>1. PICK T : T = Tail(calls)
      OBVIOUS
    <3>2. T \in Seq(Calls) /\ Len(T) = 1 /\ T[1] = d
      BY <1>1, <1>3, <1>4, <2>3, <3>1, HeadTailProperties
    <3>3. PICK U : U = [T EXCEPT ![1] = e]
      OBVIOUS
    <3>4. calls' = U
      BY <2>1, <2>4, <3>1, <3>2, <3>3
    <3>5. U \in Seq(Calls) /\ Len(U) = 1 /\ U[1] = e
      BY <2>6, <3>2, <3>3
    <3> QED
      BY <3>4, <3>5
  <2>8. Holds(e)'
    <3>1. b \in live' /\ m.at \in Linked' /\ Behind(b, m.at)'
      BY <1>8, <1>9
    <3>2. b.start = e.block /\ b.use = e.use
      BY <1>7, <2>6
    <3>3. e.use \in {"clb", "fis"} => tail'[m.at].next = 0 \/ b.start + 2 * PageBytes <= m.at
      <4>1. SUFFICES ASSUME e.use \in {"clb", "fis"}, m.gap
                     PROVE  m.start + 2 * PageBytes <= m.at
        BY <1>7, <1>9, <1>11
      <4>2. m.at = m.start + 24 * m.size /\ m.size = PageBytes
        BY <1>6, <1>11, <2>6, <4>1 DEF Placed, Mapped, sizeof_TAIL
      <4> QED
        BY <1>11, <4>2, Sizes
    <3> QED
      BY <3>1, <3>2, <3>3 DEF Holds
  <2>9. e.use \in Mapped => PageOf(e.block) \notin DOMAIN tlb'
    <3>1. SUFFICES ASSUME m.use \in Mapped, PageOf(m.start) \in DOMAIN tlb'  PROVE FALSE
      BY <2>6
    <3>2. DOMAIN tlb' = DOMAIN tlb \cup TailPages(m)
      BY <1>2 DEF Cached
    <3>3. \A a \in Nat : PageOf(a) = PageOf(m.start) => ~ Taken(a) /\ a < m.at
      BY <1>1, <1>4, <1>9, <3>1, FreshPage
    <3>4. CASE PageOf(m.start) \in DOMAIN tlb
      BY <1>1, <3>3, <3>4 DEF TlbInv
    <3>5. CASE PageOf(m.start) \in TailPages(m)
      <4>1. PICK a \in Nat : m.at <= a /\ PageOf(a) = PageOf(m.start)
        BY <1>12, <3>5
      <4> QED
        BY <1>11, <3>3, <4>1
    <3> QED
      BY <3>1, <3>2, <3>4, <3>5
  <2>10. Current(e)'
    BY <2>6, <2>8, <2>9 DEF Current
  <2>11. StackInv'
    BY <2>6, <2>7, <2>10, OneCall
  <2> QED
    BY <1>1, <1>9, <1>13, <1>14, <2>2, <2>11 DEF IInv
<1> QED
  BY <1>4, <1>18, <1>19 DEF CalledBy

\* The tail is written and linked in.
LEMMA LinkKeeps ==
    ASSUME IInv, link, UNCHANGED adapter
    PROVE  IInv'
<1>1. Doing("mem_alloc") /\ UNCHANGED <<word, mem_listStart, free>>
  BY DEF link
<1>2. CASE /\ \E p \in TailPages(Top) : Frame(p) = {}
           /\ status' = "fault"
           /\ UNCHANGED <<backup, tlb, tail, live, calls>>
  BY <1>1, <1>2, LinkStops
<1>3. CASE status' = "corrupt" /\ UNCHANGED <<backup, tlb, tail, live, calls>>
  BY <1>1, <1>3, LinkStops
<1>4. CASE /\ \A p \in TailPages(Top) : ~ Frame(p) \subseteq Occupied
           /\ Top.gap => Top.at + sizeof_TAIL <= tail[Top.e].vaddr
           /\ tail' = IF Top.gap THEN List!Inserted(Top.e, Top.at, Top.start)
                                 ELSE List!Appended(Top.e, Top.at, Top.start)
           /\ live' = live \cup {[start |-> Top.start, size |-> Top.size, use |-> Top.use]}
           /\ tlb' = Cached(TailPages(Top))
           /\ Return(Top)
           /\ UNCHANGED status
  BY <1>1, <1>4, LinkReturns
<1> QED
  BY <1>2, <1>3, <1>4 DEF link

\* Nothing happens to the tables.
LEMMA BackupKept ==
    ASSUME TableInv, UNCHANGED <<word, backup>>,
           \A b \in live : b.use \in Mapped \cup {"table"} => b \in live'
    PROVE  TableInv'
<1>1. PICK B : B = backup
  OBVIOUS
<1>2. /\ B \in [2 .. 4 -> Window] /\ backup' = B
      /\ ~ Upper(B[2]) /\ ~ Lower(B[3]) /\ B[2] # B[3]
      /\ \A l \in 2 .. 4 : OwnTable(B[l])
  BY <1>1 DEF TableInv
<1>3. \A t : OwnTable(t) => OwnTable(t)'
  BY DEF OwnTable
<1>4. \A l \in 2 .. 4 : OwnTable(B[l])'
  BY <1>2, <1>3
<1> QED
  BY <1>2, <1>4, TablesKept

-----------------------------------------------------------------------------
(* What callers do with their block.                                       *)

\* The only call replaced by another one.
LEMMA Replaced ==
    ASSUME NEW S \in Seq(Calls), Len(S) = 1, NEW d \in Calls
    PROVE  /\ [S EXCEPT ![1] = d] \in Seq(Calls) /\ Len([S EXCEPT ![1] = d]) = 1
           /\ [S EXCEPT ![1] = d][1] = d
  OBVIOUS

\* A caller that runs is the only call, and holds the block it has.
LEMMA CallerTop ==
    ASSUME StackInv, Doing("caller")
    PROVE  /\ calls \in Seq(Calls) /\ Len(calls) = 1 /\ calls[1] = Top
           /\ Top \in [op : {"caller"}, use : Uses, stage : Stages, block : Nat]
           /\ Top \in Calls /\ Top.op = "caller" /\ Current(Top)
<1>1. calls # << >> /\ Top.op = "caller"
  BY DEF Doing
<1>2. /\ calls \in Seq(Calls) /\ Len(calls) = 1 /\ calls[1] = Top
      /\ Top \in Calls /\ Current(Top)
  BY <1>1, TopOfStack
<1> QED
  BY <1>1, <1>2, Kinds

\* The block of such a caller in the list.
LEMMA HeldBlock ==
    ASSUME ListInv, BlockInv, NEW c, Holds(c), c.use \in Mapped
    PROVE  \E b \in live, t \in Linked :
              /\ Behind(b, t) /\ b.start = c.block /\ b.use = c.use
              /\ c.use \in {"clb", "fis"} => tail[t].next = 0 \/ b.start + 2 * PageBytes <= t
              /\ b.start \in Nat /\ t \in Nat /\ KernelEnd + 24 <= b.start
              /\ b.start = PageOf(b.start) * PageBytes
              /\ b.start + PageBytes <= t /\ t + 24 <= WindowEnd
              /\ PageOf(b.start) \in Window
<1>1. PICK b \in live, t \in Linked :
         /\ Behind(b, t)
         /\ b.start = c.block /\ b.use = c.use
         /\ c.use \in {"clb", "fis"} => tail[t].next = 0 \/ b.start + 2 * PageBytes <= t
  BY DEF Holds
<1>2. b.size = PageBytes /\ b.start = PageOf(b.start) * PageBytes
  BY <1>1 DEF BlockInv
<1>3. /\ b.start \in Nat /\ t \in Nat /\ KernelEnd + 24 <= b.start
      /\ b.start + PageBytes <= t /\ t + 24 <= WindowEnd
  BY <1>1, <1>2, Bounds
<1>4. PageOf(b.start) \in Window
  BY <1>1, PageAlone
<1> QED
  BY <1>1, <1>2, <1>3, <1>4

\* A driver block whose page is to be mapped onto frame f.
LEMMA ThenMapKeeps ==
    ASSUME IInv, Doing("caller"), Top.use \in Mapped, Top.stage = "alloc",
           NEW f \in Nat, ThenMap(f),
           UNCHANGED <<word, backup, tlb, mem_listStart, tail, live>>
    PROVE  StackInv'
<1>1. ListInv /\ BlockInv /\ TableInv /\ TlbInv /\ StackInv
  BY DEF IInv
<1>2. PICK c : c = Top
  OBVIOUS
<1>3. /\ calls \in Seq(Calls) /\ Len(calls) = 1 /\ calls[1] = c
      /\ c \in [op : {"caller"}, use : Uses, stage : Stages, block : Nat]
      /\ Current(c) /\ c.use \in Mapped /\ c.stage = "alloc"
  BY <1>1, <1>2, CallerTop
<1>4. Holds(c) /\ PageOf(c.block) \notin DOMAIN tlb
  BY <1>3 DEF Current
<1>5. PageOf(c.block) \in Window
  BY <1>1, <1>3, <1>4, HeldBlock
<1>6. PICK p \in Nat : p = PageOf(c.block)
  BY <1>5, FiveTables
<1>7. PICK m : m = PageMapCall(p, f)
  OBVIOUS
<1>8. m = [op |-> "page_map", page |-> p, frame |-> f, table |-> PML4, level |-> 4]
  BY <1>7 DEF PageMapCall
<1>9. /\ m \in Calls /\ m.op = "page_map" /\ m.page = p /\ m.level = 4 /\ m.table = PML4
  BY <1>8, FiveTables DEF Calls
<1>10. PICK d : d = [c EXCEPT !.stage = "mapped"]
  OBVIOUS
<1>11. /\ d \in Calls /\ d.op = "caller" /\ d.use = c.use /\ d.block = c.block
       /\ d.stage = "mapped"
  BY <1>3, <1>10 DEF Calls, Stages
<1>12. Holds(d)
  BY <1>4, <1>11 DEF Holds
<1>13. Sound(m)
  BY <1>5, <1>6, <1>9 DEF Sound, NearTable
<1>14. CalledBy(m, d)
  BY <1>3, <1>4, <1>5, <1>6, <1>9, <1>11, <1>12 DEF CalledBy
<1>15. Current(m)
  BY <1>9 DEF Current
<1>16. calls' \in Seq(Calls) /\ Len(calls') = 2 /\ calls'[1] = m /\ calls'[2] = d
  <2>1. PICK U : U = [calls EXCEPT ![1].stage = "mapped"]
    OBVIOUS
  <2>2. U = [calls EXCEPT ![1] = d]
    BY <1>3, <1>10, <2>1
  <2>3. U \in Seq(Calls) /\ Len(U) = 1 /\ U[1] = d
    BY <1>3, <1>11, <2>2
  <2>4. calls' = <<m>> \o U
    BY <1>2, <1>6, <1>7, <2>1 DEF ThenMap
  <2>5. <<m>> \in Seq(Calls) /\ Len(<<m>>) = 1 /\ <<m>>[1] = m
    BY <1>9
  <2>6. /\ <<m>> \o U \in Seq(Calls) /\ Len(<<m>> \o U) = Len(<<m>>) + Len(U)
        /\ \A i \in 1 .. Len(<<m>>) + Len(U) :
              (<<m>> \o U)[i] = IF i <= Len(<<m>>) THEN <<m>>[i] ELSE U[i - Len(<<m>>)]
    BY <2>3, <2>5, ConcatProperties
  <2> QED
    BY <2>3, <2>4, <2>5, <2>6
<1>17. \A t : (Upper(t) => Upper(t)') /\ (Lower(t) => Lower(t)')
  BY DEF Upper, Lower
<1> QED
  BY <1>9, <1>11, <1>13, <1>14, <1>15, <1>16, <1>17, TwoCalls

\* The adapter's memory has frames.
LEMMA AdapterFrames ==
    adapter \in Adapters =>
        /\ adapter.registers \in Nat /\ adapter.clb \in Nat /\ adapter.fis \in Nat
        /\ adapter.clb_offset \in 0 .. PageBytes - 1 /\ adapter.fis_offset \in 0 .. PageBytes - 1
<1> SUFFICES ASSUME adapter \in Adapters
             PROVE  /\ adapter.registers \in Nat /\ adapter.clb \in Nat /\ adapter.fis \in Nat
                    /\ adapter.clb_offset \in 0 .. PageBytes - 1
                    /\ adapter.fis_offset \in 0 .. PageBytes - 1
  OBVIOUS
<1>1. adapter \in [registers : Nat, clb : Nat, fis : Nat,
                   clb_offset : 0 .. PageBytes - 1, fis_offset : 0 .. PageBytes - 1]
  BY MemoryAssumption
<1> QED
  BY <1>1

\* The registers are mapped over their block, or the kernel stops.
LEMMA MapRegistersKeeps ==
    ASSUME IInv, map_registers, UNCHANGED adapter
    PROVE  IInv'
<1>1. /\ Doing("caller") /\ Top.use = "registers" /\ Top.stage = "alloc"
      /\ UNCHANGED <<word, backup, tlb, mem_listStart, tail, live>>
      /\ status = "running" /\ free \subseteq Ram /\ adapter \in Adapters /\ StackInv
  BY DEF map_registers, Doing, IInv
<1>2. /\ ListInv' /\ BlockInv' /\ TableInv' /\ TlbInv'
      /\ \A t : (Upper(t) => Upper(t)') /\ (Lower(t) => Lower(t)')
  BY <1>1, MemoryKept
<1>3. free' \subseteq Ram
  BY <1>1 DEF map_registers, mem_pfree
<1>4. \/ ThenMap(adapter.registers) /\ UNCHANGED status
      \/ status' = "halted" /\ UNCHANGED calls
  BY DEF map_registers
<1>5. CASE ThenMap(adapter.registers) /\ UNCHANGED status
  <2>1. PICK f \in Nat : f = adapter.registers
    BY <1>1, AdapterFrames
  <2>2. StackInv'
    BY <1>1, <1>5, <2>1, ThenMapKeeps DEF Mapped
  <2>3. FaultsBehindWindow'
    BY <1>1, <1>5 DEF FaultsBehindWindow
  <2> QED
    BY <1>1, <1>2, <1>3, <1>5, <2>2, <2>3 DEF IInv
<1>6. CASE status' = "halted" /\ UNCHANGED calls
  <2>1. StackInv'
    BY <1>1, <1>2, <1>6, StackKept
  <2>2. FaultsBehindWindow'
    BY <1>6 DEF FaultsBehindWindow
  <2> QED
    BY <1>1, <1>2, <1>3, <1>6, <2>1, <2>2 DEF IInv
<1> QED
  BY <1>4, <1>5, <1>6

\* The command list and the FIS area are mapped over theirs.
LEMMA MapStructureKeeps ==
    ASSUME IInv, map_cmd_list \/ map_fis, UNCHANGED adapter
    PROVE  IInv'
<1>1. /\ Doing("caller") /\ Top.use \in Mapped /\ Top.stage = "alloc"
      /\ UNCHANGED <<word, backup, tlb, status, mem_listStart, tail, live>>
      /\ ThenMap(adapter.clb) \/ ThenMap(adapter.fis)
      /\ status = "running" /\ free \subseteq Ram /\ adapter \in Adapters
  BY DEF map_cmd_list, map_fis, Doing, IInv, Mapped
<1>2. /\ ListInv' /\ BlockInv' /\ TableInv' /\ TlbInv'
  BY <1>1, MemoryKept
<1>3. free' \subseteq Ram
  BY <1>1 DEF map_cmd_list, map_fis, mem_pfree
<1>4. PICK f \in Nat : ThenMap(f)
  BY <1>1, AdapterFrames
<1>5. StackInv'
  BY <1>1, <1>4, ThenMapKeeps
<1>6. FaultsBehindWindow'
  BY <1>1 DEF FaultsBehindWindow
<1> QED
  BY <1>1, <1>2, <1>3, <1>5, <1>6 DEF IInv

\* Accesses to pages of the window that are in use.
LEMMA AccessKeeps ==
    ASSUME ListInv, BlockInv, TableInv, TlbInv,
           UNCHANGED <<word, backup, mem_listStart, tail, live>>,
           NEW ps, tlb' = Cached(ps),
           \A p \in ps : p \in Window /\ \E a \in Nat : Taken(a) /\ PageOf(a) = p
    PROVE  ListInv' /\ BlockInv' /\ TableInv' /\ TlbInv'
<1>1. ListInv' /\ BlockInv' /\ \A a : Taken(a) => Taken(a)'
  BY ListKept
<1>2. TlbInv'
  <2>1. \A p \in ps : \E a \in Nat : Taken(a)' /\ PageOf(a) = p
    BY <1>1
  <2>2. ps \subseteq Window
    OBVIOUS
  <2> QED
    BY <1>1, <2>1, <2>2, TlbGrows
<1>3. TableInv'
  BY BackupKept
<1> QED
  BY <1>1, <1>2, <1>3

\* The registers are read.
LEMMA UseRegistersKeeps ==
    ASSUME IInv, use_registers, UNCHANGED adapter
    PROVE  IInv'
<1>1. /\ Doing("caller") /\ Top.use = "registers" /\ Top.stage = "mapped"
      /\ UNCHANGED <<word, backup, mem_listStart, tail, live, free>>
      /\ status = "running" /\ ListInv /\ BlockInv /\ TableInv /\ TlbInv /\ StackInv
  BY DEF use_registers, Doing, IInv
<1>2. PICK c : c = Top
  OBVIOUS
<1>3. c.use \in Mapped /\ Holds(c)
  BY <1>1, <1>2, CallerTop DEF Current, Mapped
<1>4. PICK b \in live, t \in Linked :
         /\ Behind(b, t) /\ b.start = c.block
         /\ b.start \in Nat /\ t \in Nat /\ b.start + PageBytes <= t
         /\ PageOf(b.start) \in Window
  BY <1>1, <1>3, HeldBlock
<1>5. Taken(b.start)
  <2>1. b.start \in b.start .. t + sizeof_TAIL - 1
    BY <1>4, Sizes DEF sizeof_TAIL
  <2> QED
    BY <1>4, <2>1 DEF Taken
<1>6. Frame(PageOf(Top.block)) # {}
  BY <1>1, <1>2, <1>4, Frames
<1>7. tlb' = Cached({PageOf(Top.block)}) /\ calls' = << >> /\ UNCHANGED status
  BY <1>6 DEF use_registers
<1>8. PICK ps : ps = {PageOf(Top.block)}
  OBVIOUS
<1>9. \A p \in ps : p \in Window /\ \E a \in Nat : Taken(a) /\ PageOf(a) = p
  BY <1>2, <1>4, <1>5, <1>8
<1>10. ListInv' /\ BlockInv' /\ TableInv' /\ TlbInv'
  BY <1>1, <1>7, <1>8, <1>9, AccessKeeps
<1>11. StackInv' /\ FaultsBehindWindow'
  BY <1>1, <1>7, NoCalls DEF FaultsBehindWindow
<1> QED
  BY <1>1, <1>7, <1>10, <1>11 DEF IInv

\* The pages of a block are in the window and in use.
LEMMA BlockPages ==
    ASSUME ListInv, BlockInv, NEW b \in live, NEW p \in PagesOf(b.start, b.size)
    PROVE  /\ p \in Window
           /\ \E a \in Nat, t \in Linked :
                 /\ Behind(b, t) /\ b.start <= a /\ a < t + 24
                 /\ Taken(a) /\ PageOf(a) = p
<1>1. PICK t \in Linked : Behind(b, t)
  BY DEF BlockInv
<1>2. /\ b.start \in Nat /\ b.size \in Nat /\ t \in Nat
      /\ KernelEnd + 24 <= b.start /\ b.start + b.size <= t /\ t + 24 <= WindowEnd
  BY <1>1, Bounds
<1>3. PICK x \in Nat : x = b.start /\ x > 0
  BY <1>2, Sizes
<1>4. PICK n \in Nat : n = b.size
  BY <1>2
<1>5. PICK a \in Nat : x <= a /\ a <= x + n /\ PageOf(a) = p
  BY <1>3, <1>4, PageHit
<1>6. b.start <= a /\ a < t + 24 /\ KernelEnd <= a /\ a < WindowEnd
  BY <1>2, <1>3, <1>4, <1>5, Sizes
<1>7. Taken(a)
  <2>1. a \in b.start .. t + sizeof_TAIL - 1
    BY <1>2, <1>6 DEF sizeof_TAIL
  <2> QED
    BY <1>1, <2>1 DEF Taken
<1> QED
  BY <1>1, <1>5, <1>6, <1>7, WindowPage

\* A block is filled, or a part of it.
LEMMA KeepKeeps ==
    ASSUME IInv, keep, UNCHANGED adapter
    PROVE  IInv'
<1>1. /\ Doing("caller")
      /\ UNCHANGED <<word, backup, mem_listStart, tail, live, free>>
      /\ status = "running" /\ ListInv /\ BlockInv /\ TableInv /\ TlbInv /\ StackInv
  BY DEF keep, Doing, IInv
<1>2. PICK ps : /\ Touch(ps)
                /\ \A p \in ps : p \in Window /\ \E a \in Nat : Taken(a) /\ PageOf(a) = p
  <2>1. CASE Touch({})
    BY <2>1
  <2>2. CASE \E b \in live : b.start = Top.block /\ Touch(PagesOf(b.start, b.size))
    <3>1. PICK b \in live : Touch(PagesOf(b.start, b.size))
      BY <2>2
    <3>2. \A p \in PagesOf(b.start, b.size) :
             p \in Window /\ \E a \in Nat : Taken(a) /\ PageOf(a) = p
      BY <1>1, BlockPages
    <3> QED
      BY <3>1, <3>2
  <2> QED
    BY <2>1, <2>2 DEF keep
<1>3. CASE status' = "corrupt" /\ UNCHANGED <<tlb, calls>>
  <2>1. /\ ListInv' /\ BlockInv' /\ TableInv' /\ TlbInv'
        /\ \A t : (Upper(t) => Upper(t)') /\ (Lower(t) => Lower(t)')
    BY <1>1, <1>3, MemoryKept
  <2>2. StackInv'
    BY <1>1, <1>3, <2>1, StackKept
  <2>3. FaultsBehindWindow'
    BY <1>3 DEF FaultsBehindWindow
  <2> QED
    BY <1>1, <1>3, <2>1, <2>2, <2>3 DEF IInv
<1>4. CASE tlb' = Cached(ps) /\ calls' = << >> /\ UNCHANGED status
  <2>1. ListInv' /\ BlockInv' /\ TableInv' /\ TlbInv'
    BY <1>1, <1>2, <1>4, AccessKeeps
  <2>2. StackInv' /\ FaultsBehindWindow'
    BY <1>1, <1>4, NoCalls DEF FaultsBehindWindow
  <2> QED
    BY <1>1, <1>4, <2>1, <2>2 DEF IInv
<1> QED
  BY <1>2, <1>3, <1>4 DEF Touch

\* The pages a page's worth of bytes from inside a driver's block lies in.
LEMMA ClearedPages ==
    ASSUME ListInv, BlockInv, NEW b \in live, NEW t \in Linked, Behind(b, t),
           b.start = PageOf(b.start) * PageBytes, b.start + PageBytes <= t,
           NEW from \in Nat, b.start <= from, from < b.start + PageBytes,
           NEW p \in PagesOf(from, PageBytes)
    PROVE  p \in Window /\ \E a \in Nat : Taken(a) /\ PageOf(a) = p
<1>1. /\ b.start \in Nat /\ t \in Nat /\ PageBytes \in Nat /\ PageBytes >= 16
      /\ KernelEnd + 24 <= b.start /\ t + 24 <= WindowEnd /\ KernelEnd \in Nat
  BY Bounds, Sizes
<1>2. PICK q \in Nat : q = PageOf(b.start)
  BY <1>1, InPage
<1>3. PICK a \in Nat : from <= a /\ PageOf(a) = p /\ a < from + PageBytes
  BY <1>1, PageHit
<1>4. PICK x \in {b.start, b.start + PageBytes} : PageOf(x) = p
  <2>1. CASE a < b.start + PageBytes
    <3>1. PageOf(a) = q
      BY <1>1, <1>2, <1>3, <2>1, OnePage
    <3> QED
      BY <1>2, <1>3, <3>1
  <2>2. CASE b.start + PageBytes <= a
    <3>1. (q + 1) * PageBytes = b.start + PageBytes
      BY <1>1, <1>2
    <3>2. q + 1 \in Nat /\ b.start + PageBytes \in Nat
      BY <1>1
    <3>3. PageOf(a) = q + 1
      BY <1>1, <1>3, <2>2, <3>1, <3>2, OnePage
    <3>4. PageOf(b.start + PageBytes) = q + 1
      BY <1>1, <3>1, <3>2, OnePage
    <3> QED
      BY <1>3, <3>3, <3>4
  <2> QED
    BY <1>1, <1>3, <2>1, <2>2
<1>5. x \in Nat /\ b.start <= x /\ x < t + 24 /\ KernelEnd <= x /\ x < WindowEnd
  <2>1. WindowEnd \in Nat
    BY Sizes
  <2>2. x = b.start \/ x = b.start + PageBytes
    OBVIOUS
  <2> QED
    BY <1>1, <2>1, <2>2
<1>6. Taken(x)
  <2>1. x \in b.start .. t + sizeof_TAIL - 1
    BY <1>1, <1>5 DEF sizeof_TAIL
  <2> QED
    BY <2>1 DEF Taken
<1> QED
  BY <1>4, <1>5, <1>6, WindowPage

\* A page is cleared from the mapped structure on.
LEMMA ClearMappedKeeps ==
    ASSUME IInv, clear_mapped, UNCHANGED adapter
    PROVE  IInv'
<1>1. /\ Doing("caller") /\ Top.use \in {"clb", "fis"} /\ Top.stage = "mapped"
      /\ UNCHANGED <<word, backup, mem_listStart, live, free>>
      /\ status = "running" /\ ListInv /\ BlockInv /\ TableInv /\ TlbInv /\ StackInv
      /\ adapter \in Adapters
  BY DEF clear_mapped, Doing, IInv
<1>2. PICK c : c = Top
  OBVIOUS
<1>3. /\ calls \in Seq(Calls) /\ Len(calls) = 1 /\ calls[1] = c
      /\ c \in [op : {"caller"}, use : Uses, stage : Stages, block : Nat]
      /\ c.use \in Mapped /\ Holds(c)
  BY <1>1, <1>2, CallerTop DEF Current, Mapped
<1>4. PICK b \in live, t \in Linked :
         /\ Behind(b, t) /\ b.start = c.block
         /\ tail[t].next = 0 \/ b.start + 2 * PageBytes <= t
         /\ b.start \in Nat /\ t \in Nat
         /\ b.start = PageOf(b.start) * PageBytes /\ b.start + PageBytes <= t
  BY <1>1, <1>2, <1>3, HeldBlock
<1>5. PICK from \in Nat : from = virt(c) /\ b.start <= from /\ from < b.start + PageBytes
  <2>1. adapter.clb_offset \in 0 .. PageBytes - 1 /\ adapter.fis_offset \in 0 .. PageBytes - 1
    BY <1>1, AdapterFrames
  <2> QED
    BY <1>4, <2>1, Sizes DEF virt
<1>6. PICK ps : ps = PagesOf(from, PageBytes)
  OBVIOUS
<1>7. \A p \in ps : p \in Window /\ \E a \in Nat : Taken(a) /\ PageOf(a) = p
  BY <1>1, <1>4, <1>5, <1>6, ClearedPages
<1>8. \A p \in ps : Frame(p) # {}
  BY <1>1, <1>7, Frames
<1>9. /\ tlb' = Cached(ps)
      /\ tail' = Cleared(from)
      /\ calls' = IF c.use = "clb" THEN [calls EXCEPT ![1].use = "fis", ![1].stage = "ask"]
                                   ELSE << >>
      /\ UNCHANGED status
  BY <1>2, <1>5, <1>6, <1>8 DEF clear_mapped
<1>10. /\ ListInv' /\ BlockInv'
       /\ Linked' = Linked
       /\ \A d \in live, u \in Linked : Behind(d, u) => Behind(d, u)'
  BY <1>1, <1>4, <1>5, <1>9, ClearKeeps
<1>11. \A a : Taken(a) => Taken(a)'
  BY <1>1, <1>10, TakenKept
<1>12. TableInv'
  BY <1>1, BackupKept
<1>13. TlbInv'
  <2>1. \A p \in ps : \E a \in Nat : Taken(a)' /\ PageOf(a) = p
    BY <1>7, <1>11
  <2>2. ps \subseteq Window
    BY <1>7
  <2> QED
    BY <1>1, <1>9, <1>11, <2>1, <2>2, TlbGrows
<1>14. StackInv'
  <2>1. CASE c.use = "clb"
    <3>1. PICK d : d = [c EXCEPT !.use = "fis", !.stage = "ask"]
      OBVIOUS
    <3>2. d \in Calls /\ d.op = "caller" /\ d.use = "fis" /\ d.stage = "ask"
      BY <1>3, <3>1 DEF Calls, Uses, Mapped, Stages
    <3>3. Current(d)'
      BY <3>2 DEF Current
    <3>4. calls' = [calls EXCEPT ![1] = d]
      BY <1>3, <1>9, <2>1, <3>1
    <3>5. PICK U : U = [calls EXCEPT ![1] = d]
      OBVIOUS
    <3>6. U \in Seq(Calls) /\ Len(U) = 1 /\ U[1] = d
      BY <1>3, <3>2, <3>5, Replaced
    <3> QED
      BY <3>2, <3>3, <3>4, <3>5, <3>6, OneCall
  <2>2. CASE c.use # "clb"
    BY <1>9, <2>2, NoCalls
  <2> QED
    BY <2>1, <2>2
<1>15. FaultsBehindWindow'
  BY <1>1, <1>9 DEF FaultsBehindWindow
<1> QED
  BY <1>1, <1>9, <1>10, <1>12, <1>13, <1>14, <1>15 DEF IInv

\* The FIS area's block is asked for.
LEMMA AskFisKeeps ==
    ASSUME IInv, ask_fis, UNCHANGED adapter
    PROVE  IInv'
<1>1. /\ Doing("caller") /\ Top.stage = "ask"
      /\ UNCHANGED <<word, backup, tlb, status, mem_listStart, tail, live, free>>
      /\ status = "running" /\ ListInv /\ StackInv
  BY DEF ask_fis, Doing, IInv
<1>2. PICK r : r = [size |-> PageBytes, align |-> PageBytes, use |-> "fis"]
  OBVIOUS
<1>3. PICK m \in Placements(r) : calls' = <<m>> \o [calls EXCEPT ![1].stage = "alloc"]
  BY <1>2 DEF ask_fis
<1>4. Near(r) /\ r.use = "fis"
  BY <1>2, NearRequests
<1>5. /\ ListInv' /\ BlockInv' /\ TableInv' /\ TlbInv'
      /\ \A t : (Upper(t) => Upper(t)') /\ (Lower(t) => Lower(t)')
  BY <1>1, MemoryKept
<1>6. /\ m \in Calls /\ m.op = "mem_alloc" /\ m.use = r.use
      /\ Placed(m)
      /\ KernelEnd + sizeof_TAIL <= m.start
      /\ m.start + m.size <= m.at
      /\ PageOf(m.at + sizeof_TAIL) < FirstEntryEnd
      /\ m.use \in Mapped \cup {"table"} =>
            m.size = PageBytes /\ m.start = PageOf(m.start) * PageBytes
  BY <1>1, <1>3, <1>4, Placing
<1>7. Sound(m) /\ Current(m) /\ m.use = "fis"
  BY <1>4, <1>6 DEF Sound, Current
<1>8. PICK c : c = Top
  OBVIOUS
<1>9. /\ calls \in Seq(Calls) /\ Len(calls) = 1 /\ calls[1] = c
      /\ c \in [op : {"caller"}, use : Uses, stage : Stages, block : Nat]
      /\ c.use = "fis"
  BY <1>1, <1>8, CallerTop DEF Current
<1>10. PICK d : d = [c EXCEPT !.stage = "alloc"]
  OBVIOUS
<1>11. d \in Calls /\ d.op = "caller" /\ d.use = "fis" /\ d.stage = "alloc"
  BY <1>9, <1>10 DEF Calls, Stages
<1>12. CalledBy(m, d)
  BY <1>6, <1>7, <1>11 DEF CalledBy
<1>13. calls' \in Seq(Calls) /\ Len(calls') = 2 /\ calls'[1] = m /\ calls'[2] = d
  <2>1. PICK U : U = [calls EXCEPT ![1].stage = "alloc"]
    OBVIOUS
  <2>2. U = [calls EXCEPT ![1] = d]
    BY <1>9, <1>10, <2>1
  <2>3. U \in Seq(Calls) /\ Len(U) = 1 /\ U[1] = d
    BY <1>9, <1>11, <2>2, Replaced
  <2>4. calls' = <<m>> \o U
    BY <1>3, <2>1
  <2>5. <<m>> \in Seq(Calls) /\ Len(<<m>>) = 1 /\ <<m>>[1] = m
    BY <1>6
  <2>6. /\ <<m>> \o U \in Seq(Calls) /\ Len(<<m>> \o U) = Len(<<m>>) + Len(U)
        /\ \A i \in 1 .. Len(<<m>>) + Len(U) :
              (<<m>> \o U)[i] = IF i <= Len(<<m>>) THEN <<m>>[i] ELSE U[i - Len(<<m>>)]
    BY <2>3, <2>5, ConcatProperties
  <2> QED
    BY <2>3, <2>4, <2>5, <2>6
<1>14. StackInv'
  BY <1>1, <1>5, <1>6, <1>7, <1>11, <1>12, <1>13, TwoCalls
<1>15. FaultsBehindWindow'
  BY <1>1 DEF FaultsBehindWindow
<1> QED
  BY <1>1, <1>5, <1>14, <1>15 DEF IInv

\* The table of devices is given back while it is the last block.
LEMMA FreeKeeps ==
    ASSUME IInv, NEW b \in live, mem_free(b), UNCHANGED adapter
    PROVE  IInv'
<1>1. /\ calls = << >> /\ calls' = << >> /\ b.use = "devices"
      /\ UNCHANGED <<word, backup, tlb, mem_listStart, free>>
      /\ status = "running" /\ ListInv /\ BlockInv /\ TableInv /\ TlbInv
  BY DEF mem_free, IInv
<1>2. PICK e \in Linked :
         /\ tail[e].vaddr = b.start /\ tail[e].next = 0
         /\ IF Frame(0) = {}
            THEN status' = "fault" /\ UNCHANGED <<tail, live>>
            ELSE /\ tail' = List!Unlinked(e)
                 /\ live' = live \ {b}
                 /\ UNCHANGED status
  BY DEF mem_free, Linked
<1>3. Frame(0) # {}
  <2>1. 0 \in 0 .. Entries - 1
    BY Sizes
  <2>2. Frame(0) = {0}
    BY <1>1, <2>1, Frames
  <2> QED
    BY <2>2
<1>4. tail' = List!Unlinked(e) /\ live' = live \ {b} /\ UNCHANGED status
  BY <1>2, <1>3
<1>5. /\ ListInv' /\ BlockInv'
      /\ Linked' = Linked \ {e}
      /\ \A c \in live', u \in Linked' : Behind(c, u) => Behind(c, u)'
  BY <1>1, <1>2, <1>4, UnlinkKeeps
<1>6. Behind(b, e)
  BY <1>1, <1>2, LastBlock
<1>7. TableInv'
  BY <1>1, <1>4, BackupKept DEF Mapped
<1>8. ASSUME NEW a \in Nat, Taken(a)  PROVE \E x \in Nat : Taken(x)' /\ PageOf(x) = PageOf(a)
  <2>1. CASE a \in KernelEnd .. KernelEnd + sizeof_TAIL - 1
    <3>1. Taken(a)'
      BY <2>1 DEF Taken
    <3> QED
      BY <3>1
  <2>2. CASE \E c \in live, u \in Linked : Behind(c, u) /\ a \in c.start .. u + sizeof_TAIL - 1
    <3>1. PICK c \in live, u \in Linked : Behind(c, u) /\ a \in c.start .. u + sizeof_TAIL - 1
      BY <2>2
    <3>2. CASE c = b
      <4>1. PageOf(u + 23) = PageOf(KernelEnd)
        BY <1>1, <3>1, <3>2 DEF BlockInv
      <4>2. /\ c.start \in Nat /\ u \in Nat /\ KernelEnd \in Nat
            /\ KernelEnd <= a /\ a <= u + 23 /\ u + 23 \in Nat
        BY <1>1, <3>1, Bounds, Sizes DEF sizeof_TAIL
      <4>3. PageOf(KernelEnd) <= PageOf(a) /\ PageOf(a) <= PageOf(u + 23)
        BY <4>2, PagesRise
      <4>4. PageOf(a) = PageOf(KernelEnd)
        BY <4>1, <4>2, <4>3, InPage
      <4>5. Taken(KernelEnd)'
        <5>1. KernelEnd \in KernelEnd .. KernelEnd + sizeof_TAIL - 1
          BY Sizes DEF sizeof_TAIL
        <5> QED
          BY <5>1 DEF Taken
      <4> QED
        BY <4>2, <4>4, <4>5
    <3>3. CASE c # b
      <4>1. u # e
        BY <1>1, <1>6, <3>1, <3>3 DEF BlockInv
      <4>2. c \in live' /\ u \in Linked' /\ Behind(c, u)'
        BY <1>4, <1>5, <3>1, <3>3, <4>1
      <4>3. Taken(a)'
        BY <3>1, <4>2 DEF Taken
      <4> QED
        BY <4>3
    <3> QED
      BY <3>2, <3>3
  <2> QED
    BY <1>8, <2>1, <2>2 DEF Taken
<1>9. TlbInv'
  <2>1. \A p : Entry(WindowPT, p - KernelStart)' = Entry(WindowPT, p - KernelStart)
    BY <1>1 DEF Entry
  <2>2. \A p \in DOMAIN tlb : (\E a \in Nat : Taken(a) /\ PageOf(a) = p)
                                 => (\E a \in Nat : Taken(a)' /\ PageOf(a) = p)
    BY <1>8
  <2> QED
    BY <1>1, <1>7, <2>1, <2>2, TlbKept
<1>10. StackInv' /\ FaultsBehindWindow'
  BY <1>1, <1>4, NoCalls DEF FaultsBehindWindow
<1>11. adapter' \in Adapters /\ free' \subseteq Ram
  BY <1>1 DEF IInv
<1> QED
  BY <1>1, <1>4, <1>5, <1>7, <1>9, <1>10, <1>11 DEF IInv

-----------------------------------------------------------------------------
(* The invariant, and what it says.                                        *)

\* Every state keeps the list, the tables, the translations and the calls as
\* IInv has them: the invariant of memory, page tables and heap together.
THEOREM Inductive == DevicesFit => (Spec => []IInv)
<1> SUFFICES ASSUME DevicesFit  PROVE Spec => []IInv
  OBVIOUS
<1>1. Init => IInv
  BY InitIInv
<1>2. IInv /\ [Next]_vars => IInv'
  <2> SUFFICES ASSUME IInv, [Next]_vars  PROVE IInv'
    OBVIOUS
  <2>1. CASE UNCHANGED vars
    <3>1. UNCHANGED <<word, backup, tlb, status, mem_listStart, tail, live, adapter, calls, free>>
      BY <2>1 DEF vars
    <3>2. /\ ListInv' /\ BlockInv' /\ TableInv' /\ TlbInv'
          /\ \A t : (Upper(t) => Upper(t)') /\ (Lower(t) => Lower(t)')
      BY <3>1, MemoryKept
    <3>3. StackInv'
      BY <3>1, <3>2, StackKept DEF IInv
    <3>4. FaultsBehindWindow'
      BY <3>1 DEF IInv, FaultsBehindWindow, Top
    <3> QED
      BY <3>1, <3>2, <3>3, <3>4 DEF IInv
  <2>2. CASE Next
    <3>1. UNCHANGED adapter
      BY <2>2 DEF Next
    <3>2. CASE mem_alloc_check_page
      BY <3>1, <3>2, CheckPageKeeps
    <3>3. CASE link
      BY <3>1, <3>3, LinkKeeps
    <3>4. CASE descend
      BY <3>1, <3>4, DescendKeeps
    <3>5. CASE add_table
      BY <3>1, <3>5, AddTableKeeps
    <3>6. CASE map_page
      BY <3>1, <3>6, MapPageKeeps
    <3>7. CASE keep
      BY <3>1, <3>7, KeepKeeps
    <3>8. CASE map_registers
      BY <3>1, <3>8, MapRegistersKeeps
    <3>9. CASE map_cmd_list \/ map_fis
      BY <3>1, <3>9, MapStructureKeeps
    <3>10. CASE use_registers
      BY <3>1, <3>10, UseRegistersKeeps
    <3>11. CASE clear_mapped
      BY <3>1, <3>11, ClearMappedKeeps
    <3>12. CASE ask_fis
      BY <3>1, <3>12, AskFisKeeps
    <3>13. ASSUME NEW r \in Requests, request(r)  PROVE IInv'
      BY <3>1, <3>13, RequestKeeps
    <3>14. ASSUME NEW b \in live, mem_free(b)  PROVE IInv'
      BY <3>1, <3>14, FreeKeeps
    <3> QED
      BY <2>2, <3>2, <3>3, <3>4, <3>5, <3>6, <3>7, <3>8, <3>9, <3>10, <3>11, <3>12, <3>13, <3>14
      DEF Next, Step
  <2> QED
    BY <2>1, <2>2
<1> QED
  BY <1>1, <1>2, PTL DEF Spec

\* Every variable holds what the code can put there.
THEOREM TypeCorrect == DevicesFit => (Spec => []TypeOK)
<1> SUFFICES ASSUME DevicesFit  PROVE Spec => []TypeOK
  OBVIOUS
<1>1. IInv => TypeOK
  <2> SUFFICES ASSUME IInv  PROVE TypeOK
    OBVIOUS
  <2>1. ListInv /\ BlockInv /\ TableInv /\ TlbInv /\ StackInv
    BY DEF IInv
  <2>2. status \in {"running", "halted", "fault", "corrupt"} /\ free \subseteq Ram
    BY DEF IInv
  <2>3. DOMAIN tail \subseteq KernelEnd .. WindowEnd - sizeof_TAIL
    BY <2>1 DEF ListInv, Linked
  <2>4. \A c \in DOMAIN word : c[2] \in 0 .. Entries - 1 /\ word[c] \subseteq Nat
    <3> SUFFICES ASSUME NEW c \in DOMAIN word
                 PROVE  c[2] \in 0 .. Entries - 1 /\ word[c] \subseteq Nat
      OBVIOUS
    <3>1. c \in Nat \X (0 .. Entries - 1) /\ \E g \in Nat : word[c] = {g}
      BY <2>1 DEF TableInv, Harmless
    <3> QED
      BY <3>1
  <2>5. backup \in [2 .. 4 -> KernelStart .. KernelStart + WindowPages - 1]
    BY <2>1, MemoryAssumption DEF TableInv, Window
  <2>6. \A p \in DOMAIN tlb : tlb[p] \in Nat
    <3> SUFFICES ASSUME NEW p \in DOMAIN tlb  PROVE tlb[p] \in Nat
      OBVIOUS
    <3>1. p \in Window /\ Walk(p) = {tlb[p]}
      BY <2>1 DEF TlbInv
    <3>2. \E f \in Nat : Walk(p) = {f}
      BY <2>1, <3>1, WindowWalk
    <3> QED
      BY <3>1, <3>2
  <2>7. \A b \in live : b.start + b.size <= WindowEnd
    <3> SUFFICES ASSUME NEW b \in live  PROVE b.start + b.size <= WindowEnd
      OBVIOUS
    <3>1. PICK t \in Linked : Behind(b, t)
      BY <2>1 DEF BlockInv
    <3>2. /\ b.start \in Nat /\ b.size \in Nat /\ t \in Nat
          /\ b.start + b.size <= t /\ t + 24 <= WindowEnd
      BY <2>1, <3>1, Bounds
    <3> QED
      BY <3>2, Sizes
  <2>8. Len(calls) <= MaxDepth
    BY <2>1 DEF StackInv
  <2> QED
    BY <2>2, <2>3, <2>4, <2>5, <2>6, <2>7, <2>8 DEF TypeOK
<1> QED
  BY <1>1, Inductive, PTL

\* In the window the kernel's own walk of the tables, page_trace_PML4, finds the
\* frame the processor reaches, however often pages were mapped anew.
THEOREM TraceRight == DevicesFit => (Spec => []TraceIsFrame)
<1> SUFFICES ASSUME DevicesFit  PROVE Spec => []TraceIsFrame
  OBVIOUS
<1>1. IInv => TraceIsFrame
  <2> SUFFICES ASSUME IInv, NEW p \in WindowLinear  PROVE page_trace_PML4(p) = Frame(p)
    BY DEF TraceIsFrame
  <2>1. p \in Window
    BY MemoryAssumption DEF WindowLinear, Window
  <2>2. TableInv /\ TlbInv
    BY DEF IInv
  <2> QED
    BY <2>1, <2>2, Traced, Frames
<1> QED
  BY <1>1, Inductive, PTL

\* A tail about to be linked lies apart from every block, unless it is behind
\* its gap.
LEMMA NewTailApart ==
    ASSUME ListInv, BlockInv, NEW m \in Calls, m.op = "mem_alloc", Sound(m), Placed(m),
           ~ Outside(m), ~ BehindGap(m)
    PROVE  \A c \in live, u \in Linked :
              Behind(c, u) => u + 24 <= m.at \/ m.at + 24 <= c.start
<1>1. /\ m.start \in Nat /\ m.at \in Nat /\ m.gap \in BOOLEAN
      /\ m.start <= m.at /\ m.at + 24 <= WindowEnd
  <2>1. m.start \in Nat /\ m.at \in Nat /\ m.size \in Nat /\ m.gap \in BOOLEAN
    BY Kinds
  <2>2. m.start + m.size <= m.at /\ m.at + 24 <= WindowEnd
    BY <2>1, Sizes DEF Sound, Outside, sizeof_TAIL
  <2> QED
    BY <2>1, <2>2
<1>2. PICK t \in Nat : t = m.at
  BY <1>1
<1>3. PICK s \in Nat : s = m.start
  BY <1>1
<1>4. PICK e : e = m.e
  OBVIOUS
<1>5. SUFFICES ASSUME NEW c \in live, NEW u \in Linked, Behind(c, u)
               PROVE  u + 24 <= t \/ t + 24 <= c.start
  BY <1>2
<1>6. u \in Nat /\ c.start \in Nat
  BY <1>5, Bounds
<1>7. CASE m.gap
  <2>1. /\ e \in Linked /\ tail[e].prev # 0 /\ s <= t
        /\ tail[e].prev + 24 <= s /\ t + 24 <= tail[e].vaddr
    BY <1>1, <1>2, <1>3, <1>4, <1>7, Tails DEF Placed, BehindGap, sizeof_TAIL
  <2>2. /\ t \notin Linked
        /\ \A v \in Linked : v < t => v + 24 <= s
        /\ \A d \in live, v \in Linked : t < v /\ Behind(d, v) => t + 24 <= d.start
    BY <2>1, InsertPlace
  <2>3. u # t
    BY <2>2
  <2>4. u < t => u + 24 <= t
    BY <1>6, <2>1, <2>2
  <2>5. t < u => t + 24 <= c.start
    BY <1>5, <2>2
  <2> QED
    BY <1>6, <2>3, <2>4, <2>5
<1>8. CASE ~ m.gap
  <2>1. e \in Linked /\ tail[e].next = 0 /\ e + 24 <= s /\ s <= t /\ e \in Nat
    BY <1>1, <1>2, <1>3, <1>4, <1>8, Tails DEF Placed, sizeof_TAIL
  <2>2. u <= e
    BY <2>1 DEF ListInv, Chained
  <2> QED
    BY <1>6, <2>1, <2>2
<1> QED
  BY <1>1, <1>7, <1>8

\* A call that has written its tail over memory in use has reached that memory.
LastWrite ==
    status = "corrupt" /\ calls # << >> /\ Top.op = "mem_alloc" =>
        \A p \in TailPages(Top) : Frame(p) # {}

LEMMA TailFramesKept ==
    ASSUME UNCHANGED <<word, tlb, calls>>,
           \A p \in TailPages(Top) : Frame(p) # {}
    PROVE  (\A p \in TailPages(Top) : Frame(p) # {})'
<1>1. \A f, i : Entry(f, i)' = Entry(f, i)
  BY DEF Entry
<1>2. \A p : Walk(p)' = Walk(p)
  BY <1>1 DEF Walk, Below
<1>3. \A p : Frame(p)' = Frame(p)
  BY <1>2 DEF Frame
<1>4. Top' = Top
  BY DEF Top
<1>5. TailPages(Top)' = TailPages(Top)
  BY <1>4 DEF TailPages
<1> QED
  BY <1>3, <1>5

LEMMA LastWriteKeeps ==
    ASSUME IInv, LastWrite, [Next]_vars
    PROVE  LastWrite'
<1>1. CASE UNCHANGED <<word, tlb, calls, status>>
  <2>1. Top' = Top
    BY <1>1 DEF Top
  <2> QED
    BY <1>1, <2>1, TailFramesKept DEF LastWrite
<1>2. CASE link
  <2>1. SUFFICES ASSUME status' = "corrupt"
                 PROVE  (\A p \in TailPages(Top) : Frame(p) # {})'
    BY DEF LastWrite
  <2>2. /\ \A p \in TailPages(Top) : Frame(p) # {}
        /\ UNCHANGED <<word, tlb, calls>>
    BY <1>2, <2>1 DEF link, Doing
  <2> QED
    BY <2>2, TailFramesKept
<1>3. CASE add_table \/ keep
  <2>1. SUFFICES ASSUME status' = "corrupt"
                 PROVE  Top.op # "mem_alloc" /\ UNCHANGED calls
    BY DEF LastWrite, Top
  <2> QED
    BY <1>3, <2>1 DEF add_table, keep, Touch, Doing
<1>4. CASE \/ mem_alloc_check_page \/ descend \/ map_page
           \/ map_registers \/ use_registers
           \/ map_cmd_list \/ map_fis \/ clear_mapped \/ ask_fis
           \/ \E r \in Requests : request(r)
           \/ \E b \in live : mem_free(b)
  <2>1. status = "running" /\ status' \in {status, "halted", "fault"}
    BY <1>4 DEF mem_alloc_check_page, descend, map_page, map_registers, use_registers,
                map_cmd_list, map_fis, clear_mapped, ask_fis, request, mem_free, Doing
  <2> QED
    BY <2>1 DEF LastWrite
<1> QED
  BY <1>1, <1>2, <1>3, <1>4 DEF Next, Step, vars

\* Tails, tables and blocks their callers keep stay in the memory the boot code
\* gave the kernel, but for a tail behind its gap (alloc.c:65): the driver maps
\* an adapter over pages of its own only.
THEOREM MemoryIsOwn == DevicesFit => (Spec => []OwnMemory)
<1> SUFFICES ASSUME DevicesFit  PROVE Spec => []OwnMemory
  OBVIOUS
<1>1. IInv /\ LastWrite => OwnMemory
  <2> SUFFICES ASSUME IInv, LastWrite  PROVE OwnMemory
    OBVIOUS
  <2>1. ListInv /\ BlockInv /\ TableInv /\ TlbInv /\ StackInv
    BY DEF IInv
  <2>2. ASSUME NEW p \in Window, NEW a \in Nat, PageOf(a) = p,
               \/ a \in KernelEnd .. KernelEnd + 23
               \/ \A c \in live, u \in Linked :
                     Behind(c, u) => ~ (c.start <= a /\ a < u + 24)
               \/ \E c \in live, u \in Linked :
                     /\ Behind(c, u) /\ c.start <= a /\ a < u + 24
                     /\ c.use \in Mapped => c.start + c.size <= a
        PROVE  Frame(p) = {WindowFrame(p)}
    <3>1. <<WindowPT, p - KernelStart>> \notin DOMAIN word
      <4>1. SUFFICES ASSUME <<WindowPT, p - KernelStart>> \in DOMAIN word  PROVE FALSE
        OBVIOUS
      <4>2. \E b \in live : b.use \in Mapped /\ PageOf(b.start) = KernelStart + (p - KernelStart)
        BY <2>1, <4>1 DEF TableInv, Harmless
      <4>3. KernelStart + (p - KernelStart) = p
        BY FiveTables, Sizes
      <4>4. PICK b \in live : b.use \in Mapped /\ PageOf(b.start) = p
        BY <4>2, <4>3
      <4>5. /\ b.start <= a /\ a < b.start + PageBytes
            /\ ~ a \in KernelEnd .. KernelEnd + 23
            /\ \A c \in live, u \in Linked :
                  Behind(c, u) /\ c.start <= a /\ a < u + 24 => c = b
        BY <2>1, <2>2, <4>4, PageAlone
      <4>6. b.size = PageBytes
        BY <2>1, <4>4 DEF BlockInv
      <4>7. PICK u \in Linked : Behind(b, u)
        BY <2>1 DEF BlockInv
      <4>8. b.start \in Nat /\ u \in Nat /\ b.start + b.size <= u
        BY <2>1, <4>7, Bounds
      <4>9. b.start <= a /\ a < u + 24 /\ a < b.start + b.size
        BY <4>5, <4>6, <4>8, Sizes
      <4>10. b.start + b.size <= a
        BY <2>2, <4>4, <4>5, <4>7, <4>9
      <4> QED
        BY <4>6, <4>8, <4>9, <4>10, Sizes
    <3>2. Walk(p) = {WindowFrame(p)}
      BY <2>1, <3>1, BootWalk
    <3> QED
      BY <2>1, <3>2, Frames
  <2>3. ASSUME NEW t \in Linked, NEW p \in PagesOf(t, sizeof_TAIL)
        PROVE  Frame(p) = {WindowFrame(p)}
    <3>1. t \in Nat /\ KernelEnd <= t /\ t + 24 <= WindowEnd /\ KernelEnd > 0 /\ KernelEnd \in Nat
      BY <2>1, Tails
    <3>2. PICK a \in Nat : t <= a /\ a < t + 24 /\ PageOf(a) = p
      BY <3>1, PageHit DEF sizeof_TAIL
    <3>3. p \in Window
      BY <3>1, <3>2, Sizes, WindowPage
    <3>4. CASE t = KernelEnd
      BY <2>2, <3>1, <3>2, <3>3, <3>4
    <3>5. CASE t # KernelEnd
      <4>1. PICK b \in live : Behind(b, t)
        BY <2>1, <3>5 DEF BlockInv
      <4>2. b.start \in Nat /\ b.size \in Nat /\ b.start + b.size <= t
        BY <2>1, <4>1, Bounds
      <4>3. b.start <= a /\ b.start + b.size <= a
        BY <3>1, <3>2, <4>2
      <4> QED
        BY <2>2, <3>2, <3>3, <4>1, <4>3
    <3> QED
      BY <3>4, <3>5
  <2>4. ASSUME NEW b \in live, b.use \in {"keep", "devices", "table"},
               NEW p \in PagesOf(b.start, b.size)
        PROVE  Frame(p) = {WindowFrame(p)}
    <3>1. /\ p \in Window
          /\ \E a \in Nat, t \in Linked :
                Behind(b, t) /\ b.start <= a /\ a < t + 24 /\ PageOf(a) = p
      BY <2>1, BlockPages
    <3>2. b.use \notin Mapped
      BY <2>4 DEF Mapped
    <3> QED
      BY <2>2, <3>1, <3>2
  <2>5. ASSUME status = "corrupt", calls # << >>, Top.op = "mem_alloc", ~ BehindGap(Top),
               NEW p \in PagesOf(Top.at, sizeof_TAIL)
        PROVE  Frame(p) = {WindowFrame(p)}
    <3>1. PICK m : m = Top
      OBVIOUS
    <3>2. m \in Calls /\ m.op = "mem_alloc" /\ Sound(m) /\ Current(m)
      BY <2>1, <2>5, <3>1, TopOfStack DEF StackInv, Top
    <3>3. \A q \in TailPages(m) : Frame(q) # {}
      BY <2>5, <3>1 DEF LastWrite
    <3>4. ~ Outside(m)
      BY <2>1, <3>2, <3>3, LinkedInside
    <3>5. Placed(m)
      BY <3>2, <3>4 DEF Current
    <3>6. /\ p \in Window
          /\ \E a \in Nat : m.at <= a /\ a < m.at + 24 /\ PageOf(a) = p
      BY <2>5, <3>1, <3>2, <3>4, TailPagesIn DEF TailPages
    <3>7. PICK a \in Nat : m.at <= a /\ a < m.at + 24 /\ PageOf(a) = p
      BY <3>6
    <3>8. ASSUME NEW c \in live, NEW u \in Linked, Behind(c, u)
          PROVE  ~ (c.start <= a /\ a < u + 24)
      <4>1. u + 24 <= m.at \/ m.at + 24 <= c.start
        BY <2>1, <2>5, <3>1, <3>2, <3>4, <3>5, <3>8, NewTailApart
      <4>2. m.at \in Nat /\ u \in Nat /\ c.start \in Nat
        BY <2>1, <3>2, <3>8, Kinds, Bounds
      <4> QED
        BY <3>7, <4>1, <4>2
    <3> QED
      BY <2>2, <3>6, <3>7, <3>8
  <2> DEFINE Tailed == UNION {PagesOf(t, sizeof_TAIL) : t \in TailsWritten}
             Kept == UNION {PagesOf(b.start, b.size) :
                              b \in {b \in live : b.use \in {"keep", "devices", "table"}}}
  <2>6. \A p \in Tailed : Frame(p) = {WindowFrame(p)}
    BY <2>3, <2>5 DEF Linked, TailsWritten
  <2>7. \A p \in Kept : Frame(p) = {WindowFrame(p)}
    BY <2>4
  <2> QED
    BY <2>6, <2>7 DEF OwnMemory
<1>2. Init => LastWrite
  BY DEF Init, LastWrite
<1> QED
  BY <1>1, <1>2, LastWriteKeeps, Inductive, PTL DEF Spec

\* Following next from the first tail meets every tail in ascending order,
\* although the driver clears memory some tails lie in.
THEOREM ListIsWhole == DevicesFit => (Spec => []ListReached)
<1> SUFFICES ASSUME DevicesFit  PROVE Spec => []ListReached
  OBVIOUS
<1>1. IInv => ListReached
  <2> SUFFICES ASSUME IInv  PROVE ListReached
    OBVIOUS
  <2>1. ListInv
    BY DEF IInv
  <2> QED
    BY <2>1 DEF ListInv, Chained, LedTo, ListReached, Linked
<1> QED
  BY <1>1, Inductive, PTL

\* The processor faults only where a tail is written behind the window.
THEOREM FaultsAreBehind == DevicesFit => (Spec => []FaultsBehindWindow)
<1> SUFFICES ASSUME DevicesFit  PROVE Spec => []FaultsBehindWindow
  OBVIOUS
<1>1. IInv => FaultsBehindWindow
  BY DEF IInv
<1> QED
  BY <1>1, Inductive, PTL

-----------------------------------------------------------------------------
(* Refinement of AddressSpace.                                             *)

\* Outside of the window the boot code decides about a page.
BootFrame(p) ==
    IF Index(p, 4) = 0 /\ Index(p, 3) = 0 /\ Index(p, 2) = 0 THEN {Index(p, 1)} ELSE {}

\* A page that takes the window's entry of the directory is a page of the window.
LEMMA OutsideWindow ==
    ASSUME NEW p \in 0 .. FirstEntryEnd - 1, p \notin Window
    PROVE  ~ (Index(p, 4) = 0 /\ Index(p, 3) = 0 /\ Index(p, 2) = WindowIndex)
<1>1. Entries \in Nat /\ Entries >= 2 /\ KernelStart \in Nat /\ KernelStart < Entries * Entries
  BY Sizes, PageMapAssumption
<1>2. FirstEntryEnd \in Nat
  <2>1. Entries * Entries \in Nat
    BY <1>1
  <2> QED
    BY <1>1, <2>1 DEF FirstEntryEnd
<1>3. p \in Nat
  BY <1>2
<1>4. CASE p >= KernelStart + Entries
  <2>1. Far(p)
    BY <1>1, <1>2, <1>4 DEF Far
  <2> QED
    BY <2>1, FarIndices
<1>5. CASE p < KernelStart
  <2> DEFINE j == p \div Entries
  <2>1. Index(p, 2) = j % Entries
    BY <1>3, Indices
  <2>2. j \in Nat /\ p % Entries \in Nat /\ p = Entries * j + (p % Entries)
    BY <1>1, <1>3, DivMod
  <2> HIDE DEF j
  <2>3. WindowIndex \in 1 .. Entries - 1 /\ KernelStart = Entries * WindowIndex
    BY WindowIndices
  <2>4. j < WindowIndex
    <3>1. SUFFICES ASSUME WindowIndex <= j  PROVE FALSE
      BY <2>2, <2>3
    <3>2. Entries * (j - WindowIndex) \in Nat
      BY <1>1, <2>2, <2>3, <3>1
    <3>3. Entries * j = Entries * WindowIndex + Entries * (j - WindowIndex)
      BY <1>1, <2>2, <2>3
    <3> QED
      BY <1>1, <1>5, <2>2, <2>3, <3>2, <3>3
  <2>5. j = Entries * 0 + j /\ j < Entries
    BY <1>1, <2>2, <2>3, <2>4
  <2>6. j % Entries = j
    BY <1>1, <2>2, <2>5, DivUnique
  <2> QED
    BY <2>1, <2>3, <2>4, <2>6
<1> QED
  BY <1>1, <1>3, <1>4, <1>5 DEF Window

\* The frame of every page under the first entry of the PML4.
LEMMA FramesOfAll ==
    TableInv /\ TlbInv =>
        /\ \A p \in Window : Frame(p) = Entry(WindowPT, p - KernelStart)
        /\ \A p \in (0 .. FirstEntryEnd - 1) \ Window : Frame(p) = BootFrame(p)
<1> SUFFICES ASSUME TableInv, TlbInv
             PROVE  /\ \A p \in Window : Frame(p) = Entry(WindowPT, p - KernelStart)
                    /\ \A p \in (0 .. FirstEntryEnd - 1) \ Window : Frame(p) = BootFrame(p)
  OBVIOUS
<1>1. \A p \in Window : Frame(p) = Entry(WindowPT, p - KernelStart)
  BY Frames, WindowWalks
<1>2. ASSUME NEW p \in (0 .. FirstEntryEnd - 1) \ Window  PROVE Frame(p) = BootFrame(p)
  <2>1. p \notin DOMAIN tlb
    BY DEF TlbInv
  <2>2. Frame(p) = Walk(p)
    BY <2>1 DEF Frame
  <2>3. p \in Nat
    OBVIOUS
  <2>4. ~ (Index(p, 4) = 0 /\ Index(p, 3) = 0 /\ Index(p, 2) = WindowIndex)
    BY OutsideWindow
  <2> QED
    BY <2>2, <2>3, <2>4, Walks DEF BootFrame
<1> QED
  BY <1>1, <1>2

\* Steps write at most one entry.
LEMMA OneEntry ==
    ASSUME [Next]_vars
    PROVE  word' = word \/ \E c, g : word' = Constructed(c, g)
<1>1. CASE UNCHANGED vars
  BY <1>1 DEF vars
<1>2. CASE Next
  <2>1. CASE add_table
    BY <2>1 DEF add_table
  <2>2. CASE map_page
    BY <2>2 DEF map_page
  <2>3. CASE mem_alloc_check_page \/ link \/ descend \/ ask_fis
    BY <2>3 DEF mem_alloc_check_page, link, descend, ask_fis
  <2>4. CASE keep \/ map_registers \/ use_registers \/ map_cmd_list \/ map_fis \/ clear_mapped
    BY <2>4 DEF keep, map_registers, use_registers, map_cmd_list, map_fis, clear_mapped
  <2>5. CASE \E r \in Requests : request(r)
    BY <2>5 DEF request
  <2>6. CASE \E b \in live : mem_free(b)
    BY <2>6 DEF mem_free
  <2> QED
    BY <1>2, <2>1, <2>2, <2>3, <2>4, <2>5, <2>6 DEF Next, Step
<1> QED
  BY <1>1, <1>2

\* For the processor a step gives one page another frame, or none.
LEMMA OnePageMapped ==
    ASSUME IInv, IInv', [Next]_vars
    PROVE  \/ \A p \in LookedAt : Frame(p)' = Frame(p)
           \/ \E p \in LookedAt :
                 /\ Frame(p)' # Frame(p)
                 /\ \E g : Frame(p)' = {g}
                 /\ \A q \in LookedAt : q # p => Frame(q)' = Frame(q)
<1>1. /\ \A p \in Window : Frame(p) = Entry(WindowPT, p - KernelStart)
      /\ \A p \in (0 .. FirstEntryEnd - 1) \ Window : Frame(p) = BootFrame(p)
  BY FramesOfAll DEF IInv
<1>2. TableInv' /\ TlbInv'
  BY DEF IInv
<1>3. /\ \A p \in Window : Frame(p)' = Entry(WindowPT, p - KernelStart)'
      /\ \A p \in (0 .. FirstEntryEnd - 1) \ Window : Frame(p)' = BootFrame(p)
  <2>1. (/\ \A p \in Window : Frame(p) = Entry(WindowPT, p - KernelStart)
         /\ \A p \in (0 .. FirstEntryEnd - 1) \ Window : Frame(p) = BootFrame(p))'
    BY <1>2, FramesOfAll, PTL
  <2>2. \A p : BootFrame(p)' = BootFrame(p)
    BY DEF BootFrame, Index, Reach
  <2> QED
    BY <2>1, <2>2
<1>4. \A p \in LookedAt : p \in Window \/ p \in (0 .. FirstEntryEnd - 1) \ Window
  BY MemoryAssumption
<1>5. CASE word' = word
  <2>1. \A i : Entry(WindowPT, i)' = Entry(WindowPT, i)
    BY <1>5 DEF Entry
  <2> QED
    BY <1>1, <1>3, <1>4, <2>1
<1>6. ASSUME NEW c, NEW g, word' = Constructed(c, g), ~ \A p \in LookedAt : Frame(p)' = Frame(p)
      PROVE  \E p \in LookedAt :
                /\ Frame(p)' # Frame(p)
                /\ \E h : Frame(p)' = {h}
                /\ \A q \in LookedAt : q # p => Frame(q)' = Frame(q)
  <2>1. \A i : <<WindowPT, i>> # c => Entry(WindowPT, i)' = Entry(WindowPT, i)
    BY <1>6, NewEntry DEF Entry
  <2>2. \A i : <<WindowPT, i>> = c => Entry(WindowPT, i)' = {g}
    BY <1>6, NewEntry DEF Entry
  <2>3. PICK p \in LookedAt : Frame(p)' # Frame(p)
    BY <1>6
  <2>4. p \in Window
    BY <1>1, <1>3, <1>4, <2>3
  <2>5. <<WindowPT, p - KernelStart>> = c
    BY <1>1, <1>3, <2>1, <2>3, <2>4
  <2>6. Frame(p)' = {g}
    BY <1>3, <2>2, <2>4, <2>5
  <2>7. ASSUME NEW q \in LookedAt, q # p  PROVE Frame(q)' = Frame(q)
    <3>1. CASE q \in Window
      <4>1. q - KernelStart # p - KernelStart
        BY <2>4, <2>7, <3>1, FiveTables, Sizes
      <4>2. <<WindowPT, q - KernelStart>> # c
        BY <2>5, <4>1
      <4> QED
        BY <1>1, <1>3, <2>1, <3>1, <4>2
    <3>2. CASE q \notin Window
      BY <1>1, <1>3, <1>4, <3>2
    <3> QED
      BY <3>1, <3>2
  <2> QED
    BY <2>3, <2>6, <2>7
<1> QED
  BY <1>5, <1>6, OneEntry

\* As the processor sees it, page_map_PML4 changes the page it is called for and no
\* other: neither the entry nor the table it adds takes a page away.
THEOREM MappingIsLocal == DevicesFit => (Spec => ImplementsAddressSpace)
<1> SUFFICES ASSUME DevicesFit  PROVE Spec => ImplementsAddressSpace
  OBVIOUS
<1>1. Init => Abstract!Init
  <2> SUFFICES ASSUME Init  PROVE Abstract!Init
    OBVIOUS
  <2>1. TableInv /\ TlbInv
    BY InitIInv DEF IInv
  <2>2. ASSUME NEW p \in LookedAt  PROVE Frame(p) \in SUBSET Nat
    <3>1. CASE p \in Window
      <4>1. \E f \in Nat : Frame(p) = {f}
        BY <2>1, <3>1, Frames
      <4> QED
        BY <4>1
    <3>2. CASE p \notin Window
      <4>1. p \in (0 .. FirstEntryEnd - 1) \ Window
        BY <3>2, MemoryAssumption
      <4>2. Frame(p) = BootFrame(p)
        BY <2>1, <4>1, FramesOfAll
      <4>3. p \in Nat
        BY <4>1, Sizes DEF FirstEntryEnd
      <4>4. Index(p, 1) \in Nat
        BY <4>3, Indices, Sizes
      <4> QED
        BY <4>2, <4>4 DEF BootFrame
    <3> QED
      BY <3>1, <3>2
  <2>3. [p \in LookedAt |-> Frame(p)] \in [LookedAt -> SUBSET Nat]
    BY <2>2
  <2> QED
    BY <2>3 DEF Abstract!Init
<1>2. IInv /\ IInv' /\ [Next]_vars => [Abstract!Next]_([p \in LookedAt |-> Frame(p)])
  <2> SUFFICES ASSUME IInv, IInv', [Next]_vars
               PROVE  [Abstract!Next]_([p \in LookedAt |-> Frame(p)])
    OBVIOUS
  <2>1. CASE \A p \in LookedAt : Frame(p)' = Frame(p)
    <3>1. [p \in LookedAt |-> Frame(p)'] = [p \in LookedAt |-> Frame(p)]
      BY <2>1
    <3> QED
      BY <3>1
  <2>2. ASSUME NEW p \in LookedAt, NEW g, Frame(p)' # Frame(p), Frame(p)' = {g},
               \A q \in LookedAt : q # p => Frame(q)' = Frame(q)
        PROVE  Abstract!Next
    <3>1. [q \in LookedAt |-> Frame(q)'] =
            [[q \in LookedAt |-> Frame(q)] EXCEPT ![p] = {g}]
      BY <2>2
    <3>2. Abstract!Map(p, g)
      BY <3>1 DEF Abstract!Map
    <3>3. p \in Abstract!Changed
      BY <2>2 DEF Abstract!Changed
    <3>4. g \in [q \in LookedAt |-> Frame(q)'][p]
      BY <2>2
    <3> QED
      BY <3>2, <3>3, <3>4 DEF Abstract!Next
  <2> QED
    BY <2>1, <2>2, OnePageMapped
<1> QED
  BY <1>1, <1>2, Inductive, PTL DEF Spec, ImplementsAddressSpace, Abstract!Spec
=============================================================================
