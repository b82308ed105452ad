------------------------------ MODULE PageMap ------------------------------
(***************************************************************************)
(* The page tables, kernel/src/code/mem/page_map.c, as boot/PM/kernel-PM.s *)
(* leaves them and as the kernel and the processor read them.              *)
(*                                                                         *)
(* Addresses are counted in pages.  Memory is looked at as words: a word   *)
(* that is a present entry is the page number stored in it.  The processor *)
(* takes that number for a frame; page_map.c takes it for a linear page    *)
(* and so reads the next table through the mapping itself.                 *)
(* "The frame of a page" is a set throughout: {} if there is none.         *)
(***************************************************************************)
EXTENDS Integers

CONSTANTS
    Entries,        \* entries of a table, 512
    PML4, PDPT, PD, IdentityPT, WindowPT,   \* frames of the boot code's tables
    KernelLoad,     \* frame at which the boot code puts the kernel
    KernelStart     \* linear page of KERNEL_START

WindowIndex == (KernelStart \div Entries) % Entries

TableFrames == {PML4, PDPT, PD, IdentityPT, WindowPT}

\* The boot code needs no more than the first entries of PML4 and PDPT, and
\* its tables lie one above the other where it maps linear pages to themselves.
ASSUME PageMapAssumption ==
    /\ Entries \in Nat \ {0, 1}
    /\ KernelLoad \in Nat
    /\ KernelStart \in Nat /\ KernelStart % Entries = 0
    /\ KernelStart < Entries * Entries /\ WindowIndex # 0
    /\ TableFrames \subseteq 0 .. Entries - 1
    /\ PML4 < PDPT /\ PDPT < PD /\ PD < IdentityPT /\ IdentityPT < WindowPT

VARIABLES
    word,           \* the entries written since boot: <<frame, index>> -> the
                    \* page in it if it is present
    backup,         \* page_pml4_backup, page_pdpt_backup, page_pd_backup by
                    \* level 4, 3, 2: the linear page for the next new table
    tlb             \* translations the processor keeps; nothing invalidates
                    \* one, and the longest kept ones are the worst

-----------------------------------------------------------------------------
\* The frames behind the window, linear page by linear page.
WindowFrame(p) == KernelLoad + (p - KernelStart)

\* Mutant: nothing is mapped at address 0.
BootEntry_NoNull(f, i) ==
    CASE f = PML4 /\ i = 0         -> {PDPT}
      [] f = PDPT /\ i = 0         -> {PD}
      [] f = PD /\ i = 0           -> {IdentityPT}
      [] f = PD /\ i = WindowIndex -> {WindowPT}
      [] f = IdentityPT /\ i > 0   -> {i}
      [] f = WindowPT              -> {KernelLoad + i}
      [] OTHER                     -> {}

\* What the boot code wrote.  An assumption is in OTHER: memory nobody wrote
\* holds no present entry.  The boot code clears or fills its own tables, but
\* nothing clears those of page_map.c:102, 109 and 116, so this is about what
\* the firmware left in RAM.
BootEntry(f, i) ==
    CASE f = PML4 /\ i = 0         -> {PDPT}
      [] f = PDPT /\ i = 0         -> {PD}
      [] f = PD /\ i = 0           -> {IdentityPT}
      [] f = PD /\ i = WindowIndex -> {WindowPT}
      [] f = IdentityPT            -> {i}
      [] f = WindowPT              -> {KernelLoad + i}
      [] OTHER                     -> {}

\* The page a present entry i of the table in frame f refers to.
Entry(f, i) == IF <<f, i>> \in DOMAIN word THEN word[<<f, i>>] ELSE BootEntry(f, i)

\* The pages an entry of a table stands for, by the level of the table.
Reach(level) ==
    CASE level = 1 -> 1
      [] level = 2 -> Entries
      [] level = 3 -> Entries * Entries
      [] level = 4 -> Entries * Entries * Entries

\* The index of linear page p in a table of level 4 (PML4) to 1 (PT).
Index(p, level) == (p \div Reach(level)) % Entries

-----------------------------------------------------------------------------
\* The processor follows the entry to a frame.
Below(fs, i) == UNION {Entry(f, i) : f \in fs}

Walk(p) ==
    Below(Below(Below(Below({PML4}, Index(p, 4)), Index(p, 3)), Index(p, 2)), Index(p, 1))

\* The frame an access to page p reaches; it faults if there is none.
Frame(p) == IF p \in DOMAIN tlb THEN {tlb[p]} ELSE Walk(p)

\* Software follows it to a linear page, which it reads as a program does.
BelowPage(ts, i) == Below(UNION {Frame(t) : t \in ts}, i)

\* page_trace_PML4; no frame stands for the return values 1 to 4.
page_trace_PML4(p) ==
    BelowPage(BelowPage(BelowPage(BelowPage({PML4}, Index(p, 4)), Index(p, 3)), Index(p, 2)), Index(p, 1))

\* Accesses to these pages bring them into the tlb.
Cached(ps) == [p \in DOMAIN tlb \cup ps |-> CHOOSE f \in Frame(p) : TRUE]

-----------------------------------------------------------------------------
(* page_map_PML4, one level at a time.                                     *)

\* Where page_map_PML4 looks for the entry of page p, in the table at linear
\* page t.  At the top it takes an index eight times as high; one behind the
\* table meets the frames behind it.
Cell(t, p, level) ==
    LET f == CHOOSE g \in Frame(t) : TRUE
        i == IF level = 4 THEN 8 * Index(p, 4) ELSE Index(p, level)
    IN  <<f + i \div Entries, i % Entries>>

Present(c) == Entry(c[1], c[2])

\* Mutant: the entry is constructed whether it was present or not.
Missing_Always(c) == TRUE

\* A table has to be added below this entry.
Missing(c) == Present(c) = {}

\* Mutant: the present bit is left to the caller's flags.
Constructed_NotPresent(c, page) == [d \in DOMAIN word \cup {c} |-> IF d = c THEN {} ELSE word[d]]

\* page_construct_PML4_E, _PDPT_E, _PD_E and _PT_E.
Constructed(c, page) == [d \in DOMAIN word \cup {c} |-> IF d = c THEN {page} ELSE word[d]]

BootInit(backups) ==
    /\ word = [c \in {} |-> {}]
    /\ backup = backups
    /\ tlb = [p \in {} |-> 0]
=============================================================================
