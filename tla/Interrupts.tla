----------------------------- MODULE Interrupts -----------------------------
(***************************************************************************)
(* How the kernel comes up and is interrupted: main (kernel.c), the IDT    *)
(* (cpu/idt.c), the interrupt controllers as main sets them up             *)
(* (cpu/pic.c), the timer's handler (cpu/timer.c, cpu/timer-isr.s), the    *)
(* default handler (cpu/idt-isr.s) and those for exceptions                *)
(* (cpu/exception.isr.c).                                                  *)
(*                                                                         *)
(* The processor and the pair of interrupt controllers are external and    *)
(* modelled as far as this code relies on them.                            *)
(***************************************************************************)
EXTENDS Integers, Sequences

CONSTANTS
    IRQs,           \* lines of the controllers that devices use
    FirmwareMasks,  \* the masks the firmware may have left
    Faults,         \* exceptions main may run into
    SCREEN_HIGHT    \* 19, the number of the console's last row

ASSUME InterruptsAssumption ==
    /\ IRQs \subseteq 0 .. 15
    /\ FirmwareMasks \subseteq SUBSET IRQs
    /\ Faults \subseteq 0 .. 31
    /\ SCREEN_HIGHT \in Nat

VARIABLES
    pc,             \* the part of main that comes next
    cur_Y,          \* the console's row
    IDT,            \* vector -> handler
    IF_flag,        \* interrupts are enabled
    running,        \* what is being executed, what it interrupted before it
    pic_base,       \* vectors of IRQ 0 and IRQ 8
    imr, irr, isr,  \* masked, requested and not yet acknowledged IRQs
    old_mask,       \* ghost: what the firmware masked
    last            \* the last IRQ the processor took, and its handler

pic == <<pic_base, imr, irr, isr>>
vars == <<pc, cur_Y, IDT, IF_flag, running, pic, old_mask, last>>

Vectors == 0 .. 255
Handlers == {"none", "idt_isr_default", "exceptionISR", "syscounter_isr"}
Parts == {"screen", "pic", "idt", "exceptions", "timer", "sti", "work", "done"}

SYSCOUNTER_IDTE == 32
PicBases == <<32, 40>>

\* The vectors main gives an exception handler of their own.
ExceptionVectors == (0 .. 8) \cup (10 .. 14) \cup (16 .. 21) \cup (28 .. 30)

TypeOK ==
    /\ pc \in Parts
    /\ cur_Y \in 0 .. SCREEN_HIGHT
    /\ IDT \in [Vectors -> Handlers]
    /\ IF_flag \in BOOLEAN
    /\ running \in Seq(Handlers \cup {"main", "while(1)"})
    /\ Len(running) \in 1 .. 3
    /\ pic_base \in Vectors \X Vectors
    /\ {imr, irr, isr, old_mask} \subseteq SUBSET IRQs
    /\ last \in [irq : IRQs \cup {-1}, handler : Handlers]

\* The boot code leaves the controllers as the BIOS uses them.
KernelInit ==
    /\ pc = "screen"
    /\ cur_Y = 0
    /\ IDT = [v \in Vectors |-> "none"]
    /\ running = <<"main">>
    /\ pic_base = <<8, 112>>
    /\ imr \in FirmwareMasks
    /\ old_mask = imr
    /\ irr = {}
    /\ isr = {}
    /\ last = [irq |-> -1, handler |-> "none"]

\* It disabled interrupts.
Init == KernelInit /\ IF_flag = FALSE

Top == running[Len(running)]

-----------------------------------------------------------------------------
(* main.                                                                   *)

\* Mutant: the test for the last row is left out.
PrintLine_NoScroll == cur_Y' = cur_Y + 1 /\ UNCHANGED IF_flag

\* A line is printed; in the last row screenUp is called, and its sti
\* enables the interrupts.
PrintLine ==
    IF cur_Y + 1 > SCREEN_HIGHT
    THEN UNCHANGED cur_Y /\ IF_flag' = TRUE
    ELSE cur_Y' = cur_Y + 1 /\ UNCHANGED IF_flag

Part(name, following) ==
    /\ Top = "main"
    /\ pc = name
    /\ pc' = following

setup_screen ==
    /\ Part("screen", "pic")
    /\ PrintLine
    /\ UNCHANGED <<IDT, running, pic, old_mask, last>>

\* Mutant: the vectors of the BIOS are kept.
pic_remap_Forgotten ==
    /\ Part("pic", "idt")
    /\ PrintLine
    /\ UNCHANGED <<IDT, running, pic, old_mask, last>>

\* Mutant: the masks are not restored.
pic_remap_Unmasked ==
    /\ Part("pic", "idt")
    /\ pic_base' = PicBases
    /\ imr' = {}
    /\ isr' = {}
    /\ irr' = {}
    /\ PrintLine
    /\ UNCHANGED <<IDT, running, old_mask, last>>

\* The command to initialise them makes the controllers forget what was
\* requested and in service, and their masks; these are restored.
pic_remap ==
    /\ Part("pic", "idt")
    /\ pic_base' = PicBases
    /\ isr' = {}
    /\ irr' = {}
    /\ UNCHANGED imr
    /\ PrintLine
    /\ UNCHANGED <<IDT, running, old_mask, last>>

\* idt_set: the gate of a vector leads to a handler.
idt_set(handler, v) == IDT' = [IDT EXCEPT ![v] = handler]

idt_init ==
    /\ Part("idt", "exceptions")
    /\ IDT' = [v \in Vectors |-> "idt_isr_default"]
    /\ PrintLine
    /\ UNCHANGED <<running, pic, old_mask, last>>

\* Every exception but the reserved ones gets its own.
set_exceptions ==
    /\ Part("exceptions", "timer")
    /\ IDT' = [v \in Vectors |-> IF v \in ExceptionVectors THEN "exceptionISR" ELSE IDT[v]]
    /\ UNCHANGED <<cur_Y, IF_flag, running, pic, old_mask, last>>

\* Mutant: interrupts are enabled before the handler is set.
syscounter_init_Late ==
    /\ Part("timer", "sti")
    /\ PrintLine
    /\ UNCHANGED <<IDT, running, pic, old_mask, last>>

syscounter_init ==
    /\ Part("timer", "sti")
    /\ idt_set("syscounter_isr", SYSCOUNTER_IDTE)
    /\ PrintLine
    /\ UNCHANGED <<running, pic, old_mask, last>>

enable_irqs ==
    /\ Part("sti", "work")
    /\ IF_flag' = TRUE
    /\ UNCHANGED <<cur_Y, IDT, running, pic, old_mask, last>>

\* Everything main does afterwards, a line at a time, for ever or until one of
\* its endless loops, the one at its end or an earlier one.
work ==
    /\ Part("work", "work") \/ Part("work", "done")
    /\ PrintLine
    /\ UNCHANGED <<IDT, running, pic, old_mask, last>>

Main ==
    \/ setup_screen \/ pic_remap \/ idt_init \/ set_exceptions
    \/ syscounter_init \/ enable_irqs \/ work

-----------------------------------------------------------------------------
(* Interrupts and exceptions.                                              *)

Vector(irq) == IF irq < 8 THEN pic_base[1] + irq ELSE pic_base[2] + irq - 8

raise(irq) ==
    /\ irq \notin irr
    /\ irr' = irr \cup {irq}
    /\ UNCHANGED <<pc, cur_Y, IDT, IF_flag, running, pic_base, imr, isr, old_mask, last>>

\* The processor takes a request no unacknowledged one holds back.  Its gate
\* disables interrupts.
interrupt(irq) ==
    /\ IF_flag
    /\ irq \in irr \ imr
    /\ \A i \in isr : irq < i
    /\ irr' = irr \ {irq}
    /\ isr' = isr \cup {irq}
    /\ IF_flag' = FALSE
    /\ running' = Append(running, IDT[Vector(irq)])
    /\ last' = [irq |-> irq, handler |-> IDT[Vector(irq)]]
    /\ UNCHANGED <<pc, cur_Y, IDT, pic_base, imr, old_mask>>

\* Mutant: the interrupt is not acknowledged.
Acknowledged_Nothing == isr

\* The end of interrupt the handler sends to the first controller.
Acknowledged == {i \in isr : \E j \in isr : j < i}

\* Mutant: the handler loops at its end, as the others do.
syscounter_isr_NoReturn ==
    /\ Top = "syscounter_isr"
    /\ isr' = Acknowledged
    /\ UNCHANGED <<pc, cur_Y, IDT, IF_flag, running, pic_base, imr, irr, old_mask, last>>

\* The timer's handler; iretq enables the interrupts again.
syscounter_isr ==
    /\ Top = "syscounter_isr"
    /\ isr' = Acknowledged
    /\ running' = SubSeq(running, 1, Len(running) - 1)
    /\ IF_flag' = TRUE
    /\ UNCHANGED <<pc, cur_Y, IDT, pic_base, imr, irr, old_mask, last>>

\* An exception goes through its gate.  Before idt_init there is none and the
\* processor resets: left out.
fault(v) ==
    /\ Top = "main"
    /\ IDT[v] # "none"
    /\ running' = Append(running, IDT[v])
    /\ IF_flag' = FALSE
    /\ UNCHANGED <<pc, cur_Y, IDT, pic, old_mask, last>>

\* A handler prints its message, then loops.  A message that reaches the end
\* of a row goes on in the next; behind the last row it scrolls, which enables
\* the interrupts again.
exceptionISR ==
    /\ Top = "exceptionISR"
    /\ \/ PrintLine
       \/ UNCHANGED <<cur_Y, IF_flag>>
    /\ running' = [running EXCEPT ![Len(running)] = "while(1)"]
    /\ UNCHANGED <<pc, IDT, pic, old_mask, last>>

\* idt_isr_default colours the screen and loops with interrupts disabled:
\* no action of its own.
Next ==
    \/ Main
    \/ \E irq \in IRQs : raise(irq) \/ interrupt(irq)
    \/ syscounter_isr
    \/ \E v \in Faults : fault(v)
    \/ exceptionISR

\* The processor executes and takes interrupts.  The timer's period is far
\* longer than its handler, so main executes between two ticks.  Nothing says
\* that its last part ends: main may print and be interrupted there for ever.
Fairness ==
    /\ SF_vars(Main)
    /\ WF_vars(syscounter_isr)
    /\ \A irq \in IRQs : WF_vars(interrupt(irq))

Spec == Init /\ [][Next]_vars /\ Fairness

-----------------------------------------------------------------------------
(* Properties.                                                             *)

\* The kernel waits for nothing any more: an interrupt nobody handles, or an
\* exception.
Stopped == \E i \in DOMAIN running : running[i] \in {"idt_isr_default", "exceptionISR", "while(1)"}

\* A tick of the timer is never taken for an exception (IRQ 0 is vector 8 in
\* the BIOS's layout) and never meets an IDT that is not ready, although each
\* scrolled line enables the interrupts: before enable_irqs main does not
\* print enough lines to scroll.
TickGoesToTimer ==
    last.irq = 0 => last.handler = "syscounter_isr"

\* A device the firmware masked never interrupts the kernel, although the
\* remapping makes the controllers forget their masks.
MaskedStaysQuiet == last.irq \notin old_mask

\* Every tick that is requested is served, as long as the kernel has not
\* stopped: the handler acknowledges, and returns with interrupts enabled.
TicksServed ==
    0 \in irr \ imr /\ pc \in {"work", "done"} ~> 0 \notin irr \/ Stopped
=============================================================================
