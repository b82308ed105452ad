------------------------------- MODULE Startup -------------------------------
(***************************************************************************)
(* The machine from the boot sector into main: Boot hands the processor    *)
(* over to the kernel of Interrupts.  They share the interrupt flag: the   *)
(* boot sector enabled interrupts for the BIOS, the kernel needs them      *)
(* disabled until its controllers and its IDT are set up.                  *)
(***************************************************************************)
EXTENDS Interrupts

CONSTANTS SectorsPerTrack, MaxResets, Shortfalls, MapLengths, Processors

VARIABLES stage, part, resets, memory, cpu, map_length, ebx, edi, places, MEMORYMAP_CNT

boot == <<stage, part, resets, memory, cpu, map_length, ebx, edi, places, MEMORYMAP_CNT>>
machine == <<boot, vars>>

Boot == INSTANCE Boot

ASSUME StartupAssumption == Boot!BootAssumption

\* Interrupts before the kernel runs are the BIOS's own: what it leaves is in
\* KernelInit.
StartupInit == Boot!Init /\ KernelInit

BootStep ==
    /\ Boot!Next
    /\ UNCHANGED <<pc, cur_Y, IDT, running, pic, old_mask, last>>

\* A step of the kernel, its devices or its handlers.
InKernel(A) == stage = "kernel" /\ A /\ UNCHANGED boot

StartupNext == BootStep \/ InKernel(Next)

\* The fairness of Boot, and that of Interrupts once the kernel runs.
StartupFairness ==
    /\ WF_machine(BootStep)
    /\ SF_machine(InKernel(Main))
    /\ WF_machine(InKernel(syscounter_isr))
    /\ \A irq \in IRQs : WF_machine(InKernel(interrupt(irq)))

StartupSpec == StartupInit /\ [][StartupNext]_machine /\ StartupFairness

-----------------------------------------------------------------------------
(* Properties.                                                             *)

\* Both parts keep their state in its ranges.
StartupTypeOK == Boot!TypeOK /\ TypeOK

\* The image the kernel runs from is complete.
ImageWhole == Boot!ImageWhole

\* The memory map it reads is one the firmware wrote.
MapCounted == Boot!MapCounted

\* Starting up ends: the machine gets to the part of main behind enable_irqs
\* (kernel.c:81) unless it stops before, the boot code with a letter on the
\* screen or a reboot, the kernel in a handler that does not return.  Retries of
\* the drive and repeated calls of the firmware do not keep it busy.  What main
\* does then need not end: ahci.c:92, 100 and 311 may wait for ever.
StartupEnds == <>(stage \in {"halted", "rebooted"} \/ pc \in {"work", "done"} \/ Stopped)
=============================================================================
