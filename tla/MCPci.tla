------------------------------- MODULE MCPci -------------------------------
(* Pci on machines with every selection of a few devices. *)
EXTENDS Pci

D(bus, slot, func, ahci) == [bus |-> bus, slot |-> slot, func |-> func, ahci |-> ahci]

\* Controllers and other devices on each bus.  One controller is function 2 of
\* a device whose function 0 is something else, or missing.
Board == {D(0, 0, 0, FALSE), D(0, 0, 2, TRUE), D(0, 1, 0, TRUE), D(0, 3, 0, TRUE),
          D(1, 2, 0, TRUE), D(2, 0, 0, FALSE), D(2, 1, 0, TRUE), D(1, 0, 0, FALSE)}

EveryMachine == SUBSET Board
=============================================================================
