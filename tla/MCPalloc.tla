------------------------------ MODULE MCPalloc ------------------------------
(* Palloc on maps that are small but of the shape SeaBIOS reports.         *)
EXTENDS Palloc

RAM == 1
RES == 2

Entry(b, n, t) == [base |-> b, pages |-> n, type |-> t]

\* Low RAM, a hole, high RAM, a reserved top.  Of the 68 and 64 pages
\* mem_palloc scans 8 each; the 4 pages behind the 64th have no byte.
MapReservedTop ==
    <<Entry(0, 68, RAM), Entry(68, 12, RES), Entry(80, 64, RAM), Entry(144, 4, RES)>>

\* The same with the high RAM last, as on a machine with RAM above 4 GB.
MapRamTop ==
    <<Entry(0, 68, RAM), Entry(68, 12, RES), Entry(80, 64, RAM)>>
=============================================================================
