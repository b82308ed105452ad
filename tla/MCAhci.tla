------------------------------- MODULE MCAhci -------------------------------
(* Ahci on two small controllers.                                          *)
EXTENDS Ahci

\* The first has drives at both ports; the second has nothing at port 0, where
\* the read looks, and its drive at port 1.
TwoControllers == [d \in Disks |-> IF d = 1 THEN {0, 1} ELSE {1}]

TwoTypes ==
    [id \in PortIds |->
        IF id \in {<<1, 0>>, <<1, 1>>, <<2, 1>>} THEN DEV_SATA ELSE DEV_NULL]

\* Every structure has a page of its own.
Apart ==
    [id \in PortIds |-> LET page == 2 * (id[1] * (NPorts + 1) + id[2])
                        IN  [list |-> <<page, 0>>, fis |-> <<page + 1, 0>>]]

\* All command lists in one page, the ports with the higher numbers in front,
\* and the FIS areas in another.
Shared ==
    [id \in PortIds |-> [list |-> <<0, 1024 * (2 - id[2])>>,
                         fis  |-> <<1, 256 * (3 * id[1] + id[2])>>]]

TwoLayouts == {Apart, Shared}
=============================================================================
