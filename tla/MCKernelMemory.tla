--------------------------- MODULE MCKernelMemory ---------------------------
(* KernelMemory with the addresses of the boot code and a kernel whose heap *)
(* starts six pages below the page tables, as with 8 GB of RAM.            *)
EXTENDS KernelMemory

R(size, align, use) == [size |-> size, align |-> align, use |-> use]

SpareTables == [l \in 2 .. 4 |-> 65048 - 2 * l]

\* Firmware keeps the last 112 KB of low memory.
LowAndHighRam == (0 .. 131) \cup (256 .. 600)

TablesAndHole == {112, 113, 114, 115, 118} \cup (160 .. 255)

Adapter(clb, clb_offset, fis, fis_offset) ==
    [registers |-> 1043441, clb |-> clb, clb_offset |-> clb_offset,
     fis |-> fis, fis_offset |-> fis_offset]

\* Structures on pages of their own, and both in one page of RAM.
Firmwares == {Adapter(262110, 0, 262111, 0), Adapter(599, 1024, 599, 2048)}

\* So many frames that a first block behind the window gets its pages; or none,
\* so that those the driver frees are the first to be granted again.
Pools == [a \in Firmwares |-> IF a.clb \in LowAndHighRam THEN {{}} ELSE {0 .. 6}]

\* The kernel's own requests: pci.c:49, ahci.c:16-17, 25, 58, 140, 145 and 171.
\* Then one that ends between the page tables, one that fills the window but for
\* its last page, and aligned ones that lead to its end with a gap in front,
\* across the first table behind it, and into the next directory.
KernelRequests ==
    {R(8, 0, "devices"), R(4096, 4096, "registers"), R(4096, 4096, "clb"),
     R(8192, 65536, "keep"), R(8, 0, "keep"), R(288, 0, "keep"), R(256, 256, "keep"),
     R(45056, 0, "keep"), R(1708032, 0, "keep"),
     R(8, 268427264, "keep"), R(8192, 270528512, "keep"), R(8, 1073741824, "keep")}

\* Around the heap, under the first table, at both ends of the window, behind it.
PagesToSee == (65117 .. 65123) \cup {0, 112, 65534, 65535, 65536, 66047, 66048, 262144}
=============================================================================
