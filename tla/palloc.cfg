\* Callers ask for runs of one or three pages and give them back in any order.
\* An image of 3 pages fits; behind one of 37 the table runs over the boot page
\* tables, one of 70 ends behind its RAM entry and one of 77
\* behind the window the boot code maps.
CONSTANTS
    memorymap    <- MapReservedTop
    PageBytes    = 8
    KernelLoad   = 2
    ImagePages   = {3, 37, 70, 77}
    WindowPages  = 80
    BootTables   = {40, 41}
    StrayBits    = {3}
    RequestSizes = {1, 3}
    ForeignFrames = {1, 70}
SPECIFICATION Spec
INVARIANTS
    TypeOK
    NoDoubleGrant
    KernelNeverGranted
    GrantedIsRam
    TableExact
PROPERTY ImplementsFrameAllocator
CHECK_DEADLOCK FALSE
