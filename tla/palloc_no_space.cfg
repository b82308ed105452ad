\* Requests of three pages on a machine with 2 * 64 pages of RAM.
CONSTANTS
    memorymap    <- MapReservedTop
    PageBytes    = 8
    KernelLoad   = 2
    ImagePages   = {3}
    WindowPages  = 80
    BootTables   = {40, 41}
    StrayBits    = {130}
    RequestSizes = {3}
    ForeignFrames = {}
SPECIFICATION Spec
INVARIANT NoSpaceMeansFull
CHECK_DEADLOCK FALSE
