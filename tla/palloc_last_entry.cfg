\* RAM is the last entry of the map, the memory behind the table may be ones.
CONSTANTS
    memorymap    <- MapRamTop
    PageBytes    = 8
    KernelLoad   = 2
    ImagePages   = {3}
    WindowPages  = 80
    BootTables   = {40, 41}
    StrayBits    = {64, 65, 66}
    RequestSizes = {3}
    ForeignFrames = {}
SPECIFICATION Spec
INVARIANT GrantedHasBit
CHECK_DEADLOCK FALSE
