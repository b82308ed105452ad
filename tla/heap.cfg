\* The kernel's own requests, up to four blocks in five mapped pages.
CONSTANTS
    KernelEnd    = 266407936
    WindowEnd    = 266428416
    Requests     <- KernelRequests
    BadAddresses = {4096, 8192}
    MaxBlocks    = 4
SPECIFICATION Spec
INVARIANTS
    TypeOK
    NoOverlap
    ListSound
    TailPerBlock
PROPERTIES
    FreeFindsBlocks
    ImplementsBlockAllocator
CHECK_DEADLOCK FALSE
