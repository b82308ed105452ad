\* The boot code's geometry; up to three blocks.
CONSTANTS
    Entries     = 512
    PML4        = 112
    PDPT        = 113
    PD          = 114
    IdentityPT  = 115
    WindowPT    = 118
    KernelLoad  = 13
    KernelStart = 65024
    WindowPages = 512
    KernelEnd   = 266719232
    Backups     <- SpareTables
    Ram         <- LowAndHighRam
    Occupied    <- TablesAndHole
    FreeSets    <- Pools
    Adapters    <- Firmwares
    Requests    <- KernelRequests
    LookedAt    <- PagesToSee
    MaxBlocks   = 3
    MaxDepth    = 12
SPECIFICATION Spec
INVARIANTS
    TypeOK
    TraceIsFrame
    OwnMemory
    ListReached
    FaultsBehindWindow
PROPERTIES
    ImplementsAddressSpace
    CallsEnd
CHECK_DEADLOCK FALSE
