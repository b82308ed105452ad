\* Three buses of four slots, eight numbers tried on each; room for four.
CONSTANTS
    BusCount      = 3
    SlotCount     = 8
    SlotsPerBus   = 4
    DISK_MAX_AHCI = 4
    Machines      <- EveryMachine
SPECIFICATION Spec
INVARIANTS
    TypeOK
    TableFull
    FunctionZeroFound
    BusZeroOnce
PROPERTY SearchEnds
CHECK_DEADLOCK FALSE
