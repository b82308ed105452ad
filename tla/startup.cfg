\* The image's real parts in the BIOS's geometry, three attempts to reset the
\* drive, reads that miss a sector, some or all; a map of three entries.
\* Timer, keyboard and IDE lines under every firmware mask; a page fault.
CONSTANTS
    SectorsPerTrack = 63
    MaxResets       = 3
    Shortfalls      = {0, 1, 63}
    MapLengths      = {3}
    Processors      = {"no leaf", "32 bit", "64 bit"}
    IRQs          = {0, 1, 14}
    FirmwareMasks <- AnyMask
    Faults        = {14}
    SCREEN_HIGHT  = 19
SPECIFICATION StartupSpec
INVARIANTS
    StartupTypeOK
    ImageWhole
    MapCounted
    TickGoesToTimer
    MaskedStaysQuiet
PROPERTIES
    TicksServed
    StartupEnds
CHECK_DEADLOCK FALSE
