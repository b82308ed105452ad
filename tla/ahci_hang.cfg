\* Two controllers of two ports, two slots; a port is hung after two polls.
CONSTANTS
    disk_count    = 2
    NPorts        = 2
    Implemented   <- TwoControllers
    PortType      <- TwoTypes
    NSlots        = 2
    TablesPerPage = 2
    SpinLimit     = 2
    Layouts       <- TwoLayouts
SPECIFICATION Spec
PROPERTY ReadReturns
CHECK_DEADLOCK FALSE
