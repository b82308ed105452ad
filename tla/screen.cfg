\* Three rows of two characters: wrapping and scrolling after a few of them.
CONSTANTS
    SCREEN_WIDTH = 2
    SCREEN_HIGHT = 2
    a            = a
    Blank        = Blank
    Firmware     = Firmware
    Spinner      = Spinner
    Chars        <- TwoChars
SPECIFICATION Spec
INVARIANTS
    TypeOK
    SpinnerStays
PROPERTY TerminalButTwoSteps
