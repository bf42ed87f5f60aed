SPECIFICATION Spec
CONSTANTS
    Base = 4
    Ptr = 4
    StartAlign = 2
    RelType = 7
    MinCount = 2
    MinVA = 128
    Page = 16
    GuessAlign = 8
    Inputs <- MCInputs
    MCBlocks = 4
PROPERTY
    Returns
CHECK_DEADLOCK FALSE
