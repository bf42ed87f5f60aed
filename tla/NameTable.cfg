SPECIFICATION Spec
CONSTANTS
    Half = 2
    StepBack = 2
    MinSyms = 2
    PadWindow = 1
    NeedleWindow = 2
    Inputs <- MCInputs
    MCMarkers = 8
    MCEstimates = {6}
INVARIANTS
    TypeOK
    DecoderStaysInTable
    DecoderEndsAtTerminator
PROPERTIES
    ImplementsSearch
    Termination
CHECK_DEADLOCK FALSE
