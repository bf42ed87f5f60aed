SPECIFICATION KallsymsSpec
CONSTANTS
    Base = 14
    Zero = 2
    Nine = 3
    LastLetter = 9
    Alnum <- MCAlnum
    Avoid <- MCAvoid
    TokenCount = 14
    MaxToken = 8
    TableAlign = 4
    IndexPadding = 8
    Sizes <- MCSizes
    Attempts = 4
    MinGap = 4
    MaxGap = 14
    MaxMarkers = 6
    Every = 2
    Kernels <- MCKernels
    Types <- MCTypes
    MinSyms = 2
    PadWindow = 8
    NeedleWindow = 16
    NamesStep = 4
INVARIANTS
    KallsymsTypeOK
    WrongTableRefused
PROPERTIES
    TableLocated
    NamesFound
CHECK_DEADLOCK FALSE
