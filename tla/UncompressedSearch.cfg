SPECIFICATION Spec
CONSTANTS
    Base = 9
    Lengths = {3, 4}
    RunTypes = {5}
    Letters = {5, 6}
    MinLetters = 2
    MaxLetters = 3
    RunLength = 2
    Types = {5, 7}
    Printable = {4, 5, 6, 7}
    Newline = 3
    MinNames = 3
    Align = 4
    Chunks = 3
    Sizes = {2, 4, 8}
    Kernels <- MCKernels
    MCValues = {5, 9, 10, 20, 27, 81, 82, 83, 90, 101, 182}
INVARIANTS
    TypeOK
    NamesCounted
    LayoutGuessed
    MarkersFound
CHECK_DEADLOCK FALSE
