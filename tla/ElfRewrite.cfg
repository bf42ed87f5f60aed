SPECIFICATION RewriteSpec
CONSTANTS
    EhSize = 6
    ShEntSize = 4
    PhEntSize = 5
    SymSize = 3
    RelSize = 2
    GnuVersion <- MCGnuVersion
    Objects <- MCObjects
    SpecialIndexes = {0, 99}
    Symtab <- MCSymtab
    Strtab <- MCStrtab
    Shstrtab <- MCShstrtab
    RelaDyn <- MCRelaDyn
    Kernels <- MCKernels
    Found <- MCFound
    FoundRelocations <- MCFoundRelocations
    MCSymbols = 2
INVARIANTS
    TypeOK
    NothingOverwritten
    NamesReadBack
    SymbolsKeepSections
    RelocationsKeepSymbols
    SegmentsHoldSections
    OutputReadable
CHECK_DEADLOCK FALSE
