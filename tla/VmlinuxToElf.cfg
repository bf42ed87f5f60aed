SPECIFICATION ProgramSpec
CONSTANTS
    WordLimit = 16
    Page = 2
    EntryPoints <- MCEntryPoints
    Inputs <- MCInputs
    Enough = 2
    HeaderSize = 4
    Calls <- MCCalls
    MCSize = 3
    MCTop = 6
INVARIANTS
    TypeOK
    SymbolsInTheirSections
    RawKernelIsMapped
    ProgramTypeOK
    StatusTellsOutput
    BasesAgree
    LayoutKnown

    
CHECK_DEADLOCK FALSE
