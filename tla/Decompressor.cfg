SPECIFICATION Spec
CONSTANTS
    Formats <- MCFormats
    Streams <- MCStreams
    Nesting <- MCNesting
    Files <- MCFiles
    MCBlocks = 3
INVARIANTS
    TypeOK
    KernelTaken
    BlocksWhole
CHECK_DEADLOCK FALSE
