SPECIFICATION Spec
CONSTANTS
    Long = 8
    NullShare = 2
    Inputs <- MCInputs
    MCSymbols = 3
INVARIANTS
    TypeOK
PROPERTIES
    AddressesRecovered
CHECK_DEADLOCK FALSE
