SPECIFICATION Spec
CONSTANTS
    None = None
    MaxItems = 3
    InputRanges <- MCInputRanges
    InputItems <- MCInputItems
INVARIANTS
    TypeOK
    NoSharedAddress
    ExplicitPriority
    ProbeChain
    ExhaustedOnlyWhenFull
    ResultIsTheOnlyPlacement
PROPERTIES
    Terminates
    ImplementsAddressMap
CHECK_DEADLOCK FALSE
