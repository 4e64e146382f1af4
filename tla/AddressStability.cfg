SPECIFICATION StabilitySpec
CONSTANTS
    None = None
    NewItems <- MCNewItems
    InputRanges <- MCInputRanges
    InputItems <- MCInputItems
INVARIANTS
    OrderIsIrrelevant
    PinningMovesNothing
    AddingMovesForward
CHECK_DEADLOCK FALSE
