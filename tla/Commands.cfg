SPECIFICATION Spec
CONSTANTS
    None = None
    Modules <- MCModules
    InvalidNames = {}
    Params = {none}
    NoParams = none
    PyClass <- MCPyClass
    Sources <- MCSources
    Sessions <- MCSessions
INVARIANTS
    SummaryTellsEveryFile
    ValidationPredictsCommands
CHECK_DEADLOCK FALSE
