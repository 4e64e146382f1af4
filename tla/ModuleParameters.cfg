SPECIFICATION Spec
CONSTANTS
    none = none
    one = one
    true = true
    Modules <- MCModules
    InvalidNames = {5}
    Params = {none, one, true}
    NoParams = none
    PyClass <- MCPyClass
    Projects <- MCProjects
INVARIANTS
    DiamondsNeverChoose
CHECK_DEADLOCK FALSE
