SPECIFICATION Spec
CONSTANTS
    none = none
    one = one
    true = true
    Modules <- MCModules
    InvalidNames = {5}
    Params = {none, one, true}
    NoParams = none
    PyClass <- MCPyClass
    Projects <- MCProjects
INVARIANTS
    RegisteredOnce
    DependencyFirst
    ResolvesExactlySoundProjects
    ConfigurationsAgree
PROPERTIES
    Terminates
CHECK_DEADLOCK FALSE
