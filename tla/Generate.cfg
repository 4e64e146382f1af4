SPECIFICATION BuildSpec
CONSTANTS
    Namespaces = {"PressureSensor", "CANoopEn"}
    BadNamespaces = {"pressure-sensor"}
    MaxVersion = 3
INVARIANTS
    TypeOK
    SuccessIsComplete
    OlderFilesComeLater
    FailureLeaves
    UpToDateIsCurrent
PROPERTIES
    RunsEnd
CHECK_DEADLOCK FALSE
