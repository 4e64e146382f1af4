SPECIFICATION Spec
CONSTANTS
    Namespaces = {"PressureSensor", "CANoopEn"}
    BadNamespaces = {"pressure-sensor"}
    MaxVersion = 2
INVARIANTS
    BothOdFilesWereWritten
