SPECIFICATION Spec
CONSTANTS
    None = None
    Categories <- MCCategories
    CategoryRange <- MCCategoryRange
    RecordRange <- MCRecordRange
    MaxLength = 2
    Definitions <- MCDefinitions
INVARIANTS
    IndexesArePlaced
    SubindicesArePlaced
    ArtifactsListEveryEntry
    FailureIsJustified
    DiagnosticExplainsIndex
CHECK_DEADLOCK FALSE
