SPECIFICATION SymbolsSpec
CONSTANTS
    Primitives <- MCPrimitives
    Structural <- MCStructural
    Graphs <- MCGraphs
    Pascal <- MCPascal
INVARIANTS
    LoweringFollowsBases
    EnumsFitTheirStorage
    ResolvesExactlySoundGraphs
    TagsKeepResolvedEnums
    SymbolRefusalIsJustified
    ScopesHaveNoDuplicates
PROPERTIES
    Terminates
CHECK_DEADLOCK FALSE
