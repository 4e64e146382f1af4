SPECIFICATION SymbolsSpec
CONSTANTS
    Primitives <- MCPrimitives
    Structural <- MCStructural
    Graphs <- MCGraphs
    Pascal <- MCPascal
INVARIANT TagsExposeResolvedTypes
CHECK_DEADLOCK FALSE
