SPECIFICATION Spec
CONSTANTS
    Values <- MCValues
    Left <- MCLeft
    Functions <- MCFunctions
    Function <- MCFunction
    Expressions <- MCHalfExpressions
    TableFilters <- MCHalfTableFilters
    Solid <- MCHalfSolid
    Depth <- MCHalfDepth
    Queries <- MCHalfSecondQueries
INVARIANT RenderedExactly
