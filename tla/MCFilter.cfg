SPECIFICATION Spec
CONSTANTS
    Values <- MCValues
    Left <- MCLeft
    Functions <- MCFunctions
    Function <- MCFunction
    Expressions <- MCExpressions
    TableFilters <- MCTableFilters
    Solid <- MCSolid
    Depth <- MCDepth
    Queries <- MCQueries
INVARIANTS FilterInv ResultExact AcceptedIsRendered
