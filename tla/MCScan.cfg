SPECIFICATION FairFunctionSpec
CONSTANTS
    NRows = 4
    BatchSize = 3
    VectorSize = 2
    MaxPolls = 2
    MaxFetches = 2
    LinkFaults = {"timeout", "torn", "disconnect"}
    BadRowSets <- MCBadRowSets
    Schemas <- MCSchemas
    BoundSchemas <- MCBoundSchemas
INVARIANTS TypeOK InSync RowsInOrder CompleteWhenDone CleanupProtocol CursorReleased FunctionInv RowsAsBound
PROPERTIES ImplementsContract QueryEnds
