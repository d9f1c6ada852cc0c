SPECIFICATION FunctionSpec
CONSTANTS
    NRows = 4
    BatchSize = 3
    VectorSize = 2
    MaxPolls = 2
    MaxFetches = 0
    LinkFaults = {"timeout", "torn", "disconnect"}
    BadRowSets <- MCBadRowSets
    Schemas <- MCSchemas
    BoundSchemas <- MCBoundSchemas
INVARIANT ProcessSurvives
