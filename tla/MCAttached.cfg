SPECIFICATION AttachedSpec
CONSTANTS
    NRows = 4
    BatchSize = 3
    Limits <- MCLimits
    Keeps <- MCKeeps
    MaxOps = 3
    NCols = 3
    Blobs = {1}
    Passing <- MCPassing
    VectorSize = 2
    MaxIds = 3
    MaxQuery = 4
INVARIANTS AttachedInv LimitInv FetchBounded ColumnsExact RowsExact QueryExact
PROPERTY ImplementsLimit
