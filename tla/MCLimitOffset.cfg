SPECIFICATION Spec
CONSTANTS
    NRows = 3
    BatchSize = 2
    Limits <- MCLimitsWithOffsets
    Keeps <- MCKeeps
    MaxOps = 3
INVARIANT LeftAloneIsCorrect
