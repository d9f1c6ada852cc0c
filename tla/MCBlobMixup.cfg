SPECIFICATION Spec
CONSTANTS
    LinkFaults <- MCFaults
    FlushEvery = 2
    MaxTasks = 3
    MaxBlocks = 2
INVARIANT FailuresBecomeNull
