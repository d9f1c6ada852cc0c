SPECIFICATION FairSpec
CONSTANTS
    LinkFaults <- MCFaults
    FlushEvery = 2
    MaxTasks = 3
    MaxBlocks = 2
INVARIANTS
    BlobInv
    PayloadInPlace
    StrictMeansWhole
    HandlesBounded
PROPERTY Ends
