SPECIFICATION FaultySpec
CONSTANTS
    NRows = 4
    BatchSize = 3
    VectorSize = 2
    MaxPolls = 2
    MaxFetches = 0
    LinkFaults = {}
    StreamFaults = {"notReady", "misshapen"}
    BadRowSets <- MCBadRowSets
INVARIANT NoSilentTruncation
