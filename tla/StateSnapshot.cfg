SPECIFICATION Spec
CONSTANTS
    Blocks <- MCBlocks
    genesis = "g"
    Prev <- MCPrev
    Height <- MCHeight
    epoch_length = 3
    Shards <- MCShards
    Keys <- MCKeys
    Changed <- MCChanged
    NewChunks <- MCNewChunks
    first_head = "a2"
    NotReady = {1}
    num_parts_in_step = 1
    CATCH_UP_BLOCKS = 1
    MaxProcessing = 2
    MaxCrashes = 1
    None = None
INVARIANTS
    FlatInvariant
    NoPanic
    ReadsAreRight
    SnapshotIsRight
PROPERTIES
    CreationFinishes
CHECK_DEADLOCK FALSE
