SPECIFICATION Spec
CONSTANTS
    Blocks <- MCBlocks
    genesis = "g"
    Prev <- MCPrev
    Height <- MCHeight
    epoch_length = 2
    Nodes <- MCNodes
    StateOf <- MCStateOf
    Shards <- MCShards
    NewChunks <- MCNewChunks
    gc_blocks_limit = 2
    gc_fork_clean_step = 2
    gc_num_epochs_to_keep = 3
    ShardOf <- MCShardOf
    block_fetch_horizon = 2
    None = None
    MaxCrashes = 1
INVARIANTS
    HotStoreInvariant
    ClearDataNeverFails
    StatesAreExact
    NothingIsLost
    ColdStoreIsComplete
PROPERTIES
    ColdStoreCatchesUp
CHECK_DEADLOCK FALSE
