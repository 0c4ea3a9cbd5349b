CONSTANTS
    g = g
    a1 = a1
    b1 = b1
    a2 = a2
    a3 = a3
    b4 = b4
    c1 = c1
    d3 = d3
    e3 = e3
    p2 = p2
    Block = {g, a1, b1, a2, a3, b4}
    Genesis = g
    Prev <- MCPrev
    HeightOf <- MCHeightOf
    FinalOf <- MCFinalOf
    Chunk = {c1, d3, e3, p2}
    ChunksOf <- MCChunksOf
    ChunkPrev <- MCChunkPrev
    ChunkHeight <- MCChunkHeight
    ChunkShard <- MCChunkShard
    Tracked = {0}
    Part = {"mine", "theirs"}
    Own = {"mine"}
    num_data_parts = 2
    HeadHeight <- MCHeightOf
    HeadPrev <- MCPrev
    EpochAfter <- MCEpochAfter
    Produced = {p2}
    HEIGHT_HORIZON = 0
    MAX_HEIGHTS_AHEAD = 3
    CHUNK_FORWARD_CACHE_SIZE = 1
    SwitchToFullFetch = 2
    NUM_ORPHAN_ANCESTORS_CHECK = 2
    MAX_BLOCKS_MISSING_CHUNKS = 1
    MaxMail = 1
    Forwarded = {d3}
SPECIFICATION CollectSpec
CHECK_DEADLOCK FALSE
INVARIANTS
    CollectionInvariant
    MapsAgree
    WaitedChunksAreRequested
    
 
