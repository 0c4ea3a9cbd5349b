CONSTANTS
    g = g
    a1 = a1
    a2 = a2
    a3 = a3
    a4 = a4
    b1 = b1
    c3 = c3
    k1 = k1
    k2 = k2
    k3 = k3
    Block = {g, a1, a2, a3, a4, b1, c3}
    Genesis = g
    Prev <- ForkPrev
    HeightOf <- ForkHeightOf
    FinalOf <- ForkFinalOf
    Chunk = {k1, k2, k3}
    ChunksOf <- ForkChunksOf
    Bad = {}
    BadState = {}
    MAX_ORPHAN_SIZE = 2
    MAX_ORPHAN_MISSING_CHUNKS = 1
    NUM_ORPHAN_ANCESTORS_CHECK = 2
    MAX_BLOCKS_MISSING_CHUNKS = 2
    MAX_PROCESSING_BLOCKS = 2
    MaxFailures = 0
    MaxIndexed = 3
SPECIFICATION Spec
CHECK_DEADLOCK FALSE
INVARIANT
    IndexHoldsOrphans
