CONSTANTS
    g = g
    a1 = a1
    b1 = b1
    o2 = o2
    o3 = o3
    s3 = s3
    u1 = u1
    u2 = u2
    u3 = u3
    Block <- MCBlock
    Genesis = g
    NoHash = NoHash
    Prev <- MCPrev
    HeightOf <- MCHeightOf
    Own = {o2, o3, s3}
    Pledges <- MCPledges
    MyTargets = {2, 3}
    Offered <- MCOffered
    Seats = 2
    MAX_HEIGHTS_BEFORE_TO_STORE_APPROVALS = 1
    MAX_HEIGHTS_AHEAD_TO_STORE_APPROVALS = 2
SPECIFICATION Spec
INVARIANTS
    TrackersInvariant
    ProducedBlocksAreApproved
PROPERTY
    ApprovalsAreKept
