SPECIFICATION FairSpec
CONSTANTS
    k1 = k1
    a = a
    b = b
    d1 = d1
    d2 = d2
    d3 = d3
    u1 = u1
    h1 = h1
    h2 = h2
    Key = {k1}
    Chunk = {a, b}
    DN = {d1, d2, d3}
    Handler = {h1, h2}
    Upload = {u1}
    Rank <- Ranks
    Setups <- AllSetups
INVARIANTS ChunkTypeOK QuorumHeld Readable PartsReadable
PROPERTIES OrphansCollected FullyPlaced
CHECK_DEADLOCK FALSE
