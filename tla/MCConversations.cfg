SPECIFICATION Spec
CONSTANTS
    Me = Me
    None = None
    p = p
    q = q
    g = g
    a1 = a1
    a2 = a2
    a3 = a3
    b1 = b1
    m1 = m1
    k1 = k1
    d1 = d1
    r1 = r1
    v1 = v1
    h1 = h1
    h2 = h2
    Peers <- MCPeers
    Groups <- MCGroups
    Creator <- MCCreator
    Posts <- MCPosts
    Info <- MCInfo
    Modes <- MCModes
INVARIANTS
    HistoryIsKept
    GoneIsGone
    RenderedIsAccepted
    HeldIsPending
    UnreadIsFlagged
    FetchedIsKept
CHECK_DEADLOCK FALSE
