SPECIFICATION DeliverySpec
CONSTANTS
    Senders = {"bob"}
    Anon = "anon"
    Rank <- MCRank
    Ids <- MCIds
    Receipts = {}
    Oversized = {}
    Tokens = {"t"}
    Relays = {"primary", "fallback"}
    Socks = {"s1", "s2"}
    MaxQueued = 2
    MaxTokens = 1
    MaxUplink = 1
    TTL = 0
    MaxN = 3
    Modes <- MCBothPaths
    MaxChain = 2
INVARIANTS ShownOnce ShownInSendOrder AckedIsShown
PROPERTY ActsAsDevice
CHECK_DEADLOCK FALSE
