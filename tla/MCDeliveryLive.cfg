SPECIFICATION FairDeliverySpec
CONSTANTS
    Senders = {"bob"}
    Anon = "anon"
    Rank <- MCRank
    Ids <- MCIds
    Receipts = {}
    Oversized = {}
    Tokens = {"t"}
    Relays = {"primary"}
    Socks = {"s1"}
    MaxQueued = 2
    MaxTokens = 1
    MaxUplink = 1
    TTL = 0
    MaxN = 2
    Modes <- MCNoFaults
    MaxChain = 2
PROPERTIES QueuedIsShown
CHECK_DEADLOCK FALSE
