SPECIFICATION SweepSpec
CONSTANTS
    alice = alice
    bob = bob
    Senders = {alice}
    Anon = Anon
    Rank <- MCRank
    Ids = {"m1", "m2", "r1"}
    Receipts = {"r1"}
    Oversized = {}
    Tokens = {"t1"}
    Relays = {"relay"}
    Socks = {"s1"}
    MaxQueued = 2
    MaxTokens = 1
    MaxUplink = 1
    TTL = 1
INVARIANTS QueueWithinCap AlarmCoversQueue WireInSendOrder
PROPERTIES HoldsMail MessagesExpire
CHECK_DEADLOCK FALSE
