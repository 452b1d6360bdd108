SPECIFICATION FairSpec
CONSTANTS
    Peers = {"bob", "carol"}
    MaxSends = 3
    MaxFaults = 2
    MaxToggles = 2
INVARIANTS SeqIsSendOrder HandedInSendOrder
PROPERTIES BlockHolds SendsSettle
CHECK_DEADLOCK FALSE
