SPECIFICATION Spec
CONSTANTS
    Alice = alice
    Bob = bob
    MaxSkip = 1
    MaxStored = 2
    MaxPerChain = 3
    MaxRoots = 5
INVARIANTS ReadIsSpent UnreadIsReadable KeysAreFresh Heals
CHECK_DEADLOCK FALSE
