SPECIFICATION Spec
CONSTANTS
    Creator = alice
    Others = {bob, carol}
    MaxSkip = 2
    MaxStored = 2
    Modes <- MCModes
INVARIANTS RemovedIsLockedOut Converged GroupLosesNothing
CHECK_DEADLOCK FALSE
