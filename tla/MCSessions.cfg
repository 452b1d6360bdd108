SPECIFICATION Spec
CONSTANTS
    Lo = "alice"
    Hi = "bob"
    MaxSessions = 2
    Modes <- MCModes
INVARIANTS GlareSettles SessionsMatchIdentity
PROPERTY CurrentIsKept
CHECK_DEADLOCK FALSE
