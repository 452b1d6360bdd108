SPECIFICATION Spec
CONSTANTS
    t1 = t1  t2 = t2  d1 = d1  d2 = d2  p1 = p1  p2 = p2  p3 = p3
    None = None
    Tabs = {t1, t2}
    Devices = {d1, d2}
    Passwords = {p1, p2, p3}
    BackupCodes = {"b1"}
    MaxClock = 2
    Modes <- MCModes
INVARIANTS SessionProvesThePassword AccountPasswordOpens HeldIdentityIsPublished CodesAreSingleUse
CHECK_DEADLOCK FALSE
