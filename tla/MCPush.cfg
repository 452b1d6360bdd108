SPECIFICATION Spec
CONSTANTS
    d = d
    e = e
    a = a
    b = b
    None = None
    Devices = {d, e}
    Users = {a, b}
    Wakes = {"w1", "w2"}
    MaxAddress = 3
    Modes <- MCModes
INVARIANTS
    LiveIsWoken
PROPERTIES
    LiveIsKept
    WantedIsRegistered
CHECK_DEADLOCK FALSE
