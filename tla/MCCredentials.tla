--------------------------- MODULE MCCredentials ---------------------------
(* Credentials on small instances.                                         *)
EXTENDS Credentials

CONSTANTS t1, t2, d1, d2, p1, p2, p3

OneDevice == [t \in Tabs |-> d1]
TwoDevices == [t \in Tabs |-> IF t = t1 THEN d1 ELSE d2]

Mode(home, start, kinds, opsAllowed, crashesAllowed, lossesAllowed, savesToo) ==
    [home |-> home, start |-> start, kinds |-> kinds, ops |-> opsAllowed,
     crashes |-> crashesAllowed, losses |-> lossesAllowed, saves |-> savesToo]

MCModes ==
    {Mode(OneDevice, p1, {"change", "login", "unlock", "me"}, 3, 1, 1, FALSE),
     Mode(OneDevice, p1, {"change"}, 2, 0, 0, TRUE),
     Mode(TwoDevices, None, {"signup", "login", "terms", "terminate"}, 3, 1, 1, FALSE),
     Mode(TwoDevices, p1, {"change", "login", "logoutAll", "logout", "terminate"}, 3, 0, 0, FALSE),
     Mode(TwoDevices, p1, {"enroll", "recover", "wipe", "logout"}, 4, 0, 1, FALSE),
     Mode(TwoDevices, p1, {"delete", "signup"}, 3, 0, 0, FALSE),
     Mode(TwoDevices, p1, {"enable", "disable", "login", "logout", "tick"}, 4, 0, 0, FALSE),
     Mode(OneDevice, p1, {"unlocks", "change", "me", "unlock"}, 4, 1, 0, FALSE),
     Mode(OneDevice, p1, {"enroll", "recover", "change"}, 3, 1, 0, FALSE),
     Mode(OneDevice, p1, {"enroll", "recover"}, 2, 1, 0, TRUE),
     Mode(OneDevice, p1, {"enroll", "recover", "wipe", "login"}, 4, 1, 0, FALSE)}

\* The instance in which DeletedAccountFails fails.
MCReborn == {Mode(TwoDevices, p1, {"delete", "signup"}, 2, 0, 0, FALSE)}
=============================================================================
