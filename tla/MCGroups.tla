------------------------------ MODULE MCGroups ------------------------------
(* Groups on small instances.                                              *)
EXTENDS Groups

Mode(sealed, overlap, sends, changesAllowed, faultsAllowed) ==
    [sealed |-> sealed, overlap |-> overlap, sends |-> sends,
     changes |-> changesAllowed, faults |-> faultsAllowed]

\* Three messages and no change; a message and a change; three changes; two changes and
\* an accident.
MCModes == {Mode(TRUE, FALSE, 3, 0, 0), Mode(TRUE, FALSE, 1, 1, 0),
            Mode(TRUE, FALSE, 0, 3, 0), Mode(FALSE, FALSE, 0, 2, 1)}
\* The instances in which RotatedKeyComesFirst and LockedOut fail.
MCRekey == {Mode(FALSE, FALSE, 1, 1, 0)}
MCOverlap == {Mode(FALSE, TRUE, 0, 2, 0)}
=============================================================================
