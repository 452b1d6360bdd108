----------------------------- MODULE MCSessions -----------------------------
(* Sessions on small instances.                                            *)
EXTENDS Sessions

Mode(token, reAdd, sends, resetsAllowed, faultsAllowed) ==
    [token |-> token, reAdd |-> reAdd, sends |-> sends,
     resets |-> resetsAllowed, faults |-> faultsAllowed]

\* A long undisturbed exchange, and a short one with everything that may happen to it.
MCModes == {Mode(FALSE, FALSE, 6, 0, 0), Mode(TRUE, FALSE, 2, 2, 1)}
\* The instances in which CrossedIsDelivered and KeyChangeIsFlagged fail.
MCSealed == {Mode(TRUE, FALSE, 2, 0, 0)}
MCReAdd == {Mode(FALSE, TRUE, 2, 1, 0)}
=============================================================================
