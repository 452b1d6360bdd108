----------------------------- MODULE MCPrekeys -----------------------------
(* Prekeys on small instances.                                             *)
EXTENDS Prekeys

CONSTANTS p, q

Case(acts, opsAllowed, killsAllowed, faultsAllowed, looksAllowed, n, token, known) ==
    [acts |-> acts, ops |-> opsAllowed, kills |-> killsAllowed, faults |-> faultsAllowed,
     looks |-> looksAllowed, keys |-> n, token |-> token, known |-> known]

\* Two peers draw on a pool that is refilled; one asks again and again; saves that overlap;
\* tokens made, rotated and registered.
MCModes ==
    { Case({"look", "replenish"}, 1, 1, 2, 2, 1, FALSE, {}),
      Case({"look", "replenish"}, 2, 0, 1, 2, 1, TRUE, {}),
      Case({"look", "tick"}, 0, 1, 3, 3, 2, TRUE, {q}),
      Case({"look", "replenish", "edit", "remove"}, 2, 0, 1, 1, 1, TRUE, {q}),
      Case({"connect", "remove", "send"}, 2, 0, 1, 0, 0, FALSE, {p}),
      Case({"connect", "remove"}, 1, 1, 1, 0, 0, FALSE, {p, q}),
      Case({"connect", "remove", "edit"}, 2, 0, 1, 0, 0, TRUE, {p, q}) }
=============================================================================
