------------------------------- MODULE MCPush -------------------------------
(* Push on small instances.                                                *)
EXTENDS Push, TLC

CONSTANTS d, e, a, b

\* What may happen, and how often; for a user who always comes back, or for one who
\* leaves so many times.
Mode(kinds, signed, returns, left) ==
    [kinds |-> (d :> kinds[1] @@ e :> kinds[2]), users |-> (d :> signed[1] @@ e :> signed[2]),
     returns |-> returns, left |-> [x \in Acts |-> IF x \in DOMAIN left THEN left[x] ELSE 0]]
Returns(kinds, signed, left) == Mode(kinds, signed, TRUE, left)
Case(kinds, signed, left) == Mode(kinds, signed, FALSE, left)

\* One account on two devices, woken while registrations change; one device that two
\* accounts share; tokens that are replaced, connections that break, accounts that go.
MCModes ==
    { Case(<<"native", "web">>, <<a, a>>, [toggle |-> 2, wake |-> 1, leave |-> 3]),
      Case(<<"native", "native">>, <<a, a>>, [toggle |-> 2, wake |-> 1, leave |-> 2]),
      Case(<<"native", "absent">>, <<a, None>>, [toggle |-> 2, wake |-> 2, leave |-> 1, expire |-> 1]),
      Case(<<"native", "absent">>, <<a, None>>, [toggle |-> 2, sign |-> 2, wake |-> 1, leave |-> 2]),
      Case(<<"web", "absent">>, <<a, None>>, [toggle |-> 3, wake |-> 2, break |-> 1, expire |-> 1, leave |-> 2]),
      Case(<<"web", "absent">>, <<a, None>>, [toggle |-> 2, wake |-> 1, sign |-> 2, delete |-> 1, leave |-> 2]),
      Returns(<<"native", "absent">>, <<a, None>>, [toggle |-> 1, sign |-> 1, delete |-> 1, break |-> 1, leave |-> 1]),
      Returns(<<"native", "absent">>, <<a, None>>, [toggle |-> 2, expire |-> 1, break |-> 1, permit |-> 1, leave |-> 2]) }
=============================================================================
