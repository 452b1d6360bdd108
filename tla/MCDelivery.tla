----------------------------- MODULE MCDelivery -----------------------------
(* Delivery on small instances.                                            *)
EXTENDS Delivery

MCIds == Senders \X (1 .. MaxN)

\* The digits of a sealed key sort before a username that starts with a letter.
MCRank == [f \in Senders \cup {Anon} |-> IF f = Anon THEN 0 ELSE 1]

Mode(token, opk, sends, faultsAllowed) ==
    [token |-> token, opk |-> opk, sends |-> sends, faults |-> faultsAllowed,
     relays |-> Relays, socks |-> Socks]
WithoutFallback(m) == [m EXCEPT !.relays = {"primary"}]
OnOneSocket(m) == [m EXCEPT !.socks = {CHOOSE s \in Socks : TRUE}]

\* The from-stamped path with one-time prekeys; a message on all three ways at once; two
\* that overtake each other.
MCBothPaths ==
    {Mode(FALSE, TRUE, 3, 0), Mode(FALSE, TRUE, 2, 2), Mode(TRUE, FALSE, 1, 2),
     WithoutFallback(Mode(TRUE, FALSE, 2, 0)), WithoutFallback(OnOneSocket(Mode(TRUE, FALSE, 2, 1)))}
MCNoFaults == {Mode(TRUE, FALSE, 2, 0)}
=============================================================================
