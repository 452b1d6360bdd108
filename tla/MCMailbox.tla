----------------------------- MODULE MCMailbox -----------------------------
(* Mailbox on small instances.                                             *)
EXTENDS Mailbox

CONSTANTS alice, bob

\* 'alice' < 'bob'; the digits of a sealed key sort before either.
MCRank == [f \in Senders \cup {Anon} |-> IF f = Anon THEN 0 ELSE IF f = alice THEN 1 ELSE 2]
=============================================================================
