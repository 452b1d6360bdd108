------------------------------ MODULE HeldMail ------------------------------
(***************************************************************************)
(* What an offline queue promises of the mail it accepted: an item is held *)
(* until the device it was handed to settles it, it is past its lifetime,  *)
(* or the whole mailbox is wiped.  Handing an item over, connecting and    *)
(* disconnecting change nothing, and no newcomer displaces a held item.    *)
(* Mailbox.tla implements it.                                              *)
(***************************************************************************)
EXTENDS Naturals, FiniteSets

CONSTANT Max       \* how many items can be held

VARIABLES held,    \* held items: [item, id, old]
          handed   \* ids the device has been handed

Init == held = {} /\ handed = {}

\* Accept one item, without giving up any other.
Accept ==
    /\ \E e \in held' : held' = held \cup {e} /\ e \notin held
    /\ Cardinality(held) < Max
    /\ UNCHANGED handed

HandOver ==
    /\ handed \subseteq handed'
    /\ UNCHANGED held

\* The device settles one item it was handed.
Settle ==
    /\ \E e \in held : e.id \in handed /\ held' = held \ {e}
    /\ UNCHANGED handed

\* Items grow old; nothing else about them changes.
Ripen ==
    /\ {[item |-> e.item, id |-> e.id] : e \in held'} = {[item |-> e.item, id |-> e.id] : e \in held}
    /\ \A e \in held : e.old => e \in held'
    /\ UNCHANGED handed

Expire ==
    /\ held' \subseteq held
    /\ \A e \in held \ held' : e.old
    /\ UNCHANGED handed

\* The mailbox is no more; one that takes its place starts from nothing.
Wipe == held' = {} /\ handed' = {}

Next == Accept \/ HandOver \/ Settle \/ Ripen \/ Expire \/ Wipe

Spec == Init /\ [][Next]_<<held, handed>>
=============================================================================
