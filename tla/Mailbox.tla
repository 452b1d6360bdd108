------------------------------ MODULE Mailbox ------------------------------
(***************************************************************************)
(* The receiving half of one user's Mailbox Durable Object                 *)
(* (worker/mailbox.ts): the offline queue, its TTL alarm, the sealed       *)
(* delivery tokens and the sockets of the owner's device.                  *)
(*                                                                         *)
(* A handler whose awaits are all storage operations runs without another  *)
(* event of the object in between (the runtime's input gate), so each of   *)
(* them is one action.  The owner's device is here only as permissive      *)
(* environment: it may read what reached it and ack any id it has read.    *)
(* Delivery.tla puts the real client in its place.  The sending half of a  *)
(* Mailbox (the send chain) is SendChain.tla.                              *)
(***************************************************************************)
EXTENDS Integers, Sequences, FiniteSets

CONSTANTS
    Senders,     \* usernames that send on the from-stamped path
    Anon,        \* the key segment of a sealed envelope, which has no `from`
    Rank,        \* the string order of the key segments
    Ids,         \* message ids
    Receipts,    \* the ids of sealed delivered-receipts, which carry no `ts`
    Oversized,   \* ids whose envelope is larger than MAX_ENVELOPE_BYTES
    Tokens,      \* delivery tokens
    Relays,      \* what a sealed envelope may come through: once through each
    Socks,       \* connections of the owner's device
    MaxQueued,   \* MAX_QUEUED_ENVELOPES
    MaxTokens,   \* MAX_SEAL_TOKENS
    MaxUplink,   \* bounds the acks in flight on a socket
    TTL          \* TTL_MS in sweep intervals

ASSUME MailboxAssumption ==
    /\ Anon \notin Senders
    /\ Rank \in [Senders \cup {Anon} -> Int]
    /\ \A f, g \in Senders \cup {Anon} : Rank[f] = Rank[g] => f = g
    /\ Receipts \subseteq Ids
    /\ Oversized \subseteq Ids
    /\ MaxQueued \in Nat \ {0}
    /\ MaxTokens \in Nat \ {0}
    /\ MaxUplink \in Nat
    /\ TTL \in Nat

VARIABLES
    queue,       \* stored envelopes, under their keys
    alarm,       \* is a TTL alarm set
    sealTokens,  \* registered delivery tokens, newest first
    recvSeq,     \* the receive counter that orders sealed envelopes
    sockets,     \* sockets the object holds (getWebSockets)
    alive,       \* those whose other end is still there
    wire,        \* frames on their way to the device, per socket
    uplink,      \* acks on their way to the object, per socket
    sendSeq,     \* the seq each sender's own object stamps next
    submitted,   \* <<id, path>> pairs already handed to the object (bounds the model)
    seen         \* ids the device has read from a socket

storage == <<queue, alarm, sealTokens, recvSeq>>
links == <<sockets, alive, wire, uplink>>
vars == <<queue, alarm, sealTokens, recvSeq, sockets, alive, wire, uplink,
          sendSeq, submitted, seen>>

-----------------------------------------------------------------------------
(* Envelopes.  An entry is stored under `envelope:{from}:{seq}:{id}`, or   *)
(* `envelope:{recvSeq}:{id}` when sealed.  `age` is now - ts in sweep      *)
(* intervals, saturating just above the TTL; a sealed sender stamps its    *)
(* own `ts`, so its clock may put the age one interval off either way.     *)

Segments == Senders \cup {Anon}
Ages == -1 .. TTL + 1
SealedAges == -1 .. 1

Frame == [from : Segments, seq : Nat, id : Ids]
Entry == [from : Segments, seq : Nat, id : Ids, age : Ages]

FrameOf(e) == [from |-> e.from, seq |-> e.seq, id |-> e.id]
Stamped(e) == e.id \notin Receipts
\* Mutant: the cutoff is in seconds, so nothing is ever older.
ExpiredInSeconds(e) == FALSE

Expired(e) == Stamped(e) /\ e.age > TTL

\* Mutant: keys without the seq, `envelope:{from}:{id}`.
KeyBeforeUnnumbered(x, y) == Rank[x.from] < Rank[y.from]

KeyBefore(x, y) ==
    \/ Rank[x.from] < Rank[y.from]
    \/ x.from = y.from /\ x.seq < y.seq

\* What storage.list() may return for a set of entries: each of them once, in key order.
Listings(Q) ==
    {l \in [1 .. Cardinality(Q) -> {FrameOf(e) : e \in Q}] :
        /\ \A e \in Q : \E i \in DOMAIN l : l[i] = FrameOf(e)
        /\ \A i, j \in DOMAIN l : i < j => l[i] # l[j] /\ ~ KeyBefore(l[j], l[i])}

\* Mutant: off by one at the cap.
CanQueueOneMore(id) == id \notin Oversized /\ Cardinality(queue) <= MaxQueued

CanQueue(id) == id \notin Oversized /\ Cardinality(queue) < MaxQueued

\* storage.put, then ensureTtlAlarm.
Store(e) ==
    /\ queue' = {x \in queue : FrameOf(x) # FrameOf(e)} \cup {e}
    /\ alarm' = TRUE

\* ws.send on every socket; what goes to a dead one is gone.
SendLive(frame) ==
    wire' = [s \in Socks |-> IF s \in alive THEN Append(wire[s], frame) ELSE wire[s]]

Without(seq, x) ==
    IF \E i \in DOMAIN seq : seq[i] = x
    THEN LET i == CHOOSE i \in DOMAIN seq : seq[i] = x
         IN  SubSeq(seq, 1, i - 1) \o SubSeq(seq, i + 1, Len(seq))
    ELSE seq

Registered(t) == \E i \in DOMAIN sealTokens : sealTokens[i] = t

-----------------------------------------------------------------------------
Init ==
    /\ queue = {}
    /\ alarm = FALSE
    /\ sealTokens = << >>
    /\ recvSeq = 0
    /\ sockets = {}
    /\ alive = {}
    /\ wire = [s \in Socks |-> << >>]
    /\ uplink = [s \in Socks |-> << >>]
    /\ sendSeq = [f \in Senders |-> 0]
    /\ submitted = {}
    /\ seen = {}

\* handleDeliver: live if there is a socket, otherwise queued or dropped.
Deliver(f, id) ==
    LET frame == [from |-> f, seq |-> sendSeq[f], id |-> id]
    IN  /\ <<id, "ws">> \notin submitted
        /\ submitted' = submitted \cup {<<id, "ws">>}
        /\ sendSeq' = [sendSeq EXCEPT ![f] = @ + 1]
        /\ \/ /\ sockets # {}
              /\ SendLive(frame)
              /\ UNCHANGED <<queue, alarm>>
           \/ /\ sockets = {} /\ CanQueue(id)
              /\ Store([from |-> f, seq |-> sendSeq[f], id |-> id, age |-> 0])
              /\ UNCHANGED wire
           \/ /\ sockets = {} /\ ~ CanQueue(id)
              /\ UNCHANGED <<queue, alarm, wire>>
        /\ UNCHANGED <<sealTokens, recvSeq, sockets, alive, uplink, seen>>

\* handleSealedDeliver: the same behind the token check, keyed by recvSeq.
SealedDeliver(t, id, age, r) ==
    /\ <<id, r>> \notin submitted
    /\ submitted' = submitted \cup {<<id, r>>}
    /\ \/ /\ ~ Registered(t)
          /\ UNCHANGED <<queue, alarm, recvSeq, wire>>
       \/ /\ Registered(t) /\ sockets # {}
          /\ SendLive([from |-> Anon, seq |-> 0, id |-> id])
          /\ UNCHANGED <<queue, alarm, recvSeq>>
       \/ /\ Registered(t) /\ sockets = {} /\ CanQueue(id)
          /\ recvSeq' = recvSeq + 1
          /\ Store([from |-> Anon, seq |-> recvSeq, id |-> id, age |-> age])
          /\ UNCHANGED wire
       \/ /\ Registered(t) /\ sockets = {} /\ ~ CanQueue(id)
          /\ UNCHANGED <<queue, alarm, recvSeq, wire>>
    /\ UNCHANGED <<sealTokens, sockets, alive, uplink, sendSeq, seen>>

\* handleRegisterToken: newest first, at most MaxTokens.
RegisterToken(t) ==
    LET next == <<t>> \o Without(sealTokens, t)
    IN  /\ sealTokens' = IF Len(next) > MaxTokens THEN SubSeq(next, 1, MaxTokens) ELSE next
        /\ UNCHANGED <<queue, alarm, recvSeq, links, sendSeq, submitted, seen>>

\* Mutant: the flush deletes what it sent.
ConnectAndForget(s) ==
    /\ s \notin sockets
    /\ sockets' = sockets \cup {s}
    /\ alive' = alive \cup {s}
    /\ \E l \in Listings(queue) : wire' = [wire EXCEPT ![s] = l]
    /\ uplink' = [uplink EXCEPT ![s] = << >>]
    /\ queue' = {}
    /\ UNCHANGED <<alarm, sealTokens, recvSeq, sendSeq, submitted, seen>>

\* The upgrade in fetch: accept the socket and flush the queue to it, deleting nothing.
Connect(s) ==
    /\ s \notin sockets
    /\ sockets' = sockets \cup {s}
    /\ alive' = alive \cup {s}
    /\ \E l \in Listings(queue) : wire' = [wire EXCEPT ![s] = l]
    /\ uplink' = [uplink EXCEPT ![s] = << >>]
    /\ UNCHANGED <<storage, sendSeq, submitted, seen>>

\* The connection breaks; the object does not know yet.
LinkDown(s) ==
    /\ s \in alive
    /\ alive' = alive \ {s}
    /\ wire' = [wire EXCEPT ![s] = << >>]
    /\ uplink' = [uplink EXCEPT ![s] = << >>]
    /\ UNCHANGED <<storage, sockets, sendSeq, submitted, seen>>

\* webSocketClose.
SocketClosed(s) ==
    /\ s \in sockets \ alive
    /\ sockets' = sockets \ {s}
    /\ UNCHANGED <<storage, alive, wire, uplink, sendSeq, submitted, seen>>

\* handleAck: delete the first stored envelope with this id, in key order.
HandleAck(s) ==
    LET matching == {e \in queue : e.id = Head(uplink[s])}
    IN  /\ s \in alive /\ uplink[s] # << >>
        /\ uplink' = [uplink EXCEPT ![s] = Tail(@)]
        /\ \/ matching = {} /\ UNCHANGED queue
           \/ \E e \in matching :
                 /\ \A x \in matching : ~ KeyBefore(x, e)
                 /\ queue' = queue \ {e}
        /\ UNCHANGED <<alarm, sealTokens, recvSeq, sockets, alive, wire, sendSeq, submitted, seen>>

\* Mutant: the alarm is not set again after a sweep.
AlarmOnce ==
    /\ alarm
    /\ queue' = {e \in queue : ~ Expired(e)}
    /\ alarm' = FALSE
    /\ UNCHANGED <<sealTokens, recvSeq, links, sendSeq, submitted, seen>>

\* alarm(): sweep what is past the TTL, reschedule while anything remains.
Alarm ==
    /\ alarm
    /\ queue' = {e \in queue : ~ Expired(e)}
    /\ alarm' = (queue' # {})
    /\ UNCHANGED <<sealTokens, recvSeq, links, sendSeq, submitted, seen>>

\* handlePurge: account deletion.  Closing the sockets ends both directions, and the
\* devices that read from them are signed out for good.
Purge ==
    /\ queue' = {}
    /\ alarm' = FALSE
    /\ sealTokens' = << >>
    /\ recvSeq' = 0
    /\ sockets' = {}
    /\ alive' = {}
    /\ wire' = [s \in Socks |-> << >>]
    /\ uplink' = [s \in Socks |-> << >>]
    /\ seen' = {}
    /\ UNCHANGED <<sendSeq, submitted>>

\* One sweep interval passes.
Tick ==
    /\ \E e \in queue : e.age <= TTL
    /\ queue' = {[e EXCEPT !.age = IF @ > TTL THEN @ ELSE @ + 1] : e \in queue}
    /\ UNCHANGED <<alarm, sealTokens, recvSeq, links, sendSeq, submitted, seen>>

-----------------------------------------------------------------------------
(* The owner's device, as the object sees it.                              *)

DeviceRead(s) ==
    /\ s \in alive /\ wire[s] # << >>
    /\ seen' = seen \cup {Head(wire[s]).id}
    /\ wire' = [wire EXCEPT ![s] = Tail(@)]
    /\ UNCHANGED <<storage, sockets, alive, uplink, sendSeq, submitted>>

\* An ack names an id the device has read.
DeviceAck(s, id) ==
    /\ s \in alive /\ id \in seen /\ Len(uplink[s]) < MaxUplink
    /\ uplink' = [uplink EXCEPT ![s] = Append(@, id)]
    /\ UNCHANGED <<storage, sockets, alive, wire, sendSeq, submitted, seen>>

Server ==
    \/ \E f \in Senders, id \in Ids \ Receipts : Deliver(f, id)
    \/ \E t \in Tokens, id \in Ids, age \in SealedAges \cap Ages, r \in Relays : SealedDeliver(t, id, age, r)
    \/ \E t \in Tokens : RegisterToken(t)
    \/ \E s \in Socks : Connect(s) \/ LinkDown(s) \/ SocketClosed(s) \/ HandleAck(s)
    \/ Alarm
    \/ Purge
    \/ Tick

Device == \E s \in Socks : DeviceRead(s) \/ \E id \in Ids : DeviceAck(s, id)

Next == Server \/ Device

Spec == Init /\ [][Next]_vars

\* Time passes and the platform fires a set alarm; nothing else is promised.
SweepSpec == Spec /\ WF_vars(Tick) /\ WF_vars(Alarm)

-----------------------------------------------------------------------------
TypeOK ==
    /\ queue \subseteq Entry
    /\ IsFiniteSet(queue)
    /\ alarm \in BOOLEAN
    /\ sealTokens \in Seq(Tokens)
    /\ recvSeq \in Nat
    /\ sockets \subseteq Socks
    /\ alive \subseteq sockets
    /\ wire \in [Socks -> Seq(Frame)]
    /\ uplink \in [Socks -> Seq(Ids)]
    /\ sendSeq \in [Senders -> Nat]
    /\ submitted \subseteq Ids \X ({"ws"} \cup Relays)
    /\ seen \subseteq Ids

(* The offline queue is an untrusted-write sink: on neither delivery path  *)
(* may it grow past MAX_QUEUED_ENVELOPES (canQueue runs before each put).  *)
QueueWithinCap == Cardinality(queue) <= MaxQueued

(* The alarm is one-shot and cleared by three handlers, yet whenever       *)
(* something is stored one is set: no stored envelope can outlive its TTL  *)
(* because nobody will ever sweep it (ensureTtlAlarm, alarm, handlePurge). *)
AlarmCoversQueue == queue # {} => alarm

(* On every socket the frames of one sender stand in the order it sent     *)
(* them, whether they were flushed from the queue or sent live behind the  *)
(* flush.  The first of them may carry the handshake the others need       *)
(* (envelopeStorageKey, flushQueued, handleDeliver).                       *)
WireInSendOrder ==
    \A s \in Socks : \A i, j \in DOMAIN wire[s] :
        (i < j /\ wire[s][i].from = wire[s][j].from /\ wire[s][i].from \in Senders)
            => wire[s][i].seq < wire[s][j].seq

(* What the queue promises, whatever the path an envelope took: it is kept *)
(* until the device that was handed it confirms it, the TTL passes or the  *)
(* account goes; the whole object implements that specification.           *)
HeldOf(e) == [item |-> FrameOf(e), id |-> e.id, old |-> Expired(e)]
HeldItems == {HeldOf(e) : e \in queue}

Held == INSTANCE HeldMail WITH Max <- MaxQueued, held <- HeldItems, handed <- seen

HoldsMail == Held!Spec

(* A stored message leaves the queue in the end even if its owner never    *)
(* connects again: the TTL sweep takes it (alarm, ensureTtlAlarm).         *)
MessagesExpire ==
    \A id \in Ids \ Receipts :
        (\E e \in queue : e.id = id) ~> ~ (\E e \in queue : e.id = id)
=============================================================================
