------------------------------ MODULE Delivery ------------------------------
(***************************************************************************)
(* From a sender's device to the recipient's message history: Mailbox with *)
(* the real client at both ends.  The recipient's client (Chat.tsx,        *)
(* messaging.ts, inboundDispatch.ts, the keystore) runs one inbound frame  *)
(* at a time through decryptIncoming, whose writes to IndexedDB are steps  *)
(* of their own: the app may be killed, or a write rejected, between two.  *)
(*                                                                         *)
(* A message is <<f, n>>, the n-th of the session its sender f builds with *)
(* its first send; n = 1 carries the X3DH handshake.  The recipient does   *)
(* not write back here, so the session stays on its first chain: a header  *)
(* always matches it, and a number it has consumed fails the AEAD.  For    *)
(* the same reason the rid of a bootstrap is not a variable: once it is    *)
(* marked there is a session, which has the same effect.                   *)
(*                                                                         *)
(* A sealed send is an HTTP request to the gateway through the primary     *)
(* relay, made again through the fallback relay when it fails, and then    *)
(* over the socket.  A request that failed may still arrive, at any time.  *)
(*                                                                         *)
(* Bound: everything happens within the TTL of the mail and no account is  *)
(* deleted (Mailbox covers Tick, Alarm and Purge).                         *)
(***************************************************************************)
EXTENDS Mailbox

CONSTANTS
    MaxN,          \* messages per sender; Ids is Senders \X 1 .. MaxN
    Modes,         \* the cases explored: do senders hold the recipient's delivery token,
                   \* may the authenticated bundle carry a one-time prekey, bounds on the
                   \* messages of each and on the crashes and rejected writes, the relays
                   \* of the build and the connections the recipient may have
    MaxChain       \* bounds the frames waiting on the session-op chain

ASSUME DeliveryAssumption ==
    /\ MaxN \in Nat \ {0}
    /\ Ids = Senders \X (1 .. MaxN)
    /\ Receipts = {}
    /\ Relays \in {{"primary"}, {"primary", "fallback"}}   \* without a relay, the gateway itself
    /\ Modes \subseteq [token : BOOLEAN, opk : BOOLEAN, sends : 1 .. MaxN, faults : Nat, relays : SUBSET Relays, socks : SUBSET Socks]
    /\ MaxChain \in Nat

VARIABLES
    mode,        \* which of them this is
    nextN,       \* per sender, the number of its next message
    opkUsed,     \* per sender, was its session built with a one-time prekey
    call,        \* per sender, the sealed send it is waiting for, or NoCall
    posted,      \* sealed requests on their way to the gateway
    outbox,      \* per sender, messages in its own object's send chain
    chainq,      \* frames on the recipient's session-op chain
    job,         \* the frame decryptIncoming is working on, or NoJob
    session,     \* per sender, the numbers the stored session has consumed
    opkHeld,     \* senders whose one-time prekey's secret is still stored
    contacts,    \* senders in the contact store
    history,     \* message history, in the order of appendMessage
    processed,   \* ids marked processed
    acked,       \* ids an ack was sent for
    torn,        \* messages a fault hit while they were being written
    faults

client == <<chainq, job, session, opkHeld, contacts, history, processed>>
senders == <<mode, nextN, opkUsed, call, posted, outbox>>
ghosts == <<acked, torn, faults>>
dvars == <<vars, senders, client, ghosts>>

NoJob == [pc |-> "none"]
NoCall == [relay |-> "none"]
SenderOf(m) == m[1]
Number(m) == m[2]
Shown == {history[i] : i \in DOMAIN history}
HasSession(f) == session[f] # {}   \* a responder's session has consumed number 1

DeliveryInit ==
    /\ Init
    /\ mode \in Modes
    /\ nextN = [f \in Senders |-> 1]
    /\ opkUsed = [f \in Senders |-> FALSE]
    /\ call = [f \in Senders |-> NoCall]
    /\ posted = {}
    /\ outbox = [f \in Senders |-> << >>]
    /\ chainq = << >>
    /\ job = NoJob
    /\ session = [f \in Senders |-> {}]
    /\ opkHeld = Senders
    /\ contacts = {}
    /\ history = << >>
    /\ processed = {}
    /\ acked = {}
    /\ torn = {}
    /\ faults = 0

-----------------------------------------------------------------------------
(* The sender.                                                             *)

\* ensureSession on the first send: an anonymous bundle carries no one-time prekey; the
\* authenticated one, fetched when the anonymous fetch fails, may.
EnsureSession(f) ==
    IF nextN[f] = 1 /\ mode.opk
    THEN \E opk \in BOOLEAN : opkUsed' = [opkUsed EXCEPT ![f] = opk]
    ELSE UNCHANGED opkUsed

\* sendPayloadRaw, a task of the sender's own chain: one at a time.
NextSend(f) ==
    /\ nextN[f] <= mode.sends
    /\ call[f] = NoCall
    /\ nextN' = [nextN EXCEPT ![f] = @ + 1]
    /\ EnsureSession(f)

\* ws.send: the frame goes to the sender's own object.
ToOutbox(f, m) == outbox' = [outbox EXCEPT ![f] = Append(@, m)]

\* Without the recipient's delivery token the frame goes over the socket.
SendPlain(f) ==
    /\ mode.token => sealTokens = << >>
    /\ NextSend(f)
    /\ ToOutbox(f, <<f, nextN[f]>>)
    /\ UNCHANGED <<vars, mode, call, posted, client, ghosts>>

\* apiSealedSend, with the token the sender holds.
Request(f, t) == [id |-> <<f, nextN[f]>>, relay |-> "primary", token |-> t]

\* sendPayloadRaw through the gateway: the frame is sealed and posted, and the send waits.
SendSealed(f, t) ==
    /\ mode.token /\ Registered(t)
    /\ NextSend(f)
    /\ call' = [call EXCEPT ![f] = Request(f, t)]
    /\ posted' = posted \cup {Request(f, t)}
    /\ UNCHANGED <<vars, mode, outbox, client, ghosts>>

\* getGatewayKey: the key cannot be had or is not the pinned one, and nothing is sealed.
SendWithoutKey(f) ==
    /\ mode.token /\ sealTokens # << >>
    /\ NextSend(f)
    /\ ToOutbox(f, <<f, nextN[f]>>)
    /\ UNCHANGED <<vars, mode, call, posted, client, ghosts>>

\* handleSeal: the gateway opens a request that came through a relay and hands the
\* envelope to the recipient's object.
HandleSeal(p) ==
    /\ p \in posted
    /\ SealedDeliver(p.token, p.id, 0, p.relay)
    /\ posted' = posted \ {p}
    /\ UNCHANGED <<mode, nextN, opkUsed, call, outbox, client, ghosts>>

\* 202: the send is over.
Accepted(f) ==
    /\ call[f] # NoCall
    /\ call[f] \notin posted
    /\ call' = [call EXCEPT ![f] = NoCall]
    /\ UNCHANGED <<vars, mode, nextN, opkUsed, posted, outbox, client, ghosts>>

\* What is on its way when a request has failed: it may be late, or its reply was lost; or
\* it is gone, or the gateway refused it for want of the relay's secret.
AfterFailure(p) == {posted, posted \ {p}}

\* postSealed: the request is made again through the fallback relay.
PostAgain(f) ==
    LET again == [call[f] EXCEPT !.relay = "fallback"]
    IN  /\ call[f].relay = "primary" /\ "fallback" \in mode.relays
        /\ call' = [call EXCEPT ![f] = again]
        /\ \E rest \in AfterFailure(call[f]) : posted' = rest \cup {again}
        /\ UNCHANGED <<vars, mode, nextN, opkUsed, outbox, client, ghosts>>

\* The last request failed as well: the very same frame goes over the socket.
FallBack(f) ==
    /\ call[f] # NoCall
    /\ call[f].relay = "primary" => "fallback" \notin mode.relays
    /\ call' = [call EXCEPT ![f] = NoCall]
    /\ posted' \in AfterFailure(call[f])
    /\ ToOutbox(f, call[f].id)
    /\ UNCHANGED <<vars, mode, nextN, opkUsed, client, ghosts>>

\* The sender's object hands its sends on in order (SendChain!HandedInSendOrder).
HandOn(f) ==
    /\ outbox[f] # << >>
    /\ Deliver(f, Head(outbox[f]))
    /\ outbox' = [outbox EXCEPT ![f] = Tail(@)]
    /\ UNCHANGED <<mode, nextN, opkUsed, call, posted, client, ghosts>>

-----------------------------------------------------------------------------
(* The recipient's sockets.  The client has one at a time; the object may  *)
(* still hold older ones.                                                  *)

Reconnect(s) == s \in mode.socks /\ alive = {} /\ Connect(s) /\ UNCHANGED <<senders, client, ghosts>>

Disconnect(s) == LinkDown(s) /\ UNCHANGED <<senders, client, ghosts>>

Object ==
    /\ \/ \E s \in Socks : SocketClosed(s) \/ HandleAck(s)
       \/ \E t \in Tokens : ~ Registered(t) /\ RegisterToken(t)
    /\ UNCHANGED <<senders, client, ghosts>>

\* ws.onmessage: the frame's handler joins the session-op chain.
Receive(s) ==
    /\ Len(chainq) < MaxChain
    /\ DeviceRead(s)
    /\ chainq' = Append(chainq, Head(wire[s]))
    /\ UNCHANGED <<senders, job, session, opkHeld, contacts, history, processed, ghosts>>

-----------------------------------------------------------------------------
(* decryptIncoming, for the head of the chain.                             *)

Sealed(fr) == fr.from = Anon

Fault == faults < mode.faults /\ faults' = faults + 1

Goto(pc) == job' = [job EXCEPT !.pc = pc]

\* The next task of the chain, up to its first write: all it reads is the client's own.
Begin ==
    LET fr == Head(chainq)
        m == fr.id
        f == SenderOf(m)
        first == Number(m) = 1
        goto(pc) == job' = [pc |-> pc, frame |-> fr] /\ UNCHANGED faults
        retry == UNCHANGED job
    IN  /\ job = NoJob /\ chainq # << >>
        /\ chainq' = Tail(chainq)
        /\ \/ m \in processed /\ goto("ack")                            \* duplicate
           \/ /\ m \notin processed /\ HasSession(f)
              /\ goto(IF Sealed(fr) /\ first THEN "mark"                 \* existing-session guard
                      ELSE IF Number(m) \in session[f] THEN "mark"       \* the AEAD fails
                      ELSE "commit")
           \/ /\ m \notin processed /\ ~ HasSession(f) /\ ~ first
              /\ retry /\ UNCHANGED faults
           \/ /\ m \notin processed /\ ~ HasSession(f) /\ first /\ ~ Sealed(fr)
              /\ goto(IF opkUsed[f] THEN "take" ELSE "commit")
           \/ /\ m \notin processed /\ ~ HasSession(f) /\ first /\ Sealed(fr)
              /\ \/ opkUsed[f] /\ goto("mark")                          \* X3DH without the key
                 \/ ~ opkUsed[f] /\ goto("commit")
                 \/ ~ opkUsed[f] /\ Fault /\ retry                      \* no bundle to verify with
        /\ UNCHANGED <<vars, senders, session, opkHeld, contacts, history, processed,
                       acked, torn>>

\* takeOneTimePreKeySecret: gone from the store before the message has decrypted.
TakeOneTimePreKey ==
    LET f == SenderOf(job.frame.id)
    IN  /\ job.pc = "take"
        /\ Goto(IF f \in opkHeld THEN "commit" ELSE "mark")
        /\ opkHeld' = opkHeld \ {f}
        /\ UNCHANGED <<vars, senders, chainq, session, contacts, history, processed, ghosts>>

\* Whoever completes a handshake and is no contact yet becomes one, after the session.
AfterCommit(m) ==
    IF Number(m) = 1 /\ SenderOf(m) \notin contacts THEN "contact" ELSE "append"

\* Mutant: the ratchet advance is not stored.
CommitSessionUnsaved ==
    /\ job.pc = "commit"
    /\ Goto(AfterCommit(job.frame.id))
    /\ UNCHANGED <<vars, senders, chainq, session, opkHeld, contacts, history, processed, ghosts>>

\* saveSession or saveSessionAt: the ratchet advance.
CommitSession ==
    LET m == job.frame.id
    IN  /\ job.pc = "commit"
        /\ session' = [session EXCEPT ![SenderOf(m)] = @ \cup {Number(m)}]
        /\ Goto(AfterCommit(m))
        /\ UNCHANGED <<vars, senders, chainq, opkHeld, contacts, history, processed, ghosts>>

\* Mutant: the handshake message stops at the contact.
AddContactOnly ==
    /\ job.pc = "contact"
    /\ contacts' = contacts \cup {SenderOf(job.frame.id)}
    /\ Goto("mark")
    /\ UNCHANGED <<vars, senders, chainq, session, opkHeld, history, processed, ghosts>>

AddContact ==
    /\ job.pc = "contact"
    /\ contacts' = contacts \cup {SenderOf(job.frame.id)}
    /\ Goto("append")
    /\ UNCHANGED <<vars, senders, chainq, session, opkHeld, history, processed, ghosts>>

AppendMessage ==
    /\ job.pc = "append"
    /\ history' = Append(history, job.frame.id)
    /\ Goto("mark")
    /\ UNCHANGED <<vars, senders, chainq, session, opkHeld, contacts, processed, ghosts>>

MarkProcessed ==
    /\ job.pc = "mark"
    /\ processed' = processed \cup {job.frame.id}
    /\ Goto("ack")
    /\ UNCHANGED <<vars, senders, chainq, session, opkHeld, contacts, history, ghosts>>

\* Mutant: acks on a socket without looking whether it is open.
SendAckAnywhere ==
    /\ job.pc = "ack"
    /\ job' = NoJob
    /\ \E s \in sockets :
          /\ Len(uplink[s]) < MaxUplink
          /\ uplink' = [uplink EXCEPT ![s] = Append(@, job.frame.id)]
          /\ acked' = acked \cup {job.frame.id}
    /\ UNCHANGED <<storage, sockets, alive, wire, sendSeq, submitted, seen, senders,
                   chainq, session, opkHeld, contacts, history, processed, torn, faults>>

\* sendAck: on whichever socket is open now, or not at all.
SendAck ==
    /\ job.pc = "ack"
    /\ job' = NoJob
    /\ \/ /\ alive = {} /\ UNCHANGED <<uplink, acked>>
       \/ \E s \in alive :
             /\ Len(uplink[s]) < MaxUplink
             /\ uplink' = [uplink EXCEPT ![s] = Append(@, job.frame.id)]
             /\ acked' = acked \cup {job.frame.id}
    /\ UNCHANGED <<storage, sockets, alive, wire, sendSeq, submitted, seen, senders,
                   chainq, session, opkHeld, contacts, history, processed, torn, faults>>

\* Killed here, a message is partly written: its one-time prekey or its ratchet step is
\* used up and the message itself is not in the history.
PartlyWritten ==
    \/ job.pc = "commit" /\ opkUsed[SenderOf(job.frame.id)] /\ Number(job.frame.id) = 1
    \/ job.pc \in {"contact", "append"}

\* The app is killed.  What IndexedDB holds survives.
Crash ==
    /\ Fault
    /\ torn' = IF PartlyWritten THEN torn \cup {job.frame.id} ELSE torn
    /\ chainq' = << >> /\ job' = NoJob
    /\ alive' = {}
    /\ wire' = [s \in Socks |-> << >>]
    /\ uplink' = [s \in Socks |-> << >>]
    /\ UNCHANGED <<storage, sockets, sendSeq, submitted, seen, senders,
                   session, opkHeld, contacts, history, processed, acked>>

\* A keystore write rejects.  The catch treats that like a failed AEAD: mark and ack.
\* When the mark rejects as well, so does the handler, and nothing is acked.
WriteFails ==
    /\ Fault
    /\ \/ /\ job.pc \in {"take", "commit", "contact", "append"}
          /\ torn' = torn \cup {job.frame.id}
          /\ Goto("mark")
       \/ /\ job.pc = "mark"
          /\ job' = NoJob
          /\ UNCHANGED torn
    /\ UNCHANGED <<vars, senders, chainq, session, opkHeld, contacts, history, processed,
                   acked>>

Client ==
    \/ Begin
    \/ TakeOneTimePreKey
    \/ CommitSession
    \/ AddContact
    \/ AppendMessage
    \/ MarkProcessed
    \/ SendAck

DeliveryNext ==
    \/ \E f \in Senders : \/ SendPlain(f) \/ SendWithoutKey(f) \/ HandOn(f)
                           \/ Accepted(f) \/ PostAgain(f) \/ FallBack(f)
                           \/ \E t \in Tokens : SendSealed(f, t)
    \/ \E p \in posted : HandleSeal(p)
    \/ \E s \in Socks : Reconnect(s) \/ Disconnect(s) \/ Receive(s)
    \/ Object
    \/ Client
    \/ Crash
    \/ WriteFails

DeliverySpec == DeliveryInit /\ [][DeliveryNext]_dvars

\* Event loops run what is ready, links carry what was sent while they last, the object
\* learns of dead sockets, the client reconnects.
FairDeliverySpec ==
    /\ DeliverySpec
    /\ WF_dvars(Client)
    /\ WF_dvars(Object)
    /\ \A s \in Socks : WF_dvars(Reconnect(s)) /\ WF_dvars(Receive(s))

-----------------------------------------------------------------------------
ClientTypeOK ==
    /\ mode \in Modes
    /\ nextN \in [Senders -> 1 .. MaxN + 1]
    /\ opkUsed \in [Senders -> BOOLEAN]
    /\ outbox \in [Senders -> Seq(Ids)]
    /\ posted \subseteq [id : Ids, relay : Relays, token : Tokens]
    /\ \A f \in Senders : call[f] = NoCall \/ call[f].relay \in Relays
    /\ chainq \in Seq(Frame)
    /\ job = NoJob \/ job \in [pc : {"take", "commit", "contact", "append", "mark", "ack"},
                               frame : Frame]
    /\ session \in [Senders -> SUBSET (1 .. MaxN)]
    /\ opkHeld \subseteq Senders /\ contacts \subseteq Senders
    /\ history \in Seq(Ids)
    /\ processed \subseteq Ids /\ acked \subseteq Ids
    /\ torn \subseteq Ids
    /\ faults \in Nat

(* Idempotent receive: however often a message is flushed, redelivered or  *)
(* sent again over the other path, and wherever the app was killed the     *)
(* time before, it is in the history at most once (isProcessed, the order  *)
(* of decryptIncoming's writes, the session-op chain).                     *)
ShownOnce == \A i, j \in DOMAIN history : history[i] = history[j] => i = j

(* On the from-stamped path a sender's messages enter the history in the   *)
(* order it sent them, across queueing, redelivery and lost messages: only *)
(* one whose own writing a fault interrupted can be overtaken.             *)
ShownInSendOrder ==
    ~ mode.token => \A i, j \in DOMAIN history :
        (i < j /\ SenderOf(history[i]) = SenderOf(history[j]))
            => Number(history[i]) < Number(history[j]) \/ history[j] \in torn

(* The server copy of a message is given up only when the message is in    *)
(* the history, unless a fault struck while that very message was being    *)
(* written: no reordering, redelivery or dropped link by itself ever turns *)
(* a message into an acked failure.                                        *)
AckedIsShown == \A m \in acked : m \in Shown \/ m \in torn

(* With its real client at the far end the object is Mailbox's: an ack     *)
(* only ever names a frame that was read from one of the owner's sockets.  *)
ActsAsDevice == Spec

\* The device has processed all there was for it on a live connection.
CaughtUp ==
    /\ alive # {}
    /\ \A s \in alive : wire[s] = << >> /\ uplink[s] = << >>
    /\ chainq = << >> /\ job = NoJob

IsQueued(m) == \E e \in queue : e.id = m

(* What the queue holds is shown in the end if the device keeps coming     *)
(* back and its connections last long enough, now and then, to catch up:   *)
(* provided the sender's first message made it, or is held as well.        *)
QueuedIsShown ==
    ([]<>CaughtUp /\ []<>(alive = {}))
        => \A m \in Ids :
              (IsQueued(m) /\ (HasSession(SenderOf(m)) \/ IsQueued(<<SenderOf(m), 1>>))) ~> m \in Shown
=============================================================================
