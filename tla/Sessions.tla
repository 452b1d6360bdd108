------------------------------ MODULE Sessions ------------------------------
(***************************************************************************)
(* The ratchet sessions two users hold for each other (messaging.ts,       *)
(* sessionSet.ts, sessionRecord.ts, the session store of the keystore):    *)
(* lazily built by the first send, crossed when both send first (glare),   *)
(* thrown away with a contact or a device, replaced on a key change.       *)
(*                                                                         *)
(* A session is the X3DH run it comes from.  Whoever holds it reads what   *)
(* is sent on it: the ratchet itself is below this module, and redelivery  *)
(* and the writes inside one receive are in Delivery.tla.  A user's        *)
(* session operations run one at a time (createSessionOpChain), so each is *)
(* one action; handleAddMember builds a session in an operation of its own *)
(* before the one that sends, and so does EnsureSession here.              *)
(*                                                                         *)
(* Bound: frames of one direction arrive in the order they were sent.      *)
(***************************************************************************)
EXTENDS Integers, Sequences

CONSTANTS
    Lo, Hi,        \* the two users; 'lo' < 'hi'
    MaxSessions,   \* MAX_SESSIONS_PER_CONTACT
    Modes          \* the cases explored: do they hold each other's delivery token, may a
                   \* contact be added again, and bounds on the messages of each, on the
                   \* removed contacts and lost devices, on the restarts and lost frames

ASSUME SessionsAssumption ==
    /\ Lo # Hi
    /\ MaxSessions \in Nat \ {0}
    /\ Modes \subseteq [token : BOOLEAN, reAdd : BOOLEAN, sends : Nat, resets : Nat, faults : Nat]

Users == {Lo, Hi}
Peer(u) == IF u = Lo THEN Hi ELSE Lo

VARIABLES
    mode,       \* which of them this is
    identity,   \* the generation of a user's published identity and prekeys
    known,      \* the generation of the peer in the contact record, or Unknown
    warned,     \* has a key change of the peer been flagged
    sess,       \* the sessions held for the peer, oldest first
    cur,        \* the one to send on
    pend,       \* the handshake that rides the next send, in memory
    net,        \* frames on their way to a user
    kept,       \* frames answered 'retry', still in the user's mailbox
    built,      \* sessions a user has initiated
    sent,       \* messages a user has sent
    dropped,    \* has a user acked a message that was never shown
    resets, faults

store == <<known, warned, sess, cur>>
bounds == <<mode, built, sent, resets, faults>>
vars == <<identity, store, pend, net, kept, bounds, dropped>>

Unknown == -1
NoSession == [by |-> "nobody"]

\* An X3DH run: who started it, their how-manieth, and whose keys went into it.
Session == [by : Users, n : Nat, from : Nat, to : Nat]
Frame == [session : Session, x3dh : Session \cup {NoSession}, sealed : BOOLEAN]

Held(u) == {sess[u][i] : i \in DOMAIN sess[u]}
PeerIdentity(u, s) == IF s.by = u THEN s.to ELSE s.from

Init ==
    /\ mode \in Modes
    /\ identity = [u \in Users |-> 0]
    /\ known = [u \in Users |-> Unknown]
    /\ warned = [u \in Users |-> FALSE]
    /\ sess = [u \in Users |-> << >>]
    /\ cur = [u \in Users |-> 1]
    /\ pend = [u \in Users |-> NoSession]
    /\ net = [u \in Users |-> << >>]
    /\ kept = [u \in Users |-> << >>]
    /\ built = [u \in Users |-> 0]
    /\ sent = [u \in Users |-> 0]
    /\ dropped = [u \in Users |-> FALSE]
    /\ resets = 0
    /\ faults = 0

-----------------------------------------------------------------------------
(* The session store.                                                      *)

\* Mutant: the oldest go, whichever is in use.
CapSessionsBlind(all, current) ==
    IF Len(all) <= MaxSessions THEN <<all, current>>
    ELSE <<SubSeq(all, Len(all) - MaxSessions + 1, Len(all)), IF current > 1 THEN current - 1 ELSE 1>>

\* capSessions: <<sessions, current>> with the oldest dropped, but never the current one.
CapSessions(all, current) ==
    LET cut == Len(all) - MaxSessions
        keep == SubSeq(all, cut + 1, Len(all))
    IN  IF cut <= 0 THEN <<all, current>>
        ELSE IF current > cut THEN <<keep, current - cut>>
        ELSE <<[keep EXCEPT ![1] = all[current]], 1>>

\* Mutant: whoever adopts a session moves to it.
AfterAdoptingYield(u) == Len(sess[u]) + 1

\* currentAfterAdopting: the designated initiator, the lower name, stays.
AfterAdopting(u) == IF u = Lo THEN cur[u] ELSE Len(sess[u]) + 1

\* addSession.
AddSession(u, s) ==
    LET record == CapSessions(Append(sess[u], s), AfterAdopting(u))
    IN  /\ sess' = [sess EXCEPT ![u] = record[1]]
        /\ cur' = [cur EXCEPT ![u] = record[2]]

\* saveSession without a record, and replaceSessionSet.
OnlySession(u, s) ==
    /\ sess' = [sess EXCEPT ![u] = <<s>>]
    /\ cur' = [cur EXCEPT ![u] = 1]

-----------------------------------------------------------------------------
(* Sending.                                                                *)

\* ensureContact: identity and delivery token, no session.  addContact overwrites.
AddContact(u) ==
    /\ known[u] = Unknown \/ (mode.reAdd /\ known[u] # identity[Peer(u)])
    /\ known' = [known EXCEPT ![u] = identity[Peer(u)]]
    /\ warned' = [warned EXCEPT ![u] = FALSE]
    /\ UNCHANGED <<identity, sess, cur, pend, net, kept, bounds, dropped>>

\* ensureSession: X3DH against the published bundle, only when there is no session.
EnsureSession(u) ==
    LET s == [by |-> u, n |-> built[u], from |-> identity[u], to |-> identity[Peer(u)]]
    IN  /\ sess[u] = << >> /\ sent[u] < mode.sends
        /\ OnlySession(u, s)
        /\ known' = [known EXCEPT ![u] = identity[Peer(u)]]
        /\ warned' = [warned EXCEPT ![u] = FALSE]
        /\ pend' = [pend EXCEPT ![u] = s]
        /\ built' = [built EXCEPT ![u] = @ + 1]
        /\ UNCHANGED <<mode, identity, net, kept, sent, resets, faults, dropped>>

\* sendPayloadRaw and encryptForSend: on the current session, with the pending handshake.
Send(u) ==
    /\ sess[u] # << >> /\ sent[u] < mode.sends
    /\ \E sealed \in IF mode.token THEN BOOLEAN ELSE {FALSE} :
          net' = [net EXCEPT ![Peer(u)] =
                     Append(@, [session |-> sess[u][cur[u]],
                                x3dh |-> pend[u], sealed |-> sealed])]
    /\ pend' = [pend EXCEPT ![u] = NoSession]
    /\ sent' = [sent EXCEPT ![u] = @ + 1]
    /\ UNCHANGED <<mode, identity, store, kept, built, resets, faults, dropped>>

-----------------------------------------------------------------------------
(* decryptIncoming, for the next frame.                                    *)

KeyChanged(u, frame) ==
    frame.x3dh # NoSession /\ known[u] \notin {Unknown, frame.x3dh.from}

\* Some held session reads it: a plain frame is tried against them all unless the identity
\* changed, a sealed one only if it brings no handshake.
Reads(u, frame) ==
    /\ frame.session \in Held(u)
    /\ IF frame.sealed THEN frame.x3dh = NoSession ELSE ~ KeyChanged(u, frame)

\* The handshake is the one the message is encrypted under, and made for u's present keys.
Answers(u, frame) == frame.x3dh = frame.session /\ frame.x3dh.to = identity[u]

Take(u) == net[u] # << >> /\ net' = [net EXCEPT ![u] = Tail(@)]

Drop(u) == dropped' = [dropped EXCEPT ![u] = TRUE]

\* saveSessionAt: the message is shown and acked.
ReadHeld(u) ==
    /\ Take(u) /\ Reads(u, Head(net[u]))
    /\ UNCHANGED <<identity, store, pend, kept, bounds, dropped>>

\* Nothing reads it and it brings no handshake: 'retry', no ack.
Retry(u) ==
    LET frame == Head(net[u])
    IN  /\ Take(u) /\ ~ Reads(u, frame) /\ frame.x3dh = NoSession
        /\ kept' = [kept EXCEPT ![u] = Append(@, frame)]
        /\ UNCHANGED <<identity, store, pend, bounds, dropped>>

\* Mutant: a key change leaves the other sessions in place.
CommitBeside(u, s, changed) ==
    /\ IF sess[u] = << >> THEN OnlySession(u, s) ELSE AddSession(u, s)
    /\ known' = [known EXCEPT ![u] = s.from]
    /\ warned' = [warned EXCEPT ![u] = @ \/ changed]

\* The commit of a handshake that verified.
Commit(u, s, changed) ==
    /\ IF changed \/ sess[u] = << >> THEN OnlySession(u, s) ELSE AddSession(u, s)
    /\ known' = [known EXCEPT ![u] = s.from]
    /\ warned' = [warned EXCEPT ![u] = @ \/ changed]

\* A handshake on the plain path, for a session not held yet.
Respond(u) ==
    LET frame == Head(net[u])
    IN  /\ Take(u) /\ ~ Reads(u, frame) /\ frame.x3dh # NoSession /\ ~ frame.sealed
        /\ \/ /\ Answers(u, frame)
              /\ Commit(u, frame.x3dh, KeyChanged(u, frame)) /\ UNCHANGED dropped
           \/ /\ ~ Answers(u, frame)
              /\ Drop(u) /\ UNCHANGED store
        /\ UNCHANGED <<identity, pend, kept, bounds>>

\* A handshake on the sealed path: the existing-session guard, then the anti-spoof check
\* against the published bundle.
RespondSealed(u) ==
    LET frame == Head(net[u])
        accepted == /\ Answers(u, frame)
                    /\ KeyChanged(u, frame) \/ sess[u] = << >>
                    /\ frame.x3dh.from = identity[Peer(u)]
    IN  /\ Take(u) /\ frame.x3dh # NoSession /\ frame.sealed
        /\ \/ /\ accepted
              /\ Commit(u, frame.x3dh, KeyChanged(u, frame)) /\ UNCHANGED dropped
           \/ /\ ~ accepted
              /\ Drop(u) /\ UNCHANGED store
        /\ UNCHANGED <<identity, pend, kept, bounds>>

\* A reconnect flushes what the mailbox still holds.
Redeliver(u) ==
    /\ kept[u] # << >>
    /\ net' = [net EXCEPT ![u] = kept[u] \o @]
    /\ kept' = [kept EXCEPT ![u] = << >>]
    /\ UNCHANGED <<identity, store, pend, bounds, dropped>>

-----------------------------------------------------------------------------
(* What users and the world do to it.                                      *)

\* handleRemoveContact: contact record and sessions go, on this side only.
RemoveContact(u) ==
    /\ resets < mode.resets /\ resets' = resets + 1
    /\ known[u] # Unknown
    /\ known' = [known EXCEPT ![u] = Unknown]
    /\ warned' = [warned EXCEPT ![u] = FALSE]
    /\ sess' = [sess EXCEPT ![u] = << >>]
    /\ cur' = [cur EXCEPT ![u] = 1]
    /\ UNCHANGED <<mode, identity, pend, net, kept, built, sent, faults, dropped>>

\* A new device or cleared data: everything local is new (createIdentity).
Reinstall(u) ==
    /\ resets < mode.resets /\ resets' = resets + 1
    /\ identity' = [identity EXCEPT ![u] = @ + 1]
    /\ known' = [known EXCEPT ![u] = Unknown]
    /\ warned' = [warned EXCEPT ![u] = FALSE]
    /\ sess' = [sess EXCEPT ![u] = << >>]
    /\ cur' = [cur EXCEPT ![u] = 1]
    /\ pend' = [pend EXCEPT ![u] = NoSession]
    /\ UNCHANGED <<mode, net, kept, built, sent, faults, dropped>>

\* The app is restarted: pendingHandshakes is only a ref.
Restart(u) ==
    /\ faults < mode.faults /\ faults' = faults + 1
    /\ pend' = [pend EXCEPT ![u] = NoSession]
    /\ UNCHANGED <<mode, identity, store, net, kept, built, sent, resets, dropped>>

\* A live frame goes to a socket nobody is behind any more.
Lose(u) ==
    /\ faults < mode.faults /\ faults' = faults + 1
    /\ Take(u)
    /\ UNCHANGED <<mode, identity, store, pend, kept, built, sent, resets, dropped>>

Next ==
    \E u \in Users :
        \/ AddContact(u) \/ EnsureSession(u) \/ Send(u)
        \/ ReadHeld(u) \/ Retry(u) \/ Respond(u) \/ RespondSealed(u) \/ Redeliver(u)
        \/ RemoveContact(u) \/ Reinstall(u) \/ Restart(u) \/ Lose(u)

Spec == Init /\ [][Next]_vars

-----------------------------------------------------------------------------
TypeOK ==
    /\ mode \in Modes
    /\ identity \in [Users -> Nat]
    /\ known \in [Users -> Nat \cup {Unknown}]
    /\ warned \in [Users -> BOOLEAN]
    /\ sess \in [Users -> Seq(Session)]
    /\ \A u \in Users : Len(sess[u]) <= MaxSessions
    /\ cur \in [Users -> Nat \ {0}]
    /\ \A u \in Users : sess[u] # << >> => cur[u] \in DOMAIN sess[u]
    /\ pend \in [Users -> Session \cup {NoSession}]
    /\ net \in [Users -> Seq(Frame)] /\ kept \in [Users -> Seq(Frame)]
    /\ built \in [Users -> Nat] /\ sent \in [Users -> Nat]
    /\ dropped \in [Users -> BOOLEAN]
    /\ resets \in Nat /\ faults \in Nat

Undisturbed == resets = 0 /\ faults = 0
LosesNothing == \A u \in Users : ~ dropped[u] /\ kept[u] = << >>

Quiet ==
    \A u \in Users : net[u] = << >> /\ kept[u] = << >> /\ pend[u] = NoSession /\ sess[u] # << >>

(* Crossed first messages on the from-stamped path: neither of them nor    *)
(* any later one is acked unread or comes before what it takes to read it  *)
(* (trialDecryptSessions over all held sessions, addSession, the pending   *)
(* handshake); and once all is delivered both send on the same session     *)
(* (the tie-break, isDesignatedInitiator, currentAfterAdopting).           *)
GlareSettles ==
    Undisturbed /\ ~ mode.token =>
        /\ LosesNothing
        /\ Quiet => sess[Lo][cur[Lo]] = sess[Hi][cur[Hi]]

(* src/lib/sessionSet.ts:12-13 says that holding both sessions is enough   *)
(* for crossed first messages to be delivered, on whichever path.          *)
CrossedIsDelivered == Undisturbed => LosesNothing

(* No session outlives the identity it was made with: every session held   *)
(* for a contact belongs to the identity on record, so none stays a        *)
(* decrypt candidate for keys no longer trusted (replaceSessionSet).       *)
SessionsMatchIdentity ==
    \A u \in Users : \A i \in DOMAIN sess[u] : PeerIdentity(u, sess[u][i]) = known[u]

(* The session in use is given up only with the contact or its identity,   *)
(* never to make room for another (capSessions, addSession).               *)
CurrentIsKept ==
    [][\A u \in Users :
          (sess[u] # << >> /\ known'[u] = known[u]) => sess[u][cur[u]] \in Held(u)']_vars

(* src/keystore/index.ts:663-665 says a KNOWN contact's identity changes   *)
(* through recordKeyChange, so that the warning is raised.                 *)
KeyChangeIsFlagged ==
    [][\A u \in Users :
          (known[u] # Unknown /\ known'[u] # Unknown /\ known'[u] # known[u]) => warned'[u]]_vars
=============================================================================
