--------------------------- MODULE Conversations ---------------------------
(***************************************************************************)
(* What one device does with mail once it is decrypted (Chat.tsx, the      *)
(* message history of the keystore, contactRequests.ts, blocklist.ts).     *)
(*                                                                         *)
(* A conversation has a history in IndexedDB, rewritten whole by every     *)
(* change, a copy of it in the view and a summary in the list.  Mail       *)
(* arrives on the session-op chain; what the user taps, the sweep of       *)
(* expired messages and the fetch of an attachment run beside it.  A get   *)
(* and the put that follows it are two steps, and so is a load and the     *)
(* state update made from it.                                              *)
(***************************************************************************)
EXTENDS Naturals, Sequences, SequencesExt, FiniteSets

CONSTANTS
    Me, Peers, Groups,
    Creator,    \* per group: the peer who invites to it
    Posts,      \* ids of messages, retractions, receipts and invitations
    Info,       \* per post: [conv, from, kind, target, ts, expires]
    Modes,      \* the cases explored: mail to come, messages to send, who is known, what the
                \* user does and how often, restarts, whether the gate was seeded before
    None

Convs == Peers \cup Groups

ASSUME ConversationsAssumption ==
    /\ Peers \cap Groups = {} /\ Me \notin Convs /\ None \notin Convs \cup Posts
    /\ Creator \in [Groups -> Peers]
    /\ Info \in [Posts -> [conv : Convs, from : Peers \cup {Me},
                           kind : {"text", "media", "delete", "receipt", "invite"},
                           target : Posts \cup {None}, ts : Nat, expires : BOOLEAN]]
    /\ \A i \in Posts : Info[i].kind = "invite" => Info[i].conv \in Groups
    /\ \A m \in Modes :
          /\ m.mail \in [Peers -> Seq(Posts)] /\ m.own \in Seq(Posts)
          /\ \A p \in Peers : \A n \in DOMAIN m.mail[p] : Info[m.mail[p][n]].from = p
          /\ \A n \in DOMAIN m.own : Info[m.own[n]].from = Me
          /\ \A n, k \in DOMAIN m.own : m.own[n] = m.own[k] => n = k
          /\ m.known \subseteq Convs /\ m.acts \subseteq STRING
          /\ m.ops \in Nat /\ m.restarts \in Nat /\ m.seeded \in BOOLEAN

VARIABLES
    mode,       \* which of them this is
    hist,       \* per conversation: the stored history
    saved,      \* per conversation: the stored summary
    contacts,   \* the contacts and groups of the keystore
    handled,    \* ids marked processed
    cached,     \* attachments in the media cache
    accepted, pending, blocked, seeded,     \* the lists in localStorage
    view,       \* per conversation: messagesByContact, None when not there
    list,       \* per conversation: the summary in the list
    due,        \* summaries read from the keystore and not yet set
    active,     \* the open conversation
    found,      \* what the search dialog shows
    inbox,      \* per peer: mail the server holds for this device
    outbox,     \* messages the user has yet to send
    r2,         \* attachments the server holds
    op,         \* the task on the session-op chain
    task,       \* per kind: the handler under way beside it
    expired,    \* messages whose time has passed
    ops, restarts,
    approved,   \* who the user accepted, or had before the gate
    asked,      \* messages the user, or their sender, asked to be gone
    unread,     \* conversations with a message the user has not had open
    crossed,    \* conversations where a write or a load was overtaken by another
    slipped,    \* strangers, or contacts already held as a request, that the seeding accepted
    torn        \* conversations where a kill cut a handler short

stores == <<hist, saved, contacts, handled, cached>>
gate == <<accepted, pending, blocked, seeded>>
screen == <<view, list, due, active, found>>
world == <<mode, inbox, outbox, r2, expired, ops, restarts>>
ghosts == <<approved, asked, unread, crossed, slipped, torn>>
vars == <<stores, gate, screen, world, op, task, ghosts>>

Kinds == {"open", "erase", "retract", "sweep", "accept", "decline", "remove", "fetch"}
Idle == [at |-> "idle", id |-> None, conv |-> None, snap |-> <<>>, todo |-> <<>>]
Begin(at, id, c) == [Idle EXCEPT !.at = at, !.id = id, !.conv = c]
BeginRead(at, id, c) == [Begin(at, id, c) EXCEPT !.snap = hist[c]]

Init ==
    /\ mode \in Modes
    /\ hist = [c \in Convs |-> <<>>] /\ saved = [c \in Convs |-> None]
    /\ contacts = mode.known /\ handled = {} /\ cached = {}
    /\ accepted = (IF mode.seeded THEN mode.known ELSE {})
    /\ pending = {} /\ blocked = {} /\ seeded = mode.seeded
    /\ view = [c \in Convs |-> None] /\ list = [c \in Convs |-> None]
    /\ due = None /\ active = None /\ found = {}
    /\ inbox = mode.mail /\ outbox = mode.own
    /\ r2 = {i \in Posts : Info[i].kind = "media"}
    /\ op = Idle /\ task = [k \in Kinds |-> Idle]
    /\ expired = {} /\ ops = 0 /\ restarts = 0
    /\ approved = mode.known /\ asked = {} /\ unread = {}
    /\ crossed = {} /\ slipped = {} /\ torn = {}

-----------------------------------------------------------------------------
(* Histories.                                                              *)

Entry(i) == [id |-> i, deleted |-> FALSE, delivered |-> FALSE]
Ids(h) == {h[n].id : n \in 1 .. Len(h)}
Untouched(h, i) == \E n \in 1 .. Len(h) : h[n].id = i /\ ~h[n].deleted

\* deleteMessageLocal, and the filter of the view.
Without(h, ids) ==
    LET kept[n \in 0 .. Len(h)] ==
            IF n = 0 THEN <<>>
            ELSE IF h[n].id \in ids THEN kept[n - 1] ELSE Append(kept[n - 1], h[n])
    IN kept[Len(h)]

\* tombstoneMessage.
Tombstoned(h, i) == [n \in 1 .. Len(h) |-> [h[n] EXCEPT !.deleted = @ \/ h[n].id = i]]

\* updateMessageStatus.
Delivered(h, i) == [n \in 1 .. Len(h) |-> [h[n] EXCEPT !.delivered = @ \/ h[n].id = i]]

\* The put of a history read earlier.
Put(c, snap, h) ==
    /\ hist' = [hist EXCEPT ![c] = h]
    /\ crossed' = IF hist[c] = snap THEN crossed ELSE crossed \cup {c}

\* setMessagesByContact with a change to a conversation that is there.
Show(c, h) == [view EXCEPT ![c] = IF @ = None THEN None ELSE h]

ViewOf(c) == IF view[c] = None THEN <<>> ELSE view[c]

\* In the view, and not with all of its history: what is rendered before a conversation is
\* loaded makes it one that counts as loaded.
Partial(c) == view[c] # None /\ ~(Ids(hist[c]) \subseteq Ids(view[c]))

\* orderedVisibleMessages: what of it is drawn.
Visible(c) == IF c = None THEN {} ELSE {i \in Ids(ViewOf(c)) : i \notin expired}

Pop(p) == inbox' = [inbox EXCEPT ![p] = Tail(@)]

-----------------------------------------------------------------------------
(* Mail, on the session-op chain.                                          *)

\* Mutant: a contact counts as accepted.
GateByContact(c) ==
    IF c \in Peers /\ c \in blocked THEN "drop"
    ELSE IF c \in contacts THEN "render" ELSE "hold"

\* gateInbound for a peer, isGroupAccepted for a group.
Gate(c) ==
    IF c \in Peers /\ c \in blocked THEN "drop"
    ELSE IF c \in accepted THEN "render" ELSE "hold"

\* handleIncomingMessage, 'duplicate'.
TakeDuplicate(p) ==
    /\ op = Idle /\ inbox[p] # <<>> /\ Head(inbox[p]) \in handled
    /\ Pop(p)
    /\ UNCHANGED <<stores, gate, screen, mode, outbox, r2, expired, ops, restarts, op, task, ghosts>>

Take(p, kinds, next) ==
    /\ op = Idle /\ inbox[p] # <<>> /\ Head(inbox[p]) \notin handled
    /\ Info[Head(inbox[p])].kind \in kinds
    /\ op' = next

\* decryptIncoming adds an unknown sender as a contact, then appendMessage reads.
TakeMessage(p) ==
    /\ inbox[p] # <<>>
    /\ LET i == Head(inbox[p])
           c == Info[i].conv
       IN /\ c \in Groups => c \in contacts
          /\ Take(p, {"text", "media"}, BeginRead("append", i, c))
          /\ contacts' = contacts \cup {c}
    /\ UNCHANGED <<hist, saved, handled, cached, gate, screen, world, task, ghosts>>

AppendMessage ==
    /\ op.at = "append"
    /\ Put(op.conv, op.snap, Append(op.snap, Entry(op.id)))
    /\ handled' = handled \cup {op.id}
    /\ op' = [op EXCEPT !.at = "gate", !.snap = <<>>]
    /\ UNCHANGED <<saved, contacts, cached, gate, screen, world, task, approved, asked, unread, slipped, torn>>

Finish(at) ==
    /\ op.at = at
    /\ op' = Idle
    /\ Pop(Info[op.id].from)

\* 'render': the view gets the message, whatever it held of the conversation, and also when
\* it was erased with a declined backlog and the gate opened again since the append.
RenderMessage ==
    /\ Finish("gate") /\ Gate(op.conv) = "render"
    /\ view' = [view EXCEPT ![op.conv] = Append(ViewOf(op.conv), Entry(op.id))]
    /\ unread' = IF active = op.conv THEN unread ELSE unread \cup {op.conv}
    /\ crossed' = IF op.id \in asked THEN crossed \cup {op.conv} ELSE crossed
    /\ UNCHANGED <<stores, gate, list, due, active, found, mode, outbox, r2, expired, ops, restarts,
                   task, approved, asked, slipped, torn>>

\* Mutant: a request only from who is not a contact, and decryptIncoming has made them one.
HoldMessageOfStranger ==
    /\ Finish("gate") /\ Gate(op.conv) = "hold"
    /\ pending' = IF op.conv \in Peers \ contacts THEN pending \cup {op.conv} ELSE pending
    /\ UNCHANGED <<stores, accepted, blocked, seeded, screen, mode, outbox, r2, expired, ops, restarts,
                   task, ghosts>>

\* addPendingSender; a group's request was listed when its invitation came.
HoldMessage ==
    /\ Finish("gate") /\ Gate(op.conv) = "hold"
    /\ pending' = IF op.conv \in Peers THEN pending \cup {op.conv} ELSE pending
    /\ UNCHANGED <<stores, accepted, blocked, seeded, screen, mode, outbox, r2, expired, ops, restarts,
                   task, ghosts>>

\* Mutant: acked, and kept.
DropMessageUnpurged ==
    /\ Finish("gate") /\ Gate(op.conv) = "drop"
    /\ asked' = asked \cup {op.id}
    /\ UNCHANGED <<stores, gate, screen, mode, outbox, r2, expired, ops, restarts, task,
                   approved, unread, crossed, slipped, torn>>

\* 'drop': acked, then deleteMessageLocal.
DropMessage ==
    /\ op.at = "gate" /\ Gate(op.conv) = "drop"
    /\ op' = BeginRead("purge", op.id, op.conv)
    /\ asked' = asked \cup {op.id}
    /\ UNCHANGED <<stores, gate, screen, world, task, approved, unread, crossed, slipped, torn>>

PurgeMessage ==
    /\ Finish("purge")
    /\ Put(op.conv, op.snap, Without(op.snap, {op.id}))
    /\ cached' = cached \ {op.id}
    /\ UNCHANGED <<saved, contacts, handled, gate, screen, mode, outbox, r2, expired, ops, restarts,
                   task, approved, asked, unread, slipped, torn>>

\* canDelete, looked up in the sender's own conversation.
CanDelete(h, i, sender) ==
    /\ Info[i].target \in Ids(h)
    /\ Info[Info[i].target].from = sender

\* A retraction by a peer.
TakeDelete(p) ==
    /\ Take(p, {"delete"}, BeginRead("tombstone", Head(inbox[p]), p))
    /\ UNCHANGED <<stores, gate, screen, world, task, ghosts>>

ApplyDelete ==
    /\ Finish("tombstone")
    /\ LET i == Info[op.id].target
           c == op.conv
       IN IF CanDelete(op.snap, op.id, c) /\ Untouched(op.snap, i)
          THEN /\ Put(c, op.snap, Tombstoned(op.snap, i))
               /\ cached' = cached \ {i}
               /\ view' = Show(c, Tombstoned(ViewOf(c), i))
               /\ asked' = asked \cup {i}
          ELSE UNCHANGED <<hist, cached, view, crossed, asked>>
    /\ handled' = handled \cup {op.id}
    /\ UNCHANGED <<saved, contacts, gate, list, due, active, found, mode, outbox, r2, expired,
                   ops, restarts, task, approved, unread, slipped, torn>>

\* handleDeliveredFrame: a receipt is acked first and never marked processed.
TakeReceipt(p) ==
    /\ inbox[p] # <<>>
    /\ LET i == Info[Head(inbox[p])].target IN
          Take(p, {"receipt"}, IF i \in Ids(hist[p]) THEN BeginRead("status", i, p) ELSE Idle)
    /\ Pop(p)
    /\ UNCHANGED <<stores, gate, screen, mode, outbox, r2, expired, ops, restarts, task, ghosts>>

\* updateMessageStatus, then markDelivered.
ApplyReceipt ==
    /\ op.at = "status"
    /\ IF op.id \in Ids(op.snap)
       THEN Put(op.conv, op.snap, Delivered(op.snap, op.id))
       ELSE UNCHANGED <<hist, crossed>>
    /\ view' = Show(op.conv, Delivered(ViewOf(op.conv), op.id))
    /\ op' = Idle
    /\ UNCHANGED <<saved, contacts, handled, cached, gate, list, due, active, found, world, task,
                   approved, asked, unread, slipped, torn>>

\* A sender key for a group not seen before: the group is saved and the message marked.
TakeInvite(p) ==
    /\ inbox[p] # <<>>
    /\ LET i == Head(inbox[p]) IN
          /\ Take(p, {"invite"}, Begin("invited", i, Info[i].conv))
          /\ contacts' = contacts \cup {Info[i].conv}
          /\ handled' = handled \cup {i}
    /\ UNCHANGED <<hist, saved, cached, gate, screen, world, task, ghosts>>

\* addPendingGroup, unless it is accepted.
HoldInvite ==
    /\ Finish("invited")
    /\ pending' = IF op.conv \in accepted THEN pending ELSE pending \cup {op.conv}
    /\ UNCHANGED <<stores, accepted, blocked, seeded, screen, mode, outbox, r2, expired, ops, restarts,
                   task, ghosts>>

\* handleSendMessage and handleSendMedia to the open conversation, up to appendLocalMessage.
SendMessage ==
    /\ op = Idle /\ outbox # <<>> /\ active = Info[Head(outbox)].conv
    /\ outbox' = Tail(outbox)
    /\ op' = BeginRead("local", Head(outbox), active)
    /\ cached' = IF Info[Head(outbox)].kind = "media" THEN cached \cup {Head(outbox)} ELSE cached
    /\ UNCHANGED <<hist, saved, contacts, handled, gate, screen, mode, inbox, r2, expired, ops, restarts, task, ghosts>>

AppendLocalMessage ==
    /\ op.at = "local"
    /\ Put(op.conv, op.snap, Append(op.snap, Entry(op.id)))
    /\ view' = [view EXCEPT ![op.conv] = Append(ViewOf(op.conv), Entry(op.id))]
    /\ op' = Idle
    /\ UNCHANGED <<saved, contacts, handled, cached, gate, list, due, active, found, world, task,
                   approved, asked, unread, slipped, torn>>

-----------------------------------------------------------------------------
(* Summaries.                                                              *)

\* Mutant: drawing the list counts as reading what is in it.
SummaryOfReadAll(prev, e, read) ==
    [last |-> e.id, deleted |-> e.deleted, readTs |-> Info[e.id].ts]

\* summaryFromMessage.
SummaryOf(prev, e, read) ==
    LET before == IF prev = None THEN 0 ELSE prev.readTs
        ts == Info[e.id].ts
    IN [last |-> e.id, deleted |-> e.deleted, readTs |-> IF read /\ ts > before THEN ts ELSE before]

IsUnread(s) == s # None /\ Info[s.last].from # Me /\ Info[s.last].ts > s.readTs

\* What that effect makes of a conversation.
Derived(c) ==
    CASE view[c] = None -> list[c]
      [] view[c] = <<>> -> None
      [] OTHER -> SummaryOf(list[c], Last(view[c]), c = active)

Settled == \A c \in Convs : Derived(c) = list[c]

-----------------------------------------------------------------------------
(* What the user does, beside the chain.                                   *)

\* React runs the effects of an update before it handles the next input.
Act(kind) ==
    /\ kind \in mode.acts
    /\ Settled
    /\ ops < mode.ops
    /\ ops' = ops + 1

Handler(kind) == Act(kind) /\ kind \in Kinds /\ task[kind] = Idle
Becomes(kind, t) == task' = [task EXCEPT ![kind] = t]
Runs(kind, at) == task[kind].at = at

\* A chat can be picked when it is accepted; ContactList hides blocked contacts.
Listed(c) == c \in contacts /\ c \in accepted /\ c \notin blocked

\* handleSelectContact and handleSelectGroup, with the start of loadConversation.
Open(c) ==
    /\ Handler("open") /\ Listed(c) /\ active # c
    /\ active' = c
    /\ unread' = unread \ {c}
    /\ IF view[c] = None THEN Becomes("open", BeginRead("set", None, c)) ELSE UNCHANGED task
    /\ UNCHANGED <<stores, gate, view, list, due, found, mode, inbox, outbox, r2, expired, restarts,
                   op, approved, asked, crossed, slipped, torn>>

\* What is loaded is set after another change, or between the append of a message and what
\* the gate does with it: it is then shown twice, or shown and purged.
Overtaken(c, snap) ==
    IF hist[c] = snap /\ ~(op.at \in {"gate", "purge"} /\ op.conv = c)
    THEN crossed ELSE crossed \cup {c}

LoadConversation ==
    /\ Runs("open", "set")
    /\ LET t == task["open"] IN
          IF view[t.conv] = None
          THEN view' = [view EXCEPT ![t.conv] = t.snap] /\ crossed' = Overtaken(t.conv, t.snap)
          ELSE UNCHANGED <<view, crossed>>
    /\ Becomes("open", Idle)
    /\ UNCHANGED <<stores, gate, list, due, active, found, world, op, approved, asked, unread, slipped, torn>>

\* handleDeleteForMe.
Erase(i) ==
    /\ Handler("erase") /\ i \in Visible(active)
    /\ Becomes("erase", BeginRead("put", i, active))
    /\ asked' = asked \cup {i}
    /\ UNCHANGED <<stores, gate, screen, mode, inbox, outbox, r2, expired, restarts, op,
                   approved, unread, crossed, slipped, torn>>

EraseMessage ==
    /\ Runs("erase", "put")
    /\ LET t == task["erase"] IN
          /\ IF t.id \in Ids(t.snap)
             THEN Put(t.conv, t.snap, Without(t.snap, {t.id})) /\ cached' = cached \ {t.id}
             ELSE UNCHANGED <<hist, crossed, cached>>
          /\ view' = Show(t.conv, Without(ViewOf(t.conv), {t.id}))
    /\ Becomes("erase", Idle)
    /\ UNCHANGED <<saved, contacts, handled, gate, list, due, active, found, world, op,
                   approved, asked, unread, slipped, torn>>

\* handleDeleteForEveryone, up to its send.
Retract(i) ==
    /\ Handler("retract") /\ i \in Visible(active) /\ active \in Peers /\ Info[i].from = Me
    /\ Becomes("retract", BeginRead("put", i, active))
    /\ asked' = asked \cup {i}
    /\ UNCHANGED <<stores, gate, screen, mode, inbox, outbox, r2, expired, restarts, op,
                   approved, unread, crossed, slipped, torn>>

TombstoneMessage ==
    /\ Runs("retract", "put")
    /\ LET t == task["retract"] IN
          /\ IF Untouched(t.snap, t.id)
             THEN Put(t.conv, t.snap, Tombstoned(t.snap, t.id)) /\ cached' = cached \ {t.id}
             ELSE UNCHANGED <<hist, crossed, cached>>
          /\ view' = Show(t.conv, Tombstoned(ViewOf(t.conv), t.id))
    /\ Becomes("retract", Idle)
    /\ UNCHANGED <<saved, contacts, handled, gate, list, due, active, found, world, op,
                   approved, asked, unread, slipped, torn>>

\* The time of a disappearing message passes.
Expire(i) ==
    /\ Info[i].expires /\ i \notin expired /\ \E c \in Convs : i \in Ids(hist[c])
    /\ expired' = expired \cup {i}
    /\ UNCHANGED <<stores, gate, screen, mode, inbox, outbox, r2, ops, restarts, op, task, ghosts>>

\* Mutant: a message with no time of expiry does not pass the comparison with now.
KeptUnexpired(h) == SelectSeq(h, LAMBDA e : Info[e.id].expires /\ e.id \notin expired)

\* What sweepExpiredMessages keeps of a history.
Kept(h) == Without(h, expired)

\* One tick of the sweep, at one conversation.
Sweep(c) ==
    /\ task["sweep"] = Idle /\ Kept(hist[c]) # hist[c]
    /\ Becomes("sweep", [BeginRead("put", None, c) EXCEPT !.todo = Kept(hist[c])])
    /\ UNCHANGED <<stores, gate, screen, world, op, ghosts>>

SweepMessages ==
    /\ Runs("sweep", "put")
    /\ LET t == task["sweep"]
           gone == Ids(t.snap) \ Ids(t.todo)
       IN /\ Put(t.conv, t.snap, t.todo)
          /\ cached' = cached \ gone
          /\ view' = Show(t.conv, Without(ViewOf(t.conv), gone))
          /\ Becomes("sweep", [t EXCEPT !.at = "reconcile"])
    /\ UNCHANGED <<saved, contacts, handled, gate, list, due, active, found, world, op,
                   approved, asked, unread, slipped, torn>>

-----------------------------------------------------------------------------
(* The list of conversations.                                              *)

\* The effect over messagesByContact.  An empty view clears the summary, also when it is
\* partial: counted as crossed.
Derive ==
    /\ ~Settled
    /\ list' = [c \in Convs |-> Derived(c)]
    /\ saved' = [c \in Convs |-> IF Derived(c) = list[c] THEN saved[c] ELSE Derived(c)]
    /\ crossed' = crossed \cup {c \in Convs : view[c] = <<>> /\ Partial(c)}
    /\ UNCHANGED <<hist, contacts, handled, cached, gate, view, due, active, found, world, op, task,
                   approved, asked, unread, slipped, torn>>

\* listConversationSummaries resolves after a start.
LoadSummaries ==
    /\ due # None
    /\ list' = due /\ due' = None
    /\ crossed' = crossed \cup {c \in Convs : saved[c] = None /\ due[c] # None}
    /\ UNCHANGED <<stores, gate, view, active, found, world, op, task,
                   approved, asked, unread, slipped, torn>>

\* The end of the sweep's tick: the summary from what is left in the keystore.
SweepSummary ==
    /\ Runs("sweep", "reconcile")
    /\ LET c == task["sweep"].conv
           s == IF hist[c] = <<>> THEN None ELSE SummaryOf(list[c], Last(hist[c]), FALSE)
       IN /\ list' = [list EXCEPT ![c] = s]
          /\ saved' = IF s = list[c] THEN saved ELSE [saved EXCEPT ![c] = s]
    /\ Becomes("sweep", Idle)
    /\ UNCHANGED <<hist, contacts, handled, cached, gate, view, due, active, found, world, op, ghosts>>

-----------------------------------------------------------------------------
(* Requests, blocks and removal.                                           *)

\* seedAcceptedFromExisting, from the contacts and groups of the keystore.
Seed ==
    /\ ~seeded
    /\ accepted' = accepted \cup contacts
    /\ seeded' = TRUE
    /\ slipped' = (contacts \ approved) \cup (contacts \cap pending)
    /\ UNCHANGED <<stores, pending, blocked, screen, world, op, task,
                   approved, asked, unread, crossed, torn>>

\* acceptSender or acceptGroup, at the head of handleAcceptRequest and handleAcceptGroup.
Accept(c) ==
    /\ Handler("accept") /\ c \in pending
    /\ accepted' = accepted \cup {c}
    /\ pending' = pending \ {c}
    /\ approved' = approved \cup {c}
    /\ Becomes("accept", Begin("load", None, c))
    /\ UNCHANGED <<stores, blocked, seeded, screen, mode, inbox, outbox, r2, expired, restarts, op,
                   asked, unread, crossed, slipped, torn>>

AcceptLoads ==
    /\ Runs("accept", "load")
    /\ Becomes("accept", BeginRead("set", None, task["accept"].conv))
    /\ UNCHANGED <<stores, gate, screen, world, op, ghosts>>

\* The held backlog replaces whatever the view had.
AcceptShows ==
    /\ Runs("accept", "set")
    /\ LET t == task["accept"] IN
          view' = [view EXCEPT ![t.conv] = t.snap] /\ crossed' = Overtaken(t.conv, t.snap)
    /\ Becomes("accept", Idle)
    /\ UNCHANGED <<stores, gate, list, due, active, found, world, op, approved, asked, unread, slipped, torn>>

\* declineSender; declineGroup also declines whoever invited.
Decline(c) ==
    /\ Handler("decline") /\ c \in pending
    /\ LET who == {c} \cup (IF c \in Groups THEN {Creator[c]} ELSE {}) IN
          /\ pending' = pending \ who
          /\ accepted' = accepted \ who
          /\ blocked' = blocked \cup (who \cap Peers)
    /\ approved' = approved \ {c}
    /\ Becomes("decline", Begin("load", None, c))
    /\ UNCHANGED <<stores, seeded, screen, mode, inbox, outbox, r2, expired, restarts, op,
                   asked, unread, crossed, slipped, torn>>

\* loadMessages of what was held.
DeclineLoads ==
    /\ Runs("decline", "load")
    /\ LET t == task["decline"]
           held == hist[t.conv]
       IN /\ Becomes("decline", [t EXCEPT !.at = "read", !.todo = [n \in 1 .. Len(held) |-> held[n].id]])
          /\ asked' = asked \cup Ids(held)
    /\ UNCHANGED <<stores, gate, screen, world, op, approved, unread, crossed, slipped, torn>>

\* deleteMessageLocal for the next of them.
DeclineReads ==
    /\ Runs("decline", "read") /\ task["decline"].todo # <<>>
    /\ LET t == task["decline"] IN
          Becomes("decline", [t EXCEPT !.at = "put", !.id = Head(t.todo), !.snap = hist[t.conv],
                                       !.todo = Tail(t.todo)])
    /\ UNCHANGED <<stores, gate, screen, world, op, ghosts>>

DeclineErases ==
    /\ Runs("decline", "put")
    /\ LET t == task["decline"] IN
          /\ Put(t.conv, t.snap, Without(t.snap, {t.id}))
          /\ cached' = cached \ {t.id}
          /\ Becomes("decline", [t EXCEPT !.at = "read", !.snap = <<>>])
    /\ UNCHANGED <<saved, contacts, handled, gate, screen, world, op, approved, asked, unread, slipped, torn>>

\* The view goes, also one that a message came into when the gate opened again.
DeclineEnds ==
    /\ Runs("decline", "read") /\ task["decline"].todo = <<>>
    /\ LET c == task["decline"].conv IN
          /\ view' = [view EXCEPT ![c] = None]
          /\ crossed' = IF view[c] = None THEN crossed ELSE crossed \cup {c}
    /\ Becomes("decline", Idle)
    /\ UNCHANGED <<stores, gate, list, due, active, found, world, op, approved, asked, unread, slipped, torn>>

\* handleBlock and handleUnblock.
Block(p) ==
    /\ Act("block") /\ p \in contacts \cap accepted /\ p \notin blocked
    /\ blocked' = blocked \cup {p}
    /\ active' = IF active = p THEN None ELSE active
    /\ UNCHANGED <<stores, accepted, pending, seeded, view, list, due, found, mode, inbox, outbox, r2,
                   expired, restarts, op, task, ghosts>>

Unblock(p) ==
    /\ Act("block") /\ p \in contacts \cap accepted \cap blocked
    /\ blocked' = blocked \ {p}
    /\ UNCHANGED <<stores, accepted, pending, seeded, screen, mode, inbox, outbox, r2,
                   expired, restarts, op, task, ghosts>>

\* handleRemoveContact, from its removeContact: the contact goes, then the history and the
\* summary; the view when the new delivery token is out.
RemoveContact(p) ==
    /\ Handler("remove") /\ p \in contacts \cap accepted
    /\ contacts' = contacts \ {p}
    /\ Becomes("remove", BeginRead("wipe", None, p))
    /\ UNCHANGED <<hist, saved, handled, cached, gate, screen, mode, inbox, outbox, r2, expired,
                   restarts, op, ghosts>>

RemoveHistory ==
    /\ Runs("remove", "wipe")
    /\ LET c == task["remove"].conv IN
          /\ hist' = [hist EXCEPT ![c] = <<>>]
          /\ asked' = asked \cup Ids(hist[c])
          /\ crossed' = IF op.conv = c \/ Overtaken(c, task["remove"].snap) # crossed
                        THEN crossed \cup {c} ELSE crossed
          /\ saved' = [saved EXCEPT ![c] = None]
          /\ Becomes("remove", [task["remove"] EXCEPT !.at = "forget"])
    /\ UNCHANGED <<contacts, handled, cached, gate, screen, world, op, approved, unread, slipped, torn>>

RemoveFromView ==
    /\ Runs("remove", "forget")
    /\ LET c == task["remove"].conv IN
          /\ view' = [view EXCEPT ![c] = None]
          /\ list' = [list EXCEPT ![c] = None]
          /\ active' = IF active = c THEN None ELSE active
          /\ unread' = unread \ {c}
          /\ crossed' = IF saved[c] = None THEN crossed ELSE crossed \cup {c}
    /\ Becomes("remove", Idle)
    /\ UNCHANGED <<stores, gate, due, found, world, op, approved, asked, slipped, torn>>

-----------------------------------------------------------------------------
(* Attachments, search, restarts.                                          *)

Attached(i) ==
    /\ i \in Visible(active) /\ Info[i].kind = "media"
    /\ \A n \in 1 .. Len(view[active]) : view[active][n].id = i => ~view[active][n].deleted

\* A drawn attachment that is not cached is downloaded, if the server still holds it.
Fetch(i) ==
    /\ task["fetch"] = Idle /\ Attached(i) /\ i \notin cached /\ i \in r2
    /\ Becomes("fetch", Begin("store", i, active))
    /\ UNCHANGED <<stores, gate, screen, world, op, ghosts>>

\* Mutant: the server is told before it is known whether the attachment is still wanted.
StoreMediaAcked ==
    /\ Runs("fetch", "store")
    /\ cached' = IF Attached(task["fetch"].id) THEN cached \cup {task["fetch"].id} ELSE cached
    /\ Becomes("fetch", Begin("ack", task["fetch"].id, task["fetch"].conv))
    /\ UNCHANGED <<hist, saved, contacts, handled, gate, screen, world, op, ghosts>>

\* Cached when it is still drawn, dropped when not.
StoreMedia ==
    /\ Runs("fetch", "store")
    /\ LET i == task["fetch"].id IN
          IF Attached(i)
          THEN cached' = cached \cup {i} /\ Becomes("fetch", Begin("ack", i, task["fetch"].conv))
          ELSE Becomes("fetch", Idle) /\ UNCHANGED cached
    /\ UNCHANGED <<hist, saved, contacts, handled, gate, screen, world, op, ghosts>>

\* ackMediaFetched, best effort.
AckMedia(reached) ==
    /\ Runs("fetch", "ack")
    /\ r2' = IF reached THEN r2 \ {task["fetch"].id} ELSE r2
    /\ Becomes("fetch", Idle)
    /\ UNCHANGED <<stores, gate, screen, mode, inbox, outbox, expired, ops, restarts, op, ghosts>>

\* The search dialog indexes every history of the keystore.
Search ==
    /\ Act("search")
    /\ found' = {i \in Posts : \E c \in Convs : Entry(i) \in ToSet(hist[c])}
    /\ UNCHANGED <<stores, gate, view, list, due, active, mode, inbox, outbox, r2, expired, restarts,
                   op, task, ghosts>>

\* The tab is killed and opened again.  A message whose ratchet step is stored and whose
\* history is not comes back unreadable, and is acked away (Delivery.tla).
Restart ==
    /\ restarts < mode.restarts
    /\ restarts' = restarts + 1
    /\ op' = Idle /\ task' = [k \in Kinds |-> Idle]
    /\ view' = [c \in Convs |-> None] /\ list' = [c \in Convs |-> None]
    /\ due' = saved /\ active' = None /\ found' = {}
    /\ handled' = IF op.at = "append" THEN handled \cup {op.id} ELSE handled
    /\ torn' = torn \cup {c \in Convs : op.conv = c \/ (\E k \in Kinds : task[k].conv = c)
                                          \/ Derived(c) # list[c]}
    /\ UNCHANGED <<hist, saved, contacts, cached, gate, mode, inbox, outbox, r2, expired, ops,
                   approved, asked, unread, crossed, slipped>>

Next ==
    \/ \E p \in Peers :
          TakeDuplicate(p) \/ TakeMessage(p) \/ TakeDelete(p) \/ TakeReceipt(p) \/ TakeInvite(p)
    \/ AppendMessage \/ RenderMessage \/ HoldMessage \/ DropMessage \/ PurgeMessage
    \/ ApplyDelete \/ ApplyReceipt \/ HoldInvite \/ SendMessage \/ AppendLocalMessage
    \/ \E c \in Convs : Open(c) \/ Sweep(c) \/ Accept(c) \/ Decline(c)
    \/ \E i \in Posts : Erase(i) \/ Retract(i) \/ Expire(i) \/ Fetch(i)
    \/ LoadConversation \/ EraseMessage \/ TombstoneMessage \/ SweepMessages \/ SweepSummary
    \/ Derive \/ LoadSummaries \/ Seed
    \/ AcceptLoads \/ AcceptShows \/ DeclineLoads \/ DeclineReads \/ DeclineErases \/ DeclineEnds
    \/ \E p \in Peers : Block(p) \/ Unblock(p) \/ RemoveContact(p)
    \/ RemoveHistory \/ RemoveFromView
    \/ StoreMedia \/ (\E reached \in BOOLEAN : AckMedia(reached))
    \/ Search \/ Restart

Spec == Init /\ [][Next]_vars

-----------------------------------------------------------------------------
(* Properties.                                                             *)

Quiet == op = Idle /\ task = [k \in Kinds |-> Idle]
Undisturbed == Convs \ (crossed \cup torn)
Written(c) == {i \in handled \cup (ToSet(mode.own) \ ToSet(outbox)) : Info[i].conv = c}
InClockOrder(c, last) == \A i \in Written(c) \ {last} : Info[i].ts < Info[last].ts

\* Types of the state.
ConversationsTypeOK ==
    /\ \A c \in Convs : hist[c] \in Seq([id : Posts, deleted : BOOLEAN, delivered : BOOLEAN])
    /\ \A c \in Convs : view[c] = None \/ view[c] \in Seq([id : Posts, deleted : BOOLEAN, delivered : BOOLEAN])
    /\ accepted \cup pending \cup contacts \cup approved \subseteq Convs
    /\ blocked \subseteq Peers /\ handled \cup cached \cup r2 \subseteq Posts
    /\ active \in Convs \cup {None}

\* A message that was handled stays in the history of its conversation until the user or
\* its sender asks for it to go, its time passes, or its sender is turned away: the sweep,
\* the purges, receipts and retractions rewrite the whole record and take only their own.
HistoryIsKept ==
    Quiet => \A i \in handled :
        LET c == Info[i].conv IN
        (Info[i].kind \in {"text", "media"} /\ c \in Undisturbed)
            => i \in Ids(hist[c]) \cup asked \cup expired

\* What was asked to go is gone when the handlers have run: out of the history, or emptied
\* there, out of the view, and not the preview of a conversation in the view; but for those
\* where two rewrites of the history overlapped or a kill cut a handler short.
GoneIsGone ==
    (Quiet /\ Settled) =>
        \A i \in asked :
            LET c == Info[i].conv IN
            c \in Undisturbed =>
                /\ \A e \in ToSet(hist[c]) \cup ToSet(ViewOf(c)) : e.id = i => e.deleted
                /\ (view[c] # None /\ list[c] # None /\ list[c].last = i) => list[c].deleted

\* The unknown-sender gate: the view holds what peers wrote only in conversations that the
\* user accepted, or had before there was a gate.
RenderedIsAccepted ==
    \A c \in Convs : (view[c] # None /\ \E e \in ToSet(view[c]) : Info[e.id].from # Me)
        => c \in approved \cup slipped

\* A message that is held is a request the user can see: its sender, or its group, is on
\* the list of requests, or was accepted or turned away; or it is of a group from before
\* the gate, which the seeding is about to accept.
HeldIsPending ==
    Quiet => \A c \in Convs \ torn :
        (\E e \in ToSet(hist[c]) : Info[e.id].from # Me)
            => \/ c \in pending \cup accepted \cup blocked
               \/ c \in Groups /\ (Creator[c] \in blocked \/ (c \in contacts /\ ~seeded))

\* A message the user has not had open keeps its dot, whatever summary is loaded, derived or
\* reconciled by the sweep meanwhile, and after a restart; provided its sender's clock puts
\* it after what was shown before, and the view is not one that OpenIsWhole speaks of.
UnreadIsFlagged ==
    (Quiet /\ Settled /\ due = None) =>
        \A c \in unread \cap Undisturbed :
            (/\ hist[c] # <<>> /\ ~Partial(c)
             /\ Info[Last(hist[c]).id].from # Me /\ InClockOrder(c, Last(hist[c]).id)) => IsUnread(list[c])

\* The server's copy of an attachment goes only when this device has its own, or no longer
\* has the message.
FetchedIsKept ==
    \A i \in Posts : (Info[i].kind = "media" /\ i \notin r2)
        => i \in cached \/ i \in asked \cup expired

\* Nothing of a message that is held is displayed, in a conversation or elsewhere.
HeldIsUnseen == \A i \in found : Info[i].conv \in approved

\* What is open is shown whole: a conversation that is open shows its stored history.
OpenIsWhole ==
    (Quiet /\ Settled /\ active # None /\ active \in Undisturbed) => ~Partial(active)

\* A retracted message is not the preview of its conversation.
RetractedIsNotPreviewed ==
    (Quiet /\ Settled /\ due = None) =>
        \A c \in Undisturbed : \A e \in ToSet(hist[c]) :
            (e.deleted /\ list[c] # None /\ list[c].last = e.id) => list[c].deleted

=============================================================================
