------------------------------- MODULE Groups --------------------------------
(***************************************************************************)
(* One group: sender keys, their distribution through the creator, and     *)
(* membership changes (src/crypto/senderKey.ts, the group half of          *)
(* src/lib/messaging.ts, and its callers in src/pages/Chat.tsx).           *)
(*                                                                         *)
(* A sender key is the how-manieth one its owner generated, at an          *)
(* iteration of its chain. Control payloads travel over the pairwise       *)
(* session, content straight to each member's mailbox; both arrive once    *)
(* and, from one sender, in order (Delivery), except that a control        *)
(* payload sent sealed may fall behind content or get ahead of it.         *)
(***************************************************************************)
EXTENDS Naturals, Sequences, SequencesExt, FiniteSets

CONSTANTS Creator, Others,
          MaxSkip,     \* DEFAULT_MAX_SKIP of senderKey.ts, 1000 in the code
          MaxStored,   \* MAX_SKIPPED_STORED of senderKey.ts, 2000 in the code
          Modes        \* what may happen in a run, see mode

ASSUME GroupsAssumption ==
    /\ Creator \notin Others
    /\ MaxSkip \in Nat /\ MaxStored \in Nat
    /\ Modes \subseteq [sealed : BOOLEAN, overlap : BOOLEAN, sends : Nat, changes : Nat,
                       faults : Nat]

VARIABLES
    mode,      \* sealed: control payloads take the gateway; overlap: the creator
               \* starts a change before the last is done; the others are bounds:
               \* messages, membership changes, interrupted handlers
    roster,    \* [Users -> SUBSET Users], the stored group record; {}: none
    accepted,  \* the users who accepted the group
    own,       \* [Users -> own sender key]
    made,      \* [Users -> Nat], sender keys generated so far
    recv,      \* [Users -> [Users -> received sender key]]
    view,      \* the members on the creator's screen (activeGroup)
    jobs,      \* membership changes the creator's handlers are in the middle of
    chan,      \* [Users \X Users -> Seq(Frame)]
    held,      \* [Users -> content not acked and still queued]
    said, readBy, failedBy,   \* history: messages sent, read, and acked unread
    knows,     \* history: sender keys each user was ever given
    stale,     \* history: <<user, owner>>, given a key that had been replaced by then
    owing,     \* history: who was cut short before the new key that a removal calls for
    faults, changes

vars == <<mode, roster, accepted, own, made, recv, view, jobs, chan, held,
          said, readBy, failedBy, knows, stale, owing, faults, changes>>

Users == {Creator} \cup Others

NoKey == [gen |-> 0, iteration |-> 0]
NoReceiver == [gen |-> 0, iteration |-> 0, skipped |-> {}]
IsKey(k) == k.gen # 0

SenderKey == [gen : Nat, iteration : Nat]
Receiver == [gen : Nat, iteration : Nat, skipped : SUBSET Nat]
Content == [kind : {"content"}, owner : Users, gen : Nat, iteration : Nat, to : SUBSET Users]
Distribution ==
    [kind : {"senderkey"}, owner : Users, gen : Nat, iteration : Nat, members : SUBSET Users]
Membership ==
    [kind : {"groupmembership"}, action : {"add", "remove"}, target : Users,
     members : SUBSET Users]
Frame == Content \cup Distribution \cup Membership

-----------------------------------------------------------------------------
(* Sender keys. *)

InitReceiver(f) == [gen |-> f.gen, iteration |-> f.iteration, skipped |-> {}]

\* The signature verifies and a key for the iteration is at hand.
Decrypts(r, f) ==
    /\ r.gen = f.gen
    /\ \/ f.iteration \in r.skipped
       \/ r.iteration <= f.iteration /\ f.iteration - r.iteration <= MaxSkip

\* A receiver that does not keep the keys it skips.
AfterReadingUncached(r, f) ==
    IF f.iteration \in r.skipped THEN [r EXCEPT !.skipped = @ \ {f.iteration}]
    ELSE [r EXCEPT !.iteration = f.iteration + 1]

\* The newest are kept: keys are cached in the order of their iterations.
Newest(skipped) == {i \in skipped : Cardinality({j \in skipped : i < j}) < MaxStored}

AfterReading(r, f) ==
    IF f.iteration \in r.skipped THEN [r EXCEPT !.skipped = @ \ {f.iteration}]
    ELSE [r EXCEPT !.iteration = f.iteration + 1,
                   !.skipped = Newest(@ \cup (r.iteration..(f.iteration - 1)))]

-----------------------------------------------------------------------------
(* What a handler sends: a set of <<to, frame>>, at most one to each.       *)

DistributionOf(owner, key, members) ==
    [kind |-> "senderkey", owner |-> owner, gen |-> key.gen,
     iteration |-> key.iteration, members |-> members]

\* distributeOwnSenderKeyRaw: the creator to all members, a member to the creator;
\* stored is the roster on record, which the payload carries.
DistributeOwn(u, key, members, stored) ==
    {<<m, DistributionOf(u, key, stored)>> :
        m \in (IF u = Creator THEN members ELSE {Creator}) \ {u}}

\* A creator that keeps its members' keys to itself.
RelayNone(u, owner, key, members) == {}

\* relaySenderKeyRaw: the creator passes on a member's key.
Relay(u, owner, key, members) ==
    IF u = Creator THEN {<<m, DistributionOf(owner, key, members)>> : m \in members \ {u, owner}}
    ELSE {}

Post(c, from, mail) ==
    [p \in Users \X Users |->
        LET mine == {x \in mail : p = <<from, x[1]>>}
        IN  IF mine = {} THEN c[p] ELSE Append(c[p], (CHOOSE x \in mine : TRUE)[2])]

Init ==
    /\ mode \in Modes
    /\ roster = [u \in Users |-> {}]
    /\ accepted = {}
    /\ own = [u \in Users |-> NoKey]
    /\ made = [u \in Users |-> 0]
    /\ recv = [u \in Users |-> [s \in Users |-> NoReceiver]]
    /\ view = {}
    /\ jobs = {}
    /\ chan = [p \in Users \X Users |-> << >>]
    /\ held = [u \in Users |-> {}]
    /\ said = {} /\ readBy = {} /\ failedBy = {}
    /\ knows = [u \in Users |-> {}]
    /\ stale = {} /\ owing = {}
    /\ faults = 0 /\ changes = 0

\* generateSenderKey.
Fresh(u) == [gen |-> made[u] + 1, iteration |-> 0]

\* createGroupLocal: the roster of a group made with the selected contacts.
RosterOf(selected) == {Creator} \cup selected

\* handleCreateGroup, with the distribution that follows on the chain.
CreateGroup(selected) ==
    LET members == RosterOf(selected)
    IN  /\ roster[Creator] = {} /\ made[Creator] = 0
        /\ roster' = [roster EXCEPT ![Creator] = members]
        /\ own' = [own EXCEPT ![Creator] = Fresh(Creator)]
        /\ made' = [made EXCEPT ![Creator] = @ + 1]
        /\ accepted' = accepted \cup {Creator}
        /\ chan' = Post(chan, Creator, DistributeOwn(Creator, Fresh(Creator), members, members))
        /\ view' = members
        /\ owing' = owing \ {Creator}
        /\ UNCHANGED <<mode, recv, jobs, held, said, readBy, failedBy, knows, stale, faults,
                       changes>>

\* The roster changes and the key stays.
RotateNot(u, c, members, stored) ==
    /\ chan' = c
    /\ UNCHANGED <<own, made, owing>>

\* rotateOwnSenderKey and the distribution of the new key; c are the channels.
Rotate(u, c, members, stored) ==
    /\ own' = [own EXCEPT ![u] = Fresh(u)]
    /\ made' = [made EXCEPT ![u] = @ + 1]
    /\ chan' = Post(c, u, DistributeOwn(u, Fresh(u), members, stored))
    /\ owing' = owing \ {u}

\* ensureOwnSenderKey, distributed if it was newly created, then what is relayed.
EnsureOwn(u, c, members, relayed) ==
    IF IsKey(own[u])
    THEN /\ chan' = Post(c, u, relayed)
         /\ UNCHANGED <<own, made, owing>>
    ELSE /\ own' = [own EXCEPT ![u] = Fresh(u)]
         /\ made' = [made EXCEPT ![u] = @ + 1]
         /\ chan' = Post(Post(c, u, DistributeOwn(u, Fresh(u), members, members)), u, relayed)
         /\ owing' = owing \ {u}

\* handleAcceptGroup.
AcceptGroup(u) ==
    /\ u \notin accepted /\ roster[u] # {}
    /\ accepted' = accepted \cup {u}
    /\ EnsureOwn(u, chan, roster[u], {})
    /\ UNCHANGED <<mode, roster, recv, view, jobs, held, said, readBy, failedBy, knows,
                   stale, faults, changes>>

\* sendGroupPayload: encrypted once, fanned out to everybody else.
SendGroupMessage(u) ==
    LET m == [kind |-> "content", owner |-> u, gen |-> own[u].gen,
              iteration |-> own[u].iteration, to |-> roster[u] \ {u}]
    IN  /\ roster[u] # {} /\ IsKey(own[u])
        /\ Cardinality(said) < mode.sends
        /\ own' = [own EXCEPT ![u].iteration = @ + 1]
        /\ chan' = Post(chan, u, {<<v, m>> : v \in m.to})
        /\ said' = said \cup {m}
        /\ UNCHANGED <<mode, roster, accepted, made, recv, view, jobs, held, readBy, failedBy,
                       knows, stale, owing, faults, changes>>

-----------------------------------------------------------------------------
(* Receiving. decryptIncoming writes the keystore and marks the frame, then *)
(* the caller in Chat.tsx sends what has to be sent; cut is an app that is  *)
(* killed in between.                                                       *)

\* The i-th frame under way is next: in order, but sealed control payloads and
\* content only among themselves.
IsNext(from, u, i) ==
    LET c == chan[<<from, u>>]
    IN  \/ i = 1
        \/ /\ mode.sealed
           /\ \A j \in 1..(i - 1) : (c[j].kind = "content") # (c[i].kind = "content")

Taken(from, u, i) == [chan EXCEPT ![<<from, u>>] = RemoveAt(@, i)]

Cut(cut) ==
    /\ cut => faults < mode.faults
    /\ faults' = IF cut THEN faults + 1 ELSE faults

\* A distribution is installed for a group we know if the creator relays it or we
\* are the creator, and for a new one if its creator invites us.
Installs(u, from, f) ==
    IF roster[u] # {} THEN Creator \in {u, from} ELSE from = Creator /\ u \in f.members

ReceiveSenderKey(u, from, i, cut) ==
    LET f == chan[<<from, u>>][i]
        c == Taken(from, u, i)
    IN  /\ f.kind = "senderkey" /\ IsNext(from, u, i)
        /\ Cut(cut)
        /\ IF Installs(u, from, f)
           THEN /\ roster' = [roster EXCEPT ![u] = IF @ = {} THEN f.members ELSE @]
                /\ recv' = IF f.owner = u THEN recv
                           ELSE [recv EXCEPT ![u][f.owner] = InitReceiver(f)]
                /\ IF cut \/ u \notin accepted
                   THEN chan' = c /\ UNCHANGED <<own, made, owing>>
                   ELSE EnsureOwn(u, c, roster'[u],
                                  IF f.owner = u THEN {}
                                  ELSE Relay(u, f.owner, recv'[u][f.owner], roster'[u]))
           ELSE chan' = c /\ UNCHANGED <<roster, recv, own, made, owing>>
        /\ knows' = [knows EXCEPT ![u] = @ \cup
                        {[owner |-> f.owner, gen |-> f.gen, iteration |-> f.iteration]}]
        /\ UNCHANGED <<mode, accepted, view, jobs, held, said, readBy, failedBy, stale, changes>>

ReceiveMembership(u, from, i, cut) ==
    LET f == chan[<<from, u>>][i]
        c == Taken(from, u, i)
    IN  /\ f.kind = "groupmembership" /\ IsNext(from, u, i)
        /\ Cut(cut)
        /\ CASE roster[u] = {} \/ from # Creator ->
                  chan' = c /\ UNCHANGED <<roster, recv, own, made, owing>>
             [] roster[u] # {} /\ from = Creator /\ f.action = "remove" /\ f.target = u ->
                  /\ roster' = [roster EXCEPT ![u] = {}]
                  /\ own' = [own EXCEPT ![u] = NoKey]
                  /\ recv' = [recv EXCEPT ![u] = [s \in Users |-> NoReceiver]]
                  /\ chan' = c
                  /\ UNCHANGED <<made, owing>>
             [] roster[u] # {} /\ from = Creator /\ f.action = "remove" /\ f.target # u ->
                  /\ roster' = [roster EXCEPT ![u] = f.members]
                  /\ recv' = [recv EXCEPT ![u][f.target] = NoReceiver]
                  /\ IF cut THEN chan' = c /\ owing' = owing \cup {u} /\ UNCHANGED <<own, made>>
                            ELSE Rotate(u, c, f.members, f.members)
             [] roster[u] # {} /\ from = Creator /\ f.action = "add" ->
                  /\ roster' = [roster EXCEPT ![u] = f.members]
                  /\ IF f.target = u /\ ~ cut THEN EnsureOwn(u, c, f.members, {})
                     ELSE chan' = c /\ UNCHANGED <<own, made, owing>>
                  /\ UNCHANGED recv
        /\ UNCHANGED <<mode, accepted, view, jobs, held, said, readBy, failedBy, knows, stale, changes>>

\* decryptGroupMessage; stays says that the queue holds what is not acked.
DecryptGroupMessage(u, f, stays) ==
    LET r == recv[u][f.owner]
        outsider == roster[u] # {} /\ f.owner \notin roster[u]
        retry == ~ outsider /\ r = NoReceiver
        reads == ~ outsider /\ r # NoReceiver /\ Decrypts(r, f)
    IN  /\ recv' = IF reads THEN [recv EXCEPT ![u][f.owner] = AfterReading(r, f)] ELSE recv
        /\ readBy' = IF reads THEN readBy \cup {<<u, f>>} ELSE readBy
        /\ failedBy' = IF outsider \/ retry \/ reads THEN failedBy ELSE failedBy \cup {<<u, f>>}
        /\ held' = [held EXCEPT ![u] = IF retry /\ stays THEN @ \cup {f} ELSE @ \ {f}]
        /\ UNCHANGED <<mode, roster, accepted, own, made, view, jobs, said, knows, stale, owing, faults,
                       changes>>

ReceiveContent(u, from, i, stays) ==
    /\ chan[<<from, u>>][i].kind = "content" /\ IsNext(from, u, i)
    /\ chan' = Taken(from, u, i)
    /\ DecryptGroupMessage(u, chan[<<from, u>>][i], stays)

Redeliver(u, f) ==
    /\ f \in held[u]
    /\ DecryptGroupMessage(u, f, TRUE)
    /\ UNCHANGED chan

-----------------------------------------------------------------------------
(* Membership changes: handleAddMember and handleRemoveMember run outside   *)
(* the session-op chain and join it once for each payload they send, so     *)
(* that anything may run in between. tell are the users the change has to   *)
(* be sent to, give the members whose keys the newcomer has to get, ready a *)
(* key that was loaded and is to be sent.                                   *)

Job == [action : {"add", "remove"}, target : Users, members : SUBSET Users,
        tell : SUBSET Users, give : SUBSET Users, ready : SUBSET Distribution]

\* A removal of x is under way to s.
Outstanding(s, x) ==
    \/ \E job \in jobs : job.action = "remove" /\ job.target = x /\ s \in job.tell \cup {Creator}
    \/ \E f \in ToSet(chan[<<Creator, s>>]) :
          f.kind = "groupmembership" /\ f.action = "remove" /\ f.target = x

\* Who owes a new key when the creator's roster becomes members: who comes back and will
\* not hear that it was removed, and everybody, if somebody but the target is not on it.
Overdue(target, members) ==
    {z \in members \ roster[Creator] : roster[z] # {} /\ ~ Outstanding(z, z)} \cup
        (IF roster[Creator] \subseteq members \cup {target} THEN {} ELSE Users)

MayChange == (mode.overlap \/ jobs = {}) /\ changes < mode.changes /\ view # {}

StartAdd(x) ==
    /\ MayChange /\ x \in Users \ view
    /\ LET updated == view \cup {x}
       IN  /\ roster' = [roster EXCEPT ![Creator] = updated]
           /\ jobs' = jobs \cup {[action |-> "add", target |-> x, members |-> updated,
                                  tell |-> updated \ {Creator}, give |-> view, ready |-> {}]}
           /\ owing' = owing \cup Overdue(x, updated)
    /\ changes' = changes + 1
    /\ UNCHANGED <<mode, accepted, own, made, recv, view, chan, held, said, readBy, failedBy,
                   knows, stale, faults>>

StartRemove(x) ==
    /\ MayChange /\ x \in view \ {Creator}
    /\ roster' = [roster EXCEPT ![Creator] = view \ {x}]
    /\ recv' = [recv EXCEPT ![Creator][x] = NoReceiver]
    /\ jobs' = jobs \cup {[action |-> "remove", target |-> x, members |-> view \ {x},
                           tell |-> view \ {Creator}, give |-> {}, ready |-> {}]}
    /\ owing' = owing \cup Overdue(x, view \ {x})
    /\ changes' = changes + 1
    /\ UNCHANGED <<mode, accepted, own, made, view, chan, held, said, readBy, failedBy,
                   knows, stale, faults>>

\* The removed member is told last.
TellNext(job, m) ==
    /\ m \in job.tell
    /\ job.action = "remove" /\ m = job.target => job.tell = {m}
    /\ jobs' = (jobs \ {job}) \cup {[job EXCEPT !.tell = @ \ {m}]}
    /\ chan' = Post(chan, Creator,
                    {<<m, [kind |-> "groupmembership", action |-> job.action,
                           target |-> job.target, members |-> job.members]>>})
    /\ UNCHANGED <<mode, roster, accepted, own, made, recv, view, held, said, readBy, failedBy,
                   knows, stale, owing, faults, changes>>

LoadNext(job, owner) ==
    LET key == IF owner = Creator THEN own[Creator] ELSE recv[Creator][owner]
    IN  /\ job.tell = {} /\ job.ready = {} /\ owner \in job.give
        /\ jobs' = (jobs \ {job}) \cup
              {[job EXCEPT !.give = @ \ {owner},
                           !.ready = IF IsKey(key)
                                     THEN {DistributionOf(owner, key, roster[Creator])}
                                     ELSE {}]}
        /\ UNCHANGED <<mode, roster, accepted, own, made, recv, view, chan, held, said, readBy,
                       failedBy, knows, stale, owing, faults, changes>>

GiveNext(job) ==
    /\ job.ready # {}
    /\ jobs' = (jobs \ {job}) \cup {[job EXCEPT !.ready = {}]}
    /\ chan' = Post(chan, Creator, {<<job.target, f>> : f \in job.ready})
    /\ stale' = stale \cup {<<job.target, f.owner>> : f \in
                    {g \in job.ready : g.gen #
                        (IF g.owner = Creator THEN own[Creator] ELSE recv[Creator][g.owner]).gen}}
    /\ UNCHANGED <<mode, roster, accepted, own, made, recv, view, held, said, readBy, failedBy,
                   knows, owing, faults, changes>>

\* After a removal the creator rotates its own key too; then the group is shown.
FinishChange(job) ==
    /\ job.tell = {} /\ job.give = {} /\ job.ready = {}
    /\ jobs' = jobs \ {job}
    /\ view' = job.members
    /\ IF job.action = "remove" THEN Rotate(Creator, chan, job.members, roster[Creator])
       ELSE UNCHANGED <<own, made, chan, owing>>
    /\ UNCHANGED <<mode, roster, accepted, recv, held, said, readBy, failedBy, knows, stale, faults,
                   changes>>

\* A send throws because the socket is closed, and with it the handler: who was not told of
\* a removal, and the creator, keep their keys.
AbandonChange(job) ==
    /\ faults < mode.faults
    /\ faults' = faults + 1
    /\ jobs' = jobs \ {job}
    /\ owing' = IF job.action = "remove" THEN owing \cup job.tell \cup {Creator} ELSE owing
    /\ UNCHANGED <<mode, roster, accepted, own, made, recv, view, chan, held, said, readBy,
                   failedBy, knows, stale, changes>>

\* handleSelectGroup: the creator opens the group again, as it is stored.
SelectGroup ==
    /\ view # roster[Creator]
    /\ view' = roster[Creator]
    /\ UNCHANGED <<mode, roster, accepted, own, made, recv, jobs, chan, held, said, readBy,
                   failedBy, knows, stale, owing, faults, changes>>

Receive ==
    \E u, from \in Users : \E i \in DOMAIN chan[<<from, u>>], b \in BOOLEAN :
        \/ ReceiveSenderKey(u, from, i, b)
        \/ ReceiveMembership(u, from, i, b)
        \/ ReceiveContent(u, from, i, b)

Change ==
    \/ \E x \in Users : StartAdd(x) \/ StartRemove(x)
    \/ \E job \in jobs :
          \/ \E m \in Users : TellNext(job, m) \/ LoadNext(job, m)
          \/ GiveNext(job)
          \/ FinishChange(job)
          \/ AbandonChange(job)
    \/ SelectGroup

Next ==
    \/ \E selected \in SUBSET Others : CreateGroup(selected)
    \/ \E u \in Users : AcceptGroup(u) \/ SendGroupMessage(u) \/ \E f \in held[u] : Redeliver(u, f)
    \/ Receive
    \/ Change

Spec == Init /\ [][Next]_vars

-----------------------------------------------------------------------------
(* Properties. *)

(* Keys, channels and changes under way are well formed, and the creator    *)
(* is in every roster that is stored (createGroupLocal).                    *)
TypeOK ==
    /\ mode \in Modes
    /\ roster \in [Users -> SUBSET Users]
    /\ \A u \in Users : roster[u] # {} => Creator \in roster[u]
    /\ accepted \subseteq Users
    /\ own \in [Users -> SenderKey] /\ made \in [Users -> Nat]
    /\ recv \in [Users -> [Users -> Receiver]]
    /\ view \subseteq Users
    /\ jobs \subseteq Job
    /\ chan \in [Users \X Users -> Seq(Frame)]
    /\ held \in [Users -> SUBSET Content]
    /\ said \subseteq Content
    /\ readBy \subseteq Users \X said /\ failedBy \subseteq Users \X said
    /\ stale \subseteq Users \X Users
    /\ faults \in Nat /\ changes \in Nat

\* Sender keys of s that x was given or is about to be.
UnderWay(x) ==
    {f \in UNION {ToSet(chan[<<p, x>>]) : p \in Users} : f.kind = "senderkey"}
Given(x, s) ==
    {k.gen : k \in {l \in knows[x] \cup {[owner |-> f.owner, gen |-> f.gen, iteration |-> f.iteration] :
                                            f \in UnderWay(x)} : l.owner = s}}

\* No key that x has, or is about to get, opens what s sends from now on.
Locks(s, x) == own[s].gen \notin Given(x, s)

(* Who was removed is locked out: once a member has taken a removal in, no *)
(* key the removed user has or is about to get opens what the member sends *)
(* from then on (rotateOwnSenderKey, relaySenderKeyRaw). Not one who was   *)
(* removed and added again and has yet to hear of both: it still sends     *)
(* with its old key, and gives that up with its own removal.               *)
LockedOut ==
    \A s \in roster[Creator] : \A x \in Users \ roster[Creator] :
        IsKey(own[s]) /\ ~ Outstanding(s, x) /\ ~ Outstanding(s, s) => Locks(s, x)

(* So it is in any series of changes, each begun when the one before was   *)
(* over: also of handlers that were cut short, but for the members who owe *)
(* a new key since. They are who was killed between marking a removal and  *)
(* rotating, who a thrown handler did not get to, the creator whose        *)
(* handler it was, and whom a change from the old screen then brings back; *)
(* if that change drops somebody by the way, all. Each owes until its next *)
(* new key, and nobody does as long as nothing was cut short.              *)
RemovedIsLockedOut ==
    ~ mode.overlap =>
        /\ \A s \in roster[Creator] \ owing : \A x \in Users \ roster[Creator] :
              IsKey(own[s]) /\ ~ Outstanding(s, x) /\ ~ Outstanding(s, s) => Locks(s, x)
        /\ faults = 0 => owing = {}

Quiet ==
    /\ \A p \in Users \X Users : chan[p] = << >>
    /\ jobs = {} /\ roster[Creator] # {}

(* When all is delivered the members have the creator's roster, the others  *)
(* have no group, and every member holds everybody's current key, except a  *)
(* newcomer whose handler loaded a key just before it was replaced.         *)
Converged ==
    ~ mode.overlap /\ mode.faults = 0 /\ Quiet =>
        /\ \A u \in Users : roster[u] = IF u \in roster[Creator] THEN roster[Creator] ELSE {}
        /\ \A u \in roster[Creator] : \A s \in roster[Creator] \ {u} :
              IsKey(own[s]) /\ <<u, s>> \notin stale => recv[u][s].gen = own[s].gen

(* While the membership stays as it is no message is given up: whoever it  *)
(* was sent to reads it, or does not ack it before the key of its sender   *)
(* comes.                                                                  *)
GroupLosesNothing == changes = 0 => failedBy = {}

(* docs/ARCHITECTURE.md:791-792 says that after a removal the rotated key  *)
(* applies before the messages that need it.                               *)
RotatedKeyComesFirst == failedBy = {}
=============================================================================
