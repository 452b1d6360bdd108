# FlatFold: verification

TLA+ modules of FlatFold's messaging core and of what surrounds it, TLC runs
that check them on small instances, and TLAPS proofs of what holds for every
instance. Paths below are relative to the repository.

## The system

FlatFold is an end-to-end encrypted messenger: a TypeScript client (web and a
Capacitor shell) and a Cloudflare Worker with one Durable Object per user, the
*Mailbox*, and a D1 database.

| Part | State | Operations | Talks to | Modules |
|---|---|---|---|---|
| Mailbox, receiving half (`worker/mailbox.ts`) | queued envelopes, TTL alarm, delivery tokens, receive counter, sockets | deliver, sealed deliver, register token, connect and flush, ack, alarm, purge, close | the owner's client over WebSocket; other Mailboxes; the Worker | `Mailbox`, `HeldMail` |
| Mailbox, sending half (`worker/mailbox.ts`) | promise chain, send counter in memory and storage | send, group send | D1 (blocks), the recipient's Mailbox | `SendChain` |
| Gateway (`worker/seal.ts`, `src/lib/sealedFetch.ts`) | pinned gateway key, relays | seal, post, retry, fall back to the socket | Mailboxes, clients | `Delivery` |
| Receive pipeline (`src/lib/messaging.ts`, `inboundDispatch.ts`, `pages/Chat.tsx`) | session-op chain, processed ids | route, decryptIncoming, ack, reconnect | keystore, Mailbox | `Delivery` |
| Session layer (`src/lib/sessionSet.ts`, `src/keystore/sessionRecord.ts`) | per contact up to three ratchet sessions and the current one; pending handshakes in memory | ensureSession, trial decryption, adopt, cap, replace on a key change | keystore, ratchet | `Sessions` |
| Cryptography (`src/crypto/`) | ratchet and sender-key states | X3DH, Double Ratchet with encrypted headers, sender keys | session layer | `Ratchet`, `Groups` |
| Groups (`src/lib/messaging.ts`, `pages/Chat.tsx`) | membership, own and received sender keys | create, accept, add, remove and rekey, send, receive | session layer, Mailbox | `Groups` |
| Accounts (`worker/index.ts`, `auth.ts`, `totp.ts`, `account.ts`) | D1: one row per user, with verifier, epoch, two-factor state, recovery verifier, published identity | signup, login, refresh, password change, recovery, two-factor, sign-out everywhere, terms, deletion, termination | the clients | `Accounts` |
| Credentials on a device (`contexts/AuthContext.tsx`, `keystore/identityRecord.ts`) | the identity record with its wrapped master key, cookie, passkey and biometric enrollments, the unlocked key of a tab | staged change of password, unlock, create, restore, enroll, wipe | the Worker, IndexedDB, Keychain | `Credentials` |
| Prekeys and delivery tokens (`worker/keys.ts`, `db.ts`, `prekeyReplenish.ts`, `sealToken.ts`) | one-time prekeys, own and peers' tokens, claim counters | replenish, look up, claim, rotate, register, distribute | Worker, Mailbox, identity document | `Bundles`, `Prekeys` |
| Conversations (`pages/Chat.tsx`, `contactRequests.ts`, `conversationSummary.ts`, `MediaAttachment.tsx`) | histories, summaries, request lists, view, media cache | gate, hold, accept, decline, block, erase, retract, sweep, receipts, open, fetch | keystore, Mailbox, R2 | `Conversations` |
| Push (`worker/push.ts`, `src/lib/push.ts`, `nativePush.ts`, `public/sw.js`) | subscriptions of browsers and native devices | subscribe, unsubscribe, reconcile, wake, prune | push services, Mailbox | `Push` |

How they interact: a send encrypts on the client's session-op chain, goes to
the sender's own Mailbox over its WebSocket, through that object's send chain
and the block check to the recipient's Mailbox, which sends it on live or
queues it, and wakes the recipient's devices when it queues. A sealed send
skips the sender's Mailbox: the client presents the recipient's delivery token
to the gateway, and the envelope has no sender. The recipient's client takes
each frame through `decryptIncoming` on its own chain, writes ratchet, contact,
history and processed id one after the other, and acks; the ack deletes the
queued copy. What was decrypted passes the gate for strangers and becomes an
entry of a history, of the view and of a summary. Sessions are built from
bundles the Worker hands out and the device refills. All of this is encrypted
under a master key that the password unwraps, and the server knows the same
password as a verifier.

What is hard: delivery is at least once; the receive is a sequence of separate
IndexedDB writes the app may be killed between; two transports with different
ordering feed one chain; handshakes ride only the first message of a session;
both users may build a session at once; counters live in memory and in storage
of an object that can be evicted; the alarm that enforces the TTL is one-shot.
Beside the chain, handlers rewrite whole records that it rewrites too. A change
of password and a rotation of a token each change two stores that nothing
updates together. Every D1 statement is atomic and no handler is.
`PROJECT.json` lists these hazards line by line, with the properties that would
catch them.

What makes each part correct:

- Mailbox: never more than the cap; the alarm is set whenever mail is stored;
  mail leaves only by an ack of a device that was handed it, by TTL or purge;
  one sender's frames are flushed and sent in order.
- Send chain: sequence numbers follow the order of submission and are never
  reused; calls do not overtake each other; a block holds; every send settles.
- Receive pipeline: shown at most once and in order, on whichever of three ways
  a copy comes; acked only when shown or torn by a fault; queued mail is shown.
- Sessions: crossed first messages are both read and both sides converge on one
  session; the current session is never evicted; none outlives its identity.
- Double Ratchet: a message is read at most once and, within the skip limits,
  can always be read; no key is used twice; every step replaces a key pair.
- Groups: a removed member holds no key that opens what is sent after the
  removal was taken in; all members end with one roster and each other's keys;
  no message is given up while the membership stays.
- Accounts and credentials: a token proves the present password of its account; the account's
  password opens the keystore; the identity served is the one held; a code
  works once.
- Prekeys and tokens: a first message that follows its bundle opens; keys go
  out once and within the limit; document, row and mailbox end with one token.
- Conversations: nothing leaves a history unasked, and what was asked to go is
  gone; strangers stay behind the gate and on the list of requests; unread
  conversations keep their dot; the server's copy of a file goes last.
- Push: who is registered is woken; rows go only for a reason; a device that
  wants wake-ups is registered again.

## The modules

`HeldMail` is the abstract specification of an offline queue. `Mailbox`
implements it. `Delivery` EXTENDS `Mailbox` and puts the real clients, the
gateway and its relays at both ends; that it stays within what `Mailbox` says of
its environment is a property of its own (`ActsAsDevice`). `SendChain` is the
other half of the object; `Delivery!HandOn` takes from it that one sender's
sends arrive in order. `Sessions` is the layer above: two users and the
sessions they hold for each other. `Ratchet` is one of those sessions from
inside, both ends of it. `Groups` is the layer on top: control payloads over
sessions, content from mailbox to mailbox. `Conversations` begins where
`Delivery` ends, with mail that was decrypted.

`Accounts` are the Worker's account handlers, statement by statement;
`Credentials` EXTENDS it with the devices of the user. `Bundles` is what the
Worker hands out about an account; `Prekeys` EXTENDS it with the owner's
identity document and the peers. `Push` has both ends in one module.

Modules that stand for several situations take a constant `Modes`, a set of
records, and pick one in the initial state: what is allowed and how often. A
run so checks several bounded instances at once without the product of all
their bounds; the MC module names each.

Some properties except what the code is known to let through. The exception is
then a variable that the step in question sets (a *ghost*: nothing of the code
reads it), so that the property still says that this is the only way: `torn`,
`lost`, `parted`, `unlisted`, `crossed`, `slipped`, `raced`, `stale`, `owing`. Each is
explained with its module; what the code does there is under "Where the code and
its comments disagree".

### Mailbox and HeldMail

`queue` is the set of stored envelopes with the parts of their key
(`envelope:{from}:{seq}:{id}` or `envelope:{recvSeq}:{id}`), `alarm` whether an
alarm is set, `sealTokens`, `recvSeq` and `sockets` the object's own state.
`alive`, `wire` and `uplink` are the network. The actions are the handlers:
`Deliver` is `handleDeliver`, `SealedDeliver` is `handleSealedDeliver`,
`RegisterToken`, `Connect` (the upgrade in `fetch` with `flushQueued`),
`HandleAck`, `Alarm`, `Purge`, `SocketClosed`. Each of them is one step because
all it awaits is storage, during which the runtime's input gate lets no other
event of the object run. `LinkDown`, `Tick`, `DeviceRead` and `DeviceAck` are
the environment. Ages are counted in sweep intervals and saturate above the
TTL; a sealed sender's own clock may be one interval off. A sealed envelope
arrives at most once through each of `Relays`, in any order with the rest.

Left out: the `delivered` notification of an ack, which is live-only and stores
nothing. The wake-up of a queued envelope is `Push!Wake`.

### SendChain

`webSocketMessage` is `Submit`; `handleSend`/`handleGroupSend` with
`nextSendSeq` are `TakeSeq`; `deliverTo` gives way twice, at D1 (`CheckBlock`)
and at the recipient's object (`Dispatch`, `Arrive`, `Reply`). `Fail` is an
exception at either, after which the tail of the chain is a rejected promise
(`poisoned`) and `SkipRejected` drops what is behind it. `Restart` is an
eviction or a crash: memory is lost, and with it a counter write that nothing
was sent after (the output gate). `Purge` wipes the stored counter under the
running chain.

### Delivery

A message is `<<sender, n>>`; `n = 1` carries the handshake. The sender waits
for a sealed send (`call`) whose requests are on their way (`posted`):
`SendSealed` posts through the primary relay, `PostAgain` through the fallback
when that failed, `FallBack` gives the frame to the socket, `Accepted` is a
reply, and `HandleSeal` serves a request whenever it arrives, also one that the
sender gave up. `SendWithoutKey` is a gateway key that cannot be had or is not
the pinned one, `SendPlain` a sender without a token.

`Begin` is `decryptIncoming` up to its first write, with its early returns
(duplicate, existing-session guard, failed AEAD, retry, anti-spoof fetch
failed); then `TakeOneTimePreKey`, `CommitSession`, `AddContact`,
`AppendMessage`, `MarkProcessed`, `SendAck` are its writes in the code's order.
`Crash` kills the app between any two of them; `WriteFails` rejects one, which
the catch treats like an AEAD failure. A message hit in the middle is `torn`.
The session is the set of message numbers it has consumed: a number consumed
twice fails.

### Sessions

A session is the X3DH run it comes from: who started it, their how-manieth, and
the generations of both identities. `sess[u]` is the stored set in order,
`cur[u]` the index of the one to send on, `pend[u]` the handshake that rides
the next send. `EnsureSession` and `Send` are apart because `handleAddMember`
runs them in two operations. `ReadHeld`, `Retry`, `Respond`, `RespondSealed`
are the branches of `decryptIncoming`; `Commit` is the commit of a handshake
(`replaceSessionSet`, `addSession` or `saveSession`, then the contact).
`CapSessions` and `AfterAdopting` translate `capSessions` and
`currentAfterAdopting`. `RemoveContact`, `Reinstall`, `Restart` and `Lose` are
what users, devices and the network do. The passing run never adds a known
contact a second time, which would replace its identity under the sessions.

### Ratchet

Keys are terms, so that equality of keys is equality of what they were derived
from, and an AEAD opens exactly when the keys are equal. The stored record is
`RatchetState` field by field. `RatchetEncrypt` is `ratchetEncrypt`;
`RatchetDecrypt` is `tryRatchetDecrypt` on a clone with its commit, split into
`OpensWithSkipped` (the cached keys), `OpensOnChain` (header trial, skip, step)
and `AfterDecrypt`. Any message sent may arrive any number of times, in any
order, damaged or not; that is what the layer below can do at worst, with faults.

### Groups

A sender key is its generation and an iteration. `roster[u]` is the group
record in `u`'s keystore, `own` and `recv` the sender keys, `accepted` the
accepted requests, `view` the creator's `activeGroup`. `ReceiveSenderKey`,
`ReceiveMembership` and `ReceiveContent` are `decryptIncoming` or
`decryptGroupMessage` with what the handler in `Chat.tsx` then sends; `cut` is
an app killed in between. `handleAddMember` and `handleRemoveMember` do not run
on the session-op chain as a whole, so they are jobs: `StartAdd`, `StartRemove`,
`TellNext`, `LoadNext`, `GiveNext`, `FinishChange`, and `AbandonChange` when a
send throws. What `Delivery` shows is assumed here: a control payload arrives
once, in order per sender. With `mode.sealed` control payloads and content
overtake each other, because they take different ways. A newcomer whose handler
loaded a key just before it was replaced is `stale`. `owing` are the members who
owe a new key since a handler was cut short: killed between marking a removal
and rotating, not reached by a handler that threw, the creator whose handler it
was, and whoever a change from the old screen then brings back (everybody, if
it drops another member by the way). A member's next new key settles it.

Left out: the writes inside one received group message, and the window in
`handleAcceptGroup` before it joins the chain. Declining is in `Conversations`.

### Accounts and Credentials

`Accounts` has one name: `row` is its row in `users` (verifier, epoch, whether
it is disabled, two-factor secret and mark, backup codes, recovery verifier,
published identity, and a generation that tells two accounts of one name apart
and that only properties read, as the server does not tell them apart; `born` counts
them and numbers the next). A handler is a job of a tab: `Authenticate` is
`readAuthenticatedUsername`, `Load` is rate limit, `getUser` and the Argon2id or
second factor that works on the row read, and then the write of its kind
(`Signup`, `Login`, `Me`, `ChangePassword`, `RecoveryReset`, `LogoutAll`,
`TwoFactorEnable`, `TwoFactorDisable`, `RecoveryEnroll`, `DeleteAccount`,
`AcceptTerms`, `PublishKeys`), with other requests in between. `Terminate` is an
operator's ban, `Tick` a TOTP period. A password, a code and a secret are values
nobody guesses; token lifetimes are left out: an expired token is one that is
never presented.

`Credentials` adds what is on a device: `rec` is the identity record (the wrap,
the staged second wrap, the master key, what it seals, the identity), `enrolled`
what passkey and biometrics release, `cookie`, and per tab `user`, `cached` and
`doc`, a save of the identity document under way. A change of password is
`StartChange`, `Stage` (a put before the server is told), the request,
`Receive` or `Lose`, then `FinalizeChange` or `RollbackChange`. `UnlockRead` and
`Unlock` are the two halves of `keystore.unlock`, `CreateIdentity` and
`RestoreFromRecovery` make a record, `Published` is the end of its publication,
`SaveDocRead` and `SaveDocPut` those of `saveDoc`. `UnlockPrompt` and
`UnlockWith` are the two sides of an OS prompt. `Crash` kills a tab; a request
that was sent may still be served.

Ghosts: `parted[d]` says why the record of a device and the account's password
need not agree (`reply lost` of a change, changed `elsewhere`, a `recovery` or a
new account that has not reached this record, a staged wrap `overwritten` by
another writer, also by an unlock with the old password after a crash between
the server's change and the finalizing), `unlisted[d]` the same of the identity and the published one,
`raced` that two verifications of a second factor overlapped.

### Bundles and Prekeys

`Bundles`: `pool` are the rows of `one_time_prekeys`, `offered` is
`users.seal_token`, `accepted` the tokens the mailbox takes, `claims` the
`rate_limits` rows of claims, `req` the requests. `CountKeys`, `ClampKeys`,
`AddKeys` are the statements of publishing, `RegisterWithObject` and
`RegisterInRow` those of registering a token, `Lookup`, `Claim`, `Consume` those
of a bundle; `Vanish` is a handler that stops between two of them, `Tick` the
next window. A request that was given up goes on (`Left`). `Counted` is the upsert
and the pruning in one step: a claim between the two could as well come before.

`Prekeys`: `doc` is the identity document (secrets, own token, contacts). Four
threads change it: the session-op chain, the replenishment, the token effect of
a connect and the removal of a contact. Each function of the keystore that does
is a `Change`, loaded (`LoadDoc`) and saved (`SaveDoc`) in two steps. `Connect`
to `EffectRegistered` is the effect in `Chat.tsx` (its two loads are one, and one
run is over before the next begins), `RemoveContact` to
`RemovalRegistered` the removal with its rotation, `Distribute` the new token
contact by contact; `Replenish` to `Replenished` the refill. A peer looks up
anonymously or, when that does not answer, authenticated (`LookupAnonymous`,
`LookupAuthenticated`) and sends one first message, which opens exactly when
both sides mix the same one-time prekey in (`Opens`). Ghosts: `lost` are
prekeys whose secret a save from an older copy once took back (another such save
may bring it back, too late for a message that came between), `torn` those
spent on a message that a kill cut short.

### Conversations

A post is a message, an attachment, a retraction, a receipt or an invitation.
`hist[c]` is the stored history, `saved[c]` the stored summary, `view[c]`
`messagesByContact`, `list[c]` the summary in the list, `op` the task on the
chain and `task` the handlers beside it. `TakeMessage`, `AppendMessage`, then
`RenderMessage`, `HoldMessage` or `DropMessage` with `PurgeMessage` are a
message through the append and the gate; `ApplyDelete`, `ApplyReceipt`,
`HoldInvite` the other kinds. `Open` and `LoadConversation`, `Erase` and
`EraseMessage`, `Retract` and `TombstoneMessage`, `Sweep` and `SweepMessages`
are the get and the put, or the load and the state update, of a handler.
`Derive` is the effect that keeps summaries, `LoadSummaries` the one that reads
them, `Seed` the upgrade of a device that had no lists. Ghosts: `crossed` are
conversations where one of two overlapping rewrites undid the other, or where
the gate opened or closed over a message being declined; `torn` those where a
kill cut a handler short; `slipped` strangers, and contacts already held as a
request, that the seeding took for contacts; `asked`, `expired`, `approved` and `unread` are what the
properties compare with.

### Push

An address is a browser's endpoint or a native device token. `row` are the two
subscription tables, `life` what the push service knows of an address, `device`
a device's account, address and settings, `job` the toggle of the dialog and the
reconciling at start, `wake` the calls of `sendWakeupToUser`. A toggle is
`Toggle`, `AskPermission`, `Address` or `NoAddress`, then `Serve`, `Refuse` or
`Break` and `TurnedOn` or `TurnedOff`; reconciling takes the same way. `Wake`
reads the browsers' table and `ReadDevices` the other one; `WakeBrowser`,
`WakeDevice` and `Unreachable` are one address each, with the retry in the other
environment of the native service and the pruning. The reply of the push service
and the row write it leads to are one step, although the code awaits in between:
an address that was disowned stays so and a token keeps its environment, so what
happens in between could as well have happened before.

## The runs

| Run | What it checks | Instance |
|---|---|---|
| `mailbox` | cap, alarm, order on the wire, HeldMail, expiry | one sender on both paths, two messages and a receipt, one relay, one socket, cap 2, TTL of one interval; purges, acks and sweeps at any time |
| `send_chain` | order, unique counters, blocks, progress | three sends, two peers, two faults, two blocks or purges |
| `delivery` | shown once, in order, acked means shown, a device Mailbox allows | three messages with one-time prekeys; two with two faults; one over two relays and the socket with two faults; two over one relay and the socket, without faults on two connections, with one fault on one |
| `delivery_live` | queued mail is shown | two messages, sealed or not, no faults, a link that comes and goes |
| `sessions` | crossed first messages and convergence, identity, the current session | six messages each without accidents; two each on both paths with two resets and a fault; room for two sessions |
| `ratchet` | read once, readable, fresh keys, healing | skip limit 1, two stored keys, three messages per chain, five roots |
| `groups` | lockout, convergence, no message given up | a creator and two others: three messages; a message and a change; three changes; two changes and an accident |
| `credentials` | tokens, passwords, identity, codes | two tabs of one device or of two, three passwords, up to four operations; eleven situations |
| `prekeys` | first messages open, claims, tokens settle | two peers, a pool with target 2 and ceiling 3, one claim per window, two tokens; seven situations |
| `conversations` | histories, deletions, gate, requests, dots, attachments | two peers and a group, up to four posts and three taps, one restart; twelve situations |
| `push` | wake-ups, pruning, registration | two devices and two accounts, two wake-ups, three addresses; eight situations |
| `first_contact_fallback` | ends in a violation, see below | the instance of `prekeys` |

The bounds are enough because what the properties are about happens inside
them: a queue at its cap with one more to come, a sequence reused after an
eviction, a flush with a live frame behind it, a redelivery after each of the
writes, a third copy of a message after the ack of the first, two crossed
handshakes with messages behind them in both directions, a third session with
room for two, a gap one above the skip limit on both sides of a ratchet step
and a full cache of skipped keys, a member removed, added and removed again
before the first removal has reached everybody, a change after one that was cut
short, a second change of password
while the first one waits for its reply, two lookups for the last prekey, a
third token when two are kept, a retraction on each side of the append it is
about, a native token that is replaced while its wake-up is tried in both
environments. `groups` has a skip limit and a cache of two and never more than
three messages, so that a gap comes up to the limit; what happens past it is in
`ratchet`, whose sender chains work alike. `delivery` does not combine sealed
sends and one-time prekeys: such a first contact is acked unread
(`first_contact_fallback`).

Each property of a passing run has a mutant of the code it is about, in the
module beside the definition it replaces; the run finds the mutant. The runs
leave the type invariants out: `TypeOK`, `ClientTypeOK`, `CredentialsTypeOK`,
`ConversationsTypeOK`, `PrekeysTypeOK` and `PushTypeOK` stand in the modules,
hold in the same instances, and say what each variable is. All but that of
`Prekeys` are proved.

Deadlock is not checked: every instance ends when its messages, faults and
operations are used up, and each may rest before that. That something does
happen is what the liveness properties say.

Fairness, and why the code justifies it:

- `SweepSpec` of Mailbox: time passes and a set alarm fires.
- `FairSpec` of SendChain: a promise that can run does and calls are answered;
  failures and restarts are not promised.
- `FairDeliverySpec`: the same of the client's chain and the object's handlers,
  and the client reconnects (the backoff in `ws.onclose`). That a connection now
  and then lasts long enough to catch up is a premise of `QueuedIsShown`, not an
  assumption of the specification.
- `Spec` of Prekeys: the Worker serves the requests it has, a thread that can go
  on does, and the client's socket breaks and comes back sooner or later, each
  time with the token effect.
- `Spec` of Push: the app is left and opened again, and what reconciling waits
  for happens: the system and the Worker answer. How often connections break is
  bounded by the situation, not by fairness.

### Where the code and its comments disagree

One run ends in a violation on purpose: `first_contact_fallback`. When the
anonymous lookup does not answer, `lookupBundle` (`src/lib/messaging.ts:87`)
takes the authenticated route, which hands out a one-time prekey and the
delivery token together; the first message then goes sealed, with a handshake
that mixes the key in and names it, but the sealed bootstrap of the receiver never
looks at that id (`:449`: "anon first-contact has NO one-time prekey"), so the
message does not open and is acked unread.

Stated in a module and refuted by TLC there, without a run of their own:

| Definition | Said | Does |
|---|---|---|
| `SendChain!FailureIsContained` | the client's chain, whose tail never rejects, mirrors the Mailbox's (`inboundDispatch.ts:66-70`) | one rejected send drops all later ones of that incarnation |
| `Sessions!CrossedIsDelivered` (with `MCSealed`) | holding both sessions is enough for crossed first messages (`sessionSet.ts:12-13`) | on the sealed path one is acked unread |
| `Sessions!KeyChangeIsFlagged` (with `MCReAdd`) | a known contact's new identity is recorded as a key change (`keystore/index.ts:663-665`) | adding it again overwrites it without a warning |
| `Groups!RotatedKeyComesFirst` (with `MCRekey`) | a rotated key applies before the messages that need it (`docs/ARCHITECTURE.md:791-792`) | it goes round by the creator; a message that is faster is acked unread |
| `Groups!LockedOut` (with `MCOverlap`) | membership changes are serialized, a removed member's keys are dead | a second change from the old screen: an addition takes the first one's newcomer off the roster again, whose handler still hands it the keys; a removal puts the first one's target back and hands it the next key |
| `Credentials!DeletedAccountFails` (with `MCReborn`) | a token of a deleted account fails the check (`worker/index.ts:123-124`) | the check compares name and epoch (`:126`), and every account begins with epoch 0 (`:163`): when the name is signed up again, a token another device kept of the deleted account is a session of the new one. `SessionProvesThePassword` excepts this and no more |
| `Conversations!HeldIsUnseen` | a held message is shown with no content (`contactRequests.ts:10`) | the search index is built from every history, held ones too |
| `Conversations!OpenIsWhole` | opening a conversation loads it | `loadConversation` returns early when a live message has made the view's entry |
| `Conversations!RetractedIsNotPreviewed` | a retracted message is emptied | in a conversation that is not loaded the stored summary keeps its text as preview |

Each of the exceptions in the properties is such a place as well:

- *Mailbox.* `worker/mailbox.ts:16-17` says every queued envelope has a 14-day
  TTL; a sealed delivered-receipt has no `ts`, so `envelope.ts < cutoff` is
  never true (`MessagesExpire` is stated without receipts).
- *Receive pipeline.* `worker/mailbox.ts:8-10` says an ack confirms that a
  message was decrypted and persisted; one torn by a crash between the ratchet
  write and the append, or by a rejected write, fails when it comes again and is
  acked (`torn` in `AckedIsShown`). `src/lib/messaging.ts:280-281` says the
  server keeps a message answered with `retry`; one that came live was never
  stored (the premise of `QueuedIsShown`).
- *Gateway.* `sealedFetch.ts` retries only failures of the transport, and a lost
  reply is one: the envelope is then stored twice, and the socket adds a third
  copy. `isProcessed` absorbs all of them, also the late ones (`ShownOnce`).
- *Groups.* `Chat.tsx:1168` says a newcomer gets every member's current sender
  key; it is loaded off the chain, and a rotation received before it is sent is
  overtaken by the old key (`stale` in `Converged`). `Chat.tsx:652-658` holds
  back every signal to the creator of a group that was not accepted; a `remove`
  of somebody else received meanwhile makes the client rotate and send its key.
  A removal whose handler is cut short is not taken up again: who did not rotate
  goes on under a key the removed member holds, until the next one (`owing` in
  `RemovedIsLockedOut`).
- *Change of password.* `worker/index.ts:284-285` says the client rolls back on
  a 4xx; `AuthContext.tsx:211` does on any error, and one of a lost reply leaves
  the keystore under the old password (`reply lost`). `saveDoc`
  (`keystore/index.ts:592`), an unlock that collapses, and a second tab put back
  a record they read before a wrap was staged or settled; after a crash between
  the server's change and the finalizing, an unlock with the old password settles
  the record on that one (all `overwritten`). A
  crash between the server's change and the finalizing leaves the passkey and
  biometric enrollments in place; a prompt begun before another tab's change
  enrolls after its revocation; a gesture for an old enrollment deletes a newer
  one (`keystore/index.ts:468`). All of them open the same master key.
- *Identity.* A publication that fails after `createIdentity`
  (`AuthContext.tsx:66`) is never tried again (`publish failed`); the same
  password then signs in to an account whose served keys nobody holds.
- *Codes.* Two verifications that overlap both accept one code (`raced`).
- *Identity document.* `prekeyReplenish.ts:15-18` says a published key's secret
  was stored; a save of an older copy takes it back (`lost`). The same overlap
  undoes an edit of a contact, a rotation, or the removal of a contact.
  Distribution of a new token stops at the first contact it cannot reach and
  is not taken up again (`Chat.tsx:583-587`). A claim counted in a window that a
  later request has pruned counts from nothing (`late` in `ClaimsAreLimited`,
  `db.ts:243`).
- *Conversations.* Two rewrites of one history overlap: the later put wins
  (`crossed`). A kill between append and gate leaves a held message without a
  request, or a blocked one in the history (`torn`). The seeding runs from the
  contacts, which a stranger's first message may have joined before
  (`slipped`). `handleDeleteForEveryone` says that a retraction goes out on the
  next connect (`Chat.tsx:541`) and `handleBlock` that the list re-syncs
  (`:177-178`); neither is tried again. The dot of a conversation compares the
  sender's clock with the last message shown (`InClockOrder` in
  `UnreadIsFlagged`).
- *Push.* On a shared device the row may be another account's, and a browser is
  told `subscribed` whatever the Worker answered (`push.ts:50-56`). A
  reconciling that races a turn-off registers the device again.

## The proofs

Theorems hold for every value of the constants that the module's assumption
allows: any users, messages, bounds and modes. None uses a fairness condition.
Each module proves one inductive invariant, `[Next]_vars` taken action by
action, and derives the run's properties from it.

`DeliveryProofs`, of `Mailbox` under `MailboxAssumption`:

- `TypeCorrect`, `CapHolds`, `AlarmHolds`: each invariant is inductive together
  with `TypeOK`. The cap needs that storing adds at most one envelope and aging
  none (`StoreType`, `TickCount`).
- `OrderHolds`: `WireInSendOrder` is not inductive, because a flush is in order
  only if keys are, and a live frame is in order only if it is above all before
  it. `OrderInv` adds that no two stored envelopes share a key (`KeysUnique`)
  and that a sender's counter is above every seq in the queue and on any wire
  (`QueueBelow`, `WireBelow`); `OrderInvHolds` proves it, `OrderHolds` follows.
- `MailboxImplementsHeldMail`: with `held` the stored envelopes and `handed`
  the ids the device has read, every step is a step of `HeldMail` or a stutter.
  It needs `OrderInv` (distinct envelopes are distinct items, and a put
  replaces none) and that acks under way name ids the device has read
  (`AcksSeen`).

and of `Delivery` under `DeliveryAssumption`:

- `DeliveryImplementsMailbox`: client, gateway and relays do only what
  `Mailbox` allows its environment (`ActsAsDevice`), so what is proved of
  `Mailbox` holds of the composition. `DInv` adds that requests are of relays
  and tokens there are and that what the chain holds was read from the wire.
- `OnceHolds`: a copy may come by three ways and again after each write, so
  `OnceInv` ties the history to the ratchet: what is shown was consumed by the
  session, and a message being written for the first time was not.
- `AckHolds`: `AckInv` says that processed, acked and consumed messages are
  settled (shown, torn or refused for good), but the one being written. The
  hypothesis `mode.token => ~ mode.opk` leaves out sealed first messages with a
  one-time prekey, which are acked unread (`first_contact_fallback`).
- `ShownOrderHolds`: job, chain and wire form one line to the history. `LineInv`
  says of a message that could still be shown that nothing later was consumed
  and that it stands in the line before anything later, behind what may start
  the session; redeliveries may follow. `NumberInv` says that seqs number the
  messages without gaps, `JobInv` that what is being written is the latest
  consumed. `PathInv` is about the socket path, as the property is: with a token
  two paths race.

`WorkerProofs`, of `SendChain` under `SendChainAssumption`:

- `SeqHolds`, `HandedOrderHolds`: a call in transit and one that arrived have to
  be compared with sends that have not called yet, so `IInv` says where each id
  is: waiting sends are in the order of submission and behind all that ran
  (`ChainInOrder`), the running one is later than every call but its own
  (`JobIsLatest`), at most one call of an incarnation is in transit
  (`OneInTransit`), and the counter is above every number given out since the
  last purge (`CounterIsAhead`).
- `BlockIsKept`: a call that arrives passed the check before the block, or is of
  those the block found on their way (`PassedInTime`).

and of `Push`:

- `WokenHolds`, `KeptHolds`: a wake-up works on rows it read earlier. `WakeInv`
  says of each address that was due what the rest of the wake-up still does with
  it, or that it is no longer alive or was asked to go; `AddressInv` that an
  address is of one device and of one kind, so that pruning one is pruning no
  other. `NoneAssumption` says that `None` is no account, address or device.

`SessionsProofs`, under `SessionsAssumption`:

- `IdentityHolds`: sessions are held only for somebody on record
  (`RecordBehindSessions`), and a handshake on its way to a user was begun by
  the other (`HandshakesAreThePeers`). The hypothesis
  `~ mode.reAdd` is needed: adding a known contact again overwrites the record
  under its sessions (`KeyChangeIsFlagged`).
- `CurrentHolds`: over lemmas about `CapSessions` and `AfterAdopting`; eviction
  keeps the current session if there is room for another one. The hypothesis
  `MaxSessions # 1` is needed; the program has room for three.
- `GlareHolds`: convergence is about both users at once, and a statement about
  rest. `Exchange` says where an undisturbed exchange may be: each user holds
  their own session first and then the peer's (`HoldsInOrder`), can read what is
  under way once what is ahead of it is read (`ReadableInTurn`), and has
  announced the session they send on, or will with the next message
  (`Announced`).

`RatchetProofs`, under `RatchetAssumption`:

- `ReadHolds`, `KeysHold`, `HealsHolds`, `UnreadHolds`. Keys are terms, and
  every key both ends hold is a function of how many Diffie-Hellman outputs were
  mixed into it. So the two ends stand in one line of chains that they take in
  turns, at most one apart (`TurnInv`); the stored state is a function of that
  place and of how far each chain is read (`KeyInv`), and a message of its chain
  and number (`MessageInv`, `SentInv`, `CountInv`, `ReceiveInv`). Fresh keys and
  healing follow from this `PlaceInv`. `StoreInv` accounts for the cache: of a
  message that was passed unread the key is there, or as many later ones as the
  cache holds came after it. From it follow that a key is used once and that
  within the limits no message is lost.

`CredentialsProofs`, of `Accounts` and `Credentials` together:

- `TokensHold`: a handler writes after it read, with others in between, so
  `TokenInv` says of tokens and of rows that were read that they are of no later
  account or epoch than the row, and of the same only with its password. `born`
  keeps accounts of one name apart; of an earlier one nothing is claimed, because
  the server accepts its tokens (`DeletedAccountFails`).
- `CodesHold`: `CodeInv` says that secrets are minted one by one, that a secret
  that is being enabled was never used, and that the row refuses what was spent,
  unless two verifications overlapped (`raced`). At most one is under way
  otherwise.
- `PasswordsHold`: a change of password lives in the record and in the account,
  and which of the two is ahead depends on how far the request is. `PasswordInv`
  says of a record that no ghost excepts that it seals what its own key opens,
  that one of its wraps is under the account's password, and which one, as long
  as a change is in flight (`StagedFor`), and that of two changes of one device
  one waits for the other.
- `IdentitiesHold`: `IdentityInv` says that what a device has on its way to the
  server is the identity it holds, and that without a publication under way the
  server has that one.

Both proofs began with counterexamples outside the run's modes: a tab that wipes
the device and starts over while another tab has a change or a publication in
flight. The ghosts now name these (`overwritten`), and the run has modes for them.

`GroupsProofs`, of `Groups`, under `GroupsAssumption`:

- `GroupTypesHold`: `GroupInv` is the type invariant with what frames and jobs
  may hold, and says that no generation of a key is held anywhere that its owner
  has not made (`GensOK`).
- `RemovalsHold`: `Locked` says that no key anywhere on its way to a removed user
  opens what a member sends who has taken the removal in and owes no new key. A
  key is renewed only by its owner, and no change hands a renewed key to somebody
  off the roster: `OneChange` says that one change runs at a time and works on
  the roster on record. A change may bring back a member with a key from before,
  which who was removed in between holds. While nothing was cut short (`Orderly`)
  that member has its own removal still to come: it hears of it from the creator,
  behind every key the creator relayed before, so `KeysLast` says that behind
  every key under way to a removed user there is the removal, and `LeftBehind`
  that who is off the roster and has a group has still to hear of it. After an
  interruption it need not, and a roster on the old screen may lack a member: what
  of that a change then brings back is `Overdue`, and owes. `Settled` says that
  nobody stops owing without a new key, and `AbandonChangeLocks` that a handler
  that threw leaves the rest locked.

`PrekeysProofs`, of `Bundles` and `Prekeys`:

- `OpensHolds`: a prekey goes from the replenishment over a request, the pool, a
  reply and a peer to a message, each hand-over under way beside the others.
  `ShelfInv` and `HandInv` say that it is in one of these places at a time, so
  that one message at most takes its secret; `SecretInv` that the secret of a
  key that is anywhere is in the document, or a ghost says what took it, so that
  the taking of one leaves all others; `OpeningInv` that the chain found the
  secret of the message it is at. `BundlesAssumption` says that `None` is no key.
- `ClaimsHold`: a request is granted a key in one statement and draws it in
  another. `ClaimInv` says that whoever was granted or drew one in a window is
  counted there, unless a later window pruned the count; then nothing drawn
  since counts (`late`).

`ConversationsProofs`, of `Conversations` under `ConversationsAssumption`:

- `ConversationTypesHold`: `TInv` adds to the types what each task was made
  from: the post a task of the chain is about is the head of its sender's mail,
  a history that was read is one, what the user sends is sent once. Of
  histories the proofs need which messages are in them and which are not
  emptied; `WithoutFilters` proves that of the recursive filter `Without`, by
  the least number at which it would fail.
- `HistoryHolds`, `FetchedHolds`: a handler writes what it computed from an
  earlier read, so `KeepInv` says of each that what it is about to take away was
  asked for or has expired, and that what it is about to tell the server is so
  (`Justified`).
- `HeldHolds`: `HeldInv` says of every history, and of every copy of one that a
  handler holds, that what peers wrote is of somebody the lists know, or the
  chain is at the gate with it (`MetInv`); and of a group the device has that it
  is a request or accepted, or its creator was turned away (`Seen`).
- `RenderedHolds`: `RenderInv` says the same of the view and of a load under way
  (`Shown`): its conversation was accepted, is no request, and is accepted still
  or blocked. A conversation that is accepted and requested at once was made so
  by the seeding (`slipped`).
- `GoneHolds`: a message that was asked to go is still there while a handler is
  on its way to it, so `GoneInv` says, of a conversation where no write was
  overtaken, that somebody is: whoever will take it out of the history
  (`Removing`) and out of the view (`Hiding`). A message that arrives while a
  deletion is under way could undo either; `PlaceInv` says that every copy of a
  history holds posts of its own conversation that cannot come again, because
  they are marked processed or were sent. A deletion does nothing when what it
  read does not have the message; `Finds` says that it then was not stored
  either.

The attempts at these showed what the run's modes did not reach: a gate that
opens over a message that a decline has erased, a contact held as a request
that the seeding accepts, a group from before the gate. The ghosts and
`HeldIsPending` now name these, and the run has modes for them.

Type correctness is proved of each of these modules (`TypeCorrect`,
`ClientTypeCorrect`, `GroupTypesHold`, `ConversationTypesHold`) but `Prekeys`: the tokens a mailbox accepts are filtered by `SelectSeq`,
of which nothing can be said without induction, and no proof needs them.

Only model-checked so far:

- `Converged` and `GroupLosesNothing` of `Groups`. The second is true only of
  modes with no more messages than a receiver may skip and store, as those of
  the run.
- `UnreadIsFlagged` of `Conversations`: it needs the order of a history and of
  clocks, in every copy a handler holds. The run shows it within its bounds and
  no more: `unread` is one flag per conversation, so in longer histories a
  message that was read can be the last one left after a later, unread one has
  expired, and the statement would then ask for a badge nobody owes. A proof
  would start by making `unread` a set of messages.

For good: liveness (`MessagesExpire`, `SendsSettle`, `QueuedIsShown`,
`TokenSettles`, `WantedIsRegistered`), because TLAPS has no rules for fairness
and ENABLED here. Induction theorems that take an operator cannot be used;
`ConversationsProofs` has one over sets of numbers instead. No module declares a
RECURSIVE operator.

## Plan

What is modelled follows the code's own division, and what is left of it is
listed below. Next are proofs, in this order:

1. `Groups`: `Converged`, over `LockInv`.
2. `Conversations`: `UnreadIsFlagged` with `unread` a set of messages, over
   `PlaceInv`.

## Not modelled, and why

- Cryptographic primitives, encodings, padding and the encapsulation of the
  gateway: taken as ideal; keys are terms or names. Rotation of the gateway key
  and the daily quota of a relay only decide whether a sealed send fails, which
  it may at any time here.
- Identity records of version 1, which exist until the first unlock.
- Upload, quota and expiry of media, and abuse reports: one put or insert of an
  immutable thing behind a limit.
- User interface, audio, haptics, native shell, shell integrity: no protocol
  state, or device I/O. Handlers that change state are in the modules.
- Two tabs over one ratchet session: `Credentials` has two tabs over one
  identity record, `Delivery` has one receiver per device.
- A restart between `ensureSession` and the send (`Sessions!Restart`) leaves a
  session the peer cannot read; no source promises otherwise, so nothing is
  stated of it.
- Open sockets at a sign-out everywhere, which outlive it
  (`worker/index.ts:481`), and the purge of a mailbox composed with the deletion
  of its rows: each side is modelled, in `Mailbox`, `SendChain` and `Accounts`.
- Counters of the rate limiter other than those of claims: a limit refuses
  whenever it likes.
- D1, Durable Object storage, IndexedDB, R2, Keychain and the push services are
  external: an atomic write each, which may fail, with the input and output
  gates of the runtime as the comments in `worker/mailbox.ts` describe them.
