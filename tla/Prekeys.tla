------------------------------ MODULE Prekeys ------------------------------
(***************************************************************************)
(* The identity document of one user (the keystore's doc: one-time prekey  *)
(* secrets, delivery token, contacts) and everything that rewrites it      *)
(* whole: the session-op chain and, beside it, the replenishment of the    *)
(* prekeys, the token effect of a connect and the removal of a contact.    *)
(* Peers look the user up at the Worker (Bundles.tla) and send the first   *)
(* message that the published halves are for.                              *)
(*                                                                         *)
(* Every function of the keystore that changes the document loads all of   *)
(* it, changes it and saves all of it, in two steps; what is saved last is *)
(* what is kept.  A peer sends one first message; sessions, later messages *)
(* and identities that change are those of Sessions.tla.                   *)
(***************************************************************************)
EXTENDS Bundles

CONSTANTS
    LowWater, Target,   \* LOW_WATER_MARK, TARGET_POOL
    Modes               \* the cases explored: what happens, how often, what there is at first

ASSUME PrekeysAssumption ==
    /\ LowWater \in Nat /\ Target \in Nat /\ LowWater < Target /\ Target <= Ceiling
    /\ Threads = {"chain", "replenish", "effect", "removal"}
    /\ Modes \subseteq [acts : SUBSET STRING, ops : Nat, kills : Nat, faults : Nat, looks : Nat,
                        keys : Nat, token : BOOLEAN, known : SUBSET Peers]

VARIABLES
    mode,     \* which of them this is
    doc,      \* the identity document in IndexedDB
    task,     \* per thread: what it is doing, the changes to make, the copy it loaded
    peer,     \* per peer: what it is doing, its copies of what it learned
    mail,     \* the first messages not yet processed
    failed,   \* those that were acked without having been opened
    made,     \* prekeys and tokens made so far
    lost,     \* prekeys whose secret a save once took back: it was made from an older copy
    torn,     \* prekeys spent on a message that was not marked as processed
    ops, kills, faults, looks

device == <<doc, task>>
ghosts == <<failed, made, lost, torn>>
limits == <<mode, ops, kills, faults, looks>>
vars == <<bundles, device, peer, mail, ghosts, limits>>

Rest == [at |-> "rest", todo |-> <<>>, snap |-> None, arg |-> None, with |-> None, rest |-> {}]
NewContact == [verified |-> FALSE, warned |-> FALSE, timer |-> FALSE, token |-> None]

Init ==
    /\ mode \in Modes
    /\ LET token == IF mode.token THEN 1 ELSE None
           keys == 1 .. mode.keys
       IN  /\ InitBundles(keys, token)
           /\ doc = [secrets |-> keys, token |-> token,
                     contacts |-> [p \in Peers |-> IF p \in mode.known THEN NewContact ELSE None]]
           /\ made = [keys |-> mode.keys, tokens |-> IF mode.token THEN 1 ELSE 0]
           /\ peer = [p \in Peers |-> [at |-> "rest", for |-> None, keys |-> {}, met |-> p \in mode.known,
                                       token |-> IF p \in mode.known THEN token ELSE None]]
    /\ task = [t \in Threads |-> Rest]
    /\ mail = {} /\ failed = {} /\ lost = {} /\ torn = {}
    /\ ops = 0 /\ kills = 0 /\ faults = 0 /\ looks = 0

May(act) == act \in mode.acts
Operate(act) == May(act) /\ ops < mode.ops /\ ops' = ops + 1 /\ UNCHANGED <<mode, kills, faults, looks>>

-----------------------------------------------------------------------------
(* The document: one change to it is one function of the keystore.         *)

\* Who: the contact it is about.  What: the value that is put there.
Change(do, who, what) == [do |-> do, who |-> who, what |-> what]

AddOneTimePreKeys(d, keys) == [d EXCEPT !.secrets = @ \cup keys]
TakeOneTimePreKey(d, key) == [d EXCEPT !.secrets = @ \ {key}]
SaveOwnSealToken(d, token) == [d EXCEPT !.token = token]
AddContact(d, who) == [d EXCEPT !.contacts[who] = NewContact]
DropContact(d, who) == [d EXCEPT !.contacts[who] = None]
SavePeerSealToken(d, who, token) == [d EXCEPT !.contacts[who].token = token]
SetDisappearingTimer(d, who, on) == [d EXCEPT !.contacts[who].timer = on]
SetVerified(d, who, yes) ==
    [d EXCEPT !.contacts[who].verified = yes, !.contacts[who].warned = @ /\ ~ yes]
AcknowledgeKeyChange(d, who) == [d EXCEPT !.contacts[who].warned = FALSE]

OfContact == {"verify", "timer", "acknowledge", "peertoken"}

\* The early returns: no such secret, no such contact.
Returns(c, d) ==
    \/ c.do = "take" /\ c.what \notin d.secrets
    \/ c.do \in OfContact /\ d.contacts[c.who] = None

Applied(c, d) ==
    CASE c.do = "take" -> TakeOneTimePreKey(d, c.what)
      [] c.do = "add" -> AddOneTimePreKeys(d, c.what)
      [] c.do = "own" -> SaveOwnSealToken(d, c.what)
      [] c.do = "contact" -> AddContact(d, c.who)
      [] c.do = "drop" -> DropContact(d, c.who)
      [] c.do = "peertoken" -> SavePeerSealToken(d, c.who, c.what)
      [] c.do = "timer" -> SetDisappearingTimer(d, c.who, c.what)
      [] c.do = "verify" -> SetVerified(d, c.who, c.what)
      [] c.do = "acknowledge" -> AcknowledgeKeyChange(d, c.who)

\* loadDoc.  The secret that a take found is what its caller goes on with.
LoadDoc(t) ==
    /\ task[t].todo # <<>> /\ task[t].snap = None
    /\ LET c == Head(task[t].todo)
           found == IF c.do = "take" THEN c.what \in doc.secrets ELSE task[t].with
       IN  task' = IF Returns(c, doc)
                   THEN [task EXCEPT ![t].todo = Tail(@), ![t].with = found]
                   ELSE [task EXCEPT ![t].snap = doc, ![t].with = found]
    /\ UNCHANGED <<bundles, doc, peer, mail, ghosts, limits>>

\* saveDoc: whatever has been saved since the load is gone.
SaveDoc(t) ==
    /\ task[t].snap # None
    /\ doc' = Applied(Head(task[t].todo), task[t].snap)
    /\ lost' = lost \cup (doc.secrets \ (task[t].snap.secrets \cup doc'.secrets))
    /\ task' = [task EXCEPT ![t].todo = Tail(@), ![t].snap = None]
    /\ UNCHANGED <<bundles, peer, mail, failed, made, torn, limits>>

\* A thread with no change left to make, at a place of its program.
Stands(t, at) == task[t].at = at /\ task[t].todo = <<>>
Goes(t, at, todo) == [task EXCEPT ![t].at = at, ![t].todo = todo]
Finished(t) == [task EXCEPT ![t] = Rest]

-----------------------------------------------------------------------------
(* prekeyReplenish.ts.                                                     *)

\* replenishPreKeysIfLow, on a mount of the chat: one at a time, and no sooner than half
\* an hour after the last count.
Replenish ==
    /\ Stands("replenish", "rest")
    /\ Operate("replenish")
    /\ Send("replenish", Request("count", {}, None))
    /\ task' = Goes("replenish", "counting", <<>>)
    /\ UNCHANGED <<pool, offered, accepted, claims, clock, handed, doc, peer, mail, ghosts>>

Fresh(n) == made.keys + 1 .. made.keys + n

\* Mutant: published while the document is still being saved.
ReplenishCountedEager ==
    /\ Stands("replenish", "counting") /\ Answered("replenish")
    /\ LET left == Cardinality(req[Live("replenish")].keys)
           keys == Fresh(Target - left)
       IN  IF req[Live("replenish")].ok /\ left <= LowWater
           THEN /\ task' = [task EXCEPT !["replenish"].at = "publishing",
                                        !["replenish"].todo = <<Change("add", None, keys)>>]
                /\ req' = [req EXCEPT ![Live("replenish")] = Request("add", keys, None)]
                /\ made' = [made EXCEPT !.keys = @ + Cardinality(keys)]
           ELSE task' = Finished("replenish") /\ Took("replenish") /\ UNCHANGED made
    /\ UNCHANGED <<pool, offered, accepted, claims, clock, handed, doc, peer, mail, failed, lost, torn, limits>>

\* The count is back: above the mark there is nothing to do; otherwise addOneTimePreKeys.
ReplenishCounted ==
    /\ Stands("replenish", "counting") /\ Answered("replenish")
    /\ LET left == Cardinality(req[Live("replenish")].keys)
           keys == Fresh(Target - left)
       IN  IF req[Live("replenish")].ok /\ left <= LowWater
           THEN /\ task' = [task EXCEPT !["replenish"].at = "saving", !["replenish"].arg = keys,
                                        !["replenish"].todo = <<Change("add", None, keys)>>]
                /\ made' = [made EXCEPT !.keys = @ + Cardinality(keys)]
           ELSE task' = Finished("replenish") /\ UNCHANGED made
    /\ Took("replenish")
    /\ UNCHANGED <<pool, offered, accepted, claims, clock, handed, doc, peer, mail, failed, lost, torn, limits>>

\* The secrets are in the document: the public halves go to the server.
PublishFresh ==
    /\ Stands("replenish", "saving")
    /\ Send("replenish", Request("add", task["replenish"].arg, None))
    /\ task' = Goes("replenish", "publishing", <<>>)
    /\ UNCHANGED <<pool, offered, accepted, claims, clock, handed, doc, peer, mail, ghosts, limits>>

\* Whatever came of it, the next mount counts again.
Replenished ==
    /\ Stands("replenish", "publishing") /\ Answered("replenish")
    /\ Took("replenish")
    /\ task' = Finished("replenish")
    /\ UNCHANGED <<pool, offered, accepted, claims, clock, handed, doc, peer, mail, ghosts, limits>>

-----------------------------------------------------------------------------
(* The delivery token.                                                     *)

NextToken == made.tokens + 1
MakesToken == made' = [made EXCEPT !.tokens = NextToken]
Own(token) == <<Change("own", None, token)>>

\* Mutant: only a token made by this connect is registered.
ConnectOnce ==
    /\ Stands("effect", "rest") /\ May("connect")
    /\ doc.token = None
    /\ MakesToken
    /\ task' = [task EXCEPT !["effect"].at = "saved", !["effect"].arg = NextToken,
                            !["effect"].with = TRUE, !["effect"].todo = Own(NextToken)]
    /\ UNCHANGED <<bundles, doc, peer, mail, failed, lost, torn, limits>>

\* The effect of a connect: ensureOwnSealToken, and was it this that made one?  The code
\* finds that out with a load of its own before; here the two are one load, and one run of
\* the effect is over before the next.
Connect ==
    /\ Stands("effect", "rest") /\ May("connect")
    /\ IF doc.token # None
       THEN /\ task' = [task EXCEPT !["effect"].at = "saved", !["effect"].arg = doc.token, !["effect"].with = FALSE]
            /\ UNCHANGED made
       ELSE /\ MakesToken
            /\ task' = [task EXCEPT !["effect"].at = "saved", !["effect"].arg = NextToken,
                                    !["effect"].with = TRUE, !["effect"].todo = Own(NextToken)]
    /\ UNCHANGED <<bundles, doc, peer, mail, failed, lost, torn, limits>>

\* apiRegisterSealToken, by the effect and by the removal of a contact.
Register(t) ==
    /\ Stands(t, "saved")
    /\ Send(t, Request("register", {}, task[t].arg))
    /\ task' = Goes(t, "registering", <<>>)
    /\ UNCHANGED <<pool, offered, accepted, claims, clock, handed, doc, peer, mail, ghosts, limits>>

\* The effect is done, or hands its new token to the contacts, unless the connection it ran
\* for is gone; a failure ends it.
EffectRegistered ==
    /\ Stands("effect", "registering") /\ Answered("effect")
    /\ Took("effect")
    /\ \/ task' = Finished("effect")
       \/ /\ req[Live("effect")].ok /\ task["effect"].with
          /\ task' = Goes("effect", "distribute", <<>>)
    /\ UNCHANGED <<pool, offered, accepted, claims, clock, handed, doc, peer, mail, ghosts, limits>>

\* handleRemoveContact: rotateOwnSealToken first.
RemoveContact(p) ==
    /\ Stands("removal", "rest") /\ doc.contacts[p] # None
    /\ Operate("remove")
    /\ MakesToken
    /\ task' = [task EXCEPT !["removal"].at = "saved", !["removal"].arg = NextToken,
                            !["removal"].with = p, !["removal"].todo = Own(NextToken)]
    /\ UNCHANGED <<bundles, doc, peer, mail, failed, lost, torn>>

\* Registered or not: the contact goes, and the rest hear of the new token.
RemovalRegistered ==
    /\ Stands("removal", "registering") /\ Answered("removal")
    /\ Took("removal")
    /\ task' = Goes("removal", "distribute", <<Change("drop", task["removal"].with, None)>>)
    /\ UNCHANGED <<pool, offered, accepted, claims, clock, handed, doc, peer, mail, ghosts, limits>>

\* distributeOwnSealTokenRaw joins the chain: the token and the contacts of that moment.
Distribute(t) ==
    /\ Stands(t, "distribute") /\ Stands("chain", "rest")
    /\ task' = [task EXCEPT ![t] = Rest,
                            !["chain"].at = "distributing", !["chain"].arg = doc.token,
                            !["chain"].rest = {p \in Peers : doc.contacts[p] # None}]
    /\ UNCHANGED <<bundles, doc, peer, mail, ghosts, limits>>

\* One contact hears of it, over the session; the first that does not ends it for the rest.
DistributeTo(p) ==
    /\ Stands("chain", "distributing") /\ p \in task["chain"].rest
    /\ \/ /\ peer' = [peer EXCEPT ![p].token = IF peer[p].met THEN task["chain"].arg ELSE @]
          /\ task' = [task EXCEPT !["chain"].rest = @ \ {p}]
          /\ UNCHANGED faults
       \/ /\ faults < mode.faults /\ faults' = faults + 1
          /\ task' = [task EXCEPT !["chain"].rest = {}]
          /\ UNCHANGED peer
    /\ UNCHANGED <<bundles, doc, mail, ghosts, mode, ops, kills, looks>>

-----------------------------------------------------------------------------
(* The session-op chain: one task at a time.                               *)

OnChain(at, todo) == task' = [task EXCEPT !["chain"] = [Rest EXCEPT !.at = at, !.todo = todo]]

\* A task of the user's about a contact.
Edit(p, todo) ==
    /\ Stands("chain", "rest")
    /\ Operate("edit")
    /\ OnChain("editing", todo)
    /\ UNCHANGED <<bundles, doc, peer, mail, ghosts>>

HandleSetVerified(p) == Edit(p, <<Change("verify", p, TRUE)>>)
HandleSetTimer(p) == Edit(p, <<Change("timer", p, TRUE)>>)
HandleAcknowledge(p) == Edit(p, <<Change("acknowledge", p, None)>>)

\* ensureContact, the answer of its lookup being there: rememberContact.
HandleAddContact(p) == Edit(p, <<Change("contact", p, None), Change("peertoken", p, 0)>>)

\* sendPayloadRaw, as far as this document goes: ensureOwnSealToken.
SendSomething ==
    /\ Stands("chain", "rest")
    /\ Operate("send")
    /\ doc.token = None
    /\ MakesToken
    /\ OnChain("editing", Own(NextToken))
    /\ UNCHANGED <<bundles, doc, peer, mail, failed, lost, torn>>

\* decryptIncoming begins on a first message: the secret of the prekey it names is taken;
\* the bootstrap of a sealed one takes none.
Receive(m) ==
    /\ Stands("chain", "rest") /\ m \in mail
    /\ task' = [task EXCEPT !["chain"] =
           [Rest EXCEPT !.at = "opening", !.arg = m, !.with = FALSE,
                        !.todo = IF m.sealed \/ m.key = None THEN <<>> ELSE <<Change("take", None, m.key)>>]]
    /\ UNCHANGED <<bundles, doc, peer, mail, ghosts, limits>>

\* The one-time prekeys mixed into the secret, initiateX3DH and respondX3DH.
Initiated(m) == IF m.key = None THEN {} ELSE {m.key}
Responded(m, secret) == IF ~ m.sealed /\ secret THEN {m.key} ELSE {}

\* The AEAD: both sides derived the same secret.
Opens(m, secret) == Initiated(m) = Responded(m, secret)

\* What opens makes its sender a contact; a bundle fetched against spoofing brings the token.
Opened ==
    /\ Stands("chain", "opening")
    /\ LET m == task["chain"].arg
           token == IF m.sealed THEN <<Change("peertoken", m.from, 0)>> ELSE <<>>
           contact == IF doc.contacts[m.from] = None THEN <<Change("contact", m.from, None)>> ELSE <<>>
       IN  IF Opens(m, task["chain"].with)
           THEN task' = Goes("chain", "commit", contact \o token) /\ UNCHANGED failed
           ELSE task' = Goes("chain", "commit", <<>>) /\ failed' = failed \cup {m}
    /\ UNCHANGED <<bundles, doc, peer, mail, made, lost, torn, limits>>

\* Processed either way, and acked.
Processed ==
    /\ Stands("chain", "commit")
    /\ mail' = mail \ {task["chain"].arg}
    /\ task' = Finished("chain")
    /\ UNCHANGED <<bundles, doc, peer, ghosts, limits>>

ChainDone ==
    /\ Stands("chain", "editing") \/ (Stands("chain", "distributing") /\ task["chain"].rest = {})
    /\ task' = Finished("chain")
    /\ UNCHANGED <<bundles, doc, peer, mail, ghosts, limits>>

\* The tab is closed, reloaded or killed.  The document is what the last save made it.
Kill ==
    /\ kills < mode.kills /\ kills' = kills + 1
    /\ req' = GivenUp(Threads)
    /\ torn' = IF task["chain"].at \in {"opening", "commit"} THEN torn \cup {task["chain"].arg.key} ELSE torn
    /\ task' = [t \in Threads |-> Rest]
    /\ UNCHANGED <<pool, offered, accepted, claims, clock, handed, doc, peer, mail, failed, made, lost,
                   mode, ops, faults, looks>>

-----------------------------------------------------------------------------
(* A peer: ensureContact and ensureSession at their end.                   *)

Learned(p, token, keys) ==
    IF peer[p].for = "add"
    THEN [peer EXCEPT ![p].at = "rest", ![p].token = IF token = None THEN None ELSE token]
    ELSE [peer EXCEPT ![p].at = "ready", ![p].token = token, ![p].keys = keys, ![p].met = TRUE]

\* handleAddContact, or the first send to somebody there is no session with.
StartLookup(p, for) ==
    /\ peer[p].at = "rest" /\ May("look") /\ looks < mode.looks
    /\ for = "send" => ~ peer[p].met
    /\ peer' = [peer EXCEPT ![p].at = "looking", ![p].for = for]
    /\ looks' = looks + 1
    /\ UNCHANGED <<bundles, device, mail, ghosts, mode, ops, kills, faults>>

\* lookupBundle: the anonymous fetch answers ...
LookupAnonymous(p) ==
    /\ peer[p].at = "looking"
    /\ peer' = Learned(p, AnonymousBundle.token, AnonymousBundle.keys)
    /\ UNCHANGED <<bundles, device, mail, ghosts, limits>>

\* No sealed reply: the gateway is over its global limit, or anything fails.
NoAnonymousReply == faults < mode.faults /\ faults' = faults + 1

\* ... or does not, and the authenticated one is made instead.
LookupAuthenticated(p) ==
    /\ peer[p].at = "looking"
    /\ NoAnonymousReply
    /\ Send(p, Request("lookup", {}, None))
    /\ peer' = [peer EXCEPT ![p].at = "asking"]
    /\ UNCHANGED <<pool, offered, accepted, claims, clock, handed, device, mail, ghosts, mode, ops, kills, looks>>

LookedUp(p) ==
    /\ peer[p].at = "asking" /\ Answered(p)
    /\ LET r == req[Live(p)] IN
       peer' = IF r.ok THEN Learned(p, r.token, r.keys) ELSE [peer EXCEPT ![p].at = "rest"]
    /\ Took(p)
    /\ UNCHANGED <<pool, offered, accepted, claims, clock, handed, device, mail, ghosts, limits>>

FirstMessage(p, sealed) ==
    [from |-> p, sealed |-> sealed,
     key |-> IF peer[p].keys = {} THEN None ELSE CHOOSE k \in peer[p].keys : TRUE]

\* The send: sealed with the token the peer holds, if the gateway can be reached; a token
\* that the mailbox does not know goes unnoticed.  Otherwise over the socket.
SendFirst(p) ==
    /\ peer[p].at = "ready"
    /\ \/ /\ peer[p].token # None
          /\ mail' = IF peer[p].token \in {accepted[i] : i \in DOMAIN accepted}
                     THEN mail \cup {FirstMessage(p, TRUE)} ELSE mail
          /\ UNCHANGED faults
       \/ /\ peer[p].token = None \/ faults < mode.faults
          /\ faults' = IF peer[p].token = None THEN faults ELSE faults + 1
          /\ mail' = mail \cup {FirstMessage(p, FALSE)}
    /\ peer' = [peer EXCEPT ![p].at = "rest", ![p].keys = {}]
    /\ UNCHANGED <<bundles, device, ghosts, mode, ops, kills, looks>>

\* The peer's app is killed while it waits, and looks up again later.
PeerKilled(p) ==
    /\ peer[p].at = "asking"
    /\ kills < mode.kills /\ kills' = kills + 1
    /\ req' = GivenUp({p})
    /\ peer' = [peer EXCEPT ![p].at = "rest"]
    /\ UNCHANGED <<pool, offered, accepted, claims, clock, handed, device, mail, ghosts, mode, ops, faults, looks>>

-----------------------------------------------------------------------------
Server ==
    /\ \/ \E s \in Slots : Serve(s)
       \/ May("tick") /\ Tick
    /\ UNCHANGED <<device, peer, mail, ghosts, limits>>

\* A fault of the network or the Worker.
Fault(s) ==
    /\ faults < mode.faults /\ faults' = faults + 1
    /\ Vanish(s)
    /\ UNCHANGED <<device, peer, mail, ghosts, mode, ops, kills, looks>>

Doc == \E t \in Threads : LoadDoc(t) \/ SaveDoc(t)

Effect == Connect \/ Register("effect") \/ EffectRegistered \/ Distribute("effect")

Removal == Register("removal") \/ RemovalRegistered \/ Distribute("removal")

Chain == (\E p \in Peers : DistributeTo(p)) \/ (\E m \in mail : Receive(m)) \/ Opened \/ Processed \/ ChainDone

Next ==
    \/ Server \/ (\E s \in Slots : Fault(s)) \/ Doc \/ Effect \/ Removal \/ Chain \/ Kill
    \/ Replenish \/ ReplenishCounted \/ PublishFresh \/ Replenished \/ SendSomething
    \/ \E p \in Peers :
          \/ RemoveContact(p) \/ HandleSetVerified(p) \/ HandleSetTimer(p)
          \/ HandleAcknowledge(p) \/ HandleAddContact(p)
          \/ StartLookup(p, "add") \/ StartLookup(p, "send")
          \/ LookupAnonymous(p) \/ LookupAuthenticated(p) \/ LookedUp(p) \/ SendFirst(p) \/ PeerKilled(p)

\* The Worker serves what it has, a thread that can go on does, and the socket of a client
\* that is used breaks and comes back sooner or later: each time the effect runs.
Fairness ==
    /\ \A s \in Slots : WF_vars(Serve(s) /\ UNCHANGED <<device, peer, mail, ghosts, limits>>)
    /\ \A t \in Threads : WF_vars(LoadDoc(t) \/ SaveDoc(t))
    /\ WF_vars(Effect) /\ WF_vars(Removal) /\ WF_vars(Chain)

Spec == Init /\ [][Next]_vars /\ Fairness

-----------------------------------------------------------------------------
PrekeysTypeOK ==
    /\ BundlesTypeOK
    /\ mode \in Modes
    /\ doc.secrets \subseteq Nat /\ doc.token \in Nat \cup {None}
    /\ doc.contacts \in [Peers -> [verified : BOOLEAN, warned : BOOLEAN, timer : BOOLEAN, token : Nat \cup {None}]
                                  \cup {None}]
    /\ lost \subseteq Nat /\ torn \subseteq Nat \cup {None}

(* A first message whose sender followed the bundle can be opened: no two  *)
(* of them were given the same one-time prekey and none was published      *)
(* before its secret was saved, however replenishment, lookups, kills and  *)
(* lost requests interleave.  What is left are a secret that an overtaken  *)
(* save took back, one spent on a message whose processing a kill cut      *)
(* short, and a sealed message that names a prekey.                        *)
FirstMessageOpens ==
    \A m \in failed : m.key \in lost \cup torn \/ (m.sealed /\ m.key # None)

(* However connects, rotations, lost requests, crashed handlers and        *)
(* overtaken saves leave the copies, in the end the token that lookups     *)
(* hand out is the one in the document and the first the mailbox accepts.  *)
TokenSettles ==
    May("connect") =>
        <>[](offered = doc.token /\ accepted # <<>> /\ Head(accepted) = doc.token)

(* Whoever is new writes a first message that opens.                       *)
FirstContactOpens == \A m \in failed : ~ m.sealed
=============================================================================
