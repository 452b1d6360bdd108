--------------------------- MODULE PrekeysProofs ---------------------------
(***************************************************************************)
(* Theorems about Bundles and Prekeys, for any peers, limits and           *)
(* situations. A one-time prekey is in one place at a time, on its way     *)
(* from the replenishment over the pool, a reply and a peer to a first     *)
(* message; its secret stays in the document until that message takes it.  *)
(***************************************************************************)
EXTENDS Prekeys, FiniteSetTheorems, TLAPS

-----------------------------------------------------------------------------
(* Types.                                                                  *)

RequestOK(r) ==
    /\ r = [op |-> r.op, at |-> r.at, keys |-> r.keys, token |-> r.token, window |-> r.window, ok |-> r.ok]
    /\ r.keys \subseteq Nat /\ IsFiniteSet(r.keys)
    /\ r.window \in Nat

\* Peers look up, the threads of the device do the rest.
OpOK(s, r) == IF r.op = "none" THEN r.keys = {} ELSE r.op = "lookup" <=> s[1] \in Peers

ReqInv ==
    /\ req = [s \in Slots |-> req[s]]
    /\ \A s \in Slots : RequestOK(req[s]) /\ OpOK(s, req[s])
    /\ clock \in Nat

CountersOK ==
    /\ claims = [p \in Peers |-> claims[p]]
    /\ \A p \in Peers : DOMAIN claims[p] \subseteq Nat /\ \A w \in DOMAIN claims[p] : claims[p][w] \in Nat

-----------------------------------------------------------------------------
(* Claims.                                                                 *)

Drawn(p, w) == {h \in handed : h.peer = p /\ h.window = w /\ ~ h.late}
Granted(s, w) == IF At(s, "lookup", "claimed") /\ req[s].window = w THEN 1 ELSE 0
Grants(p, w) == Granted(Live(p), w) + Granted(Left(p), w)
Pruned(p, w) == \E v \in DOMAIN claims[p] : v > w

\* Whoever was granted a key is counted, until a later window prunes the count.
ClaimInv ==
    \A p \in Peers, w \in Nat :
        /\ IsFiniteSet(Drawn(p, w)) /\ Cardinality(Drawn(p, w)) <= ClaimLimit
        /\ \/ Pruned(p, w)
           \/ /\ Cardinality(Drawn(p, w)) + Grants(p, w) <= CountOf(claims[p], w)
              /\ Cardinality(Drawn(p, w)) + Grants(p, w) <= ClaimLimit

-----------------------------------------------------------------------------
(* Where a one-time prekey is.                                             *)

Published(s) == IF req[s].op = "add" /\ req[s].at \in {"sent", "clamped"} THEN req[s].keys ELSE {}
Unsent == IF task["replenish"].at = "saving" THEN task["replenish"].arg ELSE {}
Reply(s) == IF At(s, "lookup", "answered") THEN req[s].keys ELSE {}
Gone == {h.key : h \in handed}

\* Before it is handed out ...
ShelfInv ==
    /\ pool \subseteq 1 .. made.keys /\ Gone \subseteq 1 .. made.keys /\ Unsent \subseteq 1 .. made.keys
    /\ \A k \in pool : k \notin Gone /\ k \notin Unsent
    /\ \A k \in Unsent : k \notin Gone
    /\ \A s \in Slots : \A k \in Published(s) :
          /\ k \in 1 .. made.keys /\ k \notin pool /\ k \notin Gone /\ k \notin Unsent
          /\ \A r \in Slots : k \in Published(r) => r = s
    /\ \A h, i \in handed : h.key = i.key => h = i

\* ... and after.
HandInv ==
    /\ \A s \in Slots : \A k \in Reply(s) :
          /\ k \in Gone
          /\ \A r \in Slots : k \in Reply(r) => r = s
          /\ \A p \in Peers : k \notin peer[p].keys
          /\ \A m \in mail : m.key # k
    /\ \A p \in Peers : \A k \in peer[p].keys :
          /\ k \in Gone
          /\ \A q \in Peers : k \in peer[q].keys => q = p
          /\ \A m \in mail : m.key # k
    /\ \A m \in mail : m.key = None \/
          (m.key \in Gone /\ \A l \in mail : l.key = m.key => l = m)

-----------------------------------------------------------------------------
(* The programs of the threads.                                            *)

TaskFields(j) == DOMAIN j = {"at", "todo", "snap", "arg", "with", "rest"}
DocFields(d) == DOMAIN d = {"secrets", "token", "contacts"}

\* Changes that leave the secrets alone.
Harmless(c) == c.do \in {"own", "contact", "drop", "peertoken", "timer", "verify", "acknowledge"}
HarmlessList(l) ==
    \/ l = << >>
    \/ l = <<l[1]>> /\ Harmless(l[1])
    \/ l = <<l[1], l[2]>> /\ Harmless(l[1]) /\ Harmless(l[2])

Mixes(m) == ~ m.sealed /\ m.key # None
Takes(m) == <<Change("take", None, m.key)>>
Adds(keys) == <<Change("add", None, keys)>>

\* The changes that a thread may have left to make where it is.
TodoOK(t, j) ==
    IF t = "replenish"
    THEN j.todo = << >> \/ (j.at = "saving" /\ j.todo = Adds(j.arg))
    ELSE IF t = "chain" /\ j.at = "opening"
    THEN j.todo = << >> \/ (Mixes(j.arg) /\ j.todo = Takes(j.arg))
    ELSE HarmlessList(j.todo)

JobOK(t, j) ==
    /\ TaskFields(j) /\ TodoOK(t, j)
    /\ j.snap # None => j.todo # << >> /\ DocFields(j.snap)
    /\ t = "replenish" /\ j.at = "saving" => j.arg \subseteq Nat /\ IsFiniteSet(j.arg)

TaskInv ==
    /\ DOMAIN task = Threads /\ \A t \in Threads : JobOK(t, task[t])
    /\ DocFields(doc) /\ IsFiniteSet(pool) /\ pool \subseteq Nat
    /\ DOMAIN made = {"keys", "tokens"} /\ made.keys \in Nat
    /\ DOMAIN peer = Peers /\ \A p \in Peers : DOMAIN peer[p] = {"at", "for", "keys", "met", "token"}

-----------------------------------------------------------------------------
(* Secrets.                                                                *)

\* The secret is there, or a ghost says why it is not.
Safe == doc.secrets \cup lost \cup torn

\* The chain is at a message whose secret it has looked for.
Looked(m) ==
    /\ task["chain"].arg = m
    /\ \/ task["chain"].at = "commit"
       \/ task["chain"].at = "opening" /\ task["chain"].todo = << >>

SecretInv ==
    /\ pool \subseteq Safe
    /\ \A s \in Slots : Published(s) \subseteq Safe /\ Reply(s) \subseteq Safe
    /\ task["replenish"].todo = << >> => Unsent \subseteq Safe
    /\ \A p \in Peers : peer[p].keys \subseteq Safe
    /\ \A m \in mail : m.key = None \/ m.key \in Safe \/ Looked(m)

OpeningInv ==
    /\ task["chain"].at \in {"opening", "commit"} => task["chain"].arg \in mail
    /\ task["chain"].at = "opening" /\ (task["chain"].todo = << >> \/ task["chain"].snap # None) =>
          LET m == task["chain"].arg
          IN  IF Mixes(m) THEN task["chain"].with = TRUE \/ m.key \in lost \cup torn
              ELSE task["chain"].with = FALSE

KeysInv == ShelfInv /\ HandInv /\ SecretInv /\ OpeningInv /\ FirstMessageOpens

IInv == ReqInv /\ CountersOK /\ ClaimInv /\ TaskInv /\ KeysInv

-----------------------------------------------------------------------------
(* Requests.                                                               *)

LEMMA SlotFacts ==
    /\ \A a \in Peers \cup Threads : Live(a) \in Slots /\ Left(a) \in Slots /\ Live(a) # Left(a)
                                     /\ Live(a)[1] = a /\ Left(a)[1] = a
                                     /\ Live(a)[2] = "live" /\ Left(a)[2] = "left"
    /\ \A s \in Slots : s[1] \in Peers \cup Threads /\ (s = Live(s[1]) \/ s = Left(s[1]))
    /\ \A a, b \in Peers \cup Threads : (Live(a) = Live(b) => a = b) /\ (Left(a) = Left(b) => a = b) /\ Live(a) # Left(b)
BY DEF Slots, Live, Left

LEMMA ThreadFacts == {"chain", "replenish", "effect", "removal"} = Threads /\ \A t \in Threads : t \notin Peers
BY PrekeysAssumption, BundlesAssumption DEF PrekeysAssumption, BundlesAssumption

\* What a request carries of keys and grants gets no more.
Loses(s) ==
    /\ Published(s)' \subseteq Published(s) /\ Reply(s)' \subseteq Reply(s)
    /\ \A w \in Nat : Granted(s, w)' <= Granted(s, w)
SlotsLose == \A s \in Slots : Loses(s)

\* Only one slot changes.
Turns(s, r) == req' = [x \in Slots |-> IF x = s THEN r ELSE req[x]]

LEMMA GrantBounds == \A s \in Slots, w \in Nat : Granted(s, w) \in {0, 1} /\ Granted(s, w)' \in {0, 1}
BY DEF Granted

LEMMA NoRequestHas ==
    /\ RequestOK(NoRequest) /\ NoRequest.op = "none" /\ NoRequest.at = "none" /\ NoRequest.keys = {}
    /\ \A s : OpOK(s, NoRequest)
BY FS_EmptySet DEF NoRequest, RequestOK, OpOK

LEMMA TurnsTo ==
    ASSUME ReqInv, NEW s \in Slots, NEW r, Turns(s, r), clock' \in Nat,
           RequestOK(r), OpOK(s, r)
    PROVE  ReqInv' /\ req'[s] = r /\ \A x \in Slots : x # s => req'[x] = req[x]
BY DEF ReqInv, Turns

LEMMA TurnLoses ==
    ASSUME ReqInv, NEW s \in Slots, NEW r, Turns(s, r), Loses(s)
    PROVE  SlotsLose
<1> SUFFICES ASSUME NEW x \in Slots, x # s PROVE Loses(x)
  BY DEF SlotsLose
<1>1. req'[x] = req[x]
  BY DEF Turns
<1> QED
  BY <1>1, GrantBounds DEF Loses, Published, Reply, Granted, At

LEMMA RestLoses ==
    ASSUME req' = req
    PROVE  SlotsLose
BY GrantBounds DEF SlotsLose, Loses, Published, Reply, Granted, At

LEMMA AnsweredFields ==
    ASSUME NEW r, RequestOK(r), NEW ok, NEW keys, NEW token, NEW q,
           q = [r EXCEPT !.at = "answered", !.ok = ok, !.keys = keys, !.token = token]
    PROVE  q = [op |-> r.op, at |-> "answered", keys |-> keys, token |-> token, window |-> r.window, ok |-> ok]
BY DEF RequestOK

LEMMA RequestFields ==
    ASSUME NEW op, NEW keys, NEW token, NEW q, q = Request(op, keys, token)
    PROVE  q = [op |-> op, at |-> "sent", keys |-> keys, token |-> token, window |-> 0, ok |-> FALSE]
BY DEF Request, NoRequest

LEMMA AnswerIs ==
    ASSUME ReqInv, NEW s \in Slots, NEW ok, NEW keys, NEW token, Answer(s, ok, keys, token)
    PROVE  \/ s[2] = "left" /\ Turns(s, NoRequest)
           \/ s[2] # "left" /\
              Turns(s, [op |-> req[s].op, at |-> "answered", keys |-> keys, token |-> token,
                        window |-> req[s].window, ok |-> ok])
<1>1. [req[s] EXCEPT !.at = "answered", !.ok = ok, !.keys = keys, !.token = token]
          = [op |-> req[s].op, at |-> "answered", keys |-> keys, token |-> token,
             window |-> req[s].window, ok |-> ok]
  <2>1. RequestOK(req[s])
    BY DEF ReqInv
  <2> QED
    BY <2>1, AnsweredFields
<1>2. CASE s[2] = "left"
  BY <1>2 DEF ReqInv, Answer, Turns
<1>3. CASE s[2] # "left"
  <2>1. req' = [req EXCEPT ![s] = [op |-> req[s].op, at |-> "answered", keys |-> keys, token |-> token,
                                   window |-> req[s].window, ok |-> ok]]
    BY <1>1, <1>3 DEF Answer
  <2> QED
    BY <1>3, <2>1 DEF ReqInv, Turns
<1> QED
  BY <1>2, <1>3

LEMMA AnswerEnds ==
    ASSUME ReqInv, NEW s \in Slots, NEW ok, NEW keys, NEW token, Answer(s, ok, keys, token)
    PROVE  /\ \A x \in Slots : x # s => req'[x] = req[x]
           /\ \/ req'[s] = NoRequest
              \/ /\ req'[s].at = "answered" /\ req'[s].keys = keys /\ req'[s].op = req[s].op
                 /\ req'[s].window = req[s].window
<1>1. CASE Turns(s, NoRequest)
  BY <1>1 DEF Turns
<1>2. CASE Turns(s, [op |-> req[s].op, at |-> "answered", keys |-> keys, token |-> token,
                     window |-> req[s].window, ok |-> ok])
  BY <1>2 DEF Turns
<1> QED
  BY <1>1, <1>2, AnswerIs

\* An answer that gives no more than a reply to a lookup may have had.
LEMMA AnswerSteps ==
    ASSUME ReqInv, clock' = clock, NEW s \in Slots, NEW ok, NEW keys \in SUBSET Nat, NEW token,
           IsFiniteSet(keys), req[s].op \in {"lookup", "none"} => keys = {}, Answer(s, ok, keys, token)
    PROVE  ReqInv' /\ SlotsLose
<1> DEFINE r == [op |-> req[s].op, at |-> "answered", keys |-> keys, token |-> token,
                 window |-> req[s].window, ok |-> ok]
<1>1. RequestOK(req[s]) /\ clock' \in Nat /\ OpOK(s, req[s])
  BY DEF ReqInv
<1>2. CASE Turns(s, NoRequest)
  <2>1. ReqInv' /\ req'[s] = NoRequest
    BY <1>1, <1>2, NoRequestHas, TurnsTo
  <2>2. Loses(s)
    BY <2>1, NoRequestHas, GrantBounds DEF Loses, Published, Reply, Granted, At
  <2> QED
    BY <1>2, <2>1, <2>2, TurnLoses
<1>3. CASE Turns(s, r)
  <2>1. RequestOK(r) /\ OpOK(s, r)
    BY <1>1 DEF RequestOK, OpOK
  <2>2. ReqInv' /\ req'[s] = r
    BY <1>1, <1>3, <2>1, TurnsTo
  <2>3. Loses(s)
    BY <2>2, GrantBounds DEF Loses, Published, Reply, Granted, At
  <2> QED
    BY <1>3, <2>2, <2>3, TurnLoses
<1> QED
  BY AnswerIs, <1>2, <1>3

LEMMA SendIs ==
    ASSUME ReqInv, clock' = clock, NEW a \in Peers \cup Threads, NEW op, NEW keys \in SUBSET Nat, NEW token,
           IsFiniteSet(keys), op # "none", op = "lookup" <=> a \in Peers, Send(a, Request(op, keys, token))
    PROVE  /\ ReqInv' /\ req[Live(a)].at = "none"
           /\ \A s \in Slots : s # Live(a) => req'[s] = req[s] /\ Loses(s)
           /\ req'[Live(a)].op = op /\ req'[Live(a)].at = "sent" /\ req'[Live(a)].keys = keys
           /\ op # "add" => SlotsLose
<1> DEFINE r == [op |-> op, at |-> "sent", keys |-> keys, token |-> token, window |-> 0, ok |-> FALSE]
<1>1. Live(a) \in Slots /\ Live(a)[1] = a
  BY SlotFacts
<1>2. Turns(Live(a), r) /\ req[Live(a)].at = "none"
  <2>1. Request(op, keys, token) = r
    BY RequestFields
  <2>2. req' = [req EXCEPT ![Live(a)] = r] /\ req[Live(a)].at = "none"
    BY <2>1 DEF Send
  <2> HIDE DEF r
  <2>3. req = [s \in Slots |-> req[s]]
    BY DEF ReqInv
  <2> QED
    BY <1>1, <2>2, <2>3 DEF Turns
<1>3. RequestOK(r) /\ OpOK(Live(a), r)
  BY <1>1 DEF RequestOK, OpOK
<1>4. ReqInv' /\ req'[Live(a)] = r /\ \A s \in Slots : s # Live(a) => req'[s] = req[s]
  BY <1>1, <1>2, <1>3, TurnsTo DEF ReqInv
<1>5. \A s \in Slots : s # Live(a) => Loses(s)
  BY <1>4, GrantBounds DEF Loses, Published, Reply, Granted, At
<1>6. ASSUME op # "add" PROVE SlotsLose
  <2>1. Loses(Live(a))
    BY <1>1, <1>4, <1>6, GrantBounds DEF Loses, Published, Reply, Granted, At
  <2> QED
    BY <1>5, <2>1 DEF SlotsLose
<1> QED
  BY <1>2, <1>4, <1>5, <1>6

LEMMA TookIs ==
    ASSUME ReqInv, clock' = clock, NEW a \in Peers \cup Threads, Took(a)
    PROVE  /\ ReqInv' /\ SlotsLose /\ req'[Live(a)] = NoRequest
<1>1. Live(a) \in Slots
  BY SlotFacts
<1>2. Turns(Live(a), NoRequest)
  BY <1>1 DEF Took, Turns, ReqInv
<1>3. ReqInv' /\ req'[Live(a)] = NoRequest
  BY <1>1, <1>2, NoRequestHas, TurnsTo DEF ReqInv
<1>4. Loses(Live(a))
  BY <1>1, <1>3, NoRequestHas, GrantBounds DEF Loses, Published, Reply, Granted, At
<1> QED
  BY <1>1, <1>2, <1>3, <1>4, TurnLoses

\* A request that was given up is where the one given up before it was.
LEMMA GivenUpIs ==
    ASSUME ReqInv, clock' = clock, NEW as, req' = GivenUp(as)
    PROVE  /\ ReqInv'
           /\ \A s \in Slots : Reply(s)' \subseteq Reply(s)
           /\ \A p \in Peers, w \in Nat : Grants(p, w)' <= Grants(p, w)
           /\ \A s \in Slots : Published(s)' \subseteq Published(s) \/
                  (s = Left(s[1]) /\ Published(s)' \subseteq Published(Live(s[1])) /\ Published(Live(s[1]))' = {})
<1>1. ASSUME NEW s \in Slots
      PROVE  \/ req'[s] = req[s] \/ (s = Live(s[1]) /\ req'[s] = NoRequest)
             \/ /\ s = Left(s[1]) /\ s[1] \in as /\ req'[s] = req[Live(s[1])]
                /\ req[Live(s[1])].at # "answered"
  <2>1. s = Live(s[1]) \/ s = Left(s[1])
    BY SlotFacts
  <2>2. s[2] = "live" => s = Live(s[1])
    BY <2>1 DEF Left
  <2>3. s[2] # "live" => s = Left(s[1])
    BY <2>1 DEF Live
  <2>4. req'[s] = IF s[1] \notin as THEN req[s]
                  ELSE IF s[2] = "live" THEN NoRequest
                  ELSE IF req[Live(s[1])].at \in {"none", "answered"} THEN req[s] ELSE req[Live(s[1])]
    BY DEF GivenUp
  <2> QED
    BY <2>2, <2>3, <2>4
<1>2. \A s \in Slots : s[1] \in as => req'[Live(s[1])] = NoRequest
  BY SlotFacts DEF GivenUp
<1>3. ReqInv'
  <2>1. req' = [s \in Slots |-> req'[s]] /\ clock' \in Nat
    BY DEF GivenUp, ReqInv
  <2>2. ASSUME NEW s \in Slots PROVE RequestOK(req'[s]) /\ OpOK(s, req'[s])
    <3>1. Live(s[1]) \in Slots /\ Live(s[1])[1] = s[1]
      BY SlotFacts
    <3>2. /\ RequestOK(req[s]) /\ OpOK(s, req[s])
          /\ RequestOK(req[Live(s[1])]) /\ OpOK(Live(s[1]), req[Live(s[1])])
      BY <3>1 DEF ReqInv
    <3>3. req'[s] \in {req[s], NoRequest, req[Live(s[1])]}
      BY <1>1
    <3>4. OpOK(Live(s[1]), req[Live(s[1])]) => OpOK(s, req[Live(s[1])])
      BY <3>1 DEF OpOK
    <3> QED
      BY <3>2, <3>3, <3>4, NoRequestHas
  <2> QED
    BY <2>1, <2>2 DEF ReqInv, RequestOK
<1>4. ASSUME NEW s \in Slots
      PROVE  /\ Reply(s)' \subseteq Reply(s)
             /\ Published(s)' \subseteq Published(s) \/
                  (s = Left(s[1]) /\ Published(s)' \subseteq Published(Live(s[1])) /\ Published(Live(s[1]))' = {})
  BY <1>1, <1>2, NoRequestHas DEF Reply, Published, At
<1>5. ASSUME NEW p \in Peers, NEW w \in Nat PROVE Grants(p, w)' <= Grants(p, w)
  <2>1. Live(p) \in Slots /\ Left(p) \in Slots /\ Left(p)[1] = p /\ Live(p)[1] = p /\ Live(p) # Left(p)
    BY SlotFacts
  <2>2. CASE p \in as
    <3>1. Granted(Live(p), w)' = 0
      BY <1>2, <2>1, <2>2, NoRequestHas DEF Granted, At
    <3>2. Granted(Left(p), w)' \in {0, Granted(Left(p), w), Granted(Live(p), w)}
      BY <1>1, <2>1, NoRequestHas DEF Granted, At
    <3> QED
      BY <2>1, <3>1, <3>2, GrantBounds DEF Grants
  <2>3. CASE p \notin as
    <3>1. req'[Live(p)] = req[Live(p)] /\ req'[Left(p)] = req[Left(p)]
      BY <2>1, <2>3 DEF GivenUp
    <3> QED
      BY <2>1, <3>1, GrantBounds DEF Grants, Granted, At
  <2> QED
    BY <2>2, <2>3
<1> QED
  BY <1>3, <1>4, <1>5

-----------------------------------------------------------------------------
(* Threads and the document.                                               *)

LEMMA RestHas ==
    /\ TaskFields(Rest) /\ Rest.at = "rest" /\ Rest.todo = << >> /\ Rest.snap = None
    /\ Rest.arg = None /\ Rest.with = None
BY DEF Rest, TaskFields

LEMMA RestIsOK == \A t \in Threads : JobOK(t, Rest)
BY RestHas DEF JobOK, TodoOK, HarmlessList

LEMMA ChangeHas == \A do, who, what : Change(do, who, what).do = do /\ Change(do, who, what).what = what
BY DEF Change

LEMMA HarmlessLists ==
    /\ HarmlessList(<< >>)
    /\ \A a : Harmless(a) => HarmlessList(<<a>>)
    /\ \A a, b : Harmless(a) /\ Harmless(b) => HarmlessList(<<a, b>>)
BY DEF HarmlessList

LEMMA HarmlessTail ==
    ASSUME NEW l, HarmlessList(l), l # << >>
    PROVE  HarmlessList(Tail(l)) /\ Harmless(Head(l))
<1>1. ASSUME NEW a, l = <<a>> PROVE Head(l) = a /\ Tail(l) = << >>
  BY <1>1
<1>2. ASSUME NEW a, NEW b, l = <<a, b>> PROVE Head(l) = a /\ Tail(l) = <<b>>
  BY <1>2
<1>3. CASE l = <<l[1]>> /\ Harmless(l[1])
  BY <1>1, <1>3, HarmlessLists
<1>4. CASE l = <<l[1], l[2]>> /\ Harmless(l[1]) /\ Harmless(l[2])
  BY <1>2, <1>4, HarmlessLists
<1> QED
  BY <1>3, <1>4 DEF HarmlessList

\* What a change does to the document, and to the secrets in it.
LEMMA AppliedIs ==
    ASSUME NEW c, NEW d, DocFields(d), Harmless(c) \/ c.do \in {"take", "add"}
    PROVE  /\ DocFields(Applied(c, d))
           /\ Harmless(c) => Applied(c, d).secrets = d.secrets
           /\ c.do = "take" => Applied(c, d).secrets = d.secrets \ {c.what}
           /\ c.do = "add" => Applied(c, d).secrets = d.secrets \cup c.what
<1> USE DEF DocFields, Harmless, Applied
<1>1. CASE c.do = "take"
  BY <1>1 DEF TakeOneTimePreKey
<1>2. CASE c.do = "add"
  BY <1>2 DEF AddOneTimePreKeys
<1>3. CASE c.do = "own"
  BY <1>3 DEF SaveOwnSealToken
<1>4. CASE c.do = "contact"
  BY <1>4 DEF AddContact
<1>5. CASE c.do = "drop"
  BY <1>5 DEF DropContact
<1>6. CASE c.do = "peertoken"
  BY <1>6 DEF SavePeerSealToken
<1>7. CASE c.do = "timer"
  BY <1>7 DEF SetDisappearingTimer
<1>8. CASE c.do = "verify"
  BY <1>8 DEF SetVerified
<1>9. CASE c.do = "acknowledge"
  BY <1>9 DEF AcknowledgeKeyChange
<1> QED
  BY <1>1, <1>2, <1>3, <1>4, <1>5, <1>6, <1>7, <1>8, <1>9

\* Nothing but one thread goes on.
LEMMA OneGoes ==
    ASSUME TaskInv, NEW t \in Threads, NEW j, task' = [task EXCEPT ![t] = j], JobOK(t, j),
           doc' = doc, pool' = pool, peer' = peer, DOMAIN made' = {"keys", "tokens"}, made'.keys \in Nat
    PROVE  TaskInv' /\ task'[t] = j /\ \A u \in Threads : u # t => task'[u] = task[u]
BY DEF TaskInv

LEMMA TaskRests ==
    ASSUME TaskInv, task' = task, doc' = doc, pool' = pool, peer' = peer, made' = made
    PROVE  TaskInv'
BY DEF TaskInv

LEMMA GoesOn ==
    ASSUME TaskInv, NEW t \in Threads, NEW at, NEW todo, task[t].todo = << >>, task' = Goes(t, at, todo),
           t = "replenish" => todo = << >> /\ at # "saving",
           t # "replenish" => HarmlessList(todo) /\ at # "opening"
    PROVE  /\ task' = [task EXCEPT ![t] = task'[t]] /\ JobOK(t, task'[t])
           /\ task'[t].at = at /\ task'[t].todo = todo /\ task'[t].snap = None
           /\ task'[t].arg = task[t].arg /\ task'[t].with = task[t].with
<1>1. DOMAIN task = Threads /\ JobOK(t, task[t])
  BY DEF TaskInv
<1>2. /\ task' = [task EXCEPT ![t] = task'[t]] /\ TaskFields(task'[t])
      /\ task'[t].at = at /\ task'[t].todo = todo /\ task'[t].snap = task[t].snap
      /\ task'[t].arg = task[t].arg /\ task'[t].with = task[t].with
  BY <1>1 DEF Goes, JobOK, TaskFields
<1>3. task[t].snap = None
  BY <1>1 DEF JobOK
<1> QED
  BY <1>2, <1>3 DEF JobOK, TodoOK

LEMMA Finishes ==
    ASSUME TaskInv, NEW t \in Threads, task' = Finished(t)
    PROVE  task' = [task EXCEPT ![t] = Rest] /\ JobOK(t, Rest)
BY RestIsOK DEF Finished

-----------------------------------------------------------------------------
(* What leaves keys and claims where they are.                             *)

LEMMA CountIsNat == ASSUME CountersOK PROVE \A p \in Peers, w \in Nat : CountOf(claims[p], w) \in Nat
BY DEF CountersOK, CountOf

LEMMA ClaimStays ==
    ASSUME CountersOK, ClaimInv, claims' = claims, handed' = handed,
           \A p \in Peers, w \in Nat : Grants(p, w)' <= Grants(p, w)
    PROVE  CountersOK' /\ ClaimInv'
<1>7. CountersOK'
  BY DEF CountersOK
<1> SUFFICES ASSUME NEW p \in Peers, NEW w \in Nat
             PROVE  /\ IsFiniteSet(Drawn(p, w))' /\ (Cardinality(Drawn(p, w)) <= ClaimLimit)'
                    /\ \/ Pruned(p, w)'
                       \/ /\ (Cardinality(Drawn(p, w)) + Grants(p, w) <= CountOf(claims[p], w))'
                          /\ (Cardinality(Drawn(p, w)) + Grants(p, w) <= ClaimLimit)'
  BY <1>7 DEF ClaimInv
<1>1. Drawn(p, w)' = Drawn(p, w) /\ Pruned(p, w)' = Pruned(p, w)
      /\ CountOf(claims[p], w)' = CountOf(claims[p], w)
  BY DEF Drawn, Pruned, CountOf
<1>2. Grants(p, w)' <= Grants(p, w) /\ Grants(p, w)' \in Nat /\ Grants(p, w) \in Nat
  BY GrantBounds, SlotFacts DEF Grants
<1>3. /\ IsFiniteSet(Drawn(p, w)) /\ Cardinality(Drawn(p, w)) <= ClaimLimit
      /\ \/ Pruned(p, w)
         \/ /\ Cardinality(Drawn(p, w)) + Grants(p, w) <= CountOf(claims[p], w)
            /\ Cardinality(Drawn(p, w)) + Grants(p, w) <= ClaimLimit
  BY DEF ClaimInv
<1>4. Cardinality(Drawn(p, w)) \in Nat
  BY <1>3, FS_CardinalityType
<1>5. CASE Pruned(p, w)
  BY <1>1, <1>3, <1>5
<1>6. CASE /\ Cardinality(Drawn(p, w)) + Grants(p, w) <= CountOf(claims[p], w)
           /\ Cardinality(Drawn(p, w)) + Grants(p, w) <= ClaimLimit
  <2>1. CountOf(claims[p], w) \in Int /\ ClaimLimit \in Int
    BY CountIsNat, BundlesAssumption DEF BundlesAssumption
  <2> QED
    BY <1>1, <1>2, <1>3, <1>4, <1>6, <2>1
<1> QED
  BY <1>3, <1>5, <1>6

LEMMA GrantsLose ==
    ASSUME SlotsLose
    PROVE  \A p \in Peers, w \in Nat : Grants(p, w)' <= Grants(p, w)
<1> SUFFICES ASSUME NEW p \in Peers, NEW w \in Nat PROVE Grants(p, w)' <= Grants(p, w)
  OBVIOUS
<1>1. Live(p) \in Slots /\ Left(p) \in Slots
  BY SlotFacts
<1>2. Granted(Live(p), w)' <= Granted(Live(p), w) /\ Granted(Left(p), w)' <= Granted(Left(p), w)
  BY <1>1 DEF SlotsLose, Loses
<1> QED
  BY <1>1, <1>2, GrantBounds DEF Grants

LEMMA ShelfStays ==
    ASSUME ShelfInv, made.keys \in Nat, made'.keys \in Nat, made.keys <= made'.keys,
           pool' = pool, handed' = handed, Unsent' \subseteq Unsent,
           \A s \in Slots : Published(s)' \subseteq Published(s)
    PROVE  ShelfInv'
<1>1. \A k \in 1 .. made.keys : k \in 1 .. made'.keys
  OBVIOUS
<1>2. Gone' = Gone
  BY DEF Gone
<1> QED
  BY <1>1, <1>2 DEF ShelfInv

LEMMA HandStays ==
    ASSUME HandInv, Gone \subseteq Gone', mail' \subseteq mail,
           \A s \in Slots : Reply(s)' \subseteq Reply(s),
           \A p \in Peers : peer'[p].keys \subseteq peer[p].keys
    PROVE  HandInv'
BY DEF HandInv

LEMMA SecretStays ==
    ASSUME SecretInv, pool' \subseteq pool, mail' \subseteq mail, Safe \subseteq Safe',
           \A s \in Slots : Published(s)' \subseteq Safe' /\ Reply(s)' \subseteq Safe',
           Unsent' = {} \/ task'["replenish"] = task["replenish"],
           \A p \in Peers : peer'[p].keys \subseteq peer[p].keys,
           \A m \in mail' : Looked(m) => Looked(m)' \/ m.key \in Safe' \/ m.key = None
    PROVE  SecretInv'
<1>1. task'["replenish"] = task["replenish"] => Unsent' = Unsent
  BY DEF Unsent
<1> QED
  BY <1>1 DEF SecretInv

LEMMA KeysStay ==
    ASSUME TaskInv, TaskInv', KeysInv, pool' = pool, handed' = handed, mail' = mail, failed' = failed,
           doc' = doc, lost' = lost, torn' = torn, made.keys <= made'.keys,
           \A s \in Slots : Published(s)' \subseteq Published(s) /\ Reply(s)' \subseteq Reply(s),
           \A p \in Peers : peer'[p].keys \subseteq peer[p].keys,
           Unsent' = {} \/ task'["replenish"] = task["replenish"],
           \/ task'["chain"] = task["chain"]
           \/ task["chain"].at \notin {"opening", "commit"} /\ task'["chain"].at \notin {"opening", "commit"}
    PROVE  KeysInv'
<1> USE DEF KeysInv
<1>1. Safe' = Safe
  BY DEF Safe
<1>2. made.keys \in Nat /\ made'.keys \in Nat
  BY DEF TaskInv
<1>3. Unsent' \subseteq Unsent
  BY DEF Unsent
<1>4. ShelfInv'
  BY <1>2, <1>3, ShelfStays
<1>5. HandInv'
  <2>1. Gone' = Gone
    BY DEF Gone
  <2> QED
    BY <2>1, HandStays
<1>6. SecretInv'
  <2>1. \A m \in mail' : Looked(m) => Looked(m)'
    BY DEF Looked
  <2>2. \A s \in Slots : Published(s)' \subseteq Safe' /\ Reply(s)' \subseteq Safe'
    BY <1>1 DEF SecretInv
  <2> QED
    BY <1>1, <2>1, <2>2, SecretStays
<1>7. OpeningInv' /\ FirstMessageOpens'
  BY DEF OpeningInv, FirstMessageOpens
<1> QED
  BY <1>4, <1>5, <1>6, <1>7

-----------------------------------------------------------------------------
(* What the Worker does.                                                   *)

DeviceStays == UNCHANGED <<doc, task, peer, mail, failed, made, lost, torn>>

LEMMA QuietServer ==
    ASSUME IInv, DeviceStays, ReqInv', SlotsLose, pool' = pool, handed' = handed, claims' = claims
    PROVE  IInv'
<1> USE DEF IInv, DeviceStays
<1>1. CountersOK' /\ ClaimInv'
  BY GrantsLose, ClaimStays
<1>2. TaskInv'
  BY TaskRests
<1>3. KeysInv'
  <2>1. \A s \in Slots : Published(s)' \subseteq Published(s) /\ Reply(s)' \subseteq Reply(s)
    BY DEF SlotsLose, Loses
  <2>2. made.keys <= made'.keys
    BY DEF TaskInv
  <2> QED
    BY <1>2, <2>1, <2>2, KeysStay
<1> QED
  BY <1>1, <1>2, <1>3

LEMMA LeastIs ==
    ASSUME NEW keys \in SUBSET Nat, IsFiniteSet(keys), NEW n
    PROVE  Least(keys, n) \subseteq keys /\ IsFiniteSet(Least(keys, n))
BY FS_Subset DEF Least

\* The oldest row, if there is one.
LEMMA LeastIsOne ==
    ASSUME NEW keys \in SUBSET Nat, IsFiniteSet(keys)
    PROVE  Least(keys, 1) = {} \/ \E k \in keys : Least(keys, 1) = {k}
<1>1. ASSUME NEW j \in Least(keys, 1), NEW k \in Least(keys, 1), j < k PROVE FALSE
  <2>1. j \in keys /\ k \in keys /\ Cardinality({i \in keys : i < k}) < 1
    BY <1>1 DEF Least
  <2>2. IsFiniteSet({i \in keys : i < k})
    BY FS_Subset
  <2>3. Cardinality({i \in keys : i < k}) = 0
    BY <2>1, <2>2, FS_CardinalityType
  <2>4. {i \in keys : i < k} = {}
    BY <2>2, <2>3, FS_EmptySet
  <2> QED
    BY <1>1, <2>1, <2>4
<1>2. \A j, k \in Least(keys, 1) : j = k
  <2> SUFFICES ASSUME NEW j \in Least(keys, 1), NEW k \in Least(keys, 1) PROVE j = k
    OBVIOUS
  <2>1. j \in Nat /\ k \in Nat
    BY DEF Least
  <2> QED
    BY <1>1, <2>1
<1>3. Least(keys, 1) \subseteq keys
  BY DEF Least
<1>4. CASE Least(keys, 1) # {}
  <2>1. PICK k \in Least(keys, 1) : TRUE
    BY <1>4
  <2>2. Least(keys, 1) = {k} /\ k \in keys
    BY <1>2, <1>3, <2>1
  <2> QED
    BY <2>2
<1> QED
  BY <1>4

LEMMA CountKeysStep ==
    ASSUME IInv, DeviceStays, NEW s \in Slots, CountKeys(s)
    PROVE  IInv'
<1>1. Answer(s, TRUE, pool, None) /\ req[s].op = "count" /\ UNCHANGED <<pool, claims, clock, handed>>
  BY DEF CountKeys, At
<1>2. pool \in SUBSET Nat /\ IsFiniteSet(pool)
  BY DEF IInv, TaskInv
<1>3. ReqInv' /\ SlotsLose
  BY <1>1, <1>2, AnswerSteps DEF IInv
<1> QED
  BY <1>1, <1>3, QuietServer

LEMMA VanishStep ==
    ASSUME IInv, DeviceStays, NEW s \in Slots, Vanish(s)
    PROVE  IInv'
<1>1. Answer(s, FALSE, {}, None) /\ UNCHANGED <<pool, claims, clock, handed>>
  BY DEF Vanish
<1>2. ReqInv' /\ SlotsLose
  BY <1>1, FS_EmptySet, AnswerSteps DEF IInv
<1> QED
  BY <1>1, <1>2, QuietServer

\* A handler goes on to its next statement.
LEMMA GoesOnServing ==
    ASSUME ReqInv, clock' = clock, NEW s \in Slots, NEW r, req' = [req EXCEPT ![s] = r],
           RequestOK(r), r.op = req[s].op, r.op # "none"
    PROVE  ReqInv' /\ Turns(s, r) /\ req'[s] = r
<1>1. OpOK(s, r) /\ clock' \in Nat
  BY DEF ReqInv, OpOK
<1>2. Turns(s, r)
  BY DEF Turns, ReqInv
<1> QED
  BY <1>1, <1>2, TurnsTo

LEMMA StageSet ==
    ASSUME NEW r, RequestOK(r), NEW at, NEW q, q = [r EXCEPT !.at = at]
    PROVE  RequestOK(q) /\ q.op = r.op /\ q.at = at /\ q.keys = r.keys
<1>1. q = [op |-> r.op, at |-> at, keys |-> r.keys, token |-> r.token, window |-> r.window, ok |-> r.ok]
  BY DEF RequestOK
<1> QED
  BY <1>1 DEF RequestOK

LEMMA ClampKeysStep ==
    ASSUME IInv, DeviceStays, NEW s \in Slots, ClampKeys(s)
    PROVE  IInv'
<1>1. UNCHANGED <<pool, claims, clock, handed>> /\ At(s, "add", "sent")
  BY DEF ClampKeys
<1>2. ReqInv /\ RequestOK(req[s]) /\ req[s].keys \in SUBSET Nat /\ IsFiniteSet(req[s].keys) /\ req[s].window \in Nat
  BY DEF IInv, ReqInv, RequestOK
<1>3. PICK n : req' = [req EXCEPT ![s] = [req[s] EXCEPT !.at = "clamped", !.keys = Least(req[s].keys, n)]]
  <2> DEFINE n == IF Cardinality(pool) < Ceiling THEN Ceiling - Cardinality(pool) ELSE 0
  <2>1. req' = [req EXCEPT ![s].at = "clamped", ![s].keys = Least(@, n)]
    BY DEF ClampKeys
  <2>2. DOMAIN req = Slots /\ DOMAIN req[s] = {"op", "at", "keys", "token", "window", "ok"}
    BY <1>2 DEF ReqInv, RequestOK
  <2> HIDE DEF n
  <2>3. req' = [req EXCEPT ![s] = [req[s] EXCEPT !.at = "clamped", !.keys = Least(req[s].keys, n)]]
    BY <2>1, <2>2
  <2> QED
    BY <2>3
<1>4. PICK r : r = [req[s] EXCEPT !.at = "clamped", !.keys = Least(req[s].keys, n)]
  OBVIOUS
<1>5. Least(req[s].keys, n) \subseteq req[s].keys /\ IsFiniteSet(Least(req[s].keys, n))
  BY <1>2, LeastIs
<1>6. RequestOK(r) /\ r.op = req[s].op /\ r.at = "clamped" /\ r.keys = Least(req[s].keys, n)
  <2>1. Least(req[s].keys, n) \in SUBSET Nat
    BY <1>2, <1>5
  <2>2. r = [op |-> req[s].op, at |-> "clamped", keys |-> Least(req[s].keys, n), token |-> req[s].token,
             window |-> req[s].window, ok |-> req[s].ok]
    BY <1>2, <1>4 DEF RequestOK
  <2> QED
    BY <1>2, <1>5, <2>1, <2>2 DEF RequestOK
<1>7. ReqInv' /\ Turns(s, r) /\ req'[s] = r
  <2>1. req' = [req EXCEPT ![s] = r]
    BY <1>3, <1>4
  <2> QED
    BY <1>1, <1>2, <1>6, <2>1, GoesOnServing DEF At
<1>8. Loses(s)
  BY <1>1, <1>5, <1>6, <1>7, GrantBounds DEF Loses, Published, Reply, Granted, At
<1> QED
  BY <1>1, <1>2, <1>7, <1>8, TurnLoses, QuietServer

LEMMA RegisterWithObjectStep ==
    ASSUME IInv, DeviceStays, NEW s \in Slots, RegisterWithObject(s)
    PROVE  IInv'
<1>1. UNCHANGED <<pool, claims, clock, handed>> /\ At(s, "register", "sent")
      /\ req' = [req EXCEPT ![s].at = "registered"]
  BY DEF RegisterWithObject
<1>2. ReqInv /\ RequestOK(req[s]) /\ req[s].keys \in SUBSET Nat /\ IsFiniteSet(req[s].keys) /\ req[s].window \in Nat
  BY DEF IInv, ReqInv, RequestOK
<1>3. PICK r : r = [req[s] EXCEPT !.at = "registered"]
  OBVIOUS
<1>4. req' = [req EXCEPT ![s] = r]
  BY <1>1, <1>3
<1>5. RequestOK(r) /\ r.op = req[s].op /\ r.at = "registered"
  BY <1>2, <1>3, StageSet
<1>6. ReqInv' /\ Turns(s, r) /\ req'[s] = r
  BY <1>1, <1>2, <1>4, <1>5, GoesOnServing DEF At
<1>7. Loses(s)
  BY <1>1, <1>5, <1>6, GrantBounds DEF Loses, Published, Reply, Granted, At
<1> QED
  BY <1>1, <1>2, <1>6, <1>7, TurnLoses, QuietServer

LEMMA RegisterInRowStep ==
    ASSUME IInv, DeviceStays, NEW s \in Slots, RegisterInRow(s)
    PROVE  IInv'
<1>1. Answer(s, TRUE, {}, req[s].token) /\ UNCHANGED <<pool, claims, clock, handed>>
  BY DEF RegisterInRow
<1>2. ReqInv' /\ SlotsLose
  BY <1>1, FS_EmptySet, AnswerSteps DEF IInv
<1> QED
  BY <1>1, <1>2, QuietServer

LEMMA LookupStep ==
    ASSUME IInv, DeviceStays, NEW s \in Slots, Lookup(s)
    PROVE  IInv'
<1>1. UNCHANGED <<pool, claims, clock, handed>> /\ At(s, "lookup", "sent")
  BY DEF Lookup
<1>2. CASE Answer(s, FALSE, {}, None)
  <2>1. ReqInv' /\ SlotsLose
    BY <1>1, <1>2, FS_EmptySet, AnswerSteps DEF IInv
  <2> QED
    BY <1>1, <2>1, QuietServer
<1>3. CASE req' = [req EXCEPT ![s].at = "loaded", ![s].token = offered, ![s].window = clock]
  <2>1. /\ ReqInv /\ RequestOK(req[s]) /\ req[s].keys \in SUBSET Nat /\ IsFiniteSet(req[s].keys) /\ clock \in Nat
    BY DEF IInv, ReqInv, RequestOK
  <2>2. PICK r : r = [req[s] EXCEPT !.at = "loaded", !.token = offered, !.window = clock]
    OBVIOUS
  <2>3. req' = [req EXCEPT ![s] = r]
    <3>1. DOMAIN req = Slots /\ DOMAIN req[s] = {"op", "at", "keys", "token", "window", "ok"}
      BY <2>1 DEF ReqInv, RequestOK
    <3> QED
      BY <1>3, <2>2, <3>1
  <2>4. RequestOK(r) /\ r.op = req[s].op /\ r.at = "loaded"
    <3>1. r = [op |-> req[s].op, at |-> "loaded", keys |-> req[s].keys, token |-> offered,
               window |-> clock, ok |-> req[s].ok]
      BY <2>1, <2>2 DEF RequestOK
    <3> QED
      BY <2>1, <3>1 DEF RequestOK
  <2>5. ReqInv' /\ Turns(s, r) /\ req'[s] = r
    BY <1>1, <2>1, <2>3, <2>4, GoesOnServing DEF At
  <2>6. Loses(s)
    BY <1>1, <2>4, <2>5, GrantBounds DEF Loses, Published, Reply, Granted, At
  <2> QED
    BY <1>1, <2>1, <2>5, <2>6, TurnLoses, QuietServer
<1> QED
  BY <1>2, <1>3 DEF Lookup

LEMMA TickStep ==
    ASSUME IInv, DeviceStays, Tick
    PROVE  IInv'
<1>1. ReqInv'
  BY DEF Tick, IInv, ReqInv, RequestOK
<1> QED
  BY <1>1, RestLoses, QuietServer DEF Tick

\* The batch moves from the request into the pool.
LEMMA AddKeysStep ==
    ASSUME IInv, DeviceStays, NEW s \in Slots, AddKeys(s)
    PROVE  IInv'
<1> USE DEF IInv, DeviceStays, KeysInv
<1>1. /\ At(s, "add", "clamped") /\ pool' = pool \cup req[s].keys
      /\ Answer(s, TRUE, req[s].keys, None) /\ claims' = claims /\ clock' = clock /\ handed' = handed
  BY DEF AddKeys
<1>2. RequestOK(req[s]) /\ req[s].keys \in SUBSET Nat /\ IsFiniteSet(req[s].keys) /\ req[s].op = "add"
  BY <1>1 DEF ReqInv, RequestOK, At
<1>3. ReqInv' /\ SlotsLose
  BY <1>1, <1>2, AnswerSteps
<1>4. Published(s) = req[s].keys /\ Published(s)' = {}
  <2>1. Published(s) = req[s].keys
    BY <1>1 DEF Published, At
  <2>2. req'[s].at \notin {"sent", "clamped"}
    <3>1. PICK keys : keys = req[s].keys
      OBVIOUS
    <3>2. Answer(s, TRUE, keys, None)
      BY <1>1, <3>1
    <3>3. req'[s] = NoRequest \/ req'[s].at = "answered"
      BY <3>2, AnswerEnds
    <3>4. req'[s].at = "none" \/ req'[s].at = "answered"
      BY <3>3, NoRequestHas
    <3> QED
      BY <3>4
  <2> QED
    BY <2>1, <2>2 DEF Published
<1>5. CountersOK' /\ ClaimInv'
  BY <1>1, <1>3, GrantsLose, ClaimStays
<1>6. TaskInv'
  <2>1. IsFiniteSet(pool') /\ pool' \subseteq Nat
    BY <1>1, <1>2, FS_Union DEF TaskInv
  <2> QED
    BY <2>1 DEF TaskInv
<1>7. \A x \in Slots : Published(x)' \subseteq Published(x) /\ Reply(x)' \subseteq Reply(x)
  BY <1>3 DEF SlotsLose, Loses
<1>8. Gone' = Gone /\ Unsent' = Unsent /\ Safe' = Safe
  BY <1>1 DEF Gone, Unsent, Safe
<1>9. ShelfInv'
  <2>1. /\ pool' \subseteq 1 .. made.keys /\ \A k \in pool' : k \notin Gone /\ k \notin Unsent
    <3> SUFFICES ASSUME NEW k \in pool'
                 PROVE  k \in 1 .. made.keys /\ k \notin Gone /\ k \notin Unsent
      OBVIOUS
    <3>1. k \in pool \/ k \in Published(s)
      BY <1>1, <1>4
    <3>2. k \in pool => k \in 1 .. made.keys /\ k \notin Gone /\ k \notin Unsent
      BY Zenon DEF ShelfInv
    <3>3. k \in Published(s) => k \in 1 .. made.keys /\ k \notin Gone /\ k \notin Unsent
      BY Zenon DEF ShelfInv
    <3> QED
      BY <3>1, <3>2, <3>3
  <2>2. ASSUME NEW x \in Slots, NEW k \in Published(x)' PROVE x # s /\ k \in Published(x) /\ k \notin pool'
    <3>1. x # s /\ k \in Published(x)
      BY <1>4, <1>7, <2>2
    <3>2. k \notin pool /\ k \notin Published(s)
      BY <3>1 DEF ShelfInv
    <3> QED
      BY <1>1, <1>4, <3>1, <3>2
  <2> QED
    BY <1>1, <1>7, <1>8, <2>1, <2>2 DEF ShelfInv
<1>10. HandInv'
  BY <1>7, <1>8, HandStays
<1>11. SecretInv'
  <2>1. pool' \subseteq Safe'
    BY <1>1, <1>4, <1>8 DEF SecretInv
  <2>2. \A m \in mail' : Looked(m)' = Looked(m)
    BY DEF Looked
  <2> QED
    BY <1>7, <1>8, <2>1, <2>2 DEF SecretInv
<1>12. OpeningInv' /\ FirstMessageOpens'
  BY DEF OpeningInv, FirstMessageOpens
<1> QED
  BY <1>3, <1>5, <1>6, <1>9, <1>10, <1>11, <1>12

\* What counting does to the other windows.
LEMMA CountedIs ==
    ASSUME NEW c, DOMAIN c \subseteq Nat, \A v \in DOMAIN c : c[v] \in Nat, NEW w \in Nat
    PROVE  /\ DOMAIN Counted(c, w) = {v \in DOMAIN c \cup {w} : v >= w}
           /\ \A v \in DOMAIN Counted(c, w) : Counted(c, w)[v] \in Nat
           /\ CountOf(Counted(c, w), w) = CountOf(c, w) + 1
           /\ \A v \in Nat : v > w => CountOf(Counted(c, w), v) = CountOf(c, v)
<1>1. DOMAIN Counted(c, w) = {v \in DOMAIN c \cup {w} : v >= w}
  BY DEF Counted
<1>2. \A v \in DOMAIN Counted(c, w) : Counted(c, w)[v] = CountOf(c, v) + IF v = w THEN 1 ELSE 0
  BY DEF Counted
<1>3. \A v \in Nat : CountOf(c, v) \in Nat
  BY DEF CountOf
<1>4. \A v \in DOMAIN Counted(c, w) : v \in Nat
  BY <1>1
<1>5. w \in DOMAIN Counted(c, w)
  BY <1>1
<1>6. \A v \in Nat : v > w => CountOf(Counted(c, w), v) = CountOf(c, v)
  <2> SUFFICES ASSUME NEW v \in Nat, v > w PROVE CountOf(Counted(c, w), v) = CountOf(c, v)
    OBVIOUS
  <2>1. CASE v \in DOMAIN c
    <3>1. v \in DOMAIN Counted(c, w) /\ v # w
      BY <1>1, <2>1
    <3>2. Counted(c, w)[v] = CountOf(c, v) + 0
      BY <1>2, <3>1
    <3> QED
      BY <1>3, <3>1, <3>2 DEF CountOf
  <2>2. CASE v \notin DOMAIN c
    BY <1>1, <2>2 DEF CountOf
  <2> QED
    BY <2>1, <2>2
<1>7. CountOf(Counted(c, w), w) = CountOf(c, w) + 1
  BY <1>2, <1>5 DEF CountOf
<1>8. \A v \in DOMAIN Counted(c, w) : Counted(c, w)[v] \in Nat
  BY <1>2, <1>3, <1>4
<1> QED
  BY <1>1, <1>6, <1>7, <1>8

LEMMA ClaimStep ==
    ASSUME IInv, DeviceStays, NEW s \in Slots, Claim(s)
    PROVE  IInv'
<1> USE DEF IInv, DeviceStays
<1> DEFINE who == s[1]
           w == req[s].window
<1>1. /\ At(s, "lookup", "loaded") /\ claims' = [claims EXCEPT ![who] = Counted(@, w)]
      /\ pool' = pool /\ clock' = clock /\ handed' = handed
      /\ \/ CountOf(claims[who], w) + 1 <= ClaimLimit /\ req' = [req EXCEPT ![s].at = "claimed"]
         \/ Answer(s, TRUE, {}, req[s].token)
  BY DEF Claim
<1>2. RequestOK(req[s]) /\ who \in Peers /\ w \in Nat /\ (s = Live(who) \/ s = Left(who))
  BY <1>1, SlotFacts DEF ReqInv, RequestOK, OpOK, At
<1>3. /\ ReqInv' /\ \A x \in Slots : Published(x)' \subseteq Published(x) /\ Reply(x)' \subseteq Reply(x)
      /\ \A x \in Slots : x # s => req'[x] = req[x]
      /\ \A v \in Nat : Granted(s, v) = 0 /\ (Granted(s, v)' = 1 => v = w /\ CountOf(claims[who], w) + 1 <= ClaimLimit)
  <2>1. CASE CountOf(claims[who], w) + 1 <= ClaimLimit /\ req' = [req EXCEPT ![s].at = "claimed"]
    <3>1. PICK r : r = [req[s] EXCEPT !.at = "claimed"]
      OBVIOUS
    <3>2. req' = [req EXCEPT ![s] = r]
      BY <2>1, <3>1
    <3>3. r = [op |-> req[s].op, at |-> "claimed", keys |-> req[s].keys, token |-> req[s].token,
               window |-> req[s].window, ok |-> req[s].ok]
      BY <1>2, <3>1 DEF RequestOK
    <3>4. RequestOK(r) /\ r.op = req[s].op /\ r.at = "claimed" /\ r.window = w
      BY <1>2, <3>3 DEF RequestOK
    <3>5. ReqInv' /\ Turns(s, r) /\ req'[s] = r
      BY <1>1, <3>2, <3>4, GoesOnServing DEF At
    <3>6. \A x \in Slots : x # s => req'[x] = req[x]
      BY <3>5 DEF Turns
    <3> QED
      BY <1>1, <2>1, <3>4, <3>5, <3>6 DEF Published, Reply, Granted, At
  <2>2. CASE Answer(s, TRUE, {}, req[s].token)
    <3>1. ReqInv' /\ SlotsLose
      BY <1>1, <2>2, FS_EmptySet, AnswerSteps
    <3>2. \A x \in Slots : x # s => req'[x] = req[x]
      BY <2>2, AnswerEnds
    <3>3. \A v \in Nat : Granted(s, v) = 0 /\ Granted(s, v)' <= Granted(s, v)
      BY <1>1, <3>1 DEF SlotsLose, Loses, Granted, At
    <3> QED
      BY <3>1, <3>2, <3>3, GrantBounds DEF SlotsLose, Loses
  <2> QED
    BY <1>1, <2>1, <2>2
<1>4. CountersOK'
  <2>1. claims = [p \in Peers |-> claims[p]] /\ DOMAIN claims[who] \subseteq Nat
        /\ \A v \in DOMAIN claims[who] : claims[who][v] \in Nat
    BY <1>2 DEF CountersOK
  <2>2. claims' = [p \in Peers |-> IF p = who THEN Counted(claims[who], w) ELSE claims[p]]
    BY <1>1, <2>1
  <2> HIDE DEF who, w
  <2>3. /\ DOMAIN Counted(claims[who], w) \subseteq Nat
        /\ \A v \in DOMAIN Counted(claims[who], w) : Counted(claims[who], w)[v] \in Nat
    <3>1. PICK c : c = claims[who]
      OBVIOUS
    <3>2. DOMAIN c \subseteq Nat /\ \A v \in DOMAIN c : c[v] \in Nat
      BY <2>1, <3>1
    <3>3. /\ DOMAIN Counted(c, w) = {v \in DOMAIN c \cup {w} : v >= w}
          /\ \A v \in DOMAIN Counted(c, w) : Counted(c, w)[v] \in Nat
      BY <1>2, <3>2, CountedIs
    <3> QED
      BY <1>2, <3>1, <3>2, <3>3
  <2> QED
    BY <2>2, <2>3 DEF CountersOK
<1>5. ClaimInv'
  <2> SUFFICES ASSUME NEW p \in Peers, NEW v \in Nat
               PROVE  /\ IsFiniteSet(Drawn(p, v))' /\ (Cardinality(Drawn(p, v)) <= ClaimLimit)'
                      /\ \/ Pruned(p, v)'
                         \/ /\ (Cardinality(Drawn(p, v)) + Grants(p, v) <= CountOf(claims[p], v))'
                            /\ (Cardinality(Drawn(p, v)) + Grants(p, v) <= ClaimLimit)'
    BY DEF ClaimInv
  <2>1. Drawn(p, v)' = Drawn(p, v)
    BY <1>1 DEF Drawn
  <2>2. /\ IsFiniteSet(Drawn(p, v)) /\ Cardinality(Drawn(p, v)) <= ClaimLimit
        /\ \/ Pruned(p, v)
           \/ /\ Cardinality(Drawn(p, v)) + Grants(p, v) <= CountOf(claims[p], v)
              /\ Cardinality(Drawn(p, v)) + Grants(p, v) <= ClaimLimit
    BY DEF ClaimInv
  <2>3. Cardinality(Drawn(p, v)) \in Nat /\ CountOf(claims[p], v) \in Nat /\ ClaimLimit \in Nat
    BY <2>2, FS_CardinalityType, CountIsNat, BundlesAssumption DEF BundlesAssumption
  <2>4. Live(p) \in Slots /\ Left(p) \in Slots /\ Live(p) # Left(p) /\ Live(p)[1] = p /\ Left(p)[1] = p
    BY SlotFacts
  <2>5. Grants(p, v) \in Nat /\ Grants(p, v)' \in Nat
    BY <2>4, GrantBounds DEF Grants
  <2>6. CASE p # who
    <3>1. claims'[p] = claims[p] /\ Grants(p, v)' = Grants(p, v)
      <4>1. claims'[p] = claims[p]
        BY <1>1, <2>6 DEF CountersOK
      <4>2. req'[Live(p)] = req[Live(p)] /\ req'[Left(p)] = req[Left(p)]
        BY <1>3, <2>4, <2>6
      <4> QED
        BY <4>1, <4>2 DEF Grants, Granted, At
    <3> QED
      BY <2>1, <2>2, <3>1 DEF Pruned
  <2>7. CASE p = who
    <3>1. claims'[p] = Counted(claims[p], w)
      BY <1>1, <1>2, <2>7 DEF CountersOK
    <3>2. /\ DOMAIN Counted(claims[p], w) = {x \in DOMAIN claims[p] \cup {w} : x >= w}
          /\ CountOf(Counted(claims[p], w), w) = CountOf(claims[p], w) + 1
          /\ \A x \in Nat : x > w => CountOf(Counted(claims[p], w), x) = CountOf(claims[p], x)
      <4>1. DOMAIN claims[p] \subseteq Nat /\ \A x \in DOMAIN claims[p] : claims[p][x] \in Nat
        BY DEF CountersOK
      <4> QED
        BY <1>2, <4>1, CountedIs
    <3>3. DOMAIN claims[p] \subseteq Nat
      BY DEF CountersOK
    <3>4. Grants(p, v)' <= Grants(p, v) + Granted(s, v)'
      <4>1. \A x \in {Live(p), Left(p)} : x # s => Granted(x, v)' = Granted(x, v)
        BY <1>3, <2>4 DEF Granted, At
      <4>2. Granted(s, v)' \in {0, 1} /\ Granted(s, v) = 0
        BY <1>3, GrantBounds
      <4>3. \A x \in {Live(p), Left(p)} : Granted(x, v) \in {0, 1} /\ Granted(x, v)' \in {0, 1}
        BY <2>4, GrantBounds
      <4>4. s = Live(p) \/ s = Left(p)
        BY <1>2, <2>7
      <4> QED
        BY <2>4, <4>1, <4>2, <4>3, <4>4 DEF Grants
    <3>5. CASE v < w
      <4>1. w \in DOMAIN claims'[p] /\ w > v
        BY <1>2, <3>1, <3>2, <3>5
      <4> QED
        BY <2>1, <2>2, <4>1 DEF Pruned
    <3>6. CASE v = w
      <4>1. CASE Pruned(p, v)
        <5>1. PICK x \in DOMAIN claims[p] : x > v
          BY <4>1 DEF Pruned
        <5>2. x \in DOMAIN claims'[p]
          BY <1>2, <3>1, <3>2, <3>3, <3>6, <5>1
        <5> QED
          BY <2>1, <2>2, <5>1, <5>2 DEF Pruned
      <4>2. CASE ~ Pruned(p, v)
        <5>1. Granted(s, v)' = 0 \/ (Granted(s, v)' = 1 /\ CountOf(claims[p], v) + 1 <= ClaimLimit)
          BY <1>3, <2>7, <3>6, GrantBounds
        <5>2. CountOf(claims'[p], v) = CountOf(claims[p], v) + 1
          BY <3>1, <3>2, <3>6
        <5> QED
          BY <2>1, <2>2, <2>3, <2>5, <3>4, <4>2, <5>1, <5>2
      <4> QED
        BY <4>1, <4>2
    <3>7. CASE v > w
      <4>1. Granted(s, v)' = 0
        BY <1>2, <1>3, <3>7, GrantBounds
      <4>2. CountOf(claims'[p], v) = CountOf(claims[p], v)
        BY <3>1, <3>2, <3>7
      <4>3. Pruned(p, v) => Pruned(p, v)'
        BY <1>2, <3>1, <3>2, <3>3, <3>7 DEF Pruned
      <4> QED
        BY <2>1, <2>2, <2>3, <2>5, <3>4, <4>1, <4>2, <4>3
    <3> QED
      BY <1>2, <3>5, <3>6, <3>7
  <2> QED
    BY <2>6, <2>7
<1>6. TaskInv'
  BY <1>1, TaskRests
<1>7. KeysInv'
  <2>1. made.keys <= made'.keys
    BY DEF TaskInv
  <2> QED
    BY <1>1, <1>3, <1>6, <2>1, KeysStay
<1> QED
  BY <1>3, <1>4, <1>5, <1>6, <1>7

\* The oldest row is handed out: it leaves the pool for the reply.
LEMMA ConsumeStep ==
    ASSUME IInv, DeviceStays, NEW s \in Slots, Consume(s)
    PROVE  IInv'
<1> USE DEF IInv, DeviceStays
<1>1. /\ At(s, "lookup", "claimed") /\ pool' = pool \ Least(pool, 1)
      /\ Answer(s, TRUE, Least(pool, 1), req[s].token) /\ claims' = claims /\ clock' = clock
      /\ handed' = handed \cup {[key |-> k, peer |-> s[1], window |-> req[s].window, late |-> Late(s)] :
                                  k \in Least(pool, 1)}
  BY DEF Consume
<1>2. RequestOK(req[s]) /\ s[1] \in Peers /\ req[s].window \in Nat /\ (s = Live(s[1]) \/ s = Left(s[1]))
  BY <1>1, SlotFacts DEF ReqInv, RequestOK, OpOK, At
<1>3. pool \in SUBSET Nat /\ IsFiniteSet(pool)
  BY DEF TaskInv
<1>4. CASE Least(pool, 1) = {}
  <2>1. Answer(s, TRUE, {}, req[s].token) /\ pool' = pool /\ handed' = handed
    BY <1>1, <1>4
  <2>2. ReqInv' /\ SlotsLose
    BY <1>1, <2>1, FS_EmptySet, AnswerSteps
  <2> QED
    BY <1>1, <2>1, <2>2, QuietServer
<1>5. ASSUME NEW k \in pool, Least(pool, 1) = {k} PROVE IInv'
  <2> DEFINE h == [key |-> k, peer |-> s[1], window |-> req[s].window, late |-> Late(s)]
  <2>1. /\ h.key = k /\ h.peer = s[1] /\ h.window = req[s].window /\ h.late = Late(s)
        /\ handed' = handed \cup {h} /\ pool' = pool \ {k} /\ Answer(s, TRUE, {k}, req[s].token)
    BY <1>1, <1>5
  <2> HIDE DEF h
  <2>2. /\ \A x \in Slots : x # s => req'[x] = req[x]
        /\ \/ req'[s] = NoRequest
           \/ req'[s].at = "answered" /\ req'[s].keys = {k} /\ req'[s].op = "lookup"
    BY <1>1, <2>1, AnswerEnds DEF At
  <2>3. ReqInv'
    <3> DEFINE r == [op |-> req[s].op, at |-> "answered", keys |-> {k}, token |-> req[s].token,
                     window |-> req[s].window, ok |-> TRUE]
    <3>1. clock' \in Nat /\ k \in Nat /\ IsFiniteSet({k})
      BY <1>1, <1>3, FS_Singleton DEF ReqInv
    <3>2. RequestOK(r) /\ OpOK(s, r)
      BY <1>1, <1>2, <3>1 DEF RequestOK, OpOK, At
    <3>3. Turns(s, NoRequest) \/ Turns(s, r)
      BY <2>1, AnswerIs
    <3> HIDE DEF r
    <3> QED
      BY <3>1, <3>2, <3>3, NoRequestHas, TurnsTo
  <2>4. \A x \in Slots : Published(x)' \subseteq Published(x)
        /\ (Reply(x)' = Reply(x) \/ (x = s /\ Reply(x)' \subseteq {k}))
    BY <2>2, NoRequestHas DEF Published, Reply, At
  <2>5. Gone' = Gone \cup {k}
    BY <2>1 DEF Gone
  <2>6. TaskInv'
    <3>1. IsFiniteSet(pool') /\ pool' \subseteq Nat
      BY <1>3, <2>1, FS_RemoveElement
    <3> QED
      BY <3>1 DEF TaskInv
  <2>7. CountersOK' /\ ClaimInv'
    <3>1. CountersOK'
      BY <1>1 DEF CountersOK
    <3> SUFFICES ASSUME NEW p \in Peers, NEW v \in Nat
                 PROVE  /\ IsFiniteSet(Drawn(p, v))' /\ (Cardinality(Drawn(p, v)) <= ClaimLimit)'
                        /\ \/ Pruned(p, v)'
                           \/ /\ (Cardinality(Drawn(p, v)) + Grants(p, v) <= CountOf(claims[p], v))'
                              /\ (Cardinality(Drawn(p, v)) + Grants(p, v) <= ClaimLimit)'
      BY <3>1 DEF ClaimInv
    <3>2. /\ IsFiniteSet(Drawn(p, v)) /\ Cardinality(Drawn(p, v)) <= ClaimLimit
          /\ \/ Pruned(p, v)
             \/ /\ Cardinality(Drawn(p, v)) + Grants(p, v) <= CountOf(claims[p], v)
                /\ Cardinality(Drawn(p, v)) + Grants(p, v) <= ClaimLimit
      BY DEF ClaimInv
    <3>3. Cardinality(Drawn(p, v)) \in Nat /\ CountOf(claims[p], v) \in Nat /\ ClaimLimit \in Nat
      BY <3>2, FS_CardinalityType, CountIsNat, BundlesAssumption DEF BundlesAssumption
    <3>4. Pruned(p, v)' = Pruned(p, v) /\ CountOf(claims'[p], v) = CountOf(claims[p], v)
      BY <1>1 DEF Pruned
    <3>5. Live(p) \in Slots /\ Left(p) \in Slots /\ Live(p) # Left(p) /\ Live(p)[1] = p /\ Left(p)[1] = p
      BY SlotFacts
    <3>6. Grants(p, v) \in Nat /\ Grants(p, v)' \in Nat
      BY <3>5, GrantBounds DEF Grants
    <3>7. Granted(s, v)' = 0 /\ \A x \in Slots : x # s => Granted(x, v)' = Granted(x, v)
      BY <2>2, NoRequestHas DEF Granted, At
    <3>8. Grants(p, v)' <= Grants(p, v)
      BY <3>5, <3>7, GrantBounds DEF Grants
    <3>9. CASE p = s[1] /\ v = req[s].window /\ ~ Late(s)
      <4>1. Drawn(p, v)' = Drawn(p, v) \cup {h}
        BY <2>1, <3>9 DEF Drawn
      <4>2. Granted(s, v) = 1
        BY <1>1, <3>9 DEF Granted
      <4>3. Grants(p, v)' + 1 <= Grants(p, v)
        BY <1>2, <3>5, <3>7, <3>9, <4>2, GrantBounds DEF Grants
      <4>4. ~ Pruned(p, v)
        BY <3>9 DEF Pruned, Late
      <4>5. IsFiniteSet(Drawn(p, v)') /\ Cardinality(Drawn(p, v)') <= Cardinality(Drawn(p, v)) + 1
            /\ Cardinality(Drawn(p, v)') \in Nat
        BY <3>2, <3>3, <4>1, FS_AddElement
      <4> QED
        BY <3>2, <3>3, <3>4, <3>6, <4>3, <4>4, <4>5
    <3>10. CASE ~ (p = s[1] /\ v = req[s].window /\ ~ Late(s))
      <4>1. Drawn(p, v)' = Drawn(p, v)
        BY <2>1, <3>10 DEF Drawn
      <4> QED
        BY <3>2, <3>3, <3>4, <3>6, <3>8, <4>1
    <3> QED
      BY <3>9, <3>10
  <2> USE DEF KeysInv
  <2>8. k \in 1 .. made.keys /\ k \notin Gone /\ k \notin Unsent /\ \A x \in Slots : k \notin Published(x)
    BY DEF ShelfInv
  <2>9. Unsent' = Unsent /\ Safe' = Safe
    BY DEF Unsent, Safe
  <2>10. ShelfInv'
    <3>1. \A a, b \in handed' : a.key = b.key => a = b
      <4>1. \A a \in handed : a.key # k
        BY <2>8 DEF Gone
      <4> QED
        BY <2>1, <4>1 DEF ShelfInv
    <3>2. Gone' \subseteq 1 .. made.keys
      BY <2>5, <2>8 DEF ShelfInv
    <3>3. \A x \in Slots : \A j \in Published(x)' : j \in Published(x) /\ j # k
      BY <2>4, <2>8
    <3>4. \A j \in pool' : j \in pool /\ j # k
      BY <2>1
    <3>5. /\ pool' \subseteq 1 .. made'.keys /\ Unsent' \subseteq 1 .. made'.keys
          /\ \A j \in pool' : j \notin Gone' /\ j \notin Unsent'
          /\ \A j \in Unsent' : j \notin Gone'
      BY <2>5, <2>8, <2>9, <3>4 DEF ShelfInv
    <3>6. ASSUME NEW x \in Slots, NEW j \in Published(x)'
          PROVE  /\ j \in 1 .. made'.keys /\ j \notin pool' /\ j \notin Gone' /\ j \notin Unsent'
                 /\ \A r \in Slots : j \in Published(r)' => r = x
      BY <2>5, <2>9, <3>3, <3>4, <3>6 DEF ShelfInv
    <3> QED
      BY <3>1, <3>2, <3>5, <3>6 DEF ShelfInv
  <2>11. HandInv'
    <3>1. /\ \A x \in Slots : k \notin Reply(x)
          /\ \A p \in Peers : k \notin peer[p].keys
          /\ \A m \in mail : m.key # k \/ m.key = None
      BY <2>8 DEF HandInv
    <3>2. \A m \in mail : m.key # k
      BY <1>3, <3>1, BundlesAssumption DEF BundlesAssumption
    <3> QED
      BY <2>4, <2>5, <3>1, <3>2 DEF HandInv
  <2>12. SecretInv'
    <3>1. \A m \in mail' : Looked(m)' = Looked(m)
      BY DEF Looked
    <3>2. \A x \in Slots : Published(x)' \subseteq Safe' /\ Reply(x)' \subseteq Safe'
      BY <2>4, <2>9 DEF SecretInv
    <3>3. pool' \subseteq Safe'
      BY <2>1, <2>9 DEF SecretInv
    <3> QED
      BY <2>9, <3>1, <3>2, <3>3 DEF SecretInv
  <2>13. OpeningInv' /\ FirstMessageOpens'
    BY DEF OpeningInv, FirstMessageOpens
  <2> QED
    BY <2>3, <2>6, <2>7, <2>10, <2>11, <2>12, <2>13
<1> QED
  BY <1>3, <1>4, <1>5, LeastIsOne

LEMMA ServerStep ==
    ASSUME IInv, Server
    PROVE  IInv'
<1>1. DeviceStays
  BY DEF Server, DeviceStays, device, ghosts
<1>2. CASE Tick
  BY <1>1, <1>2, TickStep
<1>3. ASSUME NEW s \in Slots, Serve(s) PROVE IInv'
  BY <1>1, <1>3, CountKeysStep, ClampKeysStep, AddKeysStep, RegisterWithObjectStep, RegisterInRowStep,
     LookupStep, ClaimStep, ConsumeStep DEF Serve
<1> QED
  BY <1>2, <1>3 DEF Server

LEMMA FaultStep ==
    ASSUME IInv, NEW s \in Slots, Fault(s)
    PROVE  IInv'
<1>1. DeviceStays /\ Vanish(s)
  BY DEF Fault, DeviceStays, device, ghosts
<1> QED
  BY <1>1, VanishStep

-----------------------------------------------------------------------------
(* What the threads do that leaves the secrets alone.                      *)

KeysAsTheyAre ==
    UNCHANGED <<pool, claims, handed, mail, failed, doc, lost, torn>> /\ made'.keys = made.keys

LEMMA QuietDevice ==
    ASSUME IInv, KeysAsTheyAre, ReqInv', TaskInv', SlotsLose,
           \A p \in Peers : peer'[p].keys \subseteq peer[p].keys,
           Unsent' = {} \/ task'["replenish"] = task["replenish"],
           \/ task'["chain"] = task["chain"]
           \/ task["chain"].at \notin {"opening", "commit"} /\ task'["chain"].at \notin {"opening", "commit"}
    PROVE  IInv'
<1> USE DEF IInv
<1>1. pool' = pool /\ claims' = claims /\ handed' = handed /\ mail' = mail /\ failed' = failed
      /\ doc' = doc /\ lost' = lost /\ torn' = torn
  BY DEF KeysAsTheyAre
<1>2. CountersOK' /\ ClaimInv'
  BY <1>1, GrantsLose, ClaimStays
<1>3. KeysInv'
  <2>1. made.keys <= made'.keys
    BY DEF TaskInv, KeysAsTheyAre
  <2>2. \A s \in Slots : Published(s)' \subseteq Published(s) /\ Reply(s)' \subseteq Reply(s)
    BY DEF SlotsLose, Loses
  <2> QED
    BY <1>1, <2>1, <2>2, KeysStay
<1> QED
  BY <1>2, <1>3

LEMMA QuietThread ==
    ASSUME IInv, KeysAsTheyAre, peer' = peer, DOMAIN made' = DOMAIN made, ReqInv', SlotsLose,
           NEW t \in Threads, NEW j, task' = [task EXCEPT ![t] = j], JobOK(t, j),
           t = "replenish" => j.at # "saving",
           t = "chain" => task[t].at \notin {"opening", "commit"} /\ j.at \notin {"opening", "commit"}
    PROVE  IInv'
<1> USE DEF IInv
<1>1. doc' = doc /\ pool' = pool /\ DOMAIN made' = {"keys", "tokens"} /\ made'.keys \in Nat
  BY DEF KeysAsTheyAre, TaskInv
<1>2. TaskInv' /\ task'[t] = j /\ \A u \in Threads : u # t => task'[u] = task[u]
  BY <1>1, OneGoes
<1>3. Unsent' = {} \/ task'["replenish"] = task["replenish"]
  BY <1>2, ThreadFacts DEF Unsent
<1>4. \/ task'["chain"] = task["chain"]
      \/ task["chain"].at \notin {"opening", "commit"} /\ task'["chain"].at \notin {"opening", "commit"}
  BY <1>2, ThreadFacts
<1> QED
  BY <1>2, <1>3, <1>4, QuietDevice

LEMMA SlotsAsTheyAre == ASSUME ReqInv, req' = req, clock' = clock PROVE ReqInv' /\ SlotsLose
BY RestLoses DEF ReqInv

\* A thread at its place has nothing to save.
LEMMA StandsHas ==
    ASSUME TaskInv, NEW t \in Threads
    PROVE  /\ TaskFields(task[t]) /\ JobOK(t, task[t]) /\ DOMAIN task = Threads
           /\ task[t].todo = << >> => task[t].snap = None
BY DEF TaskInv, JobOK

\* The fields of a thread that goes on.
LEMMA ThreadGoes ==
    ASSUME TaskInv, NEW t \in Threads, task[t].todo = << >>, NEW j,
           j.todo = << >> \/ (t \in {"effect", "removal"} /\ HarmlessList(j.todo)),
           DOMAIN j = DOMAIN task[t], j.snap = task[t].snap,
           j.at \notin {"saving", "opening"}
    PROVE  JobOK(t, j)
BY StandsHas, ThreadFacts DEF JobOK, TodoOK, TaskFields, HarmlessList

LEMMA ReplenishStep ==
    ASSUME IInv, Replenish
    PROVE  IInv'
<1> USE DEF IInv
<1>1. /\ Stands("replenish", "rest") /\ Send("replenish", Request("count", {}, None))
      /\ task' = Goes("replenish", "counting", <<>>)
      /\ KeysAsTheyAre /\ clock' = clock /\ peer' = peer /\ made' = made
  BY DEF Replenish, KeysAsTheyAre, ghosts
<1>2. "replenish" \in Threads
  BY ThreadFacts
<1>3. ReqInv' /\ SlotsLose
  <2>1. {} \in SUBSET Nat /\ IsFiniteSet({}) /\ "count" \notin {"none", "lookup", "add"}
    BY FS_EmptySet
  <2>2. "replenish" \in Peers \cup Threads /\ "replenish" \notin Peers
    BY <1>2, ThreadFacts
  <2> QED
    BY <1>1, <2>1, <2>2, SendIs
<1>4. /\ task' = [task EXCEPT !["replenish"] = task'["replenish"]]
      /\ JobOK("replenish", task'["replenish"]) /\ task'["replenish"].at = "counting"
  BY <1>1, <1>2, GoesOn DEF Stands
<1> QED
  BY <1>1, <1>2, <1>3, <1>4, QuietThread

LEMMA ReplenishedStep ==
    ASSUME IInv, Replenished
    PROVE  IInv'
<1> USE DEF IInv
<1>1. /\ Took("replenish") /\ task' = Finished("replenish")
      /\ KeysAsTheyAre /\ clock' = clock /\ peer' = peer /\ made' = made
  BY DEF Replenished, KeysAsTheyAre, ghosts
<1>2. "replenish" \in Threads /\ "replenish" # "chain"
  BY ThreadFacts
<1>3. ReqInv' /\ SlotsLose
  BY <1>1, <1>2, TookIs
<1>4. task' = [task EXCEPT !["replenish"] = Rest] /\ JobOK("replenish", Rest) /\ Rest.at # "saving"
  BY <1>1, <1>2, Finishes, RestHas
<1> QED
  BY <1>1, <1>2, <1>3, <1>4, QuietThread

LEMMA MakesTokenHas ==
    ASSUME TaskInv, MakesToken
    PROVE  DOMAIN made' = DOMAIN made /\ made'.keys = made.keys
BY DEF TaskInv, MakesToken

LEMMA OwnIsHarmless == \A token : HarmlessList(Own(token))
BY HarmlessLists, ChangeHas DEF Own, Harmless

LEMMA ConnectStep ==
    ASSUME IInv, Connect
    PROVE  IInv'
<1> USE DEF IInv
<1>1. /\ "effect" \in Threads /\ Stands("effect", "rest")
      /\ UNCHANGED <<bundles, doc, peer, mail, failed, lost, torn>>
  BY ThreadFacts DEF Connect
<1>2. PICK j : j = task'["effect"]
  OBVIOUS
<1>3. DOMAIN made' = DOMAIN made /\ made'.keys = made.keys
  BY MakesTokenHas DEF Connect
<1>4. /\ task' = [task EXCEPT !["effect"] = j] /\ DOMAIN j = DOMAIN task["effect"]
      /\ j.snap = task["effect"].snap /\ j.at = "saved" /\ HarmlessList(j.todo)
  <2>1. TaskFields(task["effect"]) /\ DOMAIN task = Threads /\ task["effect"].todo = << >>
    BY <1>1, StandsHas DEF Stands
  <2>2. CASE doc.token # None
    BY <1>1, <1>2, <2>1, <2>2, HarmlessLists DEF Connect, TaskFields
  <2>3. CASE doc.token = None
    BY <1>1, <1>2, <2>1, <2>3, OwnIsHarmless DEF Connect, TaskFields
  <2> QED
    BY <2>2, <2>3
<1>5. JobOK("effect", j)
  BY <1>1, <1>4, ThreadGoes DEF Stands
<1>6. KeysAsTheyAre /\ req' = req /\ clock' = clock /\ peer' = peer
  BY <1>1, <1>3 DEF KeysAsTheyAre, bundles
<1> QED
  BY <1>1, <1>3, <1>4, <1>5, <1>6, SlotsAsTheyAre, QuietThread

LEMMA RegisterStep ==
    ASSUME IInv, NEW t \in {"effect", "removal"}, Register(t)
    PROVE  IInv'
<1> USE DEF IInv
<1>1. /\ Stands(t, "saved") /\ Send(t, Request("register", {}, task[t].arg))
      /\ task' = Goes(t, "registering", <<>>)
      /\ KeysAsTheyAre /\ clock' = clock /\ peer' = peer /\ made' = made
  BY DEF Register, KeysAsTheyAre, ghosts
<1>2. t \in Threads /\ t # "replenish" /\ t # "chain"
  BY ThreadFacts
<1>3. ReqInv' /\ SlotsLose
  <2>1. {} \in SUBSET Nat /\ IsFiniteSet({}) /\ "register" \notin {"none", "lookup", "add"}
    BY FS_EmptySet
  <2>2. t \in Peers \cup Threads /\ t \notin Peers
    BY <1>2, ThreadFacts
  <2> QED
    BY <1>1, <2>1, <2>2, SendIs
<1>4. /\ task' = [task EXCEPT ![t] = task'[t]]
      /\ JobOK(t, task'[t]) /\ task'[t].at = "registering"
  BY <1>1, <1>2, GoesOn, HarmlessLists DEF Stands
<1> QED
  BY <1>1, <1>2, <1>3, <1>4, QuietThread

LEMMA EffectRegisteredStep ==
    ASSUME IInv, EffectRegistered
    PROVE  IInv'
<1> USE DEF IInv
<1>1. /\ Stands("effect", "registering") /\ Took("effect")
      /\ KeysAsTheyAre /\ clock' = clock /\ peer' = peer /\ made' = made
      /\ task' = Finished("effect") \/ task' = Goes("effect", "distribute", <<>>)
  BY DEF EffectRegistered, KeysAsTheyAre, ghosts
<1>2. "effect" \in Threads /\ "effect" # "chain" /\ "effect" # "replenish"
  BY ThreadFacts
<1>3. ReqInv' /\ SlotsLose
  BY <1>1, <1>2, TookIs
<1>4. CASE task' = Finished("effect")
  <2>1. task' = [task EXCEPT !["effect"] = Rest] /\ JobOK("effect", Rest)
    BY <1>2, <1>4, Finishes
  <2> QED
    BY <1>1, <1>2, <1>3, <2>1, QuietThread
<1>5. CASE task' = Goes("effect", "distribute", <<>>)
  <2>1. task' = [task EXCEPT !["effect"] = task'["effect"]] /\ JobOK("effect", task'["effect"])
    BY <1>1, <1>2, <1>5, GoesOn, HarmlessLists DEF Stands
  <2> QED
    BY <1>1, <1>2, <1>3, <2>1, QuietThread
<1> QED
  BY <1>1, <1>4, <1>5

LEMMA RemoveContactStep ==
    ASSUME IInv, NEW p \in Peers, RemoveContact(p)
    PROVE  IInv'
<1> USE DEF IInv
<1>1. /\ "removal" \in Threads /\ Stands("removal", "rest")
      /\ UNCHANGED <<bundles, doc, peer, mail, failed, lost, torn>>
  BY ThreadFacts DEF RemoveContact
<1>2. PICK j : j = task'["removal"]
  OBVIOUS
<1>3. DOMAIN made' = DOMAIN made /\ made'.keys = made.keys
  BY MakesTokenHas DEF RemoveContact
<1>4. /\ task' = [task EXCEPT !["removal"] = j] /\ DOMAIN j = DOMAIN task["removal"]
      /\ j.snap = task["removal"].snap /\ j.at = "saved" /\ HarmlessList(j.todo)
  <2>1. TaskFields(task["removal"]) /\ DOMAIN task = Threads
    BY <1>1, StandsHas
  <2> QED
    BY <1>1, <1>2, <2>1, OwnIsHarmless DEF RemoveContact, TaskFields
<1>5. JobOK("removal", j)
  BY <1>1, <1>4, ThreadGoes DEF Stands
<1>6. KeysAsTheyAre /\ req' = req /\ clock' = clock /\ peer' = peer
  BY <1>1, <1>3 DEF KeysAsTheyAre, bundles
<1> QED
  BY <1>1, <1>3, <1>4, <1>5, <1>6, SlotsAsTheyAre, QuietThread

LEMMA RemovalRegisteredStep ==
    ASSUME IInv, RemovalRegistered
    PROVE  IInv'
<1> USE DEF IInv
<1>1. /\ Stands("removal", "registering") /\ Took("removal")
      /\ KeysAsTheyAre /\ clock' = clock /\ peer' = peer /\ made' = made
      /\ task' = Goes("removal", "distribute", <<Change("drop", task["removal"].with, None)>>)
  BY DEF RemovalRegistered, KeysAsTheyAre, ghosts
<1>2. "removal" \in Threads /\ "removal" # "chain" /\ "removal" # "replenish"
  BY ThreadFacts
<1>3. ReqInv' /\ SlotsLose
  BY <1>1, <1>2, TookIs
<1>4. task' = [task EXCEPT !["removal"] = task'["removal"]] /\ JobOK("removal", task'["removal"])
  <2>1. HarmlessList(<<Change("drop", task["removal"].with, None)>>)
    BY HarmlessLists, ChangeHas DEF Harmless
  <2> QED
    BY <1>1, <1>2, <2>1, GoesOn DEF Stands
<1> QED
  BY <1>1, <1>2, <1>3, <1>4, QuietThread

LEMMA DistributeStep ==
    ASSUME IInv, NEW t \in {"effect", "removal"}, Distribute(t)
    PROVE  IInv'
<1> USE DEF IInv
<1>1. /\ Stands(t, "distribute") /\ Stands("chain", "rest")
      /\ UNCHANGED <<bundles, doc, peer, mail, ghosts, limits>>
      /\ task' = [task EXCEPT ![t] = Rest, !["chain"].at = "distributing", !["chain"].arg = doc.token,
                              !["chain"].rest = {p \in Peers : doc.contacts[p] # None}]
  BY DEF Distribute
<1>2. t \in Threads /\ t # "replenish" /\ t # "chain" /\ "chain" \in Threads
  BY ThreadFacts
<1>3. PICK j : j = task'["chain"]
  OBVIOUS
<1>4. TaskFields(task["chain"]) /\ DOMAIN task = Threads
  BY <1>2, StandsHas
<1>5. /\ task'[t] = Rest /\ DOMAIN task' = Threads
      /\ \A u \in Threads : u # t /\ u # "chain" => task'[u] = task[u]
      /\ TaskFields(j) /\ j.todo = << >> /\ j.snap = task["chain"].snap /\ j.at = "distributing"
  BY <1>1, <1>2, <1>3, <1>4 DEF Stands, TaskFields
<1>6. JobOK("chain", j)
  BY <1>1, <1>2, <1>4, <1>5, ThreadGoes DEF Stands, TaskFields
<1>7. \A u \in Threads : JobOK(u, task'[u])
  BY <1>3, <1>5, <1>6, RestIsOK DEF TaskInv
<1>8. TaskInv'
  BY <1>1, <1>5, <1>7 DEF TaskInv, bundles, ghosts
<1>9. KeysAsTheyAre /\ req' = req /\ clock' = clock /\ peer' = peer
  BY <1>1 DEF KeysAsTheyAre, bundles, ghosts
<1>10. task'["replenish"] = task["replenish"]
  BY <1>2, <1>5, ThreadFacts
<1>11. task["chain"].at \notin {"opening", "commit"} /\ task'["chain"].at \notin {"opening", "commit"}
  BY <1>1, <1>3, <1>5 DEF Stands
<1>12. ReqInv' /\ SlotsLose
  BY <1>9, SlotsAsTheyAre
<1> QED
  BY <1>8, <1>9, <1>10, <1>11, <1>12, QuietDevice

LEMMA DistributeToStep ==
    ASSUME IInv, NEW p \in Peers, DistributeTo(p)
    PROVE  IInv'
<1> USE DEF IInv
<1>1. /\ Stands("chain", "distributing") /\ "chain" \in Threads
      /\ UNCHANGED <<bundles, doc, mail, ghosts>>
  BY ThreadFacts DEF DistributeTo
<1>2. PICK j : j = task'["chain"]
  OBVIOUS
<1>3. TaskFields(task["chain"]) /\ DOMAIN task = Threads
  BY <1>1, StandsHas
<1>4. /\ task' = [task EXCEPT !["chain"] = j] /\ TaskFields(j) /\ j.todo = << >>
      /\ j.snap = task["chain"].snap /\ j.at = "distributing"
  BY <1>1, <1>2, <1>3 DEF DistributeTo, Stands, TaskFields
<1>5. JobOK("chain", j)
  BY <1>1, <1>3, <1>4, ThreadGoes DEF Stands, TaskFields
<1>6. /\ DOMAIN peer' = Peers /\ \A q \in Peers : DOMAIN peer'[q] = DOMAIN peer[q] /\ peer'[q].keys = peer[q].keys
  BY DEF DistributeTo, TaskInv
<1>7. KeysAsTheyAre /\ req' = req /\ clock' = clock /\ made' = made
  BY <1>1 DEF KeysAsTheyAre, bundles, ghosts
<1>8. /\ DOMAIN task' = Threads /\ \A u \in Threads : JobOK(u, task'[u])
      /\ task'["replenish"] = task["replenish"] /\ task'["chain"].at = "distributing"
  BY <1>1, <1>3, <1>4, <1>5, ThreadFacts DEF TaskInv
<1>9. TaskInv'
  BY <1>6, <1>7, <1>8 DEF TaskInv, KeysAsTheyAre
<1>10. task["chain"].at \notin {"opening", "commit"} /\ task'["chain"].at \notin {"opening", "commit"}
  BY <1>1, <1>8 DEF Stands
<1>11. ReqInv' /\ SlotsLose
  BY <1>7, SlotsAsTheyAre
<1>12. \A q \in Peers : peer'[q].keys \subseteq peer[q].keys
  BY <1>6
<1> QED
  BY <1>7, <1>8, <1>9, <1>10, <1>11, <1>12, QuietDevice

LEMMA OnChainIs ==
    ASSUME TaskInv, NEW at, NEW todo, OnChain(at, todo), HarmlessList(todo), at # "opening"
    PROVE  \E j : task' = [task EXCEPT !["chain"] = j] /\ JobOK("chain", j) /\ j.at = at
<1>1. PICK j : j = [Rest EXCEPT !.at = at, !.todo = todo]
  OBVIOUS
<1>2. TaskFields(j) /\ j.at = at /\ j.todo = todo /\ j.snap = None
  BY <1>1, RestHas DEF TaskFields
<1>3. JobOK("chain", j)
  BY <1>2 DEF JobOK, TodoOK
<1> QED
  BY <1>1, <1>2, <1>3 DEF OnChain

LEMMA EditStep ==
    ASSUME IInv, NEW p, NEW todo, Edit(p, todo), HarmlessList(todo)
    PROVE  IInv'
<1> USE DEF IInv
<1>1. /\ Stands("chain", "rest") /\ OnChain("editing", todo) /\ "chain" \in Threads
      /\ UNCHANGED <<bundles, doc, peer, mail, ghosts>>
  BY ThreadFacts DEF Edit
<1>2. PICK j : task' = [task EXCEPT !["chain"] = j] /\ JobOK("chain", j) /\ j.at = "editing"
  BY <1>1, OnChainIs
<1>3. KeysAsTheyAre /\ req' = req /\ clock' = clock /\ peer' = peer /\ made' = made
  BY <1>1 DEF KeysAsTheyAre, bundles, ghosts
<1>4. ReqInv' /\ SlotsLose
  BY <1>3, SlotsAsTheyAre
<1> QED
  BY <1>1, <1>2, <1>3, <1>4, QuietThread DEF Stands

LEMMA EditsStep ==
    ASSUME IInv, NEW p \in Peers,
           HandleSetVerified(p) \/ HandleSetTimer(p) \/ HandleAcknowledge(p) \/ HandleAddContact(p)
    PROVE  IInv'
<1>1. /\ Change("verify", p, TRUE).do = "verify" /\ Change("timer", p, TRUE).do = "timer"
      /\ Change("acknowledge", p, None).do = "acknowledge"
      /\ Change("contact", p, None).do = "contact" /\ Change("peertoken", p, 0).do = "peertoken"
  BY DEF Change
<1>2. /\ Harmless(Change("verify", p, TRUE)) /\ Harmless(Change("timer", p, TRUE))
      /\ Harmless(Change("acknowledge", p, None))
      /\ Harmless(Change("contact", p, None)) /\ Harmless(Change("peertoken", p, 0))
  BY <1>1 DEF Harmless
<1>3. HarmlessList(<<Change("verify", p, TRUE)>>) /\ HarmlessList(<<Change("timer", p, TRUE)>>)
      /\ HarmlessList(<<Change("acknowledge", p, None)>>)
  BY <1>2, HarmlessLists
<1>4. HarmlessList(<<Change("contact", p, None), Change("peertoken", p, 0)>>)
  BY <1>2, HarmlessLists
<1> QED
  BY <1>3, <1>4, EditStep DEF HandleSetVerified, HandleSetTimer, HandleAcknowledge, HandleAddContact

LEMMA SendSomethingStep ==
    ASSUME IInv, SendSomething
    PROVE  IInv'
<1> USE DEF IInv
<1>1. /\ Stands("chain", "rest") /\ OnChain("editing", Own(NextToken)) /\ "chain" \in Threads
      /\ UNCHANGED <<bundles, doc, peer, mail, failed, lost, torn>>
  BY ThreadFacts DEF SendSomething
<1>2. PICK j : task' = [task EXCEPT !["chain"] = j] /\ JobOK("chain", j) /\ j.at = "editing"
  BY <1>1, OnChainIs, OwnIsHarmless
<1>3. DOMAIN made' = DOMAIN made /\ made'.keys = made.keys
  BY MakesTokenHas DEF SendSomething
<1>4. KeysAsTheyAre /\ req' = req /\ clock' = clock /\ peer' = peer
  BY <1>1, <1>3 DEF KeysAsTheyAre, bundles
<1>5. ReqInv' /\ SlotsLose
  BY <1>4, SlotsAsTheyAre
<1> QED
  BY <1>1, <1>2, <1>3, <1>4, <1>5, QuietThread DEF Stands

LEMMA ChainDoneStep ==
    ASSUME IInv, ChainDone
    PROVE  IInv'
<1> USE DEF IInv
<1>1. /\ task["chain"].at \in {"editing", "distributing"} /\ task' = Finished("chain") /\ "chain" \in Threads
      /\ UNCHANGED <<bundles, doc, peer, mail, ghosts>>
  BY ThreadFacts DEF ChainDone, Stands
<1>2. task' = [task EXCEPT !["chain"] = Rest] /\ JobOK("chain", Rest) /\ Rest.at = "rest"
  BY <1>1, Finishes, RestHas
<1>3. KeysAsTheyAre /\ req' = req /\ clock' = clock /\ peer' = peer /\ made' = made
  BY <1>1 DEF KeysAsTheyAre, bundles, ghosts
<1>4. ReqInv' /\ SlotsLose
  BY <1>3, SlotsAsTheyAre
<1> QED
  BY <1>1, <1>2, <1>3, <1>4, QuietThread

-----------------------------------------------------------------------------
(* What the peers do.                                                      *)

PeerGoes(p) == UNCHANGED <<pool, claims, handed, doc, task, failed, made, lost, torn>> /\ p \in Peers

LEMMA OnePeer ==
    ASSUME TaskInv, NEW p, PeerGoes(p), NEW q, peer' = [peer EXCEPT ![p] = q], DOMAIN q = DOMAIN peer[p]
    PROVE  TaskInv' /\ peer'[p] = q /\ \A r \in Peers : r # p => peer'[r] = peer[r]
<1>1. /\ DOMAIN peer' = Peers /\ \A r \in Peers : DOMAIN peer'[r] = DOMAIN peer[r]
      /\ peer'[p] = q /\ \A r \in Peers : r # p => peer'[r] = peer[r]
  BY DEF TaskInv, PeerGoes
<1> QED
  BY <1>1 DEF TaskInv, PeerGoes

LEMMA QuietPeer ==
    ASSUME IInv, NEW p, PeerGoes(p), mail' = mail, ReqInv', SlotsLose,
           NEW q, peer' = [peer EXCEPT ![p] = q], DOMAIN q = DOMAIN peer[p], q.keys \subseteq peer[p].keys
    PROVE  IInv'
<1> USE DEF IInv
<1>1. TaskInv' /\ peer'[p] = q /\ \A r \in Peers : r # p => peer'[r] = peer[r]
  BY OnePeer
<1>2. \A r \in Peers : peer'[r].keys \subseteq peer[r].keys
  BY <1>1
<1>3. KeysAsTheyAre /\ task' = task
  BY DEF KeysAsTheyAre, PeerGoes
<1> QED
  BY <1>1, <1>2, <1>3, QuietDevice

LEMMA PeerHas ==
    ASSUME TaskInv, NEW p \in Peers
    PROVE  DOMAIN peer = Peers /\ DOMAIN peer[p] = {"at", "for", "keys", "met", "token"}
BY DEF TaskInv

\* What a lookup taught a peer.
LEMMA LearnedIs ==
    ASSUME TaskInv, NEW p \in Peers, NEW token, NEW keys, peer' = Learned(p, token, keys)
    PROVE  \E q : /\ peer' = [peer EXCEPT ![p] = q] /\ DOMAIN q = DOMAIN peer[p]
                  /\ q.keys = peer[p].keys \/ q.keys = keys
<1>1. DOMAIN peer = Peers /\ DOMAIN peer[p] = {"at", "for", "keys", "met", "token"}
  BY PeerHas
<1>2. PICK q : q = peer'[p]
  OBVIOUS
<1>3. CASE peer[p].for = "add"
  <2>1. peer' = [peer EXCEPT ![p].at = "rest", ![p].token = IF token = None THEN None ELSE token]
    BY <1>3 DEF Learned
  <2>2. peer' = [peer EXCEPT ![p] = q] /\ DOMAIN q = DOMAIN peer[p] /\ q.keys = peer[p].keys
    BY <1>1, <1>2, <2>1
  <2> QED
    BY <2>2
<1>4. CASE peer[p].for # "add"
  <2>1. peer' = [peer EXCEPT ![p].at = "ready", ![p].token = token, ![p].keys = keys, ![p].met = TRUE]
    BY <1>4 DEF Learned
  <2>2. peer' = [peer EXCEPT ![p] = q] /\ DOMAIN q = DOMAIN peer[p] /\ q.keys = keys
    BY <1>1, <1>2, <2>1
  <2> QED
    BY <2>2
<1> QED
  BY <1>3, <1>4

LEMMA StartLookupStep ==
    ASSUME IInv, NEW p \in Peers, NEW for, StartLookup(p, for)
    PROVE  IInv'
<1> USE DEF IInv
<1>1. /\ PeerGoes(p) /\ mail' = mail /\ req' = req /\ clock' = clock
      /\ peer' = [peer EXCEPT ![p].at = "looking", ![p].for = for]
  BY DEF StartLookup, PeerGoes, bundles, device, ghosts
<1>2. PICK q : q = peer'[p]
  OBVIOUS
<1>3. peer' = [peer EXCEPT ![p] = q] /\ DOMAIN q = DOMAIN peer[p] /\ q.keys = peer[p].keys
  BY <1>1, <1>2, PeerHas
<1>4. ReqInv' /\ SlotsLose
  BY <1>1, SlotsAsTheyAre
<1> QED
  BY <1>1, <1>3, <1>4, QuietPeer

LEMMA LookupAnonymousStep ==
    ASSUME IInv, NEW p \in Peers, LookupAnonymous(p)
    PROVE  IInv'
<1> USE DEF IInv
<1>1. /\ PeerGoes(p) /\ mail' = mail /\ req' = req /\ clock' = clock
      /\ peer' = Learned(p, AnonymousBundle.token, AnonymousBundle.keys)
  BY DEF LookupAnonymous, PeerGoes, bundles, device, ghosts
<1>2. PICK q : /\ peer' = [peer EXCEPT ![p] = q] /\ DOMAIN q = DOMAIN peer[p]
               /\ q.keys = peer[p].keys \/ q.keys = AnonymousBundle.keys
  BY <1>1, LearnedIs
<1>3. AnonymousBundle.keys = {}
  BY DEF AnonymousBundle, Bundle
<1>4. ReqInv' /\ SlotsLose
  BY <1>1, SlotsAsTheyAre
<1> QED
  BY <1>1, <1>2, <1>3, <1>4, QuietPeer

LEMMA LookupAuthenticatedStep ==
    ASSUME IInv, NEW p \in Peers, LookupAuthenticated(p)
    PROVE  IInv'
<1> USE DEF IInv
<1>1. /\ PeerGoes(p) /\ mail' = mail /\ clock' = clock /\ Send(p, Request("lookup", {}, None))
      /\ peer' = [peer EXCEPT ![p].at = "asking"]
  BY DEF LookupAuthenticated, PeerGoes, device, ghosts
<1>2. PICK q : q = peer'[p]
  OBVIOUS
<1>3. peer' = [peer EXCEPT ![p] = q] /\ DOMAIN q = DOMAIN peer[p] /\ q.keys = peer[p].keys
  BY <1>1, <1>2, PeerHas
<1>4. ReqInv' /\ SlotsLose
  <2>1. {} \in SUBSET Nat /\ IsFiniteSet({}) /\ p \in Peers \cup Threads
    BY FS_EmptySet
  <2> QED
    BY <1>1, <2>1, SendIs
<1> QED
  BY <1>1, <1>3, <1>4, QuietPeer

\* A reply of the Worker's reaches the peer it is for.
LEMMA LookedUpStep ==
    ASSUME IInv, NEW p \in Peers, LookedUp(p)
    PROVE  IInv'
<1> USE DEF IInv, KeysInv
<1>1. /\ PeerGoes(p) /\ mail' = mail /\ clock' = clock /\ Took(p) /\ req[Live(p)].at = "answered"
      /\ \/ peer' = Learned(p, req[Live(p)].token, req[Live(p)].keys)
         \/ peer' = [peer EXCEPT ![p].at = "rest"]
  BY DEF LookedUp, PeerGoes, device, ghosts, Answered
<1>2. ReqInv' /\ SlotsLose /\ req'[Live(p)] = NoRequest /\ Live(p) \in Slots /\ Live(p)[1] = p
  BY <1>1, TookIs, SlotFacts
<1>3. CASE peer' = [peer EXCEPT ![p].at = "rest"]
  <2>1. PICK q : q = peer'[p]
    OBVIOUS
  <2>2. peer' = [peer EXCEPT ![p] = q] /\ DOMAIN q = DOMAIN peer[p] /\ q.keys = peer[p].keys
    BY <1>3, <2>1, PeerHas
  <2> QED
    BY <1>1, <1>2, <2>2, QuietPeer
<1>4. CASE peer' = Learned(p, req[Live(p)].token, req[Live(p)].keys)
  <2>1. PICK q : /\ peer' = [peer EXCEPT ![p] = q] /\ DOMAIN q = DOMAIN peer[p]
                 /\ q.keys = peer[p].keys \/ q.keys = req[Live(p)].keys
    BY <1>4, LearnedIs
  <2>2. CASE q.keys = peer[p].keys
    BY <1>1, <1>2, <2>1, <2>2, QuietPeer
  <2>3. CASE q.keys = req[Live(p)].keys
    <3>1. TaskInv' /\ peer'[p] = q /\ \A r \in Peers : r # p => peer'[r] = peer[r]
      BY <1>1, <2>1, OnePeer
    <3>2. q.keys \subseteq Reply(Live(p)) /\ Reply(Live(p))' = {}
      <4>1. OpOK(Live(p), req[Live(p)]) /\ (req[Live(p)].op = "none" \/ req[Live(p)].op = "lookup")
        BY <1>2 DEF ReqInv, OpOK
      <4> QED
        BY <1>1, <1>2, <2>3, <4>1, NoRequestHas DEF OpOK, Reply, At
    <3>3. \A s \in Slots : Published(s)' \subseteq Published(s) /\ Reply(s)' \subseteq Reply(s)
      BY <1>2 DEF SlotsLose, Loses
    <3>4. Gone' = Gone /\ Unsent' = Unsent /\ Safe' = Safe
      BY <1>1 DEF PeerGoes, Gone, Unsent, Safe
    <3>5. CountersOK' /\ ClaimInv'
      BY <1>1, <1>2, GrantsLose, ClaimStays DEF PeerGoes
    <3>6. ShelfInv'
      BY <1>1, <3>3, <3>4, ShelfStays DEF PeerGoes, TaskInv
    <3>7. HandInv'
      <4>1. \A k \in q.keys : /\ k \in Gone /\ \A m \in mail : m.key # k
                              /\ \A r \in Peers : k \notin peer[r].keys
                              /\ \A s \in Slots : k \in Reply(s) => s = Live(p)
        BY <1>2, <3>2 DEF HandInv
      <4>2. \A s \in Slots : \A k \in Reply(s)' : k \in Reply(s) /\ s # Live(p) /\ k \notin q.keys
        BY <3>2, <3>3, <4>1
      <4>3. ASSUME NEW s \in Slots, NEW k \in Reply(s)'
            PROVE  /\ k \in Gone' /\ \A r \in Slots : k \in Reply(r)' => r = s
                   /\ \A r \in Peers : k \notin peer'[r].keys
                   /\ \A m \in mail' : m.key # k
        BY <1>1, <3>1, <3>4, <4>2, <4>3 DEF HandInv
      <4>4. ASSUME NEW r \in Peers, NEW k \in peer'[r].keys
            PROVE  /\ k \in Gone' /\ \A x \in Peers : k \in peer'[x].keys => x = r
                   /\ \A m \in mail' : m.key # k
        BY <1>1, <3>1, <3>4, <4>1, <4>4 DEF HandInv
      <4> QED
        BY <1>1, <3>4, <4>3, <4>4 DEF HandInv
    <3>8. SecretInv'
      <4>1. \A r \in Peers : peer'[r].keys \subseteq Safe'
        BY <1>2, <3>1, <3>2, <3>4 DEF SecretInv
      <4>2. \A m \in mail' : Looked(m)' = Looked(m)
        BY <1>1 DEF Looked, PeerGoes
      <4>3. pool' = pool /\ task' = task
        BY <1>1 DEF PeerGoes
      <4> QED
        BY <1>1, <3>3, <3>4, <4>1, <4>2, <4>3 DEF SecretInv
    <3>9. OpeningInv' /\ FirstMessageOpens'
      BY <1>1 DEF OpeningInv, FirstMessageOpens, PeerGoes
    <3> QED
      BY <1>2, <3>1, <3>5, <3>6, <3>7, <3>8, <3>9
  <2> QED
    BY <2>1, <2>2, <2>3
<1> QED
  BY <1>1, <1>3, <1>4

LEMMA FirstMessageHas ==
    ASSUME NEW p, NEW sealed
    PROVE  FirstMessage(p, sealed).key = None \/ FirstMessage(p, sealed).key \in peer[p].keys
<1>1. FirstMessage(p, sealed).key = IF peer[p].keys = {} THEN None ELSE CHOOSE k \in peer[p].keys : TRUE
  BY DEF FirstMessage
<1> QED
  BY <1>1

\* A prekey goes from a peer to its first message, or is forgotten with one that is dropped.
LEMMA SendFirstStep ==
    ASSUME IInv, NEW p \in Peers, SendFirst(p)
    PROVE  IInv'
<1> USE DEF IInv, KeysInv
<1>1. /\ PeerGoes(p) /\ req' = req /\ clock' = clock
      /\ peer' = [peer EXCEPT ![p].at = "rest", ![p].keys = {}]
  BY DEF SendFirst, PeerGoes, bundles, device, ghosts
<1>2. PICK q : q = peer'[p]
  OBVIOUS
<1>3. peer' = [peer EXCEPT ![p] = q] /\ DOMAIN q = DOMAIN peer[p] /\ q.keys = {}
  BY <1>1, <1>2, PeerHas
<1>4. ReqInv' /\ SlotsLose
  BY <1>1, SlotsAsTheyAre
<1>5. mail' = mail \/ \E sealed : mail' = mail \cup {FirstMessage(p, sealed)}
  BY Zenon DEF SendFirst
<1>6. CASE mail' = mail
  BY <1>1, <1>3, <1>4, <1>6, QuietPeer
<1>7. ASSUME NEW m, m.key = None \/ m.key \in peer[p].keys, mail' = mail \cup {m} PROVE IInv'
  <2>1. TaskInv' /\ peer'[p] = q /\ \A r \in Peers : r # p => peer'[r] = peer[r]
    BY <1>1, <1>3, OnePeer
  <2>2. \A s \in Slots : Published(s)' \subseteq Published(s) /\ Reply(s)' \subseteq Reply(s)
    BY <1>4 DEF SlotsLose, Loses
  <2>3. Gone' = Gone /\ Unsent' = Unsent /\ Safe' = Safe
    BY <1>1 DEF PeerGoes, Gone, Unsent, Safe
  <2>4. CountersOK' /\ ClaimInv'
    BY <1>1, <1>4, GrantsLose, ClaimStays DEF PeerGoes
  <2>5. ShelfInv'
    BY <1>1, <2>2, <2>3, ShelfStays DEF PeerGoes, TaskInv
  <2>6. \A k \in Gone : k # None
    BY BundlesAssumption DEF ShelfInv, BundlesAssumption, TaskInv
  <2>7. HandInv'
    <3>1. m.key = None \/ (m.key \in Gone /\ \A l \in mail : l.key # m.key)
      BY <1>7 DEF HandInv
    <3>2. ASSUME NEW s \in Slots, NEW k \in Reply(s)'
          PROVE  /\ k \in Gone' /\ \A r \in Slots : k \in Reply(r)' => r = s
                 /\ \A r \in Peers : k \notin peer'[r].keys
                 /\ \A l \in mail' : l.key # k
      <4>1. /\ k \in Gone /\ \A r \in Slots : k \in Reply(r) => r = s
            /\ \A r \in Peers : k \notin peer[r].keys
            /\ \A l \in mail : l.key # k
        BY <2>2 DEF HandInv
      <4>2. m.key # k
        BY <1>7, <2>6, <4>1
      <4> QED
        BY <1>3, <1>7, <2>1, <2>2, <2>3, <4>1, <4>2
    <3>3. ASSUME NEW r \in Peers, NEW k \in peer'[r].keys
          PROVE  /\ k \in Gone' /\ \A x \in Peers : k \in peer'[x].keys => x = r
                 /\ \A l \in mail' : l.key # k
      <4>1. r # p /\ k \in peer[r].keys
        BY <1>3, <2>1
      <4>2. /\ k \in Gone /\ \A x \in Peers : k \in peer[x].keys => x = r
            /\ \A l \in mail : l.key # k
        BY <4>1 DEF HandInv
      <4>3. m.key # k
        BY <1>7, <2>6, <4>1, <4>2
      <4> QED
        BY <1>3, <1>7, <2>1, <2>3, <4>2, <4>3
    <3>4. ASSUME NEW l \in mail'
          PROVE  l.key = None \/ (l.key \in Gone' /\ \A i \in mail' : i.key = l.key => i = l)
      BY <1>7, <2>3, <3>1 DEF HandInv
    <3> QED
      BY <3>2, <3>3, <3>4 DEF HandInv
  <2>8. SecretInv'
    <3>1. \A r \in Peers : peer'[r].keys \subseteq Safe'
      BY <1>3, <2>1, <2>3 DEF SecretInv
    <3>2. \A l \in mail' : l.key = None \/ l.key \in Safe' \/ Looked(l)'
      <4>1. \A l \in mail : Looked(l)' = Looked(l)
        BY <1>1 DEF Looked, PeerGoes
      <4>2. m.key = None \/ m.key \in Safe'
        BY <1>7, <2>3 DEF SecretInv
      <4> QED
        BY <1>7, <2>3, <4>1, <4>2 DEF SecretInv
    <3>3. pool' = pool /\ task' = task
      BY <1>1 DEF PeerGoes
    <3> QED
      BY <2>2, <2>3, <3>1, <3>2, <3>3 DEF SecretInv
  <2>9. OpeningInv' /\ FirstMessageOpens'
    BY <1>1, <1>7 DEF OpeningInv, FirstMessageOpens, PeerGoes
  <2> QED
    BY <1>4, <2>1, <2>4, <2>5, <2>7, <2>8, <2>9
<1>8. ASSUME NEW sealed, mail' = mail \cup {FirstMessage(p, sealed)} PROVE IInv'
  <2>1. PICK m : m = FirstMessage(p, sealed)
    OBVIOUS
  <2> QED
    BY <1>7, <1>8, <2>1, FirstMessageHas
<1> QED
  BY <1>5, <1>6, <1>8

-----------------------------------------------------------------------------
(* Kills: requests go on without those who made them.                      *)

LEMMA ShelfMoves ==
    ASSUME ShelfInv, made.keys' = made.keys, pool' = pool, handed' = handed, Unsent' \subseteq Unsent,
           \A s \in Slots : Published(s)' \subseteq Published(s) \/
               (s = Left(s[1]) /\ Published(s)' \subseteq Published(Live(s[1])) /\ Published(Live(s[1]))' = {})
    PROVE  ShelfInv'
<1>1. Gone' = Gone
  BY DEF Gone
<1>2. ASSUME NEW s \in Slots, NEW k \in Published(s)'
      PROVE  k \in Published(s) \/ (s = Left(s[1]) /\ k \in Published(Live(s[1])) /\ Published(Live(s[1]))' = {})
  BY <1>2
<1>3. ASSUME NEW s \in Slots PROVE Live(s[1]) \in Slots
  BY SlotFacts
<1>4. ASSUME NEW s \in Slots, NEW k \in Published(s)'
      PROVE  k \in 1 .. made'.keys /\ k \notin pool' /\ k \notin Gone' /\ k \notin Unsent'
  BY <1>1, <1>2, <1>3 DEF ShelfInv
<1>5. ASSUME NEW s \in Slots, NEW k \in Published(s)', NEW r \in Slots, k \in Published(r)'
      PROVE  r = s
  <2>1. Live(s[1]) \in Slots /\ Live(r[1]) \in Slots
    BY <1>3
  <2>2. CASE k \in Published(s) /\ k \in Published(r)
    BY <2>2 DEF ShelfInv
  <2>3. CASE k \in Published(s) /\ r = Left(r[1]) /\ k \in Published(Live(r[1])) /\ Published(Live(r[1]))' = {}
    <3>1. s = Live(r[1])
      BY <2>1, <2>3 DEF ShelfInv
    <3> QED
      BY <1>5, <2>3, <3>1
  <2>4. CASE k \in Published(r) /\ s = Left(s[1]) /\ k \in Published(Live(s[1])) /\ Published(Live(s[1]))' = {}
    <3>1. r = Live(s[1])
      BY <2>1, <2>4 DEF ShelfInv
    <3> QED
      BY <1>5, <2>4, <3>1
  <2>5. CASE /\ r = Left(r[1]) /\ k \in Published(Live(r[1]))
             /\ s = Left(s[1]) /\ k \in Published(Live(s[1]))
    <3>1. Live(s[1]) = Live(r[1])
      BY <2>1, <2>5 DEF ShelfInv
    <3>2. s[1] = r[1]
      BY <3>1, SlotFacts
    <3> QED
      BY <2>5, <3>2
  <2> QED
    BY <1>2, <1>5, <2>2, <2>3, <2>4, <2>5
<1> QED
  BY <1>1, <1>4, <1>5 DEF ShelfInv

LEMMA QuietKill ==
    ASSUME IInv, NEW as, req' = GivenUp(as), torn \subseteq torn',
           UNCHANGED <<pool, claims, clock, handed, doc, mail, failed, made, lost>>, TaskInv',
           \A p \in Peers : peer'[p].keys \subseteq peer[p].keys,
           Unsent' = {} \/ task'["replenish"] = task["replenish"],
           \A m \in mail : Looked(m) => Looked(m)' \/ m.key \in torn',
           OpeningInv'
    PROVE  IInv'
<1> USE DEF IInv, KeysInv
<1>1. /\ ReqInv'
      /\ \A s \in Slots : Reply(s)' \subseteq Reply(s)
      /\ \A p \in Peers, w \in Nat : Grants(p, w)' <= Grants(p, w)
      /\ \A s \in Slots : Published(s)' \subseteq Published(s) \/
             (s = Left(s[1]) /\ Published(s)' \subseteq Published(Live(s[1])) /\ Published(Live(s[1]))' = {})
  BY GivenUpIs
<1>2. CountersOK' /\ ClaimInv'
  BY <1>1, ClaimStays
<1>3. Unsent' \subseteq Unsent /\ Gone' = Gone /\ Safe \subseteq Safe' /\ torn' \subseteq Safe'
  BY DEF Unsent, Gone, Safe
<1>4. ShelfInv'
  BY <1>1, <1>3, ShelfMoves
<1>5. HandInv'
  BY <1>1, <1>3, HandStays
<1>6. SecretInv'
  <2>1. \A s \in Slots : Published(s)' \subseteq Safe' /\ Reply(s)' \subseteq Safe'
    <3>1. \A s \in Slots : Live(s[1]) \in Slots
      BY SlotFacts
    <3>2. \A s \in Slots : Published(s) \subseteq Safe /\ Reply(s) \subseteq Safe
      BY DEF SecretInv
    <3> QED
      BY <1>1, <1>3, <3>1, <3>2
  <2>2. \A m \in mail' : Looked(m) => Looked(m)' \/ m.key \in Safe' \/ m.key = None
    BY <1>3
  <2> QED
    BY <1>3, <2>1, <2>2, SecretStays
<1>7. FirstMessageOpens'
  BY DEF FirstMessageOpens
<1> QED
  BY <1>1, <1>2, <1>4, <1>5, <1>6, <1>7

LEMMA PeerKilledStep ==
    ASSUME IInv, NEW p \in Peers, PeerKilled(p)
    PROVE  IInv'
<1> USE DEF IInv, KeysInv
<1>1. /\ PeerGoes(p) /\ mail' = mail /\ clock' = clock /\ req' = GivenUp({p})
      /\ peer' = [peer EXCEPT ![p].at = "rest"]
  BY DEF PeerKilled, PeerGoes, device, ghosts
<1>2. PICK q : q = [peer[p] EXCEPT !.at = "rest"]
  OBVIOUS
<1>3. peer' = [peer EXCEPT ![p] = q] /\ DOMAIN q = DOMAIN peer[p] /\ q.keys = peer[p].keys
  <2>1. DOMAIN peer[p] = {"at", "for", "keys", "met", "token"}
    BY PeerHas
  <2>2. peer' = [peer EXCEPT ![p] = q]
    BY <1>1, <1>2
  <2>3. DOMAIN q = DOMAIN peer[p] /\ q.keys = peer[p].keys
    BY <1>2, <2>1
  <2> QED
    BY <2>2, <2>3
<1>4. TaskInv' /\ peer'[p] = q /\ \A r \in Peers : r # p => peer'[r] = peer[r]
  <2> HIDE DEF IInv, KeysInv
  <2>1. TaskInv /\ PeerGoes(p)
    BY <1>1 DEF IInv
  <2> QED
    BY <1>3, <2>1, OnePeer
<1>5. \A r \in Peers : peer'[r].keys \subseteq peer[r].keys
  BY <1>3, <1>4
<1>6. UNCHANGED <<pool, claims, clock, handed, doc, task, mail, failed, made, lost, torn>>
  BY <1>1 DEF PeerGoes
<1>7. OpeningInv' /\ \A m \in mail : Looked(m)' = Looked(m)
  BY <1>6 DEF OpeningInv, Looked
<1> QED
  BY <1>1, <1>4, <1>5, <1>6, <1>7, QuietKill

\* Every thread stops where it is.
LEMMA KillStep ==
    ASSUME IInv, Kill
    PROVE  IInv'
<1> USE DEF IInv, KeysInv
<1>1. /\ req' = GivenUp(Threads) /\ task' = [t \in Threads |-> Rest]
      /\ torn' = IF task["chain"].at \in {"opening", "commit"} THEN torn \cup {task["chain"].arg.key} ELSE torn
      /\ UNCHANGED <<pool, claims, clock, handed, doc, peer, mail, failed, made, lost>>
  BY DEF Kill
<1>2. \A t \in Threads : task'[t] = Rest
  BY <1>1
<1>3. TaskInv'
  BY <1>1, <1>2, RestIsOK DEF TaskInv
<1>4. "replenish" \in Threads /\ "chain" \in Threads
  BY ThreadFacts
<1>5. Unsent' = {}
  BY <1>2, <1>4, RestHas DEF Unsent
<1>6. OpeningInv'
  BY <1>2, <1>4, RestHas DEF OpeningInv
<1>7. \A m \in mail : Looked(m) => m.key \in torn'
  BY <1>1 DEF Looked
<1>8. torn \subseteq torn'
  BY <1>1
<1> QED
  BY <1>1, <1>3, <1>5, <1>6, <1>7, <1>8, QuietKill

-----------------------------------------------------------------------------
(* The chain at a first message.                                           *)

\* A thread goes on, and the keys stay where they are.
LEMMA ThreadTurns ==
    ASSUME IInv, UNCHANGED <<bundles, doc, peer, made, lost, torn>>, mail' \subseteq mail,
           NEW t \in Threads, NEW j, task' = [task EXCEPT ![t] = j], JobOK(t, j),
           t = "replenish" => j.at = task[t].at /\ j.arg = task[t].arg /\ j.todo = task[t].todo,
           \A m \in mail' : Looked(m) => Looked(m)' \/ m.key \in Safe,
           OpeningInv', FirstMessageOpens'
    PROVE  IInv'
<1> USE DEF IInv, KeysInv
<1>1. /\ pool' = pool /\ claims' = claims /\ clock' = clock /\ req' = req /\ handed' = handed
      /\ doc' = doc /\ peer' = peer /\ made' = made /\ lost' = lost /\ torn' = torn
  BY DEF bundles
<1>2. ReqInv' /\ SlotsLose
  BY <1>1, SlotsAsTheyAre
<1>3. CountersOK' /\ ClaimInv'
  BY <1>1, <1>2, GrantsLose, ClaimStays
<1>4. DOMAIN made' = {"keys", "tokens"} /\ made'.keys \in Nat /\ made.keys <= made'.keys
  BY <1>1 DEF TaskInv
<1>5. TaskInv' /\ task'[t] = j /\ \A u \in Threads : u # t => task'[u] = task[u]
  BY <1>1, <1>4, OneGoes
<1>6. /\ task'["replenish"].at = task["replenish"].at /\ task'["replenish"].arg = task["replenish"].arg
      /\ task'["replenish"].todo = task["replenish"].todo
  BY <1>5, ThreadFacts
<1>7. Unsent' = Unsent /\ Safe' = Safe /\ Gone' = Gone
  BY <1>1, <1>6 DEF Unsent, Safe, Gone
<1>8. \A s \in Slots : Published(s)' = Published(s) /\ Reply(s)' = Reply(s)
  BY <1>1 DEF Published, Reply, At
<1>9. ShelfInv'
  BY <1>1, <1>4, <1>7, <1>8, ShelfStays
<1>10. HandInv'
  BY <1>1, <1>7, <1>8, HandStays
<1>11. SecretInv'
  BY <1>1, <1>6, <1>7, <1>8 DEF SecretInv
<1> QED
  BY <1>2, <1>3, <1>5, <1>9, <1>10, <1>11

LEMMA ReceiveStep ==
    ASSUME IInv, NEW m \in mail, Receive(m)
    PROVE  IInv'
<1> USE DEF IInv
<1>1. /\ Stands("chain", "rest") /\ "chain" \in Threads
      /\ UNCHANGED <<bundles, doc, peer, mail, failed, made, lost, torn>>
  BY ThreadFacts DEF Receive, ghosts
<1>2. PICK todo : todo = IF m.sealed \/ m.key = None THEN << >> ELSE <<Change("take", None, m.key)>>
  OBVIOUS
<1>3. PICK j : j = [Rest EXCEPT !.at = "opening", !.arg = m, !.with = FALSE, !.todo = todo]
  OBVIOUS
<1>4. task' = [task EXCEPT !["chain"] = j]
  BY <1>2, <1>3 DEF Receive
<1>5. TaskFields(j) /\ j.at = "opening" /\ j.arg = m /\ j.todo = todo /\ j.snap = None
  BY <1>3, RestHas DEF TaskFields
<1>6. j.with = FALSE
  BY <1>3, RestHas DEF TaskFields
<1>7. IF Mixes(m) THEN todo = Takes(m) /\ todo # << >> ELSE todo = << >>
  BY <1>2 DEF Mixes, Takes
<1>8. JobOK("chain", j)
  BY <1>5, <1>7 DEF JobOK, TodoOK
<1>9. task'["chain"] = j
  BY <1>1, <1>4 DEF TaskInv
<1>10. OpeningInv'
  <2>1. mail' = mail /\ j.arg \in mail
    BY <1>1, <1>5
  <2>2. j.todo = << >> \/ j.snap # None => ~ Mixes(j.arg)
    BY <1>5, <1>7
  <2> QED
    BY <1>5, <1>6, <1>9, <2>1, <2>2 DEF OpeningInv
<1>11. \A l \in mail' : ~ Looked(l)
  BY <1>1 DEF Looked, Stands
<1>12. FirstMessageOpens'
  BY <1>1 DEF KeysInv, FirstMessageOpens
<1> QED
  BY <1>1, <1>4, <1>8, <1>10, <1>11, <1>12, ThreadTurns, ThreadFacts

LEMMA PairIs == ASSUME NEW a, NEW b PROVE <<a>> \o <<b>> = <<a, b>>
<1>1. <<a, b>> = Append(<<a>>, b)
  OBVIOUS
<1>2. <<a>> \o <<b>> = Append(<<a>>, b)
  OBVIOUS
<1> QED
  BY <1>1, <1>2

LEMMA JoinedLists ==
    ASSUME NEW k, NEW l, k = << >> \/ (\E a : k = <<a>> /\ Harmless(a)),
           l = << >> \/ (\E a : l = <<a>> /\ Harmless(a))
    PROVE  HarmlessList(k \o l)
<1>1. CASE k = << >> /\ l = << >>
  BY <1>1, HarmlessLists
<1>2. ASSUME NEW a, Harmless(a), k = <<a>>, l = << >> PROVE HarmlessList(k \o l)
  <2>1. k \o l = <<a>>
    BY <1>2
  <2> QED
    BY <1>2, <2>1, HarmlessLists
<1>3. ASSUME NEW b, Harmless(b), k = << >>, l = <<b>> PROVE HarmlessList(k \o l)
  <2>1. k \o l = <<b>>
    BY <1>3
  <2> QED
    BY <1>3, <2>1, HarmlessLists
<1>4. ASSUME NEW a, NEW b, Harmless(a), Harmless(b), k = <<a>>, l = <<b>> PROVE HarmlessList(k \o l)
  <2>1. k \o l = <<a, b>>
    BY <1>4, PairIs
  <2> QED
    BY <1>4, <2>1, HarmlessLists
<1> QED
  BY <1>1, <1>2, <1>3, <1>4

\* The message opens, or it is one of those that need not.
LEMMA OpenedStep ==
    ASSUME IInv, Opened
    PROVE  IInv'
<1> USE DEF IInv
<1>1. /\ Stands("chain", "opening") /\ "chain" \in Threads
      /\ UNCHANGED <<bundles, doc, peer, mail, made, lost, torn>>
  BY ThreadFacts DEF Opened
<1>2. PICK m : m = task["chain"].arg
  OBVIOUS
<1>3. \E todo : HarmlessList(todo) /\ task' = Goes("chain", "commit", todo)
  <2>1. PICK contact : contact = IF doc.contacts[m.from] = None THEN <<Change("contact", m.from, None)>> ELSE << >>
    OBVIOUS
  <2>2. PICK token : token = IF m.sealed THEN <<Change("peertoken", m.from, 0)>> ELSE << >>
    OBVIOUS
  <2>3. task' = Goes("chain", "commit", contact \o token) \/ task' = Goes("chain", "commit", << >>)
    BY <1>2, <2>1, <2>2 DEF Opened
  <2>4. \A who, what : Harmless(Change("contact", who, what)) /\ Harmless(Change("peertoken", who, what))
    BY ChangeHas DEF Harmless
  <2>5. HarmlessList(contact \o token)
    <3>1. contact = << >> \/ \E a : contact = <<a>> /\ Harmless(a)
      BY <2>1, <2>4
    <3>2. token = << >> \/ \E a : token = <<a>> /\ Harmless(a)
      BY <2>2, <2>4
    <3> QED
      BY <3>1, <3>2, JoinedLists
  <2> QED
    BY <2>3, <2>5, HarmlessLists
<1>4. PICK todo : HarmlessList(todo) /\ task' = Goes("chain", "commit", todo)
  BY <1>3
<1>5. /\ task' = [task EXCEPT !["chain"] = task'["chain"]] /\ JobOK("chain", task'["chain"])
      /\ task'["chain"].at = "commit" /\ task'["chain"].arg = m
  BY <1>1, <1>2, <1>4, GoesOn DEF Stands
<1>6. m \in mail
  BY <1>1, <1>2 DEF KeysInv, OpeningInv, Stands
<1>7. OpeningInv'
  BY <1>1, <1>5, <1>6 DEF OpeningInv
<1>8. \A l \in mail' : Looked(l) => Looked(l)'
  BY <1>2, <1>5 DEF Looked
<1>9. FirstMessageOpens'
  <2>1. CASE Opens(m, task["chain"].with)
    BY <1>1, <1>2, <2>1 DEF Opened, KeysInv, FirstMessageOpens
  <2>2. CASE ~ Opens(m, task["chain"].with)
    <3>1. failed' = failed \cup {m}
      BY <1>2, <2>2 DEF Opened
    <3>2. IF Mixes(m) THEN task["chain"].with = TRUE \/ m.key \in lost \cup torn ELSE task["chain"].with = FALSE
      BY <1>1, <1>2 DEF KeysInv, OpeningInv, Stands
    <3>3. m.key \in lost \cup torn \/ (m.sealed /\ m.key # None)
      <4>1. CASE Mixes(m) /\ task["chain"].with = TRUE
        BY <2>2, <4>1 DEF Opens, Initiated, Responded, Mixes
      <4>2. CASE ~ Mixes(m) /\ task["chain"].with = FALSE
        BY <2>2, <4>2 DEF Opens, Initiated, Responded, Mixes
      <4> QED
        BY <3>2, <4>1, <4>2
    <3> QED
      BY <1>1, <3>1, <3>3 DEF KeysInv, FirstMessageOpens
  <2> QED
    BY <2>1, <2>2
<1> QED
  BY <1>1, <1>5, <1>7, <1>8, <1>9, ThreadTurns, ThreadFacts

LEMMA ProcessedStep ==
    ASSUME IInv, Processed
    PROVE  IInv'
<1> USE DEF IInv
<1>1. /\ mail' = mail \ {task["chain"].arg} /\ task' = Finished("chain") /\ "chain" \in Threads
      /\ UNCHANGED <<bundles, doc, peer, failed, made, lost, torn>>
  BY ThreadFacts DEF Processed, ghosts
<1>2. task' = [task EXCEPT !["chain"] = Rest] /\ JobOK("chain", Rest)
  BY <1>1, Finishes
<1>3. task'["chain"].at = "rest"
  BY <1>1, <1>2, RestHas DEF TaskInv
<1>4. OpeningInv'
  BY <1>3 DEF OpeningInv
<1>5. \A m \in mail' : ~ Looked(m)
  BY <1>1 DEF Looked
<1>6. FirstMessageOpens'
  BY <1>1 DEF KeysInv, FirstMessageOpens
<1> QED
  BY <1>1, <1>2, <1>4, <1>5, <1>6, ThreadTurns, ThreadFacts

-----------------------------------------------------------------------------
(* Loading and saving the document.                                        *)

LEMMA TakesHas ==
    ASSUME NEW m
    PROVE  /\ Takes(m) # << >> /\ Tail(Takes(m)) = << >>
           /\ Head(Takes(m)).do = "take" /\ Head(Takes(m)).what = m.key
<1>1. ASSUME NEW c, c = Change("take", None, m.key) PROVE Head(<<c>>) = c /\ Tail(<<c>>) = << >> /\ <<c>> # << >>
  OBVIOUS
<1> QED
  BY <1>1, ChangeHas DEF Takes

LEMMA AddsHas ==
    ASSUME NEW keys
    PROVE  /\ Adds(keys) # << >> /\ Tail(Adds(keys)) = << >>
           /\ Head(Adds(keys)).do = "add" /\ Head(Adds(keys)).what = keys
<1>1. ASSUME NEW c, c = Change("add", None, keys) PROVE Head(<<c>>) = c /\ Tail(<<c>>) = << >> /\ <<c>> # << >>
  OBVIOUS
<1> QED
  BY <1>1, ChangeHas DEF Adds

\* The three cases of a thread that has a change to make.
LEMMA TodoCases ==
    ASSUME TaskInv, NEW t \in Threads, task[t].todo # << >>
    PROVE  \/ t = "replenish" /\ task[t].at = "saving" /\ task[t].todo = Adds(task[t].arg)
           \/ /\ t = "chain" /\ task[t].at = "opening"
              /\ Mixes(task[t].arg) /\ task[t].todo = Takes(task[t].arg)
           \/ /\ t # "replenish" /\ ~ (t = "chain" /\ task[t].at = "opening")
              /\ HarmlessList(task[t].todo)
BY DEF TaskInv, JobOK, TodoOK

LEMMA LoadDocIs ==
    ASSUME TaskInv, NEW t \in Threads, LoadDoc(t), NEW c, c = Head(task[t].todo)
    PROVE  \E j : /\ task' = [task EXCEPT ![t] = j] /\ TaskFields(j)
                  /\ j.at = task[t].at /\ j.arg = task[t].arg
                  /\ j.with = IF c.do = "take" THEN c.what \in doc.secrets ELSE task[t].with
                  /\ \/ Returns(c, doc) /\ j.todo = Tail(task[t].todo) /\ j.snap = None
                     \/ ~ Returns(c, doc) /\ j.todo = task[t].todo /\ j.snap = doc
<1>1. PICK found : found = IF c.do = "take" THEN c.what \in doc.secrets ELSE task[t].with
  OBVIOUS
<1>2. /\ task[t].snap = None
      /\ task' = IF Returns(c, doc)
                 THEN [task EXCEPT ![t].todo = Tail(@), ![t].with = found]
                 ELSE [task EXCEPT ![t].snap = doc, ![t].with = found]
  BY <1>1 DEF LoadDoc
<1>3. DOMAIN task = Threads /\ TaskFields(task[t])
  BY DEF TaskInv, JobOK
<1>4. PICK j : j = task'[t]
  OBVIOUS
<1>5. CASE Returns(c, doc)
  <2>1. task' = [task EXCEPT ![t].todo = Tail(@), ![t].with = found]
    BY <1>2, <1>5
  <2>2. /\ task' = [task EXCEPT ![t] = j] /\ TaskFields(j) /\ j.at = task[t].at /\ j.arg = task[t].arg
        /\ j.with = found /\ j.todo = Tail(task[t].todo) /\ j.snap = None
    BY <1>2, <1>3, <1>4, <2>1 DEF TaskFields
  <2> QED
    BY <1>1, <1>5, <2>2
<1>6. CASE ~ Returns(c, doc)
  <2>1. task' = [task EXCEPT ![t].snap = doc, ![t].with = found]
    BY <1>2, <1>6
  <2>2. /\ task' = [task EXCEPT ![t] = j] /\ TaskFields(j) /\ j.at = task[t].at /\ j.arg = task[t].arg
        /\ j.with = found /\ j.todo = task[t].todo /\ j.snap = doc
    BY <1>3, <1>4, <2>1 DEF TaskFields
  <2> QED
    BY <1>1, <1>6, <2>2
<1> QED
  BY <1>5, <1>6

LEMMA LoadDocStep ==
    ASSUME IInv, NEW t \in Threads, LoadDoc(t)
    PROVE  IInv'
<1> USE DEF IInv
<1>1. /\ task[t].todo # << >> /\ task[t].snap = None
      /\ UNCHANGED <<bundles, doc, peer, mail, failed, made, lost, torn>>
  BY DEF LoadDoc, ghosts
<1>2. PICK c : c = Head(task[t].todo)
  OBVIOUS
<1>3. PICK j : /\ task' = [task EXCEPT ![t] = j] /\ TaskFields(j)
               /\ j.at = task[t].at /\ j.arg = task[t].arg
               /\ j.with = IF c.do = "take" THEN c.what \in doc.secrets ELSE task[t].with
               /\ \/ Returns(c, doc) /\ j.todo = Tail(task[t].todo) /\ j.snap = None
                  \/ ~ Returns(c, doc) /\ j.todo = task[t].todo /\ j.snap = doc
  BY <1>2, LoadDocIs
<1>4. /\ task'[t] = j /\ \A u \in Threads : u # t => task'[u] = task[u]
      /\ "chain" \in Threads /\ JobOK(t, task[t]) /\ DocFields(doc)
  BY <1>3, ThreadFacts DEF TaskInv
<1>5. FirstMessageOpens'
  BY <1>1 DEF KeysInv, FirstMessageOpens
<1>6. CASE t = "replenish" /\ task[t].at = "saving" /\ task[t].todo = Adds(task[t].arg)
  <2>1. ~ Returns(c, doc)
    BY <1>2, <1>6, AddsHas DEF Returns, OfContact
  <2>2. JobOK(t, j)
    BY <1>1, <1>3, <1>4, <1>6, <2>1, ThreadFacts DEF JobOK, TodoOK
  <2>3. task'["chain"] = task["chain"]
    BY <1>4, <1>6
  <2>4. OpeningInv' /\ \A m \in mail' : Looked(m)' = Looked(m)
    BY <1>1, <2>3 DEF KeysInv, OpeningInv, Looked
  <2> QED
    BY <1>1, <1>3, <1>5, <2>1, <2>2, <2>4, ThreadTurns
<1>7. CASE t = "chain" /\ task[t].at = "opening" /\ Mixes(task[t].arg) /\ task[t].todo = Takes(task[t].arg)
  <2>1. PICK m : m = task[t].arg
    OBVIOUS
  <2>2. c.do = "take" /\ c.what = m.key /\ Tail(task[t].todo) = << >>
    BY <1>2, <1>7, <2>1, TakesHas
  <2>3. Returns(c, doc) <=> m.key \notin doc.secrets
    BY <2>2 DEF Returns, OfContact
  <2>4. m \in mail /\ m.key # None /\ (m.key \in Safe)
    <3>1. m \in mail
      BY <1>7, <2>1 DEF KeysInv, OpeningInv
    <3>2. ~ Looked(m)
      BY <1>1, <1>7 DEF Looked
    <3> QED
      BY <1>7, <2>1, <3>1, <3>2 DEF KeysInv, SecretInv, Mixes
  <2>5. JobOK(t, j)
    BY <1>1, <1>3, <1>4, <1>7, <2>2, ThreadFacts DEF JobOK, TodoOK
  <2>6. j.with = TRUE \/ m.key \in lost \cup torn
    <3>1. CASE m.key \in doc.secrets
      <4>1. (c.what \in doc.secrets) = TRUE
        BY <2>2, <3>1
      <4> QED
        BY <1>3, <2>2, <4>1
    <3>2. CASE m.key \notin doc.secrets
      BY <2>4, <3>2 DEF Safe
    <3> QED
      BY <3>1, <3>2
  <2>7. OpeningInv'
    BY <1>1, <1>3, <1>4, <1>7, <2>1, <2>4, <2>6 DEF OpeningInv
  <2>8. \A l \in mail' : ~ Looked(l)
    BY <1>1, <1>7 DEF Looked
  <2> QED
    BY <1>1, <1>3, <1>5, <1>7, <2>5, <2>7, <2>8, ThreadTurns, ThreadFacts
<1>8. CASE t # "replenish" /\ ~ (t = "chain" /\ task[t].at = "opening") /\ HarmlessList(task[t].todo)
  <2>1. HarmlessList(Tail(task[t].todo))
    BY <1>1, <1>8, HarmlessTail
  <2>2. JobOK(t, j)
    BY <1>1, <1>3, <1>4, <1>8, <2>1, ThreadFacts DEF JobOK, TodoOK
  <2>3. CASE t # "chain"
    <3>1. task'["chain"] = task["chain"]
      BY <1>4, <2>3
    <3>2. OpeningInv' /\ \A m \in mail' : Looked(m)' = Looked(m)
      BY <1>1, <3>1 DEF KeysInv, OpeningInv, Looked
    <3> QED
      BY <1>1, <1>3, <1>5, <1>8, <2>2, <3>2, ThreadTurns
  <2>4. CASE t = "chain" /\ task[t].at # "opening"
    <3>1. OpeningInv'
      BY <1>1, <1>3, <1>4, <2>4 DEF KeysInv, OpeningInv
    <3>2. \A m \in mail' : Looked(m) => Looked(m)'
      BY <1>3, <1>4, <2>4 DEF Looked
    <3> QED
      BY <1>1, <1>3, <1>5, <1>8, <2>2, <3>1, <3>2, ThreadTurns
  <2> QED
    BY <1>8, <2>3, <2>4
<1> QED
  BY <1>1, <1>6, <1>7, <1>8, TodoCases

\* What a save leaves of the secrets: it forgets no more than the one that was to be taken.
LEMMA SavedIs ==
    ASSUME IInv, NEW t \in Threads, SaveDoc(t)
    PROVE  /\ DocFields(doc') /\ lost \subseteq lost' /\ torn' = torn
           /\ \A k \in Safe : \/ k \in Safe'
                              \/ /\ t = "chain" /\ task[t].at = "opening" /\ Mixes(task[t].arg)
                                 /\ task[t].todo = Takes(task[t].arg) /\ k = task[t].arg.key
           /\ t = "replenish" => task[t].at = "saving" /\ task[t].arg \subseteq Safe'
<1> USE DEF IInv
<1>1. PICK c : c = Head(task[t].todo)
  OBVIOUS
<1>2. PICK d : d = task[t].snap
  OBVIOUS
<1>3. /\ d # None /\ doc' = Applied(c, d) /\ torn' = torn
      /\ lost' = lost \cup (doc.secrets \ (d.secrets \cup doc'.secrets))
  BY <1>1, <1>2 DEF SaveDoc
<1>4. DocFields(d) /\ task[t].todo # << >>
  BY <1>2, <1>3 DEF TaskInv, JobOK
<1>5. CASE t = "replenish" /\ task[t].at = "saving" /\ task[t].todo = Adds(task[t].arg)
  <2>1. c.do = "add" /\ c.what = task[t].arg
    BY <1>1, <1>5, AddsHas
  <2>2. DocFields(doc') /\ doc'.secrets = d.secrets \cup task[t].arg
    BY <1>3, <1>4, <2>1, AppliedIs
  <2> QED
    BY <1>3, <1>5, <2>2 DEF Safe
<1>6. CASE t = "chain" /\ task[t].at = "opening" /\ Mixes(task[t].arg) /\ task[t].todo = Takes(task[t].arg)
  <2>1. c.do = "take" /\ c.what = task[t].arg.key
    BY <1>1, <1>6, TakesHas
  <2>2. DocFields(doc') /\ doc'.secrets = d.secrets \ {task[t].arg.key}
    BY <1>3, <1>4, <2>1, AppliedIs
  <2> QED
    BY <1>3, <1>6, <2>2 DEF Safe
<1>7. CASE t # "replenish" /\ ~ (t = "chain" /\ task[t].at = "opening") /\ HarmlessList(task[t].todo)
  <2>1. Harmless(c)
    BY <1>1, <1>4, <1>7, HarmlessTail
  <2>2. DocFields(doc') /\ doc'.secrets = d.secrets
    BY <1>3, <1>4, <2>1, AppliedIs
  <2> QED
    BY <1>3, <1>7, <2>2 DEF Safe
<1> QED
  BY <1>4, <1>5, <1>6, <1>7, TodoCases

LEMMA SaveDocStep ==
    ASSUME IInv, NEW t \in Threads, SaveDoc(t)
    PROVE  IInv'
<1> USE DEF IInv, KeysInv
<1>1. /\ task[t].snap # None
      /\ task' = [task EXCEPT ![t].todo = Tail(@), ![t].snap = None]
      /\ UNCHANGED <<bundles, peer, mail, failed, made, torn>>
  BY DEF SaveDoc
<1>2. DOMAIN task = Threads /\ JobOK(t, task[t]) /\ TaskFields(task[t]) /\ task[t].todo # << >>
  BY <1>1 DEF TaskInv, JobOK
<1>3. PICK j : j = task'[t]
  OBVIOUS
<1>4. /\ task' = [task EXCEPT ![t] = j] /\ TaskFields(j) /\ j.at = task[t].at /\ j.arg = task[t].arg
      /\ j.with = task[t].with /\ j.todo = Tail(task[t].todo) /\ j.snap = None
  BY <1>1, <1>2, <1>3 DEF TaskFields
<1>5. JobOK(t, j) /\ (t = "replenish" \/ (t = "chain" /\ j.at = "opening") => j.todo = << >>)
  <2>1. CASE t = "replenish" /\ task[t].at = "saving" /\ task[t].todo = Adds(task[t].arg)
    <3>1. j.todo = << >>
      BY <1>4, <2>1, AddsHas
    <3> QED
      BY <1>2, <1>4, <2>1, <3>1 DEF JobOK, TodoOK
  <2>2. CASE t = "chain" /\ task[t].at = "opening" /\ Mixes(task[t].arg) /\ task[t].todo = Takes(task[t].arg)
    <3>1. j.todo = << >>
      BY <1>4, <2>2, TakesHas
    <3> QED
      BY <1>4, <2>2, <3>1 DEF JobOK, TodoOK
  <2>3. CASE t # "replenish" /\ ~ (t = "chain" /\ task[t].at = "opening") /\ HarmlessList(task[t].todo)
    <3>1. HarmlessList(j.todo)
      BY <1>2, <1>4, <2>3, HarmlessTail
    <3> QED
      BY <1>4, <2>3, <3>1 DEF JobOK, TodoOK
  <2> QED
    BY <1>2, <2>1, <2>2, <2>3, TodoCases
<1>6. /\ DocFields(doc') /\ lost \subseteq lost' /\ torn' = torn
      /\ \A k \in Safe : \/ k \in Safe'
                         \/ /\ t = "chain" /\ task[t].at = "opening" /\ Mixes(task[t].arg)
                            /\ task[t].todo = Takes(task[t].arg) /\ k = task[t].arg.key
      /\ t = "replenish" => task[t].at = "saving" /\ task[t].arg \subseteq Safe'
  BY SavedIs
<1>7. /\ pool' = pool /\ claims' = claims /\ clock' = clock /\ req' = req /\ handed' = handed
      /\ peer' = peer /\ mail' = mail /\ failed' = failed /\ made' = made
  BY <1>1 DEF bundles
<1>8. DOMAIN task' = Threads /\ task'[t] = j /\ \A u \in Threads : u # t => task'[u] = task[u]
  BY <1>2, <1>3, <1>4
<1>9. TaskInv'
  <2>1. \A u \in Threads : JobOK(u, task'[u])
    BY <1>5, <1>8 DEF TaskInv
  <2> QED
    BY <1>6, <1>7, <1>8, <2>1 DEF TaskInv
<1>10. ReqInv' /\ SlotsLose
  BY <1>7, SlotsAsTheyAre
<1>11. CountersOK' /\ ClaimInv'
  BY <1>7, <1>10, GrantsLose, ClaimStays
<1>12. /\ "chain" \in Threads /\ "replenish" \in Threads
       /\ task'["replenish"].at = task["replenish"].at /\ task'["replenish"].arg = task["replenish"].arg
  BY <1>4, <1>8, ThreadFacts
<1>13. Unsent' = Unsent /\ Gone' = Gone
  BY <1>7, <1>12 DEF Unsent, Gone
<1>14. \A s \in Slots : Published(s)' = Published(s) /\ Reply(s)' = Reply(s)
  BY <1>7 DEF Published, Reply, At
<1>15. ShelfInv'
  BY <1>7, <1>13, <1>14, ShelfStays DEF TaskInv
<1>16. HandInv'
  BY <1>7, <1>13, <1>14, HandStays
<1>17. \A m \in mail : Looked(m) => Looked(m)'
  BY <1>2, <1>4, <1>8, <1>12 DEF Looked
<1>18. SecretInv'
  <2>1. CASE \A k \in Safe : k \in Safe'
    <3>1. task'["replenish"].todo = << >> => Unsent' \subseteq Safe'
      <4>1. CASE t = "replenish"
        BY <1>6, <1>13, <4>1 DEF Unsent
      <4>2. CASE t # "replenish"
        BY <1>8, <1>12, <1>13, <2>1, <4>2 DEF SecretInv
      <4> QED
        BY <4>1, <4>2
    <3> QED
      BY <1>7, <1>14, <1>17, <2>1, <3>1 DEF SecretInv
  <2>2. CASE /\ t = "chain" /\ task[t].at = "opening" /\ Mixes(task[t].arg) /\ task[t].todo = Takes(task[t].arg)
             /\ \A k \in Safe : k \in Safe' \/ k = task[t].arg.key
    <3>1. PICK m : m = task[t].arg
      OBVIOUS
    <3>2. m \in mail /\ Looked(m)'
      BY <1>4, <1>5, <1>8, <2>2, <3>1 DEF OpeningInv, Looked
    <3>3. m.key \in Gone /\ \A l \in mail : l.key = m.key => l = m
      BY <2>2, <3>1, <3>2 DEF HandInv, Mixes
    <3>4. /\ m.key \notin pool /\ m.key \notin Unsent
          /\ \A s \in Slots : m.key \notin Published(s) /\ m.key \notin Reply(s)
          /\ \A p \in Peers : m.key \notin peer[p].keys
      BY <3>2, <3>3 DEF ShelfInv, HandInv
    <3>5. /\ pool \subseteq Safe' /\ \A s \in Slots : Published(s) \subseteq Safe' /\ Reply(s) \subseteq Safe'
          /\ task["replenish"].todo = << >> => Unsent \subseteq Safe'
          /\ \A p \in Peers : peer[p].keys \subseteq Safe'
      BY <2>2, <3>1, <3>4 DEF SecretInv
    <3>6. \A l \in mail : l.key = None \/ l.key \in Safe' \/ Looked(l)'
      BY <1>17, <2>2, <3>1, <3>2, <3>3 DEF SecretInv
    <3>7. task'["replenish"] = task["replenish"]
      BY <1>8, <1>12, <2>2
    <3> QED
      BY <1>7, <1>13, <1>14, <3>5, <3>6, <3>7 DEF SecretInv
  <2> QED
    BY <1>6, <2>1, <2>2
<1>19. OpeningInv'
  <2>1. CASE t # "chain"
    <3>1. task'["chain"] = task["chain"]
      BY <1>8, <1>12, <2>1
    <3> QED
      BY <1>6, <1>7, <3>1 DEF OpeningInv
  <2>2. CASE t = "chain"
    <3>1. /\ task'["chain"].at = task["chain"].at /\ task'["chain"].arg = task["chain"].arg
          /\ task'["chain"].with = task["chain"].with /\ task["chain"].snap # None
      BY <1>1, <1>4, <1>8, <2>2
    <3> QED
      BY <1>6, <1>7, <3>1 DEF OpeningInv
  <2> QED
    BY <2>1, <2>2
<1>20. FirstMessageOpens'
  BY <1>6, <1>7 DEF FirstMessageOpens
<1> QED
  BY <1>9, <1>10, <1>11, <1>15, <1>16, <1>18, <1>19, <1>20

-----------------------------------------------------------------------------
(* Replenishment.                                                          *)

LEMMA FreshIs ==
    ASSUME NEW a \in Nat, NEW n \in Nat
    PROVE  /\ \A k \in a + 1 .. a + n : k \in 1 .. a + n /\ k \notin 1 .. a
           /\ IsFiniteSet(a + 1 .. a + n) /\ Cardinality(a + 1 .. a + n) = n
<1>1. IsFiniteSet(a + 1 .. a + n)
      /\ Cardinality(a + 1 .. a + n) = IF a + 1 > a + n THEN 0 ELSE (a + n) - (a + 1) + 1
  BY FS_Interval
<1> QED
  BY <1>1

\* What is fresh is nowhere yet.
LEMMA ReplenishCountedStep ==
    ASSUME IInv, ReplenishCounted
    PROVE  IInv'
<1> USE DEF IInv, KeysInv
<1>1. /\ Stands("replenish", "counting") /\ Took("replenish") /\ "replenish" \in Threads
      /\ UNCHANGED <<pool, claims, clock, handed, doc, peer, mail, failed, lost, torn>>
  BY ThreadFacts DEF ReplenishCounted
<1>2. ReqInv' /\ SlotsLose
  BY <1>1, TookIs
<1>3. CASE task' = Finished("replenish") /\ made' = made
  <2>1. task' = [task EXCEPT !["replenish"] = Rest] /\ JobOK("replenish", Rest) /\ Rest.at # "saving"
    BY <1>1, <1>3, Finishes, RestHas
  <2>2. KeysAsTheyAre
    BY <1>1, <1>3 DEF KeysAsTheyAre
  <2> QED
    BY <1>1, <1>2, <1>3, <2>1, <2>2, QuietThread, ThreadFacts
<1>4. ASSUME NEW left, left = Cardinality(req[Live("replenish")].keys), left <= LowWater,
             NEW keys, keys = Fresh(Target - left),
             task' = [task EXCEPT !["replenish"].at = "saving", !["replenish"].arg = keys,
                                  !["replenish"].todo = <<Change("add", None, keys)>>],
             made' = [made EXCEPT !.keys = @ + Cardinality(keys)]
      PROVE  IInv'
  <2>1. left \in Nat
    <3>1. IsFiniteSet(req[Live("replenish")].keys)
      BY <1>1, SlotFacts DEF ReqInv, RequestOK
    <3> QED
      BY <1>4, <3>1, FS_CardinalityType
  <2>2. made.keys \in Nat /\ DOMAIN made = {"keys", "tokens"}
    BY DEF TaskInv
  <2>3. PICK n \in Nat : n = Target - left
    BY <1>4, <2>1, PrekeysAssumption DEF PrekeysAssumption
  <2>4. keys = made.keys + 1 .. made.keys + n
    BY <1>4, <2>3 DEF Fresh
  <2>5. /\ \A k \in keys : k \in 1 .. made.keys + n /\ k \notin 1 .. made.keys
        /\ IsFiniteSet(keys) /\ Cardinality(keys) = n
    BY <2>2, <2>4, FreshIs
  <2>6. made'.keys = made.keys + n /\ DOMAIN made' = {"keys", "tokens"}
    BY <1>4, <2>2, <2>5
  <2>7. PICK j : j = task'["replenish"]
    OBVIOUS
  <2>8. /\ task' = [task EXCEPT !["replenish"] = j] /\ TaskFields(j) /\ j.at = "saving" /\ j.arg = keys
        /\ j.todo = Adds(keys) /\ j.snap = None
    <3>1. TaskFields(task["replenish"]) /\ DOMAIN task = Threads /\ task["replenish"].snap = None
      BY <1>1, StandsHas DEF Stands
    <3> QED
      BY <1>1, <1>4, <2>7, <3>1 DEF TaskFields, Adds
  <2>9. JobOK("replenish", j)
    BY <2>4, <2>5, <2>8 DEF JobOK, TodoOK
  <2>10. TaskInv' /\ task'["replenish"] = j /\ \A u \in Threads : u # "replenish" => task'[u] = task[u]
    <3>1. /\ doc' = doc /\ pool' = pool /\ peer' = peer /\ made'.keys \in Nat /\ "replenish" \in Threads
          /\ DOMAIN made' = {"keys", "tokens"}
      BY <1>1, <2>2, <2>6
    <3>2. task' = [task EXCEPT !["replenish"] = j]
      BY <2>8
    <3> QED
      BY <2>9, <3>1, <3>2, OneGoes
  <2>11. CountersOK' /\ ClaimInv'
    BY <1>1, <1>2, GrantsLose, ClaimStays
  <2>12. Unsent' = keys /\ Gone' = Gone /\ Safe' = Safe
    BY <1>1, <2>8, <2>10 DEF Unsent, Gone, Safe
  <2>13. \A s \in Slots : Published(s)' \subseteq Published(s) /\ Reply(s)' \subseteq Reply(s)
    BY <1>2 DEF SlotsLose, Loses
  <2>14. task'["chain"] = task["chain"]
    BY <2>10, ThreadFacts
  <2>15. ShelfInv'
    <3>1. \A k \in 1 .. made.keys : k \in 1 .. made'.keys
      BY <2>2, <2>6
    <3>2. \A k \in Unsent' : k \in 1 .. made'.keys /\ k \notin 1 .. made.keys
      BY <2>5, <2>6, <2>12
    <3>3. pool' = pool /\ handed' = handed
      BY <1>1
    <3> QED
      BY <2>12, <2>13, <3>1, <3>2, <3>3 DEF ShelfInv
  <2>16. HandInv'
    BY <1>1, <2>12, <2>13, HandStays
  <2>17. SecretInv'
    <3>1. \A m \in mail' : Looked(m)' = Looked(m)
      BY <2>14 DEF Looked
    <3>2. task'["replenish"].todo # << >>
      BY <2>8, <2>10, AddsHas
    <3> QED
      BY <1>1, <2>12, <2>13, <3>1, <3>2 DEF SecretInv
  <2>18. OpeningInv' /\ FirstMessageOpens'
    BY <1>1, <2>14 DEF OpeningInv, FirstMessageOpens
  <2> QED
    BY <1>2, <2>10, <2>11, <2>15, <2>16, <2>17, <2>18
<1> QED
  BY <1>3, <1>4 DEF ReplenishCounted

\* The secrets are in the document: their halves go to the server.
LEMMA PublishFreshStep ==
    ASSUME IInv, PublishFresh
    PROVE  IInv'
<1> USE DEF IInv, KeysInv
<1>1. /\ Stands("replenish", "saving") /\ "replenish" \in Threads /\ "replenish" \notin Peers
      /\ Send("replenish", Request("add", task["replenish"].arg, None))
      /\ task' = Goes("replenish", "publishing", <<>>)
      /\ UNCHANGED <<pool, claims, clock, handed, doc, peer, mail, made, failed, lost, torn>>
  BY ThreadFacts DEF PublishFresh, ghosts
<1>2. PICK keys : keys = task["replenish"].arg
  OBVIOUS
<1>3. keys \in SUBSET Nat /\ IsFiniteSet(keys) /\ Unsent = keys
  BY <1>1, <1>2 DEF TaskInv, JobOK, Stands, Unsent
<1>4. PICK s : s = Live("replenish")
  OBVIOUS
<1>5. /\ ReqInv' /\ \A x \in Slots : x # s => req'[x] = req[x] /\ Loses(x)
      /\ req'[s].op = "add" /\ req'[s].at = "sent" /\ req'[s].keys = keys /\ req[s].at = "none"
  <2>1. Send("replenish", Request("add", keys, None))
    BY <1>1, <1>2
  <2>2. "replenish" \in Peers \cup Threads
    BY <1>1
  <2> QED
    BY <1>1, <1>3, <1>4, <2>1, <2>2, SendIs
<1>6. s \in Slots
  BY <1>1, <1>4, SlotFacts
<1>7. /\ \A x \in Slots : x # s => Published(x)' \subseteq Published(x)
      /\ \A x \in Slots : Reply(x)' \subseteq Reply(x)
      /\ Published(s)' = keys
  BY <1>5, <1>6 DEF Loses, Published, Reply, At
<1>8. /\ task' = [task EXCEPT !["replenish"] = task'["replenish"]]
      /\ JobOK("replenish", task'["replenish"]) /\ task'["replenish"].at = "publishing"
  BY <1>1, GoesOn DEF Stands
<1>9. TaskInv' /\ \A u \in Threads : u # "replenish" => task'[u] = task[u]
  <2>1. DOMAIN made' = {"keys", "tokens"} /\ made'.keys \in Nat
    BY <1>1 DEF TaskInv
  <2> QED
    BY <1>1, <1>8, <2>1, OneGoes
<1>10. Unsent' = {} /\ Gone' = Gone /\ Safe' = Safe
  BY <1>1, <1>8 DEF Unsent, Gone, Safe
<1>11. CountersOK' /\ ClaimInv'
  <2>1. \A p \in Peers, w \in Nat : Grants(p, w)' <= Grants(p, w)
    <3> SUFFICES ASSUME NEW p \in Peers, NEW w \in Nat PROVE Grants(p, w)' <= Grants(p, w)
      OBVIOUS
    <3>1. Live(p) \in Slots /\ Left(p) \in Slots /\ Live(p) # s /\ Left(p) # s
      BY <1>1, <1>4, SlotFacts
    <3>2. Granted(Live(p), w)' <= Granted(Live(p), w) /\ Granted(Left(p), w)' <= Granted(Left(p), w)
      BY <1>5, <3>1 DEF Loses
    <3> QED
      BY <3>1, <3>2, GrantBounds DEF Grants
  <2> QED
    BY <1>1, <2>1, ClaimStays
<1>12. task'["chain"] = task["chain"]
  BY <1>9, ThreadFacts
<1>13. ShelfInv'
  <2>1. \A k \in keys : /\ k \in 1 .. made.keys /\ k \notin pool /\ k \notin Gone
                        /\ \A x \in Slots : k \notin Published(x)
    BY <1>3 DEF ShelfInv
  <2> QED
    BY <1>1, <1>7, <1>10, <2>1 DEF ShelfInv
<1>14. HandInv'
  BY <1>1, <1>7, <1>10, HandStays
<1>15. SecretInv'
  <2>1. keys \subseteq Safe
    BY <1>1, <1>3 DEF SecretInv, Stands
  <2>2. \A m \in mail' : Looked(m)' = Looked(m)
    BY <1>12 DEF Looked
  <2>3. \A x \in Slots : Published(x)' \subseteq Safe' /\ Reply(x)' \subseteq Safe'
    BY <1>7, <1>10, <2>1 DEF SecretInv
  <2> QED
    BY <1>1, <1>10, <2>2, <2>3 DEF SecretInv
<1>16. OpeningInv' /\ FirstMessageOpens'
  BY <1>1, <1>12 DEF OpeningInv, FirstMessageOpens
<1> QED
  BY <1>5, <1>9, <1>11, <1>13, <1>14, <1>15, <1>16

-----------------------------------------------------------------------------
(* The theorems.                                                           *)

LEMMA Inited == Init => IInv
<1> SUFFICES ASSUME Init PROVE IInv
  OBVIOUS
<1>1. PICK keys : keys = 1 .. mode.keys
  OBVIOUS
<1>2. PICK token : token = IF mode.token THEN 1 ELSE None
  OBVIOUS
<1>3. /\ InitBundles(keys, token) /\ task = [t \in Threads |-> Rest]
      /\ doc = [secrets |-> keys, token |-> token,
                contacts |-> [p \in Peers |-> IF p \in mode.known THEN NewContact ELSE None]]
      /\ mail = {} /\ failed = {} /\ lost = {} /\ torn = {}
  BY <1>1, <1>2 DEF Init
<1>4. DOMAIN made = {"keys", "tokens"} /\ made.keys = mode.keys
  BY DEF Init
<1>5. /\ DOMAIN peer = Peers /\ \A p \in Peers : peer[p].keys = {}
      /\ \A p \in Peers : DOMAIN peer[p] = {"at", "for", "keys", "met", "token"}
  BY DEF Init
<1>6. mode.keys \in Nat
  BY PrekeysAssumption DEF PrekeysAssumption, Init
<1>7. /\ pool = keys /\ claims = [p \in Peers |-> [w \in {} |-> 0]] /\ clock = 1
      /\ req = [s \in Slots |-> NoRequest] /\ handed = {}
  BY <1>3 DEF InitBundles
<1>8. keys = 1 .. made.keys /\ keys \subseteq Nat /\ IsFiniteSet(keys)
  BY <1>1, <1>4, <1>6, FS_Interval
<1>9. ReqInv
  BY <1>7, NoRequestHas DEF ReqInv
<1>10. CountersOK
  BY <1>7 DEF CountersOK
<1>11. \A s \in Slots : Published(s) = {} /\ Reply(s) = {} /\ \A w \in Nat : Granted(s, w) = 0
  BY <1>7, NoRequestHas DEF Published, Reply, Granted, At
<1>12. \A p \in Peers, w \in Nat : Drawn(p, w) = {} /\ Grants(p, w) = 0 /\ CountOf(claims[p], w) = 0
  BY <1>7, <1>11, SlotFacts DEF Drawn, Grants, CountOf
<1>13. ClaimInv
  <2>1. IsFiniteSet({}) /\ Cardinality({}) = 0 /\ ClaimLimit \in Nat
    BY FS_EmptySet, BundlesAssumption DEF BundlesAssumption
  <2>2. ASSUME NEW p \in Peers, NEW w \in Nat
        PROVE  /\ IsFiniteSet(Drawn(p, w)) /\ Cardinality(Drawn(p, w)) = 0
               /\ Grants(p, w) = 0 /\ CountOf(claims[p], w) = 0
    BY <1>12, <2>1
  <2> QED
    BY <2>1, <2>2 DEF ClaimInv
<1>14. \A t \in Threads : task[t] = Rest
  BY <1>3
<1>15. TaskInv
  <2>1. DocFields(doc)
    BY <1>3 DEF DocFields
  <2> QED
    BY <1>3, <1>4, <1>5, <1>6, <1>7, <1>8, <1>14, <2>1, RestIsOK DEF TaskInv
<1>16. Unsent = {} /\ Gone = {}
  BY <1>7, <1>14, RestHas, ThreadFacts DEF Unsent, Gone
<1>17. ShelfInv
  BY <1>7, <1>8, <1>11, <1>16 DEF ShelfInv
<1>18. HandInv
  BY <1>3, <1>5, <1>11 DEF HandInv
<1>19. SecretInv
  <2>1. pool \subseteq Safe
    BY <1>3, <1>7 DEF Safe
  <2> QED
    BY <1>3, <1>5, <1>11, <1>16, <2>1 DEF SecretInv
<1>20. OpeningInv /\ FirstMessageOpens
  BY <1>3, <1>14, RestHas, ThreadFacts DEF OpeningInv, FirstMessageOpens
<1> QED
  BY <1>9, <1>10, <1>13, <1>15, <1>17, <1>18, <1>19, <1>20 DEF IInv, KeysInv

LEMMA Stuttered ==
    ASSUME IInv, UNCHANGED vars
    PROVE  IInv'
<1>1. KeysAsTheyAre /\ req' = req /\ clock' = clock /\ peer' = peer /\ task' = task /\ made' = made
  BY DEF vars, bundles, device, ghosts, KeysAsTheyAre
<1>2. ReqInv' /\ SlotsLose
  BY <1>1, SlotsAsTheyAre DEF IInv
<1>3. TaskInv'
  BY <1>1, TaskRests DEF IInv, KeysAsTheyAre
<1> QED
  BY <1>1, <1>2, <1>3, QuietDevice

LEMMA Stepped == IInv /\ [Next]_vars => IInv'
<1> SUFFICES ASSUME IInv, [Next]_vars PROVE IInv'
  OBVIOUS
<1>1. CASE Server
  BY <1>1, ServerStep
<1>2. ASSUME NEW s \in Slots, Fault(s) PROVE IInv'
  BY <1>2, FaultStep
<1>3. CASE Doc
  BY <1>3, LoadDocStep, SaveDocStep DEF Doc
<1>4. CASE Effect
  BY <1>4, ConnectStep, RegisterStep, EffectRegisteredStep, DistributeStep DEF Effect
<1>5. CASE Removal
  BY <1>5, RegisterStep, RemovalRegisteredStep, DistributeStep DEF Removal
<1>6. CASE Chain
  BY <1>6, DistributeToStep, ReceiveStep, OpenedStep, ProcessedStep, ChainDoneStep DEF Chain
<1>7. CASE Kill
  BY <1>7, KillStep
<1>8. CASE Replenish \/ ReplenishCounted \/ PublishFresh \/ Replenished \/ SendSomething
  BY <1>8, ReplenishStep, ReplenishCountedStep, PublishFreshStep, ReplenishedStep, SendSomethingStep
<1>9. ASSUME NEW p \in Peers,
             \/ RemoveContact(p) \/ HandleSetVerified(p) \/ HandleSetTimer(p)
             \/ HandleAcknowledge(p) \/ HandleAddContact(p)
      PROVE  IInv'
  BY <1>9, RemoveContactStep, EditsStep
<1>10. ASSUME NEW p \in Peers,
              \/ StartLookup(p, "add") \/ StartLookup(p, "send")
              \/ LookupAnonymous(p) \/ LookupAuthenticated(p) \/ LookedUp(p) \/ SendFirst(p) \/ PeerKilled(p)
       PROVE  IInv'
  BY <1>10, StartLookupStep, LookupAnonymousStep, LookupAuthenticatedStep, LookedUpStep, SendFirstStep, PeerKilledStep
<1>11. CASE UNCHANGED vars
  BY <1>11, Stuttered
<1> QED
  BY <1>1, <1>2, <1>3, <1>4, <1>5, <1>6, <1>7, <1>8, <1>9, <1>10, <1>11 DEF Next

(* Every reachable state has the invariant: requests, counters and threads *)
(* are of their types, whoever was granted a prekey is counted, a prekey   *)
(* is in one place, and its secret is kept for whoever has it.             *)
THEOREM InvHolds == Spec => []IInv
<1>1. Init => IInv
  BY Inited
<1>2. IInv /\ [Next]_vars => IInv'
  BY Stepped
<1> QED
  BY <1>1, <1>2, PTL DEF Spec

(* A first message that followed the bundle opens, unless a save or a kill *)
(* took its secret: replenishPreKeysIfLow publishes what it saved, and a   *)
(* prekey reaches one peer.                                                *)
THEOREM OpensHolds == Spec => []FirstMessageOpens
<1>1. IInv => FirstMessageOpens
  BY DEF IInv, KeysInv
<1> QED
  BY <1>1, InvHolds, PTL

(* The claim limit of keys.ts: consumeOneTimePreKey hands each prekey out  *)
(* once, and checkRateLimit lets a peer draw the limit of a window,        *)
(* however its requests overlap.                                           *)
THEOREM ClaimsHold == Spec => []ClaimsAreLimited
<1>1. IInv => ClaimsAreLimited
  <2> SUFFICES ASSUME IInv PROVE ClaimsAreLimited
    OBVIOUS
  <2>1. \A h, i \in handed : h.key = i.key => h = i
    BY DEF IInv, KeysInv, ShelfInv
  <2>2. ASSUME NEW p \in Peers, NEW w \in 1 .. MaxClock
        PROVE  Cardinality({h \in handed : h.peer = p /\ h.window = w /\ ~ h.late}) <= ClaimLimit
    <3>1. w \in Nat
      OBVIOUS
    <3> QED
      BY <3>1 DEF IInv, ClaimInv, Drawn
  <2> QED
    BY <2>1, <2>2 DEF ClaimsAreLimited
<1> QED
  BY <1>1, InvHolds, PTL
=============================================================================
