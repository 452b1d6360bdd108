------------------------------ MODULE Bundles ------------------------------
(***************************************************************************)
(* What the Worker hands out about one account (keys.ts, db.ts, the        *)
(* register-token route, the fetchBundle half of seal.ts): its pool of     *)
(* one-time prekeys and its delivery token in D1, the tokens its mailbox   *)
(* accepts, and the counters that limit how often a pool is drawn on.      *)
(*                                                                         *)
(* A D1 statement and an operation of the object are atomic; a handler is  *)
(* not.  The counters of the two lookup limits refuse whenever they like,  *)
(* the counter of the claims is modelled.  A prekey and a token are the    *)
(* number of their making: nobody makes the same one twice.                *)
(***************************************************************************)
EXTENDS Naturals, Sequences, FiniteSets

CONSTANTS
    Peers,          \* who looks the account up
    Threads,        \* what makes requests on the owner's device
    Ceiling,        \* MAX_STORED_ONE_TIME_PREKEYS
    ClaimLimit,     \* OTP_CLAIM_LIMIT_PER_WINDOW
    MaxSealTokens,  \* MAX_SEAL_TOKENS
    MaxClock,       \* the last claim window of the run
    None

ASSUME BundlesAssumption ==
    /\ Ceiling \in Nat \ {0} /\ ClaimLimit \in Nat \ {0}
    /\ MaxSealTokens \in Nat \ {0} /\ MaxClock \in Nat \ {0}
    /\ Peers \cap Threads = {}
    /\ None \notin Nat

VARIABLES
    pool,      \* the rows of one_time_prekeys
    offered,   \* users.seal_token
    accepted,  \* the object's tokens, newest first
    claims,    \* per peer: its otpclaim rows of rate_limits, a count for each window there
    clock,     \* the present claim window
    req,       \* the requests being handled, and their replies
    handed     \* every one-time prekey that left the pool, and to whom

bundles == <<pool, offered, accepted, claims, clock, req, handed>>

\* The request that somebody waits for, and one they made before and gave up: a restarted
\* app does not know of it, the Worker does not know that nobody waits.  Of two that were
\* given up the second is one that never arrived.
Slots == (Peers \cup Threads) \X {"live", "left"}
Live(a) == <<a, "live">>
Left(a) == <<a, "left">>

NoRequest == [op |-> "none", at |-> "none", keys |-> {}, token |-> None, window |-> 0, ok |-> FALSE]
Bundle(token, keys) == [token |-> token, keys |-> keys]

InitBundles(keys, token) ==
    /\ pool = keys
    /\ offered = token
    /\ accepted = IF token = None THEN <<>> ELSE <<token>>
    /\ claims = [p \in Peers |-> [w \in {} |-> 0]]
    /\ clock = 1
    /\ req = [s \in Slots |-> NoRequest]
    /\ handed = {}

Request(op, keys, token) == [NoRequest EXCEPT !.op = op, !.at = "sent", !.keys = keys, !.token = token]
Send(a, r) == req[Live(a)].at = "none" /\ req' = [req EXCEPT ![Live(a)] = r]
Answered(a) == req[Live(a)].at = "answered"
Took(a) == req' = [req EXCEPT ![Live(a)] = NoRequest]

\* req once all of them stopped waiting.
GivenUp(as) ==
    [s \in Slots |->
        IF s[1] \notin as THEN req[s]
        ELSE IF s[2] = "live" THEN NoRequest
        ELSE IF req[Live(s[1])].at \in {"none", "answered"} THEN req[s] ELSE req[Live(s[1])]]

At(s, op, at) == req[s].op = op /\ req[s].at = at
Answer(s, ok, keys, token) ==
    req' = [req EXCEPT ![s] = IF s[2] = "left" THEN NoRequest
                              ELSE [@ EXCEPT !.at = "answered", !.ok = ok, !.keys = keys, !.token = token]]

-----------------------------------------------------------------------------
(* The owner's requests.                                                   *)

\* The least keys of a set, n of them: the order of the rows is the order of their ids.
Least(keys, n) == {k \in keys : Cardinality({i \in keys : i < k}) < n}

\* handleGetPreKeyCount; the reply stands for the count.
CountKeys(s) ==
    /\ At(s, "count", "sent")
    /\ Answer(s, TRUE, pool, None)
    /\ UNCHANGED <<pool, offered, accepted, claims, clock, handed>>

\* handleAddOneTimePreKeys up to its count: what does not fit under the ceiling is left out.
ClampKeys(s) ==
    /\ At(s, "add", "sent")
    /\ LET room == IF Cardinality(pool) < Ceiling THEN Ceiling - Cardinality(pool) ELSE 0
       IN  req' = [req EXCEPT ![s].at = "clamped", ![s].keys = Least(@, room)]
    /\ UNCHANGED <<pool, offered, accepted, claims, clock, handed>>

\* The INSERTs, one batch.
AddKeys(s) ==
    /\ At(s, "add", "clamped")
    /\ pool' = pool \cup req[s].keys
    /\ Answer(s, TRUE, req[s].keys, None)
    /\ UNCHANGED <<offered, accepted, claims, clock, handed>>

\* register-token, first half: the object takes it to the front of its list.
RegisterWithObject(s) ==
    /\ At(s, "register", "sent")
    /\ LET token == req[s].token
           others == SelectSeq(accepted, LAMBDA t : t # token)
           all == <<token>> \o others
       IN  accepted' = SubSeq(all, 1, IF Len(all) < MaxSealTokens THEN Len(all) ELSE MaxSealTokens)
    /\ req' = [req EXCEPT ![s].at = "registered"]
    /\ UNCHANGED <<pool, offered, claims, clock, handed>>

\* register-token, second half: setUserSealToken.
RegisterInRow(s) ==
    /\ At(s, "register", "registered")
    /\ offered' = req[s].token
    /\ Answer(s, TRUE, {}, req[s].token)
    /\ UNCHANGED <<pool, accepted, claims, clock, handed>>

-----------------------------------------------------------------------------
(* Lookups by the peers.                                                   *)

\* handleGetBundle up to the claim: refused by its limit, or the row is read and the
\* window of the claim fixed.
Lookup(s) ==
    /\ At(s, "lookup", "sent")
    /\ \/ Answer(s, FALSE, {}, None)
       \/ req' = [req EXCEPT ![s].at = "loaded", ![s].token = offered, ![s].window = clock]
    /\ UNCHANGED <<pool, offered, accepted, claims, clock, handed>>

CountOf(c, w) == IF w \in DOMAIN c THEN c[w] ELSE 0

\* Mutant: the window that was just counted goes with the stale ones.
CountedThatPrunesItself(c, w) == [x \in {v \in DOMAIN c : v > w} |-> c[x]]

\* checkRateLimit: the upsert of this window, and every older one of the requester is gone;
\* two statements in the code, in one here: a claim of an older window that comes between
\* them could as well have come before both.
Counted(c, w) ==
    [x \in {v \in DOMAIN c \cup {w} : v >= w} |-> CountOf(c, x) + IF x = w THEN 1 ELSE 0]

\* The claim is counted: over its limit the bundle goes out without a one-time prekey.
Claim(s) ==
    LET who == s[1]
        w == req[s].window
    IN  /\ At(s, "lookup", "loaded")
        /\ claims' = [claims EXCEPT ![who] = Counted(@, w)]
        /\ IF CountOf(claims[who], w) + 1 <= ClaimLimit
           THEN req' = [req EXCEPT ![s].at = "claimed"]
           ELSE Answer(s, TRUE, {}, req[s].token)
        /\ UNCHANGED <<pool, offered, accepted, clock, handed>>

\* The window of the request is not the last that the peer was counted in: it was pruned once.
Late(s) == \E w \in DOMAIN claims[s[1]] : w > req[s].window

\* consumeOneTimePreKey: one statement deletes the oldest row and returns it.
Consume(s) ==
    /\ At(s, "lookup", "claimed")
    /\ pool' = pool \ Least(pool, 1)
    /\ Answer(s, TRUE, Least(pool, 1), req[s].token)
    /\ handed' = handed \cup {[key |-> k, peer |-> s[1], window |-> req[s].window, late |-> Late(s)] : k \in Least(pool, 1)}
    /\ UNCHANGED <<offered, accepted, claims, clock>>

\* lookupBundleForSeal: no requester to limit, so no key.
AnonymousBundle == Bundle(offered, {})

\* Whatever the Worker does next for a request.
Serve(s) ==
    \/ CountKeys(s) \/ ClampKeys(s) \/ AddKeys(s) \/ RegisterWithObject(s) \/ RegisterInRow(s)
    \/ Lookup(s) \/ Claim(s) \/ Consume(s)

\* The handler is gone between two statements, or its reply is lost.
Vanish(s) ==
    /\ req[s].at # "none"
    /\ ~ (req[s].at = "answered" /\ ~ req[s].ok)
    /\ Answer(s, FALSE, {}, None)
    /\ UNCHANGED <<pool, offered, accepted, claims, clock, handed>>

\* The hour ends.
Tick ==
    /\ clock < MaxClock
    /\ clock' = clock + 1
    /\ UNCHANGED <<pool, offered, accepted, claims, req, handed>>

BundlesTypeOK ==
    /\ pool \subseteq Nat
    /\ offered \in Nat \cup {None}
    /\ accepted \in Seq(Nat) /\ Len(accepted) <= MaxSealTokens
    /\ \A p \in Peers : DOMAIN claims[p] \subseteq 1 .. MaxClock
    /\ clock \in 1 .. MaxClock

(* A one-time prekey is handed out once, and nobody draws more than the    *)
(* limit of a window from one pool: whatever requests of theirs run at the *)
(* same time.  A claim counted in a window that a later one had pruned is  *)
(* the exception.                                                          *)
ClaimsAreLimited ==
    /\ \A h, i \in handed : h.key = i.key => h = i
    /\ \A p \in Peers, w \in 1 .. MaxClock :
          Cardinality({h \in handed : h.peer = p /\ h.window = w /\ ~ h.late}) <= ClaimLimit
=============================================================================
