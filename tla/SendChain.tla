----------------------------- MODULE SendChain -----------------------------
(***************************************************************************)
(* The sending half of one user's Mailbox Durable Object                   *)
(* (worker/mailbox.ts): the promise chain that runs the owner's sends one  *)
(* at a time, the send counter in memory and in storage, the server-side   *)
(* block check in D1 and the hop to the recipient's object.                *)
(*                                                                         *)
(* A handler gives way where it awaits something that is not storage: D1   *)
(* and the recipient's object.  The runtime's output gate holds what it    *)
(* sends out until its earlier writes are durable.  `arrived` is where     *)
(* handleDeliver of the recipient's object begins (Mailbox!Deliver).       *)
(***************************************************************************)
EXTENDS Integers, Sequences, FiniteSets

CONSTANTS
    Peers,        \* recipients
    MaxSends,     \* bounds the sends the owner submits
    MaxFaults,    \* bounds the failed calls and the restarts
    MaxToggles    \* bounds the blocks, unblocks and purges

ASSUME SendChainAssumption ==
    MaxSends \in Nat /\ MaxFaults \in Nat /\ MaxToggles \in Nat

VARIABLES
    chain,      \* sends enqueued behind the running one
    running,        \* the running handleSend, or NotRunning
    poisoned,   \* is the chain's tail a rejected promise
    memSeq,     \* this.sendSeq, or Unloaded
    storedSeq,  \* the counter in storage
    blocks,     \* who blocks the owner (rows of D1's blocks table)
    transit,    \* deliver calls under way to the recipients' objects
    arrived,    \* what each recipient's object was handed, in order
    submitted,  \* how many sends the socket has brought so far
    skipped,    \* sends a rejected tail dropped without running them
    refused,    \* sends the block check dropped
    grace,      \* per peer, the sends past the check when its block landed
    inc,        \* incarnations of the object in memory
    purges,     \* account deletions
    faults, toggles

object == <<chain, running, poisoned, memSeq>>
ghosts == <<submitted, skipped, refused, grace, inc, purges, faults, toggles>>
sendVars == <<object, storedSeq, blocks, transit, arrived, ghosts>>

-----------------------------------------------------------------------------
Unloaded == -1
NotRunning == [phase |-> "none"]
Sends == 1 .. MaxSends    \* a send is named by its place in the order of submission

Call == [id : Sends, to : Peers, seq : Nat, inc : Nat, life : Nat]
CallOf(j) == [id |-> j.id, to |-> j.to, seq |-> j.seq, inc |-> inc, life |-> j.life]

SendInit ==
    /\ chain = << >>
    /\ running = NotRunning
    /\ poisoned = FALSE
    /\ memSeq = Unloaded
    /\ storedSeq = 0
    /\ blocks = {}
    /\ transit = {}
    /\ arrived = [p \in Peers |-> << >>]
    /\ submitted = 0
    /\ skipped = {}
    /\ refused = {}
    /\ grace = [p \in Peers |-> {}]
    /\ inc = 0
    /\ purges = 0
    /\ faults = 0
    /\ toggles = 0

\* webSocketMessage: a send or groupSend frame joins the chain.
Submit(p) ==
    /\ submitted < MaxSends
    /\ submitted' = submitted + 1
    /\ chain' = Append(chain, [id |-> submitted', to |-> p])
    /\ UNCHANGED <<running, poisoned, memSeq, storedSeq, blocks, transit, arrived,
                   skipped, refused, grace, inc, purges, faults, toggles>>

\* `tail.then(task)` on a rejected tail never runs the task.
SkipRejected ==
    /\ poisoned /\ chain # << >>
    /\ skipped' = skipped \cup {Head(chain).id}
    /\ chain' = Tail(chain)
    /\ UNCHANGED <<running, poisoned, memSeq, storedSeq, blocks, transit, arrived,
                   submitted, refused, grace, inc, purges, faults, toggles>>

\* The counter is read from storage once per incarnation.
NextSeq == IF memSeq = Unloaded THEN storedSeq ELSE memSeq

\* handleSend or handleGroupSend starts on the head of the chain.
StartJob ==
    /\ ~ poisoned /\ running = NotRunning /\ chain # << >>
    /\ running' = [phase |-> "stamped", id |-> Head(chain).id, to |-> Head(chain).to,
               seq |-> NextSeq, life |-> purges]
    /\ chain' = Tail(chain)
    /\ UNCHANGED <<poisoned, blocks, transit, arrived, ghosts>>

\* Mutant: the counter advances in memory only.
TakeSeqUnsaved == StartJob /\ memSeq' = NextSeq + 1 /\ UNCHANGED storedSeq

\* Its first step, nextSendSeq.
TakeSeq == StartJob /\ memSeq' = NextSeq + 1 /\ storedSeq' = NextSeq + 1

\* Mutant: no server-side check at all.
CheckBlockNever ==
    /\ running.phase = "stamped"
    /\ running' = [running EXCEPT !.phase = "cleared"]
    /\ UNCHANGED <<chain, poisoned, memSeq, storedSeq, blocks, transit, arrived, ghosts>>

\* Mutant: a refused send never settles its promise.
CheckBlockHangs ==
    /\ running.phase = "stamped"
    /\ \/ /\ running.to \in blocks
          /\ UNCHANGED running
          /\ refused' = refused \cup {running.id}
       \/ /\ running.to \notin blocks
          /\ running' = [running EXCEPT !.phase = "cleared"]
          /\ UNCHANGED refused
    /\ UNCHANGED <<chain, poisoned, memSeq, storedSeq, blocks, transit, arrived,
                   submitted, skipped, grace, inc, purges, faults, toggles>>

\* deliverTo: a send to somebody who blocks the owner ends here, silently.
CheckBlock ==
    /\ running.phase = "stamped"
    /\ \/ /\ running.to \in blocks
          /\ running' = NotRunning
          /\ refused' = refused \cup {running.id}
       \/ /\ running.to \notin blocks
          /\ running' = [running EXCEPT !.phase = "cleared"]
          /\ UNCHANGED refused
    /\ UNCHANGED <<chain, poisoned, memSeq, storedSeq, blocks, transit, arrived,
                   submitted, skipped, grace, inc, purges, faults, toggles>>

\* deliverTo: stub.fetch to the recipient's object.
Dispatch ==
    /\ running.phase = "cleared"
    /\ transit' = transit \cup {CallOf(running)}
    /\ running' = [running EXCEPT !.phase = "calling"]
    /\ UNCHANGED <<chain, poisoned, memSeq, storedSeq, blocks, arrived, ghosts>>

Arrive(c) ==
    /\ c \in transit
    /\ transit' = transit \ {c}
    /\ arrived' = [arrived EXCEPT ![c.to] = Append(@, c)]
    /\ UNCHANGED <<object, storedSeq, blocks, ghosts>>

\* Mutant: the call is made but not awaited.
ReplyNotAwaited ==
    /\ running.phase = "calling"
    /\ running' = NotRunning
    /\ UNCHANGED <<chain, poisoned, memSeq, storedSeq, blocks, transit, arrived, ghosts>>

\* The call returns; whatever its status, handleSend is done.
Reply ==
    /\ running.phase = "calling" /\ CallOf(running) \notin transit
    /\ running' = NotRunning
    /\ UNCHANGED <<chain, poisoned, memSeq, storedSeq, blocks, transit, arrived, ghosts>>

\* D1 or the call throws, the call perhaps after it was handled or before it ever will be.
Fail ==
    /\ running.phase \in {"stamped", "cleared", "calling"}
    /\ faults < MaxFaults /\ faults' = faults + 1
    /\ running' = NotRunning
    /\ poisoned' = TRUE
    /\ \/ UNCHANGED transit
       \/ running.phase = "calling" /\ transit' = transit \ {CallOf(running)}
    /\ UNCHANGED <<chain, memSeq, storedSeq, blocks, arrived,
                   submitted, skipped, refused, grace, inc, purges, toggles>>

\* Eviction or a crash: memory goes.  A counter write nothing was sent after may go too.
Restart ==
    /\ faults < MaxFaults /\ faults' = faults + 1
    /\ \/ UNCHANGED storedSeq
       \/ running.phase = "stamped" /\ memSeq # Unloaded /\ storedSeq' = running.seq
    /\ chain' = << >>
    /\ running' = NotRunning
    /\ poisoned' = FALSE
    /\ memSeq' = Unloaded
    /\ inc' = inc + 1
    /\ UNCHANGED <<blocks, transit, arrived, submitted, skipped, refused, grace, purges, toggles>>

\* handlePurge: storage is wiped and the counter forgotten; the chain runs on.
Purge ==
    /\ toggles < MaxToggles /\ toggles' = toggles + 1
    /\ storedSeq' = 0
    /\ memSeq' = Unloaded
    /\ purges' = purges + 1
    /\ UNCHANGED <<chain, running, poisoned, blocks, transit, arrived,
                   submitted, skipped, refused, grace, inc, faults>>

\* handleBlock and handleUnblock, by the recipient.
Block(p) ==
    /\ p \notin blocks
    /\ toggles < MaxToggles /\ toggles' = toggles + 1
    /\ blocks' = blocks \cup {p}
    /\ grace' = [grace EXCEPT ![p] =
                    {c.id : c \in {t \in transit : t.to = p}}
                        \cup (IF running.phase \in {"cleared", "calling"} THEN {running.id} ELSE {})]
    /\ UNCHANGED <<object, storedSeq, transit, arrived,
                   submitted, skipped, refused, inc, purges, faults>>

Unblock(p) ==
    /\ p \in blocks
    /\ toggles < MaxToggles /\ toggles' = toggles + 1
    /\ blocks' = blocks \ {p}
    /\ UNCHANGED <<object, storedSeq, transit, arrived,
                   submitted, skipped, refused, grace, inc, purges, faults>>

Progress ==
    \/ SkipRejected
    \/ TakeSeq
    \/ CheckBlock
    \/ Dispatch
    \/ \E c \in transit : Arrive(c)
    \/ Reply

SendNext ==
    \/ Progress
    \/ \E p \in Peers : Submit(p) \/ Block(p) \/ Unblock(p)
    \/ Fail
    \/ Restart
    \/ Purge

SendSpec == SendInit /\ [][SendNext]_sendVars

\* An event loop runs a promise that can run and calls are answered; faults are not promised.
FairSpec == SendSpec /\ WF_sendVars(Progress)

-----------------------------------------------------------------------------
TypeOK ==
    /\ chain \in Seq([id : Sends, to : Peers])
    /\ running = NotRunning \/ running \in [phase : {"stamped", "cleared", "calling"}, id : Sends,
                               to : Peers, seq : Nat, life : Nat]
    /\ poisoned \in BOOLEAN
    /\ memSeq \in Nat \cup {Unloaded}
    /\ storedSeq \in Nat
    /\ blocks \subseteq Peers
    /\ transit \subseteq Call
    /\ arrived \in [Peers -> Seq(Call)]
    /\ submitted \in 0 .. MaxSends
    /\ skipped \subseteq Sends /\ refused \subseteq Sends
    /\ grace \in [Peers -> SUBSET Sends]
    /\ inc \in Nat /\ purges \in Nat
    /\ faults \in 0 .. MaxFaults /\ toggles \in 0 .. MaxToggles

Handed == UNION {{arrived[p][i] : i \in DOMAIN arrived[p]} : p \in Peers}

(* The counter gives sends the order they were submitted in, to whomever   *)
(* they go, and no two the same value, across failures, evictions and      *)
(* crashes, until the account is deleted.  The recipients' queues sort by  *)
(* it, and it is in the key a stored envelope lives under (nextSendSeq).   *)
SeqIsSendOrder ==
    \A x, y \in Handed \cup transit :
        (x.life = y.life /\ x.id < y.id) => x.seq < y.seq

(* Between two restarts a recipient's object is handed the owner's sends   *)
(* in the order they were submitted: a send starts only when the one       *)
(* before has been answered, so no call overtakes another.  The live path  *)
(* has no other ordering (webSocketMessage, deliverTo).                    *)
HandedInSendOrder ==
    \A p \in Peers : \A i, j \in DOMAIN arrived[p] :
        (i < j /\ arrived[p][i].inc = arrived[p][j].inc) => arrived[p][i].id < arrived[p][j].id

(* Once a block is recorded nothing more of the owner's reaches the        *)
(* blocker but what had already passed the check: sends still in the chain *)
(* when the block lands, and all later ones, are dropped.                  *)
BlockHolds ==
    [][\A p \in blocks \cap blocks' :
          arrived'[p] # arrived[p] => arrived'[p][Len(arrived'[p])].id \in grace[p]]_sendVars

(* Unless a call throws or memory goes, a send reaches its recipient's     *)
(* object or is refused by a block; and it is so again after a restart.    *)
Settled(id) ==
    \/ id \in refused
    \/ \E c \in Handed : c.id = id
SendsSettle ==
    \A id \in Sends, n \in 0 .. MaxFaults :
        (inc = n /\ \E i \in DOMAIN chain : chain[i].id = id) ~> (Settled(id) \/ poisoned \/ inc > n)

(* The session chain of the client keeps its tail from ever rejecting, so  *)
(* that one failed operation cannot drop the ones after it, and is said to *)
(* mirror this chain (src/lib/inboundDispatch.ts:66-70).                   *)
FailureIsContained == skipped = {}
=============================================================================
