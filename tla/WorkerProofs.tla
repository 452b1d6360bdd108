---------------------------- MODULE WorkerProofs ----------------------------
(***************************************************************************)
(* Theorems about what the Worker does beside the queue of a mailbox:      *)
(* SendChain, for any recipients and any bounds, and Push, for any         *)
(* devices, accounts, wake-ups and situations.                             *)
(***************************************************************************)
EXTENDS SendChain, Push, SequenceTheorems, TLAPS

-----------------------------------------------------------------------------
(* The sending half of a mailbox.  The inductive invariant, a conjunct per *)
(* idea.                                                                   *)

Calls == Handed \cup transit    \* every deliver call that was not lost

\* What waits in the chain was submitted, in that order, after everything that ran.
ChainInOrder ==
    /\ \A i, j \in DOMAIN chain : i < j => chain[i].id < chain[j].id
    /\ \A i \in DOMAIN chain :
           /\ chain[i].id <= submitted
           /\ running # NotRunning => running.id < chain[i].id
           /\ \A c \in Calls : c.id < chain[i].id
    /\ running # NotRunning => running.id <= submitted
    /\ \A c \in Calls : c.id <= submitted

\* The running send is later than every call but the one it makes.
JobIsLatest ==
    /\ running.phase \in {"stamped", "cleared"} => \A c \in Calls : c.id < running.id
    /\ running.phase = "calling" => \A c \in Calls : c.id < running.id \/ c = CallOf(running)

\* One incarnation has one call under way, the last it made, which the running send awaits
\* unless it failed.
OneInTransit ==
    /\ poisoned => running = NotRunning
    /\ \A c \in Calls : c.inc <= inc
    /\ \A c, d \in transit : c.inc = d.inc => c = d
    /\ \A c \in transit, d \in Handed : c.inc = d.inc => d.id < c.id
    /\ ~ poisoned => \A c \in transit :
           c.inc = inc => running.phase = "calling" /\ c = CallOf(running)

\* The counter is above every number given out in this life of the account, and a
\* number above all of the sends before.
CounterIsAhead ==
    /\ memSeq # Unloaded => memSeq = storedSeq
    /\ \A c \in Calls : c.life <= purges /\ (c.life = purges => c.seq < storedSeq)
    /\ running # NotRunning =>
           /\ running.life <= purges
           /\ running.life = purges => running.seq < storedSeq
           /\ memSeq # Unloaded => running.life = purges /\ running.seq + 1 = storedSeq
           /\ \A c \in Calls : c.life = running.life /\ c.id < running.id => c.seq < running.seq

\* What is past the check of somebody who blocks the owner was past it in time.
PassedInTime ==
    \A p \in blocks :
        /\ \A c \in transit : c.to = p => c.id \in grace[p]
        /\ running.phase \in {"cleared", "calling"} /\ running.to = p => running.id \in grace[p]

ChainInv ==
    /\ TypeOK
    /\ ChainInOrder
    /\ JobIsLatest
    /\ OneInTransit
    /\ CounterIsAhead
    /\ SeqIsSendOrder
    /\ HandedInSendOrder

-----------------------------------------------------------------------------
(* Lemmas about the operators of SendChain.                                *)

(* A running send has an id, a recipient, a number and a life.             *)
LEMMA JobFields ==
    ASSUME TypeOK
    PROVE  /\ running # NotRunning <=> running.phase \in {"stamped", "cleared", "calling"}
           /\ running # NotRunning => /\ running.id \in Sends /\ running.id \in Nat
                             /\ running.to \in Peers
                             /\ running.seq \in Nat
                             /\ running.life \in Nat
                             /\ CallOf(running) \in Call
BY DEF TypeOK, NotRunning, CallOf, Call, Sends

(* What a recipient's object was handed are calls.                         *)
LEMMA HandedType == ASSUME TypeOK PROVE Handed \subseteq Call
<1> SUFFICES ASSUME NEW p \in Peers, NEW i \in DOMAIN arrived[p]
             PROVE  arrived[p][i] \in Call
  BY DEF Handed
<1>1. arrived[p] \in Seq(Call)
  BY DEF TypeOK
<1> QED
  BY <1>1, ElementOfSeq, LenProperties

(* A call's fields are numbers the order can compare.                      *)
LEMMA CallFields ==
    ASSUME NEW c \in Call
    PROVE  c.id \in Nat /\ c.to \in Peers /\ c.seq \in Nat /\ c.inc \in Nat /\ c.life \in Nat
BY DEF Call, Sends

(* An arrival moves a call from the way to what was handed over.           *)
LEMMA ArriveMoves ==
    ASSUME TypeOK, NEW c \in transit, Arrive(c)
    PROVE  /\ Handed' = Handed \cup {c}
           /\ Handed' \cup transit' = Handed \cup transit
<1>1. c \in Call /\ c.to \in Peers
  BY CallFields DEF TypeOK
<1>2. /\ arrived[c.to] \in Seq(Call)
      /\ arrived' = [arrived EXCEPT ![c.to] = Append(arrived[c.to], c)]
      /\ transit' = transit \ {c}
  BY <1>1 DEF TypeOK, Arrive
<1>3. \A p \in Peers : arrived'[p] = IF p = c.to THEN Append(arrived[p], c) ELSE arrived[p]
  BY <1>1, <1>2 DEF TypeOK
<1> DEFINE a == Append(arrived[c.to], c)
           V(s) == {s[i] : i \in DOMAIN s}
<1>4. V(a) = V(arrived[c.to]) \cup {c}
  <2>1. DOMAIN a = 1 .. Len(arrived[c.to]) + 1 /\ DOMAIN arrived[c.to] = 1 .. Len(arrived[c.to])
    BY <1>1, <1>2, AppendProperties, LenProperties
  <2>2. \A i \in DOMAIN arrived[c.to] : a[i] = arrived[c.to][i]
    BY <1>1, <1>2, <2>1, AppendProperties
  <2>3. a[Len(arrived[c.to]) + 1] = c
    BY <1>1, <1>2, AppendProperties
  <2>4. Len(arrived[c.to]) \in Nat
    BY <1>2, LenProperties
  <2> QED
    BY <2>1, <2>2, <2>3, <2>4
<1>5. Handed = UNION {V(arrived[p]) : p \in Peers}
  BY DEF Handed
<1>6. Handed' = UNION {V(arrived'[p]) : p \in Peers}
  BY DEF Handed
<1>7. \A p \in Peers : V(arrived'[p]) = IF p = c.to THEN V(arrived[p]) \cup {c} ELSE V(arrived[p])
  <2>1. \A p \in Peers : p # c.to => V(arrived'[p]) = V(arrived[p])
    BY <1>3
  <2>2. arrived'[c.to] = a
    BY <1>1, <1>3
  <2>3. V(arrived'[c.to]) = V(arrived[c.to]) \cup {c}
    BY <2>2, <1>4
  <2> QED
    BY <2>1, <2>3
<1> HIDE DEF V, a
<1>8. Handed' = Handed \cup {c}
  <2>1. \A x : x \in Handed <=> \E p \in Peers : x \in V(arrived[p])
    BY <1>5
  <2>2. \A x : x \in Handed' <=> \E p \in Peers : x \in V(arrived'[p])
    BY <1>6
  <2>3. \A x : x \in Handed' <=> x \in Handed \/ x = c
    BY <1>1, <1>7, <2>1, <2>2
  <2> QED
    BY <2>3
<1> QED
  BY <1>2, <1>8

(* Taking the head off the chain shifts what is left by one place.         *)
LEMMA ChainTail ==
    ASSUME TypeOK, chain # << >>
    PROVE  /\ Head(chain) = chain[1] /\ 1 \in DOMAIN chain
           /\ Head(chain) \in [id : Sends, to : Peers]
           /\ Tail(chain) \in Seq([id : Sends, to : Peers])
           /\ \A i \in DOMAIN Tail(chain) :
                  i \in Nat /\ i + 1 \in DOMAIN chain /\ Tail(chain)[i] = chain[i + 1]
<1>1. chain \in Seq([id : Sends, to : Peers])
  BY DEF TypeOK
<1>2. Len(chain) \in Nat /\ Len(chain) # 0 /\ DOMAIN chain = 1 .. Len(chain)
  BY <1>1, EmptySeq, LenProperties
<1>3. Head(chain) = chain[1] /\ 1 \in DOMAIN chain
  BY <1>1, <1>2
<1>4. /\ Head(chain) \in [id : Sends, to : Peers]
      /\ Tail(chain) \in Seq([id : Sends, to : Peers])
      /\ Len(Tail(chain)) = Len(chain) - 1
      /\ \A i \in 1 .. Len(Tail(chain)) : Tail(chain)[i] = chain[i + 1]
  BY <1>1, HeadTailProperties
<1>5. DOMAIN Tail(chain) = 1 .. Len(chain) - 1
  BY <1>4, LenProperties
<1> QED
  BY <1>2, <1>3, <1>4, <1>5

(* Every element of the chain has an id and a recipient.                   *)
LEMMA ChainFields ==
    ASSUME TypeOK, NEW i \in DOMAIN chain
    PROVE  i \in Nat /\ chain[i] \in [id : Sends, to : Peers] /\ chain[i].id \in Nat
<1>1. chain \in Seq([id : Sends, to : Peers])
  BY DEF TypeOK
<1>2. i \in 1 .. Len(chain) /\ Len(chain) \in Nat
  BY <1>1, LenProperties
<1>3. chain[i] \in [id : Sends, to : Peers]
  BY <1>1, <1>2, ElementOfSeq
<1> QED
  BY <1>2, <1>3 DEF Sends

-----------------------------------------------------------------------------
(* The type invariant.                                                     *)

(* The object starts well typed.                                           *)
LEMMA InitType == ASSUME SendChainAssumption, SendInit PROVE TypeOK
<1>1. /\ chain \in Seq([id : Sends, to : Peers])
      /\ arrived \in [Peers -> Seq(Call)]
  BY EmptySeq DEF SendInit
<1>2. 0 \in 0 .. MaxSends /\ 0 \in 0 .. MaxFaults /\ 0 \in 0 .. MaxToggles
  BY DEF SendChainAssumption
<1>3. /\ running = NotRunning /\ poisoned \in BOOLEAN
      /\ memSeq \in Nat \cup {Unloaded} /\ storedSeq \in Nat
      /\ blocks \subseteq Peers /\ transit \subseteq Call
      /\ skipped \subseteq Sends /\ refused \subseteq Sends
      /\ grace \in [Peers -> SUBSET Sends]
      /\ inc \in Nat /\ purges \in Nat
  BY DEF SendInit
<1> QED
  BY <1>1, <1>2, <1>3 DEF SendInit, TypeOK

(* Every step keeps the state well typed.                                  *)
LEMMA NextType == ASSUME SendChainAssumption, TypeOK, [SendNext]_sendVars PROVE TypeOK'
<1> USE DEF TypeOK, ghosts, object
<1>1. ASSUME NEW p \in Peers, Submit(p)
      PROVE  TypeOK'
  <2>1. submitted + 1 \in Sends /\ submitted + 1 \in 0 .. MaxSends
    BY <1>1 DEF Submit, Sends, SendChainAssumption
  <2>2. chain' \in Seq([id : Sends, to : Peers])
    BY <1>1, <2>1, AppendProperties DEF Submit
  <2> QED
    BY <1>1, <2>1, <2>2 DEF Submit
<1>2. CASE SkipRejected
  BY <1>2, ChainTail DEF SkipRejected
<1>3. CASE TakeSeq
  <2>1. NextSeq \in Nat /\ NextSeq + 1 \in Nat
    BY DEF NextSeq
  <2>2. running' \in [phase : {"stamped", "cleared", "calling"}, id : Sends,
                  to : Peers, seq : Nat, life : Nat]
    BY <1>3, <2>1, ChainTail DEF TakeSeq, StartJob
  <2> QED
    BY <1>3, <2>1, <2>2, ChainTail DEF TakeSeq, StartJob
<1>4. CASE CheckBlock
  <2>1. running # NotRunning
    BY <1>4, JobFields DEF CheckBlock
  <2> QED
    BY <1>4, <2>1, JobFields DEF CheckBlock
<1>5. CASE Dispatch
  <2>1. running # NotRunning
    BY <1>5, JobFields DEF Dispatch
  <2> QED
    BY <1>5, <2>1, JobFields DEF Dispatch
<1>6. ASSUME NEW c \in transit, Arrive(c)
      PROVE  TypeOK'
  <2>1. c.to \in Peers
    BY CallFields
  <2>2. Append(arrived[c.to], c) \in Seq(Call)
    BY <2>1, AppendProperties
  <2> QED
    BY <1>6, <2>1, <2>2 DEF Arrive
<1>7. CASE Reply
  BY <1>7 DEF Reply
<1>8. ASSUME NEW p \in Peers, Block(p)
      PROVE  TypeOK'
  <2>1. {c.id : c \in {t \in transit : t.to = p}} \subseteq Sends
    BY DEF Call
  <2>2. (IF running.phase \in {"cleared", "calling"} THEN {running.id} ELSE {}) \subseteq Sends
    BY JobFields
  <2>3. grace' \in [Peers -> SUBSET Sends]
    BY <1>8, <2>1, <2>2 DEF Block
  <2>4. toggles' \in 0 .. MaxToggles /\ blocks' \subseteq Peers
    BY <1>8 DEF Block, SendChainAssumption
  <2> QED
    BY <1>8, <2>3, <2>4 DEF Block
<1>9. ASSUME NEW p \in Peers, Unblock(p)
      PROVE  TypeOK'
  BY <1>9 DEF Unblock, SendChainAssumption
<1>10. CASE Fail
  BY <1>10 DEF Fail, SendChainAssumption
<1>11. CASE Restart
  <2>1. storedSeq' \in Nat
    BY <1>11, JobFields DEF Restart
  <2>2. faults' \in 0 .. MaxFaults /\ inc' \in Nat
    BY <1>11 DEF Restart, SendChainAssumption
  <2> QED
    BY <1>11, <2>1, <2>2, EmptySeq DEF Restart
<1>12. CASE Purge
  BY <1>12 DEF Purge, SendChainAssumption
<1>13. CASE UNCHANGED sendVars
  BY <1>13 DEF sendVars
<1> QED
  BY <1>1, <1>2, <1>3, <1>4, <1>5, <1>6, <1>7, <1>8, <1>9, <1>10, <1>11, <1>12, <1>13
  DEF SendNext, Progress

(* The state of a Mailbox Durable Object's sending half, the calls under   *)
(* way and what was handed over stay of the types the code gives them.     *)
THEOREM ChainTypeCorrect == SendSpec => []TypeOK
<1>1. SendInit => TypeOK
  BY InitType, SendChainAssumption
<1>2. TypeOK /\ [SendNext]_sendVars => TypeOK'
  BY NextType, SendChainAssumption
<1> QED
  BY <1>1, <1>2, PTL DEF SendSpec

-----------------------------------------------------------------------------
(* The order of sends.                                                     *)

(* A step that makes no call, hands none over, lets at most some be lost   *)
(* and keeps the incarnation keeps both orders.                            *)
LEMMA OrderKept ==
    ASSUME SeqIsSendOrder, HandedInSendOrder,
           UNCHANGED arrived, transit' \subseteq transit
    PROVE  /\ Handed' = Handed /\ Calls' \subseteq Calls
           /\ SeqIsSendOrder' /\ HandedInSendOrder'
BY DEF SeqIsSendOrder, HandedInSendOrder, Handed, Calls

(* The calls are typed, and so are their fields.                           *)
LEMMA CallsType ==
    ASSUME TypeOK
    PROVE  /\ Calls \subseteq Call
           /\ \A c \in Calls : c.id \in Nat /\ c.seq \in Nat /\ c.inc \in Nat /\ c.life \in Nat
           /\ transit \subseteq Calls /\ Handed \subseteq Calls
<1>1. Calls \subseteq Call
  BY HandedType DEF Calls, TypeOK
<1> QED
  BY <1>1, CallFields DEF Calls

(* The invariant holds at first: there is no send and no call.             *)
LEMMA ChainInitInv == ASSUME SendChainAssumption, SendInit PROVE ChainInv
<1>1. TypeOK
  BY InitType
<1>2. Calls = {} /\ Handed = {} /\ transit = {} /\ DOMAIN chain = {}
  BY DEF SendInit, Calls, Handed
<1>3. running = NotRunning /\ running.phase = "none" /\ ~ poisoned /\ memSeq = Unloaded
  BY DEF SendInit, NotRunning
<1>4. \A p \in Peers : DOMAIN arrived[p] = {}
  BY DEF SendInit
<1> QED
  BY <1>1, <1>2, <1>3, <1>4
  DEF ChainInv, ChainInOrder, JobIsLatest, OneInTransit, CounterIsAhead,
      SeqIsSendOrder, HandedInSendOrder, Calls

(* Joining the chain: the newest send stands last in it.                   *)
LEMMA SubmitInv ==
    ASSUME ChainInv, NEW p \in Peers, Submit(p), TypeOK'
    PROVE  ChainInv'
<1> USE DEF ChainInv
<1>1. UNCHANGED <<running, poisoned, memSeq, storedSeq, transit, arrived, inc, purges>>
  BY DEF Submit
<1>2. Calls' = Calls /\ Handed' = Handed /\ CallOf(running)' = CallOf(running)
  BY <1>1 DEF Calls, Handed, CallOf
<1>3. JobIsLatest' /\ OneInTransit' /\ CounterIsAhead' /\ SeqIsSendOrder' /\ HandedInSendOrder'
  BY <1>1, <1>2 DEF JobIsLatest, OneInTransit, CounterIsAhead, SeqIsSendOrder, HandedInSendOrder
<1>4. ChainInOrder'
  <2> DEFINE new == [id |-> submitted + 1, to |-> p]
  <2>1. /\ submitted \in Nat /\ submitted' = submitted + 1 /\ submitted' \in Sends
        /\ chain' = Append(chain, new) /\ new \in [id : Sends, to : Peers]
    BY DEF Submit, TypeOK, Sends
  <2>2. /\ chain \in Seq([id : Sends, to : Peers])
        /\ Len(chain) \in Nat /\ DOMAIN chain = 1 .. Len(chain)
    BY LenProperties DEF TypeOK
  <2>3. DOMAIN chain' = 1 .. Len(chain) + 1
    BY <2>1, <2>2, AppendProperties, LenProperties
  <2>4. /\ \A i \in DOMAIN chain : chain'[i] = chain[i]
        /\ chain'[Len(chain) + 1] = new
    BY <2>1, <2>2, AppendProperties
  <2>5. \A c \in Calls : c.id < submitted' /\ c.id <= submitted'
    BY <2>1, CallsType DEF ChainInOrder
  <2>6. running # NotRunning => running.id < submitted' /\ running.id <= submitted'
    BY <2>1, JobFields DEF ChainInOrder
  <2>7. \A i \in DOMAIN chain : chain[i].id < submitted' /\ chain[i].id <= submitted'
    BY <2>1, ChainFields DEF ChainInOrder
  <2>8. new.id = submitted'
    BY <2>1
  <2> HIDE DEF new
  <2>9. \A i, j \in DOMAIN chain' : i < j => chain'[i].id < chain'[j].id
    BY <2>2, <2>3, <2>4, <2>7, <2>8 DEF ChainInOrder
  <2>10. \A i \in DOMAIN chain' : i \in DOMAIN chain \/ chain'[i] = new
    BY <2>2, <2>3, <2>4
  <2> QED
    BY <1>1, <1>2, <2>1, <2>4, <2>5, <2>6, <2>7, <2>8, <2>9, <2>10 DEF ChainInOrder
<1> QED
  BY <1>3, <1>4

(* A send leaving the chain, run or not, leaves the others in order.       *)
LEMMA ChainShifts ==
    ASSUME TypeOK, ChainInOrder, chain # << >>, chain' = Tail(chain)
    PROVE  /\ \A i, j \in DOMAIN chain' : i < j => chain'[i].id < chain'[j].id
           /\ \A i \in DOMAIN chain' :
                  /\ Head(chain).id < chain'[i].id
                  /\ \E k \in DOMAIN chain : chain'[i] = chain[k]
<1>1. /\ Head(chain) = chain[1] /\ 1 \in DOMAIN chain
      /\ \A i \in DOMAIN chain' : i \in Nat /\ i + 1 \in DOMAIN chain /\ chain'[i] = chain[i + 1]
  BY ChainTail
<1>2. \A i, j \in DOMAIN chain' : i < j => i + 1 < j + 1
  BY <1>1
<1>3. \A i \in DOMAIN chain' : 1 < i + 1
  <2> SUFFICES ASSUME NEW i \in DOMAIN chain' PROVE 1 < i + 1
    OBVIOUS
  <2>1. Tail(chain) \in Seq([id : Sends, to : Peers])
    BY ChainTail
  <2>2. i \in 1 .. Len(Tail(chain)) /\ Len(Tail(chain)) \in Nat
    BY <2>1, LenProperties
  <2> QED
    BY <2>2
<1> QED
  BY <1>1, <1>2, <1>3 DEF ChainInOrder

\* A send dropped behind a rejected tail.
LEMMA SkipInv ==
    ASSUME ChainInv, SkipRejected, TypeOK'
    PROVE  ChainInv'
<1> USE DEF ChainInv
<1>1. /\ UNCHANGED <<running, poisoned, memSeq, storedSeq, transit, arrived, submitted, inc, purges>>
      /\ chain # << >> /\ chain' = Tail(chain)
  BY DEF SkipRejected
<1>2. Calls' = Calls /\ Handed' = Handed /\ CallOf(running)' = CallOf(running)
  BY <1>1 DEF Calls, Handed, CallOf
<1>3. JobIsLatest' /\ OneInTransit' /\ CounterIsAhead' /\ SeqIsSendOrder' /\ HandedInSendOrder'
  BY <1>1, <1>2 DEF JobIsLatest, OneInTransit, CounterIsAhead, SeqIsSendOrder, HandedInSendOrder
<1>4. ChainInOrder'
  BY <1>1, <1>2, ChainShifts DEF ChainInOrder
<1> QED
  BY <1>3, <1>4

(* A send starts: whatever is in memory, its number is the stored counter, *)
(* which is above every number of this life.                               *)
LEMMA TakeSeqInv ==
    ASSUME ChainInv, TakeSeq, TypeOK'
    PROVE  ChainInv'
<1> USE DEF ChainInv
<1>1. /\ UNCHANGED <<poisoned, transit, arrived, submitted, inc, purges>>
      /\ chain # << >> /\ chain' = Tail(chain)
      /\ ~ poisoned /\ running = NotRunning
      /\ memSeq' = NextSeq + 1 /\ storedSeq' = NextSeq + 1
  BY DEF TakeSeq, StartJob, ghosts
<1>2. Calls' = Calls /\ Handed' = Handed
  BY <1>1 DEF Calls, Handed
<1>3. NextSeq = storedSeq /\ storedSeq \in Nat /\ purges \in Nat
  BY DEF NextSeq, CounterIsAhead, TypeOK
<1>4. running' = [phase |-> "stamped", id |-> Head(chain).id, to |-> Head(chain).to,
              seq |-> storedSeq, life |-> purges]
  BY <1>3 DEF TakeSeq, StartJob
<1>5. /\ running'.phase = "stamped" /\ running'.id = Head(chain).id
      /\ running'.seq = storedSeq /\ running'.life = purges
  BY <1>4
<1>6. Head(chain) = chain[1] /\ 1 \in DOMAIN chain
  BY <1>1, ChainTail
<1>7. \A c \in Calls : c.id < running'.id
  BY <1>5, <1>6 DEF ChainInOrder
<1>8. running'.id <= submitted
  BY <1>5, <1>6 DEF ChainInOrder
<1>9. ChainInOrder'
  BY <1>1, <1>2, <1>5, <1>8, ChainShifts DEF ChainInOrder
<1>10. JobIsLatest'
  BY <1>2, <1>5, <1>7 DEF JobIsLatest
<1>11. OneInTransit'
  <2>1. \A c \in transit : c.inc # inc
    BY <1>1 DEF OneInTransit, NotRunning
  <2> QED
    BY <1>1, <1>2, <2>1 DEF OneInTransit
<1>12. CounterIsAhead'
  <2>1. \A c \in Calls : c.life = purges => c.seq < storedSeq /\ c.seq < storedSeq + 1
    BY <1>3, CallsType DEF CounterIsAhead
  <2> QED
    BY <1>1, <1>2, <1>3, <1>5, <2>1 DEF CounterIsAhead
<1>13. SeqIsSendOrder' /\ HandedInSendOrder'
  BY <1>1, OrderKept
<1> QED
  BY <1>9, <1>10, <1>11, <1>12, <1>13

(* The block check ends the send or lets it pass; no call is made.         *)
LEMMA CheckBlockInv ==
    ASSUME ChainInv, CheckBlock, TypeOK'
    PROVE  ChainInv'
<1> USE DEF ChainInv
<1>1. UNCHANGED <<chain, poisoned, memSeq, storedSeq, transit, arrived, submitted, inc, purges>>
  BY DEF CheckBlock
<1>2. Calls' = Calls /\ Handed' = Handed
  BY <1>1 DEF Calls, Handed
<1>3. SeqIsSendOrder' /\ HandedInSendOrder'
  BY <1>1, OrderKept
<1>4. running.phase = "stamped" /\ running # NotRunning
  BY DEF CheckBlock, NotRunning
<1>5. ~ poisoned /\ \A c \in transit : c.inc # inc
  BY <1>4 DEF OneInTransit
<1>6. OneInTransit'
  BY <1>1, <1>2, <1>5 DEF OneInTransit
<1>7. CASE running' = NotRunning
  <2>1. running'.phase = "none"
    BY <1>7 DEF NotRunning
  <2> QED
    BY <1>1, <1>2, <1>3, <1>6, <1>7, <2>1 DEF ChainInOrder, JobIsLatest, CounterIsAhead
<1>8. CASE running' = [running EXCEPT !.phase = "cleared"]
  <2>1. /\ running'.phase = "cleared" /\ running'.id = running.id
        /\ running'.seq = running.seq /\ running'.life = running.life
    BY <1>4, <1>8 DEF TypeOK
  <2> QED
    BY <1>1, <1>2, <1>3, <1>4, <1>6, <2>1 DEF ChainInOrder, JobIsLatest, CounterIsAhead
<1> QED
  BY <1>7, <1>8 DEF CheckBlock

(* The call is made: the newest there is, the only one under way in this   *)
(* incarnation, with a number above those of the sends before.             *)
LEMMA DispatchInv ==
    ASSUME ChainInv, Dispatch, TypeOK'
    PROVE  ChainInv'
<1> DEFINE new == CallOf(running)
<1> USE DEF ChainInv
<1>1. /\ UNCHANGED <<chain, poisoned, memSeq, storedSeq, arrived, submitted, inc, purges>>
      /\ transit' = transit \cup {new}
      /\ running.phase = "cleared" /\ running # NotRunning
  BY DEF Dispatch, ghosts, NotRunning
<1>2. /\ running'.phase = "calling" /\ running'.id = running.id /\ running' # NotRunning
      /\ running'.seq = running.seq /\ running'.life = running.life /\ running'.to = running.to
  BY <1>1 DEF Dispatch, TypeOK, NotRunning
<1>3. /\ new.id = running.id /\ new.seq = running.seq /\ new.inc = inc /\ new.life = running.life
      /\ CallOf(running)' = new
  BY <1>1, <1>2 DEF CallOf
<1>4. Handed' = Handed /\ Calls' = Calls \cup {new}
  BY <1>1 DEF Calls, Handed
<1>5. running.id \in Nat /\ running.seq \in Nat /\ running.life \in Nat /\ inc \in Nat
  BY <1>1, JobFields DEF TypeOK
<1> HIDE DEF new
<1>6. \A c \in Calls : c.id < running.id /\ c.id \in Nat
  BY <1>1, CallsType DEF JobIsLatest
<1>7. ChainInOrder'
  BY <1>1, <1>2, <1>3, <1>4 DEF ChainInOrder
<1>8. JobIsLatest'
  BY <1>2, <1>3, <1>4, <1>6 DEF JobIsLatest
<1>9. OneInTransit'
  <2>1. ~ poisoned /\ \A c \in transit : c.inc # inc
    BY <1>1 DEF OneInTransit
  <2>2. \A c \in Handed : c.id < new.id
    BY <1>3, <1>6 DEF Calls
  <2>3. \A c, d \in transit' : c.inc = d.inc => c = d
    BY <1>1, <1>3, <2>1 DEF OneInTransit
  <2>4. \A c \in transit', d \in Handed' : c.inc = d.inc => d.id < c.id
    BY <1>1, <1>4, <2>2 DEF OneInTransit
  <2>5. \A c \in transit' : c.inc = inc' => running'.phase = "calling" /\ c = CallOf(running)'
    BY <1>1, <1>2, <1>3, <2>1
  <2>6. \A c \in Calls' : c.inc <= inc'
    BY <1>1, <1>3, <1>4, <1>5 DEF OneInTransit
  <2> QED
    BY <1>1, <2>1, <2>3, <2>4, <2>5, <2>6 DEF OneInTransit
<1>10. CounterIsAhead'
  BY <1>1, <1>2, <1>3, <1>4, <1>5 DEF CounterIsAhead
<1>11. SeqIsSendOrder'
  <2> SUFFICES ASSUME NEW x \in Calls', NEW y \in Calls', x.life = y.life, x.id < y.id
               PROVE  x.seq < y.seq
    BY DEF SeqIsSendOrder, Calls
  <2>1. CASE x \in Calls /\ y \in Calls
    BY <2>1 DEF SeqIsSendOrder, Calls
  <2>2. CASE x \in Calls /\ y = new
    BY <1>1, <1>3, <1>6, <2>2 DEF CounterIsAhead
  <2>3. CASE x = new /\ y \in Calls
    BY <1>3, <1>5, <1>6, <2>3
  <2>4. CASE x = new /\ y = new
    BY <1>3, <1>5, <2>4
  <2> QED
    BY <1>4, <2>1, <2>2, <2>3, <2>4
<1>12. HandedInSendOrder'
  BY <1>1 DEF HandedInSendOrder
<1> QED
  BY <1>7, <1>8, <1>9, <1>10, <1>11, <1>12

(* A call begins at the recipient's object.                                *)
LEMMA ArriveInv ==
    ASSUME ChainInv, NEW c \in transit, Arrive(c), TypeOK'
    PROVE  ChainInv'
<1> USE DEF ChainInv
<1>1. /\ UNCHANGED <<chain, running, poisoned, memSeq, storedSeq, submitted, inc, purges>>
      /\ transit' = transit \ {c}
  BY DEF Arrive, object, ghosts
<1>2. /\ Handed' = Handed \cup {c} /\ Calls' = Calls
      /\ CallOf(running)' = CallOf(running)
  BY <1>1, ArriveMoves DEF Calls, CallOf
<1>3. ChainInOrder' /\ JobIsLatest' /\ CounterIsAhead'
  BY <1>1, <1>2 DEF ChainInOrder, JobIsLatest, CounterIsAhead
<1>4. SeqIsSendOrder'
  <2>1. \A x, y \in Calls : (x.life = y.life /\ x.id < y.id) => x.seq < y.seq
    BY DEF SeqIsSendOrder, Calls
  <2>2. Handed' \cup transit' = Calls
    BY <1>2 DEF Calls
  <2> QED
    BY <2>1, <2>2 DEF SeqIsSendOrder
<1>5. OneInTransit'
  <2>1. \A x \in transit' : x.inc # c.inc /\ x \in transit
    BY <1>1 DEF OneInTransit
  <2> QED
    BY <1>1, <1>2, <2>1 DEF OneInTransit
<1>6. HandedInSendOrder'
  <2>1. c \in Call /\ c.to \in Peers
    BY CallFields DEF TypeOK
  <2> SUFFICES ASSUME NEW p \in Peers, NEW i \in DOMAIN arrived'[p], NEW j \in DOMAIN arrived'[p],
                      i < j, arrived'[p][i].inc = arrived'[p][j].inc
               PROVE  arrived'[p][i].id < arrived'[p][j].id
    BY DEF HandedInSendOrder
  <2> DEFINE n == Len(arrived[p])
  <2>2. /\ arrived[p] \in Seq(Call) /\ n \in Nat /\ DOMAIN arrived[p] = 1 .. n
    BY LenProperties DEF TypeOK
  <2>3. CASE p # c.to
    <3>1. arrived'[p] = arrived[p]
      BY <2>1, <2>3 DEF Arrive, TypeOK
    <3> QED
      BY <3>1 DEF HandedInSendOrder
  <2>4. CASE p = c.to
    <3>1. arrived'[p] = Append(arrived[p], c)
      BY <2>1, <2>4 DEF Arrive, TypeOK
    <3>2. /\ DOMAIN arrived'[p] = 1 .. n + 1
          /\ \A k \in 1 .. n : arrived'[p][k] = arrived[p][k]
          /\ arrived'[p][n + 1] = c
      BY <2>1, <2>2, <3>1, AppendProperties, LenProperties
    <3>3. i \in 1 .. n
      BY <2>2, <3>2
    <3>4. arrived[p][i] \in Handed
      BY <2>2, <3>3 DEF Handed
    <3>5. CASE j \in 1 .. n
      BY <2>2, <3>2, <3>3, <3>5 DEF HandedInSendOrder
    <3>6. CASE j = n + 1
      <4>1. arrived'[p][i] = arrived[p][i] /\ arrived'[p][j] = c
        BY <3>2, <3>3, <3>6
      <4> QED
        BY <3>4, <4>1 DEF OneInTransit
    <3> QED
      BY <2>2, <3>2, <3>5, <3>6
  <2> QED
    BY <2>3, <2>4
<1> QED
  BY <1>3, <1>4, <1>5, <1>6

(* The awaited call is answered: nothing of this incarnation is under way. *)
LEMMA ReplyInv ==
    ASSUME ChainInv, Reply, TypeOK'
    PROVE  ChainInv'
<1> USE DEF ChainInv
<1>1. /\ UNCHANGED <<chain, poisoned, memSeq, storedSeq, transit, arrived, submitted, inc, purges>>
      /\ running' = NotRunning /\ running'.phase = "none"
      /\ running.phase = "calling" /\ CallOf(running) \notin transit
  BY DEF Reply, ghosts, NotRunning
<1>2. Calls' = Calls /\ Handed' = Handed
  BY <1>1 DEF Calls, Handed
<1>3. SeqIsSendOrder' /\ HandedInSendOrder'
  BY <1>1, OrderKept
<1>4. ~ poisoned /\ \A c \in transit : c.inc # inc
  BY <1>1 DEF OneInTransit, NotRunning
<1> QED
  BY <1>1, <1>2, <1>3, <1>4
  DEF ChainInOrder, JobIsLatest, OneInTransit, CounterIsAhead

(* A call throws: the tail is rejected and runs nothing more, so the call  *)
(* that may still be under way stays the last of its incarnation.          *)
LEMMA FailInv ==
    ASSUME ChainInv, Fail, TypeOK'
    PROVE  ChainInv'
<1> USE DEF ChainInv
<1>1. /\ UNCHANGED <<chain, memSeq, storedSeq, arrived, submitted, inc, purges>>
      /\ running' = NotRunning /\ running'.phase = "none" /\ poisoned'
      /\ transit' \subseteq transit
  BY DEF Fail, NotRunning
<1>2. Calls' \subseteq Calls /\ Handed' = Handed /\ SeqIsSendOrder' /\ HandedInSendOrder'
  BY <1>1, OrderKept
<1> QED
  BY <1>1, <1>2 DEF ChainInOrder, JobIsLatest, OneInTransit, CounterIsAhead

(* Memory goes.  The calls under way belong to an incarnation that makes   *)
(* no more; a counter write that is lost was one nothing was sent after.   *)
LEMMA RestartInv ==
    ASSUME ChainInv, Restart, TypeOK'
    PROVE  ChainInv'
<1> USE DEF ChainInv
<1>1. /\ UNCHANGED <<transit, arrived, submitted, purges>>
      /\ running' = NotRunning /\ running'.phase = "none" /\ ~ poisoned' /\ memSeq' = Unloaded
      /\ chain' = << >> /\ DOMAIN chain' = {}
      /\ inc' = inc + 1 /\ inc \in Nat
  BY DEF Restart, NotRunning, TypeOK
<1>2. Calls' = Calls /\ Handed' = Handed /\ SeqIsSendOrder' /\ HandedInSendOrder'
  BY <1>1, OrderKept DEF Calls, Handed
<1>3. ChainInOrder' /\ JobIsLatest'
  BY <1>1, <1>2 DEF ChainInOrder, JobIsLatest
<1>4. OneInTransit'
  <2>1. \A c \in Calls : c.inc < inc' /\ c.inc <= inc'
    BY <1>1, CallsType DEF OneInTransit
  <2>2. \A c \in transit : c.inc # inc'
    BY <1>1, <2>1, CallsType
  <2> QED
    BY <1>1, <1>2, <2>1, <2>2 DEF OneInTransit
<1>5. CounterIsAhead'
  <2>1. \A c \in Calls : c.life = purges => c.seq < storedSeq'
    <3>1. CASE UNCHANGED storedSeq
      BY <3>1 DEF CounterIsAhead
    <3>2. CASE running.phase = "stamped" /\ memSeq # Unloaded /\ storedSeq' = running.seq
      <4>1. running # NotRunning
        BY <3>2 DEF NotRunning
      <4> QED
        BY <3>2, <4>1 DEF CounterIsAhead, JobIsLatest
    <3> QED
      BY <3>1, <3>2 DEF Restart
  <2> QED
    BY <1>1, <1>2, <2>1 DEF CounterIsAhead
<1> QED
  BY <1>2, <1>3, <1>4, <1>5

(* Deletion starts a new life, which has no number yet.                    *)
LEMMA PurgeInv ==
    ASSUME ChainInv, Purge, TypeOK'
    PROVE  ChainInv'
<1> USE DEF ChainInv
<1>1. /\ UNCHANGED <<chain, running, poisoned, transit, arrived, submitted, inc>>
      /\ storedSeq' = 0 /\ memSeq' = Unloaded
      /\ purges' = purges + 1 /\ purges \in Nat
  BY DEF Purge, TypeOK
<1>2. Calls' = Calls /\ Handed' = Handed /\ SeqIsSendOrder' /\ HandedInSendOrder'
  BY <1>1, OrderKept DEF Calls, Handed
<1>3. CallOf(running)' = CallOf(running)
  BY <1>1 DEF CallOf
<1>4. ChainInOrder' /\ JobIsLatest' /\ OneInTransit'
  BY <1>1, <1>2, <1>3 DEF ChainInOrder, JobIsLatest, OneInTransit
<1>5. CounterIsAhead'
  <2>1. \A c \in Calls : c.life < purges' /\ c.life <= purges' /\ c.life # purges'
    BY <1>1, CallsType DEF CounterIsAhead
  <2>2. running # NotRunning => running.life <= purges' /\ running.life # purges'
    BY <1>1, JobFields DEF CounterIsAhead
  <2> QED
    BY <1>1, <1>2, <2>1, <2>2 DEF CounterIsAhead
<1> QED
  BY <1>2, <1>4, <1>5

\* Every step keeps the invariant.
LEMMA InvStep == ASSUME SendChainAssumption, ChainInv, [SendNext]_sendVars PROVE ChainInv'
<1>1. TypeOK /\ TypeOK'
  BY NextType DEF ChainInv
<1>2. ASSUME UNCHANGED <<chain, running, poisoned, memSeq, storedSeq, transit, arrived,
                         submitted, inc, purges>>
      PROVE  ChainInv'
  BY <1>1, <1>2 DEF ChainInv, ChainInOrder, JobIsLatest, OneInTransit, CounterIsAhead,
                    SeqIsSendOrder, HandedInSendOrder, Calls, Handed, CallOf
<1>3. ASSUME NEW p \in Peers, Block(p) \/ Unblock(p)
      PROVE  ChainInv'
  BY <1>2, <1>3 DEF Block, Unblock, object
<1>4. CASE UNCHANGED sendVars
  BY <1>2, <1>4 DEF sendVars, object, ghosts
<1>5. CASE Progress
  BY <1>1, <1>5, SkipInv, TakeSeqInv, CheckBlockInv, DispatchInv, ArriveInv, ReplyInv DEF Progress
<1>6. CASE \E p \in Peers : Submit(p)
  BY <1>1, <1>6, SubmitInv
<1> QED
  BY <1>1, <1>3, <1>4, <1>5, <1>6, FailInv, RestartInv, PurgeInv DEF SendNext

(* The strengthened invariant holds in every reachable state.              *)
THEOREM ChainInvHolds == SendSpec => []ChainInv
<1>1. SendInit => ChainInv
  BY ChainInitInv, SendChainAssumption
<1>2. ChainInv /\ [SendNext]_sendVars => ChainInv'
  BY InvStep, SendChainAssumption
<1> QED
  BY <1>1, <1>2, PTL DEF SendSpec

(* The counter numbers the owner's sends in the order they were submitted, *)
(* through failures, evictions and crashes, until the account is deleted   *)
(* (nextSendSeq).                                                          *)
THEOREM SeqHolds == SendSpec => []SeqIsSendOrder
<1>1. ChainInv => SeqIsSendOrder
  BY DEF ChainInv
<1> QED
  BY <1>1, ChainInvHolds, PTL

(* Within an incarnation no call overtakes another on the way to one       *)
(* recipient's object (webSocketMessage, deliverTo).                       *)
THEOREM HandedOrderHolds == SendSpec => []HandedInSendOrder
<1>1. ChainInv => HandedInSendOrder
  BY DEF ChainInv
<1> QED
  BY <1>1, ChainInvHolds, PTL

-----------------------------------------------------------------------------
(* Blocks.                                                                 *)

(* What is past the check of somebody who blocks the owner was past it     *)
(* when the block landed, at every step.                                   *)
LEMMA PassedInTimeStep ==
    ASSUME TypeOK, TypeOK', PassedInTime, [SendNext]_sendVars
    PROVE  PassedInTime'
<1> USE DEF PassedInTime
<1>1. ASSUME UNCHANGED <<blocks, grace>>, transit' \subseteq transit,
             UNCHANGED running \/ running' = NotRunning \/ running'.phase = "stamped"
      PROVE  PassedInTime'
  BY <1>1 DEF NotRunning
<1>2. ASSUME NEW p \in Peers, Submit(p)
      PROVE  PassedInTime'
  BY <1>1, <1>2 DEF Submit
<1>3. CASE SkipRejected
  BY <1>1, <1>3 DEF SkipRejected
<1>4. CASE TakeSeq
  <2>1. running'.phase = "stamped"
    BY <1>4 DEF TakeSeq, StartJob
  <2> QED
    BY <1>1, <1>4, <2>1 DEF TakeSeq, StartJob, ghosts
<1>5. CASE CheckBlock
  <2>1. UNCHANGED <<blocks, grace, transit>> /\ running # NotRunning
    BY <1>5 DEF CheckBlock, NotRunning
  <2>2. CASE running' = NotRunning
    BY <1>1, <2>1, <2>2
  <2>3. CASE running.to \notin blocks /\ running' = [running EXCEPT !.phase = "cleared"]
    <3>1. running'.to = running.to
      BY <2>1, <2>3 DEF TypeOK
    <3> QED
      BY <2>1, <2>3, <3>1
  <2> QED
    BY <1>5, <2>2, <2>3 DEF CheckBlock
<1>6. CASE Dispatch
  <2>1. running # NotRunning /\ running.phase = "cleared" /\ UNCHANGED <<blocks, grace>>
    BY <1>6 DEF Dispatch, NotRunning, ghosts
  <2>2. running'.to = running.to /\ running'.id = running.id
    BY <1>6, <2>1 DEF Dispatch, TypeOK
  <2>3. /\ transit' = transit \cup {CallOf(running)}
        /\ CallOf(running).id = running.id /\ CallOf(running).to = running.to
    BY <1>6 DEF Dispatch, CallOf
  <2> QED
    BY <2>1, <2>2, <2>3
<1>7. ASSUME NEW c \in transit, Arrive(c)
      PROVE  PassedInTime'
  BY <1>1, <1>7 DEF Arrive, object, ghosts
<1>8. CASE Reply
  BY <1>1, <1>8 DEF Reply, ghosts
<1>9. ASSUME NEW q \in Peers, Block(q)
      PROVE  PassedInTime'
  <2>1. /\ UNCHANGED <<running, transit>> /\ blocks' = blocks \cup {q}
        /\ \A p \in Peers : p # q => grace'[p] = grace[p]
        /\ grace'[q] = {c.id : c \in {t \in transit : t.to = q}}
               \cup (IF running.phase \in {"cleared", "calling"} THEN {running.id} ELSE {})
    BY <1>9 DEF Block, object, TypeOK
  <2>2. blocks \subseteq Peers /\ q \notin blocks
    BY <1>9 DEF Block, TypeOK
  <2> QED
    BY <2>1, <2>2
<1>10. ASSUME NEW q \in Peers, Unblock(q)
       PROVE  PassedInTime'
  BY <1>10 DEF Unblock, object
<1>11. CASE Fail
  BY <1>1, <1>11 DEF Fail
<1>12. CASE Restart
  BY <1>1, <1>12 DEF Restart
<1>13. CASE Purge
  BY <1>1, <1>13 DEF Purge
<1>14. CASE UNCHANGED sendVars
  BY <1>1, <1>14 DEF sendVars, object, ghosts
<1> QED
  BY <1>2, <1>3, <1>4, <1>5, <1>6, <1>7, <1>8, <1>9, <1>10, <1>11, <1>12, <1>13, <1>14
  DEF SendNext, Progress

(* Once a block is recorded, nothing reaches the blocker but what had      *)
(* passed the check before (deliverTo).                                    *)
THEOREM BlockIsKept == SendSpec => BlockHolds
<1> DEFINE Step == \A p \in blocks \cap blocks' :
               arrived'[p] # arrived[p] => arrived'[p][Len(arrived'[p])].id \in grace[p]
<1>1. SendInit => PassedInTime
  BY DEF SendInit, PassedInTime
<1>2. TypeOK /\ TypeOK' /\ PassedInTime /\ [SendNext]_sendVars => PassedInTime'
  BY PassedInTimeStep
<1>3. TypeOK /\ PassedInTime /\ [SendNext]_sendVars => [Step]_sendVars
  <2> SUFFICES ASSUME TypeOK, PassedInTime, SendNext,
                      NEW p \in blocks \cap blocks', arrived'[p] # arrived[p]
               PROVE  arrived'[p][Len(arrived'[p])].id \in grace[p]
    OBVIOUS
  <2>1. PICK c \in transit : Arrive(c)
    BY DEF SendNext, Progress, Submit, Block, Unblock, SkipRejected, TakeSeq, StartJob, CheckBlock,
           Dispatch, Reply, Fail, Restart, Purge, object, ghosts
  <2>2. c \in Call /\ c.to \in Peers /\ p \in Peers
    BY CallFields DEF TypeOK
  <2>3. c.to = p
    BY <2>1, <2>2 DEF Arrive, TypeOK
  <2>4. arrived'[p] = Append(arrived[p], c) /\ arrived[p] \in Seq(Call)
    BY <2>1, <2>2, <2>3 DEF Arrive, TypeOK
  <2>5. arrived'[p][Len(arrived'[p])] = c
    BY <2>2, <2>4, AppendProperties
  <2> QED
    BY <2>3, <2>5 DEF PassedInTime
<1> QED
  BY <1>1, <1>2, <1>3, ChainTypeCorrect, PTL DEF SendSpec, BlockHolds

-----------------------------------------------------------------------------
(* Push.  Types.                                                           *)

DeviceOK(v) ==
    /\ v = [kind |-> v.kind, user |-> v.user, addr |-> v.addr, granted |-> v.granted,
            flag |-> v.flag, shows |-> v.shows, online |-> v.online]
    /\ v.addr \in Addresses \cup {None}

JobOK(j) ==
    /\ j = [op |-> j.op, at |-> j.at, addr |-> j.addr, user |-> j.user]
    /\ j.addr \in Addresses \cup {None}
    /\ j.at = "posted" => j.addr # None

\* What a wake-up did with an address.
Fates == {"none", "shown", "refused", "unreachable"}

\* What a wake-up has still to try: a browser's endpoint, or a device token in one
\* environment and then in the other.
Todo(at) ==
    {i \in [addr : Addresses, env : Environments \cup {None}, next : Environments \cup {None}] :
        IF at = "web" THEN i.env = None /\ i.next = None
        ELSE i.env \in Environments /\ i.next \in {Other(i.env), None}}

WakeOK(v) ==
    /\ v = [at |-> v.at, user |-> v.user, todo |-> v.todo, due |-> v.due, fate |-> v.fate]
    /\ v.at \in {"none", "web", "native"}
    /\ v.due \subseteq Addresses
    /\ v.at = "none" => v.due = {} /\ v.todo = {} /\ DOMAIN v.fate = {}
    /\ v.at # "none" => v.todo \subseteq Todo(v.at) /\ v.fate \in [Addresses -> Fates]

TablesOK ==
    /\ users \subseteq Users
    /\ row \in [Addresses -> Rows \cup {None}]
    /\ life \in [Addresses -> Lives \cup {None}]

DevicesOK == DOMAIN device = Devices /\ \A d \in Devices : DeviceOK(device[d])

JobsOK ==
    /\ DOMAIN job = Devices
    /\ \A d \in Devices : DOMAIN job[d] = Threads /\ \A t \in Threads : JobOK(job[d][t])

WakesOK == DOMAIN wake = Wakes /\ \A w \in Wakes : WakeOK(wake[w])

TInv == TablesOK /\ DevicesOK /\ JobsOK /\ WakesOK

-----------------------------------------------------------------------------
(* Addresses.                                                              *)

\* A token for a native device, an endpoint for a browser.
Suits(d, a) == life[a] # None /\ (Native(d) <=> life[a].env # None)

\* Nobody else has this address.
Exclusive(d, a) == \A e \in Devices \ {d} : device[e].addr # a

AddressInv ==
    /\ \A d \in Devices, a \in Addresses :
          device[d].addr = a => Alive(a) /\ Suits(d, a) /\ Exclusive(d, a)
    /\ \A d \in Devices, t \in Threads, a \in Addresses :
          job[d][t].addr = a => Suits(d, a) /\ Exclusive(d, a)
    /\ \A a \in Addresses : row[a] # None => life[a] # None /\ (row[a].env # None <=> life[a].env # None)

-----------------------------------------------------------------------------
(* Wake-ups.                                                               *)

Reached == {"shown", "unreachable"}

\* An address that a wake-up owes something is reached or will be tried.
Handled(w, a) ==
    \/ wake[w].fate[a] \in Reached
    \/ \E i \in wake[w].todo : i.addr = a
    \/ wake[w].at = "web" /\ row[a].env # None

WakeFine(w) ==
    /\ \A i \in wake[w].todo :
          /\ life[i.addr] # None
          /\ wake[w].at = "native" =>
                life[i.addr].env # None /\ (i.next = None => life[i.addr].env = i.env)
    /\ \A a \in wake[w].due : row[a] # None /\ row[a].user = wake[w].user
    /\ \A a \in DOMAIN wake[w].fate : wake[w].fate[a] = "refused" => life[a] # None /\ ~ Alive(a)
    /\ \A a \in wake[w].due : Alive(a) => Handled(w, a)

WakeInv == \A w \in Wakes : WakeFine(w)

PushInv == TInv /\ AddressInv /\ WakeInv

-----------------------------------------------------------------------------
(* Steps that leave the tables, the addresses and the wake-ups alone.      *)

\* A device keeps its kind and its address, another keeps everything.
DeviceStays(d) ==
    /\ DOMAIN device' = Devices /\ \A e \in Devices \ {d} : device'[e] = device[e]
    /\ DeviceOK(device'[d]) /\ device'[d].kind = device[d].kind /\ device'[d].addr = device[d].addr

(* A setting of a device says nothing of its address.                      *)
LEMMA SettingStays ==
    ASSUME DevicesOK, NEW d \in Devices, NEW x,
           \/ device' = [device EXCEPT ![d].shows = x] \/ device' = [device EXCEPT ![d].flag = x]
           \/ device' = [device EXCEPT ![d].granted = x] \/ device' = [device EXCEPT ![d].user = x]
           \/ device' = device
    PROVE  DeviceStays(d)
<1>1. DeviceOK(device[d]) /\ DOMAIN device = Devices
  BY DEF DevicesOK
<1>2. PICK v : v = device[d]
  OBVIOUS
<1>3. \A k : k \in {[v EXCEPT !.shows = x], [v EXCEPT !.flag = x], [v EXCEPT !.granted = x], [v EXCEPT !.user = x], v}
             => DeviceOK(k) /\ k.kind = v.kind /\ k.addr = v.addr
  BY <1>1, <1>2 DEF DeviceOK
<1>4. /\ device'[d] \in {[v EXCEPT !.shows = x], [v EXCEPT !.flag = x], [v EXCEPT !.granted = x],
                         [v EXCEPT !.user = x], v}
      /\ DOMAIN device' = Devices /\ \A e \in Devices \ {d} : device'[e] = device[e]
  BY <1>1, <1>2
<1> QED
  BY <1>2, <1>3, <1>4 DEF DeviceStays

(* ... nor do two.                                                         *)
LEMMA SettingsStay ==
    ASSUME DevicesOK, NEW d \in Devices, NEW x, NEW y,
           \/ device' = [device EXCEPT ![d].online = x, ![d].shows = y]
           \/ device' = [device EXCEPT ![d].flag = x, ![d].shows = y]
    PROVE  DeviceStays(d)
<1>1. DeviceOK(device[d]) /\ DOMAIN device = Devices
  BY DEF DevicesOK
<1>2. PICK v : v = device[d]
  OBVIOUS
<1>3. ASSUME NEW k, k = [v EXCEPT !.online = x, !.shows = y]
      PROVE  DeviceOK(k) /\ k.kind = v.kind /\ k.addr = v.addr
  <2>1. k = [kind |-> v.kind, user |-> v.user, addr |-> v.addr, granted |-> v.granted,
             flag |-> v.flag, shows |-> y, online |-> x]
    BY <1>1, <1>2, <1>3 DEF DeviceOK
  <2> QED
    BY <1>1, <1>2, <2>1 DEF DeviceOK
<1>5. ASSUME NEW k, k = [v EXCEPT !.flag = x, !.shows = y]
      PROVE  DeviceOK(k) /\ k.kind = v.kind /\ k.addr = v.addr
  <2>1. k = [kind |-> v.kind, user |-> v.user, addr |-> v.addr, granted |-> v.granted,
             flag |-> x, shows |-> y, online |-> v.online]
    BY <1>1, <1>2, <1>5 DEF DeviceOK
  <2> QED
    BY <1>1, <1>2, <2>1 DEF DeviceOK
<1>4. /\ device'[d] \in {[v EXCEPT !.online = x, !.shows = y], [v EXCEPT !.flag = x, !.shows = y]}
      /\ DOMAIN device' = Devices /\ \A e \in Devices \ {d} : device'[e] = device[e]
  BY <1>1, <1>2
<1> QED
  BY <1>2, <1>3, <1>4, <1>5 DEF DeviceStays

\* The jobs are still well-formed, and none has an address it did not have.
JobsStay ==
    /\ JobsOK'
    /\ \A d \in Devices, t \in Threads : job'[d][t].addr \in {None, job[d][t].addr}

(* One job set to one that is well-formed.                                 *)
LEMMA JobStays ==
    ASSUME JobsOK, NEW d \in Devices, NEW t \in Threads, NEW j, JobOK(j), j.addr \in {None, job[d][t].addr},
           job' = [job EXCEPT ![d][t] = j]
    PROVE  JobsStay
<1>1. /\ DOMAIN job' = Devices
      /\ \A e \in Devices : DOMAIN job'[e] = Threads
      /\ job'[d][t] = j
      /\ \A e \in Devices, u \in Threads : e # d \/ u # t => job'[e][u] = job[e][u]
  BY DEF JobsOK
<1>2. \A e \in Devices, u \in Threads : JobOK(job'[e][u]) /\ job'[e][u].addr \in {None, job[e][u].addr}
  BY <1>1 DEF JobsOK
<1> QED
  BY <1>1, <1>2 DEF JobsStay, JobsOK, JobOK

(* A job that was not, or that is over, asks for nothing.                  *)
LEMMA NoJobOK ==
    ASSUME NEW op, NEW at, at # "posted",
           NEW j, j = [NoJob EXCEPT !.op = op, !.at = at]
    PROVE  JobOK(j) /\ j.addr = None
BY DEF NoJob, JobOK

(* A job at its next stage.                                                *)
LEMMA StageStays ==
    ASSUME JobsOK, NEW d \in Devices, NEW t \in Threads, NEW at, at # "posted",
           job' = [job EXCEPT ![d][t].at = at]
    PROVE  JobsStay
<1>1. JobOK(job[d][t])
  BY DEF JobsOK
<1>2. PICK j : j = [job[d][t] EXCEPT !.at = at]
  OBVIOUS
<1>3. job' = [job EXCEPT ![d][t] = j]
  BY <1>2
<1>4. JobOK(j) /\ j.addr = job[d][t].addr
  BY <1>1, <1>2 DEF JobOK
<1> QED
  BY <1>3, <1>4, JobStays

(* A step that only moves settings and jobs keeps the invariant.           *)
LEMMA StaysInv ==
    ASSUME PushInv, UNCHANGED <<users, row, life, wake>>, JobsStay, NEW d \in Devices, DeviceStays(d)
    PROVE  PushInv'
<1>1. \A e \in Devices : device'[e].kind = device[e].kind /\ device'[e].addr = device[e].addr
  BY DEF DeviceStays
<1>2. TInv'
  <2>1. DevicesOK'
    BY DEF PushInv, TInv, DevicesOK, DeviceStays, DeviceOK
  <2>2. TablesOK'
    BY DEF PushInv, TInv, TablesOK
  <2>3. WakesOK'
    BY DEF PushInv, TInv, WakesOK
  <2> QED
    BY <2>1, <2>2, <2>3 DEF TInv, JobsStay
<1>3. \A e \in Devices, a \in Addresses :
          (Suits(e, a) => Suits(e, a)') /\ (Exclusive(e, a) => Exclusive(e, a)') /\ (Alive(a) => Alive(a)')
  BY <1>1 DEF Suits, Exclusive, Native, Alive
<1>4. AddressInv'
  <2>1. ASSUME NEW e \in Devices, NEW a \in Addresses, device'[e].addr = a
        PROVE  Alive(a)' /\ Suits(e, a)' /\ Exclusive(e, a)'
    BY <1>1, <1>3, <2>1 DEF PushInv, AddressInv
  <2>2. ASSUME NEW e \in Devices, NEW t \in Threads, NEW a \in Addresses, job'[e][t].addr = a
        PROVE  Suits(e, a)' /\ Exclusive(e, a)'
    BY <1>3, <2>2, NoneAssumption DEF PushInv, AddressInv, JobsStay
  <2> QED
    BY <2>1, <2>2 DEF PushInv, AddressInv
<1>5. WakeInv'
  BY DEF PushInv, WakeInv, WakeFine, Handled, Alive
<1> QED
  BY <1>2, <1>4, <1>5 DEF PushInv

(* The jobs that are not touched stay.                                     *)
LEMMA JobsSame == ASSUME JobsOK, job' = job PROVE JobsStay
BY DEF JobsOK, JobsStay

(* A job that is over.                                                     *)
LEMMA JobOver ==
    ASSUME JobsOK, NEW d \in Devices, NEW t \in Threads, job' = [job EXCEPT ![d][t] = NoJob] PROVE JobsStay
<1>1. JobOK(NoJob) /\ NoJob.addr = None
  BY DEF NoJob, JobOK
<1> QED
  BY <1>1, JobStays

(* The steps of a device that touch no table, no address and no wake-up.   *)
LEMMA QuietInv ==
    ASSUME PushInv, NEW d \in Devices,
           \/ OpenSettings(d) \/ Toggle(d) \/ TurnedOn(d) \/ (TurnedOff(d) /\ UNCHANGED life) \/ Reconciled(d)
           \/ Start(d) \/ Resume(d) \/ Background(d) \/ Permit(d)
           \/ (\E t \in Threads : Refuse(d, t) \/ Break(d, t) \/ AskPermission(d, t) \/ NoAddress(d, t))
           \/ (\E u \in Users \cup {None} : Sign(d, u))
    PROVE  PushInv'
<1>1. DevicesOK /\ JobsOK /\ "toggle" \in Threads /\ "reconcile" \in Threads
  BY DEF PushInv, TInv, Threads
<1>2. CASE OpenSettings(d)
  <2>1. PICK x : device' = [device EXCEPT ![d].shows = x]
    BY <1>2 DEF OpenSettings
  <2>2. UNCHANGED <<users, row, life, wake>> /\ job' = job
    BY <1>2 DEF OpenSettings
  <2> QED
    BY <1>1, <2>1, <2>2, JobsSame, SettingStays, StaysInv
<1>3. CASE Toggle(d)
  <2>1. PICK x : device' = [device EXCEPT ![d].flag = x]
    BY <1>3 DEF Toggle
  <2>2. PICK op, at : /\ job' = [job EXCEPT ![d]["toggle"] = [NoJob EXCEPT !.op = op, !.at = at]]
                      /\ at \in {"asking", "addressing"}
    <3>1. PICK j : /\ j = [NoJob EXCEPT !.op = IF ~ device[d].shows THEN "on" ELSE "off",
                                        !.at = IF ~ device[d].shows THEN "asking" ELSE "addressing"]
                   /\ job' = [job EXCEPT ![d]["toggle"] = j]
      BY <1>3 DEF Toggle
    <3>2. CASE device[d].shows
      <4>1. j = [NoJob EXCEPT !.op = "off", !.at = "addressing"]
        BY <3>1, <3>2
      <4> QED
        BY <3>1, <4>1
    <3>3. CASE ~ device[d].shows
      <4>1. j = [NoJob EXCEPT !.op = "on", !.at = "asking"]
        BY <3>1, <3>3
      <4> QED
        BY <3>1, <4>1
    <3> QED
      BY <3>2, <3>3
  <2>3. UNCHANGED <<users, row, life, wake>>
    BY <1>3 DEF Toggle
  <2>4. PICK j : j = [NoJob EXCEPT !.op = op, !.at = at]
    OBVIOUS
  <2>5. JobOK(j) /\ j.addr = None
    BY <2>2, <2>4, NoJobOK
  <2>6. JobsStay
    BY <1>1, <2>2, <2>4, <2>5, JobStays
  <2> QED
    BY <1>1, <2>1, <2>3, <2>6, SettingStays, StaysInv
<1>4. CASE TurnedOn(d)
  <2>1. PICK x, y : device' = [device EXCEPT ![d].flag = x, ![d].shows = y]
    BY <1>4 DEF TurnedOn
  <2>2. UNCHANGED <<users, row, life, wake>> /\ job' = [job EXCEPT ![d]["toggle"] = NoJob]
    BY <1>4 DEF TurnedOn
  <2> QED
    BY <1>1, <2>1, <2>2, JobOver, SettingsStay, StaysInv
<1>5. CASE TurnedOff(d) /\ UNCHANGED life
  <2>1. CASE device' = [device EXCEPT ![d].shows = FALSE]
    <3>1. UNCHANGED <<users, row, life, wake>> /\ job' = [job EXCEPT ![d]["toggle"] = NoJob]
      BY <1>5 DEF TurnedOff
    <3> QED
      BY <1>1, <2>1, <3>1, JobOver, SettingStays, StaysInv
  <2>2. CASE /\ job[d]["toggle"].addr # None
             /\ life' = [life EXCEPT ![job[d]["toggle"].addr].alive = FALSE]
             /\ device' = [device EXCEPT ![d].shows = FALSE,
                                         ![d].addr = IF @ = job[d]["toggle"].addr THEN None ELSE @]
    <3>1. PICK a \in Addresses : a = job[d]["toggle"].addr
      BY <1>1, <2>2 DEF JobsOK, JobOK
    <3>2. life[a] \in Lives
      <4>1. Suits(d, a)
        BY <1>1, <3>1 DEF PushInv, AddressInv
      <4> QED
        BY <4>1 DEF Suits, PushInv, TInv, TablesOK
    <3>3. life[a].alive = FALSE
      <4>1. life'[a].alive = FALSE
        BY <2>2, <3>1, <3>2 DEF PushInv, TInv, TablesOK, Lives
      <4> QED
        BY <1>5, <4>1
    <3>4. device[d].addr # a
      BY <3>3 DEF PushInv, AddressInv, Alive
    <3>5. PICK v : v = device[d] /\ DeviceOK(v)
      BY <1>1 DEF DevicesOK
    <3>6. PICK k : k = [v EXCEPT !.shows = FALSE, !.addr = v.addr]
      OBVIOUS
    <3>7. device' = [device EXCEPT ![d] = k]
      BY <2>2, <3>1, <3>4, <3>5, <3>6
    <3>8. k = [kind |-> v.kind, user |-> v.user, addr |-> v.addr, granted |-> v.granted,
               flag |-> v.flag, shows |-> FALSE, online |-> v.online]
      BY <3>5, <3>6 DEF DeviceOK
    <3>10. PICK n : n = [v EXCEPT !.shows = FALSE]
      OBVIOUS
    <3>11. n = [kind |-> v.kind, user |-> v.user, addr |-> v.addr, granted |-> v.granted,
                flag |-> v.flag, shows |-> FALSE, online |-> v.online]
      BY <3>5, <3>10 DEF DeviceOK
    <3>9. device' = [device EXCEPT ![d].shows = FALSE]
      BY <3>5, <3>7, <3>8, <3>10, <3>11
    <3> QED
      BY <2>1, <3>9
  <2> QED
    BY <1>5, <2>1, <2>2 DEF TurnedOff
<1>6. CASE Reconciled(d)
  <2>1. /\ UNCHANGED <<users, row, life, wake>> /\ device' = device
        /\ job' = [job EXCEPT ![d]["reconcile"] = NoJob]
    BY <1>6 DEF Reconciled
  <2> QED
    BY <1>1, <2>1, JobOver, SettingStays, StaysInv
<1>7. CASE Start(d)
  <2>1. PICK x, y : device' = [device EXCEPT ![d].online = x, ![d].shows = y]
    BY <1>7 DEF Start
  <2>2. PICK j : /\ job' = [job EXCEPT ![d] = [toggle |-> NoJob, reconcile |-> j]]
                 /\ j \in {[NoJob EXCEPT !.op = "reconcile", !.at = "asking"], NoJob}
    BY <1>7 DEF Start
  <2>3. UNCHANGED <<users, row, life, wake>>
    BY <1>7 DEF Start
  <2>4. JobOK(j) /\ j.addr = None /\ JobOK(NoJob) /\ NoJob.addr = None
    <3>1. JobOK(NoJob) /\ NoJob.addr = None
      BY DEF NoJob, JobOK
    <3>2. CASE j = [NoJob EXCEPT !.op = "reconcile", !.at = "asking"]
      BY <3>1, <3>2, NoJobOK
    <3> QED
      BY <2>2, <3>1, <3>2
  <2>5. /\ DOMAIN job' = Devices /\ \A e \in Devices \ {d} : job'[e] = job[e]
        /\ job'[d] = [toggle |-> NoJob, reconcile |-> j]
    BY <1>1, <2>2 DEF JobsOK
  <2>6. DOMAIN job'[d] = Threads /\ job'[d]["toggle"] = NoJob /\ job'[d]["reconcile"] = j
    BY <2>5 DEF Threads
  <2>9. \A e \in Devices : DOMAIN job'[e] = Threads
    BY <1>1, <2>5, <2>6 DEF JobsOK
  <2>7. \A e \in Devices, t \in Threads : JobOK(job'[e][t]) /\ job'[e][t].addr \in {None, job[e][t].addr}
    BY <1>1, <2>4, <2>5, <2>6 DEF JobsOK, Threads
  <2>8. JobsStay
    BY <2>5, <2>7, <2>9 DEF JobsStay, JobsOK, JobOK
  <2> QED
    BY <1>1, <2>1, <2>3, <2>8, SettingsStay, StaysInv
<1>8. CASE Resume(d) \/ Background(d)
  <2>1. PICK x, y : device' = [device EXCEPT ![d].online = x, ![d].shows = y]
    BY <1>8 DEF Resume, Background
  <2>2. UNCHANGED <<users, row, life, wake>> /\ job' = job
    BY <1>8 DEF Resume, Background
  <2> QED
    BY <1>1, <2>1, <2>2, JobsSame, SettingsStay, StaysInv
<1>9. CASE Permit(d) \/ \E u \in Users \cup {None} : Sign(d, u)
  <2>1. PICK x : device' = [device EXCEPT ![d].granted = x] \/ device' = [device EXCEPT ![d].user = x]
    BY <1>9 DEF Permit, Sign
  <2>2. UNCHANGED <<users, row, life, wake>> /\ job' = job
    BY <1>9 DEF Permit, Sign
  <2> QED
    BY <1>1, <2>1, <2>2, JobsSame, SettingStays, StaysInv
<1>10. ASSUME NEW t \in Threads, Refuse(d, t) \/ Break(d, t) \/ AskPermission(d, t) \/ NoAddress(d, t)
       PROVE  PushInv'
  <2>1. PICK at : job' = [job EXCEPT ![d][t].at = at] /\ at # "posted"
    BY <1>10 DEF Refuse, Break, AskPermission, NoAddress
  <2>2. UNCHANGED <<users, row, life, wake>> /\ device' = device
    BY <1>10 DEF Refuse, Break, AskPermission, NoAddress
  <2> QED
    BY <1>1, <2>1, <2>2, StageStays, SettingStays, StaysInv
<1> QED
  BY <1>2, <1>3, <1>4, <1>5, <1>6, <1>7, <1>8, <1>9, <1>10

-----------------------------------------------------------------------------
(* Addresses that are issued and given up.                                 *)

(* What changes an address without making one that was dead or unknown to a row alive. *)
LEMMA LifeMoves ==
    ASSUME PushInv, UNCHANGED <<users, row, wake>>, DevicesOK', JobsOK', AddressInv',
           life' \in [Addresses -> Lives \cup {None}],
           \A a \in Addresses : life[a] # None => life'[a] # None /\ life'[a].env = life[a].env,
           \A a \in Addresses : life[a] # None /\ Alive(a)' => Alive(a)
    PROVE  PushInv'
<1>1. TInv'
  <2>1. TablesOK' /\ WakesOK'
    BY DEF PushInv, TInv, TablesOK, WakesOK
  <2> QED
    BY <2>1 DEF TInv
<1>2. WakeInv'
  <2> SUFFICES ASSUME NEW w \in Wakes
               PROVE  /\ \A i \in wake'[w].todo :
                            /\ life'[i.addr] # None
                            /\ wake'[w].at = "native" =>
                                  life'[i.addr].env # None /\ (i.next = None => life'[i.addr].env = i.env)
                      /\ \A a \in wake'[w].due : row'[a] # None /\ row'[a].user = wake'[w].user
                      /\ \A a \in DOMAIN wake'[w].fate :
                            wake'[w].fate[a] = "refused" => life'[a] # None /\ ~ Alive(a)'
                      /\ \A a \in wake'[w].due : Alive(a)' => Handled(w, a)'
    BY DEF WakeInv, WakeFine
  <2>1. WakeOK(wake[w])
    BY DEF PushInv, TInv, WakesOK
  <2>2. \A i \in wake[w].todo : i.addr \in Addresses
    BY <2>1 DEF WakeOK, Todo
  <2>3. DOMAIN wake[w].fate \subseteq Addresses /\ wake[w].due \subseteq Addresses
    BY <2>1 DEF WakeOK
  <2>4. \A a \in wake[w].due : row[a] # None /\ life[a] # None
    BY <2>3 DEF PushInv, WakeInv, WakeFine, AddressInv
  <2>5. \A a \in wake[w].due : Alive(a)' => Handled(w, a)'
    BY <2>3, <2>4 DEF PushInv, WakeInv, WakeFine, Handled
  <2> QED
    BY <2>2, <2>3, <2>5 DEF PushInv, WakeInv, WakeFine
<1> QED
  BY <1>1, <1>2 DEF PushInv

(* The address that the device alone has, or had, is given up.             *)
LEMMA Killed ==
    ASSUME PushInv, UNCHANGED <<users, row, wake>>, JobsStay,
           NEW d \in Devices, NEW a \in Addresses, life[a] # None, Exclusive(d, a),
           life' = [life EXCEPT ![a].alive = FALSE],
           DOMAIN device' = Devices, \A e \in Devices \ {d} : device'[e] = device[e],
           DeviceOK(device'[d]), device'[d].kind = device[d].kind,
           device'[d].addr \in {None, device[d].addr}, device'[d].addr # a
    PROVE  PushInv'
<1>1. life \in [Addresses -> Lives \cup {None}] /\ life[a] \in Lives
  BY DEF PushInv, TInv, TablesOK
<1>2. /\ life' \in [Addresses -> Lives \cup {None}]
      /\ \A b \in Addresses \ {a} : life'[b] = life[b]
      /\ life'[a] \in Lives /\ life'[a].env = life[a].env /\ life'[a].alive = FALSE
  BY <1>1 DEF Lives
<1>3. life'[a] # None
  BY <1>2, NoneAssumption
<1>4. DevicesOK' /\ JobsOK'
  BY DEF PushInv, TInv, DevicesOK, JobsStay, DeviceOK
<1>5. \A e \in Devices, b \in Addresses : (Suits(e, b) => Suits(e, b)') /\ (Exclusive(e, b) => Exclusive(e, b)')
  BY <1>2, <1>3, NoneAssumption DEF Suits, Exclusive, Native
<1>6. \A b \in Addresses : b # a => (Alive(b)' <=> Alive(b))
  BY <1>2 DEF Alive
<1>7. AddressInv'
  <2>1. ASSUME NEW e \in Devices, NEW b \in Addresses, device'[e].addr = b
        PROVE  Alive(b)' /\ Suits(e, b)' /\ Exclusive(e, b)'
    <3>1. device[e].addr = b /\ b # a
      BY <2>1, NoneAssumption DEF Exclusive
    <3> QED
      BY <1>5, <1>6, <3>1 DEF PushInv, AddressInv
  <2>2. ASSUME NEW e \in Devices, NEW t \in Threads, NEW b \in Addresses, job'[e][t].addr = b
        PROVE  Suits(e, b)' /\ Exclusive(e, b)'
    BY <1>5, <2>2, NoneAssumption DEF PushInv, AddressInv, JobsStay
  <2>3. \A b \in Addresses : row[b] # None => life'[b] # None /\ (row[b].env # None <=> life'[b].env # None)
    BY <1>2, <1>3 DEF PushInv, AddressInv
  <2> QED
    BY <2>1, <2>2, <2>3 DEF AddressInv
<1>8. \A b \in Addresses : life[b] # None => life'[b] # None /\ life'[b].env = life[b].env
  BY <1>2, <1>3
<1>9. \A b \in Addresses : life[b] # None /\ Alive(b)' => Alive(b)
  BY <1>2, <1>6 DEF Alive
<1> QED
  BY <1>2, <1>4, <1>7, <1>8, <1>9, LifeMoves

LEMMA ExpireInv == ASSUME PushInv, NEW d \in Devices, Expire(d) PROVE PushInv'
<1>1. DeviceOK(device[d]) /\ DOMAIN device = Devices
  BY DEF PushInv, TInv, DevicesOK
<1>2. PICK a \in Addresses : a = device[d].addr
  BY <1>1 DEF DeviceOK, Expire
<1>3. Alive(a) /\ Exclusive(d, a)
  BY <1>2 DEF PushInv, AddressInv
<1>4. PICK k : k = [device[d] EXCEPT !.addr = None]
  OBVIOUS
<1>5. DeviceOK(k) /\ k.kind = device[d].kind /\ k.addr = None
  BY <1>1, <1>4 DEF DeviceOK
<1>6. device'[d] = k /\ DOMAIN device' = Devices /\ \A e \in Devices \ {d} : device'[e] = device[e]
  BY <1>1, <1>4 DEF Expire
<1>7. UNCHANGED <<users, row, wake>> /\ job' = job /\ life' = [life EXCEPT ![a].alive = FALSE]
  BY <1>2 DEF Expire
<1>8. JobsStay
  BY <1>7, JobsSame DEF PushInv, TInv
<1> QED
  BY <1>3, <1>5, <1>6, <1>7, <1>8, Killed, NoneAssumption DEF Alive

LEMMA TurnedOffInv == ASSUME PushInv, NEW d \in Devices, TurnedOff(d) PROVE PushInv'
<1>1. DeviceOK(device[d]) /\ DOMAIN device = Devices /\ JobsOK /\ "toggle" \in Threads
  BY DEF PushInv, TInv, DevicesOK, Threads
<1>2. CASE UNCHANGED life
  BY <1>2, QuietInv
<1>3. CASE /\ job[d]["toggle"].addr # None
           /\ life' = [life EXCEPT ![job[d]["toggle"].addr].alive = FALSE]
           /\ device' = [device EXCEPT ![d].shows = FALSE,
                                       ![d].addr = IF @ = job[d]["toggle"].addr THEN None ELSE @]
  <2>1. PICK a \in Addresses : a = job[d]["toggle"].addr
    BY <1>1, <1>3 DEF JobsOK, JobOK
  <2>2. life[a] # None /\ Exclusive(d, a)
    BY <1>1, <2>1 DEF PushInv, AddressInv, Suits
  <2>3. PICK b : b = IF device[d].addr = a THEN None ELSE device[d].addr
    OBVIOUS
  <2>4. PICK k : k = [device[d] EXCEPT !.shows = FALSE, !.addr = b]
    OBVIOUS
  <2>5. PICK v : v = device[d] /\ DeviceOK(v)
    BY <1>1
  <2>6. k = [kind |-> v.kind, user |-> v.user, addr |-> b, granted |-> v.granted,
             flag |-> v.flag, shows |-> FALSE, online |-> v.online]
    BY <2>4, <2>5 DEF DeviceOK
  <2>7. b \in {None, device[d].addr} /\ b # a
    BY <2>1, <2>3, NoneAssumption
  <2>8. DeviceOK(k) /\ k.kind = device[d].kind /\ k.addr = b
    BY <2>5, <2>6, <2>7 DEF DeviceOK
  <2>9. device'[d] = k /\ DOMAIN device' = Devices /\ \A e \in Devices \ {d} : device'[e] = device[e]
    BY <1>1, <1>3, <2>1, <2>3, <2>4
  <2>10. /\ UNCHANGED <<users, row, wake>> /\ life' = [life EXCEPT ![a].alive = FALSE]
         /\ job' = [job EXCEPT ![d]["toggle"] = NoJob]
    BY <1>3, <2>1 DEF TurnedOff
  <2>11. JobsStay
    BY <1>1, <2>10, JobOver
  <2> QED
    BY <2>2, <2>7, <2>8, <2>9, <2>10, <2>11, Killed
<1> QED
  BY <1>2, <1>3 DEF TurnedOff

(* A device gets an address, or the one it has again.                      *)
LEMMA AddressStep == ASSUME PushInv, NEW d \in Devices, NEW t \in Threads, Address(d, t) PROVE PushInv'
<1>1. /\ DeviceOK(device[d]) /\ DOMAIN device = Devices /\ JobOK(job[d][t]) /\ JobsOK /\ DevicesOK
      /\ life \in [Addresses -> Lives \cup {None}]
  BY DEF PushInv, TInv, DevicesOK, JobsOK, TablesOK
<1>2. PICK a \in NextAddress(d), env \in (IF Native(d) THEN Environments ELSE {None}) :
          /\ life[a] # None => life[a].env = env
          /\ life' = [life EXCEPT ![a] = [env |-> env, alive |-> TRUE]]
          /\ device' = [device EXCEPT ![d].addr = a]
          /\ job' = [job EXCEPT ![d][t] = [@ EXCEPT !.at = "posted", !.addr = a, !.user = device[d].user]]
  BY DEF Address
<1>3. a \in Addresses /\ (device[d].addr = a \/ life[a] = None) /\ (device[d].addr = None \/ device[d].addr = a)
  BY <1>1, <1>2 DEF NextAddress, DeviceOK
<1>4. /\ life' \in [Addresses -> Lives \cup {None}]
      /\ \A b \in Addresses \ {a} : life'[b] = life[b]
      /\ life'[a] \in Lives /\ life'[a].env = env /\ life'[a].alive = TRUE /\ life'[a] # None
  <2>1. PICK l : l = [env |-> env, alive |-> TRUE]
    OBVIOUS
  <2>2. l \in Lives /\ l.env = env /\ l.alive = TRUE
    BY <1>2, <2>1 DEF Lives
  <2>3. life' = [life EXCEPT ![a] = l]
    BY <1>2, <2>1
  <2> QED
    BY <1>1, <1>3, <2>2, <2>3, NoneAssumption
<1>5. /\ DOMAIN device' = Devices /\ \A e \in Devices \ {d} : device'[e] = device[e]
      /\ DeviceOK(device'[d]) /\ device'[d].kind = device[d].kind /\ device'[d].addr = a
  <2>1. PICK k : k = [device[d] EXCEPT !.addr = a]
    OBVIOUS
  <2>2. DeviceOK(k) /\ k.kind = device[d].kind /\ k.addr = a
    BY <1>1, <1>3, <2>1 DEF DeviceOK
  <2>3. device' = [device EXCEPT ![d] = k]
    BY <1>2, <2>1
  <2> QED
    BY <1>1, <2>2, <2>3
<1>6. /\ DOMAIN job' = Devices /\ \A e \in Devices : DOMAIN job'[e] = Threads
      /\ JobOK(job'[d][t]) /\ job'[d][t].addr = a
      /\ \A e \in Devices, u \in Threads : e # d \/ u # t => job'[e][u] = job[e][u]
  <2>1. PICK k : k = [job[d][t] EXCEPT !.at = "posted", !.addr = a, !.user = device[d].user]
    OBVIOUS
  <2>2. k = [op |-> job[d][t].op, at |-> "posted", addr |-> a, user |-> device[d].user]
    BY <1>1, <2>1 DEF JobOK
  <2>3. JobOK(k) /\ k.addr = a
    BY <1>3, <2>2, NoneAssumption DEF JobOK
  <2>4. job' = [job EXCEPT ![d][t] = k]
    BY <1>2, <2>1
  <2> QED
    BY <1>1, <2>3, <2>4 DEF JobsOK
<1>7. DevicesOK' /\ JobsOK'
  <2>1. \A e \in Devices : DeviceOK(device'[e])
    BY <1>1, <1>5 DEF DevicesOK
  <2>2. \A e \in Devices, u \in Threads : JobOK(job'[e][u])
    BY <1>1, <1>6 DEF JobsOK
  <2> QED
    BY <1>5, <1>6, <2>1, <2>2 DEF DevicesOK, JobsOK, DeviceOK, JobOK
<1>8. \A e \in Devices \ {d} : device[e].addr # a
  BY <1>3 DEF PushInv, AddressInv, Exclusive, Alive
<1>9. \A e \in Devices : Native(e)' <=> Native(e)
  BY <1>5 DEF Native
<1>10. Suits(d, a)' /\ Alive(a)' /\ Exclusive(d, a)'
  BY <1>2, <1>4, <1>5, <1>8, <1>9, NoneAssumption DEF Suits, Alive, Exclusive
<1>11. ASSUME NEW e \in Devices, NEW b \in Addresses, Suits(e, b) PROVE Suits(e, b)'
  BY <1>2, <1>4, <1>9, <1>11 DEF Suits
<1>12. ASSUME NEW e \in Devices, NEW b \in Addresses, Suits(e, b), Exclusive(e, b) PROVE Exclusive(e, b)'
  <2>1. CASE e = d
    BY <1>5, <1>12, <2>1 DEF Exclusive
  <2>2. CASE e # d
    <3>1. b # a
      BY <1>3, <1>12, <2>2 DEF Exclusive, Suits
    <3> QED
      BY <1>5, <1>12, <3>1 DEF Exclusive
  <2> QED
    BY <2>1, <2>2
<1>13. \A b \in Addresses : life[b] # None => life'[b] # None /\ life'[b].env = life[b].env
  BY <1>2, <1>4
<1>14. AddressInv'
  <2>1. ASSUME NEW e \in Devices, NEW b \in Addresses, device'[e].addr = b
        PROVE  Alive(b)' /\ Suits(e, b)' /\ Exclusive(e, b)'
    <3>1. CASE e = d
      BY <1>5, <1>10, <2>1, <3>1
    <3>2. CASE e # d
      <4>1. device[e].addr = b /\ b # a
        BY <1>5, <1>8, <2>1, <3>2
      <4>2. Alive(b) /\ Suits(e, b) /\ Exclusive(e, b)
        BY <4>1 DEF PushInv, AddressInv
      <4>3. Alive(b)'
        BY <1>4, <4>1, <4>2 DEF Alive
      <4> QED
        BY <1>11, <1>12, <4>2, <4>3
    <3> QED
      BY <3>1, <3>2
  <2>2. ASSUME NEW e \in Devices, NEW u \in Threads, NEW b \in Addresses, job'[e][u].addr = b
        PROVE  Suits(e, b)' /\ Exclusive(e, b)'
    <3>1. CASE e = d /\ u = t
      BY <1>6, <1>10, <2>2, <3>1
    <3>2. CASE e # d \/ u # t
      <4>1. Suits(e, b) /\ Exclusive(e, b)
        BY <1>6, <2>2, <3>2 DEF PushInv, AddressInv
      <4> QED
        BY <1>11, <1>12, <4>1
    <3> QED
      BY <3>1, <3>2
  <2>3. ASSUME NEW b \in Addresses, row'[b] # None
        PROVE  life'[b] # None /\ (row'[b].env # None <=> life'[b].env # None)
    <3>1. row' = row
      BY DEF Address
    <3>2. life[b] # None /\ (row[b].env # None <=> life[b].env # None)
      BY <2>3, <3>1 DEF PushInv, AddressInv
    <3>3. life'[b] # None /\ life'[b].env = life[b].env
      BY <1>13, <3>2
    <3> QED
      BY <3>1, <3>2, <3>3
  <2> QED
    BY <2>1, <2>2, <2>3 DEF AddressInv
<1>15. \A b \in Addresses : life[b] # None /\ Alive(b)' => Alive(b)
  BY <1>3, <1>4 DEF Alive, PushInv, AddressInv
<1>16. UNCHANGED <<users, row, wake>>
  BY DEF Address
<1> QED
  BY <1>4, <1>7, <1>14, <1>13, <1>15, <1>16, LifeMoves

-----------------------------------------------------------------------------
(* Rows that come and go, and wake-ups that go on.                         *)

\* A row stays its owner's.
RowsKeep == \A a \in Addresses : row[a] # None /\ row'[a] # None => row'[a].user = row[a].user

\* A row is of the kind of its address.
RowsSuit == \A a \in Addresses : row[a] # None => life[a] # None /\ (row[a].env # None <=> life[a].env # None)

(* The addresses are not touched by a step that only moves rows.           *)
LEMMA RowsAddress ==
    ASSUME PushInv, UNCHANGED <<life, device>>, JobsStay, RowsSuit' PROVE AddressInv' /\ DevicesOK'
<1>1. \A e \in Devices, a \in Addresses :
          (Suits(e, a) => Suits(e, a)') /\ (Exclusive(e, a) => Exclusive(e, a)') /\ (Alive(a) => Alive(a)')
  BY DEF Suits, Exclusive, Native, Alive
<1>2. ASSUME NEW e \in Devices, NEW t \in Threads, NEW a \in Addresses, job'[e][t].addr = a
      PROVE  Suits(e, a)' /\ Exclusive(e, a)'
  BY <1>1, <1>2, NoneAssumption DEF PushInv, AddressInv, JobsStay
<1>3. \A e \in Devices, a \in Addresses : device'[e].addr = a => Alive(a)' /\ Suits(e, a)' /\ Exclusive(e, a)'
  BY <1>1 DEF PushInv, AddressInv
<1> QED
  BY <1>2, <1>3 DEF AddressInv, RowsSuit, PushInv, TInv, DevicesOK

(* A wake-up that waits: it no longer owes what left the table.            *)
LEMMA WaitingFine ==
    ASSUME PushInv, UNCHANGED life, RowsKeep, RowsSuit', NEW w \in Wakes,
           wake'[w].at = wake[w].at, wake'[w].user = wake[w].user,
           wake'[w].todo = wake[w].todo, wake'[w].fate = wake[w].fate,
           wake'[w].due = {a \in wake[w].due : row'[a] # None}
    PROVE  WakeFine(w)'
<1>1. WakeFine(w) /\ WakeOK(wake[w])
  BY DEF PushInv, WakeInv, TInv, WakesOK
<1>2. wake[w].due \subseteq Addresses
  BY <1>1 DEF WakeOK
<1>3. \A a \in wake'[w].due : row[a] # None /\ row'[a] # None /\ row'[a].user = wake[w].user
  BY <1>1, <1>2 DEF WakeFine, RowsKeep
<1>4. \A a \in wake'[w].due : row[a].env # None => row'[a].env # None
  BY <1>2, <1>3 DEF RowsSuit, PushInv, AddressInv
<1>5. \A a \in wake'[w].due : Alive(a)' => Handled(w, a)'
  BY <1>1, <1>4 DEF WakeFine, Handled, Alive
<1> QED
  BY <1>1, <1>3, <1>5 DEF WakeFine, Alive

(* What StillOwed leaves.                                                  *)
LEMMA OwedFacts ==
    ASSUME WakesOK, NEW rows, NEW v, v = StillOwed(rows)
    PROVE  /\ DOMAIN v = Wakes
           /\ \A w \in Wakes :
                 /\ WakeOK(v[w])
                 /\ v[w].at = wake[w].at /\ v[w].user = wake[w].user
                 /\ v[w].todo = wake[w].todo /\ v[w].fate = wake[w].fate
                 /\ v[w].due = {a \in wake[w].due : rows[a] # None}
<1>1. DOMAIN v = Wakes
  BY DEF StillOwed
<1> SUFFICES ASSUME NEW w \in Wakes
             PROVE  /\ WakeOK(v[w])
                    /\ v[w].at = wake[w].at /\ v[w].user = wake[w].user
                    /\ v[w].todo = wake[w].todo /\ v[w].fate = wake[w].fate
                    /\ v[w].due = {a \in wake[w].due : rows[a] # None}
  BY <1>1
<1>2. PICK k : k = wake[w] /\ WakeOK(k)
  BY DEF WakesOK
<1>3. PICK due : due = {a \in k.due : rows[a] # None}
  OBVIOUS
<1>4. v[w] = [k EXCEPT !.due = due]
  BY <1>2, <1>3 DEF StillOwed
<1>5. v[w] = [at |-> k.at, user |-> k.user, todo |-> k.todo, due |-> due, fate |-> k.fate]
  BY <1>2, <1>4 DEF WakeOK
<1>6. due \subseteq k.due /\ due \subseteq Addresses /\ (k.due = {} => due = {})
  BY <1>2, <1>3 DEF WakeOK
<1>7. WakeOK(v[w])
  BY <1>2, <1>5, <1>6 DEF WakeOK
<1> QED
  BY <1>2, <1>3, <1>5, <1>7

(* A step that moves rows.                                                 *)
LEMMA RowsInv ==
    ASSUME PushInv, UNCHANGED <<life, device>>, JobsStay, users' \subseteq Users,
           row' \in [Addresses -> Rows \cup {None}], RowsKeep, RowsSuit', wake' = StillOwed(row')
    PROVE  PushInv'
<1>1. AddressInv' /\ DevicesOK'
  BY RowsAddress
<1>2. /\ DOMAIN wake' = Wakes
      /\ \A w \in Wakes :
            /\ WakeOK(wake'[w])
            /\ wake'[w].at = wake[w].at /\ wake'[w].user = wake[w].user
            /\ wake'[w].todo = wake[w].todo /\ wake'[w].fate = wake[w].fate
            /\ wake'[w].due = {a \in wake[w].due : row'[a] # None}
  <2>1. PICK rows, v : rows = row' /\ v = wake'
    OBVIOUS
  <2>2. v = StillOwed(rows)
    BY <2>1
  <2> QED
    BY <2>1, <2>2, OwedFacts DEF PushInv, TInv
<1>3. WakesOK'
  BY <1>2 DEF WakesOK, WakeOK
<1>4. TablesOK'
  BY DEF PushInv, TInv, TablesOK
<1>5. WakeInv'
  BY <1>2, WaitingFine DEF WakeInv
<1> QED
  BY <1>1, <1>3, <1>4, <1>5 DEF PushInv, TInv, JobsStay

(* The Worker serves a request.                                            *)
LEMMA ServeInv == ASSUME PushInv, NEW d \in Devices, NEW t \in Threads, Serve(d, t) PROVE PushInv'
<1>1. /\ JobsOK /\ JobOK(job[d][t]) /\ row \in [Addresses -> Rows \cup {None}] /\ users \subseteq Users
      /\ job[d][t].at = "posted" /\ job[d][t].user \in users
  BY DEF PushInv, TInv, JobsOK, TablesOK, Serve
<1>2. PICK a \in Addresses, u \in Users : a = job[d][t].addr /\ u = job[d][t].user
  BY <1>1 DEF JobOK
<1>3. /\ row' = IF job[d][t].op = "off" THEN Unsubscribed(u, a) ELSE Subscribed(d, u, a)
      /\ wake' = StillOwed(row')
      /\ job' = [job EXCEPT ![d][t].at = "served"]
      /\ UNCHANGED <<users, life, device>>
  BY <1>2 DEF Serve
<1>4. JobsStay
  BY <1>1, <1>3, StageStays
<1>5. Suits(d, a)
  BY <1>2 DEF PushInv, AddressInv
<1>6. PICK r : r = [user |-> u, env |-> FirstEnvironment(d)]
  OBVIOUS
<1>7. r \in Rows /\ r.user = u /\ (r.env # None <=> Native(d)) /\ r # None
  <2>1. FirstEnvironment(d) \in Environments \cup {None} /\ (FirstEnvironment(d) # None <=> Native(d))
    BY NoneAssumption DEF FirstEnvironment, Environments
  <2> QED
    BY <1>6, <2>1, NoneAssumption DEF Rows
<1>8. \/ row' = row
      \/ row' = [row EXCEPT ![a] = None]
      \/ (row[a] = None \/ row[a].user = u) /\ row' = [row EXCEPT ![a] = r]
  BY <1>3, <1>6 DEF Unsubscribed, Subscribed
<1>9. row' \in [Addresses -> Rows \cup {None}] /\ RowsKeep
  BY <1>1, <1>7, <1>8 DEF RowsKeep
<1>10. RowsSuit'
  <2> SUFFICES ASSUME NEW b \in Addresses, row'[b] # None
               PROVE  life[b] # None /\ (row'[b].env # None <=> life[b].env # None)
    BY <1>3 DEF RowsSuit
  <2>1. CASE row'[b] = row[b]
    BY <2>1 DEF PushInv, AddressInv
  <2>2. CASE b = a /\ row'[b] = r
    BY <1>5, <1>7, <2>2 DEF Suits
  <2>3. row'[b] = row[b] \/ (b = a /\ row'[b] = r)
    BY <1>1, <1>8
  <2> QED
    BY <2>1, <2>2, <2>3
<1> QED
  BY <1>1, <1>3, <1>4, <1>9, <1>10, RowsInv

LEMMA DeleteInv == ASSUME PushInv, NEW u \in Users, DeleteAccount(u) PROVE PushInv'
<1>1. row \in [Addresses -> Rows \cup {None}] /\ users \subseteq Users /\ JobsOK
  BY DEF PushInv, TInv, TablesOK
<1>2. /\ row' = [a \in Addresses |-> IF row[a] # None /\ row[a].user = u THEN None ELSE row[a]]
      /\ wake' = StillOwed(row') /\ users' \subseteq Users
      /\ UNCHANGED <<life, device, job>>
  BY <1>1 DEF DeleteAccount
<1>3. \A a \in Addresses : row'[a] \in {None, row[a]}
  BY <1>2
<1>4. row' \in [Addresses -> Rows \cup {None}] /\ RowsKeep
  BY <1>1, <1>2, <1>3 DEF RowsKeep
<1>5. RowsSuit'
  BY <1>2, <1>3 DEF RowsSuit, PushInv, AddressInv
<1>6. JobsStay
  BY <1>1, <1>2, JobsSame
<1> QED
  BY <1>2, <1>4, <1>5, <1>6, RowsInv

(* A wake-up is done with an address.                                      *)
LEMMA LeaveInv ==
    ASSUME PushInv, UNCHANGED <<users, life, device, job>>,
           row' \in [Addresses -> Rows \cup {None}], RowsKeep, RowsSuit',
           NEW w \in Wakes, wake[w].at # "none", NEW i \in wake[w].todo, NEW fate \in Fates,
           NEW rows, rows = row', Leave(w, i, fate, rows),
           fate = "refused" => ~ Alive(i.addr), fate \in Reached \/ ~ Alive(i.addr)
    PROVE  PushInv'
<1>1. WakesOK /\ JobsOK
  BY DEF PushInv, TInv
<1>2. rows = row'
  OBVIOUS
<1>3. PICK v : v = StillOwed(rows)
  OBVIOUS
<1>4. wake' = [v EXCEPT ![w].todo = @ \ {i}, ![w].fate[i.addr] = fate]
  BY <1>3 DEF Leave
<1>5. /\ DOMAIN v = Wakes
      /\ \A u \in Wakes :
            /\ WakeOK(v[u])
            /\ v[u].at = wake[u].at /\ v[u].user = wake[u].user
            /\ v[u].todo = wake[u].todo /\ v[u].fate = wake[u].fate
            /\ v[u].due = {a \in wake[u].due : rows[a] # None}
  BY <1>1, <1>3, OwedFacts
<1>6. PICK k : k = v[w] /\ WakeOK(k)
  BY <1>5
<1>7. wake' = [v EXCEPT ![w] = [k EXCEPT !.todo = @ \ {i}, !.fate[i.addr] = fate]]
  BY <1>4, <1>5, <1>6, ZenonT(60)
<1>8. PICK todo, done : todo = k.todo \ {i} /\ done = [k.fate EXCEPT ![i.addr] = fate]
  OBVIOUS
<1>9. [k EXCEPT !.todo = @ \ {i}, !.fate[i.addr] = fate] = [k EXCEPT !.todo = todo, !.fate = done]
  BY <1>6, <1>8 DEF WakeOK
<1>10. PICK n : n = [k EXCEPT !.todo = todo, !.fate = done]
  OBVIOUS
<1>11. n = [at |-> k.at, user |-> k.user, todo |-> todo, due |-> k.due, fate |-> done]
  BY <1>6, <1>10 DEF WakeOK
<1>12. /\ DOMAIN wake' = Wakes /\ wake'[w] = n
       /\ \A u \in Wakes \ {w} : wake'[u] = v[u]
  BY <1>5, <1>7, <1>9, <1>10
<1>13. /\ k.at # "none" /\ k.fate \in [Addresses -> Fates] /\ k.todo \subseteq Todo(k.at) /\ i \in k.todo
       /\ i.addr \in Addresses
  <2>1. k.at # "none" /\ i \in k.todo
    BY <1>5, <1>6
  <2>2. k.fate \in [Addresses -> Fates] /\ k.todo \subseteq Todo(k.at)
    BY <1>6, <2>1 DEF WakeOK
  <2> QED
    BY <2>1, <2>2 DEF Todo
<1>14. done \in [Addresses -> Fates] /\ todo \subseteq Todo(k.at)
       /\ done[i.addr] = fate /\ \A a \in Addresses \ {i.addr} : done[a] = k.fate[a]
  BY <1>8, <1>13
<1>15. WakeOK(n)
  BY <1>6, <1>11, <1>13, <1>14 DEF WakeOK
<1>16. WakesOK'
  BY <1>5, <1>12, <1>15 DEF WakesOK, WakeOK
<1>17. JobsStay
  BY <1>1, JobsSame
<1>18. AddressInv' /\ DevicesOK'
  BY <1>17, RowsAddress
<1>19. TablesOK'
  BY DEF PushInv, TInv, TablesOK
<1>20. ASSUME NEW u \in Wakes \ {w} PROVE WakeFine(u)'
  <2>1. /\ wake'[u].at = wake[u].at /\ wake'[u].user = wake[u].user
        /\ wake'[u].todo = wake[u].todo /\ wake'[u].fate = wake[u].fate
        /\ wake'[u].due = {a \in wake[u].due : row'[a] # None}
    BY <1>2, <1>5, <1>12
  <2> QED
    BY <2>1, WaitingFine
<1>21. WakeFine(w)'
  <2>1. /\ wake'[w].at = wake[w].at /\ wake'[w].user = wake[w].user
        /\ wake'[w].todo = wake[w].todo \ {i}
        /\ wake'[w].fate = done
        /\ wake'[w].due = {a \in wake[w].due : row'[a] # None}
    BY <1>2, <1>5, <1>6, <1>8, <1>11, <1>12
  <2>2. WakeFine(w) /\ wake[w].due \subseteq Addresses /\ k.fate = wake[w].fate /\ k.todo = wake[w].todo
    BY <1>1, <1>5, <1>6 DEF PushInv, WakeInv, WakesOK, WakeOK
  <2>3. \A a \in wake'[w].due : row[a] # None /\ row'[a] # None /\ row'[a].user = wake[w].user
    BY <2>1, <2>2 DEF WakeFine, RowsKeep
  <2>4. \A a \in wake'[w].due : row[a].env # None => row'[a].env # None
    BY <2>1, <2>2, <2>3 DEF RowsSuit, PushInv, AddressInv
  <2>5. ASSUME NEW a \in wake'[w].due, Alive(a)' PROVE Handled(w, a)'
    <3>1. Alive(a) /\ a \in wake[w].due /\ a \in Addresses
      BY <2>1, <2>2, <2>5 DEF Alive
    <3>2. CASE a = i.addr
      BY <1>14, <2>1, <3>1, <3>2 DEF Handled
    <3>3. CASE a # i.addr
      <4>1. Handled(w, a) /\ done[a] = wake[w].fate[a]
        BY <1>14, <2>2, <3>1, <3>3 DEF WakeFine
      <4>2. CASE \E x \in wake[w].todo : x.addr = a
        BY <2>1, <3>3, <4>2 DEF Handled
      <4> QED
        BY <2>1, <2>4, <2>5, <4>1, <4>2 DEF Handled
    <3> QED
      BY <3>2, <3>3
  <2>6. life[i.addr] # None
    BY <2>2 DEF WakeFine
  <2>7. \A a \in DOMAIN wake'[w].fate : wake'[w].fate[a] = "refused" => life'[a] # None /\ ~ Alive(a)'
    <3>1. DOMAIN done = Addresses /\ DOMAIN wake[w].fate = Addresses
      BY <1>13, <1>14, <2>2
    <3> QED
      BY <1>14, <2>1, <2>2, <2>6, <3>1 DEF WakeFine, Alive
  <2> QED
    BY <2>1, <2>2, <2>3, <2>5, <2>7 DEF WakeFine
<1>22. WakeInv'
  BY <1>20, <1>21 DEF WakeInv
<1> QED
  BY <1>16, <1>17, <1>18, <1>19, <1>22 DEF PushInv, TInv, JobsStay

(* What a wake-up has still to try is an address that was issued.          *)
LEMMA TodoFacts ==
    ASSUME PushInv, NEW w \in Wakes, wake[w].at # "none", NEW i \in wake[w].todo
    PROVE  /\ i \in Todo(wake[w].at) /\ i.addr \in Addresses
           /\ life[i.addr] \in Lives /\ life[i.addr] # None
           /\ wake[w].at = "native" => /\ life[i.addr].env \in Environments
                                       /\ i.next = None => life[i.addr].env = i.env
<1>1. WakeOK(wake[w]) /\ WakeFine(w) /\ life \in [Addresses -> Lives \cup {None}]
  BY DEF PushInv, TInv, TablesOK, WakesOK, WakeInv
<1>2. i \in Todo(wake[w].at)
  BY <1>1 DEF WakeOK
<1>3. i.addr \in Addresses
  BY <1>2 DEF Todo
<1>4. life[i.addr] \in Lives /\ life[i.addr] # None
  BY <1>1, <1>3 DEF WakeFine
<1> QED
  BY <1>1, <1>2, <1>3, <1>4 DEF WakeFine, Lives

(* Rows that stay, or one of which goes or learns another environment.     *)
LEMMA RowMoves ==
    ASSUME PushInv, UNCHANGED life, NEW a \in Addresses,
           \/ row' = row
           \/ row' = [row EXCEPT ![a] = None]
           \/ /\ row[a] # None /\ life[a].env # None
              /\ \E r \in Rows : r.user = row[a].user /\ r.env # None /\ row' = [row EXCEPT ![a] = r]
    PROVE  row' \in [Addresses -> Rows \cup {None}] /\ RowsKeep /\ RowsSuit'
<1>1. row \in [Addresses -> Rows \cup {None}] /\ RowsSuit
  BY DEF PushInv, TInv, TablesOK, AddressInv, RowsSuit
<1>2. CASE row' = row \/ row' = [row EXCEPT ![a] = None]
  BY <1>1, <1>2 DEF RowsKeep, RowsSuit
<1>3. CASE /\ row[a] # None /\ life[a].env # None
           /\ \E r \in Rows : r.user = row[a].user /\ r.env # None /\ row' = [row EXCEPT ![a] = r]
  <2>1. PICK r \in Rows : r.user = row[a].user /\ r.env # None /\ row' = [row EXCEPT ![a] = r]
    BY <1>3
  <2> QED
    BY <1>1, <1>3, <2>1, NoneAssumption DEF RowsKeep, RowsSuit
<1> QED
  BY <1>2, <1>3

LEMMA UnreachableInv == ASSUME PushInv, NEW w \in Wakes, NEW i \in wake[w].todo, Unreachable(w, i) PROVE PushInv'
<1>1. PICK rows : rows = row
  OBVIOUS
<1>2. wake[w].at # "none" /\ Leave(w, i, "unreachable", rows) /\ rows = row' /\ UNCHANGED <<row, users, life, device, job>>
  BY <1>1 DEF Unreachable
<1>3. i.addr \in Addresses
  BY <1>2, TodoFacts
<1>4. row' \in [Addresses -> Rows \cup {None}] /\ RowsKeep /\ RowsSuit'
  BY <1>2, <1>3, RowMoves
<1>5. PICK fate \in Fates : fate = "unreachable"
  BY DEF Fates
<1>6. fate \in Reached /\ fate # "refused" /\ Leave(w, i, fate, rows)
  BY <1>2, <1>5 DEF Reached
<1> QED
  BY <1>2, <1>4, <1>6, LeaveInv

LEMMA WakeBrowserInv == ASSUME PushInv, NEW w \in Wakes, NEW i \in wake[w].todo, WakeBrowser(w, i) PROVE PushInv'
<1>1. PICK rows : rows = IF Alive(i.addr) THEN row ELSE [row EXCEPT ![i.addr] = None]
  OBVIOUS
<1>2. PICK fate \in Fates : fate = IF Alive(i.addr) THEN "shown" ELSE "refused"
  BY DEF Fates
<1>3. /\ wake[w].at # "none" /\ UNCHANGED <<users, life, device, job>>
      /\ row' = rows /\ Leave(w, i, fate, rows)
  BY <1>1, <1>2 DEF WakeBrowser, Shown
<1>4. i.addr \in Addresses
  BY <1>3, TodoFacts
<1>5. row' \in [Addresses -> Rows \cup {None}] /\ RowsKeep /\ RowsSuit'
  BY <1>1, <1>3, <1>4, RowMoves
<1>6. (fate = "refused" => ~ Alive(i.addr)) /\ (fate \in Reached \/ ~ Alive(i.addr))
  BY <1>2 DEF Reached
<1> QED
  BY <1>3, <1>5, <1>6, LeaveInv

(* The other environment is tried: the token is of that one.               *)
LEMMA RetryInv ==
    ASSUME PushInv, UNCHANGED <<users, row, life, device, job>>,
           NEW w \in Wakes, wake[w].at = "native", NEW i \in wake[w].todo,
           life[i.addr].env # i.env,
           wake' = [wake EXCEPT ![w].todo = (@ \ {i}) \cup {AfterRefusal(i)}]
    PROVE  PushInv'
<1>1. /\ i \in Todo("native") /\ i.addr \in Addresses /\ life[i.addr] # None
      /\ life[i.addr].env \in Environments /\ i.next # None
  BY TodoFacts
<1>2. PICK n : n = AfterRefusal(i)
  OBVIOUS
<1>3. /\ n = [addr |-> i.addr, env |-> i.next, next |-> None]
      /\ i.env \in Environments /\ i.next = Other(i.env)
  BY <1>1, <1>2 DEF AfterRefusal, Todo
<1>4. n \in Todo("native") /\ n.addr = i.addr /\ n.next = None /\ n.env = life[i.addr].env
  BY <1>1, <1>3 DEF Todo, Other, Environments
<1>5. WakesOK /\ JobsOK
  BY DEF PushInv, TInv
<1>6. PICK k : k = wake[w] /\ WakeOK(k) /\ WakeFine(w)
  BY <1>5 DEF WakesOK, PushInv, WakeInv
<1>7. PICK todo : todo = (k.todo \ {i}) \cup {n}
  OBVIOUS
<1>8. PICK v : v = [k EXCEPT !.todo = todo]
  OBVIOUS
<1>9. wake' = [wake EXCEPT ![w] = v]
  BY <1>2, <1>6, <1>7, <1>8
<1>10. v = [at |-> k.at, user |-> k.user, todo |-> todo, due |-> k.due, fate |-> k.fate]
  BY <1>6, <1>8 DEF WakeOK
<1>11. todo \subseteq Todo("native") /\ k.at = "native"
  BY <1>4, <1>6, <1>7 DEF WakeOK
<1>12. WakeOK(v)
  BY <1>6, <1>10, <1>11 DEF WakeOK
<1>13. DOMAIN wake' = Wakes /\ wake'[w] = v /\ \A u \in Wakes \ {w} : wake'[u] = wake[u]
  BY <1>5, <1>9 DEF WakesOK
<1>14. WakesOK'
  BY <1>5, <1>12, <1>13 DEF WakesOK, WakeOK
<1>15. /\ wake'[w].at = "native" /\ wake'[w].user = wake[w].user /\ wake'[w].fate = wake[w].fate
       /\ wake'[w].due = wake[w].due /\ wake'[w].todo = (wake[w].todo \ {i}) \cup {n}
  BY <1>6, <1>7, <1>10, <1>11, <1>13
<1>16. WakeFine(w)'
  <2>1. ASSUME NEW a \in wake[w].due, Handled(w, a) PROVE Handled(w, a)'
    <3>1. CASE \E x \in wake[w].todo : x.addr = a
      BY <1>4, <1>15, <3>1 DEF Handled
    <3> QED
      BY <1>6, <1>11, <1>15, <2>1, <3>1 DEF Handled
  <2>2. \A a \in wake[w].due : Alive(a)' => Handled(w, a)'
    BY <1>6, <2>1 DEF WakeFine, Alive
  <2>3. \A x \in wake'[w].todo :
            /\ life'[x.addr] # None
            /\ life'[x.addr].env # None /\ (x.next = None => life'[x.addr].env = x.env)
    BY <1>1, <1>4, <1>6, <1>11, <1>15, NoneAssumption DEF WakeFine
  <2> QED
    BY <1>6, <1>15, <2>2, <2>3 DEF WakeFine, Alive
<1>17. ASSUME NEW u \in Wakes \ {w} PROVE WakeFine(u)'
  <2>1. WakeFine(u) /\ wake'[u] = wake[u]
    BY <1>13 DEF PushInv, WakeInv
  <2> QED
    BY <2>1 DEF WakeFine, Handled, Alive
<1>18. WakeInv'
  BY <1>16, <1>17 DEF WakeInv
<1>19. JobsStay /\ row' \in [Addresses -> Rows \cup {None}] /\ RowsSuit'
  BY <1>5, JobsSame DEF PushInv, TInv, TablesOK, AddressInv, RowsSuit
<1>20. AddressInv' /\ DevicesOK'
  BY <1>19, RowsAddress
<1>21. TablesOK'
  BY DEF PushInv, TInv, TablesOK
<1> QED
  BY <1>14, <1>18, <1>19, <1>20, <1>21 DEF PushInv, TInv, JobsStay

LEMMA WakeDeviceInv == ASSUME PushInv, NEW w \in Wakes, NEW i \in wake[w].todo, WakeDevice(w, i) PROVE PushInv'
<1>1. wake[w].at = "native" /\ UNCHANGED <<users, life, device, job>>
  BY DEF WakeDevice
<1>2. /\ i \in Todo("native") /\ i.addr \in Addresses /\ life[i.addr] \in Lives /\ life[i.addr] # None
      /\ life[i.addr].env \in Environments /\ (i.next = None => life[i.addr].env = i.env)
  BY <1>1, TodoFacts
<1>3. i.env \in Environments /\ i.next \in {Other(i.env), None}
  BY <1>2 DEF Todo
<1>4. PICK status : status = Status(i.addr, i.env)
  OBVIOUS
<1>5. PICK r : r = [row[i.addr] EXCEPT !.env = i.env]
  OBVIOUS
<1>6. PICK kept : kept = IF i.next = None /\ row[i.addr] # None THEN [row EXCEPT ![i.addr] = r] ELSE row
  OBVIOUS
<1>7. PICK rows : rows = IF status = 410 THEN [row EXCEPT ![i.addr] = None]
                         ELSE IF status = 200 THEN kept ELSE row
  <2>1. CASE status = 410
    BY <2>1
  <2>2. CASE status # 410 /\ status = 200
    BY <2>2
  <2>3. CASE status # 410 /\ status # 200
    BY <2>3
  <2> QED
    BY <2>1, <2>2, <2>3
<1>8. /\ row' = rows
      /\ IF status = 400 /\ AfterRefusal(i).env # None
         THEN wake' = [wake EXCEPT ![w].todo = (@ \ {i}) \cup {AfterRefusal(i)}]
         ELSE Leave(w, i, IF status = 200 THEN "shown" ELSE "refused", rows)
  BY <1>4, <1>7, <1>5, <1>6 DEF WakeDevice
<1>9. CASE life[i.addr].env # i.env
  <2>1. status = 400
    BY <1>4, <1>9 DEF Status
  <2>2. AfterRefusal(i).env # None
    <3>1. AfterRefusal(i).env = i.next
      BY <1>2 DEF AfterRefusal, Todo
    <3> QED
      BY <1>2, <1>9, <3>1
  <2>3. row' = row /\ wake' = [wake EXCEPT ![w].todo = (@ \ {i}) \cup {AfterRefusal(i)}]
    BY <1>7, <1>8, <2>1, <2>2
  <2> QED
    BY <1>1, <1>9, <2>3, RetryInv
<1>10. CASE life[i.addr].env = i.env
  <2>1. PICK fate \in Fates : fate = IF life[i.addr].alive THEN "shown" ELSE "refused"
    BY DEF Fates
  <2>2. life[i.addr].alive <=> Alive(i.addr)
    BY <1>2 DEF Alive
  <2>3. /\ (fate = "refused" => ~ Alive(i.addr)) /\ (fate \in Reached \/ ~ Alive(i.addr))
    BY <2>1, <2>2 DEF Reached
  <2>4. status = IF life[i.addr].alive THEN 200 ELSE 410
    BY <1>4, <1>10 DEF Status
  <2>5. Leave(w, i, fate, rows)
    <3>1. CASE life[i.addr].alive
      BY <1>8, <2>1, <2>4, <3>1
    <3>2. CASE ~ life[i.addr].alive
      BY <1>8, <2>1, <2>4, <3>2
    <3> QED
      BY <3>1, <3>2
  <2>6. row[i.addr] # None => r \in Rows /\ r.user = row[i.addr].user /\ r.env = i.env /\ i.env # None
    <3>1. row[i.addr] \in Rows \cup {None}
      BY <1>2 DEF PushInv, TInv, TablesOK
    <3> QED
      <4>1. ASSUME row[i.addr] # None PROVE r = [user |-> row[i.addr].user, env |-> i.env]
        BY <1>5, <3>1, <4>1 DEF Rows
      <4> QED
        BY <1>3, <3>1, <4>1, NoneAssumption DEF Rows
  <2>7. row' \in [Addresses -> Rows \cup {None}] /\ RowsKeep /\ RowsSuit'
    <3>1. CASE row[i.addr] = None \/ kept = row
      <4>1. row' = row \/ row' = [row EXCEPT ![i.addr] = None]
        BY <1>6, <1>7, <1>8, <3>1
      <4> QED
        BY <1>1, <1>2, <4>1, RowMoves
    <3>2. CASE row[i.addr] # None /\ kept = [row EXCEPT ![i.addr] = r]
      <4>1. life[i.addr].env # None
        BY <1>2, NoneAssumption
      <4>2. \/ row' = row \/ row' = [row EXCEPT ![i.addr] = None]
            \/ row' = [row EXCEPT ![i.addr] = r]
        BY <1>7, <1>8, <3>2
      <4>3. r \in Rows /\ r.user = row[i.addr].user /\ r.env # None
        BY <1>3, <2>6, <3>2, NoneAssumption
      <4> QED
        BY <1>1, <1>2, <3>2, <4>1, <4>2, <4>3, RowMoves
    <3> QED
      BY <1>6, <3>1, <3>2
  <2> QED
    BY <1>1, <1>8, <2>3, <2>5, <2>7, LeaveInv
<1> QED
  BY <1>9, <1>10

(* A step of one wake-up.                                                  *)
LEMMA WakeStep ==
    ASSUME PushInv, UNCHANGED <<users, row, life, device, job>>,
           NEW w \in Wakes, NEW v, WakeOK(v), wake' = [wake EXCEPT ![w] = v], WakeFine(w)'
    PROVE  PushInv'
<1>1. WakesOK /\ JobsOK
  BY DEF PushInv, TInv
<1>2. DOMAIN wake' = Wakes /\ wake'[w] = v /\ \A u \in Wakes \ {w} : wake'[u] = wake[u]
  BY <1>1 DEF WakesOK
<1>3. WakesOK'
  BY <1>1, <1>2 DEF WakesOK, WakeOK
<1>4. ASSUME NEW u \in Wakes \ {w} PROVE WakeFine(u)'
  <2>1. WakeFine(u) /\ wake'[u] = wake[u]
    BY <1>2 DEF PushInv, WakeInv
  <2> QED
    BY <2>1 DEF WakeFine, Handled, Alive
<1>5. WakeInv'
  BY <1>4 DEF WakeInv
<1>6. JobsStay /\ row' \in [Addresses -> Rows \cup {None}] /\ RowsSuit'
  BY <1>1, JobsSame DEF PushInv, TInv, TablesOK, AddressInv, RowsSuit
<1>7. AddressInv' /\ DevicesOK'
  BY <1>6, RowsAddress
<1>8. TablesOK'
  BY DEF PushInv, TInv, TablesOK
<1> QED
  BY <1>3, <1>5, <1>6, <1>7, <1>8 DEF PushInv, TInv, JobsStay

LEMMA WakeBegins == ASSUME PushInv, NEW w \in Wakes, NEW u \in Users, Wake(w, u) PROVE PushInv'
<1>1. row \in [Addresses -> Rows \cup {None}] /\ RowsSuit
  BY DEF PushInv, TInv, TablesOK, AddressInv, RowsSuit
<1>2. PICK todo, due, fate :
         /\ todo = {[addr |-> a, env |-> None, next |-> None] : a \in RowsOf(u, FALSE)}
         /\ due = {a \in Addresses : row[a] # None /\ row[a].user = u}
         /\ fate = [a \in Addresses |-> "none"]
  OBVIOUS
<1>3. PICK v : v = [at |-> "web", user |-> u, todo |-> todo, due |-> due, fate |-> fate]
  OBVIOUS
<1>4. wake' = [wake EXCEPT ![w] = v] /\ UNCHANGED <<users, row, life, device, job>>
  BY <1>2, <1>3 DEF Wake
<1>5. \A i \in todo : i \in Todo("web") /\ life[i.addr] # None
  BY <1>1, <1>2 DEF Todo, RowsOf, RowsSuit
<1>6. \A a \in due : a \in Addresses /\ row[a] # None /\ row[a].user = u
                     /\ ((\E i \in todo : i.addr = a) \/ row[a].env # None)
  <2>1. ASSUME NEW a \in due, row[a].env = None PROVE \E i \in todo : i.addr = a
    <3>1. a \in RowsOf(u, FALSE)
      BY <1>2, <2>1 DEF RowsOf
    <3>2. [addr |-> a, env |-> None, next |-> None] \in todo
      BY <1>2, <3>1
    <3> QED
      BY <3>2
  <2> QED
    BY <1>2, <2>1
<1>7. fate \in [Addresses -> Fates] /\ \A a \in DOMAIN fate : fate[a] # "refused"
  BY <1>2 DEF Fates
<1>8. WakeOK(v)
  BY <1>3, <1>5, <1>6, <1>7 DEF WakeOK
<1>9. wake'[w] = v
  BY <1>4 DEF PushInv, TInv, WakesOK
<1>10. WakeFine(w)'
  <2>1. /\ wake'[w].at = "web" /\ wake'[w].user = u /\ wake'[w].todo = todo
        /\ wake'[w].due = due /\ wake'[w].fate = fate
    BY <1>3, <1>9
  <2> QED
    BY <1>4, <1>5, <1>6, <1>7, <2>1 DEF WakeFine, Handled
<1> QED
  BY <1>4, <1>8, <1>10, WakeStep

LEMMA ReadDevicesInv == ASSUME PushInv, NEW w \in Wakes, ReadDevices(w) PROVE PushInv'
<1>1. row \in [Addresses -> Rows \cup {None}] /\ RowsSuit
  BY DEF PushInv, TInv, TablesOK, AddressInv, RowsSuit
<1>2. PICK k : k = wake[w] /\ WakeOK(k) /\ WakeFine(w) /\ k.at = "web" /\ k.todo = {}
  BY DEF PushInv, TInv, WakesOK, WakeInv, ReadDevices
<1>3. PICK todo : todo = {[addr |-> a, env |-> row[a].env, next |-> Other(row[a].env)] : a \in RowsOf(k.user, TRUE)}
  OBVIOUS
<1>4. PICK v : v = [k EXCEPT !.at = "native", !.todo = todo]
  OBVIOUS
<1>5. wake' = [wake EXCEPT ![w] = v] /\ UNCHANGED <<users, row, life, device, job>>
  BY <1>2, <1>3, <1>4 DEF ReadDevices
<1>6. v = [at |-> "native", user |-> k.user, todo |-> todo, due |-> k.due, fate |-> k.fate]
  BY <1>2, <1>4 DEF WakeOK
<1>7. ASSUME NEW i \in todo
      PROVE  i \in Todo("native") /\ life[i.addr] # None /\ life[i.addr].env # None /\ i.next # None
  <2>1. PICK a \in RowsOf(k.user, TRUE) : i = [addr |-> a, env |-> row[a].env, next |-> Other(row[a].env)]
    BY <1>3
  <2>2. a \in Addresses /\ row[a] # None /\ row[a].env # None
    BY <2>1 DEF RowsOf
  <2>3. row[a].env \in Environments
    BY <1>1, <2>2 DEF Rows
  <2>4. Other(row[a].env) \in Environments /\ Other(row[a].env) # None
    BY NoneAssumption DEF Other, Environments
  <2>5. life[a] # None /\ life[a].env # None
    BY <1>1, <2>2 DEF RowsSuit
  <2> QED
    BY <2>1, <2>2, <2>3, <2>4, <2>5 DEF Todo
<1>8. WakeOK(v)
  BY <1>2, <1>6, <1>7 DEF WakeOK
<1>9. wake'[w] = v
  BY <1>5 DEF PushInv, TInv, WakesOK
<1>10. WakeFine(w)'
  <2>1. /\ wake'[w].at = "native" /\ wake'[w].user = wake[w].user /\ wake'[w].todo = todo
        /\ wake'[w].due = wake[w].due /\ wake'[w].fate = wake[w].fate
    BY <1>2, <1>6, <1>9
  <2>2. ASSUME NEW a \in wake[w].due, Handled(w, a) PROVE Handled(w, a)'
    <3>1. a \in Addresses /\ row[a] # None /\ row[a].user = k.user
      BY <1>2, <2>2 DEF WakeOK, WakeFine
    <3>2. CASE row[a].env # None
      <4>1. a \in RowsOf(k.user, TRUE)
        BY <3>1, <3>2 DEF RowsOf
      <4>2. [addr |-> a, env |-> row[a].env, next |-> Other(row[a].env)] \in todo
        BY <1>3, <4>1
      <4>3. \E i \in todo : i.addr = a
        BY <4>2
      <4> QED
        BY <2>1, <4>3 DEF Handled
    <3> QED
      BY <1>2, <2>1, <2>2, <3>2 DEF Handled
  <2> QED
    BY <1>2, <1>5, <1>7, <2>1, <2>2 DEF WakeFine, Alive
<1> QED
  BY <1>5, <1>8, <1>10, WakeStep

LEMMA WakeEndsInv == ASSUME PushInv, NEW w \in Wakes, WakeEnds(w) PROVE PushInv'
<1>1. wake' = [wake EXCEPT ![w] = NoWake] /\ UNCHANGED <<users, row, life, device, job>>
  BY DEF WakeEnds
<1>2. PICK v : v = NoWake
  OBVIOUS
<1>3. WakeOK(v) /\ v.todo = {} /\ v.due = {} /\ DOMAIN v.fate = {}
  BY <1>2 DEF NoWake, WakeOK
<1>4. wake'[w] = v
  BY <1>1, <1>2 DEF PushInv, TInv, WakesOK
<1>5. WakeFine(w)'
  BY <1>3, <1>4 DEF WakeFine
<1> QED
  BY <1>1, <1>2, <1>3, <1>5, WakeStep

-----------------------------------------------------------------------------
LEMMA PushInitInv == ASSUME Init PROVE PushInv
<1>1. TablesOK
  BY DEF Init, TablesOK
<1>2. DevicesOK
  BY DEF Init, DevicesOK, DeviceOK
<1>3. JobsOK
  <2>1. JobOK(NoJob) /\ NoJob.addr = None
    BY DEF JobOK, NoJob
  <2>2. \A d \in Devices : job[d] = [t \in Threads |-> NoJob]
    BY DEF Init
  <2>3. DOMAIN job = Devices
    BY DEF Init
  <2> QED
    BY <2>1, <2>2, <2>3 DEF JobsOK
<1>4. DOMAIN wake = Wakes /\ \A w \in Wakes : wake[w] = NoWake
  BY DEF Init
<1>5. PICK v : v = NoWake
  OBVIOUS
<1>6. WakeOK(v) /\ v.todo = {} /\ v.due = {} /\ DOMAIN v.fate = {}
  BY <1>5 DEF NoWake, WakeOK
<1>7. WakesOK /\ WakeInv
  BY <1>4, <1>5, <1>6 DEF WakesOK, WakeInv, WakeFine
<1>8. AddressInv
  <2>1. \A d \in Devices : device[d].addr = None /\ \A t \in Threads : job[d][t].addr = None
    BY DEF Init, NoJob
  <2>2. \A a \in Addresses : row[a] = None
    BY DEF Init
  <2> QED
    BY <2>1, <2>2, NoneAssumption DEF AddressInv
<1> QED
  BY <1>1, <1>2, <1>3, <1>7, <1>8 DEF PushInv, TInv

LEMMA StepInv == ASSUME PushInv, [Next]_vars PROVE PushInv'
<1>1. CASE UNCHANGED vars
  <2>1. JobsOK
    BY DEF PushInv, TInv
  <2>2. UNCHANGED <<users, row, life, device, job, wake>> /\ JobsStay
    BY <1>1, <2>1, JobsSame DEF vars
  <2>3. TInv'
    BY <2>2 DEF PushInv, TInv, TablesOK, DevicesOK, JobsStay, WakesOK
  <2>4. AddressInv'
    BY <2>2 DEF PushInv, AddressInv, Suits, Exclusive, Native, Alive
  <2>5. WakeInv'
    BY <2>2 DEF PushInv, WakeInv, WakeFine, Handled, Alive
  <2> QED
    BY <2>3, <2>4, <2>5 DEF PushInv
<1>2. ASSUME NEW d \in Devices,
             \/ OpenSettings(d) \/ Toggle(d) \/ TurnedOn(d) \/ Reconciled(d)
             \/ Start(d) \/ Resume(d) \/ Background(d) \/ Permit(d)
             \/ (\E t \in Threads : Refuse(d, t) \/ Break(d, t) \/ AskPermission(d, t) \/ NoAddress(d, t))
             \/ (\E u \in Users \cup {None} : Sign(d, u))
      PROVE  PushInv'
  BY <1>2, QuietInv
<1>3. ASSUME NEW d \in Devices, TurnedOff(d) \/ Expire(d) PROVE PushInv'
  BY <1>3, TurnedOffInv, ExpireInv
<1>4. ASSUME NEW d \in Devices, NEW t \in Threads, Serve(d, t) \/ Address(d, t) PROVE PushInv'
  BY <1>4, ServeInv, AddressStep
<1>5. ASSUME NEW u \in Users, DeleteAccount(u) PROVE PushInv'
  BY <1>5, DeleteInv
<1>6. ASSUME NEW w \in Wakes, NEW u \in Users, Wake(w, u) PROVE PushInv'
  BY <1>6, WakeBegins
<1>7. ASSUME NEW w \in Wakes, ReadDevices(w) \/ WakeEnds(w) PROVE PushInv'
  BY <1>7, ReadDevicesInv, WakeEndsInv
<1>8. ASSUME NEW w \in Wakes, NEW i \in wake[w].todo, Unreachable(w, i) \/ WakeBrowser(w, i) \/ WakeDevice(w, i)
      PROVE  PushInv'
  BY <1>8, UnreachableInv, WakeBrowserInv, WakeDeviceInv
<1> QED
  BY <1>1, <1>2, <1>3, <1>4, <1>5, <1>6, <1>7, <1>8 DEF Next

(* The invariant holds of every reachable state.                           *)
THEOREM PushInvHolds == Spec => []PushInv
<1>1. Init => PushInv
  BY PushInitInv
<1>2. PushInv /\ [Next]_vars => PushInv'
  BY StepInv
<1> QED
  BY <1>1, <1>2, PTL DEF Spec

(* The tables, the addresses and the wake-ups have their types, whatever   *)
(* the devices, the accounts and the situations (worker/push.ts).          *)
THEOREM PushTypeCorrect == Spec => []PushTypeOK
<1>1. PushInv => PushTypeOK
  BY DEF PushInv, TInv, TablesOK, DevicesOK, DeviceOK, WakesOK, WakeOK, PushTypeOK, Rows
<1> QED
  BY <1>1, PushInvHolds, PTL

(* Whoever is registered when an envelope is queued is woken, in either    *)
(* environment and whatever is registered, pruned or corrected meanwhile   *)
(* (push.ts:198-279).                                                      *)
THEOREM WokenHolds == Spec => []LiveIsWoken
<1>1. ASSUME PushInv, NEW w \in Wakes
      PROVE  /\ \A a \in DOMAIN wake[w].fate : wake[w].fate[a] = "refused" => ~ Alive(a)
             /\ wake[w].at = "native" /\ wake[w].todo = {} =>
                   \A a \in wake[w].due : Alive(a) => wake[w].fate[a] \in {"shown", "unreachable"}
  BY <1>1 DEF PushInv, WakeInv, WakeFine, Handled, Reached
<1>2. PushInv => LiveIsWoken
  BY <1>1 DEF LiveIsWoken
<1> QED
  BY <1>2, PushInvHolds, PTL

-----------------------------------------------------------------------------
(* How a row is lost.                                                      *)

\* One step, for one address.
Lost(a) == row[a] # None /\ (row'[a] = None \/ row'[a].user # row[a].user)
Excused(a) == row'[a] = None /\ (~ Alive(a) \/ row[a].user \notin users' \/ Asked(a))

LEMMA ServeKeeps ==
    ASSUME PushInv, NEW d \in Devices, NEW t \in Threads, Serve(d, t), NEW a \in Addresses, Lost(a)
    PROVE  Excused(a)
<1>1. /\ JobOK(job[d][t]) /\ row \in [Addresses -> Rows \cup {None}] /\ users \subseteq Users
      /\ job[d][t].at = "posted" /\ job[d][t].user \in users
  BY DEF PushInv, TInv, JobsOK, TablesOK, Serve
<1>2. PICK b \in Addresses, u \in Users : b = job[d][t].addr /\ u = job[d][t].user
  BY <1>1 DEF JobOK
<1>3. row' = IF job[d][t].op = "off" THEN Unsubscribed(u, b) ELSE Subscribed(d, u, b)
  BY <1>2 DEF Serve
<1>4. CASE job[d][t].op = "off"
  <2>1. row[b] # None /\ row[b].user = u /\ row' = [row EXCEPT ![b] = None] /\ a = b
    BY <1>1, <1>3, <1>4 DEF Unsubscribed, Lost
  <2>2. Asked(a)
    BY <1>1, <1>2, <1>4, <2>1 DEF Asked
  <2> QED
    BY <1>1, <2>1, <2>2 DEF Excused
<1>5. CASE job[d][t].op # "off"
  <2>1. PICK r : r = [user |-> u, env |-> FirstEnvironment(d)]
    OBVIOUS
  <2>2. r \in Rows /\ r.user = u /\ r # None
    BY <2>1, NoneAssumption DEF Rows, FirstEnvironment, Environments
  <2>3. row' = row \/ ((row[b] = None \/ row[b].user = u) /\ row' = [row EXCEPT ![b] = r])
    BY <1>3, <1>5, <2>1 DEF Subscribed
  <2> QED
    BY <1>1, <2>2, <2>3 DEF Lost
<1> QED
  BY <1>4, <1>5

LEMMA WakeKeeps ==
    ASSUME PushInv, NEW w \in Wakes, NEW i \in wake[w].todo, WakeBrowser(w, i) \/ WakeDevice(w, i),
           NEW a \in Addresses, Lost(a)
    PROVE  Excused(a)
<1>1. row \in [Addresses -> Rows \cup {None}]
  BY DEF PushInv, TInv, TablesOK
<1>2. wake[w].at # "none"
  BY DEF WakeBrowser, WakeDevice
<1>3. i.addr \in Addresses /\ life[i.addr] # None
  BY <1>2, TodoFacts
<1>4. CASE WakeBrowser(w, i)
  <2>1. row' = row \/ (~ Alive(i.addr) /\ row' = [row EXCEPT ![i.addr] = None])
    BY <1>4 DEF WakeBrowser
  <2> QED
    BY <1>1, <1>3, <2>1 DEF Lost, Excused
<1>5. CASE WakeDevice(w, i)
  <2>1. PICK status : status = Status(i.addr, i.env)
    OBVIOUS
  <2>2. PICK r : r = [row[i.addr] EXCEPT !.env = i.env]
    OBVIOUS
  <2>3. \/ row' = row
        \/ status = 410 /\ row' = [row EXCEPT ![i.addr] = None]
        \/ row[i.addr] # None /\ i.next = None /\ row' = [row EXCEPT ![i.addr] = r]
    BY <1>5, <2>1, <2>2 DEF WakeDevice
  <2>4. CASE status = 410 /\ row' = [row EXCEPT ![i.addr] = None]
    <3>1. ~ Alive(i.addr)
      BY <2>1, <2>4 DEF Status, Alive
    <3> QED
      BY <1>1, <1>3, <2>4, <3>1 DEF Lost, Excused
  <2>5. CASE row[i.addr] # None /\ row' = [row EXCEPT ![i.addr] = r]
    <3>1. row[i.addr] \in Rows
      BY <1>1, <1>3, <2>5
    <3>2. r = [user |-> row[i.addr].user, env |-> i.env]
      BY <2>2, <3>1 DEF Rows
    <3>3. i.env \in Environments \cup {None}
      BY <1>2, TodoFacts DEF Todo
    <3>4. r \in Rows /\ r # None /\ r.user = row[i.addr].user
      BY <3>1, <3>2, <3>3, NoneAssumption DEF Rows
    <3> QED
      BY <1>1, <1>3, <2>5, <3>4 DEF Lost
  <2> QED
    BY <2>3, <2>4, <2>5 DEF Lost
<1> QED
  BY <1>4, <1>5

LEMMA LossStep == ASSUME PushInv, Next, NEW a \in Addresses, Lost(a) PROVE Excused(a)
<1>1. row' # row
  BY DEF Lost
<1>2. CASE \E d \in Devices, t \in Threads : Serve(d, t)
  BY <1>2, ServeKeeps
<1>3. CASE \E w \in Wakes : \E i \in wake[w].todo : WakeBrowser(w, i) \/ WakeDevice(w, i)
  BY <1>3, WakeKeeps
<1>4. CASE \E u \in Users : DeleteAccount(u)
  <2>1. PICK u \in Users : DeleteAccount(u)
    BY <1>4
  <2>2. /\ row' = [b \in Addresses |-> IF row[b] # None /\ row[b].user = u THEN None ELSE row[b]]
        /\ users' = users \ {u}
    BY <2>1 DEF DeleteAccount
  <2> QED
    BY <2>2 DEF Lost, Excused
<1>5. ~ \E d \in Devices : \/ OpenSettings(d) \/ Toggle(d) \/ TurnedOn(d) \/ TurnedOff(d) \/ Reconciled(d)
                           \/ Start(d) \/ Resume(d) \/ Background(d) \/ Permit(d) \/ Expire(d)
  BY <1>1 DEF OpenSettings, Toggle, TurnedOn, TurnedOff, Reconciled, Start, Resume, Background, Permit, Expire
<1>6. ~ \E d \in Devices, t \in Threads : \/ Refuse(d, t) \/ Break(d, t)
                                         \/ AskPermission(d, t) \/ Address(d, t) \/ NoAddress(d, t)
  BY <1>1 DEF Refuse, Break, AskPermission, Address, NoAddress
<1>7. /\ ~ \E d \in Devices, u \in Users \cup {None} : Sign(d, u)
      /\ ~ \E w \in Wakes, u \in Users : Wake(w, u)
      /\ ~ \E w \in Wakes : ReadDevices(w) \/ WakeEnds(w)
      /\ ~ \E w \in Wakes : \E i \in wake[w].todo : Unreachable(w, i)
  BY <1>1 DEF Sign, Wake, ReadDevices, WakeEnds, Unreachable
<1> QED
  BY <1>2, <1>3, <1>4, <1>5, <1>6, <1>7 DEF Next

(* A row is lost only to its owner's request, with its owner's account, or *)
(* when the push service disowned the address, and it never changes hands  *)
(* (push.ts:213, 253, 293-300, 310, 350).                                  *)
THEOREM KeptHolds == Spec => LiveIsKept
<1> DEFINE Step == \A a \in Addresses :
                      row[a] # None /\ (row'[a] = None \/ row'[a].user # row[a].user) =>
                          /\ row'[a] = None
                          /\ ~ Alive(a) \/ row[a].user \notin users' \/ Asked(a)
<1>1. PushInv /\ [Next]_vars => [Step]_vars
  <2>1. ASSUME PushInv, Next PROVE Step
    BY <2>1, LossStep DEF Lost, Excused
  <2> QED
    BY <2>1
<1>2. [][Step]_vars => LiveIsKept
  BY DEF LiveIsKept
<1> QED
  BY <1>1, <1>2, PushInvHolds, PTL DEF Spec
=============================================================================
