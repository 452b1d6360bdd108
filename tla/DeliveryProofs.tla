--------------------------- MODULE DeliveryProofs ---------------------------
(***************************************************************************)
(* Theorems about Mailbox and about Delivery, which extends it, for any    *)
(* senders, ids, sockets, bounds and cases: first what the mailbox does by *)
(* itself, then what the client makes of what it is sent.                  *)
(***************************************************************************)
EXTENDS Delivery, FiniteSetTheorems, SequenceTheorems, TLAPS

-----------------------------------------------------------------------------
(* Lemmas about the operators of Mailbox.                                  *)

(* The values of a function on a finite set are finitely many, and no more *)
(* than its arguments.                                                     *)
LEMMA ValuesFinite ==
    ASSUME NEW S, IsFiniteSet(S), NEW f, DOMAIN f = S,
           f = [x \in S |-> f[x]]
    PROVE  /\ IsFiniteSet({f[x] : x \in S})
           /\ Cardinality({f[x] : x \in S}) <= Cardinality(S)
<1> DEFINE T == {f[x] : x \in S}
<1>1. f \in Surjection(S, T)
  BY DEF Surjection
<1> QED
  BY <1>1, FS_Surjection

(* Taking an element out of a sequence (the filter of handleRegisterToken) *)
(* leaves a sequence of the same elements.                                 *)
LEMMA WithoutType ==
    ASSUME NEW S, NEW seq \in Seq(S), NEW x
    PROVE  Without(seq, x) \in Seq(S)
<1>1. CASE \E i \in DOMAIN seq : seq[i] = x
  <2> DEFINE i == CHOOSE i \in DOMAIN seq : seq[i] = x
  <2>1. i \in 1 .. Len(seq)
    BY <1>1, LenProperties
  <2>2. SubSeq(seq, 1, i - 1) \in Seq(S)
    <3>1. \A k \in 1 .. i - 1 : seq[k] \in S
      BY <2>1, ElementOfSeq, LenProperties
    <3> QED
      BY <2>1, <3>1, LenProperties, SubSeqProperties
  <2>3. SubSeq(seq, i + 1, Len(seq)) \in Seq(S)
    <3>1. \A k \in i + 1 .. Len(seq) : seq[k] \in S
      BY <2>1, ElementOfSeq, LenProperties
    <3> QED
      BY <2>1, <3>1, LenProperties, SubSeqProperties
  <2> QED
    BY <1>1, <2>2, <2>3, ConcatProperties DEF Without
<1>2. CASE ~ \E i \in DOMAIN seq : seq[i] = x
  BY <1>2 DEF Without
<1> QED
  BY <1>1, <1>2

(* A put adds at most one envelope to the queue (storage.put).             *)
LEMMA StoreType ==
    ASSUME TypeOK, NEW e \in Entry, Store(e)
    PROVE  /\ queue' \subseteq Entry
           /\ IsFiniteSet(queue')
           /\ alarm' = TRUE
           /\ Cardinality(queue') <= Cardinality(queue) + 1
<1> DEFINE kept == {x \in queue : FrameOf(x) # FrameOf(e)}
<1>1. IsFiniteSet(kept) /\ Cardinality(kept) <= Cardinality(queue)
  BY FS_Subset DEF TypeOK
<1> HIDE DEF kept
<1>2. /\ IsFiniteSet(kept \cup {e})
      /\ Cardinality(kept \cup {e}) = IF e \in kept THEN Cardinality(kept) ELSE Cardinality(kept) + 1
  BY <1>1, FS_AddElement
<1>3. Cardinality(queue) \in Nat /\ Cardinality(kept) \in Nat
  BY <1>1, FS_CardinalityType DEF TypeOK
<1>4. queue' = kept \cup {e} /\ alarm' = TRUE
  BY DEF Store, kept
<1>5. Cardinality(kept \cup {e}) <= Cardinality(queue) + 1
  BY <1>1, <1>2, <1>3
<1>6. queue' \subseteq Entry
  BY <1>4 DEF TypeOK, kept
<1> QED
  BY <1>2, <1>4, <1>5, <1>6

(* A listing of the queue is a sequence of frames (flushQueued).           *)
LEMMA ListingType ==
    ASSUME TypeOK, NEW l \in Listings(queue)
    PROVE  /\ l \in Seq(Frame)
           /\ DOMAIN l = 1 .. Cardinality(queue)
           /\ \A i \in DOMAIN l : \E e \in queue : l[i] = FrameOf(e)
<1>1. Cardinality(queue) \in Nat
  BY FS_CardinalityType DEF TypeOK
<1>2. l \in [1 .. Cardinality(queue) -> {FrameOf(e) : e \in queue}]
  BY DEF Listings
<1>3. \A e \in queue : FrameOf(e) \in Frame
  BY DEF TypeOK, Entry, Frame, FrameOf
<1>4. l \in [1 .. Cardinality(queue) -> Frame]
  BY <1>2, <1>3
<1> QED
  BY <1>1, <1>2, <1>4

(* What is sent live is appended to the wire of every live socket.         *)
LEMMA SendLiveType ==
    ASSUME TypeOK, NEW frame \in Frame, SendLive(frame)
    PROVE  wire' \in [Socks -> Seq(Frame)]
BY AppendProperties DEF TypeOK, SendLive

-----------------------------------------------------------------------------
(* The type invariant.                                                     *)

\* The object starts well typed.
LEMMA InitType == ASSUME MailboxAssumption, Init PROVE TypeOK
BY FS_EmptySet, EmptySeq DEF Init, TypeOK

\* Every step keeps the state well typed.
LEMMA NextType == ASSUME MailboxAssumption, TypeOK, [Next]_vars PROVE TypeOK'
<1> USE DEF TypeOK
<1>1. ASSUME NEW f \in Senders, NEW id \in Ids \ Receipts, Deliver(f, id)
      PROVE  TypeOK'
  <2> DEFINE e == [from |-> f, seq |-> sendSeq[f], id |-> id, age |-> 0]
             frame == [from |-> f, seq |-> sendSeq[f], id |-> id]
  <2>1. e \in Entry /\ frame \in Frame
    BY MailboxAssumption DEF Entry, Frame, Segments, Ages, MailboxAssumption
  <2>2. /\ sendSeq' \in [Senders -> Nat]
        /\ submitted' \subseteq Ids \X ({"ws"} \cup Relays)
        /\ UNCHANGED <<sealTokens, recvSeq, sockets, alive, uplink, seen>>
    BY <1>1 DEF Deliver
  <2>3. CASE SendLive(frame) /\ UNCHANGED <<queue, alarm>>
    BY <2>1, <2>2, <2>3, SendLiveType
  <2>4. CASE Store(e) /\ UNCHANGED wire
    BY <2>1, <2>2, <2>4, StoreType
  <2>5. CASE UNCHANGED <<queue, alarm, wire>>
    BY <2>2, <2>5
  <2> QED
    BY <1>1, <2>3, <2>4, <2>5 DEF Deliver
<1>2. ASSUME NEW t \in Tokens, NEW id \in Ids, NEW age \in SealedAges \cap Ages,
             NEW r \in Relays, SealedDeliver(t, id, age, r)
      PROVE  TypeOK'
  <2> DEFINE e == [from |-> Anon, seq |-> recvSeq, id |-> id, age |-> age]
             frame == [from |-> Anon, seq |-> 0, id |-> id]
  <2>1. e \in Entry /\ frame \in Frame
    BY DEF Entry, Frame, Segments
  <2>2. /\ submitted' \subseteq Ids \X ({"ws"} \cup Relays)
        /\ UNCHANGED <<sealTokens, sockets, alive, uplink, sendSeq, seen>>
    BY <1>2 DEF SealedDeliver
  <2>3. CASE SendLive(frame) /\ UNCHANGED <<queue, alarm, recvSeq>>
    BY <2>1, <2>2, <2>3, SendLiveType
  <2>4. CASE recvSeq' = recvSeq + 1 /\ Store(e) /\ UNCHANGED wire
    <3>1. queue' \subseteq Entry /\ IsFiniteSet(queue') /\ alarm' \in BOOLEAN
      BY <2>1, <2>4, StoreType
    <3>2. recvSeq' \in Nat
      BY <2>4
    <3> QED
      BY <2>2, <2>4, <3>1, <3>2
  <2>5. CASE UNCHANGED <<queue, alarm, recvSeq, wire>>
    BY <2>2, <2>5
  <2> QED
    BY <1>2, <2>3, <2>4, <2>5 DEF SealedDeliver
<1>3. ASSUME NEW t \in Tokens, RegisterToken(t)
      PROVE  TypeOK'
  <2> DEFINE next == <<t>> \o Without(sealTokens, t)
  <2>1. next \in Seq(Tokens)
    BY WithoutType, ConcatProperties
  <2>2. SubSeq(next, 1, MaxTokens) \in Seq(Tokens) \/ ~ Len(next) > MaxTokens
    <3>1. CASE Len(next) > MaxTokens
      <4>1. MaxTokens \in Nat
        BY MailboxAssumption DEF MailboxAssumption
      <4>2. \A k \in 1 .. MaxTokens : next[k] \in Tokens
        BY <2>1, <3>1, <4>1, ElementOfSeq, LenProperties
      <4> QED
        BY <4>1, <4>2, SubSeqProperties
    <3> QED
      BY <3>1
  <2>3. sealTokens' \in Seq(Tokens)
    BY <1>3, <2>1, <2>2 DEF RegisterToken
  <2> QED
    BY <1>3, <2>3 DEF RegisterToken, links
<1>4. ASSUME NEW s \in Socks, Connect(s)
      PROVE  TypeOK'
  <2>1. wire' \in [Socks -> Seq(Frame)]
    BY <1>4, ListingType DEF Connect
  <2> QED
    BY <1>4, <2>1, EmptySeq DEF Connect, storage
<1>5. ASSUME NEW s \in Socks, LinkDown(s)
      PROVE  TypeOK'
  BY <1>5, EmptySeq DEF LinkDown, storage
<1>6. ASSUME NEW s \in Socks, SocketClosed(s)
      PROVE  TypeOK'
  BY <1>6 DEF SocketClosed, storage
<1>7. ASSUME NEW s \in Socks, HandleAck(s)
      PROVE  TypeOK'
  <2>1. queue' \subseteq queue
    BY <1>7 DEF HandleAck
  <2>2. queue' \subseteq Entry /\ IsFiniteSet(queue')
    BY <2>1, FS_Subset
  <2>3. uplink' \in [Socks -> Seq(Ids)]
    BY <1>7, HeadTailProperties DEF HandleAck
  <2> QED
    BY <1>7, <2>2, <2>3 DEF HandleAck
<1>8. ASSUME Alarm
      PROVE  TypeOK'
  <2>1. queue' \subseteq queue /\ alarm' \in BOOLEAN
    BY <1>8 DEF Alarm
  <2>2. queue' \subseteq Entry /\ IsFiniteSet(queue')
    BY <2>1, FS_Subset
  <2> QED
    BY <1>8, <2>1, <2>2 DEF Alarm, links
<1>9. ASSUME Purge
      PROVE  TypeOK'
  BY <1>9, FS_EmptySet, EmptySeq DEF Purge
<1>10. ASSUME Tick
       PROVE  TypeOK'
  <2> DEFINE Older(e) == [e EXCEPT !.age = IF @ > TTL THEN @ ELSE @ + 1]
             f == [e \in queue |-> Older(e)]
  <2>1. queue' = {f[e] : e \in queue}
    BY <1>10 DEF Tick
  <2>2. IsFiniteSet(queue')
    <3>1. f = [e \in queue |-> f[e]] /\ DOMAIN f = queue
      OBVIOUS
    <3> HIDE DEF f
    <3> QED
      BY <2>1, <3>1, ValuesFinite
  <2>3. TTL \in Nat
    BY MailboxAssumption DEF MailboxAssumption
  <2>4. \A e \in queue : f[e] \in Entry
    <3>1. SUFFICES ASSUME NEW e \in queue PROVE Older(e) \in Entry
      OBVIOUS
    <3>2. e \in Entry /\ e.age \in Ages
      BY DEF Entry
    <3>3. e.age > TTL \/ e.age + 1 \in Ages
      BY <2>3, <3>2 DEF Ages
    <3> QED
      BY <2>3, <3>2, <3>3 DEF Entry
  <2>5. queue' \subseteq Entry
    BY <2>1, <2>4
  <2> QED
    BY <1>10, <2>2, <2>5 DEF Tick, links
<1>11. ASSUME NEW s \in Socks, DeviceRead(s)
       PROVE  TypeOK'
  <2>1. Head(wire[s]) \in Frame /\ Tail(wire[s]) \in Seq(Frame)
    BY <1>11, HeadTailProperties DEF DeviceRead
  <2>2. Head(wire[s]).id \in Ids
    BY <2>1 DEF Frame
  <2> QED
    BY <1>11, <2>1, <2>2 DEF DeviceRead, storage
<1>12. ASSUME NEW s \in Socks, NEW id \in Ids, DeviceAck(s, id)
       PROVE  TypeOK'
  BY <1>12, AppendProperties DEF DeviceAck, storage
<1>13. CASE UNCHANGED vars
  BY <1>13 DEF vars
<1> QED
  BY <1>1, <1>2, <1>3, <1>4, <1>5, <1>6, <1>7, <1>8, <1>9, <1>10, <1>11, <1>12, <1>13
  DEF Next, Server, Device

(* Every reachable state of the object and its sockets is well typed; in   *)
(* particular the queue stays finite.                                      *)
THEOREM TypeCorrect == Spec => []TypeOK
<1>1. Init => TypeOK
  BY InitType, MailboxAssumption
<1>2. TypeOK /\ [Next]_vars => TypeOK'
  BY NextType, MailboxAssumption
<1> QED
  BY <1>1, <1>2, PTL DEF Spec

-----------------------------------------------------------------------------
(* The queue's cap and its alarm.                                          *)

(* One sweep interval ages the envelopes of the queue and adds none.       *)
LEMMA TickCount ==
    ASSUME TypeOK, Tick
    PROVE  IsFiniteSet(queue') /\ Cardinality(queue') <= Cardinality(queue)
<1> DEFINE f == [e \in queue |-> [e EXCEPT !.age = IF @ > TTL THEN @ ELSE @ + 1]]
<1>1. queue' = {f[e] : e \in queue}
  BY DEF Tick
<1>2. f = [e \in queue |-> f[e]] /\ DOMAIN f = queue
  OBVIOUS
<1>3. IsFiniteSet(queue)
  BY DEF TypeOK
<1> HIDE DEF f
<1> QED
  BY <1>1, <1>2, <1>3, ValuesFinite

(* No step takes the queue past its cap: the two that store check it first.*)
LEMMA CapStep ==
    ASSUME MailboxAssumption, TypeOK, QueueWithinCap, [Next]_vars
    PROVE  QueueWithinCap'
<1> DEFINE n == Cardinality(queue)
<1>1. n \in Nat /\ MaxQueued \in Nat
  BY FS_CardinalityType DEF TypeOK, MailboxAssumption
<1>2. ASSUME NEW e \in Entry, CanQueue(e.id), Store(e)
      PROVE  QueueWithinCap'
  <2>1. IsFiniteSet(queue') /\ Cardinality(queue') <= n + 1
    BY <1>2, StoreType
  <2>2. Cardinality(queue') \in Nat
    BY <2>1, FS_CardinalityType
  <2>3. n < MaxQueued
    BY <1>2 DEF CanQueue
  <2> QED
    BY <1>1, <2>1, <2>2, <2>3 DEF QueueWithinCap
<1>3. ASSUME queue' \subseteq queue
      PROVE  QueueWithinCap'
  <2>1. IsFiniteSet(queue') /\ Cardinality(queue') <= n
    BY <1>3, FS_Subset DEF TypeOK
  <2>2. Cardinality(queue') \in Nat
    BY <2>1, FS_CardinalityType
  <2> QED
    BY <1>1, <2>1, <2>2 DEF QueueWithinCap
<1>4. ASSUME NEW f \in Senders, NEW id \in Ids \ Receipts, Deliver(f, id)
      PROVE  QueueWithinCap'
  <2> DEFINE e == [from |-> f, seq |-> sendSeq[f], id |-> id, age |-> 0]
  <2>1. e \in Entry /\ e.id = id
    BY DEF Entry, Segments, Ages, MailboxAssumption, TypeOK
  <2>2. queue' = queue \/ (CanQueue(id) /\ Store(e))
    BY <1>4 DEF Deliver
  <2> QED
    BY <1>2, <1>3, <2>1, <2>2
<1>5. ASSUME NEW t \in Tokens, NEW id \in Ids, NEW age \in SealedAges \cap Ages,
             NEW r \in Relays, SealedDeliver(t, id, age, r)
      PROVE  QueueWithinCap'
  <2> DEFINE e == [from |-> Anon, seq |-> recvSeq, id |-> id, age |-> age]
  <2>1. e \in Entry /\ e.id = id
    BY DEF Entry, Segments, TypeOK
  <2>2. queue' = queue \/ (CanQueue(id) /\ Store(e))
    BY <1>5 DEF SealedDeliver
  <2> QED
    BY <1>2, <1>3, <2>1, <2>2
<1>6. ASSUME NEW s \in Socks, Connect(s) \/ LinkDown(s) \/ SocketClosed(s) \/ HandleAck(s)
      PROVE  queue' \subseteq queue
  BY <1>6 DEF Connect, LinkDown, SocketClosed, HandleAck, storage
<1>7. ASSUME Alarm \/ Purge \/ \E t \in Tokens : RegisterToken(t)
      PROVE  queue' \subseteq queue
  BY <1>7 DEF Alarm, Purge, RegisterToken
<1>8. ASSUME Tick
      PROVE  QueueWithinCap'
  <2>1. IsFiniteSet(queue') /\ Cardinality(queue') <= n
    BY <1>8, TickCount
  <2>2. Cardinality(queue') \in Nat
    BY <2>1, FS_CardinalityType
  <2> QED
    BY <1>1, <2>1, <2>2 DEF QueueWithinCap
<1>9. ASSUME Device \/ UNCHANGED vars
      PROVE  queue' \subseteq queue
  BY <1>9 DEF Device, DeviceRead, DeviceAck, vars, storage
<1> QED
  BY <1>3, <1>4, <1>5, <1>6, <1>7, <1>8, <1>9 DEF Next, Server

(* However mail arrives and whatever else the object does, it never stores *)
(* more than MAX_QUEUED_ENVELOPES envelopes (canQueue).                    *)
THEOREM CapHolds == Spec => []QueueWithinCap
<1>1. Init => QueueWithinCap
  BY MailboxAssumption, FS_EmptySet DEF Init, QueueWithinCap, MailboxAssumption
<1>2. TypeOK /\ QueueWithinCap /\ [Next]_vars => QueueWithinCap'
  BY CapStep, MailboxAssumption
<1> QED
  BY <1>1, <1>2, TypeCorrect, PTL DEF Spec

(* Only the sweep clears the alarm while it may leave mail behind, and it  *)
(* sets it again if it does.                                               *)
LEMMA AlarmStep ==
    ASSUME AlarmCoversQueue, [Next]_vars
    PROVE  AlarmCoversQueue'
<1> USE DEF AlarmCoversQueue
<1>1. ASSUME NEW f \in Senders, NEW id \in Ids \ Receipts, Deliver(f, id)
      PROVE  AlarmCoversQueue'
  BY <1>1 DEF Deliver, Store
<1>2. ASSUME NEW t \in Tokens, NEW id \in Ids, NEW age \in SealedAges \cap Ages,
             NEW r \in Relays, SealedDeliver(t, id, age, r)
      PROVE  AlarmCoversQueue'
  BY <1>2 DEF SealedDeliver, Store
<1>3. ASSUME NEW s \in Socks, Connect(s) \/ LinkDown(s) \/ SocketClosed(s) \/ HandleAck(s)
      PROVE  AlarmCoversQueue'
  BY <1>3 DEF Connect, LinkDown, SocketClosed, HandleAck, storage
<1>4. ASSUME Alarm \/ Purge \/ Tick \/ \E t \in Tokens : RegisterToken(t)
      PROVE  AlarmCoversQueue'
  BY <1>4 DEF Alarm, Purge, Tick, RegisterToken
<1>5. ASSUME Device \/ UNCHANGED vars
      PROVE  AlarmCoversQueue'
  BY <1>5 DEF Device, DeviceRead, DeviceAck, vars, storage
<1> QED
  BY <1>1, <1>2, <1>3, <1>4, <1>5 DEF Next, Server

(* Whenever an envelope is stored the TTL alarm is set: no interleaving of *)
(* deliveries, acks, sweeps and purges leaves mail nobody will ever sweep. *)
THEOREM AlarmHolds == Spec => []AlarmCoversQueue
<1>1. Init => AlarmCoversQueue
  BY DEF Init, AlarmCoversQueue
<1>2. AlarmCoversQueue /\ [Next]_vars => AlarmCoversQueue'
  BY AlarmStep
<1> QED
  BY <1>1, <1>2, PTL DEF Spec

-----------------------------------------------------------------------------
(* Order on the wire.  It is not inductive by itself: what Connect flushes *)
(* is in order because no two envelopes of the queue share a key, and what *)
(* is sent live behind it carries a seq that nothing before it has.        *)

KeysUnique ==
    \A x, y \in queue : (x.from = y.from /\ x.seq = y.seq) => x = y

QueueBelow ==
    \A e \in queue : IF e.from = Anon THEN e.seq < recvSeq ELSE e.seq < sendSeq[e.from]

WireBelow ==
    \A s \in Socks : \A i \in DOMAIN wire[s] :
        wire[s][i].from \in Senders => wire[s][i].seq < sendSeq[wire[s][i].from]

OrderInv == TypeOK /\ KeysUnique /\ QueueBelow /\ WireBelow /\ WireInSendOrder

(* A new envelope displaces none and has a key of its own.                 *)
LEMMA StoreFresh ==
    ASSUME OrderInv, NEW e \in Entry, Store(e),
           \/ e.from = Anon /\ e.seq = recvSeq
           \/ e.from \in Senders /\ e.from # Anon /\ e.seq = sendSeq[e.from]
    PROVE  /\ queue' = queue \cup {e}
           /\ \A x \in queue : ~ (x.from = e.from /\ x.seq = e.seq)
           /\ KeysUnique'
<1>1. \A x \in queue : ~ (x.from = e.from /\ x.seq = e.seq)
  <2>1. SUFFICES ASSUME NEW x \in queue, x.from = e.from, x.seq = e.seq PROVE FALSE
    OBVIOUS
  <2>2. x.seq \in Nat
    BY DEF OrderInv, TypeOK, Entry
  <2>3. x.seq < x.seq
    BY <2>1 DEF OrderInv, QueueBelow
  <2> QED
    BY <2>2, <2>3
<1>2. \A x \in queue : FrameOf(x) # FrameOf(e)
  BY <1>1 DEF FrameOf
<1>3. queue' = queue \cup {e}
  BY <1>2 DEF Store
<1> QED
  BY <1>1, <1>3 DEF OrderInv, KeysUnique

(* The flush of the queue is in send order.                                *)
LEMMA ListingOrder ==
    ASSUME MailboxAssumption, OrderInv, NEW l \in Listings(queue),
           NEW i \in DOMAIN l, NEW j \in DOMAIN l, i < j,
           l[i].from = l[j].from, l[i].from \in Senders
    PROVE  l[i].seq < l[j].seq
<1>1. l[i] # l[j] /\ ~ KeyBefore(l[j], l[i])
  BY DEF Listings
<1>2. PICK x \in queue : l[i] = FrameOf(x)
  BY ListingType DEF OrderInv
<1>3. PICK y \in queue : l[j] = FrameOf(y)
  BY ListingType DEF OrderInv
<1>4. l[i].seq \in Nat /\ l[j].seq \in Nat
  BY <1>2, <1>3 DEF OrderInv, TypeOK, Entry, FrameOf
<1>5. ~ (l[j].seq < l[i].seq)
  BY <1>1 DEF KeyBefore
<1>6. l[i].seq # l[j].seq
  <2>1. SUFFICES ASSUME l[i].seq = l[j].seq PROVE FALSE
    OBVIOUS
  <2>2. x.from = y.from /\ x.seq = y.seq
    BY <1>2, <1>3, <2>1 DEF FrameOf
  <2>3. x = y
    BY <2>2 DEF OrderInv, KeysUnique
  <2> QED
    BY <1>1, <1>2, <1>3, <2>3
<1> QED
  BY <1>4, <1>5, <1>6

(* A frame that carries its sender's next seq may be sent live behind      *)
(* whatever is on the wire; so may one without a sender.                   *)
LEMMA SendLiveOrder ==
    ASSUME OrderInv, NEW frame \in Frame, SendLive(frame),
           frame.from \in Senders => frame.seq = sendSeq[frame.from]
    PROVE  WireInSendOrder'
<1>1. SUFFICES ASSUME NEW s \in Socks, NEW i \in DOMAIN wire'[s], NEW j \in DOMAIN wire'[s],
                      i < j, wire'[s][i].from = wire'[s][j].from, wire'[s][i].from \in Senders
               PROVE  wire'[s][i].seq < wire'[s][j].seq
  BY DEF WireInSendOrder
<1>2. wire[s] \in Seq(Frame)
  BY DEF OrderInv, TypeOK
<1>3. CASE s \notin alive
  <2>1. wire'[s] = wire[s]
    BY <1>3 DEF SendLive, OrderInv, TypeOK
  <2> QED
    BY <1>1, <2>1 DEF OrderInv, WireInSendOrder
<1>4. CASE s \in alive
  <2>1. wire'[s] = Append(wire[s], frame)
    BY <1>4 DEF SendLive
  <2>2. /\ DOMAIN wire[s] = 1 .. Len(wire[s]) /\ Len(wire[s]) \in Nat
        /\ DOMAIN wire'[s] = 1 .. Len(wire[s]) + 1
        /\ \A k \in 1 .. Len(wire[s]) : wire'[s][k] = wire[s][k]
        /\ wire'[s][Len(wire[s]) + 1] = frame
    BY <1>2, <2>1, AppendProperties, LenProperties
  <2>3. i \in DOMAIN wire[s] /\ wire'[s][i] = wire[s][i]
    BY <1>1, <2>2
  <2>4. CASE j \in DOMAIN wire[s]
    BY <1>1, <2>2, <2>3, <2>4 DEF OrderInv, WireInSendOrder
  <2>5. CASE j = Len(wire[s]) + 1
    <3>1. wire[s][i].seq < sendSeq[wire[s][i].from]
      BY <1>1, <2>3 DEF OrderInv, WireBelow
    <3> QED
      BY <1>1, <2>2, <2>3, <2>5, <3>1
  <2> QED
    BY <2>2, <2>4, <2>5
<1> QED
  BY <1>3, <1>4

(* A sender's seq is above all it stamped before, also after one more.     *)
LEMMA WireBelowStep ==
    ASSUME OrderInv, NEW frame \in Frame, SendLive(frame) \/ UNCHANGED wire,
           sendSeq' \in [Senders -> Nat],
           \A f \in Senders : sendSeq'[f] >= sendSeq[f],
           frame.from \in Senders => frame.seq < sendSeq'[frame.from]
    PROVE  WireBelow'
<1>1. SUFFICES ASSUME NEW s \in Socks, NEW i \in DOMAIN wire'[s], wire'[s][i].from \in Senders
               PROVE  wire'[s][i].seq < sendSeq'[wire'[s][i].from]
  BY DEF WireBelow
<1>2. wire[s] \in Seq(Frame) /\ sendSeq \in [Senders -> Nat]
  BY DEF OrderInv, TypeOK
<1>3. \A k \in DOMAIN wire[s] : wire[s][k].from \in Senders => wire[s][k].seq < sendSeq'[wire[s][k].from]
  <2>1. SUFFICES ASSUME NEW k \in DOMAIN wire[s], wire[s][k].from \in Senders
                 PROVE  wire[s][k].seq < sendSeq'[wire[s][k].from]
    OBVIOUS
  <2>2. wire[s][k].seq \in Nat
    <3>1. wire[s][k] \in Frame
      BY <1>2, ElementOfSeq, LenProperties
    <3> QED
      BY <3>1 DEF Frame
  <2>3. wire[s][k].seq < sendSeq[wire[s][k].from]
    BY <2>1 DEF OrderInv, WireBelow
  <2>4. sendSeq'[wire[s][k].from] \in Nat /\ sendSeq[wire[s][k].from] \in Nat
    BY <1>2, <2>1
  <2> QED
    BY <2>1, <2>2, <2>3, <2>4
<1>4. CASE wire'[s] = wire[s]
  BY <1>1, <1>3, <1>4
<1>5. CASE wire'[s] = Append(wire[s], frame)
  <2>1. /\ DOMAIN wire[s] = 1 .. Len(wire[s]) /\ Len(wire[s]) \in Nat
        /\ DOMAIN wire'[s] = 1 .. Len(wire[s]) + 1
        /\ \A k \in 1 .. Len(wire[s]) : wire'[s][k] = wire[s][k]
        /\ wire'[s][Len(wire[s]) + 1] = frame
    BY <1>2, <1>5, AppendProperties, LenProperties
  <2>2. CASE i \in DOMAIN wire[s]
    BY <1>1, <1>3, <2>1, <2>2
  <2>3. CASE i = Len(wire[s]) + 1
    BY <1>1, <2>1, <2>3
  <2> QED
    BY <2>1, <2>2, <2>3
<1> QED
  BY <1>4, <1>5 DEF SendLive

(* Every step keeps the strengthened invariant.                            *)
LEMMA OrderStep ==
    ASSUME MailboxAssumption, OrderInv, [Next]_vars
    PROVE  OrderInv'
<1> TypeOK /\ TypeOK'
  BY NextType DEF OrderInv
<1>1. ASSUME NEW f \in Senders, NEW id \in Ids \ Receipts, Deliver(f, id)
      PROVE  OrderInv'
  <2> DEFINE e == [from |-> f, seq |-> sendSeq[f], id |-> id, age |-> 0]
             frame == [from |-> f, seq |-> sendSeq[f], id |-> id]
  <2>1. /\ e \in Entry /\ e.from \in Senders /\ e.from # Anon /\ e.seq = sendSeq[e.from]
        /\ frame \in Frame /\ frame.from = f /\ frame.seq = sendSeq[f]
    BY DEF Entry, Frame, Segments, Ages, MailboxAssumption, TypeOK
  <2>2. /\ sendSeq' = [sendSeq EXCEPT ![f] = @ + 1]
        /\ sendSeq' \in [Senders -> Nat]
        /\ recvSeq' = recvSeq
        /\ \A g \in Senders : sendSeq'[g] >= sendSeq[g]
        /\ sendSeq[f] < sendSeq'[f]
    BY <1>1 DEF Deliver, TypeOK
  <2>3. \A x \in queue : IF x.from = Anon THEN x.seq < recvSeq' ELSE x.seq < sendSeq'[x.from]
    <3>1. SUFFICES ASSUME NEW x \in queue
                   PROVE IF x.from = Anon THEN x.seq < recvSeq' ELSE x.seq < sendSeq'[x.from]
      OBVIOUS
    <3>2. x.seq \in Nat /\ x.from \in Senders \cup {Anon}
      BY DEF TypeOK, Entry, Segments
    <3>3. IF x.from = Anon THEN x.seq < recvSeq ELSE x.seq < sendSeq[x.from]
      BY DEF OrderInv, QueueBelow
    <3>4. x.from # Anon => sendSeq[x.from] \in Nat /\ sendSeq'[x.from] \in Nat /\ sendSeq'[x.from] >= sendSeq[x.from]
      BY <2>2, <3>2 DEF TypeOK
    <3> QED
      BY <2>2, <3>2, <3>3, <3>4
  <2>4. CASE SendLive(frame) /\ UNCHANGED <<queue, alarm>>
    <3>1. KeysUnique' /\ QueueBelow'
      BY <2>3, <2>4 DEF OrderInv, KeysUnique, QueueBelow
    <3>2. WireInSendOrder'
      BY <2>1, <2>4, SendLiveOrder
    <3>3. WireBelow'
      BY <2>1, <2>2, <2>4, WireBelowStep
    <3> QED
      BY <3>1, <3>2, <3>3 DEF OrderInv
  <2>5. CASE Store(e) /\ UNCHANGED wire
    <3>1. KeysUnique' /\ queue' = queue \cup {e}
      BY <2>1, <2>5, StoreFresh
    <3>2. QueueBelow'
      BY <2>1, <2>2, <2>3, <3>1 DEF QueueBelow
    <3>3. WireBelow'
      BY <2>1, <2>2, <2>5, WireBelowStep
    <3>4. WireInSendOrder'
      BY <2>5 DEF OrderInv, WireInSendOrder
    <3> QED
      BY <3>1, <3>2, <3>3, <3>4 DEF OrderInv
  <2>6. CASE UNCHANGED <<queue, alarm, wire>>
    <3>1. KeysUnique' /\ QueueBelow' /\ WireInSendOrder'
      BY <2>3, <2>6 DEF OrderInv, KeysUnique, QueueBelow, WireInSendOrder
    <3>2. WireBelow'
      BY <2>1, <2>2, <2>6, WireBelowStep
    <3> QED
      BY <3>1, <3>2 DEF OrderInv
  <2> QED
    BY <1>1, <2>4, <2>5, <2>6 DEF Deliver
<1>2. ASSUME NEW t \in Tokens, NEW id \in Ids, NEW age \in SealedAges \cap Ages,
             NEW r \in Relays, SealedDeliver(t, id, age, r)
      PROVE  OrderInv'
  <2> DEFINE e == [from |-> Anon, seq |-> recvSeq, id |-> id, age |-> age]
             frame == [from |-> Anon, seq |-> 0, id |-> id]
  <2>1. /\ e \in Entry /\ e.from = Anon /\ e.seq = recvSeq
        /\ frame \in Frame /\ frame.from \notin Senders
    BY DEF Entry, Frame, Segments, MailboxAssumption, TypeOK
  <2>2. sendSeq' = sendSeq
    BY <1>2 DEF SealedDeliver
  <2>3. CASE SendLive(frame) /\ UNCHANGED <<queue, alarm, recvSeq>>
    <3>1. KeysUnique' /\ QueueBelow'
      BY <2>2, <2>3 DEF OrderInv, KeysUnique, QueueBelow
    <3>2. WireInSendOrder'
      BY <2>1, <2>3, SendLiveOrder
    <3>3. \A f \in Senders : sendSeq'[f] >= sendSeq[f]
      BY <2>2 DEF TypeOK
    <3>4. WireBelow'
      BY <2>1, <2>3, <3>3, WireBelowStep DEF TypeOK
    <3> QED
      BY <3>1, <3>2, <3>4 DEF OrderInv
  <2>4. CASE recvSeq' = recvSeq + 1 /\ Store(e) /\ UNCHANGED wire
    <3>1. KeysUnique' /\ queue' = queue \cup {e}
      BY <2>1, <2>4, StoreFresh
    <3>2. \A x \in queue : IF x.from = Anon THEN x.seq < recvSeq' ELSE x.seq < sendSeq'[x.from]
      <4>1. SUFFICES ASSUME NEW x \in queue
                     PROVE IF x.from = Anon THEN x.seq < recvSeq' ELSE x.seq < sendSeq'[x.from]
        OBVIOUS
      <4>2. x.seq \in Nat /\ recvSeq \in Nat
        BY DEF TypeOK, Entry
      <4>3. IF x.from = Anon THEN x.seq < recvSeq ELSE x.seq < sendSeq[x.from]
        BY DEF OrderInv, QueueBelow
      <4> QED
        BY <2>2, <2>4, <4>2, <4>3
    <3>3. e.seq < recvSeq'
      BY <2>1, <2>4 DEF TypeOK
    <3>4. QueueBelow'
      BY <2>1, <3>1, <3>2, <3>3 DEF QueueBelow
    <3>5. WireBelow' /\ WireInSendOrder'
      BY <2>2, <2>4 DEF OrderInv, WireBelow, WireInSendOrder
    <3> QED
      BY <3>1, <3>4, <3>5 DEF OrderInv
  <2>5. CASE UNCHANGED <<queue, alarm, recvSeq, wire>>
    BY <2>2, <2>5 DEF OrderInv, KeysUnique, QueueBelow, WireBelow, WireInSendOrder
  <2> QED
    BY <1>2, <2>3, <2>4, <2>5 DEF SealedDeliver
<1>3. ASSUME NEW s \in Socks, Connect(s)
      PROVE  OrderInv'
  <2>1. UNCHANGED <<queue, recvSeq, sendSeq>>
    BY <1>3 DEF Connect, storage
  <2>2. PICK l \in Listings(queue) : wire' = [wire EXCEPT ![s] = l]
    BY <1>3 DEF Connect
  <2>3. wire'[s] = l /\ \A r \in Socks \ {s} : wire'[r] = wire[r]
    BY <2>2 DEF TypeOK
  <2>4. \A i \in DOMAIN l : l[i].from \in Senders => l[i].seq < sendSeq[l[i].from]
    <3>1. SUFFICES ASSUME NEW i \in DOMAIN l, l[i].from \in Senders PROVE l[i].seq < sendSeq[l[i].from]
      OBVIOUS
    <3>2. PICK x \in queue : l[i] = FrameOf(x)
      BY ListingType
    <3>3. x.from \in Senders /\ x.from # Anon /\ l[i].seq = x.seq /\ l[i].from = x.from
      BY <3>1, <3>2 DEF FrameOf, MailboxAssumption
    <3> QED
      BY <3>3 DEF OrderInv, QueueBelow
  <2>5. WireBelow'
    BY <2>1, <2>3, <2>4 DEF OrderInv, WireBelow
  <2>6. WireInSendOrder'
    <3>1. \A i, j \in DOMAIN l : (i < j /\ l[i].from = l[j].from /\ l[i].from \in Senders) => l[i].seq < l[j].seq
      BY ListingOrder
    <3> QED
      BY <2>3, <3>1 DEF OrderInv, WireInSendOrder
  <2>7. KeysUnique' /\ QueueBelow'
    BY <2>1 DEF OrderInv, KeysUnique, QueueBelow
  <2> QED
    BY <2>5, <2>6, <2>7 DEF OrderInv
<1>4. ASSUME NEW s \in Socks, LinkDown(s)
      PROVE  OrderInv'
  <2>1. UNCHANGED <<queue, recvSeq, sendSeq>> /\ wire' = [wire EXCEPT ![s] = << >>]
    BY <1>4 DEF LinkDown, storage
  <2>2. \A r \in Socks : wire'[r] = wire[r] \/ wire'[r] = << >>
    BY <2>1 DEF TypeOK
  <2>3. WireBelow' /\ WireInSendOrder'
    BY <2>1, <2>2 DEF OrderInv, WireBelow, WireInSendOrder
  <2> QED
    BY <2>1, <2>3 DEF OrderInv, KeysUnique, QueueBelow
<1>5. ASSUME NEW s \in Socks, SocketClosed(s) \/ (\E id \in Ids : DeviceAck(s, id))
      PROVE  OrderInv'
  BY <1>5 DEF SocketClosed, DeviceAck, storage, OrderInv, KeysUnique, QueueBelow, WireBelow, WireInSendOrder
<1>6. ASSUME queue' \subseteq queue, UNCHANGED <<recvSeq, sendSeq, wire>>
      PROVE  OrderInv'
  BY <1>6 DEF OrderInv, KeysUnique, QueueBelow, WireBelow, WireInSendOrder
<1>7. ASSUME NEW s \in Socks, HandleAck(s)
      PROVE  OrderInv'
  BY <1>6, <1>7 DEF HandleAck
<1>8. ASSUME Alarm
      PROVE  OrderInv'
  BY <1>6, <1>8 DEF Alarm, links
<1>9. ASSUME NEW t \in Tokens, RegisterToken(t)
      PROVE  OrderInv'
  BY <1>6, <1>9 DEF RegisterToken, links
<1>10. ASSUME Purge
       PROVE  OrderInv'
  BY <1>10 DEF Purge, OrderInv, KeysUnique, QueueBelow, WireBelow, WireInSendOrder
<1>11. ASSUME Tick
       PROVE  OrderInv'
  <2>1. UNCHANGED <<recvSeq, sendSeq, wire>>
    BY <1>11 DEF Tick, links
  <2>2. \A y \in queue' : \E x \in queue :
           y = [x EXCEPT !.age = IF @ > TTL THEN @ ELSE @ + 1] /\ y.from = x.from /\ y.seq = x.seq
    <3>1. TAKE y \in queue'
    <3>2. PICK x \in queue : y = [x EXCEPT !.age = IF @ > TTL THEN @ ELSE @ + 1]
      BY <1>11 DEF Tick
    <3>3. x \in [from : Segments, seq : Nat, id : Ids, age : Ages]
      BY DEF TypeOK, Entry
    <3>4. y.from = x.from /\ y.seq = x.seq
      BY <3>2, <3>3
    <3> QED
      BY <3>2, <3>4
  <2>3. KeysUnique'
    BY <2>2 DEF OrderInv, KeysUnique
  <2>4. QueueBelow'
    BY <2>1, <2>2 DEF OrderInv, QueueBelow
  <2> QED
    BY <2>1, <2>3, <2>4 DEF OrderInv, WireBelow, WireInSendOrder
<1>12. ASSUME NEW s \in Socks, DeviceRead(s)
       PROVE  OrderInv'
  <2>1. UNCHANGED <<queue, recvSeq, sendSeq>> /\ wire' = [wire EXCEPT ![s] = Tail(@)]
    BY <1>12 DEF DeviceRead, storage
  <2>2. \A r \in Socks \ {s} : wire'[r] = wire[r]
    BY <2>1 DEF TypeOK
  <2>3. /\ DOMAIN wire[s] = 1 .. Len(wire[s]) /\ Len(wire[s]) \in Nat
        /\ DOMAIN wire'[s] = 1 .. Len(wire[s]) - 1
        /\ \A i \in DOMAIN wire'[s] : i + 1 \in DOMAIN wire[s] /\ wire'[s][i] = wire[s][i + 1]
    <3>1. wire[s] \in Seq(Frame) /\ wire[s] # << >> /\ wire'[s] = Tail(wire[s])
      BY <1>12, <2>1 DEF DeviceRead, TypeOK
    <3> QED
      BY <3>1, HeadTailProperties, LenProperties
  <2>4. WireBelow'
    <3>1. \A i \in DOMAIN wire'[s] : wire'[s][i].from \in Senders => wire'[s][i].seq < sendSeq[wire'[s][i].from]
      BY <2>3 DEF OrderInv, WireBelow
    <3> QED
      BY <2>1, <2>2, <3>1 DEF OrderInv, WireBelow
  <2>5. WireInSendOrder'
    <3>1. ASSUME NEW i \in DOMAIN wire'[s], NEW j \in DOMAIN wire'[s], i < j,
                 wire'[s][i].from = wire'[s][j].from, wire'[s][i].from \in Senders
          PROVE  wire'[s][i].seq < wire'[s][j].seq
      <4>1. i + 1 \in DOMAIN wire[s] /\ j + 1 \in DOMAIN wire[s] /\ i + 1 < j + 1
        BY <2>3, <3>1
      <4>2. wire[s][i + 1].from = wire[s][j + 1].from /\ wire[s][i + 1].from \in Senders
        BY <2>3, <3>1
      <4>3. wire[s][i + 1].seq < wire[s][j + 1].seq
        BY <4>1, <4>2 DEF OrderInv, WireInSendOrder
      <4> QED
        BY <2>3, <3>1, <4>3
    <3> QED
      BY <2>2, <3>1 DEF OrderInv, WireInSendOrder
  <2> QED
    BY <2>1, <2>4, <2>5 DEF OrderInv, KeysUnique, QueueBelow
<1>13. ASSUME UNCHANGED vars
       PROVE  OrderInv'
  BY <1>13 DEF vars, OrderInv, KeysUnique, QueueBelow, WireBelow, WireInSendOrder
<1> QED
  BY <1>1, <1>2, <1>3, <1>4, <1>5, <1>7, <1>8, <1>9, <1>10, <1>11, <1>12, <1>13
  DEF Next, Server, Device

(* The strengthened invariant holds in every reachable state: no two       *)
(* stored envelopes share a key, and counters are above all they stamped.  *)
THEOREM OrderInvHolds == Spec => []OrderInv
<1>1. Init => OrderInv
  <2>1. SUFFICES ASSUME Init PROVE OrderInv
    OBVIOUS
  <2>2. TypeOK
    BY <2>1, InitType, MailboxAssumption
  <2>3. \A s \in Socks : DOMAIN wire[s] = {}
    BY <2>1 DEF Init
  <2> QED
    BY <2>1, <2>2, <2>3 DEF Init, OrderInv, KeysUnique, QueueBelow, WireBelow, WireInSendOrder
<1>2. OrderInv /\ [Next]_vars => OrderInv'
  BY OrderStep, MailboxAssumption
<1> QED
  BY <1>1, <1>2, PTL DEF Spec

(* On every socket, at any time, the frames of one sender stand in the     *)
(* order it sent them, flushed or live (envelopeStorageKey, handleDeliver).*)
THEOREM OrderHolds == Spec => []WireInSendOrder
<1>1. OrderInv => WireInSendOrder
  BY DEF OrderInv
<1> QED
  BY <1>1, OrderInvHolds, PTL

-----------------------------------------------------------------------------
(* Mailbox implements HeldMail, for any senders, ids, sockets and bounds.  *)

\* Acks under way name ids the device has read.
AcksSeen == \A s \in Socks : \A i \in DOMAIN uplink[s] : uplink[s][i] \in seen

\* Acks are put on the wire only for ids seen, and seen ids are forgotten only with the wire.
LEMMA AcksSeenStep ==
    ASSUME TypeOK, AcksSeen, [Next]_vars
    PROVE  AcksSeen'
<1> USE DEF AcksSeen
<1>1. ASSUME seen \subseteq seen', \A s \in Socks : uplink'[s] = uplink[s] \/ uplink'[s] = << >>
      PROVE  AcksSeen'
  BY <1>1
<1>2. ASSUME NEW f \in Senders, NEW id \in Ids \ Receipts, Deliver(f, id)
      PROVE  AcksSeen'
  BY <1>2 DEF Deliver
<1>3. ASSUME NEW t \in Tokens, NEW id \in Ids, NEW age \in SealedAges \cap Ages,
             NEW r \in Relays, SealedDeliver(t, id, age, r)
      PROVE  AcksSeen'
  BY <1>3 DEF SealedDeliver
<1>4. ASSUME NEW s \in Socks, Connect(s) \/ LinkDown(s) \/ SocketClosed(s) \/ DeviceRead(s)
      PROVE  AcksSeen'
  BY <1>1, <1>4 DEF TypeOK, Connect, LinkDown, SocketClosed, DeviceRead, storage
<1>5. ASSUME NEW s \in Socks, HandleAck(s)
      PROVE  AcksSeen'
  <2>1. uplink' = [uplink EXCEPT ![s] = Tail(@)] /\ seen' = seen
    BY <1>5 DEF HandleAck
  <2>2. uplink[s] \in Seq(Ids) /\ uplink[s] # << >> /\ uplink'[s] = Tail(uplink[s])
    BY <1>5, <2>1 DEF HandleAck, TypeOK
  <2>3. \A i \in DOMAIN uplink'[s] : i + 1 \in DOMAIN uplink[s] /\ uplink'[s][i] = uplink[s][i + 1]
    BY <2>2, HeadTailProperties, LenProperties
  <2>4. \A r \in Socks \ {s} : uplink'[r] = uplink[r]
    BY <2>1 DEF TypeOK
  <2> QED
    BY <2>1, <2>3, <2>4
<1>6. ASSUME Alarm \/ Tick \/ (\E t \in Tokens : RegisterToken(t)) \/ UNCHANGED vars
      PROVE  AcksSeen'
  BY <1>1, <1>6 DEF Alarm, Tick, RegisterToken, links, vars
<1>7. ASSUME NEW s \in Socks, NEW id \in Ids, DeviceAck(s, id)
      PROVE  AcksSeen'
  <2>1. uplink' = [uplink EXCEPT ![s] = Append(@, id)] /\ seen' = seen /\ id \in seen
    BY <1>7 DEF DeviceAck
  <2>2. uplink[s] \in Seq(Ids) /\ uplink'[s] = Append(uplink[s], id)
    BY <2>1 DEF TypeOK
  <2>3. \A i \in DOMAIN uplink'[s] : uplink'[s][i] = id \/ (i \in DOMAIN uplink[s] /\ uplink'[s][i] = uplink[s][i])
    BY <2>2, AppendProperties, LenProperties
  <2>4. \A r \in Socks \ {s} : uplink'[r] = uplink[r]
    BY <2>1 DEF TypeOK
  <2> QED
    BY <2>1, <2>3, <2>4
<1>8. ASSUME Purge
      PROVE  AcksSeen'
  BY <1>8 DEF Purge
<1> QED
  BY <1>2, <1>3, <1>4, <1>5, <1>6, <1>7, <1>8 DEF Next, Server, Device

-----------------------------------------------------------------------------
(* The refinement mapping and its steps.                                   *)

\* Distinct envelopes are distinct held items, because their keys differ.
LEMMA HeldInjective ==
    ASSUME KeysUnique, NEW x \in queue, NEW y \in queue, HeldOf(x).item = HeldOf(y).item
    PROVE  x = y
BY DEF KeysUnique, HeldOf, FrameOf

\* There are at most as many held items as stored envelopes.
LEMMA HeldCount ==
    ASSUME TypeOK
    PROVE  Cardinality(HeldItems) \in Nat /\ Cardinality(HeldItems) <= Cardinality(queue)
<1> DEFINE f == [e \in queue |-> HeldOf(e)]
<1>1. HeldItems = {f[e] : e \in queue}
  BY DEF HeldItems
<1>2. f = [e \in queue |-> f[e]] /\ DOMAIN f = queue
  OBVIOUS
<1>3. IsFiniteSet(queue)
  BY DEF TypeOK
<1> HIDE DEF f
<1> QED
  BY <1>1, <1>2, <1>3, ValuesFinite, FS_CardinalityType

\* The instance counts as FiniteSets does.
LEMMA SameCardinality == \A S : Held!Cardinality(S) = Cardinality(S)
BY DEF Held!Cardinality, Cardinality, Held!IsFiniteSet, IsFiniteSet

\* Storing a fresh envelope, with room for it, accepts an item.
LEMMA StoreAccepts ==
    ASSUME MailboxAssumption, OrderInv, NEW e \in Entry, Store(e), CanQueue(e.id), UNCHANGED seen,
           \/ e.from = Anon /\ e.seq = recvSeq
           \/ e.from \in Senders /\ e.from # Anon /\ e.seq = sendSeq[e.from]
    PROVE  Held!Accept
<1>1. /\ queue' = queue \cup {e}
      /\ \A x \in queue : ~ (x.from = e.from /\ x.seq = e.seq)
  BY StoreFresh
<1>2. HeldItems' = HeldItems \cup {HeldOf(e)}
  BY <1>1 DEF HeldItems, HeldOf, FrameOf, Expired, Stamped
<1>3. HeldOf(e) \notin HeldItems
  BY <1>1 DEF HeldItems, HeldOf, FrameOf
<1>4. Cardinality(HeldItems) < MaxQueued
  BY HeldCount, FS_CardinalityType DEF OrderInv, TypeOK, CanQueue, MailboxAssumption
<1>5. \E h \in HeldItems' : HeldItems' = HeldItems \cup {h} /\ h \notin HeldItems
  BY <1>2, <1>3
<1> QED
  BY <1>4, <1>5, SameCardinality DEF Held!Accept

RefInv == OrderInv /\ AcksSeen

\* Every step of the object is a step of HeldMail or leaves what it promises about alone.
LEMMA RefinementStep ==
    ASSUME MailboxAssumption, RefInv, [Next]_vars
    PROVE  Held!Next \/ UNCHANGED <<HeldItems, seen>>
<1> TypeOK /\ OrderInv /\ KeysUnique
  BY DEF RefInv, OrderInv
<1>1. ASSUME NEW f \in Senders, NEW id \in Ids \ Receipts, Deliver(f, id)
      PROVE  Held!Accept \/ UNCHANGED <<HeldItems, seen>>
  <2> DEFINE e == [from |-> f, seq |-> sendSeq[f], id |-> id, age |-> 0]
  <2>1. e \in Entry /\ e.id = id /\ e.from \in Senders /\ e.from # Anon /\ e.seq = sendSeq[e.from]
    BY DEF Entry, Segments, Ages, MailboxAssumption, TypeOK
  <2>2. seen' = seen /\ (queue' = queue \/ (CanQueue(id) /\ Store(e)))
    BY <1>1 DEF Deliver
  <2>3. CASE queue' = queue
    BY <2>2, <2>3 DEF HeldItems
  <2>4. CASE CanQueue(id) /\ Store(e)
    BY <2>1, <2>2, <2>4, StoreAccepts
  <2> QED
    BY <2>2, <2>3, <2>4
<1>2. ASSUME NEW t \in Tokens, NEW id \in Ids, NEW age \in SealedAges \cap Ages,
             NEW r \in Relays, SealedDeliver(t, id, age, r)
      PROVE  Held!Accept \/ UNCHANGED <<HeldItems, seen>>
  <2> DEFINE e == [from |-> Anon, seq |-> recvSeq, id |-> id, age |-> age]
  <2>1. e \in Entry /\ e.id = id /\ e.from = Anon /\ e.seq = recvSeq
    BY DEF Entry, Segments, TypeOK
  <2>2. seen' = seen /\ (queue' = queue \/ (CanQueue(id) /\ Store(e)))
    BY <1>2 DEF SealedDeliver
  <2>3. CASE queue' = queue
    BY <2>2, <2>3 DEF HeldItems
  <2>4. CASE CanQueue(id) /\ Store(e)
    BY <2>1, <2>2, <2>4, StoreAccepts
  <2> QED
    BY <2>2, <2>3, <2>4
<1>3. ASSUME queue' = queue, seen' = seen
      PROVE  UNCHANGED <<HeldItems, seen>>
  BY <1>3 DEF HeldItems
<1>4. ASSUME NEW s \in Socks,
             Connect(s) \/ LinkDown(s) \/ SocketClosed(s) \/ \E id \in Ids : DeviceAck(s, id)
      PROVE  UNCHANGED <<HeldItems, seen>>
  BY <1>3, <1>4 DEF Connect, LinkDown, SocketClosed, DeviceAck, storage
<1>5. ASSUME (\E t \in Tokens : RegisterToken(t)) \/ UNCHANGED vars
      PROVE  UNCHANGED <<HeldItems, seen>>
  BY <1>3, <1>5 DEF RegisterToken, vars
<1>6. ASSUME NEW s \in Socks, HandleAck(s)
      PROVE  Held!Settle \/ UNCHANGED <<HeldItems, seen>>
  <2>1. seen' = seen
    BY <1>6 DEF HandleAck
  <2>2. Head(uplink[s]) \in seen
    <3>1. uplink[s] \in Seq(Ids) /\ uplink[s] # << >>
      BY <1>6 DEF HandleAck, TypeOK
    <3>2. 1 \in DOMAIN uplink[s] /\ Head(uplink[s]) = uplink[s][1]
      BY <3>1, EmptySeq, LenProperties
    <3> QED
      BY <3>2 DEF RefInv, AcksSeen
  <2>3. CASE queue' = queue
    BY <1>3, <2>1, <2>3
  <2>4. CASE \E e \in queue : e.id = Head(uplink[s]) /\ queue' = queue \ {e}
    <3>1. PICK e \in queue : e.id = Head(uplink[s]) /\ queue' = queue \ {e}
      BY <2>4
    <3>2. \A x \in queue \ {e} : HeldOf(x) # HeldOf(e)
      BY HeldInjective
    <3>3. HeldItems' = HeldItems \ {HeldOf(e)}
      BY <3>1, <3>2 DEF HeldItems, HeldOf, FrameOf, Expired, Stamped
    <3>4. HeldOf(e) \in HeldItems /\ HeldOf(e).id \in seen
      BY <2>2, <3>1 DEF HeldItems, HeldOf
    <3> QED
      BY <2>1, <3>3, <3>4 DEF Held!Settle
  <2> QED
    BY <1>6, <2>3, <2>4 DEF HandleAck
<1>7. ASSUME Alarm
      PROVE  Held!Expire
  <2>1. queue' = {e \in queue : ~ Expired(e)} /\ seen' = seen
    BY <1>7 DEF Alarm
  <2>2. HeldItems' \subseteq HeldItems
    BY <2>1 DEF HeldItems, HeldOf, FrameOf, Expired, Stamped
  <2>3. \A h \in HeldItems \ HeldItems' : h.old
    <3>1. SUFFICES ASSUME NEW x \in queue, HeldOf(x) \notin HeldItems' PROVE HeldOf(x).old
      BY DEF HeldItems
    <3>2. ASSUME ~ Expired(x) PROVE FALSE
      <4>1. HeldOf(x)' = HeldOf(x)
        BY DEF HeldOf, FrameOf, Expired, Stamped
      <4> QED
        BY <2>1, <3>1, <3>2, <4>1 DEF HeldItems
    <3> QED
      BY <3>2 DEF HeldOf
  <2> QED
    BY <2>1, <2>2, <2>3 DEF Held!Expire
<1>8. ASSUME Purge
      PROVE  Held!Wipe
  BY <1>8 DEF Purge, HeldItems, Held!Wipe
<1>9. ASSUME Tick
      PROVE  Held!Ripen
  <2> DEFINE Older(e) == [e EXCEPT !.age = IF @ > TTL THEN @ ELSE @ + 1]
  <2>1. queue' = {Older(e) : e \in queue} /\ seen' = seen
    BY <1>9 DEF Tick
  <2>2. \A e \in queue : FrameOf(Older(e)) = FrameOf(e) /\ Older(e).id = e.id
    BY DEF FrameOf, TypeOK, Entry
  <2>3. \A e \in queue : Expired(e) => Older(e) = e
    BY DEF Expired, TypeOK, Entry
  <2> HIDE DEF Older
  <2>4. HeldItems' = {HeldOf(Older(e)) : e \in queue}
    BY <2>1 DEF HeldItems, HeldOf, FrameOf, Expired, Stamped
  <2>5. {[item |-> h.item, id |-> h.id] : h \in HeldItems'} = {[item |-> h.item, id |-> h.id] : h \in HeldItems}
    <3>1. \A e \in queue : /\ HeldOf(Older(e)).item = HeldOf(e).item
                           /\ HeldOf(Older(e)).id = HeldOf(e).id
      BY <2>2 DEF HeldOf
    <3>2. {[item |-> h.item, id |-> h.id] : h \in HeldItems'}
            = {[item |-> HeldOf(Older(e)).item, id |-> HeldOf(Older(e)).id] : e \in queue}
      BY <2>4
    <3>3. {[item |-> h.item, id |-> h.id] : h \in HeldItems}
            = {[item |-> HeldOf(e).item, id |-> HeldOf(e).id] : e \in queue}
      BY DEF HeldItems
    <3> QED
      BY <3>1, <3>2, <3>3
  <2>6. \A h \in HeldItems : h.old => h \in HeldItems'
    BY <2>3, <2>4 DEF HeldItems, HeldOf
  <2> QED
    BY <2>1, <2>5, <2>6 DEF Held!Ripen
<1>10. ASSUME NEW s \in Socks, DeviceRead(s)
       PROVE  Held!HandOver
  <2>1. queue' = queue /\ seen \subseteq seen'
    BY <1>10 DEF DeviceRead, storage
  <2> QED
    BY <2>1 DEF HeldItems, Held!HandOver
<1>11. CASE Server
  BY <1>1, <1>2, <1>4, <1>5, <1>6, <1>7, <1>8, <1>9, <1>11 DEF Server, Held!Next
<1>12. CASE Device
  BY <1>4, <1>10, <1>12 DEF Device, Held!Next
<1> QED
  BY <1>5, <1>11, <1>12 DEF Next

(* The object keeps the promise of HeldMail: mail it accepted stays until  *)
(* the device it was handed to acks it, its TTL passes, or the account is  *)
(* deleted; connects, flushes, live sends, dead sockets and token changes  *)
(* never touch it, and no newcomer displaces it.                           *)
THEOREM MailboxImplementsHeldMail == Spec => HoldsMail
<1>1. Init => Held!Init
  BY DEF Init, HeldItems, Held!Init
<1>2. Init => AcksSeen
  <2>1. SUFFICES ASSUME Init, NEW s \in Socks PROVE DOMAIN uplink[s] = {}
    BY DEF AcksSeen
  <2> QED
    BY <2>1 DEF Init
<1>3. TypeOK /\ AcksSeen /\ [Next]_vars => AcksSeen'
  BY AcksSeenStep
<1>4. Spec => []AcksSeen
  BY <1>2, <1>3, TypeCorrect, PTL DEF Spec
<1>5. OrderInv /\ AcksSeen /\ [Next]_vars => [Held!Next]_<<HeldItems, seen>>
  BY RefinementStep, MailboxAssumption DEF RefInv
<1> QED
  BY <1>1, <1>4, <1>5, OrderInvHolds, PTL DEF Spec, HoldsMail, Held!Spec

-----------------------------------------------------------------------------
(* Types, and what is where.                                               *)

Requests == [id : Ids, relay : Relays, token : Tokens]
Jobs == [pc : {"take", "commit", "contact", "append", "mark", "ack"}, frame : Frame]

DTypeOK ==
    /\ mode \in Modes
    /\ nextN \in [Senders -> 1 .. MaxN + 1]
    /\ opkUsed \in [Senders -> BOOLEAN]
    /\ call \in [Senders -> Requests \cup {NoCall}]
    /\ posted \subseteq Requests
    /\ outbox \in [Senders -> Seq(Ids)]
    /\ chainq \in Seq(Frame)
    /\ job \in Jobs \cup {NoJob}
    /\ session \in [Senders -> SUBSET (1 .. MaxN)]
    /\ opkHeld \subseteq Senders /\ contacts \subseteq Senders
    /\ history \in Seq(Ids)
    /\ processed \subseteq Ids /\ acked \subseteq Ids
    /\ torn \subseteq Ids
    /\ faults \in Nat

\* The device has one connection, and a dead one carries nothing.
LinksOK ==
    /\ \A s, t \in alive : s = t
    /\ \A s \in Socks \ alive : wire[s] = << >> /\ uplink[s] = << >>

\* What the client works on it has read.
ReadOK ==
    /\ \A i \in DOMAIN chainq : chainq[i].id \in seen
    /\ job # NoJob => job.frame.id \in seen

DInv == TypeOK /\ DTypeOK /\ LinksOK /\ ReadOK

-----------------------------------------------------------------------------
(* What there is was sent.                                                 *)

Sent(m) == Number(m) < nextN[SenderOf(m)]

\* Only who has a token seals.
Real(fr) == Sent(fr.id) /\ (fr.from = Anon => mode.token)

InSeq(q, x) == \E i \in DOMAIN q : q[i] = x

\* The frames in the queue, on the wires and with the client are of a kind.
QueueIn(Good) == \A fr \in Frame : (\E e \in queue : FrameOf(e) = fr) => fr \in Good

WireIn(Good) == \A s \in Socks, fr \in Frame : InSeq(wire[s], fr) => fr \in Good

ClientIn(Good) == \A fr \in Frame : InSeq(chainq, fr) \/ (job # NoJob /\ job.frame = fr) => fr \in Good

FramesIn(Good) == QueueIn(Good) /\ WireIn(Good) /\ ClientIn(Good)

OutboxSent == \A f \in Senders, m \in Ids : InSeq(outbox[f], m) => Sent(m)

RequestsSent ==
    \A p \in Requests : p \in posted \/ (\E f \in Senders : call[f] = p) => Sent(p.id) /\ mode.token

OpkSent == \A f \in Senders : opkUsed[f] => mode.opk /\ nextN[f] > 1

SendersSent == OutboxSent /\ RequestsSent /\ OpkSent

SentInv == SendersSent /\ FramesIn({fr \in Frame : Real(fr)})

-----------------------------------------------------------------------------
(* What the client has written.                                            *)

OnceInv ==
    /\ ShownOnce
    /\ \A m \in Shown : Number(m) \in session[SenderOf(m)]
    /\ job.pc = "take" =>
          /\ session[SenderOf(job.frame.id)] = {} /\ Number(job.frame.id) = 1
          /\ opkUsed[SenderOf(job.frame.id)]
    /\ job.pc = "commit" => Number(job.frame.id) \notin session[SenderOf(job.frame.id)]
    /\ job.pc \in {"contact", "append"} =>
          job.frame.id \notin Shown /\ Number(job.frame.id) \in session[SenderOf(job.frame.id)]

\* A message that is in the history, or was hit while it was written.
Settled(m) == m \in Shown \/ m \in torn

\* A message whose writing is under way.
Writing(m) == job.pc \in {"commit", "contact", "append"} /\ job.frame.id = m

AckInv ==
    /\ \A m \in processed \cup acked : Settled(m)
    /\ job.pc \in {"mark", "ack"} => Settled(job.frame.id)
    /\ \A f \in Senders : \A n \in session[f] :
          Settled(<<f, n>>) \/ (job.pc \in {"contact", "append"} /\ job.frame.id = <<f, n>>)
    /\ \A f \in Senders : session[f] # {} => 1 \in session[f]
    /\ job.pc = "commit" => session[SenderOf(job.frame.id)] # {} \/ Number(job.frame.id) = 1
    /\ \A f \in Senders \ opkHeld : opkUsed[f] /\ (Settled(<<f, 1>>) \/ Writing(<<f, 1>>))

-----------------------------------------------------------------------------
(* The order of the from-stamped path.                                     *)

\* A message that could still be shown without having been torn.
Fresh(m) == Number(m) \notin session[SenderOf(m)] /\ m \notin torn /\ m \notin processed

\* What is on its way to be decrypted, in order: the job that has not been committed yet,
\* the chain and the wire.
JobPart == IF job.pc \in {"take", "commit"} THEN << job.frame >> ELSE << >>
WirePart == IF alive = {} THEN << >> ELSE wire[CHOOSE s \in alive : TRUE]
Line == JobPart \o chainq \o WirePart

\* A message the device has yet to see, seen from a place of the line.
Ahead(line, m, i) ==
    \/ \E e \in queue : e.id = m
    \/ \E j \in DOMAIN line : j > i /\ line[j].id = m

\* A message stands between two places of the line.
Stands(line, m, k, i) == \E j \in DOMAIN line : k < j /\ j < i /\ line[j].id = m

\* Before a place of the line stands the message, behind whatever may start the session.
Announced(line, f, n, i) ==
    /\ n = 1 \/ session[f] # {} => Stands(line, <<f, n>>, 0, i)
    /\ n # 1 => \A k \in DOMAIN line : k < i /\ line[k].id = <<f, 1>> => Stands(line, <<f, n>>, k, i)

\* A place of the line that a later message of the sender has, or would have.
Behind(line, f, n, i) ==
    \/ i \in DOMAIN line /\ SenderOf(line[i].id) = f /\ Number(line[i].id) > n
    \/ i = Len(line) + 1 /\ alive # {}

\* Nothing later has been consumed, nor will it be before the message.
Placed(line, f, n) ==
    /\ Ahead(line, <<f, n>>, 0) => \A k \in session[f] : k < n
    /\ \A i \in 1 .. Len(line) + 1 :
          Ahead(line, <<f, n>>, i) /\ Behind(line, f, n, i) => Announced(line, f, n, i)

\* The number of a message is its place in the sender's order.
Known(fr) == fr.from \in Senders /\ fr.id = <<fr.from, fr.seq + 1>> /\ fr.seq < sendSeq[fr.from]

NumberInv ==
    /\ \A f \in Senders :
          /\ nextN[f] = sendSeq[f] + Len(outbox[f]) + 1
          /\ \A i \in 1 .. Len(outbox[f]) : outbox[f][i] = <<f, sendSeq[f] + i>>
    /\ FramesIn({fr \in Frame : Known(fr)})
    /\ \A f \in Senders : \A k \in session[f] : k <= sendSeq[f]

LineInv == \A f \in Senders, n \in 1 .. MaxN : Fresh(<<f, n>>) => Placed(Line, f, n)

JobInv ==
    /\ job.pc \in {"take", "commit", "contact", "append"} => job.frame.id \notin processed
    /\ job.pc \in {"mark", "ack"} => ~ Fresh(job.frame.id)
    /\ job.pc \in {"contact", "append"} =>
          job.frame.id \in torn \/ \A k \in session[SenderOf(job.frame.id)] : k <= Number(job.frame.id)

PathInv == ~ mode.token => OrderInv /\ AckInv /\ NumberInv /\ LineInv /\ JobInv /\ ShownInSendOrder

-----------------------------------------------------------------------------
(* Messages and frames.                                                    *)

LEMMA IdFacts ==
    ASSUME NEW m \in Ids
    PROVE  /\ SenderOf(m) \in Senders /\ Number(m) \in 1 .. MaxN /\ Number(m) \in Nat
           /\ m = <<SenderOf(m), Number(m)>>
<1>1. m \in Senders \X (1 .. MaxN)
  BY DeliveryAssumption DEF DeliveryAssumption
<1>2. MaxN \in Nat
  BY DeliveryAssumption DEF DeliveryAssumption
<1> QED
  BY <1>1, <1>2 DEF SenderOf, Number

LEMMA PairFacts ==
    ASSUME NEW f, NEW n PROVE SenderOf(<<f, n>>) = f /\ Number(<<f, n>>) = n
BY DEF SenderOf, Number

LEMMA PairIsId == ASSUME NEW f \in Senders, NEW n \in 1 .. MaxN PROVE <<f, n>> \in Ids
BY DeliveryAssumption DEF DeliveryAssumption

\* The frame of a job.
LEMMA JobFacts ==
    ASSUME DTypeOK
    PROVE  /\ job = NoJob <=> job.pc = "none"
           /\ job # NoJob => /\ job.frame \in Frame /\ job.frame.id \in Ids
                             /\ job.pc \in {"take", "commit", "contact", "append", "mark", "ack"}
                             /\ job = [pc |-> job.pc, frame |-> job.frame]
BY DEF DTypeOK, Jobs, NoJob, Frame

\* The next message of a sender.
LEMMA NextIsId ==
    ASSUME DTypeOK, NEW f \in Senders, NextSend(f) PROVE <<f, nextN[f]>> \in Ids /\ nextN[f] \in 1 .. MaxN
<1>1. mode.sends \in 1 .. MaxN /\ MaxN \in Nat
  BY DeliveryAssumption DEF DeliveryAssumption, DTypeOK
<1>2. nextN[f] \in 1 .. MaxN + 1 /\ nextN[f] <= mode.sends
  BY DEF DTypeOK, NextSend
<1>3. nextN[f] \in 1 .. MaxN
  BY <1>1, <1>2
<1> QED
  BY <1>3, PairIsId

-----------------------------------------------------------------------------
(* Delivery keeps to what Mailbox says of its environment.                 *)

LEMMA ActsStep == ASSUME DInv, [DeliveryNext]_dvars PROVE [Next]_vars
<1>1. /\ Receipts = {} /\ "primary" \in Relays /\ 0 \in SealedAges \cap Ages
  BY DeliveryAssumption, MailboxAssumption DEF DeliveryAssumption, MailboxAssumption, SealedAges, Ages
<1>2. CASE UNCHANGED dvars
  BY <1>2 DEF dvars
<1>3. ASSUME NEW f \in Senders,
             \/ SendPlain(f) \/ SendWithoutKey(f) \/ Accepted(f) \/ PostAgain(f) \/ FallBack(f)
             \/ \E t \in Tokens : SendSealed(f, t)
      PROVE  UNCHANGED vars
  BY <1>3 DEF SendPlain, SendWithoutKey, Accepted, PostAgain, FallBack, SendSealed, vars
<1>4. ASSUME NEW f \in Senders, HandOn(f) PROVE Next
  <2>1. Head(outbox[f]) \in Ids
    BY <1>4, HeadTailProperties DEF DInv, DTypeOK, HandOn
  <2> QED
    BY <1>1, <1>4, <2>1 DEF HandOn, Next, Server
<1>5. ASSUME NEW p \in posted, HandleSeal(p) PROVE Next
  <2>1. p \in Requests
    BY DEF DInv, DTypeOK
  <2>2. p.id \in Ids /\ p.token \in Tokens /\ p.relay \in Relays
    BY <2>1 DEF Requests
  <2> QED
    BY <1>1, <1>5, <2>2 DEF HandleSeal, Next, Server
<1>6. ASSUME NEW s \in Socks, Reconnect(s) \/ Disconnect(s) \/ Receive(s) PROVE Next
  BY <1>6 DEF Reconnect, Disconnect, Receive, Next, Server, Device
<1>7. ASSUME Object PROVE Next
  BY <1>7 DEF Object, Next, Server
<1>8. ASSUME \/ Begin \/ TakeOneTimePreKey \/ CommitSession \/ AddContact
             \/ AppendMessage \/ MarkProcessed \/ WriteFails
      PROVE  UNCHANGED vars
  BY <1>8 DEF Begin, TakeOneTimePreKey, CommitSession, AddContact, AppendMessage, MarkProcessed, WriteFails, vars
<1>9. ASSUME SendAck PROVE [Next]_vars
  <2>1. CASE UNCHANGED uplink
    BY <1>9, <2>1 DEF SendAck, vars, storage
  <2>2. CASE \E s \in alive : /\ Len(uplink[s]) < MaxUplink
                              /\ uplink' = [uplink EXCEPT ![s] = Append(@, job.frame.id)]
    <3>1. PICK s \in alive : /\ Len(uplink[s]) < MaxUplink
                             /\ uplink' = [uplink EXCEPT ![s] = Append(@, job.frame.id)]
      BY <2>2
    <3>2. job # NoJob
      BY <1>9 DEF SendAck, NoJob
    <3>3. job.frame.id \in seen /\ job.frame.id \in Ids /\ s \in Socks
      BY <3>2, JobFacts DEF DInv, ReadOK, TypeOK
    <3>4. DeviceAck(s, job.frame.id)
      BY <1>9, <3>1, <3>3 DEF SendAck, DeviceAck
    <3> QED
      BY <3>3, <3>4 DEF Next, Device
  <2> QED
    BY <1>9, <2>1, <2>2 DEF SendAck
<1>10. ASSUME Crash PROVE [Next]_vars
  <2>1. wire \in [Socks -> Seq(Frame)] /\ uplink \in [Socks -> Seq(Ids)] /\ alive \subseteq Socks
    BY DEF DInv, TypeOK
  <2>2. CASE alive = {}
    <3>1. wire' = wire /\ uplink' = uplink
      BY <1>10, <2>1, <2>2 DEF Crash, DInv, LinksOK
    <3> QED
      BY <1>10, <2>2, <3>1 DEF Crash, vars, storage
  <2>3. CASE alive # {}
    <3>1. PICK s \in alive : alive = {s}
      BY <2>3 DEF DInv, LinksOK
    <3>2. /\ wire' = [wire EXCEPT ![s] = << >>]
          /\ uplink' = [uplink EXCEPT ![s] = << >>]
      BY <1>10, <2>1, <3>1 DEF Crash, DInv, LinksOK
    <3>3. LinkDown(s)
      BY <1>10, <3>1, <3>2 DEF Crash, LinkDown
    <3> QED
      BY <2>1, <3>3 DEF Next, Server
  <2> QED
    BY <2>2, <2>3
<1> QED
  BY <1>2, <1>3, <1>4, <1>5, <1>6, <1>7, <1>8, <1>9, <1>10 DEF DeliveryNext, Client

-----------------------------------------------------------------------------
(* The type invariant.                                                     *)

LEMMA SendTypes ==
    ASSUME DInv, NEW f \in Senders,
           \/ SendPlain(f) \/ SendWithoutKey(f) \/ HandOn(f) \/ Accepted(f) \/ PostAgain(f) \/ FallBack(f)
           \/ \E t \in Tokens : SendSealed(f, t)
    PROVE  DTypeOK'
<1> USE DEF DInv, DTypeOK
<1>1. "primary" \in Relays /\ mode.relays \subseteq Relays
  BY DeliveryAssumption DEF DeliveryAssumption
<1>2. UNCHANGED <<mode, client, ghosts>>
  BY DEF SendPlain, SendWithoutKey, HandOn, Accepted, PostAgain, FallBack, SendSealed
<1>3. ASSUME nextN' \in [Senders -> 1 .. MaxN + 1], opkUsed' \in [Senders -> BOOLEAN],
             call' \in [Senders -> Requests \cup {NoCall}], posted' \subseteq Requests,
             outbox' \in [Senders -> Seq(Ids)]
      PROVE  DTypeOK'
  BY <1>2, <1>3 DEF client, ghosts
<1>4. ASSUME NextSend(f) PROVE /\ nextN' \in [Senders -> 1 .. MaxN + 1]
                               /\ opkUsed' \in [Senders -> BOOLEAN]
                               /\ <<f, nextN[f]>> \in Ids
  <2>1. <<f, nextN[f]>> \in Ids /\ nextN[f] \in 1 .. MaxN /\ MaxN \in Nat
    BY <1>4, NextIsId, DeliveryAssumption DEF DeliveryAssumption
  <2>2. nextN[f] + 1 \in 1 .. MaxN + 1
    BY <2>1
  <2>3. nextN' \in [Senders -> 1 .. MaxN + 1]
    BY <1>4, <2>2 DEF NextSend
  <2>4. opkUsed' \in [Senders -> BOOLEAN]
    BY <1>4 DEF NextSend, EnsureSession
  <2> QED
    BY <2>1, <2>3, <2>4
<1>5. ASSUME NEW m \in Ids, ToOutbox(f, m) PROVE outbox' \in [Senders -> Seq(Ids)]
  BY <1>5, AppendProperties DEF ToOutbox
<1>6. CASE SendPlain(f) \/ SendWithoutKey(f)
  BY <1>3, <1>4, <1>5, <1>6 DEF SendPlain, SendWithoutKey
<1>7. CASE \E t \in Tokens : SendSealed(f, t)
  <2>1. PICK t \in Tokens : SendSealed(f, t)
    BY <1>7
  <2>2. <<f, nextN[f]>> \in Ids
    BY <1>4, <2>1 DEF SendSealed
  <2>3. Request(f, t) \in Requests
    BY <1>1, <2>2 DEF Request, Requests
  <2> QED
    BY <1>3, <1>4, <2>1, <2>3 DEF SendSealed
<1>8. CASE HandOn(f)
  <2>1. outbox' \in [Senders -> Seq(Ids)]
    BY <1>8, HeadTailProperties DEF HandOn
  <2> QED
    BY <1>3, <1>8, <2>1 DEF HandOn
<1>9. CASE Accepted(f)
  BY <1>3, <1>9 DEF Accepted
<1>10. ASSUME NEW rest \in AfterFailure(call[f]) PROVE rest \subseteq Requests
  BY <1>10 DEF AfterFailure
<1>11. CASE PostAgain(f)
  <2>1. "fallback" \in Relays /\ call[f] \in Requests
    BY <1>1, <1>11 DEF PostAgain, NoCall
  <2>2. PICK again : again = [call[f] EXCEPT !.relay = "fallback"]
    OBVIOUS
  <2>3. again \in Requests
    BY <2>1, <2>2 DEF Requests
  <2>4. call' = [call EXCEPT ![f] = again] /\ \E rest \in AfterFailure(call[f]) : posted' = rest \cup {again}
    BY <1>11, <2>2 DEF PostAgain
  <2>5. posted' \subseteq Requests
    BY <1>10, <2>3, <2>4
  <2>6. call' \in [Senders -> Requests \cup {NoCall}]
    BY <2>3, <2>4
  <2>7. nextN' = nextN /\ opkUsed' = opkUsed /\ outbox' = outbox
    BY <1>11 DEF PostAgain
  <2> QED
    BY <1>3, <2>5, <2>6, <2>7
<1>12. CASE FallBack(f)
  <2>1. call[f] \in Requests
    BY <1>12 DEF FallBack
  <2>2. call[f].id \in Ids
    BY <2>1 DEF Requests
  <2> QED
    BY <1>3, <1>5, <1>10, <1>12, <2>2 DEF FallBack
<1> QED
  BY <1>6, <1>7, <1>8, <1>9, <1>11, <1>12

\* A job put together, at its next stage, or over.
LEMMA JobMoves ==
    ASSUME DTypeOK, NEW pc \in {"take", "commit", "contact", "append", "mark", "ack"},
           job # NoJob, job' = [job EXCEPT !.pc = pc]
    PROVE  job' = [pc |-> pc, frame |-> job.frame] /\ job' \in Jobs
BY JobFacts DEF Jobs

LEMMA ClientTypes ==
    ASSUME DInv,
           \/ Begin \/ TakeOneTimePreKey \/ CommitSession \/ AddContact
           \/ AppendMessage \/ MarkProcessed \/ SendAck \/ WriteFails
    PROVE  DTypeOK'
<1> USE DEF DInv, DTypeOK
<1>1. UNCHANGED senders
  BY DEF Begin, TakeOneTimePreKey, CommitSession, AddContact, AppendMessage, MarkProcessed, SendAck, WriteFails
<1>2. ASSUME chainq' \in Seq(Frame), job' \in Jobs \cup {NoJob}, session' \in [Senders -> SUBSET (1 .. MaxN)],
             opkHeld' \subseteq Senders, contacts' \subseteq Senders, history' \in Seq(Ids),
             processed' \subseteq Ids, acked' \subseteq Ids, torn' \subseteq Ids, faults' \in Nat
      PROVE  DTypeOK'
  BY <1>1, <1>2 DEF senders
<1>3. CASE Begin
  <2>1. chainq' = Tail(chainq) /\ chainq # << >> /\ Head(chainq) \in Frame
    BY <1>3, HeadTailProperties DEF Begin
  <2>2. chainq' \in Seq(Frame)
    BY <2>1, HeadTailProperties
  <2>3. job' \in Jobs \cup {NoJob}
    <3>1. PICK fr : fr = Head(chainq)
      OBVIOUS
    <3>2. job' = job \/ \E pc \in {"take", "commit", "mark", "ack"} : job' = [pc |-> pc, frame |-> fr]
      BY <1>3, <3>1 DEF Begin
    <3> QED
      BY <2>1, <3>1, <3>2 DEF Jobs
  <2>4. faults' \in Nat
    BY <1>3 DEF Begin, Fault
  <2> QED
    BY <1>2, <1>3, <2>2, <2>3, <2>4 DEF Begin
<1>4. ASSUME job # NoJob PROVE job.frame.id \in Ids /\ SenderOf(job.frame.id) \in Senders /\ Number(job.frame.id) \in 1 .. MaxN
  BY <1>4, JobFacts, IdFacts
<1>5. ASSUME NEW pc \in {"take", "commit", "contact", "append", "mark", "ack"}, job # NoJob, Goto(pc)
      PROVE  job' \in Jobs
  BY <1>5, JobMoves DEF Goto
<1>6. CASE TakeOneTimePreKey
  BY <1>2, <1>5, <1>6 DEF TakeOneTimePreKey, NoJob, ghosts
<1>7. CASE CommitSession
  <2>1. job # NoJob
    BY <1>7 DEF CommitSession, NoJob
  <2>2. session' \in [Senders -> SUBSET (1 .. MaxN)]
    BY <1>4, <1>7, <2>1 DEF CommitSession
  <2>3. job' \in Jobs
    BY <1>5, <1>7, <2>1 DEF CommitSession, AfterCommit
  <2> QED
    BY <1>2, <1>7, <2>2, <2>3 DEF CommitSession, ghosts
<1>8. CASE AddContact
  BY <1>2, <1>4, <1>5, <1>8 DEF AddContact, NoJob, ghosts
<1>9. CASE AppendMessage
  <2>1. job # NoJob
    BY <1>9 DEF AppendMessage, NoJob
  <2>2. history' \in Seq(Ids)
    BY <1>4, <1>9, <2>1, AppendProperties DEF AppendMessage
  <2> QED
    BY <1>2, <1>5, <1>9, <2>1, <2>2 DEF AppendMessage, ghosts
<1>10. CASE MarkProcessed
  BY <1>2, <1>4, <1>5, <1>10 DEF MarkProcessed, NoJob, ghosts
<1>11. CASE SendAck
  BY <1>2, <1>4, <1>11 DEF SendAck, NoJob
<1>12. CASE WriteFails
  <2>1. job # NoJob /\ faults' \in Nat
    BY <1>12 DEF WriteFails, NoJob, Fault
  <2> QED
    BY <1>2, <1>4, <1>5, <1>12, <2>1 DEF WriteFails
<1> QED
  BY <1>3, <1>6, <1>7, <1>8, <1>9, <1>10, <1>11, <1>12

LEMMA TypeStep == ASSUME DInv, [DeliveryNext]_dvars PROVE TypeOK' /\ DTypeOK'
<1>1. TypeOK'
  BY ActsStep, NextType, MailboxAssumption DEF DInv
<1> USE DEF DInv, DTypeOK
<1>2. CASE UNCHANGED dvars
  BY <1>1, <1>2 DEF dvars, senders, client, ghosts
<1>3. ASSUME NEW p \in posted, HandleSeal(p) PROVE DTypeOK'
  BY <1>3 DEF HandleSeal, client, ghosts
<1>4. ASSUME NEW s \in Socks, Reconnect(s) \/ Disconnect(s) PROVE DTypeOK'
  BY <1>4 DEF Reconnect, Disconnect, senders, client, ghosts
<1>5. ASSUME NEW s \in Socks, Receive(s) PROVE DTypeOK'
  <2>1. wire[s] \in Seq(Frame) /\ wire[s] # << >>
    BY <1>5 DEF Receive, DeviceRead, TypeOK
  <2>2. chainq' \in Seq(Frame)
    BY <1>5, <2>1, HeadTailProperties, AppendProperties DEF Receive
  <2> QED
    BY <1>5, <2>2 DEF Receive, senders, ghosts
<1>6. ASSUME Object PROVE DTypeOK'
  BY <1>6 DEF Object, senders, client, ghosts
<1>7. ASSUME Crash PROVE DTypeOK'
  <2>1. PartlyWritten => job.frame.id \in Ids
    BY JobFacts DEF PartlyWritten, NoJob
  <2>2. torn' \subseteq Ids /\ faults' \in Nat /\ chainq' \in Seq(Frame)
    BY <1>7, <2>1, EmptySeq DEF Crash, Fault
  <2> QED
    BY <1>7, <2>2 DEF Crash, senders
<1> QED
  BY <1>1, <1>2, <1>3, <1>4, <1>5, <1>6, <1>7, SendTypes, ClientTypes DEF DeliveryNext, Client

-----------------------------------------------------------------------------
(* The links, and what was read.                                           *)

LEMMA LinksStep == ASSUME DInv, [DeliveryNext]_dvars PROVE LinksOK'
<1> USE DEF DInv, TypeOK, LinksOK
<1>1. ASSUME alive' = alive, \A s \in Socks \ alive : wire'[s] = wire[s] /\ uplink'[s] = uplink[s]
      PROVE  LinksOK'
  BY <1>1
<1>2. ASSUME UNCHANGED links PROVE LinksOK'
  BY <1>1, <1>2 DEF links
<1>3. CASE UNCHANGED dvars
  BY <1>2, <1>3 DEF dvars, vars, links
<1>4. ASSUME NEW f \in Senders,
             \/ SendPlain(f) \/ SendWithoutKey(f) \/ Accepted(f) \/ PostAgain(f) \/ FallBack(f)
             \/ \E t \in Tokens : SendSealed(f, t)
      PROVE  UNCHANGED links
  BY <1>4 DEF SendPlain, SendWithoutKey, Accepted, PostAgain, FallBack, SendSealed, vars, links
<1>5. ASSUME NEW f \in Senders, HandOn(f) PROVE LinksOK'
  BY <1>1, <1>5 DEF HandOn, Deliver, SendLive
<1>6. ASSUME NEW p \in posted, HandleSeal(p) PROVE LinksOK'
  BY <1>1, <1>6 DEF HandleSeal, SealedDeliver, SendLive
<1>7. ASSUME NEW s \in Socks, Reconnect(s) PROVE LinksOK'
  BY <1>7 DEF Reconnect, Connect
<1>8. ASSUME NEW s \in Socks, Disconnect(s) PROVE LinksOK'
  BY <1>8 DEF Disconnect, LinkDown
<1>9. ASSUME NEW s \in Socks, Receive(s) PROVE LinksOK'
  BY <1>1, <1>9 DEF Receive, DeviceRead
<1>10. ASSUME Object PROVE LinksOK'
  BY <1>1, <1>10 DEF Object, SocketClosed, HandleAck, RegisterToken, links
<1>11. ASSUME \/ Begin \/ TakeOneTimePreKey \/ CommitSession \/ AddContact
              \/ AppendMessage \/ MarkProcessed \/ WriteFails
       PROVE  UNCHANGED links
  BY <1>11 DEF Begin, TakeOneTimePreKey, CommitSession, AddContact, AppendMessage, MarkProcessed, WriteFails, vars, links
<1>12. ASSUME SendAck PROVE LinksOK'
  BY <1>1, <1>12 DEF SendAck
<1>13. ASSUME Crash PROVE LinksOK'
  BY <1>13 DEF Crash
<1> QED
  BY <1>2, <1>3, <1>4, <1>5, <1>6, <1>7, <1>8, <1>9, <1>10, <1>11, <1>12, <1>13 DEF DeliveryNext, Client

\* What a chain that lost its head, or got another frame, consists of.
LEMMA TailFrames ==
    ASSUME NEW S, NEW q \in Seq(S), q # << >>
    PROVE  \A i \in DOMAIN Tail(q) : i + 1 \in DOMAIN q /\ Tail(q)[i] = q[i + 1]
BY HeadTailProperties, LenProperties

LEMMA AppendFrames ==
    ASSUME NEW S, NEW q \in Seq(S), NEW x \in S
    PROVE  \A i \in DOMAIN Append(q, x) : (i \in DOMAIN q /\ Append(q, x)[i] = q[i]) \/ Append(q, x)[i] = x
BY AppendProperties, LenProperties

LEMMA HeadFrame ==
    ASSUME NEW S, NEW q \in Seq(S), q # << >>
    PROVE  1 \in DOMAIN q /\ Head(q) = q[1] /\ Head(q) \in S
BY HeadTailProperties, LenProperties

LEMMA InTail == ASSUME NEW S, NEW q \in Seq(S), q # << >>, NEW x, InSeq(Tail(q), x) PROVE InSeq(q, x)
BY TailFrames DEF InSeq

LEMMA InAppend ==
    ASSUME NEW S, NEW q \in Seq(S), NEW y \in S, NEW x, InSeq(Append(q, y), x)
    PROVE  InSeq(q, x) \/ x = y
BY AppendFrames DEF InSeq

LEMMA InHead == ASSUME NEW S, NEW q \in Seq(S), q # << >> PROVE InSeq(q, Head(q)) /\ Head(q) \in S
BY HeadFrame DEF InSeq

LEMMA ReadStep == ASSUME DInv, [DeliveryNext]_dvars PROVE ReadOK'
<1> USE DEF DInv, ReadOK
<1>1. ASSUME chainq' = chainq, job' = job, seen \subseteq seen' PROVE ReadOK'
  BY <1>1
<1>2. ASSUME chainq' = chainq, seen' = seen, job' = NoJob \/ (job # NoJob /\ \E pc : Goto(pc)) PROVE ReadOK'
  <2>1. job' # NoJob => job # NoJob /\ job'.frame = job.frame
    BY <1>2, JobFacts DEF Goto
  <2> QED
    BY <1>2, <2>1
<1>3. CASE UNCHANGED dvars
  BY <1>1, <1>3 DEF dvars, vars, client
<1>4. ASSUME NEW f \in Senders,
             \/ SendPlain(f) \/ SendWithoutKey(f) \/ Accepted(f) \/ PostAgain(f) \/ FallBack(f) \/ HandOn(f)
             \/ \E t \in Tokens : SendSealed(f, t)
      PROVE  UNCHANGED <<chainq, job, seen>>
  BY <1>4 DEF SendPlain, SendWithoutKey, Accepted, PostAgain, FallBack, SendSealed, HandOn, Deliver, vars, client
<1>5. ASSUME NEW p \in posted, HandleSeal(p) PROVE UNCHANGED <<chainq, job, seen>>
  BY <1>5 DEF HandleSeal, SealedDeliver, client
<1>6. ASSUME NEW s \in Socks, Reconnect(s) \/ Disconnect(s) PROVE UNCHANGED <<chainq, job, seen>>
  BY <1>6 DEF Reconnect, Disconnect, Connect, LinkDown, client
<1>7. ASSUME NEW s \in Socks, Receive(s) PROVE ReadOK'
  <2>1. wire[s] \in Seq(Frame) /\ wire[s] # << >> /\ chainq \in Seq(Frame)
    BY <1>7 DEF Receive, DeviceRead, TypeOK, DTypeOK
  <2>2. Head(wire[s]) \in Frame
    BY <2>1, HeadFrame
  <2>3. chainq' = Append(chainq, Head(wire[s])) /\ job' = job /\ seen' = seen \cup {Head(wire[s]).id}
    BY <1>7 DEF Receive, DeviceRead
  <2>4. \A i \in DOMAIN chainq' : (i \in DOMAIN chainq /\ chainq'[i] = chainq[i]) \/ chainq'[i] = Head(wire[s])
    BY <2>1, <2>2, <2>3, AppendFrames
  <2> QED
    BY <2>3, <2>4
<1>8. ASSUME Object PROVE UNCHANGED <<chainq, job, seen>>
  BY <1>8 DEF Object, SocketClosed, HandleAck, RegisterToken, client
<1>9. ASSUME Begin PROVE ReadOK'
  <2>1. chainq \in Seq(Frame) /\ chainq # << >> /\ chainq' = Tail(chainq) /\ job = NoJob /\ seen' = seen
    BY <1>9 DEF Begin, DTypeOK, vars
  <2>2. \A i \in DOMAIN chainq' : chainq'[i].id \in seen
    BY <2>1, TailFrames
  <2>3. Head(chainq).id \in seen
    BY <2>1, HeadFrame
  <2>4. job' = NoJob \/ \E pc : job' = [pc |-> pc, frame |-> Head(chainq)]
    BY <1>9, <2>1 DEF Begin
  <2> QED
    BY <2>1, <2>2, <2>3, <2>4
<1>10. ASSUME TakeOneTimePreKey \/ CommitSession \/ AddContact \/ AppendMessage \/ MarkProcessed \/ WriteFails \/ SendAck
       PROVE  ReadOK'
  <2>1. job # NoJob
    BY <1>10 DEF NoJob, TakeOneTimePreKey, CommitSession, AddContact, AppendMessage, MarkProcessed, WriteFails, SendAck
  <2>2. chainq' = chainq /\ seen' = seen /\ (job' = NoJob \/ \E pc : Goto(pc))
    BY <1>10 DEF TakeOneTimePreKey, CommitSession, AddContact, AppendMessage, MarkProcessed, WriteFails, SendAck, vars
  <2> QED
    BY <1>2, <2>1, <2>2
<1>11. ASSUME Crash PROVE ReadOK'
  BY <1>11 DEF Crash
<1> QED
  BY <1>1, <1>3, <1>4, <1>5, <1>6, <1>7, <1>8, <1>9, <1>10, <1>11 DEF DeliveryNext, Client

LEMMA DeliveryStarts == ASSUME DeliveryInit PROVE DInv
<1>1. TypeOK
  BY InitType, MailboxAssumption DEF DeliveryInit
<1>2. MaxN \in Nat \ {0}
  BY DeliveryAssumption DEF DeliveryAssumption
<1>3. 1 \in 1 .. MaxN + 1
  BY <1>2
<1>4. DTypeOK
  BY <1>3, EmptySeq DEF DeliveryInit, DTypeOK
<1>5. LinksOK /\ ReadOK
  BY DEF DeliveryInit, Init, LinksOK, ReadOK
<1> QED
  BY <1>1, <1>4, <1>5 DEF DInv

THEOREM DInvHolds == DeliverySpec => []DInv
<1>1. DeliveryInit => DInv
  BY DeliveryStarts
<1>2. DInv /\ [DeliveryNext]_dvars => DInv'
  BY TypeStep, LinksStep, ReadStep DEF DInv
<1> QED
  BY <1>1, <1>2, PTL DEF DeliverySpec

(* The client's state has its types, whatever its sizes (Chat.tsx,         *)
(* messaging.ts, the keystore).                                            *)
THEOREM ClientTypeCorrect == DeliverySpec => []ClientTypeOK
<1>1. DInv => ClientTypeOK
  BY DEF DInv, DTypeOK, ClientTypeOK, Requests, Jobs, NoCall
<1> QED
  BY <1>1, DInvHolds, PTL

(* The real client, the gateway and its relays stay within what Mailbox    *)
(* says of its environment: an ack only names a frame that was read from   *)
(* one of the owner's sockets (Chat.tsx, seal.ts).                         *)
THEOREM DeliveryImplementsMailbox == DeliverySpec => ActsAsDevice
<1>1. DeliveryInit => Init
  BY DEF DeliveryInit
<1>2. DInv /\ [DeliveryNext]_dvars => [Next]_vars
  BY ActsStep
<1> QED
  BY <1>1, <1>2, DInvHolds, PTL DEF DeliverySpec, ActsAsDevice, Spec

-----------------------------------------------------------------------------
(* What there is was sent.                                                 *)

LEMMA SentGrows ==
    ASSUME DInv, DTypeOK', [DeliveryNext]_dvars
    PROVE  /\ mode' = mode
           /\ \A f \in Senders : nextN'[f] = nextN[f] \/ (NextSend(f) /\ nextN'[f] = nextN[f] + 1)
           /\ \A m \in Ids : Sent(m) => Sent(m)'
           /\ \A fr \in Frame : Real(fr) => Real(fr)'
<1> USE DEF DInv, DTypeOK
<1>1. mode' = mode /\ (nextN' = nextN \/ \E f \in Senders : NextSend(f))
  BY DEF DeliveryNext, SendPlain, SendWithoutKey, HandOn, Accepted, PostAgain, FallBack, SendSealed, HandleSeal,
         Reconnect, Disconnect, Receive, Object, Client, Begin, TakeOneTimePreKey, CommitSession, AddContact,
         AppendMessage, MarkProcessed, SendAck, Crash, WriteFails, senders, dvars
<1>2. \A f \in Senders : nextN'[f] = nextN[f] \/ (NextSend(f) /\ nextN'[f] = nextN[f] + 1)
  BY <1>1 DEF NextSend
<1>3. \A f \in Senders : nextN[f] \in Nat /\ nextN'[f] \in Nat /\ nextN'[f] >= nextN[f]
  <2>1. MaxN \in Nat
    BY DeliveryAssumption DEF DeliveryAssumption
  <2>2. \A f \in Senders : nextN[f] \in Nat
    BY <2>1
  <2>3. ASSUME NEW f \in Senders PROVE nextN'[f] \in Nat /\ nextN'[f] >= nextN[f]
    <3>1. PICK n \in Nat : n = nextN[f]
      BY <2>2
    <3>2. nextN'[f] = n \/ nextN'[f] = n + 1
      BY <1>2, <3>1
    <3> QED
      BY <3>1, <3>2
  <2> QED
    BY <2>2, <2>3
<1>4. ASSUME NEW m \in Ids, Sent(m) PROVE Sent(m)'
  <2>1. SenderOf(m) \in Senders /\ Number(m) \in Nat
    BY IdFacts
  <2> QED
    BY <1>3, <1>4, <2>1 DEF Sent
<1>5. ASSUME NEW fr \in Frame, Real(fr) PROVE Real(fr)'
  <2>1. fr.id \in Ids
    BY DEF Frame
  <2> QED
    BY <1>1, <1>4, <1>5, <2>1 DEF Real
<1> QED
  BY <1>1, <1>2, <1>4, <1>5

LEMMA OutboxStep == ASSUME DInv, DTypeOK', OutboxSent, RequestsSent, [DeliveryNext]_dvars PROVE OutboxSent'
<1> USE DEF DInv, DTypeOK, OutboxSent
<1>1. \A m \in Ids : Sent(m) => Sent(m)'
  BY SentGrows
<1>2. ASSUME outbox' = outbox PROVE OutboxSent'
  BY <1>1, <1>2
<1>3. ASSUME NEW f \in Senders, NEW m \in Ids, ToOutbox(f, m), Sent(m)' PROVE OutboxSent'
  <2>1. outbox'[f] = Append(outbox[f], m) /\ \A g \in Senders \ {f} : outbox'[g] = outbox[g]
    BY <1>3 DEF ToOutbox
  <2>2. \A x \in Ids : InSeq(outbox'[f], x) => InSeq(outbox[f], x) \/ x = m
    BY <2>1, InAppend
  <2> QED
    BY <1>1, <1>3, <2>1, <2>2
<1>4. ASSUME NEW f \in Senders, SendPlain(f) \/ SendWithoutKey(f) PROVE OutboxSent'
  <2>1. NextSend(f) /\ ToOutbox(f, <<f, nextN[f]>>)
    BY <1>4 DEF SendPlain, SendWithoutKey
  <2>2. PICK m \in Ids : m = <<f, nextN[f]>> /\ nextN[f] \in 1 .. MaxN
    BY <2>1, NextIsId
  <2>3. nextN'[f] = nextN[f] + 1
    BY <2>1 DEF NextSend
  <2>4. MaxN \in Nat
    BY DeliveryAssumption DEF DeliveryAssumption
  <2>5. SenderOf(m) = f /\ Number(m) = nextN[f]
    BY <2>2, PairFacts
  <2>6. Sent(m)'
    BY <2>2, <2>3, <2>4, <2>5 DEF Sent
  <2> QED
    BY <1>3, <2>1, <2>2, <2>6
<1>5. ASSUME NEW f \in Senders, FallBack(f) PROVE OutboxSent'
  <2>1. call[f] \in Requests
    BY <1>5 DEF FallBack
  <2>2. call[f].id \in Ids /\ Sent(call[f].id)
    BY <2>1 DEF Requests, RequestsSent
  <2>3. PICK m \in Ids : m = call[f].id
    BY <2>2
  <2> QED
    BY <1>1, <1>3, <1>5, <2>2, <2>3 DEF FallBack
<1>6. ASSUME NEW f \in Senders, HandOn(f) PROVE OutboxSent'
  <2>1. outbox[f] # << >> /\ outbox'[f] = Tail(outbox[f]) /\ \A g \in Senders \ {f} : outbox'[g] = outbox[g]
    BY <1>6 DEF HandOn
  <2>2. \A x \in Ids : InSeq(outbox'[f], x) => InSeq(outbox[f], x)
    BY <2>1, InTail
  <2> QED
    BY <1>1, <2>1, <2>2
<1>7. outbox' = outbox \/ \E f \in Senders : SendPlain(f) \/ SendWithoutKey(f) \/ FallBack(f) \/ HandOn(f)
  BY DEF DeliveryNext, Accepted, PostAgain, SendSealed, HandleSeal,
         Reconnect, Disconnect, Receive, Object, Client, Begin, TakeOneTimePreKey, CommitSession, AddContact,
         AppendMessage, MarkProcessed, SendAck, Crash, WriteFails, senders, dvars
<1> QED
  BY <1>2, <1>4, <1>5, <1>6, <1>7

LEMMA RequestsStep == ASSUME DInv, DTypeOK', RequestsSent, [DeliveryNext]_dvars PROVE RequestsSent'
<1> USE DEF DInv, DTypeOK
<1>1. (\A m \in Ids : Sent(m) => Sent(m)') /\ mode' = mode
  BY SentGrows
<1>2. \A p \in Requests : Sent(p.id) => Sent(p.id)'
  BY <1>1 DEF Requests
<1>3. ASSUME NEW r \in Requests, Sent(r.id)', mode.token,
             posted' \subseteq posted \cup {r}, \A f \in Senders : call'[f] \in {call[f], NoCall, r}
      PROVE  RequestsSent'
  <2>1. NoCall \notin Requests
    BY DeliveryAssumption DEF NoCall, Requests, DeliveryAssumption
  <2>2. ASSUME NEW p \in Requests, p \in posted' \/ \E f \in Senders : call'[f] = p
        PROVE  Sent(p.id)' /\ mode.token
    <3>1. p = r \/ p \in posted \/ \E f \in Senders : call[f] = p
      BY <1>3, <2>1, <2>2
    <3> QED
      BY <1>2, <1>3, <3>1 DEF RequestsSent
  <2> QED
    BY <1>1, <2>2 DEF RequestsSent
<1>4. ASSUME posted' \subseteq posted, \A f \in Senders : call'[f] \in {call[f], NoCall} PROVE RequestsSent'
  <2>1. NoCall \notin Requests
    BY DeliveryAssumption DEF NoCall, Requests, DeliveryAssumption
  <2>2. ASSUME NEW p \in Requests, p \in posted' \/ \E f \in Senders : call'[f] = p
        PROVE  Sent(p.id)' /\ mode.token
    BY <1>2, <1>4, <2>1, <2>2 DEF RequestsSent
  <2> QED
    BY <1>1, <2>2 DEF RequestsSent
<1>5. ASSUME NEW f \in Senders, NEW t \in Tokens, SendSealed(f, t) PROVE RequestsSent'
  <2>1. NextSend(f) /\ mode.token /\ call' = [call EXCEPT ![f] = Request(f, t)] /\ posted' = posted \cup {Request(f, t)}
    BY <1>5 DEF SendSealed
  <2>2. <<f, nextN[f]>> \in Ids /\ nextN[f] \in 1 .. MaxN /\ nextN'[f] = nextN[f] + 1
    BY <2>1, NextIsId DEF NextSend
  <2>3. MaxN \in Nat /\ "primary" \in Relays
    BY DeliveryAssumption DEF DeliveryAssumption
  <2>4. PICK m \in Ids : m = <<f, nextN[f]>>
    BY <2>2
  <2>5. Sent(m)'
    BY <2>2, <2>3, <2>4, PairFacts DEF Sent
  <2>6. PICK r : r = [id |-> m, relay |-> "primary", token |-> t]
    OBVIOUS
  <2>7. r \in Requests /\ r.id = m /\ r = Request(f, t)
    BY <2>3, <2>4, <2>6 DEF Request, Requests
  <2> QED
    BY <1>3, <2>1, <2>5, <2>7
<1>6. ASSUME NEW f \in Senders, PostAgain(f) PROVE RequestsSent'
  <2>1. call[f] \in Requests
    BY <1>6 DEF PostAgain, NoCall
  <2>2. PICK again : again = [call[f] EXCEPT !.relay = "fallback"]
    OBVIOUS
  <2>3. "fallback" \in Relays
    BY <1>6, DeliveryAssumption DEF PostAgain, DeliveryAssumption
  <2>4. again \in Requests /\ again.id = call[f].id
    BY <2>1, <2>2, <2>3 DEF Requests
  <2>5. call' = [call EXCEPT ![f] = again] /\ posted' \subseteq posted \cup {again}
    BY <1>6, <2>2 DEF PostAgain, AfterFailure
  <2>6. Sent(call[f].id) /\ mode.token
    BY <2>1 DEF RequestsSent
  <2> QED
    BY <1>2, <1>3, <2>1, <2>4, <2>5, <2>6
<1>7. \/ posted' \subseteq posted /\ \A f \in Senders : call'[f] \in {call[f], NoCall}
      \/ \E f \in Senders : PostAgain(f) \/ \E t \in Tokens : SendSealed(f, t)
  BY DEF DeliveryNext, Accepted, SendPlain, SendWithoutKey, FallBack, AfterFailure, HandOn, HandleSeal,
         Reconnect, Disconnect, Receive, Object, Client, Begin, TakeOneTimePreKey, CommitSession, AddContact,
         AppendMessage, MarkProcessed, SendAck, Crash, WriteFails, senders, dvars
<1> QED
  BY <1>4, <1>5, <1>6, <1>7

LEMMA OpkStep == ASSUME DInv, DTypeOK', OpkSent, [DeliveryNext]_dvars PROVE OpkSent'
<1> USE DEF DInv, DTypeOK, OpkSent
<1>1. /\ mode' = mode
      /\ \A f \in Senders : nextN'[f] = nextN[f] \/ (NextSend(f) /\ nextN'[f] = nextN[f] + 1)
  BY SentGrows
<1>2. \A f \in Senders : nextN[f] \in Nat
  <2>1. MaxN \in Nat
    BY DeliveryAssumption DEF DeliveryAssumption
  <2> QED
    BY <2>1
<1>3. CASE opkUsed' = opkUsed
  <2>1. ASSUME NEW f \in Senders, opkUsed[f] PROVE mode.opk /\ nextN'[f] > 1
    <3>1. nextN[f] \in Nat /\ nextN[f] > 1 /\ (nextN'[f] = nextN[f] \/ nextN'[f] = nextN[f] + 1)
      BY <1>1, <1>2, <2>1
    <3> QED
      BY <2>1, <3>1
  <2> QED
    BY <1>1, <1>3, <2>1
<1>4. ASSUME NEW f \in Senders, NextSend(f) PROVE OpkSent'
  <2>1. CASE nextN[f] = 1 /\ mode.opk /\ \E opk \in BOOLEAN : opkUsed' = [opkUsed EXCEPT ![f] = opk]
    <3>1. nextN'[f] = 2
      BY <1>4, <2>1 DEF NextSend
    <3> QED
      BY <1>1, <1>2, <2>1, <3>1
  <2> QED
    BY <1>3, <1>4, <2>1 DEF NextSend, EnsureSession
<1>5. opkUsed' = opkUsed \/ \E f \in Senders : NextSend(f)
  BY DEF DeliveryNext, SendPlain, SendWithoutKey, HandOn, Accepted, PostAgain, FallBack, SendSealed, HandleSeal,
         Reconnect, Disconnect, Receive, Object, Client, Begin, TakeOneTimePreKey, CommitSession, AddContact,
         AppendMessage, MarkProcessed, SendAck, Crash, WriteFails, senders, dvars
<1> QED
  BY <1>3, <1>4, <1>5

\* What the object is handed is real.
LEMMA HandedReal ==
    ASSUME DInv, SentInv
    PROVE  /\ \A f \in Senders : outbox[f] # << >> =>
                 /\ Head(outbox[f]) \in Ids
                 /\ [from |-> f, seq |-> sendSeq[f], id |-> Head(outbox[f])] \in Frame
                 /\ Real([from |-> f, seq |-> sendSeq[f], id |-> Head(outbox[f])])
           /\ \A p \in posted : \A n \in Nat :
                 /\ p.id \in Ids /\ [from |-> Anon, seq |-> n, id |-> p.id] \in Frame
                 /\ Real([from |-> Anon, seq |-> n, id |-> p.id])
<1>1. ASSUME NEW f \in Senders, outbox[f] # << >>
      PROVE  /\ Head(outbox[f]) \in Ids
             /\ [from |-> f, seq |-> sendSeq[f], id |-> Head(outbox[f])] \in Frame
             /\ Real([from |-> f, seq |-> sendSeq[f], id |-> Head(outbox[f])])
  <2>1. Head(outbox[f]) \in Ids /\ InSeq(outbox[f], Head(outbox[f]))
    BY <1>1, InHead DEF DInv, DTypeOK
  <2>2. Sent(Head(outbox[f]))
    BY <2>1 DEF SentInv, SendersSent, OutboxSent
  <2>3. f # Anon /\ sendSeq[f] \in Nat
    BY MailboxAssumption DEF MailboxAssumption, DInv, TypeOK
  <2> QED
    BY <2>1, <2>2, <2>3 DEF Real, Frame, Segments
<1>2. ASSUME NEW p \in posted, NEW n \in Nat
      PROVE  /\ p.id \in Ids /\ [from |-> Anon, seq |-> n, id |-> p.id] \in Frame
             /\ Real([from |-> Anon, seq |-> n, id |-> p.id])
  <2>1. p \in Requests
    BY DEF DInv, DTypeOK
  <2>2. p.id \in Ids /\ Sent(p.id) /\ mode.token
    BY <2>1 DEF Requests, SentInv, SendersSent, RequestsSent
  <2> QED
    BY <2>2 DEF Real, Frame, Segments
<1> QED
  BY <1>1, <1>2

\* The frame a sender's object hands on, and the one a sealed request turns into.
Handed(f) == [from |-> f, seq |-> sendSeq[f], id |-> Head(outbox[f])]
Opened(p, n) == [from |-> Anon, seq |-> n, id |-> p.id]

Arrive(Good) ==
    /\ \A f \in Senders : HandOn(f) => Handed(f) \in Good
    /\ \A p \in posted, n \in Nat : HandleSeal(p) => Opened(p, n) \in Good

LEMMA QueueStep ==
    ASSUME DInv, [DeliveryNext]_dvars, NEW Good \in SUBSET Frame, FramesIn(Good), Arrive(Good)
    PROVE  QueueIn(Good)'
<1>1. QueueIn(Good) /\ WireIn(Good) /\ ClientIn(Good)
  BY DEF FramesIn
<1>2. \A e \in queue : FrameOf(e) \in Frame
  BY DEF DInv, TypeOK, Entry, Frame, FrameOf
<1>3. ASSUME queue' \subseteq queue PROVE QueueIn(Good)'
  BY <1>1, <1>2, <1>3 DEF QueueIn
<1>4. ASSUME NEW e, NEW fr \in Frame, fr \in Good, FrameOf(e) = fr, queue' \subseteq queue \cup {e} PROVE QueueIn(Good)'
  BY <1>1, <1>2, <1>4 DEF QueueIn
<1>5. ASSUME NEW f \in Senders, HandOn(f) PROVE QueueIn(Good)'
  <2>1. PICK e : e = [from |-> f, seq |-> sendSeq[f], id |-> Head(outbox[f]), age |-> 0]
    OBVIOUS
  <2>2. PICK fr : fr = [from |-> f, seq |-> sendSeq[f], id |-> Head(outbox[f])]
    OBVIOUS
  <2>3. fr \in Frame /\ fr \in Good /\ FrameOf(e) = fr
    BY <1>5, <2>1, <2>2 DEF Arrive, Handed, FrameOf
  <2>4. queue' = queue \/ queue' \subseteq queue \cup {e}
    BY <1>5, <2>1 DEF HandOn, Deliver, Store
  <2> QED
    BY <1>4, <2>3, <2>4
<1>6. ASSUME NEW p \in posted, HandleSeal(p) PROVE QueueIn(Good)'
  <2>1. PICK e : e = [from |-> Anon, seq |-> recvSeq, id |-> p.id, age |-> 0]
    OBVIOUS
  <2>2. PICK fr : fr = [from |-> Anon, seq |-> recvSeq, id |-> p.id]
    OBVIOUS
  <2>3. fr \in Frame /\ fr \in Good /\ FrameOf(e) = fr
    BY <1>6, <2>1, <2>2 DEF Arrive, Opened, FrameOf, DInv, TypeOK
  <2>4. queue' = queue \/ queue' \subseteq queue \cup {e}
    BY <1>6, <2>1 DEF HandleSeal, SealedDeliver, Store
  <2> QED
    BY <1>4, <2>3, <2>4
<1>7. queue' \subseteq queue \/ (\E f \in Senders : HandOn(f)) \/ (\E p \in posted : HandleSeal(p))
  BY DEF DeliveryNext, Accepted, PostAgain, FallBack, SendPlain, SendWithoutKey, SendSealed,
         Reconnect, Disconnect, Receive, Object, Client, Begin, TakeOneTimePreKey, CommitSession, AddContact,
         AppendMessage, MarkProcessed, SendAck, Crash, WriteFails, vars, dvars, storage,
         Connect, LinkDown, DeviceRead, SocketClosed, HandleAck, RegisterToken
<1> QED
  BY <1>3, <1>5, <1>6, <1>7

LEMMA WireStep ==
    ASSUME DInv, [DeliveryNext]_dvars, NEW Good \in SUBSET Frame, FramesIn(Good), Arrive(Good)
    PROVE  WireIn(Good)'
<1>1. QueueIn(Good) /\ WireIn(Good) /\ ClientIn(Good)
  BY DEF FramesIn
<1>2. wire \in [Socks -> Seq(Frame)]
  BY DEF DInv, TypeOK
<1>3. ASSUME \A s \in Socks, fr \in Frame : InSeq(wire'[s], fr) => InSeq(wire[s], fr) \/ fr \in Good PROVE WireIn(Good)'
  BY <1>1, <1>2, <1>3 DEF WireIn
<1>4. ASSUME NEW frame \in Frame, frame \in Good, SendLive(frame) PROVE WireIn(Good)'
  <2>1. ASSUME NEW s \in Socks, NEW fr \in Frame, InSeq(wire'[s], fr) PROVE InSeq(wire[s], fr) \/ fr = frame
    <3>1. wire'[s] = wire[s] \/ wire'[s] = Append(wire[s], frame)
      BY <1>4 DEF SendLive
    <3> QED
      BY <1>2, <2>1, <3>1, InAppend
  <2> QED
    BY <1>3, <1>4, <2>1
<1>5. ASSUME NEW f \in Senders, HandOn(f) PROVE WireIn(Good)'
  <2>1. PICK fr : fr = [from |-> f, seq |-> sendSeq[f], id |-> Head(outbox[f])]
    OBVIOUS
  <2>2. fr \in Frame /\ fr \in Good
    BY <1>5, <2>1 DEF Arrive, Handed
  <2>3. wire' = wire \/ SendLive(fr)
    BY <1>5, <2>1 DEF HandOn, Deliver
  <2> QED
    BY <1>3, <1>4, <2>2, <2>3
<1>6. ASSUME NEW p \in posted, HandleSeal(p) PROVE WireIn(Good)'
  <2>1. PICK fr : fr = [from |-> Anon, seq |-> 0, id |-> p.id]
    OBVIOUS
  <2>2. fr \in Frame /\ fr \in Good
    BY <1>6, <2>1 DEF Arrive, Opened
  <2>3. wire' = wire \/ SendLive(fr)
    BY <1>6, <2>1 DEF HandleSeal, SealedDeliver
  <2> QED
    BY <1>3, <1>4, <2>2, <2>3
<1>7. ASSUME NEW s \in Socks, Reconnect(s) PROVE WireIn(Good)'
  <2>1. PICK l \in Listings(queue) : wire' = [wire EXCEPT ![s] = l]
    BY <1>7 DEF Reconnect, Connect
  <2>2. \A i \in DOMAIN l : \E e \in queue : l[i] = FrameOf(e)
    BY <2>1, ListingType DEF DInv
  <2>3. \A fr \in Frame : InSeq(l, fr) => fr \in Good
    BY <1>1, <2>2 DEF InSeq, QueueIn
  <2> QED
    BY <1>2, <1>3, <2>1, <2>3
<1>8. ASSUME NEW s \in Socks, Disconnect(s) PROVE WireIn(Good)'
  <2>1. wire' = [wire EXCEPT ![s] = << >>]
    BY <1>8 DEF Disconnect, LinkDown
  <2> QED
    BY <1>2, <1>3, <2>1 DEF InSeq
<1>9. ASSUME NEW s \in Socks, Receive(s) PROVE WireIn(Good)'
  <2>1. wire[s] # << >> /\ wire' = [wire EXCEPT ![s] = Tail(@)]
    BY <1>9 DEF Receive, DeviceRead
  <2>2. \A fr \in Frame : InSeq(Tail(wire[s]), fr) => InSeq(wire[s], fr)
    BY <1>2, <2>1, InTail
  <2> QED
    BY <1>2, <1>3, <2>1, <2>2
<1>10. ASSUME Crash PROVE WireIn(Good)'
  BY <1>3, <1>10 DEF Crash, InSeq
<1>11. \/ wire' = wire \/ (\E f \in Senders : HandOn(f)) \/ (\E p \in posted : HandleSeal(p))
       \/ (\E s \in Socks : Reconnect(s) \/ Disconnect(s) \/ Receive(s)) \/ Crash
  BY DEF DeliveryNext, Accepted, PostAgain, FallBack, SendPlain, SendWithoutKey, SendSealed,
         Object, Client, Begin, TakeOneTimePreKey, CommitSession, AddContact,
         AppendMessage, MarkProcessed, SendAck, WriteFails, vars, dvars, links,
         SocketClosed, HandleAck, RegisterToken
<1> QED
  BY <1>3, <1>5, <1>6, <1>7, <1>8, <1>9, <1>10, <1>11

LEMMA ClientStep ==
    ASSUME DInv, [DeliveryNext]_dvars, NEW Good \in SUBSET Frame, FramesIn(Good), Arrive(Good)
    PROVE  ClientIn(Good)'
<1>1. QueueIn(Good) /\ WireIn(Good) /\ ClientIn(Good)
  BY DEF FramesIn
<1>2. chainq \in Seq(Frame) /\ wire \in [Socks -> Seq(Frame)]
  BY DEF DInv, DTypeOK, TypeOK
<1>3. ASSUME \A fr \in Frame : InSeq(chainq', fr) \/ (job' # NoJob /\ job'.frame = fr)
                                  => InSeq(chainq, fr) \/ (job # NoJob /\ job.frame = fr) \/ fr \in Good
      PROVE  ClientIn(Good)'
  BY <1>1, <1>2, <1>3 DEF ClientIn
<1>4. ASSUME chainq' = chainq, job' = job \/ job' = NoJob PROVE ClientIn(Good)'
  BY <1>3, <1>4
<1>5. ASSUME NEW s \in Socks, Receive(s) PROVE ClientIn(Good)'
  <2>1. wire[s] # << >> /\ chainq' = Append(chainq, Head(wire[s])) /\ job' = job
    BY <1>5 DEF Receive, DeviceRead
  <2>2. Head(wire[s]) \in Frame /\ InSeq(wire[s], Head(wire[s]))
    BY <1>2, <2>1, InHead
  <2>3. Head(wire[s]) \in Good
    BY <1>1, <2>2 DEF WireIn
  <2>4. \A fr \in Frame : InSeq(chainq', fr) => InSeq(chainq, fr) \/ fr = Head(wire[s])
    BY <1>2, <2>1, <2>2, InAppend
  <2> QED
    BY <1>3, <2>1, <2>3, <2>4
<1>6. ASSUME Begin PROVE ClientIn(Good)'
  <2>1. chainq # << >> /\ chainq' = Tail(chainq) /\ job = NoJob
    BY <1>6 DEF Begin
  <2>2. job' = NoJob \/ \E pc : job' = [pc |-> pc, frame |-> Head(chainq)]
    BY <1>6, <2>1 DEF Begin
  <2>3. \A fr \in Frame : InSeq(chainq', fr) => InSeq(chainq, fr)
    BY <1>2, <2>1, InTail
  <2>4. InSeq(chainq, Head(chainq))
    BY <1>2, <2>1, InHead
  <2> QED
    BY <1>3, <2>2, <2>3, <2>4
<1>7. ASSUME TakeOneTimePreKey \/ CommitSession \/ AddContact \/ AppendMessage \/ MarkProcessed \/ WriteFails \/ SendAck
      PROVE  ClientIn(Good)'
  <2>1. job # NoJob
    BY <1>7 DEF NoJob, TakeOneTimePreKey, CommitSession, AddContact, AppendMessage, MarkProcessed, WriteFails, SendAck
  <2>2. chainq' = chainq /\ (job' = NoJob \/ \E pc : Goto(pc))
    BY <1>7 DEF TakeOneTimePreKey, CommitSession, AddContact, AppendMessage, MarkProcessed, WriteFails, SendAck
  <2>3. job' # NoJob => job'.frame = job.frame
    BY <2>1, <2>2, JobFacts DEF Goto, DInv
  <2> QED
    BY <1>3, <2>1, <2>2, <2>3
<1>8. ASSUME Crash PROVE ClientIn(Good)'
  BY <1>3, <1>8 DEF Crash, InSeq
<1>9. \/ UNCHANGED <<chainq, job>> \/ (\E s \in Socks : Receive(s)) \/ Begin
      \/ TakeOneTimePreKey \/ CommitSession \/ AddContact \/ AppendMessage \/ MarkProcessed \/ WriteFails \/ SendAck
      \/ Crash
  BY DEF DeliveryNext, Accepted, PostAgain, FallBack, SendPlain, SendWithoutKey, SendSealed, HandOn, HandleSeal,
         Reconnect, Disconnect, Object, Client, client, dvars
<1> QED
  BY <1>4, <1>5, <1>6, <1>7, <1>8, <1>9

LEMMA FramesStep ==
    ASSUME DInv, [DeliveryNext]_dvars, NEW Good \in SUBSET Frame, FramesIn(Good), Arrive(Good)
    PROVE  FramesIn(Good)'
BY QueueStep, WireStep, ClientStep DEF FramesIn

LEMMA FramesSentStep == ASSUME DInv, DTypeOK', SentInv, [DeliveryNext]_dvars PROVE FramesIn({fr \in Frame : Real(fr)})'
<1>1. \A fr \in Frame : Real(fr) => Real(fr)'
  BY SentGrows
<1>2. PICK Good : Good = {fr \in Frame : Real(fr)'}
  OBVIOUS
<1>3. FramesIn(Good)
  BY <1>1, <1>2 DEF SentInv, FramesIn, QueueIn, WireIn, ClientIn
<1>4. Arrive(Good)
  <2>1. ASSUME NEW f \in Senders, HandOn(f) PROVE Handed(f) \in Good
    BY <1>1, <1>2, <2>1, HandedReal DEF HandOn, Handed
  <2>2. ASSUME NEW p \in posted, NEW n \in Nat PROVE Opened(p, n) \in Good
    BY <1>1, <1>2, HandedReal DEF Opened
  <2> QED
    BY <2>1, <2>2 DEF Arrive
<1>5. FramesIn(Good)'
  BY <1>2, <1>3, <1>4, FramesStep
<1> QED
  BY <1>2, <1>5 DEF FramesIn, QueueIn, WireIn, ClientIn

LEMMA SentStep == ASSUME DInv, DTypeOK', SentInv, [DeliveryNext]_dvars PROVE SentInv'
BY OutboxStep, RequestsStep, OpkStep, FramesSentStep DEF SentInv, SendersSent

LEMMA SentStarts == ASSUME DeliveryInit PROVE SentInv
<1>1. NoCall \notin Requests
  BY DeliveryAssumption DEF NoCall, Requests, DeliveryAssumption
<1>2. SendersSent
  BY <1>1 DEF DeliveryInit, SendersSent, OutboxSent, RequestsSent, OpkSent, InSeq
<1> QED
  BY <1>2 DEF DeliveryInit, Init, SentInv, FramesIn, QueueIn, WireIn, ClientIn, InSeq

-----------------------------------------------------------------------------
(* The history holds a message once.                                       *)

\* What appendMessage does to the history.
LEMMA ShownGrows ==
    ASSUME history \in Seq(Ids), NEW m \in Ids, history' = Append(history, m)
    PROVE  Shown' = Shown \cup {m}
<1>1. /\ history' \in Seq(Ids) /\ Len(history') = Len(history) + 1
      /\ \A i \in 1 .. Len(history) : history'[i] = history[i]
      /\ history'[Len(history) + 1] = m
  BY AppendProperties
<1>2. Len(history) \in Nat /\ DOMAIN history = 1 .. Len(history) /\ DOMAIN history' = 1 .. Len(history) + 1
  BY <1>1
<1> QED
  BY <1>1, <1>2 DEF Shown

LEMMA OnceAppend ==
    ASSUME history \in Seq(Ids), NEW m \in Ids, m \notin Shown, ShownOnce, history' = Append(history, m)
    PROVE  ShownOnce'
<1>1. /\ history' \in Seq(Ids) /\ Len(history') = Len(history) + 1
      /\ \A i \in 1 .. Len(history) : history'[i] = history[i]
      /\ history'[Len(history) + 1] = m
  BY AppendProperties
<1>2. Len(history) \in Nat /\ DOMAIN history = 1 .. Len(history) /\ DOMAIN history' = 1 .. Len(history) + 1
  BY <1>1
<1>3. SUFFICES ASSUME NEW i \in 1 .. Len(history) + 1, NEW j \in 1 .. Len(history) + 1, history'[i] = history'[j]
               PROVE  i = j
  BY <1>2 DEF ShownOnce
<1>4. \A k \in 1 .. Len(history) : history[k] # m
  BY <1>2 DEF Shown
<1>5. CASE i \in 1 .. Len(history) /\ j \in 1 .. Len(history)
  BY <1>1, <1>2, <1>3, <1>5 DEF ShownOnce
<1>6. CASE i \in 1 .. Len(history) /\ j \notin 1 .. Len(history)
  BY <1>1, <1>2, <1>3, <1>4, <1>6
<1>7. CASE i \notin 1 .. Len(history) /\ j \in 1 .. Len(history)
  BY <1>1, <1>2, <1>3, <1>4, <1>7
<1>8. CASE i \notin 1 .. Len(history) /\ j \notin 1 .. Len(history)
  BY <1>2, <1>8
<1> QED
  BY <1>5, <1>6, <1>7, <1>8

\* What a sender's session was built with is settled once it has sent.
LEMMA OpkKept ==
    ASSUME DInv, [DeliveryNext]_dvars, NEW m \in Ids, Sent(m)
    PROVE  opkUsed'[SenderOf(m)] = opkUsed[SenderOf(m)]
<1>1. SenderOf(m) \in Senders /\ Number(m) \in Nat /\ Number(m) >= 1
  BY IdFacts
<1>2. nextN[SenderOf(m)] \in Nat /\ nextN[SenderOf(m)] > 1
  BY <1>1, DeliveryAssumption DEF DInv, DTypeOK, Sent, DeliveryAssumption
<1>3. CASE UNCHANGED opkUsed
  BY <1>3
<1>4. CASE \E f \in Senders : NextSend(f)
  <2>1. PICK f \in Senders : NextSend(f)
    BY <1>4
  <2>2. CASE f = SenderOf(m)
    BY <1>2, <2>1, <2>2 DEF NextSend, EnsureSession
  <2>3. CASE f # SenderOf(m)
    BY <1>1, <2>1, <2>3 DEF NextSend, EnsureSession, DInv, DTypeOK
  <2> QED
    BY <2>2, <2>3
<1>5. CASE UNCHANGED dvars
  BY <1>3, <1>5 DEF dvars, senders
<1>6. ASSUME NEW f \in Senders,
             \/ SendPlain(f) \/ SendWithoutKey(f) \/ HandOn(f) \/ Accepted(f) \/ PostAgain(f) \/ FallBack(f)
             \/ \E t \in Tokens : SendSealed(f, t)
      PROVE  UNCHANGED opkUsed \/ \E g \in Senders : NextSend(g)
  BY <1>6 DEF SendPlain, SendWithoutKey, HandOn, Accepted, PostAgain, FallBack, SendSealed
<1>7. ASSUME \/ \E p \in posted : HandleSeal(p)
             \/ \E s \in Socks : Reconnect(s) \/ Disconnect(s) \/ Receive(s)
             \/ Object \/ Client \/ Crash \/ WriteFails
      PROVE  UNCHANGED opkUsed
  BY <1>7 DEF HandleSeal, Reconnect, Disconnect, Receive, Object, Client, Begin, TakeOneTimePreKey,
              CommitSession, AddContact, AppendMessage, MarkProcessed, SendAck, Crash, WriteFails, senders
<1> QED
  BY <1>3, <1>4, <1>5, <1>6, <1>7 DEF DeliveryNext

LEMMA OnceClient ==
    ASSUME DInv, DTypeOK', OnceInv,
           \/ Begin \/ TakeOneTimePreKey \/ CommitSession \/ AddContact \/ AppendMessage \/ MarkProcessed
           \/ SendAck \/ Crash \/ WriteFails
    PROVE  OnceInv'
<1> USE DEF DInv, DTypeOK
<1>1. UNCHANGED opkUsed
  BY DEF Begin, TakeOneTimePreKey, CommitSession, AddContact, AppendMessage, MarkProcessed, SendAck, Crash,
         WriteFails, senders
<1>2. /\ job = NoJob <=> job.pc = "none"
      /\ job # NoJob => /\ job.frame \in Frame /\ job.frame.id \in Ids
                        /\ job.pc \in {"take", "commit", "contact", "append", "mark", "ack"}
                        /\ job = [pc |-> job.pc, frame |-> job.frame]
  BY JobFacts
<1>3. ASSUME NEW pc, Goto(pc), job # NoJob PROVE job'.pc = pc /\ job'.frame = job.frame
  <2>1. PICK k : k = job
    OBVIOUS
  <2>2. k = [pc |-> k.pc, frame |-> k.frame]
    BY <1>2, <1>3, <2>1
  <2>3. job' = [k EXCEPT !.pc = pc]
    BY <1>3, <2>1 DEF Goto
  <2>4. job' = [pc |-> pc, frame |-> k.frame]
    BY <2>2, <2>3
  <2> QED
    BY <2>1, <2>4
<1>4. ASSUME history' = history, session' = session, job'.pc \in {"none", "mark", "ack"} PROVE OnceInv'
  BY <1>4 DEF OnceInv, ShownOnce, Shown
<1>5. CASE Begin
  <2>1. job = NoJob /\ chainq # << >> /\ UNCHANGED <<history, session>>
    BY <1>5 DEF Begin
  <2>2. PICK fr : fr = Head(chainq)
    OBVIOUS
  <2>3. fr \in Frame /\ fr.id \in Ids
    <3>1. chainq \in Seq(Frame) /\ chainq # << >>
      BY <2>1
    <3>2. fr \in Frame
      BY <2>2, <3>1, HeadTailProperties
    <3> QED
      BY <3>2 DEF Frame
  <2>4. SenderOf(fr.id) \in Senders
    BY <2>3, IdFacts
  <2>5. ASSUME job' = [pc |-> "take", frame |-> fr], session[SenderOf(fr.id)] = {}, Number(fr.id) = 1,
               opkUsed[SenderOf(fr.id)]
        PROVE  OnceInv'
    <3>1. job'.pc = "take" /\ job'.frame = fr
      BY <2>5
    <3> QED
      BY <1>1, <2>1, <2>5, <3>1 DEF OnceInv, ShownOnce, Shown
  <2>6. ASSUME job' = [pc |-> "commit", frame |-> fr], Number(fr.id) \notin session[SenderOf(fr.id)] PROVE OnceInv'
    <3>1. job'.pc = "commit" /\ job'.frame = fr
      BY <2>6
    <3> QED
      BY <1>1, <2>1, <2>6, <3>1 DEF OnceInv, ShownOnce, Shown
  <2>7. ASSUME \/ job' = [pc |-> "mark", frame |-> fr] \/ job' = [pc |-> "ack", frame |-> fr] \/ job' = job
        PROVE  OnceInv'
    <3>1. job'.pc \in {"none", "mark", "ack"}
      BY <1>2, <2>1, <2>7
    <3> QED
      BY <1>4, <2>1, <3>1
  <2>8. \/ job' = [pc |-> "mark", frame |-> fr] \/ job' = [pc |-> "ack", frame |-> fr] \/ job' = job
        \/ job' = [pc |-> "commit", frame |-> fr] /\ Number(fr.id) \notin session[SenderOf(fr.id)]
        \/ /\ job' = [pc |-> "take", frame |-> fr] /\ session[SenderOf(fr.id)] = {} /\ Number(fr.id) = 1
           /\ opkUsed[SenderOf(fr.id)]
    BY <1>5, <2>2 DEF Begin, HasSession
  <2> QED
    BY <2>5, <2>6, <2>7, <2>8
<1>6. CASE TakeOneTimePreKey
  <2>1. job # NoJob /\ job.pc = "take" /\ UNCHANGED <<history, session>>
    BY <1>2, <1>6 DEF TakeOneTimePreKey
  <2>2. job'.frame = job.frame /\ job'.pc \in {"commit", "mark"}
    BY <1>3, <1>6, <2>1 DEF TakeOneTimePreKey
  <2> QED
    BY <2>1, <2>2 DEF OnceInv, ShownOnce, Shown
<1>7. CASE CommitSession
  <2>1. job # NoJob /\ job.pc = "commit" /\ UNCHANGED history
    BY <1>2, <1>7 DEF CommitSession
  <2>2. PICK m \in Ids : m = job.frame.id
    BY <1>2, <2>1
  <2>3. SenderOf(m) \in Senders
    BY IdFacts
  <2>4. session' = [session EXCEPT ![SenderOf(m)] = @ \cup {Number(m)}]
    BY <1>7, <2>2 DEF CommitSession
  <2>5. \A f \in Senders : session[f] \subseteq session'[f]
    BY <2>3, <2>4
  <2>6. Number(m) \in session'[SenderOf(m)] /\ Number(m) \notin session[SenderOf(m)]
    BY <2>1, <2>2, <2>3, <2>4 DEF OnceInv
  <2>7. Shown' = Shown /\ Shown \subseteq Ids
    BY <2>1 DEF Shown
  <2>8. ASSUME NEW k \in Shown PROVE Number(k) \in session'[SenderOf(k)]
    BY <2>5, <2>7, <2>8, IdFacts DEF OnceInv
  <2>9. job'.frame = job.frame /\ job'.pc \in {"contact", "append"}
    BY <1>3, <1>7, <2>1 DEF CommitSession, AfterCommit
  <2>10. m \notin Shown
    BY <2>6 DEF OnceInv
  <2> QED
    BY <2>1, <2>2, <2>6, <2>7, <2>8, <2>9, <2>10 DEF OnceInv, ShownOnce
<1>8. CASE AddContact
  <2>1. job # NoJob /\ job.pc = "contact" /\ UNCHANGED <<history, session>>
    BY <1>2, <1>8 DEF AddContact
  <2>2. job'.frame = job.frame /\ job'.pc = "append"
    BY <1>3, <1>8, <2>1 DEF AddContact
  <2> QED
    BY <2>1, <2>2 DEF OnceInv, ShownOnce, Shown
<1>9. CASE AppendMessage
  <2>1. job # NoJob /\ job.pc = "append" /\ UNCHANGED session
    BY <1>2, <1>9 DEF AppendMessage
  <2>2. PICK m \in Ids : m = job.frame.id
    BY <1>2, <2>1
  <2>3. history' = Append(history, m)
    BY <1>9, <2>2 DEF AppendMessage
  <2>4. m \notin Shown /\ Number(m) \in session[SenderOf(m)]
    BY <2>1, <2>2 DEF OnceInv
  <2>5. ShownOnce' /\ Shown' = Shown \cup {m}
    BY <2>3, <2>4, ShownGrows, OnceAppend DEF OnceInv
  <2>6. job'.pc = "mark"
    BY <1>3, <1>9, <2>1 DEF AppendMessage
  <2> QED
    BY <2>1, <2>4, <2>5, <2>6 DEF OnceInv
<1>10. CASE MarkProcessed
  <2>1. job # NoJob /\ UNCHANGED <<history, session>>
    BY <1>2, <1>10 DEF MarkProcessed
  <2> QED
    BY <1>3, <1>4, <1>10, <2>1 DEF MarkProcessed
<1>11. CASE SendAck \/ Crash
  BY <1>4, <1>11 DEF SendAck, Crash, NoJob
<1>12. CASE WriteFails
  <2>1. job # NoJob /\ UNCHANGED <<history, session>>
    BY <1>2, <1>12 DEF WriteFails
  <2>2. job'.pc \in {"none", "mark"}
    BY <1>3, <1>12, <2>1 DEF WriteFails, NoJob
  <2> QED
    BY <1>4, <2>1, <2>2
<1> QED
  BY <1>5, <1>6, <1>7, <1>8, <1>9, <1>10, <1>11, <1>12

LEMMA OnceStep == ASSUME DInv, DTypeOK', SentInv, OnceInv, [DeliveryNext]_dvars PROVE OnceInv'
<1>1. CASE \/ Begin \/ TakeOneTimePreKey \/ CommitSession \/ AddContact \/ AppendMessage \/ MarkProcessed
           \/ SendAck \/ Crash \/ WriteFails
  BY <1>1, OnceClient
<1>2. CASE UNCHANGED <<job, session, history>>
  <2>1. ASSUME job.pc = "take"
        PROVE opkUsed'[SenderOf(job.frame.id)] = opkUsed[SenderOf(job.frame.id)]
    <3>1. job # NoJob /\ job.frame \in Frame /\ job.frame.id \in Ids
      BY <2>1, JobFacts DEF DInv
    <3>2. Sent(job.frame.id)
      BY <3>1 DEF SentInv, FramesIn, ClientIn, Real
    <3> QED
      BY <3>1, <3>2, OpkKept
  <2> QED
    BY <1>2, <2>1 DEF OnceInv, ShownOnce, Shown
<1>3. \/ UNCHANGED <<job, session, history>>
      \/ Begin \/ TakeOneTimePreKey \/ CommitSession \/ AddContact \/ AppendMessage \/ MarkProcessed
      \/ SendAck \/ Crash \/ WriteFails
  BY DEF DeliveryNext, Accepted, PostAgain, FallBack, SendPlain, SendWithoutKey, SendSealed, HandOn, HandleSeal,
         Reconnect, Disconnect, Receive, Object, Client, client, dvars
<1> QED
  BY <1>1, <1>2, <1>3

LEMMA OnceStarts == ASSUME DeliveryInit PROVE OnceInv
BY DEF DeliveryInit, OnceInv, ShownOnce, Shown, NoJob

\* The invariant the theorems about the history rest on.
WrittenInv == DInv /\ SentInv /\ OnceInv

LEMMA WrittenStep == ASSUME WrittenInv, [DeliveryNext]_dvars PROVE WrittenInv'
BY TypeStep, LinksStep, ReadStep, SentStep, OnceStep DEF WrittenInv, DInv

THEOREM WrittenHolds == DeliverySpec => []WrittenInv
<1>1. DeliveryInit => WrittenInv
  BY DeliveryStarts, SentStarts, OnceStarts DEF WrittenInv
<1>2. WrittenInv /\ [DeliveryNext]_dvars => WrittenInv'
  BY WrittenStep
<1> QED
  BY <1>1, <1>2, PTL DEF DeliverySpec

(* Idempotent receive, for any number of senders, messages, redeliveries,  *)
(* relays, crashes and rejected writes: a message is in the history at     *)
(* most once (decryptIncoming, isProcessed, appendMessage).                *)
THEOREM OnceHolds == DeliverySpec => []ShownOnce
<1>1. WrittenInv => ShownOnce
  BY DEF WrittenInv, OnceInv
<1> QED
  BY <1>1, WrittenHolds, PTL

-----------------------------------------------------------------------------
(* The server copy is given up only for what is in the history.            *)

\* The cases but one: senders that seal, and bootstraps with a one-time prekey.
KeyPaths == mode.token => ~ mode.opk

LEMMA SettledGrows ==
    ASSUME history \in Seq(Ids), torn \subseteq torn',
           history' = history \/ \E m \in Ids : history' = Append(history, m), NEW k, Settled(k)
    PROVE  Settled(k)'
<1>1. CASE history' = history
  BY <1>1 DEF Settled, Shown
<1>2. CASE \E m \in Ids : history' = Append(history, m)
  BY <1>2, ShownGrows DEF Settled
<1> QED
  BY <1>1, <1>2

\* What a step of the handler does to its job.
LEMMA JobGoes ==
    ASSUME DTypeOK, NEW pc, Goto(pc), job # NoJob
    PROVE  job'.pc = pc /\ job'.frame = job.frame
<1>1. job = [pc |-> job.pc, frame |-> job.frame]
  BY JobFacts
<1>2. PICK k : k = job
  OBVIOUS
<1>3. job' = [k EXCEPT !.pc = pc] /\ k = [pc |-> k.pc, frame |-> k.frame]
  BY <1>1, <1>2 DEF Goto
<1>4. job' = [pc |-> pc, frame |-> k.frame]
  BY <1>3
<1> QED
  BY <1>2, <1>4

LEMMA AckBegin == ASSUME WrittenInv, KeyPaths, AckInv, Begin PROVE AckInv'
<1> USE DEF WrittenInv, DInv, DTypeOK
<1>1. job = NoJob /\ chainq # << >> /\ job.pc = "none"
  BY DEF Begin, NoJob
<1>2. /\ history' = history /\ torn' = torn /\ processed' = processed /\ acked' = acked
      /\ session' = session /\ opkHeld' = opkHeld /\ opkUsed' = opkUsed
  BY DEF Begin, senders
<1>3. PICK fr : fr = Head(chainq)
  OBVIOUS
<1>4. fr \in Frame /\ fr.id \in Ids /\ InSeq(chainq, fr)
  <2>1. chainq \in Seq(Frame) /\ chainq # << >>
    BY <1>1
  <2>2. fr \in Frame /\ InSeq(chainq, fr)
    BY <1>3, <2>1, InHead
  <2> QED
    BY <2>2 DEF Frame
<1>5. PICK m \in Ids : m = fr.id
  BY <1>4
<1>6. PICK f \in Senders : f = SenderOf(m)
  BY IdFacts
<1>7. m = <<f, Number(m)>>
  BY <1>6, IdFacts
<1>8. \A k : Settled(k)' <=> Settled(k)
  BY <1>2 DEF Settled, Shown
<1>9. \A g \in Senders : \A n \in session[g] : Settled(<<g, n>>)
  BY <1>1 DEF AckInv
<1>10. \A g \in Senders \ opkHeld : opkUsed[g] /\ Settled(<<g, 1>>)
  BY <1>1 DEF AckInv, Writing
<1>11. /\ \A k \in processed' \cup acked' : Settled(k)'
       /\ \A g \in Senders : \A n \in session'[g] : Settled(<<g, n>>)'
       /\ \A g \in Senders : session'[g] # {} => 1 \in session'[g]
       /\ \A g \in Senders \ opkHeld' : opkUsed'[g] /\ Settled(<<g, 1>>)'
  BY <1>2, <1>8, <1>9, <1>10 DEF AckInv
<1>12. ASSUME job' = job \/ (job'.pc \in {"take", "mark", "ack", "commit"} /\ job'.frame = fr),
              job'.pc \in {"mark", "ack"} => Settled(m),
              job'.pc = "commit" => session[f] # {} \/ Number(m) = 1
       PROVE  AckInv'
  <2>1. (job.pc \in {"mark", "ack"} => Settled(job.frame.id))'
    <3>1. CASE job' = job
      BY <1>1, <3>1
    <3>2. CASE job'.pc \in {"take", "mark", "ack", "commit"} /\ job'.frame = fr
      BY <1>5, <1>8, <1>12, <3>2
    <3> QED
      BY <1>12, <3>1, <3>2
  <2>2. job'.pc = "commit" => session'[SenderOf(job'.frame.id)] # {} \/ Number(job'.frame.id) = 1
    <3>1. CASE job' = job
      BY <1>1, <3>1
    <3>2. CASE job'.pc \in {"take", "mark", "ack", "commit"} /\ job'.frame = fr
      BY <1>2, <1>5, <1>6, <1>12, <3>2
    <3> QED
      BY <1>12, <3>1, <3>2
  <2>3. job'.pc \notin {"contact", "append"}
    BY <1>1, <1>12
  <2> QED
    BY <1>11, <2>1, <2>2, <2>3 DEF AckInv
<1>13. CASE m \in processed /\ job' = [pc |-> "ack", frame |-> fr]
  <2>1. Settled(m)
    BY <1>13 DEF AckInv
  <2> QED
    BY <1>12, <1>13, <2>1
<1>14. CASE HasSession(f) /\ job' = [pc |-> "mark", frame |-> fr] /\ (Number(m) = 1 \/ Number(m) \in session[f])
  <2>1. Number(m) \in session[f]
    BY <1>14 DEF AckInv, HasSession
  <2>2. Settled(m)
    BY <1>7, <1>9, <2>1
  <2> QED
    BY <1>12, <1>14, <2>2
<1>15. CASE job' = [pc |-> "commit", frame |-> fr] /\ (HasSession(f) \/ Number(m) = 1)
  <2>1. job'.pc = "commit" /\ job'.frame = fr
    BY <1>15
  <2> QED
    BY <1>12, <1>15, <2>1 DEF HasSession
<1>16. CASE job' = job
  BY <1>1, <1>12, <1>16
<1>17. CASE job' = [pc |-> "take", frame |-> fr]
  <2>1. job'.pc = "take" /\ job'.frame = fr
    BY <1>17
  <2> QED
    BY <1>12, <2>1
<1>18. ~ (Sealed(fr) /\ opkUsed[f])
  <2>1. Real(fr)
    BY <1>4 DEF SentInv, FramesIn, ClientIn
  <2>2. opkUsed[f] => mode.opk
    BY DEF SentInv, SendersSent, OpkSent
  <2> QED
    BY <2>1, <2>2 DEF Real, Sealed, KeyPaths
<1>19. \/ m \in processed /\ job' = [pc |-> "ack", frame |-> fr]
       \/ HasSession(f) /\ job' = [pc |-> "mark", frame |-> fr] /\ (Number(m) = 1 \/ Number(m) \in session[f])
       \/ job' = [pc |-> "commit", frame |-> fr] /\ (HasSession(f) \/ Number(m) = 1)
       \/ job' = job
       \/ job' = [pc |-> "take", frame |-> fr]
       \/ Sealed(fr) /\ opkUsed[f]
  BY <1>3, <1>5, <1>6 DEF Begin
<1> QED
  BY <1>13, <1>14, <1>15, <1>16, <1>17, <1>18, <1>19

LEMMA AckTake == ASSUME WrittenInv, AckInv, TakeOneTimePreKey PROVE AckInv'
<1> USE DEF WrittenInv, DInv, DTypeOK
<1>1. job # NoJob /\ job.pc = "take"
  BY DEF TakeOneTimePreKey, NoJob
<1>2. /\ history' = history /\ torn' = torn /\ processed' = processed /\ acked' = acked
      /\ session' = session /\ opkUsed' = opkUsed
  BY DEF TakeOneTimePreKey, ghosts, senders
<1>3. PICK m \in Ids : m = job.frame.id
  BY <1>1, JobFacts
<1>4. PICK f \in Senders : f = SenderOf(m)
  BY IdFacts
<1>5. Number(m) = 1 /\ opkUsed[f] /\ m = <<f, 1>>
  <2>1. Number(m) = 1 /\ opkUsed[f]
    BY <1>1, <1>3, <1>4 DEF OnceInv
  <2> QED
    BY <1>4, <2>1, IdFacts
<1>6. \A k : Settled(k)' <=> Settled(k)
  BY <1>2 DEF Settled, Shown
<1>7. opkHeld' = opkHeld \ {f}
  BY <1>3, <1>4 DEF TakeOneTimePreKey
<1>8. /\ \A g \in Senders : \A n \in session[g] : Settled(<<g, n>>)
      /\ \A g \in Senders \ opkHeld : opkUsed[g] /\ Settled(<<g, 1>>)
  BY <1>1 DEF AckInv, Writing
<1>9. /\ \A k \in processed' \cup acked' : Settled(k)'
      /\ \A g \in Senders : \A n \in session'[g] : Settled(<<g, n>>)'
      /\ \A g \in Senders : session'[g] # {} => 1 \in session'[g]
  BY <1>2, <1>6, <1>8 DEF AckInv
<1>10. CASE f \in opkHeld
  <2>1. job'.pc = "commit" /\ job'.frame = job.frame
    BY <1>1, <1>3, <1>4, <1>10, JobGoes DEF TakeOneTimePreKey
  <2>2. \A g \in Senders \ opkHeld' : opkUsed'[g] /\ (Settled(<<g, 1>>)' \/ Writing(<<g, 1>>)')
    BY <1>2, <1>3, <1>5, <1>6, <1>7, <1>8, <2>1 DEF Writing
  <2>3. Number(job'.frame.id) = 1
    BY <1>3, <1>5, <2>1
  <2> QED
    BY <1>9, <2>1, <2>2, <2>3 DEF AckInv
<1>11. CASE f \notin opkHeld
  <2>1. job'.pc = "mark" /\ job'.frame = job.frame
    BY <1>1, <1>3, <1>4, <1>11, JobGoes DEF TakeOneTimePreKey
  <2>2. Settled(m)
    BY <1>5, <1>8, <1>11
  <2>3. \A g \in Senders \ opkHeld' : opkUsed'[g] /\ Settled(<<g, 1>>)'
    BY <1>2, <1>6, <1>7, <1>8, <1>11
  <2>4. Settled(job.frame.id)'
    BY <1>3, <1>6, <2>1, <2>2
  <2> QED
    BY <1>9, <2>1, <2>3, <2>4 DEF AckInv
<1> QED
  BY <1>10, <1>11

LEMMA AckCommit == ASSUME WrittenInv, AckInv, CommitSession PROVE AckInv'
<1> USE DEF WrittenInv, DInv, DTypeOK
<1>1. job # NoJob /\ job.pc = "commit"
  BY DEF CommitSession, NoJob
<1>2. /\ history' = history /\ torn' = torn /\ processed' = processed /\ acked' = acked
      /\ opkHeld' = opkHeld /\ opkUsed' = opkUsed
  BY DEF CommitSession, ghosts, senders
<1>3. PICK m \in Ids : m = job.frame.id
  BY <1>1, JobFacts
<1>4. PICK f \in Senders : f = SenderOf(m)
  BY IdFacts
<1>5. m = <<f, Number(m)>>
  BY <1>4, IdFacts
<1>6. \A k : Settled(k)' <=> Settled(k)
  BY <1>2 DEF Settled, Shown
<1>7. session' = [session EXCEPT ![f] = @ \cup {Number(m)}]
  BY <1>3, <1>4 DEF CommitSession
<1>8. job'.pc \in {"contact", "append"} /\ job'.frame = job.frame
  BY <1>1, JobGoes DEF CommitSession, AfterCommit
<1>9. ASSUME NEW g \in Senders, NEW n \in session'[g]
      PROVE  Settled(<<g, n>>)' \/ (job'.pc \in {"contact", "append"} /\ job'.frame.id = <<g, n>>)
  <2>1. CASE n \in session[g]
    BY <1>1, <1>6, <2>1 DEF AckInv
  <2>2. CASE n \notin session[g]
    BY <1>3, <1>5, <1>7, <1>8, <2>2
  <2> QED
    BY <2>1, <2>2
<1>10. ASSUME NEW g \in Senders, session'[g] # {} PROVE 1 \in session'[g]
  <2>1. CASE session[g] # {}
    BY <1>7, <2>1 DEF AckInv
  <2>2. CASE session[g] = {}
    <3>1. g = f
      BY <1>7, <1>10, <2>2
    <3>2. Number(m) = 1
      BY <1>1, <1>3, <1>4, <2>2, <3>1 DEF AckInv
    <3> QED
      BY <1>7, <3>1, <3>2
  <2> QED
    BY <2>1, <2>2
<1>11. \A g \in Senders \ opkHeld' : opkUsed'[g] /\ (Settled(<<g, 1>>)' \/ Writing(<<g, 1>>)')
  BY <1>1, <1>2, <1>3, <1>6, <1>8 DEF AckInv, Writing
<1>12. \A k \in processed' \cup acked' : Settled(k)'
  BY <1>2, <1>6 DEF AckInv
<1> QED
  BY <1>8, <1>9, <1>10, <1>11, <1>12 DEF AckInv

LEMMA AckContact == ASSUME WrittenInv, AckInv, AddContact PROVE AckInv'
<1> USE DEF WrittenInv, DInv, DTypeOK
<1>1. job # NoJob /\ job.pc = "contact"
  BY DEF AddContact, NoJob
<1>2. /\ history' = history /\ torn' = torn /\ processed' = processed /\ acked' = acked
      /\ session' = session /\ opkHeld' = opkHeld /\ opkUsed' = opkUsed
  BY DEF AddContact, ghosts, senders
<1>3. \A k : Settled(k)' <=> Settled(k)
  BY <1>2 DEF Settled, Shown
<1>4. job'.pc = "append" /\ job'.frame = job.frame
  BY <1>1, JobGoes DEF AddContact
<1>5. \A k : Writing(k)' <=> Writing(k)
  BY <1>1, <1>4 DEF Writing
<1> QED
  BY <1>1, <1>2, <1>3, <1>4, <1>5 DEF AckInv

\* The message of the job is settled, and the job moves on to its mark or its end.
LEMMA AckSettled ==
    ASSUME DTypeOK, AckInv, job # NoJob, NEW m \in Ids, m = job.frame.id, Settled(m)',
           history' = history \/ \E k \in Ids : history' = Append(history, k), torn \subseteq torn',
           processed' \cup acked' \subseteq processed \cup acked \cup {m},
           (job'.pc \in {"mark", "ack"} /\ job'.frame = job.frame) \/ job' = NoJob,
           UNCHANGED <<session, opkHeld, opkUsed>>
    PROVE  AckInv'
<1> USE DEF DTypeOK
<1>1. \A k : Settled(k) => Settled(k)'
  BY SettledGrows
<1>2. \A k \in processed' \cup acked' : Settled(k)'
  BY <1>1 DEF AckInv
<1>3. \A g \in Senders : \A n \in session[g] : Settled(<<g, n>>)'
  BY <1>1 DEF AckInv
<1>4. \A g \in Senders \ opkHeld : opkUsed[g] /\ Settled(<<g, 1>>)'
  BY <1>1 DEF AckInv, Writing
<1>5. job'.pc \in {"mark", "ack", "none"}
  BY DEF NoJob
<1>6. job'.pc \in {"mark", "ack"} => Settled(job.frame.id)' 
  <2>1. CASE job' = NoJob
    BY <2>1 DEF NoJob
  <2>2. CASE job'.frame = job.frame
    BY <2>2
  <2> QED
    BY <2>1, <2>2
<1>7. \A g \in Senders : session[g] # {} => 1 \in session[g]
  BY DEF AckInv
<1> QED
  BY <1>2, <1>3, <1>4, <1>5, <1>6, <1>7 DEF AckInv

LEMMA AckWrites ==
    ASSUME WrittenInv, AckInv, AppendMessage \/ MarkProcessed \/ SendAck \/ WriteFails \/ (Crash /\ job # NoJob)
    PROVE  AckInv'
<1> USE DEF WrittenInv, DInv, DTypeOK
<1>1. job # NoJob
  BY DEF AppendMessage, MarkProcessed, SendAck, WriteFails, NoJob
<1>2. PICK m \in Ids : m = job.frame.id
  BY <1>1, JobFacts
<1>3. job.pc \in {"take", "commit", "contact", "append", "mark", "ack"}
  BY <1>1, JobFacts
<1>4. UNCHANGED <<session, opkHeld, opkUsed>>
  <2>1. opkUsed' = opkUsed
    BY DEF AppendMessage, MarkProcessed, SendAck, WriteFails, Crash, senders
  <2> QED
    BY <2>1 DEF AppendMessage, MarkProcessed, SendAck, WriteFails, Crash
<1>5. CASE AppendMessage
  <2>1. history' = Append(history, m) /\ UNCHANGED <<torn, processed, acked>>
    BY <1>2, <1>5 DEF AppendMessage, ghosts
  <2>2. Settled(m)'
    BY <2>1, ShownGrows DEF Settled
  <2>3. job'.pc = "mark" /\ job'.frame = job.frame
    BY <1>1, <1>5, JobGoes DEF AppendMessage
  <2> QED
    BY <1>1, <1>2, <1>4, <2>1, <2>2, <2>3, AckSettled
<1>6. CASE MarkProcessed
  <2>1. processed' = processed \cup {m} /\ UNCHANGED <<history, torn, acked>> /\ job.pc = "mark"
    BY <1>2, <1>6 DEF MarkProcessed, ghosts
  <2>2. Settled(m)'
    BY <1>2, <2>1 DEF AckInv, Settled, Shown
  <2>3. job'.pc = "ack" /\ job'.frame = job.frame
    BY <1>1, <1>6, JobGoes DEF MarkProcessed
  <2> QED
    BY <1>1, <1>2, <1>4, <2>1, <2>2, <2>3, AckSettled
<1>7. CASE SendAck
  <2>1. acked' \subseteq acked \cup {m} /\ UNCHANGED <<history, torn, processed>> /\ job.pc = "ack" /\ job' = NoJob
    BY <1>2, <1>7 DEF SendAck
  <2>2. Settled(m)'
    BY <1>2, <2>1 DEF AckInv, Settled, Shown
  <2> QED
    BY <1>1, <1>2, <1>4, <2>1, <2>2, AckSettled
<1>8. CASE WriteFails
  <2>1. UNCHANGED <<history, processed, acked>>
    BY <1>8 DEF WriteFails
  <2>2. CASE torn' = torn \cup {m} /\ Goto("mark")
    <3>1. Settled(m)'
      BY <2>2 DEF Settled
    <3>2. job'.pc = "mark" /\ job'.frame = job.frame
      BY <1>1, <2>2, JobGoes
    <3> QED
      BY <1>1, <1>2, <1>4, <2>1, <2>2, <3>1, <3>2, AckSettled
  <2>3. CASE job.pc = "mark" /\ job' = NoJob /\ torn' = torn
    <3>1. Settled(m)'
      BY <1>2, <2>1, <2>3 DEF AckInv, Settled, Shown
    <3> QED
      BY <1>1, <1>2, <1>4, <2>1, <2>3, <3>1, AckSettled
  <2> QED
    BY <1>2, <1>8, <2>2, <2>3 DEF WriteFails
<1>9. CASE Crash
  <2>1. UNCHANGED <<history, processed, acked>> /\ job' = NoJob /\ job'.pc = "none"
    BY <1>9 DEF Crash, NoJob
  <2>2. torn' = IF PartlyWritten THEN torn \cup {m} ELSE torn
    BY <1>2, <1>9 DEF Crash
  <2>3. CASE Settled(m)'
    <3>1. torn \subseteq torn'
      BY <2>2
    <3> QED
      BY <1>1, <1>2, <1>4, <2>1, <2>3, <3>1, AckSettled
  <2>4. CASE ~ Settled(m)'
    <3>1. ~ PartlyWritten /\ torn' = torn
      BY <2>2, <2>4 DEF Settled
    <3>2. job.pc \notin {"contact", "append"}
      BY <3>1 DEF PartlyWritten
    <3>3. \A k : Settled(k)' <=> Settled(k)
      BY <2>1, <3>1 DEF Settled, Shown
    <3>4. PICK f \in Senders : f = SenderOf(m)
      BY IdFacts
    <3>5. ASSUME NEW g \in Senders \ opkHeld PROVE opkUsed[g] /\ Settled(<<g, 1>>)
      <4>1. opkUsed[g] /\ (Settled(<<g, 1>>) \/ Writing(<<g, 1>>))
        BY DEF AckInv
      <4>2. ASSUME Writing(<<g, 1>>) PROVE PartlyWritten
        <5>1. m = <<g, 1>> /\ job.pc \in {"commit", "contact", "append"}
          BY <1>2, <4>2 DEF Writing
        <5>2. SenderOf(m) = g /\ Number(m) = 1
          BY <5>1, PairFacts
        <5> QED
          BY <1>2, <4>1, <5>1, <5>2 DEF PartlyWritten
      <4> QED
        BY <3>1, <4>1, <4>2
    <3> QED
      BY <1>4, <2>1, <3>2, <3>3, <3>5 DEF AckInv
  <2> QED
    BY <2>3, <2>4
<1> QED
  BY <1>5, <1>6, <1>7, <1>8, <1>9

LEMMA AckStep == ASSUME WrittenInv, KeyPaths, AckInv, [DeliveryNext]_dvars PROVE AckInv'
<1> USE DEF WrittenInv
<1>1. CASE Begin \/ TakeOneTimePreKey \/ CommitSession \/ AddContact
  BY <1>1, AckBegin, AckTake, AckCommit, AckContact
<1>2. CASE AppendMessage \/ MarkProcessed \/ SendAck \/ WriteFails \/ (Crash /\ job # NoJob)
  BY <1>2, AckWrites
<1>3. CASE UNCHANGED <<job, session, history, processed, acked, torn, opkHeld>>
  <2>1. ASSUME NEW g \in Senders, opkUsed[g] PROVE opkUsed'[g]
    <3>1. 1 \in 1 .. MaxN
      BY DeliveryAssumption DEF DeliveryAssumption
    <3>2. <<g, 1>> \in Ids /\ SenderOf(<<g, 1>>) = g /\ Number(<<g, 1>>) = 1
      BY <3>1, PairIsId, PairFacts
    <3>3. Sent(<<g, 1>>)
      BY <2>1, <3>2 DEF SentInv, SendersSent, OpkSent, Sent
    <3> QED
      BY <2>1, <3>2, <3>3, OpkKept
  <2> QED
    BY <1>3, <2>1 DEF AckInv, Settled, Shown, Writing
<1>4. CASE Crash /\ job = NoJob
  <2>1. UNCHANGED <<job, session, history, processed, acked, torn, opkHeld>>
    BY <1>4 DEF Crash, PartlyWritten, NoJob
  <2> QED
    BY <1>3, <2>1
<1>5. \/ UNCHANGED <<job, session, history, processed, acked, torn, opkHeld>>
      \/ Begin \/ TakeOneTimePreKey \/ CommitSession \/ AddContact \/ AppendMessage \/ MarkProcessed
      \/ SendAck \/ Crash \/ WriteFails
  BY DEF DeliveryNext, Accepted, PostAgain, FallBack, SendPlain, SendWithoutKey, SendSealed, HandOn, HandleSeal,
         Reconnect, Disconnect, Receive, Object, Client, client, ghosts, dvars
<1> QED
  BY <1>1, <1>2, <1>3, <1>4, <1>5

(* The object is told to forget a message only when it is in the history,  *)
(* or a fault struck while that very message was being written: in every   *)
(* case but one, a sealed bootstrap with a one-time prekey, whose X3DH     *)
(* cannot find the key (decryptIncoming, sendAck).                         *)
THEOREM AckHolds == DeliverySpec => []((mode.token => ~ mode.opk) => AckedIsShown)
<1>1. DeliveryInit => (KeyPaths => AckInv)
  BY DEF DeliveryInit, AckInv, NoJob, Shown
<1>2. WrittenInv /\ (KeyPaths => AckInv) /\ [DeliveryNext]_dvars => (KeyPaths => AckInv)'
  <2>1. ASSUME WrittenInv, [DeliveryNext]_dvars PROVE mode' = mode
    BY <2>1, WrittenStep, SentGrows DEF WrittenInv, DInv
  <2> QED
    BY <2>1, AckStep DEF KeyPaths
<1>3. (KeyPaths => AckInv) => ((mode.token => ~ mode.opk) => AckedIsShown)
  BY DEF KeyPaths, AckInv, AckedIsShown, Settled
<1> QED
  BY <1>1, <1>2, <1>3, WrittenHolds, PTL DEF DeliverySpec

-----------------------------------------------------------------------------
(* What steps do to the line a message stands in.                          *)

\* The head of the line goes: it is another message, or one dropped for want of a session.
LEMMA PlacedTail ==
    ASSUME NEW line \in Seq(Frame), line # << >>, NEW f \in Senders, NEW n \in 1 .. MaxN, MaxN \in Nat,
           UNCHANGED <<queue, alive>>, session'[f] = session[f], Placed(line, f, n),
           line[1].id = <<f, n>> => session[f] = {} /\ n # 1
    PROVE  Placed(Tail(line), f, n)'
<1>1. PICK next : next = Tail(line)
  OBVIOUS
<1>2. /\ Len(line) \in Nat /\ Len(line) >= 1 /\ DOMAIN line = 1 .. Len(line)
      /\ DOMAIN next = 1 .. Len(line) - 1 /\ Len(next) = Len(line) - 1
      /\ \A j \in DOMAIN next : next[j] = line[j + 1]
  <2>1. Len(line) \in Nat \ {0} /\ DOMAIN line = 1 .. Len(line)
    BY EmptySeq, LenProperties
  <2>2. /\ next \in Seq(Frame) /\ Len(next) = Len(line) - 1
        /\ \A j \in 1 .. Len(next) : next[j] = line[j + 1]
    BY <1>1, HeadTailProperties
  <2>3. DOMAIN next = 1 .. Len(next)
    BY <2>2, LenProperties
  <2> QED
    BY <2>1, <2>2, <2>3
<1> PICK m : m = <<f, n>>
  OBVIOUS
<1>3. ASSUME NEW i \in Nat, Ahead(next, m, i)' PROVE Ahead(line, m, i + 1)
  <2>1. CASE \E e \in queue : e.id = m
    BY <2>1 DEF Ahead
  <2>2. CASE \E j \in DOMAIN next : j > i /\ next[j].id = m
    <3>1. PICK j \in DOMAIN next : j > i /\ next[j].id = m
      BY <2>2
    <3>2. j + 1 \in DOMAIN line /\ j + 1 > i + 1 /\ line[j + 1].id = m
      BY <1>2, <3>1
    <3> QED
      BY <3>2 DEF Ahead
  <2> QED
    BY <1>3, <2>1, <2>2 DEF Ahead
<1>4. ASSUME NEW i \in Nat, Ahead(line, m, i) PROVE Ahead(line, m, 0)
  <2>1. CASE \E e \in queue : e.id = m
    BY <2>1 DEF Ahead
  <2>2. CASE \E j \in DOMAIN line : j > i /\ line[j].id = m
    <3>1. PICK j \in DOMAIN line : j > i /\ line[j].id = m
      BY <2>2
    <3>2. j > 0
      BY <1>2, <3>1
    <3> QED
      BY <3>1, <3>2 DEF Ahead
  <2> QED
    BY <1>4, <2>1, <2>2 DEF Ahead
<1>5. Ahead(next, m, 0)' => \A k \in session'[f] : k < n
  BY <1>3, <1>4 DEF Placed
<1>6. ASSUME NEW i \in 1 .. Len(next) + 1, Ahead(next, m, i)', Behind(next, f, n, i)' PROVE Announced(next, f, n, i)'
  <2>1. i + 1 \in 1 .. Len(line) + 1
    BY <1>2
  <2>2. Behind(line, f, n, i + 1)
    <3>1. CASE i \in DOMAIN next /\ SenderOf(next[i].id) = f /\ Number(next[i].id) > n
      <4>1. i + 1 \in DOMAIN line /\ line[i + 1] = next[i]
        BY <1>2, <3>1
      <4> QED
        BY <3>1, <4>1 DEF Behind
    <3>2. CASE i = Len(next) + 1 /\ alive # {}
      <4>1. i + 1 = Len(line) + 1
        BY <1>2, <3>2
      <4> QED
        BY <3>2, <4>1 DEF Behind
    <3> QED
      BY <1>6, <3>1, <3>2 DEF Behind
  <2>3. Announced(line, f, n, i + 1)
    <3>1. i \in Nat
      BY <1>2
    <3>2. Ahead(line, m, i + 1)
      BY <1>3, <1>6, <3>1
    <3> QED
      BY <2>1, <2>2, <3>2 DEF Placed
  <2>4. ASSUME n = 1 \/ session'[f] # {} PROVE Stands(next, m, 0, i)
    <3>1. PICK j \in DOMAIN line : 0 < j /\ j < i + 1 /\ line[j].id = m
      BY <2>3, <2>4 DEF Announced, Stands
    <3>2. j # 1
      BY <2>4, <3>1
    <3>3. j - 1 \in DOMAIN next /\ next[j - 1] = line[j]
      BY <1>2, <3>1, <3>2
    <3>4. 0 < j - 1 /\ j - 1 < i
      BY <1>2, <3>1, <3>2
    <3> QED
      BY <3>1, <3>3, <3>4 DEF Stands
  <2>5. ASSUME n # 1, NEW k \in DOMAIN next, k < i, next[k].id = <<f, 1>> PROVE Stands(next, m, k, i)
    <3>1. k + 1 \in DOMAIN line /\ line[k + 1].id = <<f, 1>> /\ k + 1 < i + 1
      BY <1>2, <2>5
    <3>2. PICK j \in DOMAIN line : k + 1 < j /\ j < i + 1 /\ line[j].id = m
      BY <2>3, <2>5, <3>1 DEF Announced, Stands
    <3>3. k \in Nat /\ j \in Nat /\ i \in Nat /\ k < j - 1 /\ j - 1 < i
      BY <1>2, <3>2
    <3>4. j - 1 \in DOMAIN next
      BY <1>2, <3>3
    <3>5. next[j - 1] = line[j]
      BY <1>2, <3>3, <3>4
    <3> QED
      BY <3>2, <3>3, <3>4, <3>5 DEF Stands
  <2> QED
    BY <2>4, <2>5 DEF Announced, Stands
<1>7. Placed(next, f, n)'
  BY <1>5, <1>6 DEF Placed
<1> QED
  BY <1>1, <1>7

\* The head of the line is consumed, and the message is another of the same sender.
LEMMA PlacedCommit ==
    ASSUME NEW line \in Seq(Frame), line # << >>, NEW f \in Senders, NEW n \in 1 .. MaxN, MaxN \in Nat,
           UNCHANGED <<queue, alive>>, Placed(line, f, n),
           NEW h \in 1 .. MaxN, h # n, line[1].id = <<f, h>>, session[f] # {} \/ h = 1,
           session[f] \subseteq Nat, session'[f] = session[f] \cup {h}
    PROVE  Placed(Tail(line), f, n)'
<1>1. PICK next : next = Tail(line)
  OBVIOUS
<1>2. /\ Len(line) \in Nat /\ Len(line) >= 1 /\ DOMAIN line = 1 .. Len(line)
      /\ DOMAIN next = 1 .. Len(line) - 1 /\ Len(next) = Len(line) - 1
      /\ \A j \in DOMAIN next : next[j] = line[j + 1]
  <2>1. Len(line) \in Nat \ {0} /\ DOMAIN line = 1 .. Len(line)
    BY EmptySeq, LenProperties
  <2>2. /\ next \in Seq(Frame) /\ Len(next) = Len(line) - 1
        /\ \A j \in 1 .. Len(next) : next[j] = line[j + 1]
    BY <1>1, HeadTailProperties
  <2>3. DOMAIN next = 1 .. Len(next)
    BY <2>2, LenProperties
  <2> QED
    BY <2>1, <2>2, <2>3
<1> PICK m : m = <<f, n>>
  OBVIOUS
<1>3. line[1].id # m /\ SenderOf(line[1].id) = f /\ Number(line[1].id) = h
  BY PairFacts
<1>4. ASSUME NEW i \in Nat, Ahead(next, m, i)' PROVE Ahead(line, m, i + 1) /\ Ahead(line, m, 0) /\ Ahead(line, m, 1)
  <2>1. CASE \E e \in queue : e.id = m
    BY <2>1 DEF Ahead
  <2>2. CASE \E j \in DOMAIN next : j > i /\ next[j].id = m
    <3>1. PICK j \in DOMAIN next : j > i /\ next[j].id = m
      BY <2>2
    <3>2. j + 1 \in DOMAIN line /\ j + 1 > i + 1 /\ j + 1 > 0 /\ j + 1 > 1 /\ line[j + 1].id = m
      BY <1>2, <3>1
    <3> QED
      BY <3>2 DEF Ahead
  <2> QED
    BY <1>4, <2>1, <2>2 DEF Ahead
<1>5. ASSUME Ahead(next, m, 0)', NEW k \in session'[f] PROVE k < n
  <2>1. Ahead(line, m, 0) /\ Ahead(line, m, 1)
    BY <1>4, <1>5
  <2>2. CASE k \in session[f]
    BY <2>1, <2>2 DEF Placed
  <2>3. ~ (h > n)
    <3>1. SUFFICES ASSUME h > n PROVE FALSE
      OBVIOUS
    <3>2. Behind(line, f, n, 1)
      BY <1>2, <1>3, <3>1 DEF Behind
    <3>3. Announced(line, f, n, 1)
      BY <1>2, <2>1, <3>2 DEF Placed
    <3>4. ~ Stands(line, m, 0, 1)
      BY <1>2 DEF Stands
    <3>5. n # 1 /\ session[f] = {}
      BY <3>3, <3>4 DEF Announced
    <3> QED
      BY <3>1, <3>5
  <2> QED
    BY <1>5, <2>2, <2>3
<1>6. ASSUME NEW i \in 1 .. Len(next) + 1, Ahead(next, m, i)', Behind(next, f, n, i)' PROVE Announced(next, f, n, i)'
  <2>1. i + 1 \in 1 .. Len(line) + 1
    BY <1>2
  <2>2. Behind(line, f, n, i + 1)
    <3>1. CASE i \in DOMAIN next /\ SenderOf(next[i].id) = f /\ Number(next[i].id) > n
      <4>1. i + 1 \in DOMAIN line /\ line[i + 1] = next[i]
        BY <1>2, <3>1
      <4> QED
        BY <3>1, <4>1 DEF Behind
    <3>2. CASE i = Len(next) + 1 /\ alive # {}
      <4>1. i + 1 = Len(line) + 1
        BY <1>2, <3>2
      <4> QED
        BY <3>2, <4>1 DEF Behind
    <3> QED
      BY <1>6, <3>1, <3>2 DEF Behind
  <2>3. Announced(line, f, n, i + 1)
    BY <1>4, <1>6, <2>1, <2>2 DEF Placed
  <2>4. Stands(next, m, 0, i)
    <3>1. PICK j \in DOMAIN line : 0 < j /\ j < i + 1 /\ line[j].id = m
      <4>1. CASE n = 1 \/ session[f] # {}
        BY <2>3, <4>1 DEF Announced, Stands
      <4>2. CASE n # 1 /\ session[f] = {}
        <5>1. line[1].id = <<f, 1>> /\ 1 \in DOMAIN line /\ 1 < i + 1
          BY <1>2, <4>2
        <5>2. Stands(line, m, 1, i + 1)
          BY <2>3, <4>2, <5>1 DEF Announced
        <5> QED
          BY <1>2, <5>2 DEF Stands
      <4> QED
        BY <4>1, <4>2
    <3>2. j # 1
      BY <1>3, <3>1
    <3>3. j - 1 \in DOMAIN next /\ next[j - 1] = line[j] /\ 0 < j - 1 /\ j - 1 < i
      BY <1>2, <3>1, <3>2
    <3> QED
      BY <3>1, <3>3 DEF Stands
  <2>5. ASSUME n # 1, NEW k \in DOMAIN next, k < i, next[k].id = <<f, 1>> PROVE Stands(next, m, k, i)
    <3>1. k + 1 \in DOMAIN line /\ line[k + 1].id = <<f, 1>> /\ k + 1 < i + 1
      BY <1>2, <2>5
    <3>2. PICK j \in DOMAIN line : k + 1 < j /\ j < i + 1 /\ line[j].id = m
      BY <2>3, <2>5, <3>1 DEF Announced, Stands
    <3>3. j - 1 \in DOMAIN next /\ next[j - 1] = line[j] /\ k < j - 1 /\ j - 1 < i
      BY <1>2, <2>5, <3>2
    <3> QED
      BY <3>2, <3>3 DEF Stands
  <2> QED
    BY <2>4, <2>5 DEF Announced, Stands
<1>7. Placed(next, f, n)'
  BY <1>5, <1>6 DEF Placed
<1> QED
  BY <1>1, <1>7

\* Mail leaves the queue, or other mail enters it.
LEMMA PlacedSame ==
    ASSUME NEW line \in Seq(Frame), NEW f \in Senders, NEW n \in 1 .. MaxN,
           \A e \in queue' : e \in queue \/ e.id # <<f, n>>,
           alive' \subseteq alive, session'[f] = session[f], Placed(line, f, n)
    PROVE  Placed(line, f, n)'
<1> PICK m : m = <<f, n>>
  OBVIOUS
<1>1. \A i \in Nat : Ahead(line, m, i)' => Ahead(line, m, i)
  BY DEF Ahead
<1>2. \A i \in 1 .. Len(line) + 1 : Behind(line, f, n, i)' => Behind(line, f, n, i)
  BY DEF Behind
<1>3. \A i \in 1 .. Len(line) + 1 : Announced(line, f, n, i) => Announced(line, f, n, i)'
  BY DEF Announced, Stands
<1>4. Len(line) \in Nat
  BY LenProperties
<1> QED
  BY <1>1, <1>2, <1>3, <1>4 DEF Placed

\* The end of the line is lost with the connection.
LEMMA PlacedCut ==
    ASSUME NEW next \in Seq(Frame), NEW lost \in Seq(Frame), NEW f \in Senders, NEW n \in 1 .. MaxN,
           UNCHANGED queue, alive' = {}, session'[f] = session[f], Placed(next \o lost, f, n)
    PROVE  Placed(next, f, n)'
<1>1. PICK line : line = next \o lost
  OBVIOUS
<1>2. /\ Len(next) \in Nat /\ DOMAIN next = 1 .. Len(next) /\ DOMAIN next \subseteq DOMAIN line
      /\ \A j \in DOMAIN next : next[j] = line[j]
      /\ DOMAIN line = 1 .. Len(line) /\ Len(line) \in Nat /\ Len(next) <= Len(line)
  <2>1. /\ line \in Seq(Frame) /\ Len(line) = Len(next) + Len(lost)
        /\ \A i \in 1 .. Len(next) + Len(lost) : line[i] = IF i <= Len(next) THEN next[i] ELSE lost[i - Len(next)]
    BY <1>1, ConcatProperties
  <2>2. Len(next) \in Nat /\ DOMAIN next = 1 .. Len(next) /\ Len(lost) \in Nat /\ DOMAIN line = 1 .. Len(line)
    BY <2>1, LenProperties
  <2> QED
    BY <2>1, <2>2
<1> PICK m : m = <<f, n>>
  OBVIOUS
<1>3. \A i \in Nat : Ahead(next, m, i)' => Ahead(line, m, i)
  BY <1>2 DEF Ahead
<1>4. Ahead(next, m, 0)' => \A k \in session'[f] : k < n
  BY <1>1, <1>3 DEF Placed
<1>5. ASSUME NEW i \in 1 .. Len(next) + 1, Ahead(next, m, i)', Behind(next, f, n, i)' PROVE Announced(next, f, n, i)'
  <2>1. i \in DOMAIN next /\ i \in 1 .. Len(line) + 1 /\ Behind(line, f, n, i)
    BY <1>2, <1>5 DEF Behind
  <2>2. Announced(line, f, n, i)
    <3>1. Placed(line, f, n)
      BY <1>1
    <3>2. Ahead(line, m, i)
      <4>1. i \in Nat
        BY <1>2
      <4> QED
        BY <1>3, <1>5, <4>1
    <3> QED
      BY <2>1, <3>1, <3>2 DEF Placed
  <2>3. ASSUME NEW k \in DOMAIN next \cup {0}, Stands(line, m, k, i) PROVE Stands(next, m, k, i)
    <3>1. PICK j \in DOMAIN line : k < j /\ j < i /\ line[j].id = m
      BY <2>3 DEF Stands
    <3>2. j \in DOMAIN next
      BY <1>2, <2>1, <3>1
    <3>3. next[j] = line[j]
      BY <1>2, <3>2
    <3> QED
      BY <3>1, <3>2, <3>3 DEF Stands
  <2> QED
    BY <1>2, <2>2, <2>3 DEF Announced, Stands
<1> QED
  BY <1>4, <1>5 DEF Placed

\* A connection is made and the queue flushed to it.
LEMMA PlacedFlush ==
    ASSUME NEW line \in Seq(Frame), NEW l \in Seq(Frame), NEW f \in Senders, NEW n \in 1 .. MaxN, MaxN \in Nat,
           UNCHANGED queue, session'[f] = session[f], Placed(line, f, n),
           \A i \in DOMAIN l : \E e \in queue : e.id = l[i].id,
           \A e \in queue : \E i \in DOMAIN l : l[i].id = e.id,
           \A i, j \in DOMAIN l :
              SenderOf(l[i].id) = SenderOf(l[j].id) /\ Number(l[i].id) < Number(l[j].id) => i < j
    PROVE  Placed(line \o l, f, n)'
<1>1. PICK next : next = line \o l
  OBVIOUS
<1>2. PICK a \in Nat, b \in Nat : a = Len(line) /\ b = Len(l)
  BY LenProperties
<1>3. /\ Len(next) = a + b /\ DOMAIN next = 1 .. a + b /\ DOMAIN line = 1 .. a /\ DOMAIN l = 1 .. b
      /\ \A j \in 1 .. a : next[j] = line[j]
      /\ \A j \in 1 .. b : a + j \in 1 .. a + b /\ next[a + j] = l[j]
  <2>1. /\ next \in Seq(Frame) /\ Len(next) = a + b
        /\ \A i \in 1 .. a + b : next[i] = IF i <= a THEN line[i] ELSE l[i - a]
    BY <1>1, <1>2, ConcatProperties
  <2>2. DOMAIN line = 1 .. a /\ DOMAIN l = 1 .. b /\ DOMAIN next = 1 .. a + b
    BY <1>2, <2>1, LenProperties
  <2> QED
    BY <2>1, <2>2
<1> PICK m : m = <<f, n>>
  OBVIOUS
<1>4. SenderOf(m) = f /\ Number(m) = n /\ SenderOf(<<f, 1>>) = f /\ Number(<<f, 1>>) = 1
  BY PairFacts
<1>5. ASSUME NEW i \in DOMAIN next PROVE i \in 1 .. a \/ \E j \in 1 .. b : i = a + j /\ next[i] = l[j]
  <2>1. CASE i <= a
    BY <1>3, <2>1
  <2>2. CASE ~ (i <= a)
    <3>1. i - a \in 1 .. b /\ i = a + (i - a)
      BY <1>3, <2>2
    <3> QED
      BY <1>3, <3>1
  <2> QED
    BY <2>1, <2>2
<1>6. ASSUME NEW i \in Nat, Ahead(next, m, i)' PROVE Ahead(line, m, i) /\ (i > a => \E e \in queue : e.id = m)
  <2>1. CASE \E e \in queue : e.id = m
    BY <2>1 DEF Ahead
  <2>2. CASE \E j \in DOMAIN next : j > i /\ next[j].id = m
    <3>1. PICK j \in DOMAIN next : j > i /\ next[j].id = m
      BY <2>2
    <3>2. CASE j \in 1 .. a
      BY <1>3, <3>1, <3>2 DEF Ahead
    <3>3. CASE \E k \in 1 .. b : j = a + k /\ next[j] = l[k]
      <4>1. PICK k \in DOMAIN l : l[k].id = m
        BY <1>3, <3>1, <3>3
      <4>2. \E e \in queue : e.id = l[k].id
        OBVIOUS
      <4> QED
        BY <2>1, <4>1, <4>2
    <3> QED
      BY <1>5, <3>2, <3>3
  <2> QED
    BY <1>6, <2>1, <2>2 DEF Ahead
<1>7. Ahead(next, m, 0)' => \A k \in session'[f] : k < n
  BY <1>6 DEF Placed
<1>8. ASSUME NEW i \in 1 .. Len(next) + 1, Ahead(next, m, i)', Behind(next, f, n, i)' PROVE Announced(next, f, n, i)'
  <2>1. i \in 1 .. a + b + 1 /\ i \in Nat
    BY <1>3
  <2>2. CASE i <= a
    <3>1. i \in 1 .. a + 1 /\ i \in DOMAIN line /\ i # a + b + 1
      BY <1>3, <2>1, <2>2
    <3>2. Behind(line, f, n, i)
      BY <1>3, <1>8, <3>1 DEF Behind
    <3>3. Announced(line, f, n, i)
      <4>1. Ahead(line, m, i)
        BY <1>6, <1>8, <2>1
      <4> QED
        BY <1>2, <3>1, <3>2, <4>1 DEF Placed
    <3>4. ASSUME NEW k \in Nat, Stands(line, m, k, i) PROVE Stands(next, m, k, i)
      <4>1. PICK j \in DOMAIN line : k < j /\ j < i /\ line[j].id = m
        BY <3>4 DEF Stands
      <4>2. j \in DOMAIN next /\ next[j] = line[j]
        BY <1>3
      <4> QED
        BY <4>1, <4>2 DEF Stands
    <3>5. n = 1 \/ session'[f] # {} => Stands(next, m, 0, i)
      BY <3>3, <3>4 DEF Announced
    <3>6. ASSUME n # 1, NEW k \in DOMAIN next, k < i, next[k].id = <<f, 1>> PROVE Stands(next, m, k, i)
      <4>1. k \in DOMAIN line /\ line[k] = next[k] /\ k \in Nat
        BY <1>3, <2>2, <3>6
      <4> QED
        BY <3>3, <3>4, <3>6, <4>1 DEF Announced
    <3> QED
      BY <3>5, <3>6 DEF Announced, Stands
  <2>3. CASE i > a
    <3>1. PICK p \in 1 .. b : l[p].id = m
      <4>1. \E e \in queue : e.id = m
        BY <1>6, <1>8, <2>1, <2>3
      <4> QED
        BY <1>3, <4>1
    <3>2. a + p \in DOMAIN next /\ next[a + p].id = m
      BY <1>3, <3>1
    <3>3. a + p < i
      <4>1. CASE i = Len(next) + 1
        BY <1>3, <4>1
      <4>2. CASE i \in DOMAIN next /\ SenderOf(next[i].id) = f /\ Number(next[i].id) > n
        <5>1. PICK j \in 1 .. b : i = a + j /\ next[i] = l[j]
          <6>1. i \notin 1 .. a
            BY <2>3
          <6> QED
            BY <1>5, <4>2, <6>1
        <5>2. p < j
          <6>1. p \in DOMAIN l /\ j \in DOMAIN l
            BY <1>3
          <6>2. SenderOf(l[p].id) = SenderOf(l[j].id) /\ Number(l[p].id) < Number(l[j].id)
            BY <1>4, <3>1, <4>2, <5>1
          <6> QED
            BY <6>1, <6>2
        <5> QED
          BY <5>1, <5>2
      <4> QED
        BY <1>8, <4>1, <4>2 DEF Behind
    <3>4. ASSUME NEW k \in Nat, k < a + p PROVE Stands(next, m, k, i)
      BY <3>2, <3>3, <3>4 DEF Stands
    <3>5. ASSUME n # 1, NEW k \in DOMAIN next, k < i, next[k].id = <<f, 1>> PROVE k \in Nat /\ k < a + p
      <4>1. CASE k \in 1 .. a
        BY <4>1
      <4>2. CASE \E j \in 1 .. b : k = a + j /\ next[k] = l[j]
        <5>1. PICK j \in 1 .. b : k = a + j /\ next[k] = l[j]
          BY <4>2
        <5>2. j < p
          <6>1. j \in DOMAIN l /\ p \in DOMAIN l /\ 1 < n
            BY <1>3, <3>5
          <6>2. l[j].id = <<f, 1>>
            BY <3>5, <5>1
          <6>3. SenderOf(l[j].id) = SenderOf(l[p].id) /\ Number(l[j].id) < Number(l[p].id)
            BY <1>4, <3>1, <6>1, <6>2
          <6> QED
            BY <6>1, <6>3
        <5> QED
          BY <5>1, <5>2
      <4> QED
        BY <1>5, <4>1, <4>2
    <3>6. Stands(next, m, 0, i)
      <4>1. 0 < a + p
        OBVIOUS
      <4> QED
        BY <3>4, <4>1
    <3> QED
      BY <3>4, <3>5, <3>6 DEF Announced, Stands
  <2> QED
    BY <1>2, <2>1, <2>2, <2>3
<1>9. Placed(next, f, n)'
  BY <1>7, <1>8 DEF Placed
<1> QED
  BY <1>1, <1>9

\* A frame is sent live behind all the others.
LEMMA PlacedLive ==
    ASSUME NEW line \in Seq(Frame), NEW fr \in Frame, NEW f \in Senders, NEW n \in 1 .. MaxN, MaxN \in Nat,
           UNCHANGED <<queue, alive>>, alive # {}, session'[f] = session[f], Placed(line, f, n),
           SenderOf(fr.id) # f \/ Number(fr.id) > n
    PROVE  Placed(Append(line, fr), f, n)'
<1>1. PICK next : next = Append(line, fr)
  OBVIOUS
<1>2. PICK a \in Nat : a = Len(line)
  BY LenProperties
<1>3. /\ Len(next) = a + 1 /\ DOMAIN next = 1 .. a + 1 /\ DOMAIN line = 1 .. a
      /\ \A j \in 1 .. a : next[j] = line[j]
      /\ next[a + 1] = fr
  <2>1. /\ next \in Seq(Frame) /\ Len(next) = a + 1 /\ next[a + 1] = fr
        /\ \A j \in 1 .. a : next[j] = line[j]
    BY <1>1, <1>2, AppendProperties
  <2>2. DOMAIN line = 1 .. a /\ DOMAIN next = 1 .. a + 1
    BY <1>2, <2>1, LenProperties
  <2> QED
    BY <2>1, <2>2
<1> PICK m : m = <<f, n>>
  OBVIOUS
<1>4. fr.id # m /\ (n # 1 => fr.id # <<f, 1>>)
  BY PairFacts
<1>5. ASSUME NEW i \in Nat, Ahead(next, m, i)' PROVE Ahead(line, m, i) /\ (i > a => Ahead(line, m, a + 1))
  <2>1. CASE \E e \in queue : e.id = m
    BY <2>1 DEF Ahead
  <2>2. CASE \E j \in DOMAIN next : j > i /\ next[j].id = m
    <3>1. PICK j \in DOMAIN next : j > i /\ next[j].id = m
      BY <2>2
    <3>2. j \in DOMAIN line /\ line[j].id = m /\ ~ (i > a)
      BY <1>3, <1>4, <3>1
    <3> QED
      BY <3>1, <3>2 DEF Ahead
  <2> QED
    BY <1>5, <2>1, <2>2 DEF Ahead
<1>6. Ahead(next, m, 0)' => \A k \in session'[f] : k < n
  BY <1>5 DEF Placed
<1>7. ASSUME NEW i \in 1 .. Len(next) + 1, Ahead(next, m, i)', Behind(next, f, n, i)' PROVE Announced(next, f, n, i)'
  <2>1. i \in 1 .. a + 2 /\ i \in Nat
    BY <1>3
  <2>2. PICK o \in 1 .. a + 1 : o <= i /\ (i <= a => o = i) /\ (i > a => o = a + 1)
    <3>1. CASE i <= a
      BY <2>1, <3>1
    <3>2. CASE i > a
      BY <2>1, <3>2
    <3> QED
      BY <2>1, <3>1, <3>2
  <2>3. Ahead(line, m, o)
    <3>1. CASE i <= a
      BY <1>5, <1>7, <2>1, <2>2, <3>1
    <3>2. CASE i > a
      BY <1>5, <1>7, <2>1, <2>2, <3>2
    <3> QED
      BY <2>1, <3>1, <3>2
  <2>4. Behind(line, f, n, o)
    <3>1. CASE i <= a
      <4>1. i \in DOMAIN line /\ next[i] = line[i] /\ i # Len(next) + 1
        BY <1>3, <2>1, <3>1
      <4> QED
        BY <1>7, <2>2, <3>1, <4>1 DEF Behind
    <3>2. CASE i > a
      BY <1>2, <2>2, <3>2 DEF Behind
    <3> QED
      BY <2>1, <3>1, <3>2
  <2>5. Announced(line, f, n, o)
    BY <1>2, <2>3, <2>4 DEF Placed
  <2>6. ASSUME NEW k \in Nat, Stands(line, m, k, o) PROVE Stands(next, m, k, i)
    <3>1. PICK j \in DOMAIN line : k < j /\ j < o /\ line[j].id = m
      BY <2>6 DEF Stands
    <3>2. j \in DOMAIN next /\ next[j] = line[j] /\ j < i
      BY <1>3, <2>1, <2>2, <3>1
    <3> QED
      BY <3>1, <3>2 DEF Stands
  <2>7. n = 1 \/ session'[f] # {} => Stands(next, m, 0, i)
    BY <2>5, <2>6 DEF Announced
  <2>8. ASSUME n # 1, NEW k \in DOMAIN next, k < i, next[k].id = <<f, 1>> PROVE Stands(next, m, k, i)
    <3>1. k \in DOMAIN line /\ line[k] = next[k] /\ k \in Nat
      BY <1>3, <1>4, <2>8
    <3>2. k < o
      <4>1. CASE i <= a
        BY <2>2, <2>8, <4>1
      <4>2. CASE i > a
        BY <1>3, <2>2, <3>1, <4>2
      <4> QED
        BY <2>1, <4>1, <4>2
    <3> QED
      BY <2>5, <2>6, <2>8, <3>1, <3>2 DEF Announced
  <2> QED
    BY <2>7, <2>8 DEF Announced, Stands
<1>8. Placed(next, f, n)'
  BY <1>6, <1>7 DEF Placed
<1> QED
  BY <1>1, <1>8

-----------------------------------------------------------------------------
(* What steps do to the line.                                              *)

LEMMA OneBefore ==
    ASSUME NEW S, NEW x \in S, NEW q \in Seq(S)
    PROVE  /\ << x >> \o q \in Seq(S) /\ << x >> \o q # << >> /\ (<< x >> \o q)[1] = x
           /\ 1 \in DOMAIN (<< x >> \o q) /\ Tail(<< x >> \o q) = q
<1>1. << x >> \in Seq(S) /\ Len(<< x >>) = 1 /\ << x >>[1] = x
  OBVIOUS
<1>2. PICK r : r = << x >> \o q
  OBVIOUS
<1>3. /\ r \in Seq(S) /\ Len(r) = 1 + Len(q) /\ Len(q) \in Nat
      /\ \A i \in 1 .. 1 + Len(q) : r[i] = IF i <= 1 THEN << x >>[i] ELSE q[i - 1]
  BY <1>1, <1>2, ConcatProperties, LenProperties
<1>4. r[1] = x /\ r # << >> /\ 1 \in DOMAIN r
  <2>1. DOMAIN r = 1 .. Len(r)
    BY <1>3, LenProperties
  <2> QED
    BY <1>1, <1>3, <2>1, EmptySeq
<1>5. /\ Tail(r) \in Seq(S) /\ Len(Tail(r)) = Len(q)
      /\ \A i \in 1 .. Len(q) : Tail(r)[i] = q[i]
  <2>1. Tail(r) \in Seq(S) /\ Len(Tail(r)) = Len(r) - 1 /\ \A i \in 1 .. Len(Tail(r)) : Tail(r)[i] = r[i + 1]
    BY <1>3, <1>4, HeadTailProperties
  <2>2. Len(Tail(r)) = Len(q)
    BY <1>3, <2>1
  <2>3. ASSUME NEW i \in 1 .. Len(q) PROVE Tail(r)[i] = q[i]
    <3>1. Tail(r)[i] = r[i + 1]
      BY <2>1, <2>2
    <3>2. i + 1 \in 1 .. 1 + Len(q) /\ ~ (i + 1 <= 1) /\ (i + 1) - 1 = i
      BY <1>3
    <3> QED
      BY <1>3, <3>1, <3>2
  <2> QED
    BY <2>1, <2>2, <2>3
<1>6. Tail(r) = q
  BY <1>5, SeqEqual
<1> QED
  BY <1>2, <1>3, <1>4, <1>6

LEMMA HeadBefore ==
    ASSUME NEW S, NEW q \in Seq(S), q # << >>
    PROVE  << Head(q) >> \o Tail(q) = q
<1>1. PICK x \in S, t \in Seq(S) : x = Head(q) /\ t = Tail(q)
  BY HeadTailProperties
<1>2. Len(q) \in Nat \ {0} /\ Head(q) = q[1]
  BY EmptySeq
<1>3. Len(t) = Len(q) - 1 /\ \A i \in 1 .. Len(t) : t[i] = q[i + 1]
  BY <1>1, HeadTailProperties
<1>4. << x >> \in Seq(S) /\ Len(<< x >>) = 1 /\ << x >>[1] = x
  OBVIOUS
<1>5. PICK r : r = << x >> \o t
  OBVIOUS
<1>6. /\ r \in Seq(S) /\ Len(r) = 1 + Len(t)
      /\ \A i \in 1 .. 1 + Len(t) : r[i] = IF i <= 1 THEN << x >>[i] ELSE t[i - 1]
  BY <1>4, <1>5, ConcatProperties
<1>7. Len(r) = Len(q)
  BY <1>2, <1>3, <1>6
<1>8. ASSUME NEW i \in 1 .. Len(r) PROVE r[i] = q[i]
  <2>1. CASE i = 1
    BY <1>1, <1>2, <1>4, <1>6, <2>1
  <2>2. CASE i # 1
    <3>1. i - 1 \in 1 .. Len(t) /\ ~ (i <= 1) /\ (i - 1) + 1 = i /\ i \in 1 .. 1 + Len(t)
      BY <1>2, <1>3, <1>6, <2>2
    <3> QED
      BY <1>3, <1>6, <3>1
  <2> QED
    BY <2>1, <2>2
<1> QED
  BY <1>1, <1>5, <1>6, <1>7, <1>8, SeqEqual

LEMMA Regrouped ==
    ASSUME NEW S, NEW p \in Seq(S), NEW c \in Seq(S), NEW t \in Seq(S)
    PROVE  (p \o c) \o t = p \o (c \o t)
  BY ConcatAssociative, SMTT(60)

LEMMA MovesOver ==
    ASSUME NEW S, NEW p \in Seq(S), NEW c \in Seq(S), NEW one \in Seq(S), NEW t \in Seq(S)
    PROVE  (p \o (c \o one)) \o t = (p \o c) \o (one \o t)
<1>1. PICK ot \in Seq(S) : ot = one \o t
  BY ConcatProperties
<1>2. PICK co \in Seq(S) : co = c \o one
  BY ConcatProperties
<1>3. co \o t = c \o ot
  BY <1>1, <1>2, Regrouped, SMTT(60)
<1>4. (p \o co) \o t = p \o (co \o t)
  <2>1. co \in Seq(S)
    BY <1>2
  <2> QED
    BY <2>1, Regrouped, SMTT(60)
<1>5. (p \o c) \o ot = p \o (c \o ot)
  <2>1. ot \in Seq(S)
    BY <1>1
  <2> QED
    BY <2>1, Regrouped, SMTT(60)
<1> QED
  BY <1>1, <1>2, <1>3, <1>4, <1>5, SMTT(60)

\* A line in its three parts: the job, the chain and the wire.
Joined(p, c, w) == (p \o c) \o w

\* The first frame of a wire becomes the last of the chain.
LEMMA FirstMovesOver ==
    ASSUME NEW p \in Seq(Frame), NEW c \in Seq(Frame), NEW w \in Seq(Frame), w # << >>
    PROVE  Joined(p, Append(c, Head(w)), Tail(w)) = Joined(p, c, w)
<1>1. PICK x \in Frame : x = Head(w)
  BY HeadTailProperties
<1>2. PICK t \in Seq(Frame) : t = Tail(w)
  BY HeadTailProperties
<1>3. PICK one \in Seq(Frame) : one = << x >>
  <2>1. << x >> \in Seq(Frame)
    BY <1>1
  <2> QED
    BY <2>1
<1>4. w = one \o t
  BY <1>1, <1>2, <1>3, HeadBefore, SMTT(60)
<1>5. Append(c, x) = c \o one
  <2>1. Append(c, x) = c \o << x >>
    BY <1>1, AppendIsConcat
  <2> QED
    BY <1>3, <2>1
<1>6. (p \o (c \o one)) \o t = (p \o c) \o (one \o t)
  BY <1>2, <1>3, MovesOver, SMTT(60)
<1>7. (p \o Append(c, x)) \o t = (p \o c) \o w
  BY <1>4, <1>5, <1>6
<1> QED
  BY <1>1, <1>2, <1>7 DEF Joined

LEMMA ConcatAppend ==
    ASSUME NEW S, NEW p \in Seq(S), NEW w \in Seq(S), NEW x \in S
    PROVE  p \o Append(w, x) = Append(p \o w, x)
<1>1. << x >> \in Seq(S) /\ p \o w \in Seq(S)
  BY ConcatProperties
<1>2. Append(w, x) = w \o << x >> /\ Append(p \o w, x) = (p \o w) \o << x >>
  BY <1>1, AppendIsConcat
<1>3. (p \o w) \o << x >> = p \o (w \o << x >>)
  BY <1>1, ConcatAssociative
<1> QED
  BY <1>2, <1>3

LEMMA LineParts ==
    ASSUME DInv
    PROVE  /\ JobPart \in Seq(Frame) /\ chainq \in Seq(Frame) /\ WirePart \in Seq(Frame)
           /\ JobPart \o chainq \in Seq(Frame) /\ Line \in Seq(Frame)
           /\ \A s \in alive : alive = {s} /\ WirePart = wire[s]
<1>1. JobPart \in Seq(Frame)
  <2>1. CASE job = NoJob
    BY <2>1, EmptySeq DEF JobPart, NoJob
  <2>2. CASE job # NoJob
    <3>1. job.frame \in Frame
      BY <2>2, JobFacts DEF DInv
    <3> QED
      BY <3>1, EmptySeq DEF JobPart
  <2> QED
    BY <2>1, <2>2
<1>2. ASSUME NEW s \in alive PROVE alive = {s} /\ WirePart = wire[s] /\ wire[s] \in Seq(Frame)
  <2>1. alive = {s} /\ s \in Socks
    BY DEF DInv, TypeOK, LinksOK
  <2>2. (CHOOSE x \in alive : TRUE) = s
    BY <2>1
  <2> QED
    BY <2>1, <2>2 DEF WirePart, DInv, TypeOK
<1>3. WirePart \in Seq(Frame)
  <2>1. CASE alive = {}
    BY <2>1, EmptySeq DEF WirePart
  <2>2. CASE alive # {}
    BY <1>2, <2>2
  <2> QED
    BY <2>1, <2>2
<1>4. chainq \in Seq(Frame)
  BY DEF DInv, DTypeOK
<1>5. JobPart \o chainq \in Seq(Frame)
  BY <1>1, <1>4, ConcatProperties
<1>6. Line \in Seq(Frame)
  BY <1>3, <1>5, ConcatProperties DEF Line
<1> QED
  BY <1>1, <1>2, <1>3, <1>4, <1>5, <1>6

\* Without a job to decrypt, the line starts with the chain; with one, with its frame.
LEMMA LineIs ==
    ASSUME DInv
    PROVE  /\ job.pc \notin {"take", "commit"} => Line = chainq \o WirePart
           /\ job.pc \in {"take", "commit"} =>
                 /\ Line = << job.frame >> \o (chainq \o WirePart)
                 /\ Line # << >> /\ Line[1] = job.frame /\ Tail(Line) = chainq \o WirePart
                 /\ 1 \in DOMAIN Line
           /\ chainq # << >> => /\ << Head(chainq) >> \o (Tail(chainq) \o WirePart) = chainq \o WirePart
                                /\ chainq \o WirePart # << >> /\ (chainq \o WirePart)[1] = Head(chainq)
                                /\ Tail(chainq \o WirePart) = Tail(chainq) \o WirePart
<1>1. PICK c \in Seq(Frame), w \in Seq(Frame) : c = chainq /\ w = WirePart
  BY LineParts
<1>2. c \o w \in Seq(Frame)
  BY ConcatProperties
<1>3. ASSUME job.pc \notin {"take", "commit"} PROVE Line = c \o w
  BY <1>1, <1>3, ConcatEmptySeq DEF Line, JobPart
<1>4. ASSUME job.pc \in {"take", "commit"}
      PROVE  /\ Line = << job.frame >> \o (c \o w)
             /\ Line # << >> /\ Line[1] = job.frame /\ Tail(Line) = c \o w /\ 1 \in DOMAIN Line
  <2>1. job.frame \in Frame
    BY <1>4, JobFacts DEF DInv, NoJob
  <2>2. << job.frame >> \in Seq(Frame)
    BY <2>1
  <2>3. Line = << job.frame >> \o (c \o w)
    BY <1>1, <1>4, <2>2, ConcatAssociative DEF Line, JobPart
  <2> QED
    BY <1>2, <2>1, <2>3, OneBefore
<1>5. ASSUME c # << >>
      PROVE  /\ << Head(c) >> \o (Tail(c) \o w) = c \o w
             /\ c \o w # << >> /\ (c \o w)[1] = Head(c) /\ Tail(c \o w) = Tail(c) \o w
  <2>1. PICK x \in Frame, t \in Seq(Frame) : x = Head(c) /\ t = Tail(c) /\ << x >> \o t = c
    BY <1>5, HeadTailProperties, HeadBefore
  <2>2. << x >> \in Seq(Frame) /\ t \o w \in Seq(Frame)
    BY ConcatProperties
  <2>3. << x >> \o (t \o w) = c \o w
    BY <2>1, <2>2, ConcatAssociative
  <2> QED
    BY <2>1, <2>2, <2>3, OneBefore
<1> QED
  BY <1>1, <1>3, <1>4, <1>5

-----------------------------------------------------------------------------
(* The from-stamped path, step by step.                                    *)

\* Without delivery tokens nobody seals.
LEMMA PlainSteps ==
    ASSUME WrittenInv, ~ mode.token, [DeliveryNext]_dvars
    PROVE  \/ UNCHANGED dvars
           \/ \E f \in Senders : SendPlain(f) \/ HandOn(f)
           \/ \E s \in Socks : Reconnect(s) \/ Disconnect(s) \/ Receive(s)
           \/ Object \/ Client \/ Crash \/ WriteFails
<1>1. ASSUME NEW f \in Senders PROVE call[f] = NoCall
  BY DEF WrittenInv, DInv, DTypeOK, SentInv, SendersSent, RequestsSent
<1>2. posted = {}
  BY DEF WrittenInv, DInv, DTypeOK, SentInv, SendersSent, RequestsSent
<1>3. ASSUME NEW f \in Senders
      PROVE  /\ ~ SendWithoutKey(f) /\ ~ Accepted(f) /\ ~ PostAgain(f) /\ ~ FallBack(f)
             /\ \A t \in Tokens : ~ SendSealed(f, t)
  <2>1. call[f].relay = "none"
    BY <1>1 DEF NoCall
  <2> QED
    BY <1>1, <2>1 DEF SendWithoutKey, Accepted, PostAgain, FallBack, SendSealed
<1> QED
  BY <1>2, <1>3 DEF DeliveryNext

LEMMA Grows ==
    ASSUME DInv, DTypeOK', [DeliveryNext]_dvars
    PROVE  /\ \A f \in Senders : session[f] \subseteq session'[f]
           /\ torn \subseteq torn' /\ processed \subseteq processed'
           /\ \A f \in Senders : sendSeq[f] \in Nat /\ sendSeq'[f] \in Nat /\ sendSeq[f] <= sendSeq'[f]
           /\ \A m \in Ids : Fresh(m)' => Fresh(m)
<1> USE DEF DInv, DTypeOK
<1>1. session' = session \/ CommitSession
  BY DEF DeliveryNext, SendPlain, SendWithoutKey, HandOn, Accepted, PostAgain, FallBack, SendSealed, HandleSeal,
         Reconnect, Disconnect, Receive, Object, Client, Begin, TakeOneTimePreKey, AddContact,
         AppendMessage, MarkProcessed, SendAck, Crash, WriteFails, client, dvars
<1>2. \A f \in Senders : session[f] \subseteq session'[f]
  <2>1. CASE CommitSession
    BY <2>1 DEF CommitSession
  <2> QED
    BY <1>1, <2>1
<1>3. torn \subseteq torn' /\ processed \subseteq processed'
  BY DEF DeliveryNext, SendPlain, SendWithoutKey, HandOn, Accepted, PostAgain, FallBack, SendSealed, HandleSeal,
         Reconnect, Disconnect, Receive, Object, Client, Begin, TakeOneTimePreKey, CommitSession, AddContact,
         AppendMessage, MarkProcessed, SendAck, Crash, WriteFails, client, ghosts, dvars
<1>4. sendSeq \in [Senders -> Nat] /\ sendSeq' \in [Senders -> Nat]
  BY TypeStep DEF TypeOK
<1>5. sendSeq' = sendSeq \/ \E f \in Senders : HandOn(f)
  BY DEF DeliveryNext, SendPlain, SendWithoutKey, Accepted, PostAgain, FallBack, SendSealed, HandleSeal,
         Reconnect, Disconnect, Receive, Object, Client, Begin, TakeOneTimePreKey, CommitSession, AddContact,
         AppendMessage, MarkProcessed, SendAck, Crash, WriteFails, vars, dvars, SealedDeliver, RegisterToken,
         Connect, LinkDown, DeviceRead, SocketClosed, HandleAck
<1>6. ASSUME NEW g \in Senders PROVE sendSeq[g] <= sendSeq'[g]
  <2>1. PICK a \in Nat : a = sendSeq[g]
    BY <1>4
  <2>2. CASE sendSeq' = sendSeq
    BY <2>1, <2>2
  <2>3. CASE \E f \in Senders : HandOn(f)
    <3>1. PICK f \in Senders : sendSeq' = [sendSeq EXCEPT ![f] = @ + 1]
      BY <2>3 DEF HandOn, Deliver
    <3>2. sendSeq'[g] = a \/ sendSeq'[g] = a + 1
      BY <1>4, <2>1, <3>1
    <3> QED
      BY <2>1, <3>2
  <2> QED
    BY <1>5, <2>2, <2>3
<1>7. ASSUME NEW m \in Ids, Fresh(m)' PROVE Fresh(m)
  BY <1>2, <1>3, <1>7, IdFacts DEF Fresh
<1> QED
  BY <1>2, <1>3, <1>4, <1>6, <1>7

LEMMA OutboxNumbers ==
    ASSUME WrittenInv, WrittenInv', ~ mode.token, NumberInv, [DeliveryNext]_dvars, NEW g \in Senders
    PROVE  /\ nextN'[g] = sendSeq'[g] + Len(outbox'[g]) + 1
           /\ \A i \in 1 .. Len(outbox'[g]) : outbox'[g][i] = <<g, sendSeq'[g] + i>>
<1> USE DEF WrittenInv, DInv, DTypeOK
<1>1. PICK a \in Nat, q \in Seq(Ids) : a = sendSeq[g] /\ q = outbox[g]
  BY DEF TypeOK
<1>2. PICK b \in Nat : b = Len(q)
  BY <1>1, LenProperties
<1>3. nextN[g] = a + b + 1 /\ \A i \in 1 .. b : q[i] = <<g, a + i>>
  BY <1>1, <1>2 DEF NumberInv
<1>4. CASE UNCHANGED <<nextN, outbox, sendSeq>>
  BY <1>4 DEF NumberInv
<1>5. ASSUME NEW f \in Senders, SendPlain(f)
      PROVE  /\ nextN'[g] = sendSeq'[g] + Len(outbox'[g]) + 1
             /\ \A i \in 1 .. Len(outbox'[g]) : outbox'[g][i] = <<g, sendSeq'[g] + i>>
  <2>1. /\ nextN' = [nextN EXCEPT ![f] = @ + 1] /\ outbox' = [outbox EXCEPT ![f] = Append(@, <<f, nextN[f]>>)]
        /\ sendSeq' = sendSeq /\ <<f, nextN[f]>> \in Ids
    BY <1>5, NextIsId DEF SendPlain, NextSend, ToOutbox, vars
  <2>2. CASE f = g
    <3>1. PICK x \in Ids : x = <<f, nextN[f]>>
      BY <2>1
    <3>2. outbox'[g] = Append(q, x) /\ sendSeq'[g] = a /\ nextN'[g] = a + b + 2 /\ x = <<g, a + (b + 1)>>
      <4>1. outbox'[g] = Append(q, x)
        BY <1>1, <2>1, <2>2, <3>1
      <4>2. sendSeq'[g] = a
        BY <1>1, <2>1
      <4>3. nextN'[g] = nextN[g] + 1
        BY <2>1, <2>2
      <4>4. x = <<g, nextN[g]>>
        BY <2>2, <3>1
      <4>5. nextN[g] = a + (b + 1) /\ nextN[g] + 1 = a + b + 2
        <5>1. nextN[g] = a + b + 1
          BY <1>3, Zenon
        <5> HIDE DEF WrittenInv, DInv, DTypeOK
        <5> QED
          BY <5>1
      <4> QED
        BY <4>1, <4>2, <4>3, <4>4, <4>5, Zenon
    <3>3. Len(Append(q, x)) = b + 1 /\ \A i \in 1 .. b + 1 : Append(q, x)[i] = IF i <= b THEN q[i] ELSE x
      BY <1>2, AppendProperties
    <3>4. \A i \in 1 .. b + 1 : Append(q, x)[i] = <<g, a + i>>
      <4>1. SUFFICES ASSUME NEW i \in 1 .. b + 1 PROVE Append(q, x)[i] = <<g, a + i>>
        OBVIOUS
      <4>2. CASE i <= b
        <5>1. i \in 1 .. b
          BY <4>2
        <5>2. Append(q, x)[i] = q[i]
          BY <3>3, <4>2
        <5> QED
          BY <1>3, <5>1, <5>2
      <4>3. CASE ~ (i <= b)
        <5>1. i = b + 1
          BY <4>3
        <5>2. Append(q, x)[i] = x
          BY <3>3, <4>3
        <5> QED
          BY <3>2, <5>1, <5>2
      <4> QED
        BY <4>2, <4>3
    <3>5. Len(outbox'[g]) = b + 1
      BY <3>2, <3>3, Zenon
    <3>6. a + b + 2 = a + (b + 1) + 1
      OBVIOUS
    <3> QED
      BY <3>2, <3>4, <3>5, <3>6
  <2>3. CASE f # g
    <3>1. outbox'[g] = q /\ sendSeq'[g] = a /\ nextN'[g] = a + b + 1
      BY <1>1, <1>3, <2>1, <2>3
    <3> QED
      BY <1>2, <1>3, <3>1
  <2> QED
    BY <2>2, <2>3
<1>6. ASSUME NEW f \in Senders, HandOn(f)
      PROVE  /\ nextN'[g] = sendSeq'[g] + Len(outbox'[g]) + 1
             /\ \A i \in 1 .. Len(outbox'[g]) : outbox'[g][i] = <<g, sendSeq'[g] + i>>
  <2>1. /\ nextN' = nextN /\ outbox' = [outbox EXCEPT ![f] = Tail(@)]
        /\ sendSeq' = [sendSeq EXCEPT ![f] = @ + 1] /\ outbox[f] # << >>
    BY <1>6 DEF HandOn, Deliver
  <2>2. CASE f = g
    <3>1. q # << >> /\ outbox'[g] = Tail(q) /\ sendSeq'[g] = a + 1 /\ nextN'[g] = a + b + 1
      <4>1. sendSeq \in [Senders -> Nat]
        BY DEF TypeOK
      <4> QED
        BY <1>1, <1>3, <2>1, <2>2, <4>1
    <3>2. Len(Tail(q)) = b - 1 /\ \A i \in 1 .. b - 1 : Tail(q)[i] = q[i + 1]
      BY <1>2, <3>1, HeadTailProperties
    <3>3. \A i \in 1 .. b - 1 : Tail(q)[i] = <<g, (a + 1) + i>>
      <4>1. SUFFICES ASSUME NEW i \in 1 .. b - 1 PROVE Tail(q)[i] = <<g, (a + 1) + i>>
        OBVIOUS
      <4>2. i + 1 \in 1 .. b /\ a + (i + 1) = (a + 1) + i
        OBVIOUS
      <4>3. q[i + 1] = <<g, a + (i + 1)>>
        BY <1>3, <4>2
      <4> QED
        BY <3>2, <4>2, <4>3
    <3>4. a + b + 1 = (a + 1) + (b - 1) + 1
      OBVIOUS
    <3> QED
      BY <3>1, <3>2, <3>3, <3>4
  <2>3. CASE f # g
    <3>1. sendSeq'[g] = a /\ outbox'[g] = q /\ nextN'[g] = a + b + 1
      <4>1. sendSeq \in [Senders -> Nat]
        BY DEF TypeOK
      <4> QED
        BY <1>1, <1>3, <2>1, <2>3, <4>1
    <3> QED
      BY <1>2, <1>3, <3>1
  <2> QED
    BY <2>2, <2>3
<1>7. UNCHANGED <<nextN, outbox, sendSeq>> \/ \E f \in Senders : SendPlain(f) \/ HandOn(f)
  BY PlainSteps DEF Reconnect, Disconnect, Receive, Object, Client, Begin, TakeOneTimePreKey, CommitSession,
         AddContact, AppendMessage, MarkProcessed, SendAck, Crash, WriteFails, vars, dvars, senders, RegisterToken,
         Connect, LinkDown, DeviceRead, SocketClosed, HandleAck
<1> QED
  BY <1>4, <1>5, <1>6, <1>7

LEMMA NumberStep ==
    ASSUME WrittenInv, WrittenInv', ~ mode.token, NumberInv, [DeliveryNext]_dvars
    PROVE  NumberInv'
<1> USE DEF WrittenInv, DInv
<1>1. /\ \A f \in Senders : session[f] \subseteq session'[f]
      /\ \A f \in Senders : sendSeq[f] \in Nat /\ sendSeq'[f] \in Nat /\ sendSeq[f] <= sendSeq'[f]
  BY Grows
<1>2. \A fr \in Frame : fr.seq \in Nat /\ fr.from \in Segments /\ fr.id \in Ids
  BY DEF Frame
<1>3. ASSUME NEW fr \in Frame, Known(fr) PROVE Known(fr)'
  BY <1>1, <1>2, <1>3 DEF Known
<1>4. PICK Good : Good = {fr \in Frame : Known(fr)'}
  OBVIOUS
<1>5. FramesIn(Good)
  BY <1>3, <1>4 DEF NumberInv, FramesIn, QueueIn, WireIn, ClientIn
<1>6. ASSUME NEW f \in Senders, HandOn(f) PROVE Handed(f) \in Good
  <2>1. outbox[f] # << >> /\ sendSeq' = [sendSeq EXCEPT ![f] = @ + 1] /\ sendSeq \in [Senders -> Nat]
    BY <1>6 DEF HandOn, Deliver, TypeOK
  <2>2. Handed(f) \in Frame
    BY <1>6, <2>1, HandedReal DEF Handed
  <2>3. outbox[f] \in Seq(Ids) /\ Len(outbox[f]) \in Nat \ {0} /\ Head(outbox[f]) = outbox[f][1]
    BY <2>1, EmptySeq DEF DTypeOK
  <2>4. outbox[f][1] = <<f, sendSeq[f] + 1>>
    BY <2>3 DEF NumberInv
  <2>5. PICK fr : fr = Handed(f)
    OBVIOUS
  <2>6. fr.from = f /\ fr.seq = sendSeq[f] /\ fr.id = <<f, sendSeq[f] + 1>>
    BY <2>3, <2>4, <2>5 DEF Handed
  <2>7. fr.seq < sendSeq'[f]
    BY <2>1, <2>6
  <2>8. Known(fr)'
    BY <2>6, <2>7 DEF Known
  <2> QED
    BY <1>4, <2>2, <2>5, <2>8
<1>7. ASSUME NEW p \in posted PROVE FALSE
  BY <1>7 DEF DTypeOK, SentInv, SendersSent, RequestsSent
<1>8. FramesIn(Good)'
  BY <1>4, <1>5, <1>6, <1>7, FramesStep DEF Arrive
<1>9. FramesIn({fr \in Frame : Known(fr)})'
  BY <1>4, <1>8 DEF FramesIn, QueueIn, WireIn, ClientIn
<1>10. ASSUME NEW f \in Senders, NEW k \in session'[f] PROVE k <= sendSeq'[f]
  <2>1. CASE k \in session[f]
    <3>1. k \in Nat /\ k <= sendSeq[f]
      <4>1. MaxN \in Nat
        BY DeliveryAssumption DEF DeliveryAssumption
      <4>2. session[f] \subseteq 1 .. MaxN
        BY DEF DTypeOK
      <4> QED
        BY <2>1, <4>1, <4>2 DEF NumberInv
    <3> QED
      BY <1>1, <3>1
  <2>2. CASE k \notin session[f]
    <3>1. CommitSession
      BY <2>2 DEF DeliveryNext, SendPlain, SendWithoutKey, HandOn, Accepted, PostAgain, FallBack, SendSealed, HandleSeal,
         Reconnect, Disconnect, Receive, Object, Client, Begin, TakeOneTimePreKey, AddContact,
         AppendMessage, MarkProcessed, SendAck, Crash, WriteFails, client, dvars
    <3>2. job # NoJob /\ job.frame \in Frame
      <4>1. job # NoJob
        BY <3>1 DEF CommitSession, NoJob
      <4> QED
        BY <4>1, JobFacts
    <3>3. PICK fr \in Frame : fr = job.frame
      BY <3>2
    <3>4. Known(fr) /\ sendSeq' = sendSeq
      BY <3>1, <3>2, <3>3 DEF NumberInv, FramesIn, ClientIn, CommitSession, vars
    <3>5. SenderOf(fr.id) = fr.from /\ Number(fr.id) = fr.seq + 1
      BY <3>4, PairFacts DEF Known
    <3>6. session' = [session EXCEPT ![fr.from] = @ \cup {fr.seq + 1}]
      BY <3>1, <3>3, <3>5 DEF CommitSession
    <3>7. f = fr.from /\ k = fr.seq + 1
      BY <2>2, <3>4, <3>6 DEF DTypeOK
    <3> QED
      BY <1>1, <1>2, <3>4, <3>7 DEF Known
  <2> QED
    BY <2>1, <2>2
<1> QED
  BY <1>9, <1>10, OutboxNumbers DEF NumberInv

\* What holds of the from-stamped path before a step.
Plain == WrittenInv /\ ~ mode.token /\ OrderInv /\ AckInv /\ NumberInv /\ LineInv /\ JobInv

\* The line after a step that leaves the connection alone.
LEMMA NextLine ==
    ASSUME DInv, DTypeOK', UNCHANGED <<alive, wire>>
    PROVE  /\ job'.pc \notin {"take", "commit"} => Line' = chainq' \o WirePart
           /\ job'.pc \in {"take", "commit"} => Line' = << job'.frame >> \o (chainq' \o WirePart)
<1>1. PICK c \in Seq(Frame), w \in Seq(Frame) : c = chainq' /\ w = WirePart
  BY LineParts DEF DTypeOK
<1>2. WirePart' = w
  BY <1>1 DEF WirePart
<1>3. ASSUME job'.pc \notin {"take", "commit"} PROVE Line' = c \o w
  BY <1>1, <1>2, <1>3, ConcatEmptySeq DEF Line, JobPart
<1>4. ASSUME job'.pc \in {"take", "commit"} PROVE Line' = << job'.frame >> \o (c \o w)
  <2>1. job'.frame \in Frame
    BY <1>4 DEF DTypeOK, Jobs, NoJob
  <2>2. << job'.frame >> \in Seq(Frame)
    BY <2>1
  <2> QED
    BY <1>1, <1>2, <1>4, <2>2, ConcatAssociative DEF Line, JobPart
<1> QED
  BY <1>1, <1>3, <1>4

LEMMA LineBecomes ==
    ASSUME NEW next, Line' = next, \A f \in Senders, n \in 1 .. MaxN : Fresh(<<f, n>>)' => Placed(next, f, n)'
    PROVE  LineInv'
<1>1. SUFFICES ASSUME NEW f \in Senders, NEW n \in 1 .. MaxN, Placed(next, f, n)' PROVE Placed(Line, f, n)'
  BY DEF LineInv
<1>2. \A m, i : Ahead(Line, m, i)' <=> Ahead(next, m, i)'
  BY DEF Ahead
<1>3. \A i : Behind(Line, f, n, i)' <=> Behind(next, f, n, i)'
  BY DEF Behind
<1>4. \A i : Announced(Line, f, n, i)' <=> Announced(next, f, n, i)'
  <2>1. \A m, k, i : Stands(Line, m, k, i)' <=> Stands(next, m, k, i)'
    BY DEF Stands
  <2> QED
    BY <2>1 DEF Announced
<1> QED
  BY <1>1, <1>2, <1>3, <1>4 DEF Placed

\* A message that is fresh after a step was placed before it.
LEMMA WasPlaced ==
    ASSUME Plain, DTypeOK', [DeliveryNext]_dvars, NEW f \in Senders, NEW n \in 1 .. MaxN, Fresh(<<f, n>>)'
    PROVE  Placed(Line, f, n)
<1>1. <<f, n>> \in Ids
  BY PairIsId
<1> QED
  BY <1>1, Grows DEF Plain, WrittenInv, LineInv

LEMMA LineSame ==
    ASSUME Plain, DTypeOK', [DeliveryNext]_dvars,
           Line' = Line, queue' \subseteq queue, alive' \subseteq alive, session' = session
    PROVE  LineInv'
<1>1. PICK line \in Seq(Frame) : line = Line
  BY LineParts DEF Plain, WrittenInv
<1>2. ASSUME NEW f \in Senders, NEW n \in 1 .. MaxN, Fresh(<<f, n>>)' PROVE Placed(line, f, n)'
  <2>1. Placed(line, f, n)
    BY <1>1, <1>2, WasPlaced
  <2> QED
    BY <2>1, PlacedSame
<1> QED
  BY <1>1, <1>2, LineBecomes

LEMMA LineTail ==
    ASSUME Plain, DTypeOK', [DeliveryNext]_dvars,
           Line # << >>, Line' = Tail(Line), UNCHANGED <<queue, alive, session>>,
           NEW h, h = Line[1].id, Fresh(h)' => session[SenderOf(h)] = {} /\ Number(h) # 1
    PROVE  LineInv'
<1>1. PICK line \in Seq(Frame) : line = Line
  BY LineParts DEF Plain, WrittenInv
<1>2. MaxN \in Nat
  BY DeliveryAssumption DEF DeliveryAssumption
<1>3. ASSUME NEW f \in Senders, NEW n \in 1 .. MaxN, Fresh(<<f, n>>)' PROVE Placed(Tail(line), f, n)'
  <2>1. Placed(line, f, n)
    BY <1>1, <1>3, WasPlaced
  <2>2. line[1].id = <<f, n>> => session[f] = {} /\ n # 1
    BY <1>1, <1>3, PairFacts
  <2> QED
    BY <1>1, <1>2, <2>1, <2>2, PlacedTail
<1>4. PICK next : next = Tail(line)
  OBVIOUS
<1> QED
  BY <1>1, <1>3, <1>4, LineBecomes

LEMMA LineBegin == ASSUME Plain, DTypeOK', Begin PROVE LineInv' /\ JobInv'
<1> USE DEF Plain, WrittenInv, DInv
<1>1. /\ job = NoJob /\ job.pc = "none" /\ chainq # << >> /\ chainq' = Tail(chainq)
      /\ UNCHANGED <<queue, alive, wire, session, torn, processed>>
  BY DEF Begin, NoJob, vars, storage
<1>2. [DeliveryNext]_dvars
  BY DEF DeliveryNext, Client
<1>3. PICK fr : fr = Head(chainq)
  OBVIOUS
<1>4. fr \in Frame /\ fr.id \in Ids /\ InSeq(chainq, fr)
  <2>1. chainq \in Seq(Frame) /\ chainq # << >>
    BY <1>1 DEF DTypeOK
  <2>2. fr \in Frame /\ InSeq(chainq, fr)
    BY <1>3, <2>1, InHead
  <2> QED
    BY <2>2 DEF Frame
<1>5. PICK m \in Ids : m = fr.id
  BY <1>4
<1>6. ~ Sealed(fr)
  <2>1. Real(fr)
    BY <1>4 DEF SentInv, FramesIn, ClientIn
  <2> QED
    BY <2>1 DEF Real, Sealed
<1>7. /\ Line # << >> /\ Line[1] = fr /\ Tail(Line) = Tail(chainq) \o WirePart
      /\ Line = << fr >> \o (Tail(chainq) \o WirePart)
  BY <1>1, <1>3, LineIs
<1>8. \A k : Fresh(k)' <=> Fresh(k)
  BY <1>1 DEF Fresh
<1>9. ASSUME job'.pc \in {"take", "commit"}, job'.frame = fr, m \notin processed PROVE LineInv' /\ JobInv'
  <2>1. Line' = Line
    BY <1>1, <1>7, <1>9, NextLine
  <2>2. LineInv'
    BY <1>1, <1>2, <2>1, LineSame
  <2>3. JobInv'
    BY <1>1, <1>5, <1>9 DEF JobInv
  <2> QED
    BY <2>2, <2>3
<1>10. ASSUME job' = job \/ (job'.pc \in {"mark", "ack"} /\ job'.frame = fr),
              job' # job => ~ Fresh(m), Fresh(m) => session[SenderOf(m)] = {} /\ Number(m) # 1
       PROVE  LineInv' /\ JobInv'
  <2>1. Line' = Tail(Line)
    BY <1>1, <1>7, <1>10, NextLine
  <2>2. m = Line[1].id
    BY <1>5, <1>7
  <2>3. LineInv'
    BY <1>1, <1>2, <1>7, <1>8, <1>10, <2>1, <2>2, LineTail
  <2>4. JobInv'
    <3>1. CASE job' = job
      BY <1>1, <3>1 DEF JobInv
    <3>2. CASE job' # job
      <4>1. job'.pc \in {"mark", "ack"} /\ job'.frame = fr /\ ~ Fresh(m)'
        BY <1>8, <1>10, <3>2
      <4>2. (~ Fresh(job.frame.id))'
        BY <1>5, <4>1 DEF Fresh
      <4> QED
        BY <4>1, <4>2 DEF JobInv
    <3> QED
      BY <3>1, <3>2
  <2> QED
    BY <2>3, <2>4
<1>11. CASE job' = [pc |-> "ack", frame |-> fr] /\ m \in processed
  <2>1. job'.pc = "ack" /\ job'.frame = fr /\ ~ Fresh(m)
    BY <1>11 DEF Fresh
  <2> QED
    BY <1>10, <2>1
<1>12. CASE job' = [pc |-> "mark", frame |-> fr] /\ Number(m) \in session[SenderOf(m)]
  <2>1. job'.pc = "mark" /\ job'.frame = fr /\ ~ Fresh(m)
    BY <1>12 DEF Fresh
  <2> QED
    BY <1>10, <2>1
<1>13. CASE \/ job' = [pc |-> "commit", frame |-> fr] /\ m \notin processed
            \/ job' = [pc |-> "take", frame |-> fr] /\ m \notin processed
  <2>1. job'.pc \in {"take", "commit"} /\ job'.frame = fr /\ m \notin processed
    BY <1>13
  <2> QED
    BY <1>9, <2>1
<1>14. CASE job' = job /\ session[SenderOf(m)] = {} /\ Number(m) # 1
  BY <1>10, <1>14
<1>15. \/ job' = [pc |-> "ack", frame |-> fr] /\ m \in processed
       \/ job' = [pc |-> "mark", frame |-> fr] /\ Number(m) \in session[SenderOf(m)]
       \/ job' = [pc |-> "commit", frame |-> fr] /\ m \notin processed
       \/ job' = [pc |-> "take", frame |-> fr] /\ m \notin processed
       \/ job' = job /\ session[SenderOf(m)] = {} /\ Number(m) # 1
  BY <1>3, <1>5, <1>6 DEF Begin, HasSession
<1> QED
  BY <1>11, <1>12, <1>13, <1>14, <1>15

LEMMA LineTake == ASSUME Plain, DTypeOK', TakeOneTimePreKey PROVE LineInv' /\ JobInv'
<1> USE DEF Plain, WrittenInv, DInv
<1>1. job # NoJob /\ job.pc = "take" /\ UNCHANGED <<queue, alive, wire, session, torn, processed, chainq>>
  BY DEF TakeOneTimePreKey, NoJob, vars, storage, ghosts
<1>2. [DeliveryNext]_dvars
  BY DEF DeliveryNext, Client
<1>3. PICK m \in Ids : m = job.frame.id
  BY <1>1, JobFacts
<1>4. PICK f \in Senders : f = SenderOf(m)
  BY IdFacts
<1>5. /\ Line = << job.frame >> \o (chainq \o WirePart)
      /\ Line # << >> /\ Line[1] = job.frame /\ Tail(Line) = chainq \o WirePart
  BY <1>1, LineIs
<1>6. \A k : Fresh(k)' <=> Fresh(k)
  BY <1>1 DEF Fresh
<1>7. CASE f \in opkHeld
  <2>1. job'.pc = "commit" /\ job'.frame = job.frame
    BY <1>1, <1>3, <1>4, <1>7, JobGoes DEF TakeOneTimePreKey
  <2>2. Line' = Line
    BY <1>1, <1>5, <2>1, NextLine
  <2>3. LineInv'
    BY <1>1, <1>2, <2>2, LineSame
  <2>4. JobInv'
    BY <1>1, <2>1 DEF JobInv
  <2> QED
    BY <2>3, <2>4
<1>8. CASE f \notin opkHeld
  <2>1. job'.pc = "mark" /\ job'.frame = job.frame
    BY <1>1, <1>3, <1>4, <1>8, JobGoes DEF TakeOneTimePreKey
  <2>2. m = <<f, 1>>
    BY <1>1, <1>3, <1>4, IdFacts DEF OnceInv
  <2>3. Settled(m)
    BY <1>1, <1>8, <2>2 DEF AckInv, Writing
  <2>4. ~ Fresh(m)
    BY <2>3 DEF Settled, Fresh, OnceInv
  <2>5. Line' = Tail(Line)
    BY <1>1, <1>5, <2>1, NextLine
  <2>6. m = Line[1].id
    BY <1>3, <1>5
  <2>7. LineInv'
    BY <1>1, <1>2, <1>5, <1>6, <2>4, <2>5, <2>6, LineTail
  <2>8. (~ Fresh(job.frame.id))'
    BY <1>3, <1>6, <2>1, <2>4 DEF Fresh
  <2> QED
    BY <2>1, <2>7, <2>8 DEF JobInv
<1> QED
  BY <1>7, <1>8

LEMMA LineCommit == ASSUME Plain, DTypeOK', CommitSession PROVE LineInv' /\ JobInv'
<1> USE DEF Plain, WrittenInv, DInv
<1>1. job # NoJob /\ job.pc = "commit" /\ UNCHANGED <<queue, alive, wire, torn, processed, chainq>>
  BY DEF CommitSession, NoJob, vars, storage, ghosts
<1>2. [DeliveryNext]_dvars
  BY DEF DeliveryNext, Client
<1>3. PICK m \in Ids : m = job.frame.id
  BY <1>1, JobFacts
<1>4. PICK g \in Senders, h \in 1 .. MaxN : g = SenderOf(m) /\ h = Number(m) /\ m = <<g, h>>
  BY IdFacts
<1>5. /\ Line # << >> /\ Line[1] = job.frame /\ Tail(Line) = chainq \o WirePart /\ 1 \in DOMAIN Line
  BY <1>1, LineIs
<1>6. PICK line \in Seq(Frame) : line = Line /\ line # << >> /\ line[1].id = m /\ 1 \in DOMAIN line
  BY <1>3, <1>5, LineParts
<1>7. session' = [session EXCEPT ![g] = @ \cup {h}]
  BY <1>3, <1>4 DEF CommitSession
<1>8. job'.pc \in {"contact", "append"} /\ job'.frame = job.frame
  BY <1>1, JobGoes DEF CommitSession, AfterCommit
<1>9. Line' = Tail(line)
  BY <1>1, <1>5, <1>6, <1>8, NextLine
<1>10. MaxN \in Nat /\ session[g] \subseteq Nat /\ \A f \in Senders : session[f] \subseteq 1 .. MaxN
  <2>1. MaxN \in Nat
    BY DeliveryAssumption DEF DeliveryAssumption
  <2>2. \A f \in Senders : session[f] \subseteq 1 .. MaxN
    BY DEF DTypeOK
  <2>3. 1 .. MaxN \subseteq Nat
    BY <2>1
  <2> QED
    BY <2>1, <2>2, <2>3
<1>11. session[g] # {} \/ h = 1
  BY <1>1, <1>3, <1>4 DEF AckInv
<1>12. ASSUME NEW f \in Senders, NEW n \in 1 .. MaxN, Fresh(<<f, n>>)' PROVE Placed(Tail(line), f, n)'
  <2>1. Placed(line, f, n)
    BY <1>2, <1>6, <1>12, WasPlaced
  <2>2. CASE f = g
    <3>1. n # h
      BY <1>7, <1>12, <2>2, PairFacts DEF Fresh, DTypeOK
    <3>2. session'[f] = session[f] \cup {h}
      BY <1>7, <2>2 DEF DTypeOK
    <3> QED
      BY <1>1, <1>4, <1>6, <1>10, <1>11, <2>1, <2>2, <3>1, <3>2, PlacedCommit
  <2>3. CASE f # g
    <3>1. session'[f] = session[f]
      BY <1>7, <2>3 DEF DTypeOK
    <3>2. line[1].id # <<f, n>>
      BY <1>4, <1>6, <2>3
    <3> QED
      BY <1>1, <1>6, <1>10, <2>1, <3>1, <3>2, PlacedTail
  <2> QED
    BY <2>2, <2>3
<1>13. LineInv'
  <2>1. PICK next : next = Tail(line)
    OBVIOUS
  <2> QED
    BY <1>9, <1>12, <2>1, LineBecomes
<1>14. m \notin torn => \A k \in session[g] : k < h
  <2>1. SUFFICES ASSUME m \notin torn PROVE \A k \in session[g] : k < h
    OBVIOUS
  <2>2. Fresh(m)
    BY <1>1, <1>3, <2>1 DEF Fresh, OnceInv, JobInv
  <2>3. Placed(line, g, h)
    BY <1>4, <1>6, <2>2 DEF LineInv
  <2>4. Ahead(line, m, 0)
    BY <1>6 DEF Ahead
  <2> QED
    BY <1>4, <2>3, <2>4 DEF Placed
<1>15. m \notin torn => \A k \in session'[g] : k <= h
  <2>1. session'[g] = session[g] \cup {h} /\ h \in Nat
    BY <1>7, <1>10 DEF DTypeOK
  <2>2. SUFFICES ASSUME m \notin torn, NEW k \in session'[g] PROVE k <= h
    OBVIOUS
  <2>3. k \in Nat /\ (k = h \/ k < h)
    BY <1>10, <1>14, <2>1, <2>2
  <2> QED
    BY <2>1, <2>3
<1>16. JobInv'
  BY <1>1, <1>3, <1>4, <1>8, <1>15 DEF JobInv
<1> QED
  BY <1>13, <1>16

\* The steps of a job that is past its commit, or has failed.
LEMMA LineWrites ==
    ASSUME Plain, DTypeOK', AddContact \/ AppendMessage \/ MarkProcessed \/ SendAck \/ WriteFails
    PROVE  LineInv' /\ JobInv'
<1> USE DEF Plain, WrittenInv, DInv
<1>1. /\ job # NoJob /\ UNCHANGED <<queue, alive, wire, session, chainq>>
      /\ job.pc \in {"take", "commit", "contact", "append", "mark", "ack"}
  <2>1. job # NoJob
    BY DEF AddContact, AppendMessage, MarkProcessed, SendAck, WriteFails, NoJob
  <2> QED
    BY <2>1, JobFacts DEF AddContact, AppendMessage, MarkProcessed, SendAck, WriteFails, vars, storage
<1>2. [DeliveryNext]_dvars
  BY DEF DeliveryNext, Client
<1>3. PICK m \in Ids : m = job.frame.id
  BY <1>1, JobFacts
<1>4. /\ job.pc \notin {"take", "commit"} => Line = chainq \o WirePart
      /\ job.pc \in {"take", "commit"} =>
            Line # << >> /\ Line[1] = job.frame /\ Tail(Line) = chainq \o WirePart
  BY LineIs
<1>5. ASSUME job.pc \notin {"take", "commit"}, job'.pc \notin {"take", "commit"} PROVE LineInv'
  <2>1. Line' = Line
    BY <1>1, <1>4, <1>5, NextLine
  <2> QED
    BY <1>1, <1>2, <2>1, LineSame
<1>6. CASE AddContact
  <2>1. job.pc = "contact" /\ job'.pc = "append" /\ job'.frame = job.frame /\ UNCHANGED <<torn, processed>>
    BY <1>1, <1>6, JobGoes DEF AddContact, ghosts
  <2>2. JobInv'
    BY <1>1, <2>1 DEF JobInv
  <2> QED
    BY <1>5, <2>1, <2>2
<1>7. CASE AppendMessage
  <2>1. job.pc = "append" /\ job'.pc = "mark" /\ job'.frame = job.frame
    BY <1>1, <1>7, JobGoes DEF AppendMessage
  <2>2. (~ Fresh(job.frame.id))'
    BY <1>1, <2>1 DEF Fresh, OnceInv
  <2>3. JobInv'
    BY <2>1, <2>2 DEF JobInv
  <2> QED
    BY <1>5, <2>1, <2>3
<1>8. CASE MarkProcessed
  <2>1. job.pc = "mark" /\ job'.pc = "ack" /\ job'.frame = job.frame /\ processed' = processed \cup {m}
    BY <1>1, <1>3, <1>8, JobGoes DEF MarkProcessed
  <2>2. (~ Fresh(job.frame.id))'
    BY <1>3, <2>1 DEF Fresh
  <2>3. JobInv'
    BY <2>1, <2>2 DEF JobInv
  <2> QED
    BY <1>5, <2>1, <2>3
<1>9. CASE SendAck
  <2>1. job.pc = "ack" /\ job'.pc = "none"
    BY <1>9 DEF SendAck, NoJob
  <2> QED
    BY <1>5, <2>1 DEF JobInv
<1>10. CASE WriteFails
  <2>1. CASE job.pc = "mark" /\ job' = NoJob
    BY <1>5, <2>1 DEF JobInv, NoJob
  <2>2. CASE torn' = torn \cup {m} /\ Goto("mark")
    <3>1. job'.pc = "mark" /\ job'.frame = job.frame
      BY <1>1, <2>2, JobGoes
    <3>2. ~ Fresh(m)' /\ (~ Fresh(job.frame.id))'
      BY <1>3, <2>2, <3>1 DEF Fresh
    <3>3. JobInv'
      BY <3>1, <3>2 DEF JobInv
    <3>4. CASE job.pc \in {"take", "commit"}
      <4>1. Line' = Tail(Line) /\ m = Line[1].id /\ Line # << >>
        BY <1>1, <1>3, <1>4, <3>1, <3>4, NextLine
      <4>2. LineInv'
        BY <1>1, <1>2, <3>2, <4>1, LineTail
      <4> QED
        BY <3>3, <4>2
    <3> QED
      BY <1>5, <3>1, <3>3, <3>4
  <2> QED
    BY <1>3, <1>10, <2>1, <2>2 DEF WriteFails
<1> QED
  BY <1>6, <1>7, <1>8, <1>9, <1>10

\* Nothing the object or the client holds is later than the message, which is not queued.
LEMMA PlacedNew ==
    ASSUME NEW next \in Seq(Frame), NEW f \in Senders, NEW n \in 1 .. MaxN, MaxN \in Nat,
           \A j \in DOMAIN next : SenderOf(next[j].id) = f => Number(next[j].id) <= n,
           \A j \in DOMAIN next : Number(next[j].id) \in Nat,
           \A k \in session'[f] : k < n,
           alive' # {} => \A e \in queue' : e.id # <<f, n>>
    PROVE  Placed(next, f, n)'
<1>1. PICK a \in Nat : a = Len(next) /\ DOMAIN next = 1 .. a
  BY LenProperties
<1>2. ASSUME NEW i \in 1 .. a + 1, Ahead(next, <<f, n>>, i)', Behind(next, f, n, i)' PROVE FALSE
  <2>1. CASE i \in DOMAIN next /\ SenderOf(next[i].id) = f /\ Number(next[i].id) > n
    <3>1. PICK x \in Nat : x = Number(next[i].id)
      BY <2>1
    <3> QED
      BY <2>1, <3>1
  <2>2. CASE i = a + 1 /\ alive' # {}
    <3>1. ~ \E j \in DOMAIN next : j > i
      BY <1>1, <2>2
    <3> QED
      BY <1>2, <2>2, <3>1 DEF Ahead
  <2> QED
    BY <1>1, <1>2, <2>1, <2>2 DEF Behind
<1> QED
  BY <1>1, <1>2 DEF Placed

LEMMA LineKnown ==
    ASSUME Plain, NEW j \in DOMAIN Line
    PROVE  Line[j] \in Frame /\ Known(Line[j])
<1> USE DEF Plain, WrittenInv, DInv
<1>1. PICK p \in Seq(Frame), c \in Seq(Frame), w \in Seq(Frame) : p = JobPart /\ c = chainq /\ w = WirePart
  BY LineParts
<1>2. ASSUME NEW x \in Frame, InSeq(p, x) \/ InSeq(c, x) \/ InSeq(w, x) PROVE Known(x)
  <2>1. CASE InSeq(p, x)
    <3>1. job.pc \in {"take", "commit"} /\ job.frame = x
      BY <1>1, <2>1 DEF InSeq, JobPart
    <3>2. job # NoJob
      BY <3>1 DEF NoJob
    <3> QED
      BY <3>1, <3>2 DEF NumberInv, FramesIn, ClientIn
  <2>2. CASE InSeq(c, x)
    BY <1>1, <2>2 DEF NumberInv, FramesIn, ClientIn
  <2>3. CASE InSeq(w, x)
    <3>1. CASE alive = {}
      BY <1>1, <2>3, <3>1 DEF WirePart, InSeq
    <3>2. CASE alive # {}
      <4>1. PICK s \in alive : w = wire[s]
        BY <1>1, <3>2, LineParts
      <4>2. s \in Socks
        BY DEF TypeOK
      <4> QED
        BY <2>3, <4>1, <4>2 DEF NumberInv, FramesIn, WireIn
    <3> QED
      BY <3>1, <3>2
  <2> QED
    BY <1>2, <2>1, <2>2, <2>3
<1>3. ASSUME NEW q \in Seq(Frame), NEW r \in Seq(Frame), NEW i \in DOMAIN (q \o r)
      PROVE  (q \o r)[i] \in Frame /\ (InSeq(q, (q \o r)[i]) \/ InSeq(r, (q \o r)[i]))
  <2>1. PICK t : t = q \o r
    OBVIOUS
  <2>2. PICK a \in Nat, b \in Nat : a = Len(q) /\ b = Len(r)
    BY LenProperties
  <2>3. /\ DOMAIN q = 1 .. a /\ DOMAIN r = 1 .. b /\ DOMAIN t = 1 .. a + b
        /\ \A k \in 1 .. a + b : t[k] = IF k <= a THEN q[k] ELSE r[k - a]
        /\ \A k \in DOMAIN t : t[k] \in Frame
    <3>1. /\ t \in Seq(Frame) /\ Len(t) = a + b
          /\ \A k \in 1 .. a + b : t[k] = IF k <= a THEN q[k] ELSE r[k - a]
      BY <2>1, <2>2, ConcatProperties
    <3>2. DOMAIN q = 1 .. a /\ DOMAIN r = 1 .. b /\ DOMAIN t = 1 .. a + b /\ t \in [1 .. a + b -> Frame]
      BY <2>2, <3>1, LenProperties
    <3> QED
      BY <3>1, <3>2
  <2>4. i \in DOMAIN t
    BY <1>3, <2>1
  <2>5. CASE i <= a
    <3>1. i \in DOMAIN q /\ t[i] = q[i]
      BY <2>3, <2>4, <2>5
    <3> QED
      BY <2>1, <2>3, <2>4, <3>1 DEF InSeq
  <2>6. CASE ~ (i <= a)
    <3>1. i - a \in DOMAIN r /\ t[i] = r[i - a]
      BY <2>3, <2>4, <2>6
    <3> QED
      BY <2>1, <2>3, <2>4, <3>1 DEF InSeq
  <2> QED
    BY <2>3, <2>4, <2>5, <2>6
<1>4. PICK pc \in Seq(Frame) : pc = p \o c
  BY ConcatProperties
<1>5. Line = pc \o w
  BY <1>1, <1>4 DEF Line
<1>6. PICK x : x = Line[j]
  OBVIOUS
<1>7. x \in Frame /\ (InSeq(pc, x) \/ InSeq(w, x))
  BY <1>3, <1>5, <1>6
<1>8. CASE InSeq(pc, x)
  <2>1. PICK i \in DOMAIN pc : pc[i] = x
    BY <1>8 DEF InSeq
  <2>2. InSeq(p, x) \/ InSeq(c, x)
    BY <1>3, <1>4, <2>1
  <2> QED
    BY <1>2, <1>6, <1>7, <2>2
<1>9. CASE InSeq(w, x)
  BY <1>2, <1>6, <1>7, <1>9
<1> QED
  BY <1>7, <1>8, <1>9

\* The links come and go.
LEMMA LineLinks ==
    ASSUME Plain, DTypeOK', [DeliveryNext]_dvars,
           Crash \/ \E s \in Socks : Disconnect(s) \/ Receive(s)
    PROVE  LineInv'
<1> USE DEF Plain, WrittenInv, DInv
<1>1. PICK p \in Seq(Frame), c \in Seq(Frame), w \in Seq(Frame) :
         p = JobPart /\ c = chainq /\ w = WirePart /\ Line = (p \o c) \o w
  BY LineParts DEF Line
<1>2. PICK pc \in Seq(Frame) : pc = p \o c
  BY ConcatProperties
<1>3. ASSUME Crash PROVE LineInv'
  <2>1. alive' = {} /\ UNCHANGED <<queue, session>>
    BY <1>3 DEF Crash, storage
  <2>2. JobPart' = << >> /\ WirePart' = << >> /\ chainq' = << >>
    BY <1>3 DEF Crash, JobPart, WirePart, NoJob
  <2>3. Line' = << >>
    BY <2>2 DEF Line
  <2>4. PICK line \in Seq(Frame), none \in Seq(Frame) : line = Line /\ none = << >> /\ none \o line = line
    <3>1. Line \in Seq(Frame) /\ << >> \in Seq(Frame)
      BY LineParts, EmptySeq
    <3> QED
      BY <3>1, ConcatEmptySeq
  <2>5. ASSUME NEW f \in Senders, NEW n \in 1 .. MaxN, Fresh(<<f, n>>)' PROVE Placed(none, f, n)'
    <3>1. Placed(none \o line, f, n)
      BY <2>4, <2>5, WasPlaced
    <3> QED
      BY <2>1, <3>1, PlacedCut
  <2> QED
    BY <2>3, <2>4, <2>5, LineBecomes
<1>4. ASSUME NEW s \in Socks, Disconnect(s) PROVE LineInv'
  <2>1. s \in alive /\ alive' = alive \ {s} /\ UNCHANGED <<queue, session, job, chainq>>
    BY <1>4 DEF Disconnect, LinkDown, storage, client
  <2>2. alive' = {}
    BY <2>1, LineParts
  <2>3. JobPart' = JobPart /\ WirePart' = << >>
    BY <2>1, <2>2 DEF JobPart, WirePart
  <2>4. Line' = pc
    <3>1. Line' = (JobPart' \o chainq') \o WirePart'
      BY DEF Line
    <3>2. Line' = pc \o << >>
      BY <1>1, <1>2, <2>1, <2>3, <3>1
    <3> QED
      BY <3>2, ConcatEmptySeq
  <2>5. ASSUME NEW f \in Senders, NEW n \in 1 .. MaxN, Fresh(<<f, n>>)' PROVE Placed(pc, f, n)'
    <3>1. Placed(pc \o w, f, n)
      BY <1>1, <1>2, <2>5, WasPlaced
    <3> QED
      BY <2>1, <2>2, <3>1, PlacedCut
  <2> QED
    BY <2>4, <2>5, LineBecomes
<1>5. ASSUME NEW s \in Socks, Receive(s) PROVE LineInv'
  <2>1. /\ s \in alive /\ wire[s] # << >> /\ wire' = [wire EXCEPT ![s] = Tail(@)]
        /\ chainq' = Append(chainq, Head(wire[s])) /\ UNCHANGED <<queue, alive, session, job>>
        /\ queue' \subseteq queue /\ alive' \subseteq alive
    BY <1>5 DEF Receive, DeviceRead, storage
  <2>2. alive = {s} /\ w = wire[s] /\ w # << >>
    BY <1>1, <2>1, LineParts
  <2>3. PICK x \in Frame, t \in Seq(Frame) : x = Head(w) /\ t = Tail(w)
    BY <1>1, <2>2, HeadTailProperties
  <2>4. WirePart' = t /\ JobPart' = p
    <3>1. alive' = {s} /\ (CHOOSE y \in alive' : TRUE) = s
      BY <2>1, <2>2
    <3>2. wire'[s] = t
      BY <2>1, <2>2, <2>3 DEF TypeOK
    <3>3. WirePart' = t
      BY <3>1, <3>2 DEF WirePart
    <3> QED
      BY <1>1, <2>1, <3>3 DEF JobPart
  <2>5. PICK q : q = Append(c, Head(w))
    OBVIOUS
  <2>6. Line' = Joined(p, q, t) /\ Line = Joined(p, c, w)
    BY <1>1, <2>1, <2>2, <2>4, <2>5 DEF Line, Joined
  <2>7. Joined(p, q, t) = Joined(p, c, w)
    <3>1. w # << >> /\ p \in Seq(Frame) /\ c \in Seq(Frame) /\ w \in Seq(Frame)
      BY <1>1, <2>2
    <3> QED
      BY <2>3, <2>5, <3>1, FirstMovesOver
  <2>8. Line' = Line
    BY <2>6, <2>7
  <2> QED
    BY <2>1, <2>8, LineSame
<1> QED
  BY <1>3, <1>4, <1>5

LEMMA LineReconnect == ASSUME Plain, DTypeOK', [DeliveryNext]_dvars, NEW s \in Socks, Reconnect(s) PROVE LineInv'
<1> USE DEF Plain, WrittenInv, DInv
<1>1. PICK l \in Listings(queue) : wire' = [wire EXCEPT ![s] = l]
  BY DEF Reconnect, Connect
<1>2. alive = {} /\ alive' = {s} /\ UNCHANGED <<queue, session, job, chainq>>
  BY DEF Reconnect, Connect, storage, client
<1>3. /\ l \in Seq(Frame)
      /\ \A i \in DOMAIN l : l[i] \in Frame /\ \E e \in queue : l[i] = FrameOf(e)
  <2>1. /\ l \in Seq(Frame) /\ DOMAIN l = 1 .. Cardinality(queue)
        /\ \A i \in DOMAIN l : \E e \in queue : l[i] = FrameOf(e)
    BY <1>1, ListingType
  <2>2. \A i \in DOMAIN l : l[i] \in Frame
    <3>1. l \in [1 .. Len(l) -> Frame]
      BY <2>1, LenProperties
    <3> QED
      BY <3>1
  <2> QED
    BY <2>1, <2>2
<1>4. PICK line \in Seq(Frame) : line = Line
  BY LineParts
<1>5. Line' = line \o l
  <2>1. PICK p \in Seq(Frame), c \in Seq(Frame), w \in Seq(Frame) :
           p = JobPart /\ c = chainq /\ w = WirePart /\ Line = (p \o c) \o w
    BY LineParts DEF Line
  <2>2. PICK pc \in Seq(Frame) : pc = p \o c
    BY <2>1, ConcatProperties
  <2>3. w = << >>
    BY <1>2, <2>1 DEF WirePart
  <2>4. line = pc
    BY <1>4, <2>1, <2>2, <2>3, ConcatEmptySeq
  <2>5. JobPart' = p /\ WirePart' = l
    <3>1. (CHOOSE y \in alive' : TRUE) = s
      BY <1>2
    <3>2. wire'[s] = l
      BY <1>1 DEF TypeOK
    <3> QED
      BY <1>2, <2>1, <3>1, <3>2 DEF JobPart, WirePart
  <2>6. Line' = (JobPart' \o chainq') \o WirePart'
    BY DEF Line
  <2> QED
    BY <1>2, <2>1, <2>2, <2>4, <2>5, <2>6
<1>6. ASSUME NEW i \in DOMAIN l
      PROVE  /\ l[i].from \in Senders /\ l[i].seq \in Nat
             /\ SenderOf(l[i].id) = l[i].from /\ Number(l[i].id) = l[i].seq + 1
  <2>1. PICK fr \in Frame : fr = l[i]
    BY <1>3
  <2>2. Known(fr)
    BY <1>3, <2>1 DEF NumberInv, FramesIn, QueueIn
  <2> QED
    BY <2>1, <2>2, PairFacts DEF Known, Frame
<1>7. \A i \in DOMAIN l : \E e \in queue : e.id = l[i].id
  BY <1>3 DEF FrameOf
<1>8. \A e \in queue : \E i \in DOMAIN l : l[i].id = e.id
  <2>1. \A e \in queue : \E i \in DOMAIN l : l[i] = FrameOf(e)
    BY DEF Listings
  <2> QED
    BY <2>1 DEF FrameOf
<1>9. ASSUME NEW i \in DOMAIN l, NEW j \in DOMAIN l,
             SenderOf(l[i].id) = SenderOf(l[j].id), Number(l[i].id) < Number(l[j].id)
      PROVE  i < j
  <2>1. /\ l[i].from = l[j].from /\ l[i].from \in Senders
        /\ Number(l[i].id) = l[i].seq + 1 /\ Number(l[j].id) = l[j].seq + 1
    BY <1>6, <1>9
  <2>2. PICK a \in Nat, b \in Nat : a = l[i].seq /\ b = l[j].seq
    BY <1>6
  <2>3. a < b
    BY <1>9, <2>1, <2>2
  <2>4. i \in Int /\ j \in Int
    BY <1>3, LenProperties
  <2>5. CASE j < i
    <3>1. l[j].seq < l[i].seq
      BY <1>1, <2>1, <2>5, ListingOrder, MailboxAssumption
    <3> QED
      BY <2>2, <2>3, <3>1
  <2>6. CASE i = j
    BY <2>2, <2>3, <2>6
  <2> QED
    BY <2>4, <2>5, <2>6
<1>10. MaxN \in Nat
  BY DeliveryAssumption DEF DeliveryAssumption
<1>11. ASSUME NEW f \in Senders, NEW n \in 1 .. MaxN, Fresh(<<f, n>>)' PROVE Placed(line \o l, f, n)'
  <2>1. Placed(line, f, n)
    BY <1>4, <1>11, WasPlaced
  <2>2. queue' = queue /\ session'[f] = session[f]
    BY <1>2
  <2> QED
    BY <1>3, <1>4, <1>7, <1>8, <1>9, <1>10, <2>1, <2>2, PlacedFlush
<1>12. PICK next : next = line \o l
  OBVIOUS
<1> QED
  BY <1>5, <1>11, <1>12, LineBecomes

LEMMA LineHandOn == ASSUME Plain, DTypeOK', [DeliveryNext]_dvars, NEW g \in Senders, HandOn(g) PROVE LineInv'
<1> USE DEF Plain, WrittenInv, DInv
<1>1. /\ UNCHANGED <<alive, session, job, chainq>>
      /\ outbox[g] # << >>
  BY DEF HandOn, Deliver, client
<1>2. PICK h \in Nat : h = sendSeq[g] + 1
  BY Grows
<1>3. PICK fr \in Frame : fr = Handed(g) /\ fr.from = g /\ fr.id = <<g, h>>
  <2>1. Handed(g) \in Frame
    BY <1>1, HandedReal DEF Handed
  <2>2. outbox[g] \in Seq(Ids) /\ Len(outbox[g]) \in Nat \ {0} /\ Head(outbox[g]) = outbox[g][1]
    BY <1>1, EmptySeq DEF DTypeOK
  <2>3. outbox[g][1] = <<g, sendSeq[g] + 1>>
    BY <2>2 DEF NumberInv
  <2>4. PICK x : x = Handed(g)
    OBVIOUS
  <2>5. x.from = g /\ x.id = <<g, h>>
    BY <1>2, <2>2, <2>3, <2>4 DEF Handed
  <2> QED
    BY <2>1, <2>4, <2>5
<1>4. PICK line \in Seq(Frame) : line = Line
  BY LineParts
<1>5. MaxN \in Nat
  BY DeliveryAssumption DEF DeliveryAssumption
<1>6. ASSUME NEW x \in Frame, Known(x)
      PROVE  /\ Number(x.id) \in Nat /\ SenderOf(x.id) \in Senders
             /\ SenderOf(x.id) = g => Number(x.id) < h
  <2>1. PICK k \in Nat : k = x.seq
    BY DEF Frame
  <2>2. x.from \in Senders /\ x.id = <<x.from, k + 1>> /\ k < sendSeq[x.from]
    BY <1>6, <2>1 DEF Known
  <2>3. SenderOf(x.id) = x.from /\ Number(x.id) = k + 1
    BY <2>2, PairFacts
  <2>4. PICK a \in Nat : a = sendSeq[g]
    BY Grows
  <2>5. x.from = g => k + 1 < h
    BY <1>2, <2>2, <2>4
  <2> QED
    BY <2>2, <2>3, <2>5
<1>7. \A j \in DOMAIN line : /\ Number(line[j].id) \in Nat
                             /\ SenderOf(line[j].id) = g => Number(line[j].id) < h
  BY <1>4, <1>6, LineKnown
<1>8. ASSUME NEW e \in queue, NEW n \in 1 .. MaxN, e.id = <<g, n>> PROVE n < h
  <2>1. PICK x \in Frame : x = FrameOf(e)
    BY DEF TypeOK, Entry, Frame, FrameOf
  <2>2. Known(x) /\ x.id = <<g, n>>
    BY <1>8, <2>1 DEF NumberInv, FramesIn, QueueIn, FrameOf
  <2> QED
    BY <1>6, <2>2, PairFacts
<1>9. ASSUME NEW k \in session[g] PROVE k \in Nat /\ k < h
  <2>1. session[g] \subseteq 1 .. MaxN
    BY DEF DTypeOK
  <2>2. PICK a \in Nat : a = sendSeq[g]
    BY Grows
  <2>3. k \in Nat /\ k <= a
    BY <1>5, <2>1, <2>2 DEF NumberInv
  <2> QED
    BY <1>2, <2>2, <2>3
<1>10. ASSUME NEW n \in 1 .. MaxN, h <= n PROVE \A k \in session'[g] : k < n
  BY <1>1, <1>5, <1>9, <1>10
<1>11. CASE sockets # {} /\ SendLive(fr) /\ UNCHANGED <<queue, alarm>>
  <2>1. CASE alive = {}
    <3>1. WirePart' = WirePart /\ JobPart' = JobPart
      BY <1>1, <2>1 DEF WirePart, JobPart
    <3>2. Line' = Line
      BY <1>1, <3>1 DEF Line
    <3>3. queue' \subseteq queue /\ alive' \subseteq alive /\ session' = session
      BY <1>1, <1>11
    <3> QED
      BY <3>2, <3>3, LineSame
  <2>2. CASE alive # {}
    <3>1. PICK s \in Socks : s \in alive /\ alive = {s}
      BY <2>2, LineParts DEF TypeOK
    <3>2. PICK p \in Seq(Frame), c \in Seq(Frame), w \in Seq(Frame) :
             p = JobPart /\ c = chainq /\ w = WirePart /\ Line = (p \o c) \o w
      BY LineParts DEF Line
    <3>3. PICK pc \in Seq(Frame) : pc = p \o c
      BY <3>2, ConcatProperties
    <3>4. wire[s] = w
      BY <3>1, <3>2, LineParts
    <3>5. WirePart' = Append(w, fr) /\ JobPart' = p
      <4>1. wire'[s] = Append(wire[s], fr)
        BY <1>11, <3>1 DEF SendLive
      <4>2. alive' = {s} /\ (CHOOSE y \in alive' : TRUE) = s
        BY <1>1, <3>1
      <4>3. WirePart' = wire'[s]
        BY <4>2 DEF WirePart
      <4> QED
        BY <1>1, <3>2, <3>4, <4>1, <4>3 DEF JobPart
    <3>6. Line' = pc \o Append(w, fr)
      <4>1. Line' = (JobPart' \o chainq') \o WirePart'
        BY DEF Line
      <4> QED
        BY <1>1, <3>2, <3>3, <3>5, <4>1
    <3>7. PICK next \in Seq(Frame) : next = Append(line, fr)
      BY <1>4, AppendProperties
    <3>8. Line' = next
      <4>1. pc \o Append(w, fr) = Append(pc \o w, fr)
        BY <3>2, <3>3, ConcatAppend
      <4> QED
        BY <1>4, <3>2, <3>3, <3>6, <3>7, <4>1
    <3>9. ASSUME NEW f \in Senders, NEW n \in 1 .. MaxN, Fresh(<<f, n>>)' PROVE Placed(next, f, n)'
      <4>1. SenderOf(fr.id) = g /\ Number(fr.id) = h
        BY <1>3, PairFacts
      <4>2. CASE f # g \/ n < h
        <5>1. Placed(line, f, n)
          BY <1>4, <3>9, WasPlaced
        <5>2. SenderOf(fr.id) # f \/ Number(fr.id) > n
          BY <1>2, <1>5, <4>1, <4>2
        <5>3. UNCHANGED <<queue, alive>> /\ session'[f] = session[f]
          BY <1>1, <1>11
        <5> QED
          BY <1>3, <1>4, <1>5, <2>2, <3>7, <5>1, <5>2, <5>3, PlacedLive
      <4>3. CASE f = g /\ ~ (n < h)
        <5>1. h <= n /\ n \in Nat
          BY <1>2, <1>5, <4>3
        <5>2. ASSUME NEW j \in DOMAIN next
              PROVE  Number(next[j].id) \in Nat /\ (SenderOf(next[j].id) = f => Number(next[j].id) <= n)
          <6>1. PICK a \in Nat : a = Len(line) /\ DOMAIN line = 1 .. a
            BY <1>4, LenProperties
          <6>2. /\ DOMAIN next = 1 .. a + 1 /\ next[a + 1] = fr
                /\ \A i \in 1 .. a : next[i] = line[i]
            BY <1>3, <1>4, <3>7, <6>1, AppendProperties, LenProperties
          <6>3. CASE j = a + 1
            BY <1>2, <4>1, <5>1, <6>2, <6>3
          <6>4. CASE j # a + 1
            <7>1. j \in DOMAIN line /\ next[j] = line[j]
              BY <6>1, <6>2, <6>4, <5>2
            <7>2. PICK v \in Nat : v = Number(line[j].id) /\ (SenderOf(line[j].id) = g => v < h)
              BY <1>7, <7>1
            <7>3. v < h => v <= n
              BY <1>2, <5>1
            <7> QED
              BY <4>3, <7>1, <7>2, <7>3
          <6> QED
            BY <6>3, <6>4
        <5>3. \A e \in queue' : e.id # <<f, n>>
          BY <1>2, <1>8, <1>11, <4>3, <5>1
        <5>4. \A k \in session'[f] : k < n
          BY <1>10, <4>3, <5>1
        <5> QED
          BY <1>5, <3>7, <5>2, <5>3, <5>4, PlacedNew
      <4> QED
        BY <4>2, <4>3
    <3> QED
      BY <3>8, <3>9, LineBecomes
  <2> QED
    BY <2>1, <2>2
<1>12. CASE sockets = {} /\ UNCHANGED wire /\ \E e \in Entry : Store(e) /\ e.id = <<g, h>>
  <2>1. PICK e \in Entry : Store(e) /\ e.id = <<g, h>>
    BY <1>12
  <2>2. queue' \subseteq queue \cup {e}
    BY <2>1 DEF Store
  <2>3. alive = {} /\ alive' = {}
    BY <1>1, <1>12 DEF TypeOK
  <2>4. Line' = Line
    <3>1. WirePart' = WirePart /\ JobPart' = JobPart
      BY <1>1, <2>3 DEF WirePart, JobPart
    <3> QED
      BY <1>1, <3>1 DEF Line
  <2>5. ASSUME NEW f \in Senders, NEW n \in 1 .. MaxN, Fresh(<<f, n>>)' PROVE Placed(line, f, n)'
    <3>1. CASE <<f, n>> # <<g, h>>
      <4>1. Placed(line, f, n)
        BY <1>4, <2>5, WasPlaced
      <4>2. \A x \in queue' : x \in queue \/ x.id # <<f, n>>
        BY <2>1, <2>2, <3>1
      <4>3. alive' \subseteq alive /\ session'[f] = session[f]
        BY <1>1
      <4> QED
        BY <1>4, <4>1, <4>2, <4>3, PlacedSame
    <3>2. CASE <<f, n>> = <<g, h>>
      <4>1. f = g /\ n = h
        BY <3>2
      <4>2. ASSUME NEW j \in DOMAIN line
            PROVE  Number(line[j].id) \in Nat /\ (SenderOf(line[j].id) = f => Number(line[j].id) <= n)
        <5>1. PICK v \in Nat : v = Number(line[j].id) /\ (SenderOf(line[j].id) = g => v < h)
          BY <1>7
        <5>2. v < h => v <= n
          BY <1>2, <4>1
        <5> QED
          BY <4>1, <5>1, <5>2
      <4>3. \A k \in session'[f] : k < n
        BY <1>2, <1>10, <4>1
      <4> QED
        BY <1>4, <1>5, <2>3, <4>2, <4>3, PlacedNew
    <3> QED
      BY <3>1, <3>2
  <2> QED
    BY <1>4, <2>4, <2>5, LineBecomes
<1>13. CASE sockets = {} /\ UNCHANGED <<queue, wire>>
  <2>1. WirePart' = WirePart /\ JobPart' = JobPart
    BY <1>1, <1>13 DEF WirePart, JobPart
  <2>2. Line' = Line
    BY <1>1, <2>1 DEF Line
  <2>3. queue' \subseteq queue /\ alive' \subseteq alive /\ session' = session
    BY <1>1, <1>13
  <2> QED
    BY <2>2, <2>3, LineSame
<1>14. Deliver(g, fr.id) /\ fr.seq = sendSeq[g]
  BY <1>3 DEF HandOn, Handed
<1>15. fr = [from |-> g, seq |-> sendSeq[g], id |-> fr.id]
  BY <1>3, <1>14 DEF Frame
<1>16. PICK e : e = [from |-> g, seq |-> sendSeq[g], id |-> fr.id, age |-> 0]
  OBVIOUS
<1>17. e \in Entry /\ e.id = <<g, h>>
  <2>1. 0 \in Ages
    BY MailboxAssumption DEF MailboxAssumption, Ages
  <2>2. g \in Segments /\ fr.id \in Ids /\ sendSeq[g] \in Nat
    BY <1>3, Grows DEF Frame, Segments
  <2>3. e \in Entry
    BY <1>16, <2>1, <2>2 DEF Entry
  <2> QED
    BY <1>3, <1>16, <2>3
<1> QED
  BY <1>11, <1>12, <1>13, <1>14, <1>15, <1>16, <1>17 DEF Deliver

\* What leaves the line alone.
LEMMA LineKept ==
    ASSUME Plain, DTypeOK', [DeliveryNext]_dvars,
           UNCHANGED dvars \/ Object \/ \E f \in Senders : SendPlain(f)
    PROVE  LineInv'
<1>1. UNCHANGED <<alive, wire, job, chainq, session>>
  BY DEF dvars, vars, client, senders, Object, SendPlain, SocketClosed, HandleAck, RegisterToken, links
<1>2. queue' \subseteq queue
  BY DEF dvars, vars, Object, SendPlain, SocketClosed, HandleAck, RegisterToken, storage
<1>3. Line' = Line
  <2>1. JobPart' = JobPart /\ WirePart' = WirePart
    BY <1>1 DEF JobPart, WirePart
  <2> QED
    BY <1>1, <2>1 DEF Line
<1>4. alive' \subseteq alive /\ session' = session
  BY <1>1
<1> QED
  BY <1>2, <1>3, <1>4, LineSame

LEMMA LineStep == ASSUME Plain, DTypeOK', [DeliveryNext]_dvars PROVE LineInv' /\ JobInv'
<1>1. CASE Begin \/ TakeOneTimePreKey \/ CommitSession
  BY <1>1, LineBegin, LineTake, LineCommit
<1>2. CASE AddContact \/ AppendMessage \/ MarkProcessed \/ SendAck \/ WriteFails
  BY <1>2, LineWrites
<1>3. CASE Crash
  <2>1. JobInv'
    BY <1>3 DEF Crash, JobInv, NoJob
  <2> QED
    BY <1>3, <2>1, LineLinks
<1>4. CASE UNCHANGED <<job, processed, session, torn>>
  <2>1. JobInv'
    BY <1>4 DEF Plain, JobInv, Fresh
  <2>2. CASE \E s \in Socks : Reconnect(s)
    BY <2>1, <2>2, LineReconnect
  <2>3. CASE \E s \in Socks : Disconnect(s) \/ Receive(s)
    BY <2>1, <2>3, LineLinks
  <2>4. CASE \E f \in Senders : HandOn(f)
    BY <2>1, <2>4, LineHandOn
  <2>5. CASE UNCHANGED dvars \/ Object \/ \E f \in Senders : SendPlain(f)
    BY <2>1, <2>5, LineKept
  <2> QED
    BY <1>1, <1>2, <1>3, <2>2, <2>3, <2>4, <2>5, PlainSteps DEF Plain, Client
<1>5. Client \/ Crash \/ WriteFails \/ UNCHANGED <<job, processed, session, torn>>
  BY PlainSteps DEF Plain, dvars, client, ghosts, SendPlain, HandOn, Reconnect, Disconnect, Receive, Object
<1> QED
  BY <1>1, <1>2, <1>3, <1>4, <1>5 DEF Client

\* A message is written after every one that its session has consumed before it.
LEMMA ShownOrderStep ==
    ASSUME Plain, WrittenInv', ShownInSendOrder, [DeliveryNext]_dvars
    PROVE  ShownInSendOrder'
<1> USE DEF Plain, WrittenInv, DInv, DTypeOK
<1>1. mode' = mode /\ torn \subseteq torn'
  BY SentGrows, Grows
<1>2. history' = history \/ AppendMessage
  BY DEF DeliveryNext, SendPlain, SendWithoutKey, HandOn, Accepted, PostAgain, FallBack, SendSealed, HandleSeal,
         Reconnect, Disconnect, Receive, Object, Client, Begin, TakeOneTimePreKey, CommitSession, AddContact,
         MarkProcessed, SendAck, Crash, WriteFails, client, dvars
<1>3. CASE history' = history
  BY <1>1, <1>3 DEF ShownInSendOrder
<1>4. CASE AppendMessage
  <2>1. job # NoJob /\ job.pc = "append" /\ history' = Append(history, job.frame.id) /\ torn' = torn
    BY <1>4 DEF AppendMessage, NoJob, ghosts
  <2>2. PICK m \in Ids : m = job.frame.id
    BY <2>1, JobFacts
  <2>3. PICK a \in Nat : a = Len(history) /\ DOMAIN history = 1 .. a
    BY LenProperties
  <2>4. /\ DOMAIN history' = 1 .. a + 1 /\ history'[a + 1] = m
        /\ \A i \in 1 .. a : history'[i] = history[i] /\ history[i] \in Ids
    BY <2>1, <2>2, <2>3, AppendProperties, LenProperties
  <2>5. m \in torn \/ \A k \in session[SenderOf(m)] : k <= Number(m)
    BY <2>1, <2>2 DEF JobInv
  <2>6. m \notin Shown
    BY <2>1, <2>2 DEF OnceInv
  <2>7. ASSUME NEW i \in 1 .. a, SenderOf(history[i]) = SenderOf(m), m \notin torn PROVE Number(history[i]) < Number(m)
    <3>1. PICK k \in Ids : k = history[i]
      BY <2>4
    <3>2. k \in Shown /\ k # m
      BY <2>3, <2>6, <3>1 DEF Shown
    <3>3. Number(k) \in session[SenderOf(k)]
      BY <3>2 DEF OnceInv
    <3>4. Number(k) <= Number(m)
      BY <2>5, <2>7, <3>1, <3>3
    <3>5. Number(k) # Number(m)
      BY <2>7, <3>1, <3>2, IdFacts
    <3> QED
      BY <3>1, <3>4, <3>5, IdFacts
  <2>8. SUFFICES ASSUME NEW i \in 1 .. a + 1, NEW j \in 1 .. a + 1, i < j, SenderOf(history'[i]) = SenderOf(history'[j])
                 PROVE  Number(history'[i]) < Number(history'[j]) \/ history'[j] \in torn
    BY <1>1, <2>1, <2>4 DEF ShownInSendOrder
  <2>9. i \in 1 .. a
    BY <2>3, <2>8
  <2>10. CASE j \in 1 .. a
    BY <2>3, <2>4, <2>8, <2>9, <2>10 DEF ShownInSendOrder
  <2>11. CASE j = a + 1
    BY <2>4, <2>7, <2>8, <2>9, <2>11
  <2>12. j \in 1 .. a \/ j = a + 1
    <3>1. \A k \in Nat : \A x \in 1 .. k + 1 : x \in 1 .. k \/ x = k + 1
      OBVIOUS
    <3>2. a \in Nat /\ j \in 1 .. a + 1
      BY <2>3, <2>8
    <3> QED
      BY <3>1, <3>2
  <2> QED
    BY <2>10, <2>11, <2>12
<1> QED
  BY <1>2, <1>3, <1>4

LEMMA PathStarts == ASSUME DeliveryInit, ~ mode.token PROVE OrderInv /\ AckInv /\ NumberInv /\ LineInv /\ JobInv /\ ShownInSendOrder
<1> USE DEF DeliveryInit
<1>1. OrderInv
  <2>1. TypeOK
    BY MailboxAssumption, InitType
  <2> QED
    <3>1. queue = {} /\ \A s \in Socks : DOMAIN wire[s] = {}
      BY DEF Init
    <3> QED
      BY <2>1, <3>1 DEF OrderInv, KeysUnique, QueueBelow, WireBelow, WireInSendOrder
<1>2. AckInv
  BY DEF AckInv, NoJob, Shown
<1>3. NumberInv
  <2>1. Len(<< >>) = 0
    BY EmptySeq
  <2>2. FramesIn({fr \in Frame : Known(fr)})
    BY DEF Init, FramesIn, QueueIn, WireIn, ClientIn, InSeq, NoJob
  <2>3. \A f \in Senders : nextN[f] = 1 /\ sendSeq[f] = 0 /\ outbox[f] = << >> /\ session[f] = {}
    BY DEF Init
  <2> QED
    BY <2>1, <2>2, <2>3 DEF NumberInv
<1>4. JobInv
  BY DEF JobInv, NoJob
<1>5. ShownInSendOrder
  BY DEF ShownInSendOrder
<1>6. LineInv
  <2>1. Line = << >>
    <3>1. JobPart = << >> /\ chainq = << >> /\ WirePart = << >>
      BY DEF Init, JobPart, WirePart, NoJob
    <3> QED
      BY <3>1 DEF Line
  <2>2. ASSUME NEW f \in Senders, NEW n \in 1 .. MaxN PROVE Placed(Line, f, n)
    <3>1. queue = {} /\ session[f] = {} /\ DOMAIN Line = {}
      BY <2>1 DEF Init
    <3> QED
      BY <3>1 DEF Placed, Ahead
  <2> QED
    BY <2>2 DEF LineInv
<1> QED
  BY <1>1, <1>2, <1>3, <1>4, <1>5, <1>6

LEMMA PathStep == ASSUME WrittenInv, WrittenInv', PathInv, [DeliveryNext]_dvars PROVE PathInv'
<1>1. mode' = mode
  BY SentGrows DEF WrittenInv, DInv
<1>2. SUFFICES ASSUME ~ mode.token
               PROVE  (OrderInv /\ AckInv /\ NumberInv /\ LineInv /\ JobInv /\ ShownInSendOrder)'
  BY <1>1 DEF PathInv
<1>3. Plain /\ ShownInSendOrder
  BY <1>2 DEF PathInv, Plain
<1>4. OrderInv'
  <2>1. [Next]_vars
    BY ActsStep DEF WrittenInv
  <2> QED
    BY <1>3, <2>1, MailboxAssumption, OrderStep DEF Plain
<1>5. AckInv'
  BY <1>2, <1>3, AckStep DEF Plain, KeyPaths
<1>6. NumberInv'
  BY <1>2, <1>3, NumberStep DEF Plain
<1>7. LineInv' /\ JobInv'
  BY <1>3, LineStep DEF WrittenInv, DInv
<1>8. ShownInSendOrder'
  BY <1>3, ShownOrderStep
<1> QED
  BY <1>4, <1>5, <1>6, <1>7, <1>8

(* The from-stamped path keeps a sender's order all the way into the       *)
(* history: for any number of senders, messages and reconnections, wherever *)
(* the app is killed or a write fails, a message enters the history after  *)
(* a later one of the same sender only if it was itself being written when *)
(* a fault struck (handleDeliver's flush in key order, the session-op      *)
(* chain, decryptIncoming's commit before append).                         *)
THEOREM ShownOrderHolds == DeliverySpec => []ShownInSendOrder
<1>1. DeliveryInit => PathInv
  BY PathStarts DEF PathInv
<1>2. WrittenInv /\ WrittenInv' /\ PathInv /\ [DeliveryNext]_dvars => PathInv'
  BY PathStep
<1>3. PathInv => ShownInSendOrder
  BY DEF PathInv, ShownInSendOrder
<1> QED
  BY <1>1, <1>2, <1>3, WrittenHolds, PTL DEF DeliverySpec
=============================================================================
