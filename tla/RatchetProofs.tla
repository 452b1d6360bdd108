---------------------------- MODULE RatchetProofs ----------------------------
(***************************************************************************)
(* Proofs about the Double Ratchet. Every key both ends hold is a function *)
(* of how many Diffie-Hellman outputs were mixed into it, so a session is  *)
(* where each end stands in one line of chains that the two take in turns, *)
(* Bob's before the first being empty: Alice sends on the odd chains, Bob  *)
(* on the even ones. KeyInv and MessageInv say which keys those are,       *)
(* SentInv, CountInv and ReceiveInv which messages a chain carried, and    *)
(* StoreInv relates the cache of skipped keys to what was passed and read. *)
(***************************************************************************)
EXTENDS Ratchet, FiniteSetTheorems, SequenceTheorems, TLAPS

-----------------------------------------------------------------------------
(* The line of chains. *)

\* The chain that the owner of a key pair sends on under it.
TurnOf(key) == IF key[1] = Alice THEN 2 * key[2] + 1 ELSE 2 * key[2]

\* The output that starts chain i: of the key pairs of this turn and the last.
Pair(i) == {key \in PublicKey : TurnOf(key) \in {i - 1, i}}
RootAt(n) == [i \in 1 .. n |-> Pair(i)]

HeaderAt(n) ==
    CASE n = 0 -> NoHeaderKey
      [] n = 1 -> SharedHkA
      [] n = 2 -> SharedNhkB
      [] OTHER -> NextHeaderKey(RootAt(n - 2))

Prior(n) == IF n = 0 THEN 0 ELSE n - 1

StateAt(key, i, j, l, c) ==
    LET n == TurnOf(key)
    IN  [rootKey |-> RootAt(n), dhSelf |-> key,
         sendingChainKey |-> <<RootAt(n), i>>, receivingChainKey |-> <<RootAt(Prior(n)), j>>,
         sendHeaderKey |-> HeaderAt(n), receiveHeaderKey |-> HeaderAt(Prior(n)),
         nextSendHeaderKey |-> HeaderAt(n + 2), nextReceiveHeaderKey |-> HeaderAt(n + 1),
         sendMessageNumber |-> i, receiveMessageNumber |-> j,
         previousSendingChainLength |-> l, skippedMessageKeys |-> c]

MessageAt(key, l, i) ==
    [to |-> Peer(key[1]), headerKey |-> HeaderAt(TurnOf(key)), dhPublicKey |-> key,
     previousChainLength |-> l, messageNumber |-> i, messageKey |-> <<RootAt(TurnOf(key)), i>>]

Entry(m) ==
    [headerKey |-> m.headerKey, messageNumber |-> m.messageNumber, messageKey |-> m.messageKey]

-----------------------------------------------------------------------------
(* The inductive invariant. *)

Position(p) == TurnOf(state[p].dhSelf)
Link(m) == TurnOf(m.dhPublicKey)

\* Nothing is sent before the first chain, nor received before the second.
IsAt(s, p, k, i, j, l, c) ==
    /\ s = StateAt(<<p, k>>, i, j, l, c)
    /\ TurnOf(<<p, k>>) = 0 => i = 0
    /\ TurnOf(<<p, k>>) < 2 => j = 0

\* The keys an end holds are those of its place in the line.
KeyInv ==
    \A p \in Parties : \E k, i, j, l \in Nat, c \in Seq(Skipped) : IsAt(state[p], p, k, i, j, l, c)

\* The ends take turns.
TurnInv == Position(Alice) = Position(Bob) + 1 \/ Position(Bob) = Position(Alice) + 1

MessageInv ==
    \A m \in sent : \E key \in PublicKey, l, i \in Nat :
        m = MessageAt(key, l, i) /\ 0 < TurnOf(key) /\ TurnOf(key) <= Position(key[1])

\* What an end sent on its chain, and on the one before.
SentInv ==
    \A p \in Parties :
        /\ \A m \in sent : m.dhPublicKey = state[p].dhSelf =>
              /\ m.messageNumber < state[p].sendMessageNumber
              /\ m.previousChainLength = state[p].previousSendingChainLength
        /\ \A i \in Nat : i < state[p].sendMessageNumber =>
              \E m \in sent : m.dhPublicKey = state[p].dhSelf /\ m.messageNumber = i
        /\ \A m \in sent : Link(m) + 2 = Position(p) =>
              m.messageNumber < state[p].previousSendingChainLength
        /\ \A i \in Nat : i < state[p].previousSendingChainLength =>
              \E m \in sent : Link(m) + 2 = Position(p) /\ m.messageNumber = i

\* What a message says of its chain, and of the one before.
CountInv ==
    /\ \A l, m \in sent : l.dhPublicKey = m.dhPublicKey =>
          l.previousChainLength = m.previousChainLength
    /\ \A m \in sent, i \in Nat : i < m.messageNumber =>
          \E l \in sent : l.dhPublicKey = m.dhPublicKey /\ l.messageNumber = i
    /\ \A l, m \in sent : Link(l) + 2 = Link(m) => l.messageNumber < m.previousChainLength
    /\ \A m \in sent, i \in Nat : i < m.previousChainLength =>
          \E l \in sent : Link(l) + 2 = Link(m) /\ l.messageNumber = i

\* Nobody has received further than was sent.
ReceiveInv ==
    \A p \in Parties : Position(Peer(p)) = Position(p) + 1 =>
        state[Peer(p)].receiveMessageNumber <= state[p].sendMessageNumber

PlaceInv ==
    /\ KeyInv /\ TurnInv /\ MessageInv /\ SentInv /\ CountInv /\ ReceiveInv
    /\ IsFiniteSet(sent) /\ state = [p \in Parties |-> state[p]] /\ read \subseteq sent

Earlier(e, f) ==
    \/ Len(e.messageKey[1]) < Len(f.messageKey[1])
    \/ Len(e.messageKey[1]) = Len(f.messageKey[1]) /\ e.messageNumber < f.messageNumber

\* The receiver of chain b, come to number j of it, is past m.
PassedAt(b, j, m) == Link(m) < b \/ (Link(m) = b /\ m.messageNumber < j)

Held(c, m) == \E i \in DOMAIN c : c[i] = Entry(m)

PassedAfterAt(S, p, b, j, m) == {l \in S : l.to = p /\ PassedAt(b, j, l) /\ Earlier(m, l)}

\* A cache c of end p, where the messages S were sent and those of gone read,
\* holds keys of unread messages that were passed, in the order of the line;
\* of those, a key it does not hold made room for MaxStored later ones.
Stores(S, gone, p, b, j, c) ==
    /\ \A i \in DOMAIN c : \E l \in S \ gone : l.to = p /\ c[i] = Entry(l) /\ PassedAt(b, j, l)
    /\ \A x, y \in DOMAIN c : x < y => Earlier(c[x], c[y])
    /\ \A m \in S \ gone : m.to = p /\ PassedAt(b, j, m) =>
          Held(c, m) \/ MaxStored <= Cardinality(PassedAfterAt(S, p, b, j, m))
    /\ \A m \in gone : m.to = p => PassedAt(b, j, m)

StoreInv ==
    \A p \in Parties :
        /\ Len(state[p].skippedMessageKeys) <= MaxStored
        /\ Stores(sent, read, p, Prior(Position(p)), state[p].receiveMessageNumber,
                  state[p].skippedMessageKeys)

-----------------------------------------------------------------------------
(* Ends, turns, roots and header keys. *)

LEMMA PeerFacts ==
    ASSUME NEW p \in Parties
    PROVE  /\ Peer(p) \in Parties /\ Peer(p) # p /\ Peer(Peer(p)) = p
           /\ \A q \in Parties : q = p \/ q = Peer(p)
  BY RatchetAssumption DEF Parties, Peer

LEMMA TurnIsNat == \A key \in PublicKey : TurnOf(key) \in Nat
  BY DEF TurnOf, PublicKey

LEMMA TurnIsOne ==
    ASSUME NEW k \in PublicKey, NEW l \in PublicKey, TurnOf(k) = TurnOf(l)
    PROVE  k = l
<1>1. k[1] \in Parties /\ k[2] \in Nat /\ l[1] \in Parties /\ l[2] \in Nat
  BY DEF PublicKey
<1>2. k[1] = l[1]
  BY <1>1, RatchetAssumption DEF TurnOf, Parties
<1>3. k[2] = l[2]
  BY <1>1, <1>2 DEF TurnOf
<1> QED
  BY <1>2, <1>3 DEF PublicKey

LEMMA TurnSteps ==
    ASSUME NEW p \in Parties, NEW k \in Nat
    PROVE  /\ <<p, k>> \in PublicKey /\ <<p, k + 1>> \in PublicKey
           /\ TurnOf(<<p, k + 1>>) = TurnOf(<<p, k>>) + 2
  BY DEF TurnOf, PublicKey

\* Two chains apart is one end's, one chain apart is the two ends'.
LEMMA TurnAlternates ==
    ASSUME NEW k \in PublicKey, NEW l \in PublicKey
    PROVE  /\ TurnOf(k) + 2 = TurnOf(l) => k[1] = l[1]
           /\ TurnOf(k) + 1 = TurnOf(l) => k[1] # l[1]
           /\ (k[1] = l[1] /\ TurnOf(k) < TurnOf(l)) => TurnOf(k) + 2 <= TurnOf(l)
<1>1. k[1] \in Parties /\ k[2] \in Nat /\ l[1] \in Parties /\ l[2] \in Nat
  BY DEF PublicKey
<1> QED
  BY <1>1, RatchetAssumption DEF TurnOf, Parties

LEMMA PairIsOutput ==
    ASSUME NEW k \in PublicKey, NEW l \in PublicKey, TurnOf(k) + 1 = TurnOf(l)
    PROVE  {k, l} = Pair(TurnOf(l))
<1>1. TurnOf(k) \in Nat /\ TurnOf(l) \in Nat
  BY TurnIsNat
<1>2. {k, l} \subseteq Pair(TurnOf(l))
  BY <1>1 DEF Pair
<1>3. ASSUME NEW x \in Pair(TurnOf(l)) PROVE x = k \/ x = l
  <2>1. x \in PublicKey /\ (TurnOf(x) = TurnOf(k) \/ TurnOf(x) = TurnOf(l))
    BY <1>1, <1>3 DEF Pair
  <2> QED
    BY <2>1, TurnIsOne
<1> QED
  BY <1>2, <1>3

LEMMA RootFacts ==
    ASSUME NEW n \in Nat
    PROVE  /\ RootAt(n) \in Root /\ Len(RootAt(n)) = n
           /\ \A i \in 1 .. n : RootAt(n)[i] = Pair(i)
           /\ \A k \in Nat : RootAt(k) = RootAt(n) => k = n
<1>1. \A k \in Nat : Len(RootAt(k)) = k
  BY DEF RootAt
<1>2. \A i \in 1 .. n : Pair(i) \in SUBSET PublicKey
  BY DEF Pair
<1>3. RootAt(n) \in Root
  BY <1>2 DEF RootAt, Root
<1>4. \A i \in 1 .. n : RootAt(n)[i] = Pair(i)
  BY DEF RootAt
<1> QED
  BY <1>1, <1>3, <1>4

LEMMA RootIsEmpty == RootAt(0) = << >>
<1>1. RootAt(0) \in Root /\ Len(RootAt(0)) = 0
  BY RootFacts
<1> QED
  BY <1>1, EmptySeq DEF Root

LEMMA RootGrows ==
    ASSUME NEW n \in Nat
    PROVE  Append(RootAt(n), Pair(n + 1)) = RootAt(n + 1)
<1>1. RootAt(n) \in Seq(SUBSET PublicKey) /\ Pair(n + 1) \in SUBSET PublicKey
  BY RootFacts DEF Root, Pair
<1>2. PICK a \in Seq(SUBSET PublicKey) : a = Append(RootAt(n), Pair(n + 1))
  BY <1>1, AppendProperties
<1>3. Len(a) = n + 1 /\ \A i \in 1 .. n + 1 : a[i] = IF i <= n THEN RootAt(n)[i] ELSE Pair(n + 1)
  BY <1>1, <1>2, RootFacts, AppendProperties
<1>4. PICK b \in Seq(SUBSET PublicKey) : b = RootAt(n + 1)
  BY RootFacts DEF Root
<1>5. Len(b) = n + 1 /\ \A i \in 1 .. n + 1 : b[i] = Pair(i)
  BY <1>4, RootFacts
<1>6. \A i \in 1 .. n + 1 : a[i] = b[i]
  <2>1. SUFFICES ASSUME NEW i \in 1 .. n + 1 PROVE a[i] = b[i]
    OBVIOUS
  <2>2. CASE i <= n
    BY <1>3, <1>5, <2>2, RootFacts
  <2>3. CASE i = n + 1
    BY <1>3, <1>5, <2>3
  <2> QED
    BY <2>2, <2>3
<1> QED
  BY <1>2, <1>3, <1>4, <1>5, <1>6, SeqEqual

LEMMA HeaderFacts ==
    ASSUME NEW n \in Nat
    PROVE  /\ HeaderAt(n) \in HeaderKey
           /\ \A k \in Nat : HeaderAt(k) = HeaderAt(n) => k = n
<1>1. \A k \in Nat : /\ k = 0 => HeaderAt(k) = <<"none", << >> >>
                     /\ k = 1 => HeaderAt(k) = <<"sharedHkA", << >> >>
                     /\ k = 2 => HeaderAt(k) = <<"sharedNhkB", << >> >>
                     /\ k > 2 => HeaderAt(k) = <<"next", RootAt(k - 2)>>
  BY DEF HeaderAt, NoHeaderKey, SharedHkA, SharedNhkB, NextHeaderKey
<1>2. \A k \in Nat : HeaderAt(k)[1] = IF k = 0 THEN "none" ELSE IF k = 1 THEN "sharedHkA"
                                     ELSE IF k = 2 THEN "sharedNhkB" ELSE "next"
  <2>1. SUFFICES ASSUME NEW k \in Nat
                 PROVE  HeaderAt(k)[1] = IF k = 0 THEN "none" ELSE IF k = 1 THEN "sharedHkA"
                                     ELSE IF k = 2 THEN "sharedNhkB" ELSE "next"
    OBVIOUS
  <2>2. CASE k = 0
    BY <1>1, <2>2
  <2>3. CASE k = 1
    BY <1>1, <2>3
  <2>4. CASE k = 2
    BY <1>1, <2>4
  <2>5. CASE k > 2
    BY <1>1, <2>5
  <2> QED
    BY <2>2, <2>3, <2>4, <2>5
<1>3. << >> \in Root
  BY EmptySeq DEF Root
<1>4. HeaderAt(n) \in HeaderKey
  <2>1. CASE n <= 2
    BY <1>1, <1>3, <2>1 DEF HeaderKey
  <2>2. CASE n > 2
    <3>1. n - 2 \in Nat
      BY <2>2
    <3>2. RootAt(n - 2) \in Root
      BY <3>1, RootFacts
    <3> QED
      BY <1>1, <2>2, <3>2 DEF HeaderKey
  <2> QED
    BY <2>1, <2>2
<1>5. ASSUME NEW k \in Nat, HeaderAt(k) = HeaderAt(n) PROVE k = n
  <2>1. HeaderAt(k)[1] = HeaderAt(n)[1]
    BY <1>5
  <2>2. CASE k <= 2
    BY <1>2, <2>1, <2>2
  <2>3. CASE k > 2
    <3>1. n > 2
      BY <1>2, <2>1, <2>3
    <3>2. HeaderAt(k)[2] = RootAt(k - 2) /\ HeaderAt(n)[2] = RootAt(n - 2)
      BY <1>1, <2>3, <3>1
    <3>3. RootAt(k - 2) = RootAt(n - 2)
      BY <1>5, <3>2
    <3>4. k - 2 \in Nat /\ n - 2 \in Nat
      BY <2>3, <3>1
    <3>5. k - 2 = n - 2
      BY <3>3, <3>4, RootFacts
    <3> QED
      BY <3>5
  <2> QED
    BY <2>2, <2>3
<1> QED
  BY <1>4, <1>5

-----------------------------------------------------------------------------
(* The operations of the code on the keys of a place in the line. *)

\* The keys of chain b from number j up to u, as they enter the cache.
NewKeys(b, j, u) ==
    [i \in 1 .. (u - j) |-> [headerKey |-> HeaderAt(b), messageNumber |-> j + i - 1,
                             messageKey |-> <<RootAt(b), j + i - 1>>]]

Skips(b, j, u) == 0 < b /\ j < u
Reached(b, j, u) == IF Skips(b, j, u) THEN u ELSE j
SkippedTo(c, b, j, u) == IF Skips(b, j, u) THEN EvictOldest(c \o NewKeys(b, j, u)) ELSE c

LEMMA ChainIsNone ==
    ASSUME NEW b \in Nat, NEW j \in Nat
    PROVE  <<RootAt(b), j>> = NoChain <=> (b = 0 /\ j = 0)
<1>1. <<RootAt(b), j>> = NoChain <=> (RootAt(b) = << >> /\ j = 0)
  BY DEF NoChain
<1>2. RootAt(b) = << >> <=> b = 0
  BY RootIsEmpty, RootFacts
<1> QED
  BY <1>1, <1>2

LEMMA SkipAt ==
    ASSUME NEW key \in PublicKey, NEW i \in Nat, NEW j \in Nat, NEW l \in Nat, NEW c, NEW u \in Nat,
           TurnOf(key) < 2 => j = 0
    PROVE  LET b == Prior(TurnOf(key))
           IN  SkipMessageKeys(StateAt(key, i, j, l, c), u) =
                   StateAt(key, i, Reached(b, j, u), l, SkippedTo(c, b, j, u))
<1> DEFINE b == Prior(TurnOf(key))
           s == StateAt(key, i, j, l, c)
<1>1. b \in Nat /\ (b = 0 => j = 0)
  BY TurnIsNat DEF Prior
<1>2. s.receivingChainKey = <<RootAt(b), j>> /\ s.receiveMessageNumber = j
      /\ s.receiveHeaderKey = HeaderAt(b) /\ s.skippedMessageKeys = c
  BY DEF StateAt
<1>3. (s.receivingChainKey = NoChain \/ u <= s.receiveMessageNumber) <=> ~ Skips(b, j, u)
  BY <1>1, <1>2, ChainIsNone DEF Skips
<1>4. CASE ~ Skips(b, j, u)
  BY <1>3, <1>4 DEF SkipMessageKeys, Reached, SkippedTo
<1>5. CASE Skips(b, j, u)
  <2> DEFINE new == [x \in 1..(u - j) |->
                       [headerKey |-> HeaderAt(b), messageNumber |-> j + x - 1,
                        messageKey |-> Along(<<RootAt(b), j>>, x - 1)]]
  <2>1. SkipMessageKeys(s, u) = [s EXCEPT !.receivingChainKey = Along(@, u - j),
                       !.receiveMessageNumber = u,
                       !.skippedMessageKeys = EvictOldest(@ \o new)]
    BY <1>2, <1>3, <1>5 DEF SkipMessageKeys
  <2>2. Along(<<RootAt(b), j>>, u - j) = <<RootAt(b), u>>
    BY <1>1 DEF Along
  <2>3. new = NewKeys(b, j, u)
    <3>1. \A x \in 1 .. (u - j) : Along(<<RootAt(b), j>>, x - 1) = <<RootAt(b), j + x - 1>>
      BY DEF Along
    <3> QED
      BY <3>1 DEF NewKeys
  <2> HIDE DEF new
  <2>4. SkipMessageKeys(s, u) = [s EXCEPT !.receivingChainKey = <<RootAt(b), u>>,
                       !.receiveMessageNumber = u,
                       !.skippedMessageKeys = EvictOldest(c \o NewKeys(b, j, u))]
    BY <1>2, <2>1, <2>2, <2>3
  <2>5. Reached(b, j, u) = u /\ SkippedTo(c, b, j, u) = EvictOldest(c \o NewKeys(b, j, u))
    BY <1>5 DEF Reached, SkippedTo
  <2>6. PICK d : d = EvictOldest(c \o NewKeys(b, j, u))
    OBVIOUS
  <2>7. SkipMessageKeys(s, u) = StateAt(key, i, u, l, d)
    BY <2>4, <2>6, ZenonT(60) DEF StateAt
  <2> QED
    BY <2>5, <2>6, <2>7
<1> QED
  BY <1>4, <1>5

LEMMA KdfAt ==
    ASSUME NEW k \in PublicKey, NEW l \in PublicKey, TurnOf(k) + 1 = TurnOf(l)
    PROVE  /\ KdfRootKey(RootAt(TurnOf(k)), k, l) = RootAt(TurnOf(l))
           /\ KdfRootKey(RootAt(TurnOf(k)), l, k) = RootAt(TurnOf(l))
<1>1. TurnOf(k) \in Nat
  BY TurnIsNat
<1>2. Append(RootAt(TurnOf(k)), Pair(TurnOf(l))) = RootAt(TurnOf(l))
  BY <1>1, RootGrows
<1>3. {k, l} = Pair(TurnOf(l)) /\ {l, k} = Pair(TurnOf(l))
  BY PairIsOutput
<1> QED
  BY <1>2, <1>3 DEF KdfRootKey

LEMMA InitAt ==
    /\ InitRatchetAsInitiator = StateAt(<<Alice, 0>>, 0, 0, 0, << >>)
    /\ InitRatchetAsResponder = StateAt(<<Bob, 0>>, 0, 0, 0, << >>)
<1>1. <<Alice, 0>> \in PublicKey /\ <<Bob, 0>> \in PublicKey
  BY DEF PublicKey, Parties
<1>2. TurnOf(<<Alice, 0>>) = 1 /\ TurnOf(<<Bob, 0>>) = 0
  BY RatchetAssumption DEF TurnOf
<1>3. KdfRootKey(<< >>, <<Alice, 0>>, <<Bob, 0>>) = RootAt(1)
  BY <1>1, <1>2, KdfAt, RootIsEmpty
<1>4. HeaderAt(0) = NoHeaderKey /\ HeaderAt(1) = SharedHkA /\ HeaderAt(2) = SharedNhkB
      /\ HeaderAt(3) = NextHeaderKey(RootAt(1))
  BY DEF HeaderAt
<1>5. Prior(1) = 0 /\ Prior(0) = 0
  BY DEF Prior
<1>6. InitRatchetAsInitiator = StateAt(<<Alice, 0>>, 0, 0, 0, << >>)
  <2>1. PICK root : root = RootAt(1)
    OBVIOUS
  <2>2. InitRatchetAsInitiator =
          [rootKey |-> root, dhSelf |-> <<Alice, 0>>,
           sendingChainKey |-> <<root, 0>>, receivingChainKey |-> <<<< >>, 0>>,
           sendHeaderKey |-> HeaderAt(1), receiveHeaderKey |-> HeaderAt(0),
           nextSendHeaderKey |-> HeaderAt(3), nextReceiveHeaderKey |-> HeaderAt(2),
           sendMessageNumber |-> 0, receiveMessageNumber |-> 0,
           previousSendingChainLength |-> 0, skippedMessageKeys |-> << >>]
    BY <1>3, <1>4, <2>1 DEF InitRatchetAsInitiator, ChainOf, NoChain
  <2> QED
    BY <1>2, <1>5, <2>1, <2>2, RootIsEmpty DEF StateAt
<1>7. InitRatchetAsResponder = StateAt(<<Bob, 0>>, 0, 0, 0, << >>)
  BY <1>2, <1>4, <1>5, RootIsEmpty DEF InitRatchetAsResponder, StateAt, NoChain
<1> QED
  BY <1>6, <1>7

LEMMA EncryptAt ==
    ASSUME NEW key \in PublicKey, NEW i \in Nat, NEW j \in Nat, NEW l \in Nat, NEW c
    PROVE  Encrypted(StateAt(key, i, j, l, c)) = StateAt(key, i + 1, j, l, c)
<1> DEFINE s == StateAt(key, i, j, l, c)
<1>1. s.sendingChainKey = <<RootAt(TurnOf(key)), i>> /\ s.sendMessageNumber = i
  BY DEF StateAt
<1>2. Along(<<RootAt(TurnOf(key)), i>>, 1) = <<RootAt(TurnOf(key)), i + 1>>
  BY DEF Along
<1> HIDE DEF s
<1>3. Encrypted(s) = [s EXCEPT !.sendingChainKey = <<RootAt(TurnOf(key)), i + 1>>,
                               !.sendMessageNumber = i + 1]
  BY <1>1, <1>2 DEF Encrypted
<1> QED
  BY <1>3, ZenonT(60) DEF s, StateAt

LEMMA StepAt ==
    ASSUME NEW key \in PublicKey, NEW theirs \in PublicKey, TurnOf(theirs) = TurnOf(key) + 1,
           NEW i \in Nat, NEW j \in Nat, NEW l \in Nat, NEW c
    PROVE  DhRatchetStep(StateAt(key, i, j, l, c), theirs) =
               StateAt(<<key[1], key[2] + 1>>, 0, 0, i, c)
<1> DEFINE mine == <<key[1], key[2] + 1>>
           n == TurnOf(key)
           s == StateAt(key, i, j, l, c)
<1>1. key[1] \in Parties /\ key[2] \in Nat /\ key = <<key[1], key[2]>> /\ n \in Nat
  BY TurnIsNat DEF PublicKey
<1>2. mine \in PublicKey /\ TurnOf(mine) = n + 2
  BY <1>1, TurnSteps
<1>3. KdfRootKey(RootAt(n), key, theirs) = RootAt(n + 1)
  BY KdfAt
<1>4. KdfRootKey(RootAt(n + 1), mine, theirs) = RootAt(n + 2)
  <2>1. TurnOf(theirs) + 1 = TurnOf(mine)
    BY <1>1, <1>2
  <2> QED
    BY <1>2, <2>1, KdfAt
<1>5. /\ HeaderAt(n + 4) = NextHeaderKey(RootAt(n + 2))
      /\ HeaderAt(n + 3) = NextHeaderKey(RootAt(n + 1))
  BY <1>1 DEF HeaderAt
<1>6. Prior(n + 2) = n + 1 /\ n + 2 + 2 = n + 4 /\ n + 2 + 1 = n + 3
  BY <1>1 DEF Prior
<1>7. /\ s.rootKey = RootAt(n) /\ s.dhSelf = key /\ s.sendMessageNumber = i
      /\ s.nextSendHeaderKey = HeaderAt(n + 2) /\ s.nextReceiveHeaderKey = HeaderAt(n + 1)
      /\ s.skippedMessageKeys = c
  BY DEF StateAt
<1> HIDE DEF s, mine
<1>8. DhRatchetStep(s, theirs) =
        [rootKey |-> RootAt(n + 2), dhSelf |-> mine,
         sendingChainKey |-> <<RootAt(n + 2), 0>>, receivingChainKey |-> <<RootAt(n + 1), 0>>,
         sendHeaderKey |-> HeaderAt(n + 2), receiveHeaderKey |-> HeaderAt(n + 1),
         nextSendHeaderKey |-> HeaderAt(n + 4), nextReceiveHeaderKey |-> HeaderAt(n + 3),
         sendMessageNumber |-> 0, receiveMessageNumber |-> 0,
         previousSendingChainLength |-> i, skippedMessageKeys |-> c]
  BY <1>3, <1>4, <1>5, <1>7 DEF DhRatchetStep, Stepped, ChainOf, mine
<1>9. StateAt(mine, 0, 0, i, c) =
        [rootKey |-> RootAt(n + 2), dhSelf |-> mine,
         sendingChainKey |-> <<RootAt(n + 2), 0>>, receivingChainKey |-> <<RootAt(n + 1), 0>>,
         sendHeaderKey |-> HeaderAt(n + 2), receiveHeaderKey |-> HeaderAt(n + 1),
         nextSendHeaderKey |-> HeaderAt(n + 4), nextReceiveHeaderKey |-> HeaderAt(n + 3),
         sendMessageNumber |-> 0, receiveMessageNumber |-> 0,
         previousSendingChainLength |-> i, skippedMessageKeys |-> c]
  BY <1>2, <1>6 DEF StateAt
<1> QED
  BY <1>8, <1>9 DEF s, mine

\* A message of the chain that is being received.
LEMMA OpenSame ==
    ASSUME NEW key \in PublicKey, NEW i \in Nat, NEW j \in Nat, NEW l \in Nat, NEW c,
           NEW k \in PublicKey, NEW l2 \in Nat, NEW i2 \in Nat,
           TurnOf(k) # 0, TurnOf(k) = Prior(TurnOf(key))
    PROVE  LET s == StateAt(key, i, j, l, c)
               m == MessageAt(k, l2, i2)
               b == TurnOf(k)
           IN  /\ SameChain(s, m)
               /\ Trial(s, m).receivingChainKey = <<RootAt(b), Reached(b, j, i2)>>
               /\ j <= i2 => Advanced(s, m) = StateAt(key, i, i2 + 1, l, SkippedTo(c, b, j, i2))
<1> DEFINE s == StateAt(key, i, j, l, c)
           m == MessageAt(k, l2, i2)
           b == TurnOf(k)
<1>1. b \in Nat /\ b = Prior(TurnOf(key)) /\ TurnOf(key) \in Nat
  BY TurnIsNat
<1>2. TurnOf(key) < 2 => b = 0
  BY <1>1 DEF Prior
<1>3. SameChain(s, m)
  BY DEF SameChain, StateAt, MessageAt
<1>4. m.messageNumber = i2
  BY DEF MessageAt
<1> DEFINE t == StateAt(key, i, Reached(b, j, i2), l, SkippedTo(c, b, j, i2))
<1>5. Trial(s, m) = t
  <2>1. TurnOf(key) < 2 => j = 0
    BY <1>2
  <2>2. SkipMessageKeys(s, i2) = t
    BY <1>1, <2>1, SkipAt
  <2> QED
    BY <1>3, <1>4, <2>2 DEF Trial
<1>6. t.receivingChainKey = <<RootAt(b), Reached(b, j, i2)>>
  BY <1>1 DEF StateAt
<1>7. ASSUME j <= i2 PROVE Advanced(s, m) = StateAt(key, i, i2 + 1, l, SkippedTo(c, b, j, i2))
  <2>1. Reached(b, j, i2) = i2
    BY <1>1, <1>7 DEF Reached, Skips
  <2>2. t = StateAt(key, i, i2, l, SkippedTo(c, b, j, i2))
    BY <2>1
  <2>3. Advanced(s, m) = [t EXCEPT !.receivingChainKey = Along(@, 1), !.receiveMessageNumber = i2 + 1]
    BY <1>4, <1>5 DEF Advanced
  <2>4. Along(<<RootAt(b), i2>>, 1) = <<RootAt(b), i2 + 1>>
    BY DEF Along
  <2>5. t.receivingChainKey = <<RootAt(b), i2>>
    BY <1>6, <2>1
  <2> HIDE DEF s, m, t
  <2>6. Advanced(s, m) = [t EXCEPT !.receivingChainKey = <<RootAt(b), i2 + 1>>, !.receiveMessageNumber = i2 + 1]
    BY <2>3, <2>4, <2>5
  <2> HIDE DEF b
  <2> QED
    BY <1>1, <2>2, <2>6 DEF StateAt
<1> HIDE DEF s, m, t
<1> QED
  BY <1>3, <1>5, <1>6, <1>7 DEF s, m

\* Where a message i2 of the chain that comes next takes the receiver.
NextAt(key, i, j, c, l2, i2) ==
    StateAt(<<key[1], key[2] + 1>>, 0, i2 + 1, i,
            SkippedTo(SkippedTo(c, Prior(TurnOf(key)), j, l2), TurnOf(key) + 1, 0, i2))

\* A message of the chain that comes next asks for a step.
LEMMA OpenNext ==
    ASSUME NEW key \in PublicKey, NEW i \in Nat, NEW j \in Nat, NEW l \in Nat, NEW c,
           NEW k \in PublicKey, NEW l2 \in Nat, NEW i2 \in Nat,
           TurnOf(key) < 2 => j = 0, TurnOf(k) = TurnOf(key) + 1
    PROVE  LET s == StateAt(key, i, j, l, c)
               m == MessageAt(k, l2, i2)
           IN  /\ ~ SameChain(s, m) /\ NextChain(s, m)
               /\ Trial(s, m).receivingChainKey = <<RootAt(TurnOf(k)), i2>>
               /\ Advanced(s, m) = NextAt(key, i, j, c, l2, i2)
<1> DEFINE s == StateAt(key, i, j, l, c)
           m == MessageAt(k, l2, i2)
           b == Prior(TurnOf(key))
           n == TurnOf(k)
           mine == <<key[1], key[2] + 1>>
           c1 == SkippedTo(c, b, j, l2)
           c2 == SkippedTo(c1, n, 0, i2)
           t == StateAt(mine, 0, i2, i, c2)
<1>1. b \in Nat /\ n \in Nat /\ TurnOf(key) \in Nat /\ n = TurnOf(key) + 1 /\ b # n
  BY TurnIsNat DEF Prior
<1>2. mine \in PublicKey /\ TurnOf(mine) = n + 1 /\ Prior(n + 1) = n
  <2>1. key = <<key[1], key[2]>> /\ key[1] \in Parties /\ key[2] \in Nat
    BY DEF PublicKey
  <2>2. mine \in PublicKey /\ TurnOf(mine) = TurnOf(key) + 2
    BY <2>1, TurnSteps
  <2> QED
    BY <1>1, <2>2 DEF Prior
<1>3. m.headerKey = HeaderAt(n) /\ m.messageNumber = i2 /\ m.previousChainLength = l2 /\ m.dhPublicKey = k
  BY DEF MessageAt
<1>4. ~ SameChain(s, m) /\ NextChain(s, m)
  <2>1. s.receiveHeaderKey = HeaderAt(b) /\ s.nextReceiveHeaderKey = HeaderAt(n)
    BY <1>1 DEF StateAt
  <2>2. HeaderAt(b) # HeaderAt(n)
    BY <1>1, HeaderFacts
  <2> QED
    BY <1>3, <2>1, <2>2 DEF SameChain, NextChain
<1>5. SkipMessageKeys(s, l2) = StateAt(key, i, Reached(b, j, l2), l, c1)
  BY SkipAt
<1>6. DhRatchetStep(SkipMessageKeys(s, l2), k) = StateAt(mine, 0, 0, i, c1)
  <2>1. Reached(b, j, l2) \in Nat
    BY DEF Reached
  <2> HIDE DEF c1
  <2> QED
    BY <1>5, <2>1, StepAt
<1>7. SkipMessageKeys(StateAt(mine, 0, 0, i, c1), i2) = t
  <2>1. SkipMessageKeys(StateAt(mine, 0, 0, i, c1), i2) = StateAt(mine, 0, Reached(n, 0, i2), i, c2)
    <3> HIDE DEF mine, c1
    <3> QED
      BY <1>2, SkipAt
  <2>2. Reached(n, 0, i2) = i2
    BY <1>1 DEF Reached, Skips
  <2> QED
    BY <2>1, <2>2
<1> HIDE DEF c1, c2, mine
<1>8. Trial(s, m) = t
  BY <1>3, <1>4, <1>6, <1>7 DEF Trial
<1>9. t.receivingChainKey = <<RootAt(n), i2>>
  BY <1>2 DEF StateAt
<1>10. Advanced(s, m) = StateAt(mine, 0, i2 + 1, i, c2)
  <2>1. Along(<<RootAt(n), i2>>, 1) = <<RootAt(n), i2 + 1>>
    BY DEF Along
  <2>2. Advanced(s, m) = [t EXCEPT !.receivingChainKey = Along(@, 1), !.receiveMessageNumber = i2 + 1]
    BY <1>3, <1>8 DEF Advanced
  <2> HIDE DEF s, m, t
  <2>3. Advanced(s, m) = [t EXCEPT !.receivingChainKey = <<RootAt(n), i2 + 1>>, !.receiveMessageNumber = i2 + 1]
    BY <1>9, <2>1, <2>2
  <2>4. Prior(TurnOf(mine)) = n
    BY <1>2
  <2> HIDE DEF n
  <2> QED
    BY <2>3, <2>4 DEF StateAt, t
<1>11. StateAt(mine, 0, i2 + 1, i, c2) = NextAt(key, i, j, c, l2, i2)
  BY <1>1 DEF NextAt, c1, c2, mine
<1> HIDE DEF s, m, t
<1> QED
  BY <1>4, <1>8, <1>9, <1>10, <1>11 DEF s, m

LEMMA AdvanceNext ==
    ASSUME NEW key \in PublicKey, NEW i \in Nat, NEW j \in Nat, NEW l \in Nat, NEW c,
           NEW k \in PublicKey, NEW l2 \in Nat, NEW i2 \in Nat,
           TurnOf(key) < 2 => j = 0, TurnOf(k) = TurnOf(key) + 1
    PROVE  Advanced(StateAt(key, i, j, l, c), MessageAt(k, l2, i2)) = NextAt(key, i, j, c, l2, i2)
  BY OpenNext

\* A message of any other chain opens no header.
LEMMA OpenOther ==
    ASSUME NEW key \in PublicKey, NEW i \in Nat, NEW j \in Nat, NEW l \in Nat, NEW c,
           NEW k \in PublicKey, NEW l2 \in Nat, NEW i2 \in Nat,
           TurnOf(k) # Prior(TurnOf(key)), TurnOf(k) # TurnOf(key) + 1
    PROVE  LET s == StateAt(key, i, j, l, c)
               m == MessageAt(k, l2, i2)
           IN  ~ SameChain(s, m) /\ ~ NextChain(s, m)
<1> DEFINE s == StateAt(key, i, j, l, c)
           m == MessageAt(k, l2, i2)
<1>1. TurnOf(k) \in Nat /\ TurnOf(key) \in Nat /\ Prior(TurnOf(key)) \in Nat /\ TurnOf(key) + 1 \in Nat
  BY TurnIsNat DEF Prior
<1>2. m.headerKey = HeaderAt(TurnOf(k)) /\ s.receiveHeaderKey = HeaderAt(Prior(TurnOf(key)))
      /\ s.nextReceiveHeaderKey = HeaderAt(TurnOf(key) + 1)
  BY DEF MessageAt, StateAt
<1>3. HeaderAt(TurnOf(k)) # HeaderAt(Prior(TurnOf(key))) /\ HeaderAt(TurnOf(k)) # HeaderAt(TurnOf(key) + 1)
  BY <1>1, HeaderFacts
<1> QED
  BY <1>2, <1>3 DEF SameChain, NextChain

-----------------------------------------------------------------------------
(* The cache as a sequence. *)

NewKeysFrom(new, b, j, u) ==
    /\ new = NewKeys(b, j, u) /\ Len(new) = u - j
    /\ \A i \in 1 .. (u - j) : new[i] = [headerKey |-> HeaderAt(b), messageNumber |-> j + i - 1,
                                         messageKey |-> <<RootAt(b), j + i - 1>>]

LEMMA NewKeysAre ==
    ASSUME NEW b \in Nat, NEW j \in Nat, NEW u \in Nat, j <= u
    PROVE  /\ NewKeys(b, j, u) \in Seq(Skipped) /\ Len(NewKeys(b, j, u)) = u - j
           /\ \E new \in Seq(Skipped) : NewKeysFrom(new, b, j, u)
<1>1. HeaderAt(b) \in HeaderKey /\ RootAt(b) \in Root /\ u - j \in Nat
  BY HeaderFacts, RootFacts
<1>2. \A i \in 1 .. (u - j) : [headerKey |-> HeaderAt(b), messageNumber |-> j + i - 1,
                               messageKey |-> <<RootAt(b), j + i - 1>>] \in Skipped
  BY <1>1 DEF Skipped, ChainKey
<1>3. NewKeys(b, j, u) \in [1 .. (u - j) -> Skipped]
  BY <1>2 DEF NewKeys
<1>4. NewKeys(b, j, u) \in Seq(Skipped) /\ Len(NewKeys(b, j, u)) = u - j
  BY <1>1, <1>3
<1>5. \A i \in 1 .. (u - j) :
         NewKeys(b, j, u)[i] = [headerKey |-> HeaderAt(b), messageNumber |-> j + i - 1,
                                messageKey |-> <<RootAt(b), j + i - 1>>]
  BY DEF NewKeys
<1>6. NewKeysFrom(NewKeys(b, j, u), b, j, u)
  BY <1>4, <1>5, Zenon DEF NewKeysFrom
<1> QED
  BY <1>4, <1>6, Zenon

\* What the eviction leaves is the end of the sequence.
LEMMA EvictedAre ==
    ASSUME NEW S, NEW e \in Seq(S)
    PROVE  \E d \in Nat :
              /\ d <= Len(e) /\ Len(EvictOldest(e)) = Len(e) - d /\ EvictOldest(e) \in Seq(S)
              /\ \A i \in 1 .. (Len(e) - d) : EvictOldest(e)[i] = e[i + d]
              /\ Len(EvictOldest(e)) <= MaxStored
              /\ d > 0 => Len(e) - d = MaxStored
<1> DEFINE a == IF Len(e) > MaxStored THEN Len(e) - MaxStored + 1 ELSE 1
<1>1. MaxStored \in Nat /\ Len(e) \in Nat
  BY RatchetAssumption, LenProperties
<1>2. EvictOldest(e) = SubSeq(e, a, Len(e))
  BY DEF EvictOldest
<1>3. a \in 1 .. Len(e) + 1
  BY <1>1
<1>4. PICK d \in Nat : d = a - 1
  BY <1>3
<1>5. a = d + 1 /\ d <= Len(e) /\ Len(e) - d <= MaxStored /\ (d > 0 => Len(e) - d = MaxStored)
  BY <1>1, <1>4
<1> HIDE DEF a
<1>6. /\ SubSeq(e, a, Len(e)) \in Seq(S)
      /\ Len(SubSeq(e, a, Len(e))) = IF a <= Len(e) THEN Len(e) - a + 1 ELSE 0
      /\ \A i \in 1 .. Len(e) - a + 1 : SubSeq(e, a, Len(e))[i] = e[a + i - 1]
  BY <1>1, <1>3, SubSeqProperties
<1>7. Len(EvictOldest(e)) = Len(e) - d
  BY <1>1, <1>2, <1>5, <1>6
<1>8. \A i \in 1 .. (Len(e) - d) : EvictOldest(e)[i] = e[i + d]
  <2>1. SUFFICES ASSUME NEW i \in 1 .. (Len(e) - d) PROVE EvictOldest(e)[i] = e[i + d]
    OBVIOUS
  <2>2. i \in 1 .. Len(e) - a + 1 /\ a + i - 1 = i + d
    BY <1>1, <1>5
  <2> QED
    BY <1>2, <1>6, <2>2
<1> QED
  BY <1>2, <1>4, <1>5, <1>6, <1>7, <1>8

LEMMA SkippedToIs ==
    ASSUME NEW c \in Seq(Skipped), NEW b \in Nat, NEW j \in Nat, NEW u \in Nat
    PROVE  /\ SkippedTo(c, b, j, u) \in Seq(Skipped)
           /\ Len(c) <= MaxStored => Len(SkippedTo(c, b, j, u)) <= MaxStored
<1>1. CASE ~ Skips(b, j, u)
  BY <1>1 DEF SkippedTo
<1>2. CASE Skips(b, j, u)
  <2>1. NewKeys(b, j, u) \in Seq(Skipped)
    BY <1>2, NewKeysAre DEF Skips
  <2>2. PICK e \in Seq(Skipped) : e = c \o NewKeys(b, j, u)
    BY <2>1, ConcatProperties
  <2>3. EvictOldest(e) \in Seq(Skipped) /\ Len(EvictOldest(e)) <= MaxStored
    BY <2>2, EvictedAre
  <2> QED
    BY <1>2, <2>2, <2>3 DEF SkippedTo
<1> QED
  BY <1>1, <1>2

LEMMA RemovedAre ==
    ASSUME NEW S, NEW c \in Seq(S), NEW x \in DOMAIN c
    PROVE  /\ RemoveAt(c, x) \in Seq(S) /\ Len(RemoveAt(c, x)) = Len(c) - 1
           /\ \A i \in 1 .. Len(c) - 1 : RemoveAt(c, x)[i] = IF i < x THEN c[i] ELSE c[i + 1]
<1>1. PICK n \in Nat : n = Len(c)
  BY LenProperties
<1>2. x \in 1 .. n /\ \A i \in 1 .. n : c[i] \in S
  BY <1>1, LenProperties
<1>3. PICK a \in Seq(S) : a = SubSeq(c, 1, x - 1)
  <2>1. \A i \in 1 .. x - 1 : c[i] \in S
    BY <1>2
  <2>2. SubSeq(c, 1, x - 1) \in Seq(S)
    BY <1>2, <2>1, SubSeqProperties
  <2> QED
    BY <2>2
<1>4. Len(a) = x - 1 /\ \A i \in 1 .. x - 1 : a[i] = c[i]
  <2>1. \A i \in 1 .. x - 1 : c[i] \in S
    BY <1>2
  <2>2. /\ Len(a) = IF 1 <= x - 1 THEN (x - 1) - 1 + 1 ELSE 0
        /\ \A i \in 1 .. (x - 1) - 1 + 1 : a[i] = c[1 + i - 1]
    BY <1>2, <1>3, <2>1, SubSeqProperties
  <2>3. Len(a) = x - 1
    BY <1>2, <2>2
  <2>4. ASSUME NEW i \in 1 .. x - 1 PROVE a[i] = c[i]
    <3>1. i \in 1 .. (x - 1) - 1 + 1 /\ 1 + i - 1 = i
      BY <1>2
    <3> QED
      BY <2>2, <3>1
  <2> QED
    BY <2>3, <2>4
<1>5. \A i \in x + 1 .. n : c[i] \in S
  BY <1>2
<1>6. PICK b \in Seq(S) : b = SubSeq(c, x + 1, n)
  <2>1. SubSeq(c, x + 1, n) \in Seq(S)
    BY <1>2, <1>5, SubSeqProperties
  <2> QED
    BY <2>1
<1>7. Len(b) = n - x /\ \A i \in 1 .. n - x : b[i] = c[x + i]
  <2>1. /\ Len(SubSeq(c, x + 1, n)) = IF x + 1 <= n THEN n - (x + 1) + 1 ELSE 0
        /\ \A i \in 1 .. n - (x + 1) + 1 : SubSeq(c, x + 1, n)[i] = c[(x + 1) + i - 1]
    <3>1. PICK g \in Int : g = x + 1
      BY <1>2
    <3>2. \A i \in g .. n : c[i] \in S
      BY <1>5, <3>1
    <3>3. /\ Len(SubSeq(c, g, n)) = IF g <= n THEN n - g + 1 ELSE 0
          /\ \A i \in 1 .. n - g + 1 : SubSeq(c, g, n)[i] = c[g + i - 1]
      BY <1>2, <3>2, SubSeqProperties
    <3> QED
      BY <3>1, <3>3, Zenon
  <2>2. /\ Len(b) = IF x + 1 <= n THEN n - (x + 1) + 1 ELSE 0
        /\ \A i \in 1 .. n - (x + 1) + 1 : b[i] = c[(x + 1) + i - 1]
    BY <1>6, <2>1, Zenon
  <2>3. Len(b) = n - x
    BY <1>2, <2>2
  <2>4. ASSUME NEW i \in 1 .. n - x PROVE b[i] = c[x + i]
    <3>1. i \in 1 .. n - (x + 1) + 1 /\ (x + 1) + i - 1 = x + i
      BY <1>2
    <3> QED
      BY <2>2, <3>1
  <2> QED
    BY <2>3, <2>4
<1>8. PICK r \in Seq(S) : r = a \o b
  BY <1>3, <1>6, ConcatProperties
<1>9. RemoveAt(c, x) = r
  BY <1>1, <1>3, <1>6, <1>8 DEF RemoveAt
<1>10. Len(r) = n - 1 /\ \A i \in 1 .. n - 1 : r[i] = IF i <= x - 1 THEN a[i] ELSE b[i - (x - 1)]
  <2>1. /\ Len(a \o b) = Len(a) + Len(b)
        /\ \A i \in 1 .. Len(a) + Len(b) : (a \o b)[i] = IF i <= Len(a) THEN a[i] ELSE b[i - Len(a)]
    BY <1>3, <1>6, ConcatProperties
  <2>2. Len(a) + Len(b) = n - 1
    BY <1>2, <1>4, <1>7
  <2>3. Len(r) = n - 1 /\ \A i \in 1 .. n - 1 : r[i] = IF i <= Len(a) THEN a[i] ELSE b[i - Len(a)]
    BY <1>8, <2>1, <2>2, Zenon
  <2>4. Len(a) = x - 1
    BY <1>4
  <2> QED
    BY <2>3, <2>4, Zenon
<1>11. ASSUME NEW i \in 1 .. n - 1 PROVE r[i] = IF i < x THEN c[i] ELSE c[i + 1]
  <2>1. CASE i < x
    <3>1. i \in 1 .. x - 1 /\ i <= x - 1
      BY <1>2, <2>1
    <3> QED
      BY <1>4, <1>10, <2>1, <3>1
  <2>2. CASE ~ i < x
    <3>1. ~ i <= x - 1 /\ i - (x - 1) \in 1 .. n - x /\ x + (i - (x - 1)) = i + 1
      BY <1>2, <2>2
    <3> QED
      BY <1>7, <1>10, <2>2, <3>1
  <2> QED
    BY <2>1, <2>2
<1> QED
  BY <1>1, <1>8, <1>9, <1>10, <1>11

-----------------------------------------------------------------------------
(* Messages and their cached keys. *)

AreMessages(S) ==
    \A m \in S : \E key \in PublicKey, l, i \in Nat : m = MessageAt(key, l, i) /\ 0 < TurnOf(key)

AreFresh(S) == \A l, m \in S : l.messageKey = m.messageKey => l = m

LEMMA MessageParts ==
    ASSUME NEW S, AreMessages(S), NEW m \in S
    PROVE  /\ Link(m) \in Nat /\ 0 < Link(m) /\ m.messageNumber \in Nat /\ m.previousChainLength \in Nat
           /\ m.messageKey = <<RootAt(Link(m)), m.messageNumber>>
           /\ m.headerKey = HeaderAt(Link(m)) /\ m.dhPublicKey \in PublicKey
           /\ m.to \in Parties /\ m.dhPublicKey[1] = Peer(m.to) /\ m.to = Peer(m.dhPublicKey[1])
           /\ Len(m.messageKey[1]) = Link(m) /\ m.messageKey[1] = RootAt(Link(m))
           /\ Entry(m) \in Skipped
           /\ m = MessageAt(m.dhPublicKey, m.previousChainLength, m.messageNumber)
<1>1. PICK key \in PublicKey, l \in Nat, i \in Nat : m = MessageAt(key, l, i) /\ 0 < TurnOf(key)
  BY DEF AreMessages
<1>2. /\ m.dhPublicKey = key /\ m.previousChainLength = l /\ m.messageNumber = i /\ m.to = Peer(key[1])
      /\ m.headerKey = HeaderAt(TurnOf(key)) /\ m.messageKey = <<RootAt(TurnOf(key)), i>>
  BY <1>1 DEF MessageAt
<1>3. Link(m) = TurnOf(key) /\ TurnOf(key) \in Nat
  BY <1>1, <1>2, TurnIsNat DEF Link
<1>4. key[1] \in Parties
  BY <1>1 DEF PublicKey
<1>5. m.to \in Parties /\ key[1] = Peer(m.to)
  BY <1>2, <1>4, PeerFacts
<1>6. RootAt(Link(m)) \in Root /\ Len(RootAt(Link(m))) = Link(m) /\ HeaderAt(Link(m)) \in HeaderKey
  BY <1>3, RootFacts, HeaderFacts
<1>7. Entry(m) \in Skipped
  BY <1>1, <1>2, <1>3, <1>6 DEF Entry, Skipped, ChainKey
<1> QED
  BY <1>1, <1>2, <1>3, <1>5, <1>6, <1>7

\* Keys of two messages that enter the cache alike are of one message.
LEMMA EntryIsOne ==
    ASSUME NEW S, AreFresh(S), NEW l \in S, NEW m \in S, Entry(l) = Entry(m)
    PROVE  l = m
<1>1. Entry(l).messageKey = l.messageKey /\ Entry(m).messageKey = m.messageKey
  BY DEF Entry
<1> QED
  BY <1>1 DEF AreFresh

\* More messages sent or passed, more messages that came after.
LEMMA AfterGrows ==
    ASSUME NEW S, NEW T, IsFiniteSet(T), S \subseteq T, NEW p, NEW b, NEW j, NEW b2, NEW j2, NEW m,
           \A l \in S : l.to = p /\ PassedAt(b, j, l) => PassedAt(b2, j2, l),
           MaxStored <= Cardinality(PassedAfterAt(S, p, b, j, m))
    PROVE  MaxStored <= Cardinality(PassedAfterAt(T, p, b2, j2, m))
<1> DEFINE A == PassedAfterAt(S, p, b, j, m)
           B == PassedAfterAt(T, p, b2, j2, m)
<1>1. A \subseteq B /\ B \subseteq T
  BY DEF PassedAfterAt
<1>2. IsFiniteSet(B)
  BY <1>1, FS_Subset
<1>3. IsFiniteSet(A) /\ Cardinality(A) <= Cardinality(B)
  BY <1>1, <1>2, FS_Subset
<1>4. Cardinality(A) \in Nat /\ Cardinality(B) \in Nat /\ MaxStored \in Nat
  BY <1>2, <1>3, FS_CardinalityType, RatchetAssumption
<1> QED
  BY <1>3, <1>4

-----------------------------------------------------------------------------
(* What each operation does to a cache that stores the passed messages. *)

LEMMA MoveStores ==
    ASSUME NEW S, AreMessages(S), IsFiniteSet(S), NEW gone \in SUBSET S, NEW p \in Parties,
           NEW b \in Nat, NEW j \in Nat, NEW c, NEW b2 \in Nat, b < b2, Stores(S, gone, p, b, j, c),
           \A l \in S : l.to = p /\ Link(l) < b2 => PassedAt(b, j, l)
    PROVE  Stores(S, gone, p, b2, 0, c)
<1>1. ASSUME NEW l \in S, l.to = p PROVE PassedAt(b, j, l) <=> PassedAt(b2, 0, l)
  <2>1. Link(l) \in Nat /\ l.messageNumber \in Nat
    BY MessageParts
  <2> QED
    BY <1>1, <2>1 DEF PassedAt
<1>2. ASSUME NEW m \in S \ gone, m.to = p, PassedAt(b2, 0, m)
      PROVE  Held(c, m) \/ MaxStored <= Cardinality(PassedAfterAt(S, p, b2, 0, m))
  <2>1. Held(c, m) \/ MaxStored <= Cardinality(PassedAfterAt(S, p, b, j, m))
    BY <1>1, <1>2 DEF Stores
  <2> QED
    BY <1>1, <2>1, AfterGrows
<1>3. \A i \in DOMAIN c : \E l \in S \ gone : l.to = p /\ c[i] = Entry(l) /\ PassedAt(b2, 0, l)
  BY <1>1 DEF Stores
<1>4. \A m \in gone : m.to = p => PassedAt(b2, 0, m)
  BY <1>1 DEF Stores
<1> QED
  BY <1>2, <1>3, <1>4 DEF Stores

LEMMA SendStores ==
    ASSUME NEW S, NEW m, NEW T, T = S \cup {m}, IsFiniteSet(S), NEW gone \in SUBSET S, NEW p, NEW b,
           NEW j, NEW c, Stores(S, gone, p, b, j, c), m.to = p => ~ PassedAt(b, j, m)
    PROVE  Stores(T, gone, p, b, j, c)
<1>1. IsFiniteSet(T)
  BY FS_AddElement
<1>2. \A i \in DOMAIN c : \E l \in T \ gone : l.to = p /\ c[i] = Entry(l) /\ PassedAt(b, j, l)
  BY DEF Stores
<1>3. ASSUME NEW x \in T \ gone, x.to = p, PassedAt(b, j, x)
      PROVE  Held(c, x) \/ MaxStored <= Cardinality(PassedAfterAt(T, p, b, j, x))
  <2>1. x \in S \ gone
    BY <1>3
  <2>2. Held(c, x) \/ MaxStored <= Cardinality(PassedAfterAt(S, p, b, j, x))
    BY <1>3, <2>1 DEF Stores
  <2> QED
    BY <1>1, <2>2, AfterGrows
<1> QED
  BY <1>2, <1>3 DEF Stores

\* The message at the receiver's place is read, and the receiver moves past it.
LEMMA ReadStores ==
    ASSUME NEW S, AreMessages(S), AreFresh(S), IsFiniteSet(S), NEW gone \in SUBSET S, NEW p \in Parties,
           NEW b \in Nat, NEW j \in Nat, NEW c, Stores(S, gone, p, b, j, c),
           NEW m \in S, m.to = p, Link(m) = b, m.messageNumber = j
    PROVE  Stores(S, gone \cup {m}, p, b, j + 1, c)
<1>1. ~ PassedAt(b, j, m) /\ PassedAt(b, j + 1, m)
  BY DEF PassedAt
<1>2. ASSUME NEW l \in S PROVE PassedAt(b, j + 1, l) <=> (PassedAt(b, j, l) \/ l = m)
  <2>1. Link(l) \in Nat /\ l.messageNumber \in Nat
    BY MessageParts
  <2>2. ASSUME Link(l) = b, l.messageNumber = j PROVE l = m
    <3>1. l.messageKey = m.messageKey
      BY <2>2, MessageParts
    <3> QED
      BY <3>1 DEF AreFresh
  <2> QED
    BY <1>1, <2>1, <2>2 DEF PassedAt
<1>3. \A i \in DOMAIN c : \E l \in S \ (gone \cup {m}) : l.to = p /\ c[i] = Entry(l) /\ PassedAt(b, j + 1, l)
  <2>1. SUFFICES ASSUME NEW i \in DOMAIN c
                 PROVE  \E l \in S \ (gone \cup {m}) : l.to = p /\ c[i] = Entry(l) /\ PassedAt(b, j + 1, l)
    OBVIOUS
  <2>2. PICK l \in S \ gone : l.to = p /\ c[i] = Entry(l) /\ PassedAt(b, j, l)
    BY DEF Stores
  <2>3. l # m /\ PassedAt(b, j + 1, l)
    BY <1>1, <1>2, <2>2
  <2> QED
    BY <2>2, <2>3
<1>4. ASSUME NEW x \in S \ (gone \cup {m}), x.to = p, PassedAt(b, j + 1, x)
      PROVE  Held(c, x) \/ MaxStored <= Cardinality(PassedAfterAt(S, p, b, j + 1, x))
  <2>1. x \in S \ gone /\ PassedAt(b, j, x)
    BY <1>2, <1>4
  <2>2. Held(c, x) \/ MaxStored <= Cardinality(PassedAfterAt(S, p, b, j, x))
    BY <1>4, <2>1 DEF Stores
  <2> QED
    BY <1>2, <2>2, AfterGrows
<1>5. \A x \in gone \cup {m} : x.to = p => PassedAt(b, j + 1, x)
  BY <1>2 DEF Stores
<1> QED
  BY <1>3, <1>4, <1>5 DEF Stores

\* A straggler is read with its cached key, which goes.
LEMMA TakeStores ==
    ASSUME NEW S, AreFresh(S), NEW gone \in SUBSET S, NEW p, NEW b, NEW j,
           NEW c \in Seq(Skipped), Stores(S, gone, p, b, j, c),
           NEW m \in S, NEW x \in DOMAIN c, c[x] = Entry(m)
    PROVE  Stores(S, gone \cup {m}, p, b, j, RemoveAt(c, x))
<1>1. PICK n \in Nat : n = Len(c) /\ DOMAIN c = 1 .. n
  BY LenProperties
<1>2. PICK r \in Seq(Skipped) : r = RemoveAt(c, x)
  BY RemovedAre
<1>3. Len(r) = n - 1 /\ \A i \in 1 .. n - 1 : r[i] = IF i < x THEN c[i] ELSE c[i + 1]
  BY <1>1, <1>2, RemovedAre
<1>4. x \in 1 .. n
  BY <1>1
<1>5. DOMAIN r = 1 .. n - 1
  BY <1>2, <1>3, LenProperties
<1>6. \A i, k \in 1 .. n : i < k => Earlier(c[i], c[k])
  BY <1>1 DEF Stores
<1>7. \A i \in 1 .. n : \E l \in S \ gone : l.to = p /\ c[i] = Entry(l) /\ PassedAt(b, j, l)
  BY <1>1 DEF Stores
<1>8. m \notin gone /\ m.to = p /\ PassedAt(b, j, m)
  <2>1. PICK l \in S \ gone : l.to = p /\ c[x] = Entry(l) /\ PassedAt(b, j, l)
    BY <1>4, <1>7
  <2>2. l = m
    BY <2>1, EntryIsOne
  <2> QED
    BY <2>1, <2>2
<1>9. ASSUME NEW i \in 1 .. n, i # x PROVE c[i] # Entry(m)
  <2>1. PICK l \in S : c[i] = Entry(l) /\ l.messageNumber = c[i].messageNumber /\ l.messageKey = c[i].messageKey
    BY <1>7 DEF Entry
  <2>2. c[x] \in Skipped /\ c[i] \in Skipped
    BY <1>1, <1>4, LenProperties
  <2>3. ~ Earlier(c[x], c[x])
    <3>1. PICK num \in Nat, root \in Root : num = c[x].messageNumber /\ root = c[x].messageKey[1]
      BY <2>2 DEF Skipped, ChainKey
    <3>2. Len(root) \in Nat
      BY <3>1 DEF Root
    <3> QED
      BY <3>1, <3>2 DEF Earlier
  <2>4. Earlier(c[i], c[x]) \/ Earlier(c[x], c[i])
    BY <1>4, <1>6, <1>9
  <2> QED
    BY <2>3, <2>4
<1>10. \A i \in 1 .. n - 1 : \E l \in S \ (gone \cup {m}) : l.to = p /\ r[i] = Entry(l) /\ PassedAt(b, j, l)
  <2>1. SUFFICES ASSUME NEW i \in 1 .. n - 1
                 PROVE  \E l \in S \ (gone \cup {m}) : l.to = p /\ r[i] = Entry(l) /\ PassedAt(b, j, l)
    OBVIOUS
  <2>2. PICK k \in 1 .. n : k # x /\ r[i] = c[k]
    <3>1. CASE i < x
      BY <1>3, <3>1
    <3>2. CASE ~ i < x
      BY <1>3, <1>4, <3>2
    <3> QED
      BY <3>1, <3>2
  <2>3. PICK l \in S \ gone : l.to = p /\ c[k] = Entry(l) /\ PassedAt(b, j, l)
    BY <1>7
  <2>4. l # m
    BY <1>9, <2>2, <2>3
  <2> QED
    BY <2>2, <2>3, <2>4
<1>11. \A i, k \in 1 .. n - 1 : i < k => Earlier(r[i], r[k])
  <2>1. SUFFICES ASSUME NEW i \in 1 .. n - 1, NEW k \in 1 .. n - 1, i < k PROVE Earlier(r[i], r[k])
    OBVIOUS
  <2>2. CASE k < x
    BY <1>3, <1>6, <2>1, <2>2
  <2>3. CASE ~ k < x /\ i < x
    BY <1>3, <1>6, <2>1, <2>3
  <2>4. CASE ~ k < x /\ ~ i < x
    <3>1. i + 1 \in 1 .. n /\ k + 1 \in 1 .. n /\ i + 1 < k + 1
      BY <2>1
    <3>2. r[i] = c[i + 1] /\ r[k] = c[k + 1]
      BY <1>3, <2>4
    <3> QED
      BY <1>6, <3>1, <3>2
  <2> QED
    BY <2>2, <2>3, <2>4
<1>12. ASSUME NEW y \in S \ (gone \cup {m}), y.to = p, PassedAt(b, j, y)
       PROVE  Held(r, y) \/ MaxStored <= Cardinality(PassedAfterAt(S, p, b, j, y))
  <2>1. Held(c, y) \/ MaxStored <= Cardinality(PassedAfterAt(S, p, b, j, y))
    BY <1>12 DEF Stores
  <2>2. ASSUME Held(c, y) PROVE Held(r, y)
    <3>1. PICK k \in 1 .. n : c[k] = Entry(y)
      BY <1>1, <2>2 DEF Held
    <3>2. k # x
      BY <3>1, EntryIsOne
    <3>3. CASE k < x
      <4>1. k \in 1 .. n - 1 /\ r[k] = c[k]
        BY <1>3, <1>4, <3>3
      <4> QED
        BY <1>5, <3>1, <4>1 DEF Held
    <3>4. CASE k > x
      <4>1. k - 1 \in 1 .. n - 1 /\ ~ k - 1 < x /\ (k - 1) + 1 = k
        BY <1>4, <3>4
      <4>2. r[k - 1] = c[k]
        BY <1>3, <4>1
      <4> QED
        BY <1>5, <3>1, <4>1, <4>2 DEF Held
    <3> QED
      BY <1>4, <3>2, <3>3, <3>4
  <2> QED
    BY <2>1, <2>2
<1>13. \A y \in gone \cup {m} : y.to = p => PassedAt(b, j, y)
  BY <1>8 DEF Stores
<1>14. Stores(S, gone \cup {m}, p, b, j, r)
  BY <1>5, <1>10, <1>11, <1>12, <1>13 DEF Stores
<1> QED
  BY <1>2, <1>14

\* The keys of a chain up to a number enter the cache.
LEMMA SkipStores ==
    ASSUME NEW S, AreMessages(S), AreFresh(S), IsFiniteSet(S), NEW gone \in SUBSET S, NEW p \in Parties,
           NEW b \in Nat, NEW j \in Nat, NEW u \in Nat, j <= u, NEW c \in Seq(Skipped),
           Stores(S, gone, p, b, j, c),
           \A x \in Nat : j <= x /\ x < u => \E l \in S : l.to = p /\ Link(l) = b /\ l.messageNumber = x
    PROVE  Stores(S, gone, p, b, u, c \o NewKeys(b, j, u))
<1>1. PICK n \in Nat : n = Len(c) /\ DOMAIN c = 1 .. n
  BY LenProperties
<1>2. PICK new \in Seq(Skipped) : NewKeysFrom(new, b, j, u)
  BY NewKeysAre
<1>3. /\ new = NewKeys(b, j, u) /\ Len(new) = u - j
      /\ \A i \in 1 .. (u - j) : new[i] = [headerKey |-> HeaderAt(b), messageNumber |-> j + i - 1,
                                           messageKey |-> <<RootAt(b), j + i - 1>>]
  BY <1>2, Zenon DEF NewKeysFrom
<1>4. PICK e \in Seq(Skipped) : e = c \o new
  BY <1>2, ConcatProperties
<1>5. PICK w \in Nat : w = u - j
  OBVIOUS
<1>6. /\ Len(e) = n + w /\ DOMAIN e = 1 .. n + w
      /\ \A i \in 1 .. n + w : e[i] = IF i <= n THEN c[i] ELSE new[i - n]
  <2>1. /\ Len(c \o new) = Len(c) + Len(new)
        /\ \A i \in 1 .. Len(c) + Len(new) : (c \o new)[i] = IF i <= Len(c) THEN c[i] ELSE new[i - Len(c)]
    BY <1>2, ConcatProperties
  <2>2. Len(e) = n + w /\ \A i \in 1 .. n + w : e[i] = IF i <= n THEN c[i] ELSE new[i - n]
    BY <1>1, <1>3, <1>4, <1>5, <2>1
  <2> QED
    BY <1>4, <2>2, LenProperties
<1>7. \A i \in 1 .. n : i \in 1 .. n + w /\ e[i] = c[i]
  BY <1>5, <1>6
<1>8. ASSUME NEW l \in S, PassedAt(b, j, l) PROVE PassedAt(b, u, l)
  <2>1. Link(l) \in Nat /\ l.messageNumber \in Nat
    BY MessageParts
  <2> QED
    BY <1>8, <2>1 DEF PassedAt
\* The new keys are those of unread messages.
<1>9. ASSUME NEW i \in n + 1 .. n + w
      PROVE  \E l \in S \ gone : /\ l.to = p /\ e[i] = Entry(l) /\ PassedAt(b, u, l)
                                 /\ Link(l) = b /\ l.messageNumber = j + (i - n) - 1
  <2>1. PICK x \in Nat : x = j + (i - n) - 1 /\ j <= x /\ x < u
    BY <1>5
  <2>2. i - n \in 1 .. (u - j) /\ i \in 1 .. n + w /\ ~ i <= n
    BY <1>5
  <2>3. e[i] = [headerKey |-> HeaderAt(b), messageNumber |-> x, messageKey |-> <<RootAt(b), x>>]
    <3>1. e[i] = new[i - n]
      BY <1>6, <2>2
    <3>2. new[i - n] = [headerKey |-> HeaderAt(b), messageNumber |-> j + (i - n) - 1,
                        messageKey |-> <<RootAt(b), j + (i - n) - 1>>]
      BY <1>3, <2>2
    <3> QED
      BY <2>1, <3>1, <3>2
  <2>4. PICK l \in S : l.to = p /\ Link(l) = b /\ l.messageNumber = x
    BY <2>1
  <2>5. e[i] = Entry(l)
    <3>1. l.messageKey = <<RootAt(b), x>> /\ l.headerKey = HeaderAt(b)
      BY <2>4, MessageParts
    <3> QED
      BY <2>3, <2>4, <3>1 DEF Entry
  <2>6. l \notin gone
    <3>1. ~ PassedAt(b, j, l)
      BY <2>1, <2>4 DEF PassedAt
    <3> QED
      BY <2>4, <3>1 DEF Stores
  <2>7. PassedAt(b, u, l)
    BY <2>1, <2>4 DEF PassedAt
  <2> QED
    BY <2>1, <2>4, <2>5, <2>6, <2>7
<1>10. \A i \in 1 .. n + w : \E l \in S \ gone : l.to = p /\ e[i] = Entry(l) /\ PassedAt(b, u, l)
  <2>1. SUFFICES ASSUME NEW i \in 1 .. n + w
                 PROVE  \E l \in S \ gone : l.to = p /\ e[i] = Entry(l) /\ PassedAt(b, u, l)
    OBVIOUS
  <2>2. CASE i <= n
    <3>1. i \in 1 .. n
      BY <2>2
    <3>2. PICK l \in S \ gone : l.to = p /\ c[i] = Entry(l) /\ PassedAt(b, j, l)
      BY <1>1, <3>1 DEF Stores
    <3>3. e[i] = c[i] /\ PassedAt(b, u, l)
      BY <1>7, <1>8, <3>1, <3>2
    <3> QED
      BY <3>2, <3>3
  <2>3. CASE ~ i <= n
    <3>1. i \in n + 1 .. n + w
      BY <2>3
    <3> QED
      BY <1>9, <3>1
  <2> QED
    BY <2>2, <2>3
<1>11. \A x, y \in 1 .. n + w : x < y => Earlier(e[x], e[y])
  <2>1. SUFFICES ASSUME NEW x \in 1 .. n + w, NEW y \in 1 .. n + w, x < y PROVE Earlier(e[x], e[y])
    OBVIOUS
  <2>2. CASE y <= n
    <3>1. x \in 1 .. n /\ y \in 1 .. n
      BY <2>1, <2>2
    <3>2. Earlier(c[x], c[y])
      BY <1>1, <2>1, <3>1 DEF Stores
    <3> QED
      BY <1>7, <3>1, <3>2
  <2>3. CASE ~ y <= n
    <3>1. y \in n + 1 .. n + w
      BY <2>3
    <3>2. PICK k \in S : e[y] = Entry(k) /\ Link(k) = b /\ k.messageNumber = j + (y - n) - 1
      BY <1>9, <3>1
    <3>3. Len(e[y].messageKey[1]) = b /\ e[y].messageNumber = j + (y - n) - 1
      BY <3>2, MessageParts DEF Entry
    <3>4. CASE x <= n
      <4>1. PICK l \in S \ gone : c[x] = Entry(l) /\ PassedAt(b, j, l)
        BY <1>1, <3>4 DEF Stores
      <4>2. e[x] = Entry(l)
        BY <1>7, <3>4, <4>1
      <4>3. Len(e[x].messageKey[1]) = Link(l) /\ e[x].messageNumber = l.messageNumber
        BY <4>2, MessageParts DEF Entry
      <4>4. Link(l) \in Nat /\ l.messageNumber \in Nat
        BY MessageParts
      <4> QED
        BY <3>1, <3>3, <4>1, <4>3, <4>4 DEF Earlier, PassedAt
    <3>5. CASE ~ x <= n
      <4>1. x \in n + 1 .. n + w
        BY <3>5
      <4>2. PICK l \in S : e[x] = Entry(l) /\ Link(l) = b /\ l.messageNumber = j + (x - n) - 1
        BY <1>9, <4>1
      <4>3. Len(l.messageKey[1]) = Link(l)
        BY MessageParts
      <4>4. Len(e[x].messageKey[1]) = b /\ e[x].messageNumber = j + (x - n) - 1
        BY <4>2, <4>3 DEF Entry
      <4> QED
        BY <2>1, <3>3, <4>4 DEF Earlier
    <3> QED
      BY <3>4, <3>5
  <2> QED
    BY <2>2, <2>3
<1>12. ASSUME NEW m \in S \ gone, m.to = p, PassedAt(b, u, m)
       PROVE  Held(e, m) \/ MaxStored <= Cardinality(PassedAfterAt(S, p, b, u, m))
  <2>1. Link(m) \in Nat /\ m.messageNumber \in Nat
    BY MessageParts
  <2>2. CASE PassedAt(b, j, m)
    <3>1. Held(c, m) \/ MaxStored <= Cardinality(PassedAfterAt(S, p, b, j, m))
      BY <1>12, <2>2 DEF Stores
    <3>2. CASE Held(c, m)
      <4>1. PICK i \in 1 .. n : c[i] = Entry(m)
        BY <1>1, <3>2 DEF Held
      <4> QED
        BY <1>6, <1>7, <4>1 DEF Held
    <3>3. CASE MaxStored <= Cardinality(PassedAfterAt(S, p, b, j, m))
      BY <1>8, <3>3, AfterGrows
    <3> QED
      BY <3>1, <3>2, <3>3
  <2>3. CASE ~ PassedAt(b, j, m)
    <3>1. Link(m) = b /\ j <= m.messageNumber /\ m.messageNumber < u
      BY <1>12, <2>1, <2>3 DEF PassedAt
    <3>2. PICK i \in n + 1 .. n + w : j + (i - n) - 1 = m.messageNumber
      <4>1. PICK num \in Nat : num = m.messageNumber
        BY <2>1
      <4>2. PICK g \in Nat : g = num - j /\ g < w
        BY <1>5, <3>1, <4>1
      <4>3. n + g + 1 \in n + 1 .. n + w /\ j + ((n + g + 1) - n) - 1 = num
        BY <4>2
      <4> QED
        BY <4>1, <4>3
    <3>4. PICK l \in S : e[i] = Entry(l) /\ Link(l) = b /\ l.messageNumber = m.messageNumber
      BY <1>9, <3>2
    <3>5. l = m
      <4>1. l.messageKey = <<RootAt(Link(l)), l.messageNumber>> /\ m.messageKey = <<RootAt(Link(m)), m.messageNumber>>
        BY MessageParts
      <4>2. l.messageKey = m.messageKey
        BY <3>1, <3>4, <4>1
      <4> QED
        BY <4>2 DEF AreFresh
    <3>6. i \in 1 .. n + w
      BY <3>2
    <3> QED
      BY <1>6, <3>4, <3>5, <3>6 DEF Held
  <2> QED
    BY <2>2, <2>3
<1>13. \A m \in gone : m.to = p => PassedAt(b, u, m)
  BY <1>8 DEF Stores
<1>14. Stores(S, gone, p, b, u, e)
  BY <1>6, <1>10, <1>11, <1>12, <1>13 DEF Stores
<1> QED
  BY <1>3, <1>4, <1>14

\* The oldest keys make room: those left are enough to account for each.
LEMMA EvictStores ==
    ASSUME NEW S, IsFiniteSet(S), AreFresh(S), NEW gone \in SUBSET S, NEW p, NEW b, NEW j,
           NEW e \in Seq(Skipped), Stores(S, gone, p, b, j, e)
    PROVE  Stores(S, gone, p, b, j, EvictOldest(e))
<1>1. PICK n \in Nat : n = Len(e) /\ DOMAIN e = 1 .. n
  BY LenProperties
<1>2. PICK d \in Nat :
         /\ d <= n /\ Len(EvictOldest(e)) = n - d /\ EvictOldest(e) \in Seq(Skipped)
         /\ \A i \in 1 .. (n - d) : EvictOldest(e)[i] = e[i + d]
         /\ d > 0 => n - d = MaxStored
  BY <1>1, EvictedAre
<1>3. PICK k \in Seq(Skipped) : k = EvictOldest(e) /\ Len(k) = n - d /\ DOMAIN k = 1 .. n - d
  BY <1>2, LenProperties
<1>4. \A i \in 1 .. n - d : i + d \in 1 .. n /\ k[i] = e[i + d]
  BY <1>2, <1>3
<1>5. \A i \in 1 .. n : \E l \in S \ gone : l.to = p /\ e[i] = Entry(l) /\ PassedAt(b, j, l)
  BY <1>1 DEF Stores
<1>6. \A x, y \in 1 .. n : x < y => Earlier(e[x], e[y])
  BY <1>1 DEF Stores
<1>7. \A i \in 1 .. n - d : \E l \in S \ gone : l.to = p /\ k[i] = Entry(l) /\ PassedAt(b, j, l)
  <2>1. SUFFICES ASSUME NEW i \in 1 .. n - d
                 PROVE  \E l \in S \ gone : l.to = p /\ k[i] = Entry(l) /\ PassedAt(b, j, l)
    OBVIOUS
  <2>2. i + d \in 1 .. n /\ k[i] = e[i + d]
    BY <1>4
  <2> QED
    BY <1>5, <2>2
<1>8. \A x, y \in 1 .. n - d : x < y => Earlier(k[x], k[y])
  <2>1. SUFFICES ASSUME NEW x \in 1 .. n - d, NEW y \in 1 .. n - d, x < y PROVE Earlier(k[x], k[y])
    OBVIOUS
  <2>2. x + d \in 1 .. n /\ y + d \in 1 .. n /\ x + d < y + d /\ k[x] = e[x + d] /\ k[y] = e[y + d]
    BY <1>4, <2>1
  <2> QED
    BY <1>6, <2>2
<1>9. ASSUME NEW m \in S \ gone, m.to = p, NEW x \in 1 .. n, e[x] = Entry(m), x <= d
      PROVE  MaxStored <= Cardinality(PassedAfterAt(S, p, b, j, m))
  <2> DEFINE A == PassedAfterAt(S, p, b, j, m)
             later == [i \in 1 .. MaxStored |->
                         CHOOSE l \in S : l.to = p /\ e[d + i] = Entry(l) /\ PassedAt(b, j, l)]
  <2>1. MaxStored = n - d /\ MaxStored \in Nat
    BY <1>2, <1>9, RatchetAssumption
  <2>2. ASSUME NEW i \in 1 .. MaxStored
        PROVE  later[i] \in A /\ e[d + i] = Entry(later[i]) /\ d + i \in 1 .. n
    <3>1. d + i \in 1 .. n /\ x < d + i
      BY <1>9, <2>1
    <3>2. \E l \in S : l.to = p /\ e[d + i] = Entry(l) /\ PassedAt(b, j, l)
      BY <1>5, <3>1
    <3>3. later[i] \in S /\ later[i].to = p /\ e[d + i] = Entry(later[i]) /\ PassedAt(b, j, later[i])
      BY <3>2
    <3>4. Earlier(e[x], e[d + i])
      BY <1>6, <3>1
    <3> HIDE DEF later
    <3>5. Earlier(m, later[i])
      BY <1>9, <3>3, <3>4 DEF Earlier, Entry
    <3> QED
      BY <3>1, <3>3, <3>5 DEF PassedAfterAt
  <2>3. ASSUME NEW i \in 1 .. MaxStored, NEW h \in 1 .. MaxStored, later[i] = later[h] PROVE i = h
    <3>1. e[d + i] = e[d + h] /\ d + i \in 1 .. n /\ d + h \in 1 .. n
      BY <2>2, <2>3
    <3>2. ~ Earlier(e[d + i], e[d + i])
      <4>1. e[d + i] \in Skipped
        BY <1>1, <3>1, LenProperties
      <4>2. PICK num \in Nat, root \in Root : num = e[d + i].messageNumber /\ root = e[d + i].messageKey[1]
        BY <4>1 DEF Skipped, ChainKey
      <4>3. Len(root) \in Nat
        BY <4>2 DEF Root
      <4> QED
        BY <4>2, <4>3 DEF Earlier
    <3>3. ~ d + i < d + h /\ ~ d + h < d + i
      BY <1>6, <3>1, <3>2
    <3> QED
      BY <3>3
  <2>4. later \in [1 .. MaxStored -> A]
    BY <2>2
  <2>5. A \subseteq S
    BY DEF PassedAfterAt
  <2>6. IsFiniteSet(A)
    BY <2>5, FS_Subset
  <2> HIDE DEF later
  <2>7. later \in Injection(1 .. MaxStored, A)
    BY <2>3, <2>4 DEF Injection, IsInjective
  <2> HIDE DEF A
  <2>8. Cardinality(1 .. MaxStored) <= Cardinality(A)
    BY <2>6, <2>7, FS_Injection
  <2>9. Cardinality(1 .. MaxStored) = MaxStored
    <3>1. Cardinality(1 .. MaxStored) = IF 1 > MaxStored THEN 0 ELSE MaxStored - 1 + 1
      BY <2>1, FS_Interval
    <3> QED
      BY <2>1, <3>1
  <2> QED
    BY <2>8, <2>9 DEF A
<1>10. ASSUME NEW m \in S \ gone, m.to = p, PassedAt(b, j, m)
       PROVE  Held(k, m) \/ MaxStored <= Cardinality(PassedAfterAt(S, p, b, j, m))
  <2>1. Held(e, m) \/ MaxStored <= Cardinality(PassedAfterAt(S, p, b, j, m))
    BY <1>10 DEF Stores
  <2>2. ASSUME NEW x \in 1 .. n, e[x] = Entry(m), ~ x <= d PROVE Held(k, m)
    <3>1. x - d \in 1 .. n - d /\ (x - d) + d = x
      BY <1>2, <2>2
    <3>2. k[x - d] = e[x]
      BY <1>4, <3>1
    <3> QED
      BY <1>3, <2>2, <3>1, <3>2 DEF Held
  <2>3. Held(e, m) => \E x \in 1 .. n : e[x] = Entry(m)
    BY <1>1 DEF Held
  <2> QED
    BY <1>9, <1>10, <2>1, <2>2, <2>3
<1>11. \A m \in gone : m.to = p => PassedAt(b, j, m)
  BY DEF Stores
<1>12. Stores(S, gone, p, b, j, k)
  BY <1>3, <1>7, <1>8, <1>10, <1>11 DEF Stores
<1> QED
  BY <1>3, <1>12

-----------------------------------------------------------------------------
(* Places: the invariant of keys, turns and counts. *)

LEMMA SentAre ==
    ASSUME MessageInv
    PROVE  AreMessages(sent) /\ \A m \in sent : Link(m) <= Position(m.dhPublicKey[1])
<1>1. ASSUME NEW m \in sent
      PROVE  /\ \E key \in PublicKey, l, i \in Nat : m = MessageAt(key, l, i) /\ 0 < TurnOf(key)
             /\ Link(m) <= Position(m.dhPublicKey[1])
  <2>1. PICK key \in PublicKey, l \in Nat, i \in Nat :
           m = MessageAt(key, l, i) /\ 0 < TurnOf(key) /\ TurnOf(key) <= Position(key[1])
    BY DEF MessageInv
  <2>2. m.dhPublicKey = key
    BY <2>1 DEF MessageAt
  <2> QED
    BY <2>1, <2>2 DEF Link
<1> QED
  BY <1>1 DEF AreMessages

\* A message key is used for one message: messages of one chain have one
\* sender, one key pair and one announcement of the chain before.
LEMMA KeysFresh == ASSUME PlaceInv PROVE KeysAreFresh /\ AreFresh(sent)
<1>1. AreMessages(sent)
  BY SentAre DEF PlaceInv
<1>2. ASSUME NEW l \in sent, NEW m \in sent, l.messageKey = m.messageKey PROVE l = m
  <2>1. /\ l.messageKey = <<RootAt(Link(l)), l.messageNumber>> /\ Link(l) \in Nat
        /\ l = MessageAt(l.dhPublicKey, l.previousChainLength, l.messageNumber) /\ l.dhPublicKey \in PublicKey
    BY <1>1, MessageParts
  <2>2. /\ m.messageKey = <<RootAt(Link(m)), m.messageNumber>> /\ Link(m) \in Nat
        /\ m = MessageAt(m.dhPublicKey, m.previousChainLength, m.messageNumber) /\ m.dhPublicKey \in PublicKey
    BY <1>1, MessageParts
  <2>3. RootAt(Link(l)) = RootAt(Link(m)) /\ l.messageNumber = m.messageNumber
    <3>1. l.messageKey[1] = RootAt(Link(l)) /\ l.messageKey[2] = l.messageNumber
      BY <2>1
    <3>2. m.messageKey[1] = RootAt(Link(m)) /\ m.messageKey[2] = m.messageNumber
      BY <2>2
    <3> QED
      BY <1>2, <3>1, <3>2
  <2>4. Link(l) = Link(m)
    BY <2>1, <2>2, <2>3, RootFacts
  <2>5. l.dhPublicKey = m.dhPublicKey
    BY <2>1, <2>2, <2>4, TurnIsOne DEF Link
  <2>6. l.previousChainLength = m.previousChainLength
    BY <2>5 DEF PlaceInv, CountInv
  <2> QED
    BY <2>1, <2>2, <2>3, <2>5, <2>6
<1> QED
  BY <1>2 DEF KeysAreFresh, AreFresh

LEMMA InitPlace == Init => PlaceInv
<1> SUFFICES ASSUME Init PROVE PlaceInv
  OBVIOUS
<1>1. /\ state = [p \in Parties |-> IF p = Alice THEN InitRatchetAsInitiator ELSE InitRatchetAsResponder]
      /\ sent = {} /\ read = {}
  BY DEF Init
<1>2. << >> \in Seq(Skipped) /\ Alice \in Parties /\ Bob \in Parties
  BY EmptySeq DEF Parties
<1>3. state[Alice] = StateAt(<<Alice, 0>>, 0, 0, 0, << >>) /\ state[Bob] = StateAt(<<Bob, 0>>, 0, 0, 0, << >>)
  BY <1>1, <1>2, InitAt, RatchetAssumption
<1>4. IsAt(state[Alice], Alice, 0, 0, 0, 0, << >>) /\ IsAt(state[Bob], Bob, 0, 0, 0, 0, << >>)
  BY <1>3 DEF IsAt
<1>5. KeyInv
  BY <1>2, <1>4 DEF KeyInv, Parties
<1>6. state[Alice].dhSelf = <<Alice, 0>> /\ state[Bob].dhSelf = <<Bob, 0>>
  BY <1>3 DEF StateAt
<1>7. TurnInv
  BY <1>6, RatchetAssumption DEF TurnInv, Position, TurnOf
<1>8. \A p \in Parties : /\ state[p].sendMessageNumber = 0 /\ state[p].previousSendingChainLength = 0
                         /\ state[p].receiveMessageNumber = 0
  BY <1>3 DEF Parties, StateAt
<1>9. SentInv /\ ReceiveInv
  <2>1. \A p \in Parties : Peer(p) \in Parties
    BY PeerFacts
  <2> QED
    BY <1>1, <1>8, <2>1 DEF SentInv, ReceiveInv
<1> QED
  BY <1>1, <1>5, <1>7, <1>9, FS_EmptySet DEF PlaceInv, MessageInv, CountInv

\* What sending does, in terms of places.
LEMMA EncryptIs ==
    ASSUME PlaceInv, NEW p \in Parties, RatchetEncrypt(p)
    PROVE  \E k, i, j, l \in Nat, c \in Seq(Skipped) :
              /\ IsAt(state[p], p, k, i, j, l, c) /\ 0 < TurnOf(<<p, k>>)
              /\ state' = [state EXCEPT ![p] = StateAt(<<p, k>>, i + 1, j, l, c)]
              /\ sent' = sent \cup {MessageAt(<<p, k>>, l, i)} /\ read' = read
<1>1. PICK k \in Nat, i \in Nat, j \in Nat, l \in Nat, c \in Seq(Skipped) : IsAt(state[p], p, k, i, j, l, c)
  BY DEF PlaceInv, KeyInv
<1> DEFINE n == TurnOf(<<p, k>>)
<1>2. /\ state[p].dhSelf = <<p, k>> /\ <<p, k>> \in PublicKey /\ n \in Nat
      /\ state[p].sendMessageNumber = i /\ state[p].previousSendingChainLength = l
      /\ state[p].sendingChainKey = <<RootAt(n), i>> /\ state[p].sendHeaderKey = HeaderAt(n)
  <2>1. <<p, k>> \in PublicKey
    BY <1>1 DEF PublicKey
  <2>2. n \in Nat
    BY <2>1, TurnIsNat
  <2> QED
    BY <1>1, <2>1, <2>2 DEF IsAt, StateAt
<1>3. 0 < n
  <2>1. state[p].sendingChainKey # NoChain
    BY DEF RatchetEncrypt
  <2>2. ~ (n = 0 /\ i = 0)
    BY <1>1, <1>2, <2>1, ChainIsNone
  <2> QED
    BY <1>1, <1>2, <2>2 DEF IsAt
<1>4. state' = [state EXCEPT ![p] = StateAt(<<p, k>>, i + 1, j, l, c)]
  <2>1. state' = [state EXCEPT ![p] = Encrypted(state[p])]
    BY DEF RatchetEncrypt
  <2>2. state[p] = StateAt(<<p, k>>, i, j, l, c)
    BY <1>1 DEF IsAt
  <2>3. Encrypted(state[p]) = StateAt(<<p, k>>, i + 1, j, l, c)
    BY <1>1, <1>2, <2>2, EncryptAt
  <2> QED
    BY <2>1, <2>3
<1>5. sent' = sent \cup {MessageAt(<<p, k>>, l, i)}
  <2>1. sent' = sent \cup
             {[to |-> Peer(p), headerKey |-> HeaderAt(n), dhPublicKey |-> <<p, k>>,
               previousChainLength |-> l, messageNumber |-> i, messageKey |-> <<RootAt(n), i>>]}
    BY <1>2 DEF RatchetEncrypt
  <2> QED
    BY <2>1 DEF MessageAt
<1>6. read' = read
  BY DEF RatchetEncrypt
<1> QED
  BY <1>1, <1>3, <1>4, <1>5, <1>6

LEMMA EncryptPlace == ASSUME PlaceInv, NEW p \in Parties, RatchetEncrypt(p) PROVE PlaceInv'
<1>1. PICK k \in Nat, i \in Nat, j \in Nat, l \in Nat, c \in Seq(Skipped) :
         /\ IsAt(state[p], p, k, i, j, l, c) /\ 0 < TurnOf(<<p, k>>)
         /\ state' = [state EXCEPT ![p] = StateAt(<<p, k>>, i + 1, j, l, c)]
         /\ sent' = sent \cup {MessageAt(<<p, k>>, l, i)} /\ read' = read
  BY EncryptIs
<1>2. PICK n \in Nat : n = TurnOf(<<p, k>>) /\ 0 < n
  BY <1>1, TurnIsNat DEF PublicKey
<1>3. /\ state[p].dhSelf = <<p, k>> /\ <<p, k>> \in PublicKey
      /\ state[p].sendMessageNumber = i /\ state[p].receiveMessageNumber = j
      /\ state[p].previousSendingChainLength = l
  BY <1>1 DEF IsAt, StateAt, PublicKey
<1>4. PICK new : new = MessageAt(<<p, k>>, l, i)
  OBVIOUS
<1>5. /\ new.dhPublicKey = <<p, k>> /\ Link(new) = n /\ new.messageNumber = i
      /\ new.previousChainLength = l /\ sent' = sent \cup {new}
  BY <1>1, <1>2, <1>4 DEF MessageAt, Link
<1>6. IsAt(state'[p], p, k, i + 1, j, l, c) /\ \A q \in Parties : q # p => state'[q] = state[q]
  <2>1. state'[p] = StateAt(<<p, k>>, i + 1, j, l, c)
    BY <1>1 DEF PlaceInv
  <2> QED
    BY <1>1, <1>2, <2>1 DEF IsAt
<1>7. /\ state'[p].dhSelf = <<p, k>> /\ state'[p].sendMessageNumber = i + 1
      /\ state'[p].receiveMessageNumber = j /\ state'[p].previousSendingChainLength = l
  BY <1>6 DEF IsAt, StateAt
<1>8. \A q \in Parties :
         /\ state'[q].dhSelf = state[q].dhSelf /\ Position(q)' = Position(q)
         /\ state'[q].receiveMessageNumber = state[q].receiveMessageNumber
         /\ state'[q].previousSendingChainLength = state[q].previousSendingChainLength
  BY <1>3, <1>6, <1>7 DEF Position
<1>9. Position(p) = n
  BY <1>2, <1>3 DEF Position
<1>10. \A q \in Parties : state[q].dhSelf \in PublicKey /\ state[q].dhSelf[1] = q
  <2>1. SUFFICES ASSUME NEW q \in Parties PROVE state[q].dhSelf \in PublicKey /\ state[q].dhSelf[1] = q
    OBVIOUS
  <2>2. PICK k2 \in Nat, i2 \in Nat, j2 \in Nat, l2 \in Nat, c2 \in Seq(Skipped) :
           IsAt(state[q], q, k2, i2, j2, l2, c2)
    BY DEF PlaceInv, KeyInv
  <2> QED
    BY <2>2 DEF IsAt, StateAt, PublicKey
<1>11. AreMessages(sent) /\ \A m \in sent : Link(m) <= Position(m.dhPublicKey[1])
  BY SentAre DEF PlaceInv
<1>12. KeyInv'
  <2>1. i + 1 \in Nat
    OBVIOUS
  <2>2. ASSUME NEW q \in Parties
        PROVE  \E k2, i2, j2, l2 \in Nat, c2 \in Seq(Skipped) : IsAt(state'[q], q, k2, i2, j2, l2, c2)
    <3>1. CASE q = p
      BY <1>1, <1>6, <2>1, <3>1
    <3>2. CASE q # p
      BY <1>6, <3>2 DEF PlaceInv, KeyInv
    <3> QED
      BY <3>1, <3>2
  <2> QED
    BY <2>2 DEF KeyInv
<1>13. TurnInv'
  BY <1>8 DEF PlaceInv, TurnInv, Parties
<1>14. MessageInv'
  <2>1. ASSUME NEW m \in sent'
        PROVE  \E key \in PublicKey, l2, i2 \in Nat :
                  m = MessageAt(key, l2, i2) /\ 0 < TurnOf(key) /\ TurnOf(key) <= Position(key[1])'
    <3>1. CASE m = new
      <4>1. n <= Position(p)'
        BY <1>2, <1>8, <1>9
      <4>2. <<p, k>>[1] = p
        OBVIOUS
      <4> QED
        BY <1>2, <1>3, <1>4, <3>1, <4>1, <4>2
    <3>2. CASE m \in sent
      <4>1. PICK key \in PublicKey, l2 \in Nat, i2 \in Nat :
               m = MessageAt(key, l2, i2) /\ 0 < TurnOf(key) /\ TurnOf(key) <= Position(key[1])
        BY <3>2 DEF PlaceInv, MessageInv
      <4>2. key[1] \in Parties
        BY <4>1 DEF PublicKey
      <4> QED
        BY <1>8, <4>1, <4>2
    <3> QED
      BY <1>5, <3>1, <3>2
  <2> QED
    BY <2>1 DEF MessageInv
\* No message is older than one that was announced before it.
<1>15. ASSUME NEW q \in Parties, Link(new) + 2 = Position(q) PROVE FALSE
  <2>1. Link(new) = TurnOf(<<p, k>>) /\ Position(q) = TurnOf(state[q].dhSelf)
    BY <1>2, <1>5 DEF Position
  <2>2. q = p
    BY <1>3, <1>10, <1>15, <2>1, TurnAlternates
  <2> QED
    BY <1>2, <1>5, <1>9, <1>15, <2>2
<1>16. ASSUME NEW m \in sent, Link(new) + 2 = Link(m) PROVE FALSE
  <2>1. m.dhPublicKey \in PublicKey /\ Link(m) \in Nat
    BY <1>11, MessageParts
  <2>2. m.dhPublicKey[1] = p
    <3>1. TurnOf(<<p, k>>) + 2 = TurnOf(m.dhPublicKey)
      BY <1>2, <1>5, <1>16 DEF Link
    <3> QED
      BY <1>3, <2>1, <3>1, TurnAlternates
  <2>3. Link(m) <= n
    BY <1>9, <1>11, <2>2
  <2> QED
    BY <1>2, <1>5, <1>16, <2>1, <2>3
<1>17. /\ \A m \in sent : m.dhPublicKey = <<p, k>> => m.messageNumber < i /\ m.previousChainLength = l
       /\ \A x \in Nat : x < i => \E m \in sent : m.dhPublicKey = <<p, k>> /\ m.messageNumber = x
       /\ \A m \in sent : Link(m) + 2 = n => m.messageNumber < l
       /\ \A x \in Nat : x < l => \E m \in sent : Link(m) + 2 = n /\ m.messageNumber = x
  BY <1>3, <1>9 DEF PlaceInv, SentInv
<1>18. SentInv'
  <2>1. ASSUME NEW q \in Parties
        PROVE  /\ \A m \in sent' : m.dhPublicKey = state'[q].dhSelf =>
                     /\ m.messageNumber < state'[q].sendMessageNumber
                     /\ m.previousChainLength = state'[q].previousSendingChainLength
               /\ \A x \in Nat : x < state'[q].sendMessageNumber =>
                     \E m \in sent' : m.dhPublicKey = state'[q].dhSelf /\ m.messageNumber = x
    <3>1. CASE q = p
      <4>1. ASSUME NEW m \in sent', m.dhPublicKey = <<p, k>>
            PROVE  m.messageNumber < i + 1 /\ m.previousChainLength = l
        <5>1. CASE m = new
          BY <1>5, <5>1
        <5>2. CASE m \in sent
          <6>1. m.messageNumber < i /\ m.previousChainLength = l /\ m.messageNumber \in Nat
            BY <1>11, <1>17, <4>1, <5>2, MessageParts
          <6> QED
            BY <6>1
        <5> QED
          BY <1>5, <5>1, <5>2
      <4>2. ASSUME NEW x \in Nat, x < i + 1
            PROVE  \E m \in sent' : m.dhPublicKey = <<p, k>> /\ m.messageNumber = x
        <5>1. x < i \/ x = i
          BY <1>1, <4>2
        <5> QED
          BY <1>5, <1>17, <5>1
      <4> QED
        BY <1>7, <3>1, <4>1, <4>2
    <3>2. CASE q # p
      <4>1. state[q].dhSelf # <<p, k>>
        BY <1>10, <3>2
      <4>2. state'[q] = state[q]
        BY <1>6, <3>2
      <4> QED
        BY <1>5, <4>1, <4>2 DEF PlaceInv, SentInv
    <3> QED
      BY <3>1, <3>2
  <2>2. ASSUME NEW q \in Parties
        PROVE  /\ \A m \in sent' : Link(m) + 2 = Position(q)' =>
                     m.messageNumber < state'[q].previousSendingChainLength
               /\ \A x \in Nat : x < state'[q].previousSendingChainLength =>
                     \E m \in sent' : Link(m) + 2 = Position(q)' /\ m.messageNumber = x
    BY <1>5, <1>8, <1>15 DEF PlaceInv, SentInv
  <2> QED
    BY <2>1, <2>2 DEF SentInv
<1>19. CountInv'
  <2>1. ASSUME NEW a \in sent', NEW b \in sent', a.dhPublicKey = b.dhPublicKey
        PROVE  a.previousChainLength = b.previousChainLength
    BY <1>5, <1>17, <2>1 DEF PlaceInv, CountInv
  <2>2. ASSUME NEW b \in sent', NEW x \in Nat, x < b.messageNumber
        PROVE  \E a \in sent' : a.dhPublicKey = b.dhPublicKey /\ a.messageNumber = x
    <3>1. CASE b = new
      BY <1>5, <1>17, <2>2, <3>1
    <3>2. CASE b \in sent
      <4>1. \E a \in sent : a.dhPublicKey = b.dhPublicKey /\ a.messageNumber = x
        BY <2>2, <3>2 DEF PlaceInv, CountInv
      <4> QED
        BY <1>5, <4>1
    <3> QED
      BY <1>5, <3>1, <3>2
  <2>3. ASSUME NEW a \in sent', NEW b \in sent', Link(a) + 2 = Link(b)
        PROVE  a.messageNumber < b.previousChainLength
    <3>1. CASE a = new
      BY <1>2, <1>5, <1>16, <2>3, <3>1
    <3>2. CASE a \in sent
      BY <1>5, <1>17, <2>3, <3>2 DEF PlaceInv, CountInv
    <3> QED
      BY <1>5, <3>1, <3>2
  <2>4. ASSUME NEW b \in sent', NEW x \in Nat, x < b.previousChainLength
        PROVE  \E a \in sent' : Link(a) + 2 = Link(b) /\ a.messageNumber = x
    BY <1>5, <1>17, <2>4 DEF PlaceInv, CountInv
  <2> QED
    BY <2>1, <2>2, <2>3, <2>4 DEF CountInv
<1>20. ReceiveInv'
  <2>1. ASSUME NEW q \in Parties, Position(Peer(q))' = Position(q)' + 1
        PROVE  state'[Peer(q)].receiveMessageNumber <= state'[q].sendMessageNumber
    <3>1. Peer(q) \in Parties
      BY PeerFacts
    <3>2. state[Peer(q)].receiveMessageNumber <= state[q].sendMessageNumber
      BY <1>8, <2>1, <3>1 DEF PlaceInv, ReceiveInv
    <3>3. PICK r : r = state[Peer(q)].receiveMessageNumber /\ r = state'[Peer(q)].receiveMessageNumber /\ r \in Nat
      <4>1. PICK k2 \in Nat, i2 \in Nat, j2 \in Nat, l2 \in Nat, c2 \in Seq(Skipped) :
               IsAt(state[Peer(q)], Peer(q), k2, i2, j2, l2, c2)
        BY <3>1 DEF PlaceInv, KeyInv
      <4>2. state[Peer(q)].receiveMessageNumber \in Nat
        BY <4>1 DEF IsAt, StateAt
      <4> QED
        BY <1>8, <3>1, <4>2
    <3>4. CASE q = p
      BY <1>1, <1>3, <1>7, <3>2, <3>3, <3>4
    <3>5. CASE q # p
      BY <1>6, <3>2, <3>3, <3>5
    <3> QED
      BY <3>4, <3>5
  <2> QED
    BY <2>1 DEF ReceiveInv
<1>21. IsFiniteSet(sent') /\ state' = [q \in Parties |-> state'[q]] /\ read' \subseteq sent'
  BY <1>1, FS_AddElement DEF PlaceInv
<1> QED
  BY <1>12, <1>13, <1>14, <1>18, <1>19, <1>20, <1>21 DEF PlaceInv

\* What receiving does, in terms of places: nothing, the key of a straggler
\* taken from the cache, a message of this chain read, or one of the next.
Unread(p, k, i, j, l, c, m, s) == s = StateAt(<<p, k>>, i, j, l, c)
Taken(p, k, i, j, l, c, m, s) ==
    \E x \in DOMAIN c : /\ c[x].headerKey = m.headerKey /\ c[x].messageNumber = m.messageNumber
                        /\ s = StateAt(<<p, k>>, i, j, l, RemoveAt(c, x))
ReadHere(p, k, i, j, l, c, m, s) ==
    /\ Link(m) = Prior(TurnOf(<<p, k>>)) /\ j <= m.messageNumber
    /\ s = StateAt(<<p, k>>, i, m.messageNumber + 1, l, SkippedTo(c, Link(m), j, m.messageNumber))
ReadNext(p, k, i, j, l, c, m, s) ==
    /\ Link(m) = TurnOf(<<p, k>>) + 1
    /\ s = StateAt(<<p, k + 1>>, 0, m.messageNumber + 1, i,
                   SkippedTo(SkippedTo(c, Prior(TurnOf(<<p, k>>)), j, m.previousChainLength),
                             Link(m), 0, m.messageNumber))

LEMMA DecryptIs ==
    ASSUME AreMessages(sent), NEW m \in sent, NEW intact \in BOOLEAN, NEW s,
           NEW k \in Nat, NEW i \in Nat, NEW j \in Nat, NEW l \in Nat, NEW c \in Seq(Skipped),
           IsAt(s, m.to, k, i, j, l, c)
    PROVE  LET t == AfterDecrypt(s, m, intact)
           IN  /\ ~ Opens(s, m, intact) => Unread(m.to, k, i, j, l, c, m, t)
               /\ Opens(s, m, intact) =>
                     \/ Taken(m.to, k, i, j, l, c, m, t)
                     \/ ReadHere(m.to, k, i, j, l, c, m, t)
                     \/ ReadNext(m.to, k, i, j, l, c, m, t)
<1> DEFINE t == AfterDecrypt(s, m, intact)
           b == Prior(TurnOf(<<m.to, k>>))
<1>1. s = StateAt(<<m.to, k>>, i, j, l, c) /\ (TurnOf(<<m.to, k>>) < 2 => j = 0) /\ s.skippedMessageKeys = c
  BY DEF IsAt, StateAt
<1>2. PICK key \in PublicKey, l2 \in Nat, i2 \in Nat :
         /\ m = MessageAt(key, l2, i2) /\ 0 < TurnOf(key)
         /\ Link(m) = TurnOf(key) /\ m.messageNumber = i2 /\ m.previousChainLength = l2
         /\ m.messageKey = <<RootAt(TurnOf(key)), i2>>
  BY DEF AreMessages, MessageAt, Link
<1>3. m.to \in Parties /\ <<m.to, k>> \in PublicKey
  <2>1. m.to \in Parties
    BY MessageParts
  <2> QED
    BY <2>1 DEF PublicKey
<1>4. TurnOf(key) \in Nat /\ b \in Nat
  <2>1. TurnOf(<<m.to, k>>) \in Nat
    BY <1>3, TurnIsNat
  <2> QED
    BY <1>2, <2>1, TurnIsNat DEF Prior
<1>5. CASE ~ Opens(s, m, intact)
  BY <1>1, <1>5 DEF Opens, AfterDecrypt, Unread
<1>6. CASE OpensWithSkipped(s, m, intact)
  <2>1. t = WithoutSkipped(s, m)
    BY <1>6 DEF AfterDecrypt, OpensOnChain, OpensWithSkipped
  <2>2. PICK x : x = CHOOSE y \in SkippedAt(s, m) : TRUE
    OBVIOUS
  <2>3. x \in SkippedAt(s, m)
    BY <1>6, <2>2 DEF OpensWithSkipped
  <2>4. x \in DOMAIN c /\ c[x].headerKey = m.headerKey /\ c[x].messageNumber = m.messageNumber
    BY <1>1, <2>3 DEF SkippedAt
  <2>5. t = [s EXCEPT !.skippedMessageKeys = RemoveAt(c, x)]
    BY <1>1, <2>1, <2>2 DEF WithoutSkipped
  <2>6. t = StateAt(<<m.to, k>>, i, j, l, RemoveAt(c, x))
    <3>1. PICK r : r = RemoveAt(c, x)
      OBVIOUS
    <3>2. t = [s EXCEPT !.skippedMessageKeys = r]
      BY <2>5, <3>1
    <3> HIDE DEF t, b
    <3>3. t = StateAt(<<m.to, k>>, i, j, l, r)
      BY <1>1, <3>2 DEF StateAt
    <3> QED
      BY <3>1, <3>3
  <2> QED
    BY <1>6, <2>4, <2>6 DEF Taken, Opens
<1>7. CASE OpensOnChain(s, m, intact)
  <2>1. t = Advanced(s, m) /\ Trial(s, m).receivingChainKey = m.messageKey
    BY <1>7 DEF AfterDecrypt, OpensOnChain, OpensWithSkipped
  <2>2. CASE TurnOf(key) = b
    <3>1. /\ Trial(s, m).receivingChainKey = <<RootAt(TurnOf(key)), Reached(TurnOf(key), j, i2)>>
          /\ j <= i2 => Advanced(s, m) =
                StateAt(<<m.to, k>>, i, i2 + 1, l, SkippedTo(c, TurnOf(key), j, i2))
      <4>1. TurnOf(key) # 0 /\ TurnOf(key) = Prior(TurnOf(<<m.to, k>>))
        BY <1>2, <1>4, <2>2
      <4>2. PICK own \in PublicKey : own = <<m.to, k>>
        BY <1>3
      <4>3. TurnOf(key) = Prior(TurnOf(own)) /\ s = StateAt(own, i, j, l, c)
        BY <1>1, <4>1, <4>2
      <4> HIDE DEF b, t
      <4>4. /\ Trial(StateAt(own, i, j, l, c), MessageAt(key, l2, i2)).receivingChainKey =
                   <<RootAt(TurnOf(key)), Reached(TurnOf(key), j, i2)>>
            /\ j <= i2 => Advanced(StateAt(own, i, j, l, c), MessageAt(key, l2, i2)) =
                  StateAt(own, i, i2 + 1, l, SkippedTo(c, TurnOf(key), j, i2))
        <5>1. key \in PublicKey /\ l2 \in Nat /\ i2 \in Nat
          BY <1>2
        <5>2. TurnOf(key) # 0 /\ TurnOf(key) = Prior(TurnOf(own)) /\ own \in PublicKey
          BY <4>1, <4>2, <4>3
        <5>3. Trial(StateAt(own, i, j, l, c), MessageAt(key, l2, i2)).receivingChainKey =
                   <<RootAt(TurnOf(key)), Reached(TurnOf(key), j, i2)>>
          BY <5>1, <5>2, OpenSame
        <5>4. ASSUME j <= i2
              PROVE  Advanced(StateAt(own, i, j, l, c), MessageAt(key, l2, i2)) =
                        StateAt(own, i, i2 + 1, l, SkippedTo(c, TurnOf(key), j, i2))
          BY <5>1, <5>2, <5>4, OpenSame
        <5> QED
          BY <5>3, <5>4
      <4> QED
        BY <1>2, <4>2, <4>3, <4>4
    <3>2. Reached(TurnOf(key), j, i2) = i2
      <4>1. m.messageKey[2] = i2
        BY <1>2
      <4>2. Trial(s, m).receivingChainKey[2] = Reached(TurnOf(key), j, i2)
        BY <3>1
      <4> QED
        BY <2>1, <4>1, <4>2
    <3>3. j <= i2
      BY <1>2, <3>2 DEF Reached, Skips
    <3>4. t = StateAt(<<m.to, k>>, i, i2 + 1, l, SkippedTo(c, TurnOf(key), j, i2))
      BY <2>1, <3>1, <3>3
    <3> QED
      BY <1>2, <1>7, <2>2, <3>3, <3>4 DEF ReadHere, Opens
  <2>3. CASE TurnOf(key) = TurnOf(<<m.to, k>>) + 1
    <3>1. Advanced(s, m) = NextAt(<<m.to, k>>, i, j, c, l2, i2)
      <4>1. PICK own \in PublicKey : own = <<m.to, k>>
        BY <1>3
      <4>2. /\ key \in PublicKey /\ l2 \in Nat /\ i2 \in Nat /\ TurnOf(key) = TurnOf(own) + 1
            /\ own \in PublicKey /\ (TurnOf(own) < 2 => j = 0)
        BY <1>1, <1>2, <2>3, <4>1
      <4>3. s = StateAt(own, i, j, l, c) /\ m = MessageAt(key, l2, i2) /\ b = Prior(TurnOf(own))
        BY <1>1, <1>2, <4>1
      <4> HIDE DEF b, t
      <4>4. Advanced(StateAt(own, i, j, l, c), MessageAt(key, l2, i2)) = NextAt(own, i, j, c, l2, i2)
        BY <4>2, AdvanceNext
      <4> QED
        BY <4>1, <4>3, <4>4
    <3>2. (<<m.to, k>>)[1] = m.to /\ (<<m.to, k>>)[2] = k
      OBVIOUS
    <3>3. t = StateAt(<<m.to, k + 1>>, 0, i2 + 1, i,
                      SkippedTo(SkippedTo(c, b, j, l2), TurnOf(key), 0, i2))
      BY <2>1, <2>3, <3>1, <3>2 DEF NextAt
    <3> QED
      BY <1>2, <1>7, <2>3, <3>3 DEF ReadNext, Opens
  <2>4. CASE TurnOf(key) # b /\ TurnOf(key) # TurnOf(<<m.to, k>>) + 1
    <3>1. ~ SameChain(s, m) /\ ~ NextChain(s, m)
      BY <1>1, <1>2, <1>3, <2>4, OpenOther
    <3> QED
      BY <1>7, <3>1 DEF OpensOnChain
  <2> QED
    BY <2>2, <2>3, <2>4
<1> QED
  BY <1>5, <1>6, <1>7 DEF Opens

LEMMA KeysArePublic ==
    ASSUME KeyInv, NEW q \in Parties
    PROVE  /\ state[q].dhSelf \in PublicKey /\ state[q].dhSelf[1] = q /\ Position(q) \in Nat
           /\ state[q].sendMessageNumber \in Nat /\ state[q].receiveMessageNumber \in Nat
           /\ state[q].previousSendingChainLength \in Nat /\ state[q].skippedMessageKeys \in Seq(Skipped)
<1>1. PICK k \in Nat, i \in Nat, j \in Nat, l \in Nat, c \in Seq(Skipped) : IsAt(state[q], q, k, i, j, l, c)
  BY DEF KeyInv
<1>2. /\ state[q].dhSelf = <<q, k>> /\ state[q].sendMessageNumber = i /\ state[q].receiveMessageNumber = j
      /\ state[q].previousSendingChainLength = l /\ state[q].skippedMessageKeys = c
  BY <1>1 DEF IsAt, StateAt
<1>3. <<q, k>> \in PublicKey
  BY <1>1 DEF PublicKey
<1>4. TurnOf(<<q, k>>) \in Nat
  BY <1>3, TurnIsNat
<1> QED
  BY <1>1, <1>2, <1>3, <1>4 DEF Position

\* A message of the chain that its sender is on was sent under its key.
LEMMA SentOnChain ==
    ASSUME PlaceInv, NEW m \in sent, NEW q \in Parties, Link(m) = Position(q)
    PROVE  m.dhPublicKey = state[q].dhSelf /\ m.messageNumber < state[q].sendMessageNumber
<1>1. m.dhPublicKey \in PublicKey
  BY SentAre, MessageParts DEF PlaceInv
<1>2. state[q].dhSelf \in PublicKey
  BY KeysArePublic DEF PlaceInv
<1>3. m.dhPublicKey = state[q].dhSelf
  BY <1>1, <1>2, TurnIsOne DEF Link, Position
<1> QED
  BY <1>3 DEF PlaceInv, SentInv

\* The receiver moves along its chain.
LEMMA StayPlace ==
    ASSUME PlaceInv, NEW p \in Parties, NEW k \in Nat, NEW i \in Nat, NEW j \in Nat, NEW l \in Nat,
           NEW c \in Seq(Skipped), IsAt(state[p], p, k, i, j, l, c),
           NEW j2 \in Nat, NEW c2 \in Seq(Skipped), TurnOf(<<p, k>>) < 2 => j2 = 0,
           Position(p) = Position(Peer(p)) + 1 => j2 <= state[Peer(p)].sendMessageNumber,
           state' = [state EXCEPT ![p] = StateAt(<<p, k>>, i, j2, l, c2)],
           sent' = sent, read' \subseteq sent'
    PROVE  PlaceInv'
<1>1. /\ state[p].dhSelf = <<p, k>> /\ state[p].sendMessageNumber = i
      /\ state[p].previousSendingChainLength = l /\ state[p].receiveMessageNumber = j
  BY DEF IsAt, StateAt
<1>2. state'[p] = StateAt(<<p, k>>, i, j2, l, c2) /\ \A q \in Parties : q # p => state'[q] = state[q]
  BY DEF PlaceInv
<1>3. /\ state'[p].dhSelf = <<p, k>> /\ state'[p].sendMessageNumber = i
      /\ state'[p].previousSendingChainLength = l /\ state'[p].receiveMessageNumber = j2
  BY <1>2 DEF StateAt
<1>4. \A q \in Parties :
         /\ state'[q].dhSelf = state[q].dhSelf /\ Position(q)' = Position(q)
         /\ state'[q].sendMessageNumber = state[q].sendMessageNumber
         /\ state'[q].previousSendingChainLength = state[q].previousSendingChainLength
  BY <1>1, <1>2, <1>3 DEF Position
<1>5. KeyInv'
  <2>1. ASSUME NEW q \in Parties
        PROVE  \E k2, i2, j3, l2 \in Nat, c3 \in Seq(Skipped) : IsAt(state'[q], q, k2, i2, j3, l2, c3)
    <3>1. CASE q = p
      <4>1. IsAt(state'[p], p, k, i, j2, l, c2)
        BY <1>2 DEF IsAt
      <4> QED
        BY <3>1, <4>1
    <3>2. CASE q # p
      BY <1>2, <3>2 DEF PlaceInv, KeyInv
    <3> QED
      BY <3>1, <3>2
  <2> QED
    BY <2>1 DEF KeyInv
<1>6. TurnInv'
  BY <1>4 DEF PlaceInv, TurnInv, Parties
<1>7. MessageInv'
  <2>1. ASSUME NEW m \in sent'
        PROVE  \E key \in PublicKey, l2, i2 \in Nat :
                  m = MessageAt(key, l2, i2) /\ 0 < TurnOf(key) /\ TurnOf(key) <= Position(key[1])'
    <3>1. PICK key \in PublicKey, l2 \in Nat, i2 \in Nat :
             m = MessageAt(key, l2, i2) /\ 0 < TurnOf(key) /\ TurnOf(key) <= Position(key[1])
      BY DEF PlaceInv, MessageInv
    <3>2. key[1] \in Parties
      BY <3>1 DEF PublicKey
    <3> QED
      BY <1>4, <3>1, <3>2
  <2> QED
    BY <2>1 DEF MessageInv
<1>8. SentInv'
  <2>1. ASSUME NEW q \in Parties
        PROVE  /\ \A x \in sent : x.dhPublicKey = state'[q].dhSelf =>
                     /\ x.messageNumber < state'[q].sendMessageNumber
                     /\ x.previousChainLength = state'[q].previousSendingChainLength
               /\ \A y \in Nat : y < state'[q].sendMessageNumber =>
                     \E x \in sent : x.dhPublicKey = state'[q].dhSelf /\ x.messageNumber = y
               /\ \A x \in sent : Link(x) + 2 = Position(q)' =>
                     x.messageNumber < state'[q].previousSendingChainLength
               /\ \A y \in Nat : y < state'[q].previousSendingChainLength =>
                     \E x \in sent : Link(x) + 2 = Position(q)' /\ x.messageNumber = y
    <3>1. /\ \A x \in sent : x.dhPublicKey = state[q].dhSelf =>
                /\ x.messageNumber < state[q].sendMessageNumber
                /\ x.previousChainLength = state[q].previousSendingChainLength
          /\ \A y \in Nat : y < state[q].sendMessageNumber =>
                \E x \in sent : x.dhPublicKey = state[q].dhSelf /\ x.messageNumber = y
          /\ \A x \in sent : Link(x) + 2 = Position(q) =>
                x.messageNumber < state[q].previousSendingChainLength
          /\ \A y \in Nat : y < state[q].previousSendingChainLength =>
                \E x \in sent : Link(x) + 2 = Position(q) /\ x.messageNumber = y
      BY DEF PlaceInv, SentInv
    <3>2. /\ state'[q].dhSelf = state[q].dhSelf /\ Position(q)' = Position(q)
          /\ state'[q].sendMessageNumber = state[q].sendMessageNumber
          /\ state'[q].previousSendingChainLength = state[q].previousSendingChainLength
      BY <1>4
    <3>3. /\ \A x \in sent : x.dhPublicKey = state'[q].dhSelf =>
                /\ x.messageNumber < state'[q].sendMessageNumber
                /\ x.previousChainLength = state'[q].previousSendingChainLength
          /\ \A x \in sent : Link(x) + 2 = Position(q)' =>
                x.messageNumber < state'[q].previousSendingChainLength
      BY <3>1, <3>2
    <3>4. \A y \in Nat : y < state'[q].sendMessageNumber =>
                \E x \in sent : x.dhPublicKey = state'[q].dhSelf /\ x.messageNumber = y
      BY <3>1, <3>2
    <3>5. \A y \in Nat : y < state'[q].previousSendingChainLength =>
                \E x \in sent : Link(x) + 2 = Position(q)' /\ x.messageNumber = y
      BY <3>1, <3>2
    <3> QED
      BY <3>3, <3>4, <3>5
  <2> QED
    BY <2>1 DEF SentInv, Link
<1>9. CountInv'
  <2>1. CountInv /\ sent' = sent
    BY DEF PlaceInv
  <2> QED
    BY <2>1 DEF CountInv, Link
<1>10. ReceiveInv'
  <2>1. ASSUME NEW q \in Parties, Position(Peer(q))' = Position(q)' + 1
        PROVE  state'[Peer(q)].receiveMessageNumber <= state'[q].sendMessageNumber
    <3>1. Peer(q) \in Parties /\ Peer(Peer(q)) = q
      BY PeerFacts
    <3>2. Position(Peer(q)) = Position(q) + 1
      BY <1>4, <2>1, <3>1
    <3>3. CASE Peer(q) = p
      <4>1. j2 <= state[q].sendMessageNumber
        BY <3>1, <3>2, <3>3
      <4> QED
        BY <1>3, <1>4, <3>3, <4>1
    <3>4. CASE Peer(q) # p
      <4>1. state'[Peer(q)] = state[Peer(q)]
        BY <1>2, <3>1, <3>4
      <4>2. state[Peer(q)].receiveMessageNumber <= state[q].sendMessageNumber
        BY <3>2 DEF PlaceInv, ReceiveInv
      <4> QED
        BY <1>4, <4>1, <4>2
    <3> QED
      BY <3>3, <3>4
  <2> QED
    BY <2>1 DEF ReceiveInv
<1>11. IsFiniteSet(sent') /\ state' = [q \in Parties |-> state'[q]]
  BY DEF PlaceInv
<1> QED
  BY <1>5, <1>6, <1>7, <1>8, <1>9, <1>10, <1>11 DEF PlaceInv

\* The receiver steps to the chain of the message, and its own next.
LEMMA StepPlace ==
    ASSUME PlaceInv, NEW p \in Parties, NEW k \in Nat, NEW i \in Nat, NEW j \in Nat, NEW l \in Nat,
           NEW c \in Seq(Skipped), IsAt(state[p], p, k, i, j, l, c),
           NEW m \in sent, m.to = p, Link(m) = TurnOf(<<p, k>>) + 1,
           NEW j2 \in Nat, NEW c2 \in Seq(Skipped), j2 = m.messageNumber + 1,
           state' = [state EXCEPT ![p] = StateAt(<<p, k + 1>>, 0, j2, i, c2)],
           sent' = sent, read' \subseteq sent'
    PROVE  PlaceInv'
<1>1. /\ state[p].dhSelf = <<p, k>> /\ state[p].sendMessageNumber = i
  BY DEF IsAt, StateAt
<1>2. state'[p] = StateAt(<<p, k + 1>>, 0, j2, i, c2) /\ \A q \in Parties : q # p => state'[q] = state[q]
  BY DEF PlaceInv
<1>3. /\ state'[p].dhSelf = <<p, k + 1>> /\ state'[p].sendMessageNumber = 0
      /\ state'[p].previousSendingChainLength = i /\ state'[p].receiveMessageNumber = j2
  BY <1>2 DEF StateAt
<1>4. PICK n \in Nat : n = TurnOf(<<p, k>>) /\ TurnOf(<<p, k + 1>>) = n + 2
  BY TurnSteps, TurnIsNat
<1>5. <<p, k>> \in PublicKey /\ <<p, k + 1>> \in PublicKey
  BY TurnSteps
<1>6. Position(p) = n /\ Position(p)' = n + 2
  BY <1>1, <1>3, <1>4 DEF Position
<1>7. Peer(p) \in Parties /\ Peer(p) # p /\ Peer(Peer(p)) = p /\ \A q \in Parties : q = p \/ q = Peer(p)
  BY PeerFacts
<1>8. state'[Peer(p)] = state[Peer(p)] /\ Position(Peer(p))' = Position(Peer(p))
  BY <1>2, <1>7 DEF Position
<1>9. AreMessages(sent) /\ \A x \in sent : Link(x) <= Position(x.dhPublicKey[1])
  BY SentAre DEF PlaceInv
<1>10. \A x \in sent : /\ Link(x) \in Nat /\ x.messageNumber \in Nat /\ x.dhPublicKey \in PublicKey
                       /\ x.dhPublicKey[1] \in Parties
  BY <1>9, MessageParts DEF PublicKey
<1>11. Position(Peer(p)) = n + 1
  <2>1. Link(m) = n + 1 /\ m.dhPublicKey[1] = Peer(p)
    BY <1>4, <1>9, MessageParts
  <2>2. n + 1 <= Position(Peer(p))
    BY <1>9, <2>1
  <2>3. Position(Peer(p)) \in Nat
    BY <1>7, KeysArePublic DEF PlaceInv
  <2>4. Position(p) = Position(Peer(p)) + 1 \/ Position(Peer(p)) = Position(p) + 1
    BY <1>7 DEF PlaceInv, TurnInv, Parties
  <2> QED
    BY <1>6, <2>2, <2>3, <2>4
<1>12. m.messageNumber < state[Peer(p)].sendMessageNumber
  BY <1>4, <1>7, <1>11, SentOnChain
<1>13. KeyInv'
  <2>1. ASSUME NEW q \in Parties
        PROVE  \E k2, i2, j3, l2 \in Nat, c3 \in Seq(Skipped) : IsAt(state'[q], q, k2, i2, j3, l2, c3)
    <3>1. CASE q = p
      <4>1. IsAt(state'[p], p, k + 1, 0, j2, i, c2)
        BY <1>2, <1>4 DEF IsAt
      <4>2. k + 1 \in Nat /\ 0 \in Nat
        OBVIOUS
      <4> QED
        BY <3>1, <4>1, <4>2
    <3>2. CASE q # p
      BY <1>2, <3>2 DEF PlaceInv, KeyInv
    <3> QED
      BY <3>1, <3>2
  <2> QED
    BY <2>1 DEF KeyInv
<1>14. TurnInv'
  <2>1. Position(p)' = Position(Peer(p))' + 1
    BY <1>6, <1>8, <1>11
  <2>2. (p = Alice /\ Peer(p) = Bob) \/ (p = Bob /\ Peer(p) = Alice)
    BY RatchetAssumption DEF Parties, Peer
  <2> QED
    BY <2>1, <2>2 DEF TurnInv
<1>15. MessageInv'
  <2>1. ASSUME NEW x \in sent'
        PROVE  \E key \in PublicKey, l2, i2 \in Nat :
                  x = MessageAt(key, l2, i2) /\ 0 < TurnOf(key) /\ TurnOf(key) <= Position(key[1])'
    <3>1. PICK key \in PublicKey, l2 \in Nat, i2 \in Nat :
             x = MessageAt(key, l2, i2) /\ 0 < TurnOf(key) /\ TurnOf(key) <= Position(key[1])
      BY DEF PlaceInv, MessageInv
    <3>2. key[1] \in Parties /\ TurnOf(key) \in Nat
      BY <3>1, TurnIsNat DEF PublicKey
    <3>3. TurnOf(key) <= Position(key[1])'
      <4>1. CASE key[1] = p
        BY <1>6, <3>1, <3>2, <4>1
      <4>2. CASE key[1] # p
        BY <1>7, <1>8, <3>1, <3>2, <4>2
      <4> QED
        BY <4>1, <4>2
    <3> QED
      BY <3>1, <3>3
  <2> QED
    BY <2>1 DEF MessageInv
\* Nothing was sent on the new chain yet; what was sent on the last one counts.
<1>16. ASSUME NEW x \in sent PROVE x.dhPublicKey # <<p, k + 1>>
  <2>1. SUFFICES ASSUME x.dhPublicKey = <<p, k + 1>> PROVE FALSE
    OBVIOUS
  <2>2. Link(x) = n + 2 /\ x.dhPublicKey[1] = p
    BY <1>4, <2>1 DEF Link
  <2>3. n + 2 <= n
    BY <1>6, <1>9, <2>2
  <2> QED
    BY <2>3
<1>17. ASSUME NEW x \in sent PROVE Link(x) + 2 = n + 2 <=> x.dhPublicKey = <<p, k>>
  <2>1. x.dhPublicKey = <<p, k>> => Link(x) = n
    BY <1>4 DEF Link
  <2>2. Link(x) = n => x.dhPublicKey = <<p, k>>
    BY <1>4, <1>5, <1>10, TurnIsOne DEF Link
  <2> QED
    BY <1>10, <2>1, <2>2
<1>18. SentInv'
  <2>1. ASSUME NEW q \in Parties
        PROVE  /\ \A x \in sent : x.dhPublicKey = state'[q].dhSelf =>
                     /\ x.messageNumber < state'[q].sendMessageNumber
                     /\ x.previousChainLength = state'[q].previousSendingChainLength
               /\ \A y \in Nat : y < state'[q].sendMessageNumber =>
                     \E x \in sent : x.dhPublicKey = state'[q].dhSelf /\ x.messageNumber = y
               /\ \A x \in sent : Link(x) + 2 = Position(q)' =>
                     x.messageNumber < state'[q].previousSendingChainLength
               /\ \A y \in Nat : y < state'[q].previousSendingChainLength =>
                     \E x \in sent : Link(x) + 2 = Position(q)' /\ x.messageNumber = y
    <3>1. CASE q = p
      <4>1. \A x \in sent : x.dhPublicKey = <<p, k>> => x.messageNumber < i
        BY <1>1 DEF PlaceInv, SentInv
      <4>2. \A y \in Nat : y < i => \E x \in sent : x.dhPublicKey = <<p, k>> /\ x.messageNumber = y
        BY <1>1 DEF PlaceInv, SentInv
      <4>3. \A x \in sent : Link(x) + 2 = Position(p)' => x.messageNumber < i
        BY <1>6, <1>17, <4>1
      <4>4. \A y \in Nat : y < i => \E x \in sent : Link(x) + 2 = Position(p)' /\ x.messageNumber = y
        BY <1>6, <1>17, <4>2
      <4>5. \A y \in Nat : ~ y < 0
        OBVIOUS
      <4>6. \A x \in sent : x.dhPublicKey # state'[q].dhSelf
        BY <1>3, <1>16, <3>1
      <4>7. state'[q].sendMessageNumber = 0 /\ state'[q].previousSendingChainLength = i
        BY <1>3, <3>1
      <4> QED
        BY <3>1, <4>3, <4>4, <4>5, <4>6, <4>7
    <3>2. CASE q = Peer(p)
      <4>1. state'[q] = state[q] /\ Position(q)' = Position(q)
        BY <1>8, <3>2
      <4>2. /\ \A x \in sent : x.dhPublicKey = state[q].dhSelf =>
                  /\ x.messageNumber < state[q].sendMessageNumber
                  /\ x.previousChainLength = state[q].previousSendingChainLength
            /\ \A y \in Nat : y < state[q].sendMessageNumber =>
                  \E x \in sent : x.dhPublicKey = state[q].dhSelf /\ x.messageNumber = y
            /\ \A x \in sent : Link(x) + 2 = Position(q) =>
                  x.messageNumber < state[q].previousSendingChainLength
            /\ \A y \in Nat : y < state[q].previousSendingChainLength =>
                  \E x \in sent : Link(x) + 2 = Position(q) /\ x.messageNumber = y
        BY DEF PlaceInv, SentInv
      <4> QED
        BY <4>1, <4>2
    <3> QED
      BY <1>7, <3>1, <3>2
  <2> QED
    BY <2>1 DEF SentInv
<1>19. CountInv'
  BY DEF PlaceInv, CountInv
<1>20. ReceiveInv'
  <2>1. ASSUME NEW q \in Parties, Position(Peer(q))' = Position(q)' + 1
        PROVE  state'[Peer(q)].receiveMessageNumber <= state'[q].sendMessageNumber
    <3>1. CASE q = p
      BY <1>6, <1>8, <1>11, <2>1, <3>1
    <3>2. CASE q = Peer(p)
      <4>1. state[q].sendMessageNumber \in Nat
        BY KeysArePublic DEF PlaceInv
      <4> QED
        BY <1>3, <1>7, <1>8, <1>10, <1>12, <3>2, <4>1
    <3> QED
      BY <1>7, <3>1, <3>2
  <2> QED
    BY <2>1 DEF ReceiveInv
<1>21. IsFiniteSet(sent') /\ state' = [q \in Parties |-> state'[q]]
  BY DEF PlaceInv
<1> QED
  BY <1>13, <1>14, <1>15, <1>18, <1>19, <1>20, <1>21 DEF PlaceInv

LEMMA DecryptPlaceIs ==
    ASSUME PlaceInv, NEW m \in sent, NEW intact \in BOOLEAN, RatchetDecrypt(m, intact)
    PROVE  \E k, i, j, l \in Nat, c \in Seq(Skipped) : \E t :
              /\ IsAt(state[m.to], m.to, k, i, j, l, c)
              /\ state' = [state EXCEPT ![m.to] = t] /\ sent' = sent
              /\ \/ Unread(m.to, k, i, j, l, c, m, t) /\ read' = read
                 \/ /\ read' = read \cup {m}
                    /\ \/ Taken(m.to, k, i, j, l, c, m, t)
                       \/ ReadHere(m.to, k, i, j, l, c, m, t)
                       \/ ReadNext(m.to, k, i, j, l, c, m, t)
<1>1. AreMessages(sent)
  BY SentAre DEF PlaceInv
<1>2. m.to \in Parties
  BY <1>1, MessageParts
<1>3. PICK k \in Nat, i \in Nat, j \in Nat, l \in Nat, c \in Seq(Skipped) :
         IsAt(state[m.to], m.to, k, i, j, l, c)
  BY <1>2 DEF PlaceInv, KeyInv
<1>4. PICK t : t = AfterDecrypt(state[m.to], m, intact)
  OBVIOUS
<1>5. state' = [state EXCEPT ![m.to] = t] /\ sent' = sent
  BY <1>4 DEF RatchetDecrypt
<1>6. /\ ~ Opens(state[m.to], m, intact) => Unread(m.to, k, i, j, l, c, m, t)
      /\ Opens(state[m.to], m, intact) =>
            \/ Taken(m.to, k, i, j, l, c, m, t)
            \/ ReadHere(m.to, k, i, j, l, c, m, t)
            \/ ReadNext(m.to, k, i, j, l, c, m, t)
  BY <1>1, <1>3, <1>4, DecryptIs
<1>7. read' = IF Opens(state[m.to], m, intact) THEN read \cup {m} ELSE read
  BY DEF RatchetDecrypt
<1> QED
  BY <1>3, <1>5, <1>6, <1>7

LEMMA DecryptPlace ==
    ASSUME PlaceInv, NEW m \in sent, NEW intact \in BOOLEAN, RatchetDecrypt(m, intact)
    PROVE  PlaceInv'
<1>0. PICK k \in Nat, i \in Nat, j \in Nat, l \in Nat, c \in Seq(Skipped) : \E t :
              /\ IsAt(state[m.to], m.to, k, i, j, l, c)
              /\ state' = [state EXCEPT ![m.to] = t] /\ sent' = sent
              /\ \/ Unread(m.to, k, i, j, l, c, m, t) /\ read' = read
                 \/ /\ read' = read \cup {m}
                    /\ \/ Taken(m.to, k, i, j, l, c, m, t)
                       \/ ReadHere(m.to, k, i, j, l, c, m, t)
                       \/ ReadNext(m.to, k, i, j, l, c, m, t)
  BY DecryptPlaceIs
<1>1. PICK t :
              /\ IsAt(state[m.to], m.to, k, i, j, l, c)
              /\ state' = [state EXCEPT ![m.to] = t] /\ sent' = sent
              /\ \/ Unread(m.to, k, i, j, l, c, m, t) /\ read' = read
                 \/ /\ read' = read \cup {m}
                    /\ \/ Taken(m.to, k, i, j, l, c, m, t)
                       \/ ReadHere(m.to, k, i, j, l, c, m, t)
                       \/ ReadNext(m.to, k, i, j, l, c, m, t)
  BY <1>0
<1>2. PICK p \in Parties : p = m.to
  BY SentAre, MessageParts DEF PlaceInv
<1>3. PICK n \in Nat : n = TurnOf(<<p, k>>)
  BY <1>0, <1>1, <1>2, TurnSteps, TurnIsNat
<1>4. Link(m) \in Nat /\ 0 < Link(m) /\ m.messageNumber \in Nat /\ m.previousChainLength \in Nat
  BY SentAre, MessageParts DEF PlaceInv
<1>5. state[p].dhSelf = <<p, k>> /\ state[p].receiveMessageNumber = j /\ Position(p) = n
  <2>1. state[p] = StateAt(<<p, k>>, i, j, l, c)
    BY <1>1, <1>2 DEF IsAt
  <2>2. state[p].dhSelf = <<p, k>> /\ state[p].receiveMessageNumber = j
    BY <2>1 DEF StateAt
  <2> QED
    BY <1>3, <2>2 DEF Position
<1>6. Peer(p) \in Parties /\ Peer(Peer(p)) = p
  BY PeerFacts
<1>7. Position(Peer(p)) \in Nat /\ state[Peer(p)].sendMessageNumber \in Nat
  BY <1>6, KeysArePublic DEF PlaceInv
<1>8. Position(p) = Position(Peer(p)) + 1 => j <= state[Peer(p)].sendMessageNumber
  BY <1>5, <1>6 DEF PlaceInv, ReceiveInv
<1>9. TurnOf(<<p, k>>) < 2 => j = 0
  BY <1>0, <1>1, <1>2 DEF IsAt
<1>10. /\ k \in Nat /\ i \in Nat /\ j \in Nat /\ l \in Nat /\ c \in Seq(Skipped)
       /\ IsAt(state[p], p, k, i, j, l, c) /\ sent' = sent /\ read' \subseteq sent'
  BY <1>0, <1>1, <1>2 DEF PlaceInv
<1>11. CASE Unread(m.to, k, i, j, l, c, m, t)
  <2>1. state' = [state EXCEPT ![p] = StateAt(<<p, k>>, i, j, l, c)]
    BY <1>0, <1>1, <1>2, <1>11 DEF Unread
  <2> QED
    BY <1>8, <1>9, <1>10, <2>1, StayPlace
<1>12. CASE Taken(m.to, k, i, j, l, c, m, t)
  <2>1. PICK x \in DOMAIN c : t = StateAt(<<p, k>>, i, j, l, RemoveAt(c, x))
    BY <1>2, <1>12 DEF Taken
  <2>2. PICK c2 \in Seq(Skipped) : c2 = RemoveAt(c, x)
    BY <1>0, <1>1, <2>1, RemovedAre
  <2>3. state' = [state EXCEPT ![p] = StateAt(<<p, k>>, i, j, l, c2)]
    BY <1>0, <1>1, <1>2, <2>1, <2>2
  <2> QED
    BY <1>8, <1>9, <1>10, <2>2, <2>3, StayPlace
<1>13. CASE ReadHere(m.to, k, i, j, l, c, m, t)
  <2>1. /\ Link(m) = Prior(n) /\ j <= m.messageNumber
        /\ t = StateAt(<<p, k>>, i, m.messageNumber + 1, l, SkippedTo(c, Link(m), j, m.messageNumber))
    BY <1>2, <1>3, <1>13 DEF ReadHere
  <2>2. PICK c2 \in Seq(Skipped) : c2 = SkippedTo(c, Link(m), j, m.messageNumber)
    BY <1>0, <1>1, <1>4, SkippedToIs
  <2>3. PICK j2 \in Nat : j2 = m.messageNumber + 1
    BY <1>4
  <2>4. 2 <= n /\ Link(m) = n - 1
    BY <1>3, <1>4, <2>1 DEF Prior
  <2>5. Position(p) = Position(Peer(p)) + 1 => j2 <= state[Peer(p)].sendMessageNumber
    <3>1. SUFFICES ASSUME Position(p) = Position(Peer(p)) + 1 PROVE j2 <= state[Peer(p)].sendMessageNumber
      OBVIOUS
    <3>2. Link(m) = Position(Peer(p))
      BY <1>3, <1>5, <1>7, <2>4, <3>1
    <3>3. m.messageNumber < state[Peer(p)].sendMessageNumber
      BY <1>6, <3>2, SentOnChain
    <3> QED
      BY <1>4, <1>7, <2>3, <3>3
  <2>6. TurnOf(<<p, k>>) < 2 => j2 = 0
    BY <1>3, <2>4
  <2>7. state' = [state EXCEPT ![p] = StateAt(<<p, k>>, i, j2, l, c2)]
    BY <1>0, <1>1, <1>2, <2>1, <2>2, <2>3
  <2> QED
    BY <1>10, <2>2, <2>3, <2>5, <2>6, <2>7, StayPlace
<1>14. CASE ReadNext(m.to, k, i, j, l, c, m, t)
  <2>1. /\ Link(m) = TurnOf(<<p, k>>) + 1
        /\ t = StateAt(<<p, k + 1>>, 0, m.messageNumber + 1, i,
                       SkippedTo(SkippedTo(c, Prior(n), j, m.previousChainLength),
                                 Link(m), 0, m.messageNumber))
    BY <1>2, <1>3, <1>14 DEF ReadNext
  <2>2. PICK c1 \in Seq(Skipped) : c1 = SkippedTo(c, Prior(n), j, m.previousChainLength)
    <3>1. Prior(n) \in Nat
      BY <1>3 DEF Prior
    <3> QED
      BY <1>0, <1>1, <1>4, <3>1, SkippedToIs
  <2>3. PICK c2 \in Seq(Skipped) : c2 = SkippedTo(c1, Link(m), 0, m.messageNumber)
    BY <1>4, <2>2, SkippedToIs
  <2>4. PICK j2 \in Nat : j2 = m.messageNumber + 1
    BY <1>4
  <2>5. state' = [state EXCEPT ![p] = StateAt(<<p, k + 1>>, 0, j2, i, c2)]
    BY <1>0, <1>1, <1>2, <2>1, <2>2, <2>3, <2>4
  <2> QED
    BY <1>2, <1>10, <2>1, <2>3, <2>4, <2>5, StepPlace
<1> QED
  BY <1>0, <1>1, <1>11, <1>12, <1>13, <1>14

-----------------------------------------------------------------------------
(* The cache from one operation to the next. *)

LEMMA InitStore == Init => StoreInv
<1>1. SUFFICES ASSUME Init, NEW p \in Parties
               PROVE  /\ Len(state[p].skippedMessageKeys) <= MaxStored
                      /\ Stores(sent, read, p, Prior(Position(p)), state[p].receiveMessageNumber,
                                state[p].skippedMessageKeys)
  BY DEF StoreInv
<1>2. state[p].skippedMessageKeys = << >>
  BY <1>1 DEF Init, InitRatchetAsInitiator, InitRatchetAsResponder
<1>3. sent = {} /\ read = {}
  BY <1>1 DEF Init
<1>4. Len(<< >>) = 0 /\ DOMAIN << >> = {} /\ MaxStored \in Nat
  BY RatchetAssumption
<1> QED
  BY <1>2, <1>3, <1>4 DEF Stores

\* What the other end reads is nothing to an end's cache.
LEMMA OtherStores ==
    ASSUME NEW S, NEW gone \in SUBSET S, NEW p, NEW b, NEW j, NEW c, Stores(S, gone, p, b, j, c),
           NEW m \in S, m.to # p
    PROVE  Stores(S, gone \cup {m}, p, b, j, c)
<1>1. \A i \in DOMAIN c : \E l \in S \ (gone \cup {m}) : l.to = p /\ c[i] = Entry(l) /\ PassedAt(b, j, l)
  <2>1. SUFFICES ASSUME NEW i \in DOMAIN c
                 PROVE  \E l \in S \ (gone \cup {m}) : l.to = p /\ c[i] = Entry(l) /\ PassedAt(b, j, l)
    OBVIOUS
  <2>2. PICK l \in S \ gone : l.to = p /\ c[i] = Entry(l) /\ PassedAt(b, j, l)
    BY DEF Stores
  <2> QED
    BY <2>2
<1> QED
  BY <1>1 DEF Stores

LEMMA EncryptStore ==
    ASSUME PlaceInv, StoreInv, NEW p \in Parties, RatchetEncrypt(p)
    PROVE  StoreInv'
<1>1. PICK k \in Nat, i \in Nat, j \in Nat, l \in Nat, c \in Seq(Skipped) :
         /\ IsAt(state[p], p, k, i, j, l, c) /\ 0 < TurnOf(<<p, k>>)
         /\ state' = [state EXCEPT ![p] = StateAt(<<p, k>>, i + 1, j, l, c)]
         /\ sent' = sent \cup {MessageAt(<<p, k>>, l, i)} /\ read' = read
  BY EncryptIs
<1>2. PICK n \in Nat : n = TurnOf(<<p, k>>) /\ 0 < n
  BY <1>1, TurnIsNat DEF PublicKey
<1>3. PICK new : new = MessageAt(<<p, k>>, l, i)
  OBVIOUS
<1>4. /\ new.to = Peer(p) /\ Link(new) = n /\ new.messageNumber = i /\ sent' = sent \cup {new}
  BY <1>1, <1>2, <1>3 DEF MessageAt, Link
<1>5. /\ state[p].dhSelf = <<p, k>> /\ state[p].sendMessageNumber = i /\ Position(p) = n
      /\ state[p].skippedMessageKeys = c /\ state[p].receiveMessageNumber = j
  BY <1>1, <1>2 DEF IsAt, StateAt, Position
<1>6. state'[p] = StateAt(<<p, k>>, i + 1, j, l, c) /\ \A q \in Parties : q # p => state'[q] = state[q]
  BY <1>1 DEF PlaceInv
<1>7. \A q \in Parties :
         /\ Position(q)' = Position(q)
         /\ state'[q].skippedMessageKeys = state[q].skippedMessageKeys
         /\ state'[q].receiveMessageNumber = state[q].receiveMessageNumber
  <2>1. /\ state'[p].dhSelf = <<p, k>> /\ state'[p].skippedMessageKeys = c
        /\ state'[p].receiveMessageNumber = j
    BY <1>6 DEF StateAt
  <2>2. Position(p)' = Position(p)
    BY <1>5, <2>1 DEF Position
  <2> QED
    BY <1>5, <1>6, <2>1, <2>2 DEF Position
<1>8. ASSUME NEW q \in Parties
      PROVE  new.to = q => ~ PassedAt(Prior(Position(q)), state[q].receiveMessageNumber, new)
  <2>1. SUFFICES ASSUME q = Peer(p)
                 PROVE  ~ PassedAt(Prior(Position(q)), state[q].receiveMessageNumber, new)
    BY <1>4
  <2>2. PICK at \in Nat, num \in Nat : at = Position(q) /\ num = state[q].receiveMessageNumber
    BY KeysArePublic DEF PlaceInv
  <2>3. n = at + 1 \/ at = n + 1
    BY <1>5, <2>1, <2>2, PeerFacts DEF PlaceInv, TurnInv, Parties
  <2>4. at = n + 1 => num <= i
    BY <1>5, <2>1, <2>2 DEF PlaceInv, ReceiveInv
  <2> QED
    BY <1>1, <1>2, <1>4, <2>2, <2>3, <2>4 DEF PassedAt, Prior
<1>9. ASSUME NEW q \in Parties
      PROVE  Stores(sent', read', q, Prior(Position(q)), state[q].receiveMessageNumber,
                    state[q].skippedMessageKeys)
  <2>1. Stores(sent, read, q, Prior(Position(q)), state[q].receiveMessageNumber,
               state[q].skippedMessageKeys)
    BY DEF StoreInv
  <2>2. IsFiniteSet(sent) /\ read \in SUBSET sent
    BY DEF PlaceInv
  <2>3. Stores(sent', read, q, Prior(Position(q)), state[q].receiveMessageNumber,
               state[q].skippedMessageKeys)
    BY <1>4, <1>8, <2>1, <2>2, SendStores
  <2> QED
    BY <1>1, <2>3
<1> QED
  BY <1>7, <1>9 DEF StoreInv

\* The keys up to a number enter the cache and the oldest make room, or none do.
LEMMA SkippedToStores ==
    ASSUME NEW S, AreMessages(S), AreFresh(S), IsFiniteSet(S), NEW gone \in SUBSET S, NEW p \in Parties,
           NEW b \in Nat, NEW j \in Nat, NEW u \in Nat, NEW c \in Seq(Skipped),
           Stores(S, gone, p, b, j, c),
           \A x \in Nat : 0 < b /\ x < u => \E l \in S : l.to = p /\ Link(l) = b /\ l.messageNumber = x
    PROVE  Stores(S, gone, p, b, Reached(b, j, u), SkippedTo(c, b, j, u))
<1>1. CASE ~ Skips(b, j, u)
  BY <1>1 DEF Reached, SkippedTo
<1>2. CASE Skips(b, j, u)
  <2>1. 0 < b /\ j <= u
    BY <1>2 DEF Skips
  <2>2. PICK e \in Seq(Skipped) : e = c \o NewKeys(b, j, u)
    BY <2>1, NewKeysAre, ConcatProperties
  <2>3. Stores(S, gone, p, b, u, c \o NewKeys(b, j, u))
    BY <2>1, SkipStores
  <2>4. Stores(S, gone, p, b, u, e)
    BY <2>2, <2>3
  <2>5. Stores(S, gone, p, b, u, EvictOldest(e))
    BY <2>4, EvictStores
  <2> QED
    BY <1>2, <2>2, <2>5 DEF Reached, SkippedTo
<1> QED
  BY <1>1, <1>2

\* A message of the chain being received is read.
LEMMA HereStores ==
    ASSUME PlaceInv, NEW m \in sent, NEW p \in Parties, m.to = p, NEW j \in Nat, j <= m.messageNumber,
           NEW c \in Seq(Skipped), Stores(sent, read, p, Link(m), j, c)
    PROVE  Stores(sent, read \cup {m}, p, Link(m), m.messageNumber + 1,
                  SkippedTo(c, Link(m), j, m.messageNumber))
<1>1. AreMessages(sent) /\ AreFresh(sent) /\ IsFiniteSet(sent) /\ read \in SUBSET sent
  BY SentAre, KeysFresh DEF PlaceInv
<1>2. PICK b \in Nat, num \in Nat : b = Link(m) /\ 0 < b /\ num = m.messageNumber
  BY <1>1, MessageParts
<1>3. ASSUME NEW x \in Nat, x < num
      PROVE  \E l \in sent : l.to = p /\ Link(l) = b /\ l.messageNumber = x
  <2>1. PICK l \in sent : l.dhPublicKey = m.dhPublicKey /\ l.messageNumber = x
    BY <1>2, <1>3 DEF PlaceInv, CountInv
  <2>2. l.to = p
    BY <1>1, <2>1, MessageParts
  <2> QED
    BY <1>2, <2>1, <2>2 DEF Link
<1>4. PICK c2 \in Seq(Skipped) : c2 = SkippedTo(c, b, j, num)
  BY <1>2, SkippedToIs
<1>5. Reached(b, j, num) = num
  BY <1>2 DEF Reached, Skips
<1>6. Stores(sent, read, p, b, Reached(b, j, num), SkippedTo(c, b, j, num))
  BY <1>1, <1>2, <1>3, SkippedToStores
<1>7. Stores(sent, read, p, b, num, c2)
  BY <1>4, <1>5, <1>6
<1>8. Stores(sent, read \cup {m}, p, b, num + 1, c2)
  BY <1>1, <1>2, <1>7, ReadStores
<1> QED
  BY <1>2, <1>4, <1>8

\* A message of the chain after it is read.
LEMMA NextStores ==
    ASSUME PlaceInv, NEW m \in sent, NEW p \in Parties, m.to = p, NEW n \in Nat, Link(m) = n + 1,
           NEW j \in Nat, NEW c \in Seq(Skipped), Stores(sent, read, p, Prior(n), j, c)
    PROVE  Stores(sent, read \cup {m}, p, Link(m), m.messageNumber + 1,
                  SkippedTo(SkippedTo(c, Prior(n), j, m.previousChainLength), Link(m), 0, m.messageNumber))
<1>1. AreMessages(sent) /\ AreFresh(sent) /\ IsFiniteSet(sent) /\ read \in SUBSET sent
  BY SentAre, KeysFresh DEF PlaceInv
<1>2. PICK b \in Nat, u \in Nat : b = Prior(n) /\ u = m.previousChainLength
  <2>1. Prior(n) \in Nat
    BY DEF Prior
  <2>2. m.previousChainLength \in Nat
    BY <1>1, MessageParts
  <2> QED
    BY <2>1, <2>2
<1>3. m.messageNumber \in Nat /\ m.dhPublicKey \in PublicKey
  BY <1>1, MessageParts
<1>4. \A l \in sent : /\ Link(l) \in Nat /\ 0 < Link(l) /\ l.messageNumber \in Nat
                      /\ l.dhPublicKey \in PublicKey /\ l.dhPublicKey[1] = Peer(l.to)
                      /\ l.to = Peer(l.dhPublicKey[1])
  BY <1>1, MessageParts
<1>5. ASSUME NEW x \in Nat, 0 < b, x < u
      PROVE  \E l \in sent : l.to = p /\ Link(l) = b /\ l.messageNumber = x
  <2>1. PICK l \in sent : Link(l) + 2 = Link(m) /\ l.messageNumber = x
    BY <1>2, <1>5 DEF PlaceInv, CountInv
  <2>2. l.dhPublicKey[1] = m.dhPublicKey[1]
    BY <1>3, <1>4, <2>1, TurnAlternates DEF Link
  <2>3. l.to = p
    BY <1>4, <2>2
  <2>4. Link(l) = b
    BY <1>2, <1>4, <1>5, <2>1 DEF Prior
  <2> QED
    BY <2>1, <2>3, <2>4
<1>6. PICK c1 \in Seq(Skipped), r \in Nat : c1 = SkippedTo(c, b, j, u) /\ r = Reached(b, j, u)
  <2>1. SkippedTo(c, b, j, u) \in Seq(Skipped)
    BY SkippedToIs
  <2>2. Reached(b, j, u) \in Nat
    BY DEF Reached
  <2> QED
    BY <2>1, <2>2
<1>7. Stores(sent, read, p, b, r, c1)
  <2>1. Stores(sent, read, p, b, j, c)
    BY <1>2
  <2>2. Stores(sent, read, p, b, Reached(b, j, u), SkippedTo(c, b, j, u))
    BY <1>1, <1>5, <2>1, SkippedToStores
  <2> QED
    BY <1>6, <2>2
<1>8. b < n + 1
  BY <1>2 DEF Prior
<1>9. ASSUME NEW l \in sent, l.to = p, Link(l) < n + 1 PROVE PassedAt(b, r, l)
  <2>1. l.dhPublicKey[1] = m.dhPublicKey[1]
    BY <1>4, <1>9
  <2>2. Link(l) + 2 <= Link(m)
    BY <1>3, <1>4, <1>9, <2>1, TurnAlternates DEF Link
  <2>3. 0 < b /\ b = n - 1 /\ Link(l) <= b
    BY <1>2, <1>4, <2>2 DEF Prior
  <2>4. CASE Link(l) = b
    <3>1. l.messageNumber < u
      <4>1. Link(l) + 2 = Link(m)
        BY <2>3, <2>4
      <4> QED
        BY <1>2, <4>1 DEF PlaceInv, CountInv
    <3>2. u <= r
      BY <1>6, <2>3 DEF Reached, Skips
    <3> QED
      BY <1>4, <2>4, <3>1, <3>2 DEF PassedAt
  <2>5. CASE Link(l) < b
    BY <2>5 DEF PassedAt
  <2> QED
    BY <1>2, <1>4, <2>3, <2>4, <2>5
<1>10. Stores(sent, read, p, n + 1, 0, c1)
  <2>1. PICK b2 \in Nat : b2 = n + 1
    OBVIOUS
  <2>2. b < b2 /\ \A l \in sent : l.to = p /\ Link(l) < b2 => PassedAt(b, r, l)
    BY <1>8, <1>9, <2>1
  <2>3. Stores(sent, read, p, b2, 0, c1)
    BY <1>1, <1>7, <2>2, MoveStores
  <2> QED
    BY <2>1, <2>3
<1>11. Stores(sent, read \cup {m}, p, Link(m), m.messageNumber + 1,
              SkippedTo(c1, Link(m), 0, m.messageNumber))
  <2>1. Stores(sent, read, p, Link(m), 0, c1)
    BY <1>10
  <2>2. 0 \in Nat /\ 0 <= m.messageNumber
    BY <1>3
  <2> QED
    BY <2>1, <2>2, HereStores
<1> QED
  BY <1>2, <1>6, <1>11

\* The key found for a straggler is its own.
LEMMA StragglerIs ==
    ASSUME PlaceInv, NEW p, NEW b, NEW j, NEW c, Stores(sent, read, p, b, j, c),
           NEW m \in sent, NEW x \in DOMAIN c,
           c[x].headerKey = m.headerKey, c[x].messageNumber = m.messageNumber
    PROVE  c[x] = Entry(m)
<1>1. AreMessages(sent) /\ AreFresh(sent)
  BY SentAre, KeysFresh DEF PlaceInv
<1>2. PICK l \in sent : c[x] = Entry(l)
  BY DEF Stores
<1>3. l.headerKey = m.headerKey /\ l.messageNumber = m.messageNumber
  BY <1>2 DEF Entry
<1>4. Link(l) \in Nat /\ Link(m) \in Nat /\ HeaderAt(Link(l)) = HeaderAt(Link(m))
  BY <1>1, <1>3, MessageParts
<1>5. Link(l) = Link(m)
  BY <1>4, HeaderFacts
<1>6. l.messageKey = m.messageKey
  BY <1>1, <1>3, <1>5, MessageParts
<1>7. l = m
  BY <1>1, <1>6 DEF AreFresh
<1> QED
  BY <1>2, <1>7

LEMMA DecryptStore ==
    ASSUME PlaceInv, StoreInv, NEW m \in sent, NEW intact \in BOOLEAN, RatchetDecrypt(m, intact)
    PROVE  StoreInv'
<1>0. PICK k \in Nat, i \in Nat, j \in Nat, l \in Nat, c \in Seq(Skipped) : \E t :
              /\ IsAt(state[m.to], m.to, k, i, j, l, c)
              /\ state' = [state EXCEPT ![m.to] = t] /\ sent' = sent
              /\ \/ Unread(m.to, k, i, j, l, c, m, t) /\ read' = read
                 \/ /\ read' = read \cup {m}
                    /\ \/ Taken(m.to, k, i, j, l, c, m, t)
                       \/ ReadHere(m.to, k, i, j, l, c, m, t)
                       \/ ReadNext(m.to, k, i, j, l, c, m, t)
  BY DecryptPlaceIs
<1>1. PICK t :
              /\ IsAt(state[m.to], m.to, k, i, j, l, c)
              /\ state' = [state EXCEPT ![m.to] = t] /\ sent' = sent
              /\ \/ Unread(m.to, k, i, j, l, c, m, t) /\ read' = read
                 \/ /\ read' = read \cup {m}
                    /\ \/ Taken(m.to, k, i, j, l, c, m, t)
                       \/ ReadHere(m.to, k, i, j, l, c, m, t)
                       \/ ReadNext(m.to, k, i, j, l, c, m, t)
  BY <1>0
<1>2. PICK p \in Parties : p = m.to
  BY SentAre, MessageParts DEF PlaceInv
<1>3. PICK n \in Nat : n = TurnOf(<<p, k>>) /\ TurnOf(<<p, k + 1>>) = n + 2
  BY <1>0, <1>2, TurnSteps, TurnIsNat
<1>4. Link(m) \in Nat /\ 0 < Link(m) /\ m.messageNumber \in Nat /\ m.previousChainLength \in Nat
  BY SentAre, MessageParts DEF PlaceInv
<1>5. /\ state[p].receiveMessageNumber = j /\ Position(p) = n /\ state[p].skippedMessageKeys = c
  <2>1. state[p] = StateAt(<<p, k>>, i, j, l, c)
    BY <1>1, <1>2 DEF IsAt
  <2>2. state[p].dhSelf = <<p, k>>
    BY <2>1 DEF StateAt
  <2>3. Position(p) = n
    BY <1>3, <2>2 DEF Position
  <2> QED
    BY <2>1, <2>3 DEF StateAt
<1>6. /\ Len(c) <= MaxStored /\ Stores(sent, read, p, Prior(n), j, c)
  BY <1>5 DEF StoreInv
<1>7. /\ sent' = sent /\ state'[p] = t /\ \A q \in Parties : q # p => state'[q] = state[q]
  BY <1>1, <1>2 DEF PlaceInv
<1>8. AreFresh(sent) /\ read \in SUBSET sent
  BY KeysFresh DEF PlaceInv
\* It is enough to look at the cache of the receiver.
<1>9. SUFFICES
        /\ Len(t.skippedMessageKeys) <= MaxStored
        /\ Stores(sent, read', p, Prior(TurnOf(t.dhSelf)), t.receiveMessageNumber, t.skippedMessageKeys)
  <2>1. SUFFICES ASSUME NEW q \in Parties
                 PROVE  /\ Len(state'[q].skippedMessageKeys) <= MaxStored
                        /\ Stores(sent', read', q, Prior(Position(q)'), state'[q].receiveMessageNumber,
                                  state'[q].skippedMessageKeys)
    BY DEF StoreInv
  <2>2. CASE q = p
    BY <1>7, <1>9, <2>2 DEF Position
  <2>3. CASE q # p
    <3>1. state'[q] = state[q] /\ Position(q)' = Position(q)
      BY <1>7, <2>3 DEF Position
    <3>2. /\ Len(state[q].skippedMessageKeys) <= MaxStored
          /\ Stores(sent, read, q, Prior(Position(q)), state[q].receiveMessageNumber,
                    state[q].skippedMessageKeys)
      BY DEF StoreInv
    <3>3. Stores(sent, read \cup {m}, q, Prior(Position(q)), state[q].receiveMessageNumber,
                 state[q].skippedMessageKeys)
      BY <1>2, <1>8, <2>3, <3>2, OtherStores
    <3>4. read' = read \/ read' = read \cup {m}
      BY <1>1
    <3> QED
      BY <1>7, <3>1, <3>2, <3>3, <3>4
  <2> QED
    BY <2>2, <2>3
<1>10. CASE Unread(m.to, k, i, j, l, c, m, t) /\ read' = read
  <2>1. t.dhSelf = <<p, k>> /\ t.receiveMessageNumber = j /\ t.skippedMessageKeys = c
    BY <1>2, <1>10 DEF Unread, StateAt
  <2> QED
    BY <1>3, <1>6, <1>10, <2>1
<1>11. CASE Taken(m.to, k, i, j, l, c, m, t) /\ read' = read \cup {m}
  <2>1. PICK x \in DOMAIN c : /\ c[x].headerKey = m.headerKey /\ c[x].messageNumber = m.messageNumber
                              /\ t = StateAt(<<p, k>>, i, j, l, RemoveAt(c, x))
    BY <1>2, <1>11 DEF Taken
  <2>2. c[x] = Entry(m)
    BY <1>6, <2>1, StragglerIs
  <2>3. Stores(sent, read \cup {m}, p, Prior(n), j, RemoveAt(c, x))
    BY <1>0, <1>6, <1>8, <2>1, <2>2, TakeStores
  <2>4. Len(RemoveAt(c, x)) <= MaxStored
    <3>1. Len(RemoveAt(c, x)) = Len(c) - 1
      BY <1>0, <2>1, RemovedAre
    <3>2. Len(c) \in Nat /\ MaxStored \in Nat
      BY <1>0, RatchetAssumption
    <3> QED
      BY <1>6, <3>1, <3>2
  <2>5. t.dhSelf = <<p, k>> /\ t.receiveMessageNumber = j /\ t.skippedMessageKeys = RemoveAt(c, x)
    BY <2>1 DEF StateAt
  <2> QED
    BY <1>3, <1>11, <2>3, <2>4, <2>5
<1>12. CASE ReadHere(m.to, k, i, j, l, c, m, t) /\ read' = read \cup {m}
  <2>1. /\ Link(m) = Prior(n) /\ j <= m.messageNumber
        /\ t = StateAt(<<p, k>>, i, m.messageNumber + 1, l, SkippedTo(c, Link(m), j, m.messageNumber))
    BY <1>2, <1>3, <1>12 DEF ReadHere
  <2>2. Stores(sent, read, p, Link(m), j, c)
    BY <1>6, <2>1
  <2>3. Stores(sent, read \cup {m}, p, Link(m), m.messageNumber + 1,
               SkippedTo(c, Link(m), j, m.messageNumber))
    BY <1>0, <1>2, <2>1, <2>2, HereStores
  <2>4. Len(SkippedTo(c, Link(m), j, m.messageNumber)) <= MaxStored
    BY <1>0, <1>4, <1>6, SkippedToIs
  <2>5. /\ t.dhSelf = <<p, k>> /\ t.receiveMessageNumber = m.messageNumber + 1
        /\ t.skippedMessageKeys = SkippedTo(c, Link(m), j, m.messageNumber)
    BY <2>1 DEF StateAt
  <2> QED
    BY <1>3, <1>12, <2>1, <2>3, <2>4, <2>5
<1>13. CASE ReadNext(m.to, k, i, j, l, c, m, t) /\ read' = read \cup {m}
  <2>1. /\ Link(m) = n + 1
        /\ t = StateAt(<<p, k + 1>>, 0, m.messageNumber + 1, i,
                       SkippedTo(SkippedTo(c, Prior(n), j, m.previousChainLength),
                                 Link(m), 0, m.messageNumber))
    BY <1>2, <1>3, <1>13 DEF ReadNext
  <2>2. PICK c1 \in Seq(Skipped) :
           c1 = SkippedTo(c, Prior(n), j, m.previousChainLength) /\ Len(c1) <= MaxStored
    <3>1. Prior(n) \in Nat
      BY <1>3 DEF Prior
    <3> QED
      BY <1>0, <1>4, <1>6, <3>1, SkippedToIs
  <2>3. Len(SkippedTo(c1, Link(m), 0, m.messageNumber)) <= MaxStored
    BY <1>4, <2>2, SkippedToIs
  <2>4. Stores(sent, read \cup {m}, p, Link(m), m.messageNumber + 1,
               SkippedTo(SkippedTo(c, Prior(n), j, m.previousChainLength), Link(m), 0, m.messageNumber))
    BY <1>0, <1>2, <1>3, <1>6, <2>1, NextStores
  <2>5. t.dhSelf = <<p, k + 1>> /\ t.receiveMessageNumber = m.messageNumber + 1
        /\ t.skippedMessageKeys = SkippedTo(c1, Link(m), 0, m.messageNumber)
    BY <2>1, <2>2 DEF StateAt
  <2>6. Prior(TurnOf(t.dhSelf)) = Link(m)
    <3>1. Prior(n + 2) = n + 1
      BY <1>3 DEF Prior
    <3> QED
      BY <1>3, <2>1, <2>5, <3>1
  <2> QED
    BY <1>13, <2>2, <2>3, <2>4, <2>5, <2>6
<1> QED
  BY <1>1, <1>10, <1>11, <1>12, <1>13

-----------------------------------------------------------------------------
(* The theorems. *)

RInv == PlaceInv /\ StoreInv

LEMMA RInvStep == ASSUME RInv, [Next]_vars PROVE RInv'
<1>1. ASSUME NEW p \in Parties, RatchetEncrypt(p) PROVE RInv'
  BY <1>1, EncryptPlace, EncryptStore DEF RInv
<1>2. ASSUME NEW m \in sent, NEW intact \in BOOLEAN, RatchetDecrypt(m, intact) PROVE RInv'
  BY <1>2, DecryptPlace, DecryptStore DEF RInv
<1>3. CASE UNCHANGED vars
  BY <1>3 DEF vars, RInv, PlaceInv, StoreInv, KeyInv, TurnInv, MessageInv, SentInv, CountInv,
             ReceiveInv, Position, Link
<1> QED
  BY <1>1, <1>2, <1>3 DEF Next

\* Each end stands at its place in the line of chains, the keys it holds and
\* the messages it sent are those of its place, and its cache accounts for
\* every message it has passed (doubleRatchet.ts, all operations).
THEOREM InvHolds == Spec => []RInv
<1>1. Init => RInv
  BY InitPlace, InitStore DEF RInv
<1>2. RInv /\ [Next]_vars => RInv'
  BY RInvStep
<1> QED
  BY <1>1, <1>2, PTL DEF Spec

LEMMA StateHasType ==
    ASSUME NEW p \in Parties, NEW k \in Nat, NEW i \in Nat, NEW j \in Nat, NEW l \in Nat,
           NEW c \in Seq(Skipped)
    PROVE  StateAt(<<p, k>>, i, j, l, c) \in RatchetState
<1>1. PICK n \in Nat : n = TurnOf(<<p, k>>) /\ <<p, k>> \in PublicKey
  BY TurnSteps, TurnIsNat
<1>2. PICK b \in Nat : b = Prior(n)
  BY DEF Prior
<1>3. RootAt(n) \in Root /\ RootAt(b) \in Root
  BY RootFacts
<1>4. /\ HeaderAt(n) \in HeaderKey /\ HeaderAt(b) \in HeaderKey
      /\ HeaderAt(n + 1) \in HeaderKey /\ HeaderAt(n + 2) \in HeaderKey
  <2>1. n + 1 \in Nat /\ n + 2 \in Nat
    OBVIOUS
  <2> QED
    BY <2>1, HeaderFacts
<1>5. <<RootAt(n), i>> \in ChainKey /\ <<RootAt(b), j>> \in ChainKey
  BY <1>3 DEF ChainKey
<1> QED
  BY <1>1, <1>2, <1>3, <1>4, <1>5 DEF StateAt, RatchetState

LEMMA RInvTypes == RInv => TypeOK
<1>1. SUFFICES ASSUME RInv PROVE TypeOK
  OBVIOUS
<1>2. ASSUME NEW p \in Parties PROVE state[p] \in RatchetState
  <2>1. PICK k \in Nat, i \in Nat, j \in Nat, l \in Nat, c \in Seq(Skipped) :
           IsAt(state[p], p, k, i, j, l, c)
    BY <1>1 DEF RInv, PlaceInv, KeyInv
  <2>2. StateAt(<<p, k>>, i, j, l, c) \in RatchetState
    BY <2>1, StateHasType
  <2> QED
    BY <2>1, <2>2 DEF IsAt
<1>3. state \in [Parties -> RatchetState]
  BY <1>1, <1>2 DEF RInv, PlaceInv
<1>4. ASSUME NEW m \in sent PROVE m \in Message
  <2>1. AreMessages(sent)
    BY <1>1, SentAre DEF RInv, PlaceInv
  <2>2. PICK key \in PublicKey, l \in Nat, i \in Nat : m = MessageAt(key, l, i)
    BY <2>1 DEF AreMessages
  <2>3. PICK n \in Nat : n = TurnOf(key)
    BY <2>2, TurnIsNat
  <2>4. HeaderAt(n) \in HeaderKey /\ <<RootAt(n), i>> \in ChainKey
    BY <2>2, HeaderFacts, RootFacts DEF ChainKey
  <2>5. Peer(key[1]) \in Parties
    BY <2>2, PeerFacts DEF PublicKey
  <2> QED
    BY <2>2, <2>3, <2>4, <2>5 DEF MessageAt, Message
<1>5. \A p \in Parties : Len(state[p].skippedMessageKeys) <= MaxStored
  BY <1>1 DEF RInv, StoreInv
<1>6. read \subseteq sent
  BY <1>1 DEF RInv, PlaceInv
<1> QED
  BY <1>3, <1>4, <1>5, <1>6 DEF TypeOK

\* The state stays well formed and the cache of skipped keys never exceeds
\* MAX_SKIPPED_STORED (skipMessageKeys, doubleRatchet.ts).
THEOREM TypeCorrect == Spec => []TypeOK
  BY InvHolds, RInvTypes, PTL

\* No message key encrypts two messages (kdfChainKey and ratchetEncrypt).
THEOREM KeysHold == Spec => []KeysAreFresh
<1>1. RInv => KeysAreFresh
  BY KeysFresh DEF RInv
<1> QED
  BY InvHolds, <1>1, PTL

\* Outputs mixed into a root two steps apart share no key pair: each step of
\* an end replaces its pair (dhRatchetStep).
LEMMA PlaceHeals == RInv => Heals
<1>1. SUFFICES ASSUME RInv, NEW p \in Parties,
                      NEW i \in 1 .. Len(state[p].rootKey) - 2
               PROVE  state[p].rootKey[i] \cap state[p].rootKey[i + 2] = {}
  BY DEF Heals
<1>2. PICK k \in Nat, i2 \in Nat, j \in Nat, l \in Nat, c \in Seq(Skipped) :
         IsAt(state[p], p, k, i2, j, l, c)
  BY <1>1 DEF RInv, PlaceInv, KeyInv
<1>3. PICK n \in Nat : n = TurnOf(<<p, k>>)
  BY <1>2, TurnSteps, TurnIsNat
<1>4. state[p].rootKey = RootAt(n)
  BY <1>2, <1>3 DEF IsAt, StateAt
<1>5. i \in 1 .. n - 2 /\ i \in 1 .. n /\ i + 2 \in 1 .. n
  <2>1. Len(RootAt(n)) = n
    BY RootFacts
  <2> QED
    BY <1>1, <1>4, <2>1
<1>6. state[p].rootKey[i] = Pair(i) /\ state[p].rootKey[i + 2] = Pair(i + 2)
  BY <1>4, <1>5, RootFacts
<1>7. Pair(i) \cap Pair(i + 2) = {}
  BY <1>5, TurnIsNat DEF Pair
<1> QED
  BY <1>6, <1>7

\* The ratchet heals: a key pair that leaked is out of use after one step of
\* its owner (dhRatchetStep, doubleRatchet.ts).
THEOREM HealsHolds == Spec => []Heals
  BY InvHolds, PlaceHeals, PTL

\* A message that was read is behind the receiver and its key is in no cache.
LEMMA StoresSpend == RInv => ReadIsSpent
<1>1. SUFFICES ASSUME RInv, NEW m \in read, Opens(state[m.to], m, TRUE) PROVE FALSE
  BY DEF ReadIsSpent
<1>2. m \in sent /\ AreMessages(sent) /\ AreFresh(sent) /\ PlaceInv
  BY <1>1, SentAre, KeysFresh DEF RInv, PlaceInv
<1>3. PICK p \in Parties : p = m.to
  BY <1>2, MessageParts
<1>4. PICK k \in Nat, i \in Nat, j \in Nat, l \in Nat, c \in Seq(Skipped) :
         IsAt(state[m.to], m.to, k, i, j, l, c)
  BY <1>2, <1>3 DEF PlaceInv, KeyInv
<1>5. PICK n \in Nat, b \in Nat : n = TurnOf(<<p, k>>) /\ b = Prior(n) /\ b < n + 1
  <2>1. TurnOf(<<p, k>>) \in Nat
    BY <1>4, TurnSteps, TurnIsNat
  <2>2. \A n \in Nat : Prior(n) \in Nat /\ Prior(n) < n + 1
    BY DEF Prior
  <2> QED
    BY <2>1, <2>2
<1>6. Stores(sent, read, p, b, j, c)
  <2>1. /\ Position(p) = n /\ state[p].receiveMessageNumber = j /\ state[p].skippedMessageKeys = c
    BY <1>3, <1>4, <1>5 DEF IsAt, StateAt, Position
  <2> QED
    BY <1>1, <1>5, <2>1 DEF RInv, StoreInv
<1>7. PassedAt(b, j, m)
  BY <1>3, <1>6 DEF Stores
<1>8. Link(m) \in Nat /\ m.messageNumber \in Nat
  BY <1>2, MessageParts
<1>9. PICK t : t = AfterDecrypt(state[m.to], m, TRUE)
  OBVIOUS
<1>10. \/ Taken(m.to, k, i, j, l, c, m, t)
       \/ ReadHere(m.to, k, i, j, l, c, m, t)
       \/ ReadNext(m.to, k, i, j, l, c, m, t)
  BY <1>1, <1>2, <1>4, <1>9, DecryptIs
<1>11. CASE Taken(m.to, k, i, j, l, c, m, t)
  <2>1. PICK x \in DOMAIN c : c[x].headerKey = m.headerKey /\ c[x].messageNumber = m.messageNumber
    BY <1>11 DEF Taken
  <2>2. c[x] = Entry(m)
    BY <1>2, <1>6, <2>1, StragglerIs
  <2>3. PICK l2 \in sent \ read : c[x] = Entry(l2)
    BY <1>6, <2>1 DEF Stores
  <2>4. l2 = m
    BY <1>2, <2>2, <2>3, EntryIsOne
  <2> QED
    BY <2>3, <2>4
<1>12. CASE ReadHere(m.to, k, i, j, l, c, m, t)
  BY <1>3, <1>4, <1>5, <1>7, <1>8, <1>12 DEF ReadHere, PassedAt
<1>13. CASE ReadNext(m.to, k, i, j, l, c, m, t)
  BY <1>3, <1>4, <1>5, <1>7, <1>8, <1>13 DEF ReadNext, PassedAt
<1> QED
  BY <1>10, <1>11, <1>12, <1>13

\* A message that was read can never be read again (tryRatchetDecrypt,
\* trySkippedMessageKeys and commitState, doubleRatchet.ts).
THEOREM ReadHolds == Spec => []ReadIsSpent
  BY InvHolds, StoresSpend, PTL

\* The messages of UnreadIsReadable that come after m are those the cache
\* of its receiver accounts for.
LEMMA PassedAfterIs ==
    ASSUME AreMessages(sent), NEW m \in sent, NEW p, p = m.to, NEW b \in Nat, NEW j \in Nat,
           state[p].receivingChainKey = <<RootAt(b), j>>, state[p].receiveMessageNumber = j
    PROVE  PassedAfter(m) = PassedAfterAt(sent, p, b, j, m)
<1>1. \A l \in sent : /\ Link(l) \in Nat /\ l.messageNumber \in Nat
                      /\ RootOf(l) = RootAt(Link(l)) /\ l.messageKey[1] = RootAt(Link(l))
                      /\ Len(RootAt(Link(l))) = Link(l)
  BY MessageParts DEF RootOf
<1>2. Len(RootAt(b)) = b /\ state[p].receivingChainKey[1] = RootAt(b)
  BY RootFacts
<1>3. ASSUME NEW l \in sent, l.to = p PROVE Passed(l) <=> PassedAt(b, j, l)
  <2>1. RootAt(Link(l)) = RootAt(b) <=> Link(l) = b
    BY <1>1, RootFacts
  <2> QED
    BY <1>1, <1>2, <1>3, <2>1 DEF Passed, PassedAt
<1>4. ASSUME NEW l \in sent
      PROVE  (\/ Len(RootOf(m)) < Len(RootOf(l))
              \/ RootOf(m) = RootOf(l) /\ m.messageNumber < l.messageNumber) <=> Earlier(m, l)
  <2>1. RootAt(Link(m)) = RootAt(Link(l)) <=> Link(m) = Link(l)
    BY <1>1, RootFacts
  <2> QED
    BY <1>1, <2>1 DEF Earlier
<1> QED
  BY <1>3, <1>4 DEF PassedAfter, PassedAfterAt

\* A message the receiver has not passed is of the chain it receives, or of
\* the next: the sender is no further.
LEMMA AheadIs ==
    ASSUME PlaceInv, NEW m \in sent, NEW p \in Parties, p = m.to, NEW j \in Nat,
           ~ PassedAt(Prior(Position(p)), j, m)
    PROVE  \/ Link(m) = Prior(Position(p)) /\ j <= m.messageNumber
           \/ Link(m) = Position(p) + 1
<1>1. AreMessages(sent) /\ \A x \in sent : Link(x) <= Position(x.dhPublicKey[1])
  BY SentAre DEF PlaceInv
<1>2. /\ Link(m) \in Nat /\ 0 < Link(m) /\ m.messageNumber \in Nat /\ m.dhPublicKey \in PublicKey
      /\ m.dhPublicKey[1] = Peer(p)
  BY <1>1, MessageParts
<1>3. Peer(p) \in Parties /\ Peer(p) # p
  BY PeerFacts
<1>4. PICK n \in Nat, at \in Nat : n = Position(p) /\ at = Position(Peer(p))
  BY <1>3, KeysArePublic DEF PlaceInv
<1>5. n = at + 1 \/ at = n + 1
  BY <1>3, <1>4 DEF PlaceInv, TurnInv, Parties
<1>6. Link(m) <= at
  BY <1>1, <1>2, <1>4
<1>7. Link(m) # n
  <2>1. SUFFICES ASSUME Link(m) = n PROVE FALSE
    OBVIOUS
  <2>2. state[p].dhSelf \in PublicKey /\ state[p].dhSelf[1] = p
    BY KeysArePublic DEF PlaceInv
  <2>3. m.dhPublicKey = state[p].dhSelf
    BY <1>2, <1>4, <2>1, <2>2, TurnIsOne DEF Link, Position
  <2> QED
    BY <1>2, <1>3, <2>2, <2>3
<1>8. Prior(n) <= Link(m) /\ (Link(m) = Prior(n) => j <= m.messageNumber)
  <2>1. ~ Link(m) < Prior(n) /\ ~ (Link(m) = Prior(n) /\ m.messageNumber < j)
    BY <1>4 DEF PassedAt
  <2> QED
    BY <1>2, <1>4, <2>1 DEF Prior
<1> QED
  BY <1>2, <1>4, <1>5, <1>6, <1>7, <1>8 DEF Prior

LEMMA StoresOpen == RInv => UnreadIsReadable
<1>1. SUFFICES ASSUME RInv, NEW m \in sent \ read, ~ Refused(state[m.to], m),
                      Cardinality(PassedAfter(m)) < MaxStored
               PROVE  Opens(state[m.to], m, TRUE)
  BY DEF UnreadIsReadable
<1>2. m \in sent /\ AreMessages(sent) /\ AreFresh(sent) /\ PlaceInv
  BY <1>1, SentAre, KeysFresh DEF RInv, PlaceInv
<1>3. PICK p \in Parties : p = m.to
  BY <1>2, MessageParts
<1>4. PICK k \in Nat, i \in Nat, j \in Nat, l \in Nat, c \in Seq(Skipped) :
         IsAt(state[p], p, k, i, j, l, c)
  BY <1>2, <1>3 DEF PlaceInv, KeyInv
<1>5. PICK key \in PublicKey : key = <<p, k>>
  BY <1>4, TurnSteps
<1>6. PICK n \in Nat, b \in Nat : n = TurnOf(key) /\ b = Prior(n) /\ b < n + 1
  BY <1>5, TurnIsNat DEF Prior
<1>7. /\ Position(p) = n /\ state[p] = StateAt(key, i, j, l, c) /\ (TurnOf(key) < 2 => j = 0)
      /\ state[p].receiveMessageNumber = j /\ state[p].skippedMessageKeys = c
      /\ state[p].receivingChainKey = <<RootAt(b), j>>
  BY <1>4, <1>5, <1>6 DEF IsAt, StateAt, Position
<1>8. Stores(sent, read, p, b, j, c)
  BY <1>1, <1>6, <1>7 DEF RInv, StoreInv
<1>9. CASE PassedAt(b, j, m)
  <2>1. PassedAfter(m) = PassedAfterAt(sent, p, b, j, m)
    BY <1>2, <1>3, <1>7, PassedAfterIs
  <2>2. IsFiniteSet(PassedAfterAt(sent, p, b, j, m))
    <3>1. PassedAfterAt(sent, p, b, j, m) \subseteq sent /\ IsFiniteSet(sent)
      BY <1>2 DEF PassedAfterAt, PlaceInv
    <3> QED
      BY <3>1, FS_Subset
  <2>3. Cardinality(PassedAfterAt(sent, p, b, j, m)) \in Nat /\ MaxStored \in Nat
    BY <2>2, FS_CardinalityType, RatchetAssumption
  <2>4. Held(c, m)
    <3>1. Held(c, m) \/ MaxStored <= Cardinality(PassedAfterAt(sent, p, b, j, m))
      BY <1>1, <1>3, <1>8, <1>9 DEF Stores
    <3> QED
      BY <1>1, <2>1, <2>3, <3>1
  <2>5. PICK x \in DOMAIN c : c[x] = Entry(m)
    BY <2>4 DEF Held
  <2>6. /\ c[x].headerKey = m.headerKey /\ c[x].messageNumber = m.messageNumber
        /\ c[x].messageKey = m.messageKey
    BY <2>5 DEF Entry
  <2>7. x \in SkippedAt(state[p], m)
    BY <1>7, <2>5, <2>6 DEF SkippedAt
  <2>8. OpensWithSkipped(state[p], m, TRUE)
    BY <1>7, <2>6, <2>7 DEF OpensWithSkipped
  <2> QED
    BY <1>3, <2>8 DEF Opens
<1>10. CASE ~ PassedAt(b, j, m)
  <2>1. SkippedAt(state[p], m) = {}
    <3>1. SUFFICES ASSUME NEW x \in SkippedAt(state[p], m) PROVE FALSE
      OBVIOUS
    <3>2. x \in DOMAIN c /\ c[x].headerKey = m.headerKey /\ c[x].messageNumber = m.messageNumber
      BY <1>7, <3>1 DEF SkippedAt
    <3>3. c[x] = Entry(m)
      BY <1>2, <1>8, <3>2, StragglerIs
    <3>4. PICK l2 \in sent \ read : c[x] = Entry(l2) /\ PassedAt(b, j, l2)
      BY <1>8, <3>2 DEF Stores
    <3>5. l2 = m
      BY <1>2, <3>3, <3>4, EntryIsOne
    <3> QED
      BY <1>10, <3>4, <3>5
  <2>2. (Link(m) = b /\ j <= m.messageNumber) \/ Link(m) = n + 1
    BY <1>2, <1>3, <1>6, <1>7, <1>10, AheadIs
  <2>3. PICK theirs \in PublicKey, l2 \in Nat, i2 \in Nat :
           /\ m = MessageAt(theirs, l2, i2) /\ 0 < TurnOf(theirs) /\ Link(m) = TurnOf(theirs)
           /\ m.messageNumber = i2 /\ m.messageKey = <<RootAt(TurnOf(theirs)), i2>>
    BY <1>2 DEF AreMessages, MessageAt, Link
  <2>4. CASE Link(m) = b /\ j <= m.messageNumber
    <3>1. TurnOf(theirs) # 0 /\ TurnOf(theirs) = Prior(TurnOf(key))
      BY <1>6, <2>3, <2>4, TurnIsNat
    <3>2. /\ SameChain(StateAt(key, i, j, l, c), MessageAt(theirs, l2, i2))
          /\ Trial(StateAt(key, i, j, l, c), MessageAt(theirs, l2, i2)).receivingChainKey =
                <<RootAt(TurnOf(theirs)), Reached(TurnOf(theirs), j, i2)>>
      <4>1. /\ key \in PublicKey /\ theirs \in PublicKey /\ l2 \in Nat /\ i2 \in Nat
            /\ i \in Nat /\ j \in Nat /\ l \in Nat
        BY <1>4, <1>5, <2>3
      <4>2. SameChain(StateAt(key, i, j, l, c), MessageAt(theirs, l2, i2))
        BY <3>1, <4>1, OpenSame
      <4>3. Trial(StateAt(key, i, j, l, c), MessageAt(theirs, l2, i2)).receivingChainKey =
                <<RootAt(TurnOf(theirs)), Reached(TurnOf(theirs), j, i2)>>
        BY <3>1, <4>1, OpenSame
      <4> QED
        BY <4>2, <4>3
    <3>3. Reached(TurnOf(theirs), j, i2) = i2
      BY <1>4, <2>3, <2>4 DEF Reached, Skips
    <3>4. SameChain(state[p], m) /\ Trial(state[p], m).receivingChainKey = m.messageKey
      BY <1>7, <2>3, <3>2, <3>3
    <3> QED
      BY <1>1, <1>3, <2>1, <3>4 DEF Opens, OpensOnChain
  <2>5. CASE Link(m) = n + 1
    <3>1. TurnOf(theirs) = TurnOf(key) + 1
      BY <1>6, <2>3, <2>5
    <3>2. /\ NextChain(StateAt(key, i, j, l, c), MessageAt(theirs, l2, i2))
          /\ Trial(StateAt(key, i, j, l, c), MessageAt(theirs, l2, i2)).receivingChainKey =
                <<RootAt(TurnOf(theirs)), i2>>
      <4>1. /\ key \in PublicKey /\ theirs \in PublicKey /\ l2 \in Nat /\ i2 \in Nat
            /\ i \in Nat /\ j \in Nat /\ l \in Nat /\ (TurnOf(key) < 2 => j = 0)
        BY <1>4, <1>5, <1>7, <2>3
      <4>2. NextChain(StateAt(key, i, j, l, c), MessageAt(theirs, l2, i2))
        BY <3>1, <4>1, OpenNext
      <4>3. Trial(StateAt(key, i, j, l, c), MessageAt(theirs, l2, i2)).receivingChainKey =
                <<RootAt(TurnOf(theirs)), i2>>
        BY <3>1, <4>1, OpenNext
      <4> QED
        BY <4>2, <4>3
    <3>3. NextChain(state[p], m) /\ Trial(state[p], m).receivingChainKey = m.messageKey
      BY <1>7, <2>3, <3>2
    <3> QED
      BY <1>1, <1>3, <2>1, <3>3 DEF Opens, OpensOnChain
  <2> QED
    BY <2>2, <2>4, <2>5
<1> QED
  BY <1>9, <1>10

\* Late, reordered and damaged messages and the steps of either side never
\* cost a message that is in reach (skipMessageKeys, dhRatchetStep and
\* tryRatchetDecrypt, doubleRatchet.ts).
THEOREM UnreadHolds == Spec => []UnreadIsReadable
  BY InvHolds, StoresOpen, PTL
=============================================================================
