------------------------------- MODULE Ratchet -------------------------------
(***************************************************************************)
(* The Double Ratchet with header encryption (src/crypto/doubleRatchet.ts) *)
(* between the two ends of one session, over a network that delays,        *)
(* reorders, repeats, loses and damages what it carries.                   *)
(*                                                                         *)
(* Keys are terms. A root key is the sequence of Diffie-Hellman outputs    *)
(* that were mixed into it, an output the set of the two public keys it    *)
(* comes from; a chain key or message key is a root and a number of steps; *)
(* a header key is a root and the label it was derived under. Two keys are *)
(* equal exactly when both ends derived them from the same secrets, and an *)
(* AEAD opens exactly when its key is equal and nothing was damaged.       *)
(***************************************************************************)
EXTENDS Naturals, Sequences, SequencesExt, FiniteSets

CONSTANTS Alice,        \* who started the session: initRatchetAsInitiator
          Bob,          \* who answers: initRatchetAsResponder
          MaxSkip,      \* DEFAULT_MAX_SKIP, 1000 in the code
          MaxStored,    \* MAX_SKIPPED_STORED, 2000 in the code
          MaxPerChain,  \* bound: messages one end sends on one chain
          MaxRoots      \* bound: Diffie-Hellman outputs mixed into a sending chain

ASSUME RatchetAssumption ==
    /\ Alice # Bob
    /\ MaxSkip \in Nat /\ MaxStored \in Nat
    /\ MaxPerChain \in Nat /\ MaxRoots \in Nat

VARIABLES state,  \* [Parties -> RatchetState], as stored after each operation
          sent,   \* every message sent; the network may deliver each any number of times
          read    \* the messages whose plaintext was returned

vars == <<state, sent, read>>

Parties == {Alice, Bob}
Peer(p) == IF p = Alice THEN Bob ELSE Alice

PublicKey == Parties \X Nat
Root == Seq(SUBSET PublicKey)
ChainKey == Root \X Nat
HeaderKey == {"none", "sharedHkA", "sharedNhkB", "next"} \X Root

NoChain == << << >>, 0 >>
NoHeaderKey == <<"none", << >> >>

KdfRootKey(root, mine, theirs) == Append(root, {mine, theirs})
NextHeaderKey(root) == <<"next", root>>
ChainOf(root) == <<root, 0>>
Along(chain, steps) == <<chain[1], chain[2] + steps>>

SharedHkA == <<"sharedHkA", << >> >>
SharedNhkB == <<"sharedNhkB", << >> >>

Skipped == [headerKey : HeaderKey, messageNumber : Nat, messageKey : ChainKey]

RatchetState ==
    [rootKey : Root, dhSelf : PublicKey, sendingChainKey : ChainKey,
     receivingChainKey : ChainKey, sendHeaderKey : HeaderKey, receiveHeaderKey : HeaderKey,
     nextSendHeaderKey : HeaderKey, nextReceiveHeaderKey : HeaderKey,
     sendMessageNumber : Nat, receiveMessageNumber : Nat,
     previousSendingChainLength : Nat, skippedMessageKeys : Seq(Skipped)]

Message ==
    [to : Parties, headerKey : HeaderKey, dhPublicKey : PublicKey,
     previousChainLength : Nat, messageNumber : Nat, messageKey : ChainKey]

InitRatchetAsInitiator ==
    LET root == KdfRootKey(<< >>, <<Alice, 0>>, <<Bob, 0>>)
    IN  [rootKey |-> root, dhSelf |-> <<Alice, 0>>,
         sendingChainKey |-> ChainOf(root), receivingChainKey |-> NoChain,
         sendHeaderKey |-> SharedHkA, receiveHeaderKey |-> NoHeaderKey,
         nextSendHeaderKey |-> NextHeaderKey(root), nextReceiveHeaderKey |-> SharedNhkB,
         sendMessageNumber |-> 0, receiveMessageNumber |-> 0,
         previousSendingChainLength |-> 0, skippedMessageKeys |-> << >>]

InitRatchetAsResponder ==
    [rootKey |-> << >>, dhSelf |-> <<Bob, 0>>,
     sendingChainKey |-> NoChain, receivingChainKey |-> NoChain,
     sendHeaderKey |-> NoHeaderKey, receiveHeaderKey |-> NoHeaderKey,
     nextSendHeaderKey |-> SharedNhkB, nextReceiveHeaderKey |-> SharedHkA,
     sendMessageNumber |-> 0, receiveMessageNumber |-> 0,
     previousSendingChainLength |-> 0, skippedMessageKeys |-> << >>]

Init ==
    /\ state = [p \in Parties |-> IF p = Alice THEN InitRatchetAsInitiator
                                               ELSE InitRatchetAsResponder]
    /\ sent = {}
    /\ read = {}

-----------------------------------------------------------------------------
(* Sending. *)

\* A sender that loses the chain key it has advanced to.
EncryptedUnsaved(s) == [s EXCEPT !.sendMessageNumber = @ + 1]

Encrypted(s) == [s EXCEPT !.sendingChainKey = Along(s.sendingChainKey, 1),
                          !.sendMessageNumber = @ + 1]

RatchetEncrypt(p) ==
    LET s == state[p]
    IN  /\ s.sendingChainKey # NoChain
        /\ s.sendMessageNumber < MaxPerChain
        /\ Len(s.sendingChainKey[1]) <= MaxRoots
        /\ sent' = sent \cup
             {[to |-> Peer(p), headerKey |-> s.sendHeaderKey, dhPublicKey |-> s.dhSelf,
               previousChainLength |-> s.previousSendingChainLength,
               messageNumber |-> s.sendMessageNumber, messageKey |-> s.sendingChainKey]}
        /\ state' = [state EXCEPT ![p] = Encrypted(s)]
        /\ UNCHANGED read

-----------------------------------------------------------------------------
(* Receiving. *)

TooFar(s, until) == s.receiveMessageNumber + MaxSkip < until

\* The newest MaxStored keys: the map is emptied from its oldest entry.
EvictOldest(keys) ==
    SubSeq(keys, IF Len(keys) > MaxStored THEN Len(keys) - MaxStored + 1 ELSE 1, Len(keys))

SkipMessageKeys(s, until) ==
    IF s.receivingChainKey = NoChain \/ until <= s.receiveMessageNumber THEN s
    ELSE LET from == s.receiveMessageNumber
             new == [i \in 1..(until - from) |->
                       [headerKey |-> s.receiveHeaderKey, messageNumber |-> from + i - 1,
                        messageKey |-> Along(s.receivingChainKey, i - 1)]]
         IN  [s EXCEPT !.receivingChainKey = Along(@, until - from),
                       !.receiveMessageNumber = until,
                       !.skippedMessageKeys = EvictOldest(@ \o new)]

\* The next chains of both directions, the sending one under the key pair mine.
Stepped(s, theirs, mine) ==
    LET receiveRoot == KdfRootKey(s.rootKey, s.dhSelf, theirs)
        sendRoot == KdfRootKey(receiveRoot, mine, theirs)
    IN  [rootKey |-> sendRoot, dhSelf |-> mine,
         sendingChainKey |-> ChainOf(sendRoot), receivingChainKey |-> ChainOf(receiveRoot),
         sendHeaderKey |-> s.nextSendHeaderKey, receiveHeaderKey |-> s.nextReceiveHeaderKey,
         nextSendHeaderKey |-> NextHeaderKey(sendRoot),
         nextReceiveHeaderKey |-> NextHeaderKey(receiveRoot),
         sendMessageNumber |-> 0, receiveMessageNumber |-> 0,
         previousSendingChainLength |-> s.sendMessageNumber,
         skippedMessageKeys |-> s.skippedMessageKeys]

\* The key pair of the last step is used again.
DhRatchetStepSameKey(s, theirs) == Stepped(s, theirs, s.dhSelf)

\* The key pair generated here is never used before: it is the owner's next.
DhRatchetStep(s, theirs) == Stepped(s, theirs, <<s.dhSelf[1], s.dhSelf[2] + 1>>)

\* The cached key of a message that was skipped, at most one index.
SkippedAt(s, m) ==
    {i \in DOMAIN s.skippedMessageKeys :
        /\ s.skippedMessageKeys[i].headerKey = m.headerKey
        /\ s.skippedMessageKeys[i].messageNumber = m.messageNumber}

\* decryptHeader: under the current receiving key, or under the next, which
\* asks for a ratchet step.
SameChain(s, m) == m.headerKey = s.receiveHeaderKey
NextChain(s, m) == ~ SameChain(s, m) /\ m.headerKey = s.nextReceiveHeaderKey

Refused(s, m) ==
    \/ SameChain(s, m) /\ TooFar(s, m.messageNumber)
    \/ NextChain(s, m) /\ (TooFar(s, m.previousChainLength) \/ MaxSkip < m.messageNumber)

\* The clone of the state, brought to the message's place in its chain.
Trial(s, m) ==
    SkipMessageKeys(IF SameChain(s, m) THEN s
                    ELSE DhRatchetStep(SkipMessageKeys(s, m.previousChainLength), m.dhPublicKey),
                    m.messageNumber)

OpensWithSkipped(s, m, intact) ==
    /\ intact
    /\ \E i \in SkippedAt(s, m) : s.skippedMessageKeys[i].messageKey = m.messageKey

OpensOnChain(s, m, intact) ==
    /\ intact
    /\ SkippedAt(s, m) = {}
    /\ SameChain(s, m) \/ NextChain(s, m)
    /\ ~ Refused(s, m)
    /\ Trial(s, m).receivingChainKey = m.messageKey

\* tryRatchetDecrypt returns a plaintext. Otherwise it returns null or throws.
Opens(s, m, intact) == OpensWithSkipped(s, m, intact) \/ OpensOnChain(s, m, intact)

\* The key of a straggler stays in the cache.
WithoutSkippedKept(s, m) == s

WithoutSkipped(s, m) ==
    [s EXCEPT !.skippedMessageKeys = RemoveAt(@, CHOOSE i \in SkippedAt(s, m) : TRUE)]

Advanced(s, m) ==
    [Trial(s, m) EXCEPT !.receivingChainKey = Along(@, 1),
                        !.receiveMessageNumber = m.messageNumber + 1]

\* The trial is made on the state itself, so that a damaged message moves it.
AfterDecryptInPlace(s, m, intact) ==
    CASE OpensWithSkipped(s, m, intact) -> WithoutSkipped(s, m)
      [] SkippedAt(s, m) = {} /\ (SameChain(s, m) \/ NextChain(s, m)) /\ ~ Refused(s, m) ->
            Advanced(s, m)
      [] OTHER -> s

\* commitState: the state changes only if the message opened.
AfterDecrypt(s, m, intact) ==
    CASE OpensWithSkipped(s, m, intact) -> WithoutSkipped(s, m)
      [] OpensOnChain(s, m, intact) -> Advanced(s, m)
      [] OTHER -> s

RatchetDecrypt(m, intact) ==
    /\ state' = [state EXCEPT ![m.to] = AfterDecrypt(@, m, intact)]
    /\ read' = IF Opens(state[m.to], m, intact) THEN read \cup {m} ELSE read
    /\ UNCHANGED sent

Next ==
    \/ \E p \in Parties : RatchetEncrypt(p)
    \/ \E m \in sent, intact \in BOOLEAN : RatchetDecrypt(m, intact)

Spec == Init /\ [][Next]_vars

-----------------------------------------------------------------------------
(* Properties. *)

(* Every key, counter and cache is well formed, and the cache of skipped   *)
(* keys never exceeds its bound (MAX_SKIPPED_STORED).                      *)
TypeOK ==
    /\ state \in [Parties -> RatchetState]
    /\ sent \subseteq Message
    /\ read \subseteq sent
    /\ \A p \in Parties : Len(state[p].skippedMessageKeys) <= MaxStored

(* A message that was read can never be read again, whatever came before,  *)
(* between and after: its key is gone from both the chain and the cache.   *)
ReadIsSpent == \A m \in read : ~ Opens(state[m.to], m, TRUE)

\* The messages behind the receiver's position that come after m.
RootOf(m) == m.messageKey[1]
Passed(m) ==
    LET s == state[m.to]
    IN  \/ Len(RootOf(m)) < Len(s.receivingChainKey[1])
        \/ RootOf(m) = s.receivingChainKey[1] /\ m.messageNumber < s.receiveMessageNumber
PassedAfter(m) ==
    {l \in sent :
        /\ l.to = m.to /\ Passed(l)
        /\ \/ Len(RootOf(m)) < Len(RootOf(l))
           \/ RootOf(m) = RootOf(l) /\ m.messageNumber < l.messageNumber}

(* Late, reordered and damaged messages and ratchet steps of either side   *)
(* never cost an undamaged message: it can be read for as long as it is    *)
(* not further ahead than a skip may reach, nor so far behind that newer   *)
(* skipped keys can have pushed its own out.                               *)
UnreadIsReadable ==
    \A m \in sent \ read :
        (~ Refused(state[m.to], m) /\ Cardinality(PassedAfter(m)) < MaxStored)
            => Opens(state[m.to], m, TRUE)

(* No key encrypts two messages: nonces are derived from the message key,  *)
(* so a second use would repeat a nonce.                                   *)
KeysAreFresh ==
    \A l, m \in sent : l.messageKey = m.messageKey => l = m

(* The ratchet heals: of any three outputs mixed into a root in a row, the *)
(* first and the last have no key pair in common, so a private key that    *)
(* leaked is out of use after one step of its owner.                       *)
Heals ==
    \A p \in Parties :
        LET root == state[p].rootKey
        IN  \A i \in 1..Len(root) - 2 : root[i] \cap root[i + 2] = {}
=============================================================================
