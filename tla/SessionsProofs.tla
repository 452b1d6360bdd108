---------------------------- MODULE SessionsProofs ----------------------------
(***************************************************************************)
(* Theorems about Sessions, for any two users, any cap and any mode.       *)
(***************************************************************************)
EXTENDS Sessions, SequenceTheorems, TLAPS

-----------------------------------------------------------------------------
(* The inductive invariant, a conjunct per idea.                           *)

\* Sessions are held for somebody on record only.
RecordBehindSessions == \A u \in Users : sess[u] # << >> => known[u] # Unknown

\* A handshake on its way to a user was begun by the other.
HandshakesAreThePeers ==
    \A u \in Users :
        /\ pend[u] # NoSession => pend[u].by = u
        /\ \A i \in DOMAIN net[u] : net[u][i].x3dh # NoSession => net[u][i].x3dh.by = Peer(u)
        /\ \A i \in DOMAIN kept[u] : kept[u][i].x3dh # NoSession => kept[u][i].x3dh.by = Peer(u)

\* The one who yields in a tie always sends on the newest session.
YieldingUsesNewest == sess[Hi] # << >> => cur[Hi] = Len(sess[Hi])

IInv ==
    /\ TypeOK
    /\ RecordBehindSessions
    /\ HandshakesAreThePeers
    /\ YieldingUsesNewest
    /\ ~ mode.reAdd => SessionsMatchIdentity

-----------------------------------------------------------------------------
(* The invariant of an undisturbed exchange of plain frames.               *)

\* The only session a user begins when nothing is thrown away.
Own(u) == [by |-> u, n |-> 0, from |-> 0, to |-> 0]

\* What a user holds: their own first, if they began one, then the peer's.
HoldsInOrder(u) ==
    LET v == Peer(u)
    IN  /\ built[u] = 0 => sess[u] = << >> \/ sess[u] = <<Own(v)>>
        /\ built[u] # 0 => sess[u] = <<Own(u)>> \/ sess[u] = <<Own(u), Own(v)>>
        /\ sess[u] \in {<<Own(v)>>, <<Own(u), Own(v)>>} => built[v] # 0
        /\ cur[u] = IF u = Hi /\ sess[u] = <<Own(u), Own(v)>> THEN 2 ELSE 1

\* The peer can read what a user sent, or will once a frame ahead of it is read.
ReadableInTurn(u) ==
    LET v == Peer(u)
    IN  \A i \in DOMAIN net[v] :
            /\ net[v][i].session \in {Own(u), Own(v)} /\ ~ net[v][i].sealed
            /\ net[v][i].x3dh \in {NoSession, Own(u)}
            /\ net[v][i].session = Own(u) => built[u] # 0
            /\ net[v][i].session = Own(v) => built[v] # 0
            /\ net[v][i].session = Own(u) /\ Own(u) \notin Held(v) =>
                   \E j \in DOMAIN net[v] :
                       j <= i /\ net[v][j].session = Own(u) /\ net[v][j].x3dh = Own(u)

\* A user's own session, once begun and in use, is announced to the peer by the next send,
\* by a frame under way, or already.
Announced(u) ==
    LET v == Peer(u)
    IN  /\ pend[u] \in {NoSession, Own(u)}
        /\ sess[u] = << >> => net[v] = << >>
        /\ pend[u] = Own(u) => built[u] # 0 /\ net[v] = << >>
        /\ built[u] # 0 /\ Own(u) \notin Held(v) /\ sess[u][cur[u]] = Own(u) =>
               \/ pend[u] = Own(u)
               \/ \E j \in DOMAIN net[v] :
                      net[v][j].session = Own(u) /\ net[v][j].x3dh = Own(u)

Exchange ==
    /\ \A u \in Users :
           /\ identity[u] = 0 /\ known[u] \in {Unknown, 0}
           /\ built[u] \in {0, 1}
           /\ HoldsInOrder(u) /\ ReadableInTurn(u) /\ Announced(u)
    /\ LosesNothing

GlareInv == Undisturbed /\ ~ mode.token => Exchange

-----------------------------------------------------------------------------
(* Lemmas about the operators of Sessions.                                 *)

(* Each user is the other's peer.                                          *)
LEMMA Peers ==
    ASSUME SessionsAssumption
    PROVE  /\ \A u \in Users : Peer(u) \in Users /\ Peer(u) # u /\ Peer(Peer(u)) = u
           /\ Lo \in Users /\ Hi \in Users /\ Lo # Hi
           /\ \A u, v \in Users : v = u \/ v = Peer(u)
BY DEF SessionsAssumption, Users, Peer

(* A sequence's elements and places.                                       *)
LEMMA SeqFacts ==
    ASSUME NEW S, NEW s \in Seq(S)
    PROVE  /\ Len(s) \in Nat /\ DOMAIN s = 1 .. Len(s)
           /\ \A i \in DOMAIN s : i \in Nat /\ s[i] \in S
           /\ s = << >> <=> Len(s) = 0
BY LenProperties, ElementOfSeq, EmptySeq

(* What stands in a sequence after one more is appended.                   *)
LEMMA AppendFacts ==
    ASSUME NEW S, NEW s \in Seq(S), NEW e \in S
    PROVE  /\ Append(s, e) \in Seq(S) /\ Append(s, e) # << >>
           /\ Len(Append(s, e)) = Len(s) + 1
           /\ DOMAIN Append(s, e) = 1 .. Len(s) + 1
           /\ DOMAIN s = 1 .. Len(s) /\ Len(s) \in Nat
           /\ \A i \in DOMAIN s : Append(s, e)[i] = s[i]
           /\ Append(s, e)[Len(s) + 1] = e
<1>1. Len(s) \in Nat /\ DOMAIN s = 1 .. Len(s)
  BY LenProperties
<1>2. /\ Append(s, e) \in Seq(S) /\ Append(s, e) # << >>
      /\ Len(Append(s, e)) = Len(s) + 1
      /\ \A i \in 1 .. Len(s) : Append(s, e)[i] = s[i]
      /\ Append(s, e)[Len(s) + 1] = e
  BY AppendProperties
<1>3. DOMAIN Append(s, e) = 1 .. Len(s) + 1
  BY <1>2, LenProperties
<1> QED
  BY <1>1, <1>2, <1>3

(* What is left of a sequence when its head is taken.                      *)
LEMMA TailFacts ==
    ASSUME NEW S, NEW s \in Seq(S), s # << >>
    PROVE  /\ Tail(s) \in Seq(S) /\ Head(s) \in S
           /\ 1 \in DOMAIN s /\ Head(s) = s[1]
           /\ \A i \in DOMAIN Tail(s) :
                  i \in Nat \ {0} /\ i + 1 \in DOMAIN s /\ Tail(s)[i] = s[i + 1]
           /\ \A j \in DOMAIN s : j # 1 => j - 1 \in DOMAIN Tail(s) /\ Tail(s)[j - 1] = s[j]
<1>1. Len(s) \in Nat /\ Len(s) # 0 /\ DOMAIN s = 1 .. Len(s)
  BY EmptySeq, LenProperties
<1>2. /\ Head(s) \in S /\ Tail(s) \in Seq(S) /\ Len(Tail(s)) = Len(s) - 1
      /\ \A i \in 1 .. Len(Tail(s)) : Tail(s)[i] = s[i + 1]
  BY HeadTailProperties
<1>3. DOMAIN Tail(s) = 1 .. Len(s) - 1
  BY <1>2, LenProperties
<1>4. Head(s) = s[1]
  BY <1>1
<1>5. \A j \in DOMAIN s : j # 1 => j - 1 \in DOMAIN Tail(s) /\ Tail(s)[j - 1] = s[j]
  <2> SUFFICES ASSUME NEW j \in DOMAIN s, j # 1
               PROVE  j - 1 \in DOMAIN Tail(s) /\ Tail(s)[j - 1] = s[j]
    OBVIOUS
  <2>1. j \in 2 .. Len(s)
    BY <1>1
  <2>2. j - 1 \in 1 .. Len(s) - 1 /\ (j - 1) + 1 = j
    BY <1>1, <2>1
  <2> QED
    BY <1>2, <1>3, <2>2
<1> QED
  BY <1>1, <1>2, <1>3, <1>4, <1>5

(* What the cap leaves: no more than it allows, nothing new, and always    *)
(* the current session, at its index (capSessions).                        *)
LEMMA CapKeepsCurrent ==
    ASSUME SessionsAssumption, NEW S, NEW all \in Seq(S), NEW current \in DOMAIN all
    PROVE  LET r == CapSessions(all, current)
           IN  /\ r[1] \in Seq(S) /\ r[1] # << >>
               /\ Len(r[1]) <= MaxSessions
               /\ r[2] \in DOMAIN r[1] /\ r[2] \in Nat \ {0}
               /\ r[1][r[2]] = all[current]
               /\ \A i \in DOMAIN r[1] : \E k \in DOMAIN all : r[1][i] = all[k]
               /\ current = Len(all) => r[2] = Len(r[1])
               /\ (current = Len(all) /\ MaxSessions # 1) =>
                      \A k \in DOMAIN all : k = Len(all) - 1 =>
                          \E i \in DOMAIN r[1] : r[1][i] = all[k]
<1> DEFINE r == CapSessions(all, current)
           n == Len(all)
           cut == n - MaxSessions
           keep == SubSeq(all, cut + 1, n)
<1>1. /\ n \in Nat /\ DOMAIN all = 1 .. n
      /\ MaxSessions \in Nat /\ MaxSessions # 0
      /\ \A i \in 1 .. n : all[i] \in S
      /\ all # << >> /\ current \in 1 .. n
  BY LenProperties, ElementOfSeq, EmptySeq DEF SessionsAssumption
<1>2. CASE cut <= 0
  <2>1. r = <<all, current>>
    BY <1>2 DEF CapSessions
  <2> QED
    BY <1>1, <1>2, <2>1
<1>3. CASE ~ (cut <= 0)
  <2>1. cut \in 1 .. n - 1 /\ n - cut = MaxSessions /\ cut + 1 \in 2 .. n
    BY <1>1, <1>3
  <2>2. /\ keep \in Seq(S) /\ Len(keep) = MaxSessions
        /\ \A i \in 1 .. MaxSessions : keep[i] = all[cut + i]
    <3>1. \A i \in cut + 1 .. n : all[i] \in S
      BY <1>1, <2>1
    <3>2. /\ SubSeq(all, cut + 1, n) \in Seq(S)
          /\ Len(SubSeq(all, cut + 1, n)) = IF cut + 1 <= n THEN n - (cut + 1) + 1 ELSE 0
          /\ \A i \in 1 .. n - (cut + 1) + 1 : SubSeq(all, cut + 1, n)[i] = all[(cut + 1) + i - 1]
      BY <1>1, <2>1, <3>1, SubSeqProperties
    <3>3. n - (cut + 1) + 1 = MaxSessions /\ cut + 1 <= n
      BY <1>1, <2>1
    <3>4. \A i \in 1 .. MaxSessions : (cut + 1) + i - 1 = cut + i
      BY <1>1, <2>1
    <3> HIDE DEF cut
    <3> QED
      BY <3>2, <3>3, <3>4
  <2>3. DOMAIN keep = 1 .. MaxSessions /\ keep # << >>
    BY <1>1, <2>2, LenProperties, EmptySeq
  <2> HIDE DEF keep
  <2>4. \A i \in 1 .. MaxSessions : cut + i \in 1 .. n
    BY <1>1, <2>1
  <2>5. CASE current > cut
    <3>1. r = <<keep, current - cut>>
      BY <1>3, <2>5 DEF CapSessions, keep
    <3>2. current - cut \in 1 .. MaxSessions /\ cut + (current - cut) = current
      BY <1>1, <2>1, <2>5
    <3>3. MaxSessions # 1 => MaxSessions - 1 \in 1 .. MaxSessions /\ cut + (MaxSessions - 1) = n - 1
      BY <1>1, <2>1
    <3>4. current = n => current - cut = MaxSessions
      BY <1>1, <2>1
    <3>5. r[1] = keep /\ r[2] = current - cut
      BY <3>1
    <3> HIDE DEF cut, r
    <3>6. \A i \in DOMAIN r[1] : \E k \in DOMAIN all : r[1][i] = all[k]
      BY <1>1, <2>2, <2>3, <2>4, <3>5
    <3>7. (current = n /\ MaxSessions # 1) =>
              \A k \in DOMAIN all : k = n - 1 => \E i \in DOMAIN r[1] : r[1][i] = all[k]
      BY <1>1, <2>2, <2>3, <3>3, <3>5
    <3>8. r[1][r[2]] = all[current]
      BY <2>2, <3>2, <3>5
    <3> QED
      BY <1>1, <2>2, <2>3, <3>2, <3>4, <3>5, <3>6, <3>7, <3>8 DEF r
  <2>6. CASE ~ (current > cut)
    <3>1. r = <<[keep EXCEPT ![1] = all[current]], 1>>
      BY <1>3, <2>6 DEF CapSessions, keep
    <3>2. 1 \in 1 .. Len(keep) /\ all[current] \in S
      BY <1>1, <2>2
    <3>3. /\ r[1] \in Seq(S) /\ Len(r[1]) = MaxSessions
          /\ \A i \in 1 .. MaxSessions : r[1][i] = IF i = 1 THEN all[current] ELSE keep[i]
      BY <2>2, <3>1, <3>2, ExceptSeq
    <3>4. DOMAIN r[1] = 1 .. MaxSessions /\ r[1] # << >>
      BY <1>1, <3>3, LenProperties, EmptySeq
    <3>5. current # n /\ r[2] = 1
      BY <1>1, <2>1, <2>6, <3>1
    <3> HIDE DEF cut
    <3>6. r[1][1] = all[current] /\ 1 \in DOMAIN r[1]
      BY <1>1, <3>3, <3>4
    <3>7. \A i \in DOMAIN r[1] : i = 1 \/ r[1][i] = all[cut + i]
      BY <2>2, <3>3, <3>4
    <3>8. \A i \in DOMAIN r[1] : \E k \in DOMAIN all : r[1][i] = all[k]
      BY <1>1, <2>4, <3>4, <3>6, <3>7
    <3> QED
      BY <1>1, <3>3, <3>4, <3>5, <3>6, <3>8
  <2> QED
    BY <2>5, <2>6
<1> QED
  BY <1>2, <1>3

(* A user who holds sessions adds one: those it holds then are of those it *)
(* held and the new one, within the cap, and the one sent on is kept.      *)
LEMMA AddKeepsCurrent ==
    ASSUME SessionsAssumption, TypeOK, YieldingUsesNewest,
           NEW u \in Users, NEW s \in Session, sess[u] # << >>, AddSession(u, s)
    PROVE  /\ sess' \in [Users -> Seq(Session)]
           /\ cur' \in [Users -> Nat \ {0}]
           /\ sess'[u] # << >>
           /\ Len(sess'[u]) <= MaxSessions
           /\ cur'[u] \in DOMAIN sess'[u]
           /\ \A v \in Users : v # u => sess'[v] = sess[v] /\ cur'[v] = cur[v]
           /\ \A i \in DOMAIN sess'[u] : sess'[u][i] = s \/ sess'[u][i] \in Held(u)
           /\ u = Hi => cur'[u] = Len(sess'[u])
           /\ MaxSessions # 1 => sess[u][cur[u]] \in Held(u)'
<1> DEFINE all == Append(sess[u], s)
           at == AfterAdopting(u)
           r == CapSessions(all, at)
           n == Len(sess[u])
<1>1. /\ sess[u] \in Seq(Session) /\ n \in Nat /\ n # 0 /\ DOMAIN sess[u] = 1 .. n
      /\ cur[u] \in 1 .. n
  <2>1. sess[u] \in Seq(Session) /\ cur[u] \in DOMAIN sess[u]
    BY DEF TypeOK
  <2> QED
    BY <2>1, SeqFacts
<1>2. /\ all \in Seq(Session) /\ Len(all) = n + 1 /\ DOMAIN all = 1 .. n + 1
      /\ \A i \in 1 .. n : all[i] = sess[u][i]
      /\ all[n + 1] = s
  BY <1>1, AppendFacts
<1>3. at \in DOMAIN all /\ (u = Hi => at = Len(all)) /\ (u # Hi => at = cur[u])
  BY <1>1, <1>2, Peers DEF AfterAdopting, Users
<1>4. /\ sess' = [sess EXCEPT ![u] = r[1]] /\ cur' = [cur EXCEPT ![u] = r[2]]
  BY DEF AddSession
<1> HIDE DEF all, at
<1>5. /\ r[1] \in Seq(Session) /\ r[1] # << >>
      /\ Len(r[1]) <= MaxSessions
      /\ r[2] \in DOMAIN r[1] /\ r[2] \in Nat \ {0}
      /\ r[1][r[2]] = all[at]
      /\ \A i \in DOMAIN r[1] : \E k \in DOMAIN all : r[1][i] = all[k]
      /\ at = Len(all) => r[2] = Len(r[1])
      /\ (at = Len(all) /\ MaxSessions # 1) =>
             \A k \in DOMAIN all : k = Len(all) - 1 => \E i \in DOMAIN r[1] : r[1][i] = all[k]
  <2>1. all \in Seq(Session) /\ at \in DOMAIN all
    BY <1>2, <1>3
  <2> QED
    BY <2>1, CapKeepsCurrent
<1> HIDE DEF r
<1>6. /\ sess'[u] = r[1] /\ cur'[u] = r[2]
      /\ \A v \in Users : v # u => sess'[v] = sess[v] /\ cur'[v] = cur[v]
      /\ sess' \in [Users -> Seq(Session)] /\ cur' \in [Users -> Nat \ {0}]
  BY <1>4, <1>5 DEF TypeOK
<1>7. \A i \in DOMAIN sess'[u] : sess'[u][i] = s \/ sess'[u][i] \in Held(u)
  <2>1. \A k \in 1 .. n + 1 : k = n + 1 \/ k \in 1 .. n
    BY <1>1
  <2>2. \A k \in DOMAIN all : all[k] = s \/ all[k] \in Held(u)
    BY <1>1, <1>2, <2>1 DEF Held
  <2> QED
    BY <1>5, <1>6, <2>2
<1>8. MaxSessions # 1 => sess[u][cur[u]] \in Held(u)'
  <2> SUFFICES ASSUME MaxSessions # 1
               PROVE  \E i \in DOMAIN sess'[u] : sess'[u][i] = sess[u][cur[u]]
    BY DEF Held
  <2>1. CASE u = Hi
    <3>1. cur[u] = n /\ n \in DOMAIN all /\ n = Len(all) - 1 /\ all[n] = sess[u][n]
      BY <1>1, <1>2, <2>1 DEF YieldingUsesNewest
    <3> QED
      BY <1>3, <1>5, <1>6, <2>1, <3>1
  <2>2. CASE u # Hi
    <3>1. all[at] = sess[u][cur[u]]
      BY <1>1, <1>2, <1>3, <2>2
    <3> QED
      BY <1>5, <1>6, <3>1
  <2> QED
    BY <2>1, <2>2
<1> QED
  BY <1>3, <1>5, <1>6, <1>7, <1>8

(* A user who starts over holds one session and sends on it.               *)
LEMMA OnlyIsCurrent ==
    ASSUME SessionsAssumption, TypeOK, NEW u \in Users, NEW s \in Session, OnlySession(u, s)
    PROVE  /\ sess' \in [Users -> Seq(Session)]
           /\ cur' \in [Users -> Nat \ {0}]
           /\ sess'[u] = <<s>> /\ cur'[u] = 1
           /\ sess'[u] # << >> /\ Len(sess'[u]) = 1 /\ DOMAIN sess'[u] = {1} /\ sess'[u][1] = s
           /\ \A v \in Users : v # u => sess'[v] = sess[v] /\ cur'[v] = cur[v]
<1>1. PICK only : only = <<s>>
  OBVIOUS
<1>2. only \in Seq(Session) /\ only # << >> /\ Len(only) = 1 /\ DOMAIN only = {1} /\ only[1] = s
  BY <1>1
<1>3. sess' = [sess EXCEPT ![u] = only] /\ cur' = [cur EXCEPT ![u] = 1]
  BY <1>1 DEF OnlySession
<1>4. sess \in [Users -> Seq(Session)] /\ cur \in [Users -> Nat \ {0}]
  BY DEF TypeOK
<1>5. sess'[u] = only /\ cur'[u] = 1 /\ \A v \in Users : v # u => sess'[v] = sess[v] /\ cur'[v] = cur[v]
  BY <1>3, <1>4
<1>6. sess' \in [Users -> Seq(Session)] /\ cur' \in [Users -> Nat \ {0}]
  BY <1>2, <1>3, <1>4
<1> QED
  BY <1>1, <1>2, <1>5, <1>6

(* The frame a user takes is the first under way, and the others move up.  *)
LEMMA TakeFacts ==
    ASSUME TypeOK, NEW u \in Users, Take(u)
    PROVE  /\ net[u] \in Seq(Frame) /\ net[u] # << >>
           /\ Head(net[u]) \in Frame /\ 1 \in DOMAIN net[u] /\ Head(net[u]) = net[u][1]
           /\ net' \in [Users -> Seq(Frame)]
           /\ \A v \in Users : v # u => net'[v] = net[v]
           /\ \A i \in DOMAIN net'[u] :
                  i \in Nat \ {0} /\ i + 1 \in DOMAIN net[u] /\ net'[u][i] = net[u][i + 1]
           /\ \A j \in DOMAIN net[u] : j # 1 => j - 1 \in DOMAIN net'[u] /\ net'[u][j - 1] = net[u][j]
<1>1. net \in [Users -> Seq(Frame)] /\ net[u] \in Seq(Frame) /\ net[u] # << >>
  BY DEF TypeOK, Take
<1>2. net' = [net EXCEPT ![u] = Tail(net[u])]
  BY DEF Take
<1>3. net'[u] = Tail(net[u]) /\ \A v \in Users : v # u => net'[v] = net[v]
  BY <1>1, <1>2
<1>4. net' \in [Users -> Seq(Frame)]
  BY <1>1, <1>2, TailFacts
<1> QED
  BY <1>1, <1>3, <1>4, TailFacts

(* What a handshake of a typed frame is.                                   *)
LEMMA FrameFacts ==
    ASSUME NEW f \in Frame
    PROVE  /\ f.session \in Session /\ f.sealed \in BOOLEAN
           /\ f.x3dh \in Session \cup {NoSession}
           /\ f.x3dh # NoSession => f.x3dh \in Session /\ f.x3dh.from \in Nat /\ f.x3dh.to \in Nat
BY DEF Frame, Session

(* A commit leaves a well typed set of sessions, the others' alone, and in *)
(* it only what was held and the new session; the one sent on stays unless *)
(* the identity changed.                                                   *)
LEMMA CommitFacts ==
    ASSUME SessionsAssumption, TypeOK, YieldingUsesNewest,
           NEW u \in Users, NEW s \in Session, NEW changed \in BOOLEAN, Commit(u, s, changed)
    PROVE  /\ sess' \in [Users -> Seq(Session)]
           /\ cur' \in [Users -> Nat \ {0}]
           /\ known' \in [Users -> Nat \cup {Unknown}]
           /\ warned' \in [Users -> BOOLEAN]
           /\ known'[u] = s.from /\ known'[u] # Unknown
           /\ sess'[u] # << >> /\ Len(sess'[u]) <= MaxSessions
           /\ cur'[u] \in DOMAIN sess'[u]
           /\ \A v \in Users : v # u =>
                  sess'[v] = sess[v] /\ cur'[v] = cur[v] /\ known'[v] = known[v]
           /\ \A i \in DOMAIN sess'[u] :
                  sess'[u][i] = s \/ (~ changed /\ sess'[u][i] \in Held(u))
           /\ u = Hi => cur'[u] = Len(sess'[u])
           /\ (MaxSessions # 1 /\ ~ changed /\ sess[u] # << >>) => sess[u][cur[u]] \in Held(u)'
<1>1. s.from \in Nat /\ s.from # Unknown
  BY DEF Session, Unknown
<1>2. /\ known' \in [Users -> Nat \cup {Unknown}] /\ known'[u] = s.from
      /\ \A v \in Users : v # u => known'[v] = known[v]
      /\ warned' \in [Users -> BOOLEAN]
  <2>1. known' = [known EXCEPT ![u] = s.from] /\ warned' = [warned EXCEPT ![u] = warned[u] \/ changed]
    BY DEF Commit
  <2>2. known \in [Users -> Nat \cup {Unknown}] /\ warned \in [Users -> BOOLEAN]
    BY DEF TypeOK
  <2>3. (warned[u] \/ changed) \in BOOLEAN
    BY <2>2
  <2> HIDE DEF Unknown
  <2>4. warned' \in [Users -> BOOLEAN]
    BY <2>1, <2>2, <2>3
  <2> QED
    BY <1>1, <2>1, <2>2, <2>4
<1>3. CASE changed \/ sess[u] = << >>
  <2>1. OnlySession(u, s)
    BY <1>3 DEF Commit
  <2>2. 1 <= MaxSessions
    BY DEF SessionsAssumption
  <2>3. /\ sess' \in [Users -> Seq(Session)] /\ cur' \in [Users -> Nat \ {0}]
        /\ cur'[u] = 1 /\ sess'[u] # << >> /\ Len(sess'[u]) = 1
        /\ DOMAIN sess'[u] = {1} /\ sess'[u][1] = s
        /\ \A v \in Users : v # u => sess'[v] = sess[v] /\ cur'[v] = cur[v]
    BY <2>1, OnlyIsCurrent
  <2> QED
    BY <1>1, <1>2, <1>3, <2>2, <2>3
<1>4. CASE ~ changed /\ sess[u] # << >>
  <2>1. AddSession(u, s)
    BY <1>4 DEF Commit
  <2> QED
    BY <1>1, <1>2, <1>4, <2>1, AddKeepsCurrent
<1> QED
  BY <1>3, <1>4

-----------------------------------------------------------------------------
(* Types.                                                                  *)

(* The users start well typed.                                             *)
LEMMA InitType == ASSUME SessionsAssumption, Init PROVE TypeOK
<1>1. << >> \in Seq(Session) /\ << >> \in Seq(Frame) /\ Len(<< >>) = 0
  BY EmptySeq
<1>2. 0 <= MaxSessions
  BY DEF SessionsAssumption
<1>3. /\ mode \in Modes
      /\ sess \in [Users -> Seq(Session)] /\ \A u \in Users : sess[u] = << >>
      /\ net \in [Users -> Seq(Frame)] /\ kept \in [Users -> Seq(Frame)]
  BY <1>1 DEF Init
<1>4. /\ identity \in [Users -> Nat] /\ known \in [Users -> Nat \cup {Unknown}]
      /\ warned \in [Users -> BOOLEAN] /\ cur \in [Users -> Nat \ {0}]
      /\ pend \in [Users -> Session \cup {NoSession}]
      /\ built \in [Users -> Nat] /\ sent \in [Users -> Nat]
      /\ dropped \in [Users -> BOOLEAN]
      /\ resets \in Nat /\ faults \in Nat
  BY DEF Init
<1> QED
  BY <1>1, <1>2, <1>3, <1>4 DEF TypeOK

(* A step on a user's sessions that leaves a set fit to be stored, and     *)
(* touches no frame, keeps the types.                                      *)
LEMMA StoreTyped ==
    ASSUME TypeOK, NEW u \in Users,
           sess' \in [Users -> Seq(Session)], cur' \in [Users -> Nat \ {0}],
           known' \in [Users -> Nat \cup {Unknown}], warned' \in [Users -> BOOLEAN],
           Len(sess'[u]) <= MaxSessions, sess'[u] # << >> => cur'[u] \in DOMAIN sess'[u],
           \A v \in Users : v # u => sess'[v] = sess[v] /\ cur'[v] = cur[v],
           identity' \in [Users -> Nat], pend' \in [Users -> Session \cup {NoSession}],
           net' \in [Users -> Seq(Frame)],
           kept' \in [Users -> Seq(Frame)], dropped' \in [Users -> BOOLEAN],
           built' \in [Users -> Nat], sent' \in [Users -> Nat],
           mode' = mode, resets' \in Nat, faults' \in Nat
    PROVE  TypeOK'
BY DEF TypeOK

(* Every step keeps the state well typed.                                  *)
LEMMA NextType ==
    ASSUME SessionsAssumption, TypeOK, YieldingUsesNewest, [Next]_vars
    PROVE  TypeOK'
<1>1. ASSUME NEW u \in Users, AddContact(u)
      PROVE  TypeOK'
  <2>1. identity[Peer(u)] \in Nat
    BY Peers DEF TypeOK
  <2>2. known' \in [Users -> Nat \cup {Unknown}] /\ warned' \in [Users -> BOOLEAN]
    BY <1>1, <2>1 DEF AddContact, TypeOK
  <2> QED
    BY <1>1, <2>2 DEF AddContact, TypeOK, bounds
<1>2. ASSUME NEW u \in Users, EnsureSession(u)
      PROVE  TypeOK'
  <2> DEFINE s == [by |-> u, n |-> built[u], from |-> identity[u], to |-> identity[Peer(u)]]
  <2>1. identity[u] \in Nat /\ identity[Peer(u)] \in Nat /\ built[u] \in Nat
    BY Peers DEF TypeOK
  <2>2. s \in Session
    BY <2>1 DEF Session
  <2>3. OnlySession(u, s)
    BY <1>2 DEF EnsureSession
  <2>4. 1 <= MaxSessions
    BY DEF SessionsAssumption
  <2>5. /\ known' \in [Users -> Nat \cup {Unknown}] /\ warned' \in [Users -> BOOLEAN]
        /\ pend' = [pend EXCEPT ![u] = s] /\ built' \in [Users -> Nat]
    <3>1. built[u] + 1 \in Nat
      BY <2>1
    <3> QED
      BY <1>2, <2>1, <3>1 DEF EnsureSession, TypeOK
  <2> HIDE DEF s
  <2>6. pend' \in [Users -> Session \cup {NoSession}]
    BY <2>2, <2>5 DEF TypeOK
  <2> QED
    <3>1. /\ identity' \in [Users -> Nat] /\ net' \in [Users -> Seq(Frame)]
          /\ kept' \in [Users -> Seq(Frame)] /\ dropped' \in [Users -> BOOLEAN]
          /\ sent' \in [Users -> Nat] /\ mode' = mode /\ resets' \in Nat /\ faults' \in Nat
      BY <1>2 DEF EnsureSession, TypeOK
    <3>2. /\ sess' \in [Users -> Seq(Session)] /\ cur' \in [Users -> Nat \ {0}]
          /\ cur'[u] = 1 /\ DOMAIN sess'[u] = {1} /\ Len(sess'[u]) = 1
          /\ \A v \in Users : v # u => sess'[v] = sess[v] /\ cur'[v] = cur[v]
      BY <2>2, <2>3, OnlyIsCurrent
    <3>3. cur'[u] \in DOMAIN sess'[u] /\ Len(sess'[u]) <= MaxSessions
      BY <2>4, <3>2
    <3> QED
      BY <2>5, <2>6, <3>1, <3>2, <3>3, StoreTyped
<1>3. ASSUME NEW u \in Users, Send(u)
      PROVE  TypeOK'
  <2>1. PICK sealed \in BOOLEAN :
            net' = [net EXCEPT ![Peer(u)] =
                       Append(net[Peer(u)], [session |-> sess[u][cur[u]], x3dh |-> pend[u],
                                             sealed |-> sealed])]
    BY <1>3 DEF Send
  <2>2. sess[u][cur[u]] \in Session
    BY <1>3, SeqFacts DEF Send, TypeOK
  <2>3. [session |-> sess[u][cur[u]], x3dh |-> pend[u], sealed |-> sealed] \in Frame
    BY <2>2 DEF Frame, TypeOK
  <2>4. net' \in [Users -> Seq(Frame)]
    BY <2>1, <2>3, Peers, AppendFacts DEF TypeOK
  <2>5. pend' \in [Users -> Session \cup {NoSession}] /\ sent' \in [Users -> Nat]
    BY <1>3 DEF Send, TypeOK
  <2> QED
    BY <1>3, <2>4, <2>5 DEF Send, TypeOK, store
<1>4. ASSUME NEW u \in Users, ReadHeld(u)
      PROVE  TypeOK'
  <2>1. net' \in [Users -> Seq(Frame)]
    BY <1>4, TakeFacts DEF ReadHeld
  <2> QED
    BY <1>4, <2>1 DEF ReadHeld, TypeOK, store, bounds
<1>5. ASSUME NEW u \in Users, Retry(u)
      PROVE  TypeOK'
  <2>1. net' \in [Users -> Seq(Frame)] /\ Head(net[u]) \in Frame
    BY <1>5, TakeFacts DEF Retry
  <2>2. kept' = [kept EXCEPT ![u] = Append(kept[u], Head(net[u]))]
    BY <1>5 DEF Retry
  <2>3. kept' \in [Users -> Seq(Frame)]
    BY <2>1, <2>2, AppendFacts DEF TypeOK
  <2> QED
    BY <1>5, <2>1, <2>3 DEF Retry, TypeOK, store, bounds
<1>6. ASSUME NEW u \in Users, NEW changed \in BOOLEAN, NEW s \in Session, Take(u),
             \/ Commit(u, s, changed) /\ UNCHANGED dropped
             \/ Drop(u) /\ UNCHANGED store,
             UNCHANGED <<identity, pend, kept, bounds>>
      PROVE  TypeOK'
  <2>1. net' \in [Users -> Seq(Frame)]
    BY <1>6, TakeFacts
  <2>2. CASE Commit(u, s, changed) /\ UNCHANGED dropped
    <3>1. /\ identity' \in [Users -> Nat] /\ pend' \in [Users -> Session \cup {NoSession}]
          /\ kept' \in [Users -> Seq(Frame)] /\ dropped' \in [Users -> BOOLEAN]
          /\ built' \in [Users -> Nat] /\ sent' \in [Users -> Nat]
          /\ mode' = mode /\ resets' \in Nat /\ faults' \in Nat
      BY <1>6, <2>2 DEF TypeOK, bounds
    <3>2. /\ sess' \in [Users -> Seq(Session)] /\ cur' \in [Users -> Nat \ {0}]
          /\ known' \in [Users -> Nat \cup {Unknown}] /\ warned' \in [Users -> BOOLEAN]
          /\ cur'[u] \in DOMAIN sess'[u] /\ Len(sess'[u]) <= MaxSessions
          /\ \A v \in Users : v # u => sess'[v] = sess[v] /\ cur'[v] = cur[v]
      BY <2>2, CommitFacts
    <3> QED
      BY <2>1, <3>1, <3>2, StoreTyped
  <2>3. CASE Drop(u) /\ UNCHANGED store
    <3>1. dropped' \in [Users -> BOOLEAN]
      BY <2>3 DEF Drop, TypeOK
    <3> QED
      BY <1>6, <2>1, <2>3, <3>1 DEF TypeOK, store, bounds
  <2> QED
    BY <1>6, <2>2, <2>3
<1>7. ASSUME NEW u \in Users, Respond(u)
      PROVE  TypeOK'
  <2>1. Head(net[u]) \in Frame /\ Head(net[u]).x3dh \in Session
    BY <1>7, TakeFacts, FrameFacts DEF Respond
  <2>2. KeyChanged(u, Head(net[u])) \in BOOLEAN
    BY DEF KeyChanged
  <2> QED
    BY <1>6, <1>7, <2>1, <2>2 DEF Respond
<1>8. ASSUME NEW u \in Users, RespondSealed(u)
      PROVE  TypeOK'
  <2>1. Head(net[u]) \in Frame /\ Head(net[u]).x3dh \in Session
    BY <1>8, TakeFacts, FrameFacts DEF RespondSealed
  <2>2. KeyChanged(u, Head(net[u])) \in BOOLEAN
    BY DEF KeyChanged
  <2> QED
    BY <1>6, <1>8, <2>1, <2>2 DEF RespondSealed
<1>9. ASSUME NEW u \in Users, Redeliver(u)
      PROVE  TypeOK'
  <2>1. net' = [net EXCEPT ![u] = kept[u] \o net[u]] /\ kept' = [kept EXCEPT ![u] = << >>]
    BY <1>9 DEF Redeliver
  <2>2. net' \in [Users -> Seq(Frame)] /\ kept' \in [Users -> Seq(Frame)]
    BY <2>1, ConcatProperties, EmptySeq DEF TypeOK
  <2> QED
    BY <1>9, <2>2 DEF Redeliver, TypeOK, store, bounds
<1>10. ASSUME NEW u \in Users,
              /\ known' = [known EXCEPT ![u] = Unknown]
              /\ warned' = [warned EXCEPT ![u] = FALSE]
              /\ sess' = [sess EXCEPT ![u] = << >>]
              /\ cur' = [cur EXCEPT ![u] = 1]
       PROVE  /\ known' \in [Users -> Nat \cup {Unknown}] /\ warned' \in [Users -> BOOLEAN]
              /\ sess' \in [Users -> Seq(Session)] /\ cur' \in [Users -> Nat \ {0}]
              /\ sess'[u] = << >> /\ Len(sess'[u]) <= MaxSessions
              /\ \A v \in Users : v # u => sess'[v] = sess[v] /\ cur'[v] = cur[v]
  <2>1. /\ known \in [Users -> Nat \cup {Unknown}] /\ warned \in [Users -> BOOLEAN]
        /\ sess \in [Users -> Seq(Session)] /\ cur \in [Users -> Nat \ {0}]
    BY DEF TypeOK
  <2>2. << >> \in Seq(Session) /\ Len(<< >>) = 0 /\ 0 <= MaxSessions
    BY EmptySeq DEF SessionsAssumption
  <2> HIDE DEF Unknown
  <2>3. known' \in [Users -> Nat \cup {Unknown}] /\ warned' \in [Users -> BOOLEAN]
    BY <1>10, <2>1
  <2>4. sess' \in [Users -> Seq(Session)] /\ sess'[u] = << >>
    BY <1>10, <2>1, <2>2
  <2>5. cur' \in [Users -> Nat \ {0}]
    BY <1>10, <2>1
  <2>6. \A v \in Users : v # u => sess'[v] = sess[v] /\ cur'[v] = cur[v]
    BY <1>10, <2>1
  <2> QED
    BY <2>2, <2>3, <2>4, <2>5, <2>6
<1>11. ASSUME NEW u \in Users, RemoveContact(u)
       PROVE  TypeOK'
  <2>1. /\ identity' \in [Users -> Nat] /\ net' \in [Users -> Seq(Frame)]
        /\ pend' \in [Users -> Session \cup {NoSession}]
        /\ kept' \in [Users -> Seq(Frame)] /\ dropped' \in [Users -> BOOLEAN]
        /\ built' \in [Users -> Nat] /\ sent' \in [Users -> Nat]
        /\ mode' = mode /\ resets' \in Nat /\ faults' \in Nat
    BY <1>11 DEF RemoveContact, TypeOK
  <2>2. /\ known' \in [Users -> Nat \cup {Unknown}] /\ warned' \in [Users -> BOOLEAN]
        /\ sess' \in [Users -> Seq(Session)] /\ cur' \in [Users -> Nat \ {0}]
        /\ sess'[u] = << >> /\ Len(sess'[u]) <= MaxSessions
        /\ \A v \in Users : v # u => sess'[v] = sess[v] /\ cur'[v] = cur[v]
    BY <1>10, <1>11 DEF RemoveContact
  <2> QED
    BY <2>1, <2>2, StoreTyped
<1>12. ASSUME NEW u \in Users, Reinstall(u)
       PROVE  TypeOK'
  <2>1. identity' \in [Users -> Nat] /\ pend' \in [Users -> Session \cup {NoSession}]
    BY <1>12 DEF Reinstall, TypeOK
  <2>2. /\ net' \in [Users -> Seq(Frame)]
        /\ kept' \in [Users -> Seq(Frame)] /\ dropped' \in [Users -> BOOLEAN]
        /\ built' \in [Users -> Nat] /\ sent' \in [Users -> Nat]
        /\ mode' = mode /\ resets' \in Nat /\ faults' \in Nat
    BY <1>12 DEF Reinstall, TypeOK
  <2>3. /\ known' \in [Users -> Nat \cup {Unknown}] /\ warned' \in [Users -> BOOLEAN]
        /\ sess' \in [Users -> Seq(Session)] /\ cur' \in [Users -> Nat \ {0}]
        /\ sess'[u] = << >> /\ Len(sess'[u]) <= MaxSessions
        /\ \A v \in Users : v # u => sess'[v] = sess[v] /\ cur'[v] = cur[v]
    BY <1>10, <1>12 DEF Reinstall
  <2> QED
    BY <2>1, <2>2, <2>3, StoreTyped
<1>13. ASSUME NEW u \in Users, Restart(u)
       PROVE  TypeOK'
  BY <1>13 DEF Restart, TypeOK, store
<1>14. ASSUME NEW u \in Users, Lose(u)
       PROVE  TypeOK'
  <2>1. net' \in [Users -> Seq(Frame)]
    BY <1>14, TakeFacts DEF Lose
  <2> QED
    BY <1>14, <2>1 DEF Lose, TypeOK, store
<1>15. CASE UNCHANGED vars
  BY <1>15 DEF vars, TypeOK, store, bounds
<1> QED
  BY <1>1, <1>2, <1>3, <1>4, <1>5, <1>7, <1>8, <1>9, <1>11, <1>12, <1>13, <1>14, <1>15 DEF Next

-----------------------------------------------------------------------------
(* The inductive invariant.                                                *)

(* At first nobody holds, sends or knows anything.                         *)
LEMMA InitInv == ASSUME SessionsAssumption, Init PROVE IInv
<1>1. TypeOK
  BY InitType
<1>2. \A u \in Users : /\ DOMAIN sess[u] = {} /\ DOMAIN net[u] = {} /\ DOMAIN kept[u] = {}
                       /\ pend[u] = NoSession /\ sess[u] = << >>
  BY DEF Init
<1> QED
  BY <1>1, <1>2, Peers
  DEF IInv, RecordBehindSessions, HandshakesAreThePeers, YieldingUsesNewest, SessionsMatchIdentity

(* A step that takes a frame, and may keep it, leaves the handshakes of    *)
(* those under way the peer's.                                             *)
LEMMA TakeKeepsHandshakes ==
    ASSUME TypeOK, HandshakesAreThePeers, NEW u \in Users, Take(u),
           UNCHANGED pend,
           UNCHANGED kept \/ kept' = [kept EXCEPT ![u] = Append(@, Head(net[u]))]
    PROVE  HandshakesAreThePeers'
<1> SUFFICES ASSUME NEW v \in Users
             PROVE  /\ \A i \in DOMAIN net'[v] : net'[v][i].x3dh # NoSession => net'[v][i].x3dh.by = Peer(v)
                    /\ \A i \in DOMAIN kept'[v] : kept'[v][i].x3dh # NoSession => kept'[v][i].x3dh.by = Peer(v)
  BY DEF HandshakesAreThePeers
<1>1. ASSUME NEW i \in DOMAIN net'[v]
      PROVE  \E j \in DOMAIN net[v] : net'[v][i] = net[v][j]
  <2>1. CASE v = u
    <3>1. i + 1 \in DOMAIN net[v] /\ net'[v][i] = net[v][i + 1]
      BY <2>1, TakeFacts
    <3> QED
      BY <3>1
  <2>2. CASE v # u
    <3>1. net'[v] = net[v]
      BY <2>2, TakeFacts
    <3> QED
      BY <3>1
  <2> QED
    BY <2>1, <2>2
<1>2. CASE UNCHANGED kept
  BY <1>1, <1>2 DEF HandshakesAreThePeers
<1>3. CASE kept' = [kept EXCEPT ![u] = Append(kept[u], Head(net[u]))]
  <2>1. kept \in [Users -> Seq(Frame)] /\ kept[u] \in Seq(Frame)
    BY DEF TypeOK
  <2>2. Head(net[u]) \in Frame /\ Head(net[u]) = net[u][1] /\ 1 \in DOMAIN net[u]
    BY TakeFacts
  <2>3. CASE v # u
    <3>1. kept'[v] = kept[v]
      BY <1>3, <2>1, <2>3
    <3> QED
      BY <1>1, <3>1 DEF HandshakesAreThePeers
  <2>4. CASE v = u
    <3>1. kept'[u] = Append(kept[u], Head(net[u]))
      BY <1>3, <2>1
    <3>2. \A i \in DOMAIN kept'[u] : i \in DOMAIN kept[u] \/ kept'[u][i] = net[u][1]
      BY <2>1, <2>2, <3>1, AppendFacts
    <3>3. \A i \in DOMAIN kept[u] : kept'[u][i] = kept[u][i]
      BY <2>1, <2>2, <3>1, AppendFacts
    <3> QED
      BY <1>1, <2>2, <2>4, <3>2, <3>3 DEF HandshakesAreThePeers
  <2> QED
    BY <2>3, <2>4
<1> QED
  BY <1>2, <1>3

(* A step that leaves all sessions and records alone keeps what is said of *)
(* them.                                                                   *)
LEMMA StoreKept ==
    ASSUME RecordBehindSessions, YieldingUsesNewest, ~ mode.reAdd => SessionsMatchIdentity,
           UNCHANGED <<sess, cur, known, mode>>
    PROVE  /\ RecordBehindSessions' /\ YieldingUsesNewest'
           /\ (~ mode.reAdd => SessionsMatchIdentity)'
BY DEF RecordBehindSessions, YieldingUsesNewest, SessionsMatchIdentity

(* Answering a handshake, or dropping it, keeps the invariant: a changed   *)
(* identity takes the old sessions with it, and an unchanged one is that   *)
(* of the sessions held.                                                   *)
LEMMA AnswerInv ==
    ASSUME SessionsAssumption, IInv, TypeOK', NEW u \in Users, Take(u),
           NEW s \in Session, s = Head(net[u]).x3dh, s # NoSession,
           \/ Commit(u, s, KeyChanged(u, Head(net[u]))) /\ UNCHANGED dropped
           \/ Drop(u) /\ UNCHANGED store,
           UNCHANGED <<identity, pend, kept, bounds>>
    PROVE  IInv'
<1> USE DEF IInv
<1>1. HandshakesAreThePeers'
  BY TakeKeepsHandshakes
<1>2. UNCHANGED mode
  BY DEF bounds
<1>3. CASE Drop(u) /\ UNCHANGED store
  BY <1>1, <1>2, <1>3, StoreKept DEF store
<1>4. CASE Commit(u, s, KeyChanged(u, Head(net[u])))
  <2> DEFINE changed == KeyChanged(u, Head(net[u]))
  <2>1. changed \in BOOLEAN /\ (~ changed => known[u] \in {Unknown, s.from})
    BY DEF KeyChanged
  <2>2. s.by = Peer(u) /\ PeerIdentity(u, s) = s.from
    <3>1. Head(net[u]) = net[u][1] /\ 1 \in DOMAIN net[u]
      BY TakeFacts
    <3> QED
      BY <3>1, Peers DEF HandshakesAreThePeers, PeerIdentity
  <2> HIDE DEF changed
  <2>3. Commit(u, s, changed)
    BY <1>4 DEF changed
  <2>4. /\ known'[u] = s.from /\ known'[u] # Unknown
        /\ \A v \in Users : v # u => sess'[v] = sess[v] /\ cur'[v] = cur[v] /\ known'[v] = known[v]
        /\ \A i \in DOMAIN sess'[u] : sess'[u][i] = s \/ (~ changed /\ sess'[u][i] \in Held(u))
        /\ u = Hi => cur'[u] = Len(sess'[u])
    BY <2>1, <2>3, CommitFacts
  <2>5. RecordBehindSessions' /\ YieldingUsesNewest'
    BY <2>4, Peers DEF RecordBehindSessions, YieldingUsesNewest
  <2>6. ASSUME ~ mode.reAdd
        PROVE  SessionsMatchIdentity'
    <3> SUFFICES ASSUME NEW v \in Users, NEW i \in DOMAIN sess'[v]
                 PROVE  PeerIdentity(v, sess'[v][i]) = known'[v]
      BY DEF SessionsMatchIdentity, PeerIdentity
    <3>1. CASE v # u
      BY <2>4, <2>6, <3>1 DEF SessionsMatchIdentity
    <3>2. CASE v = u /\ sess'[u][i] = s
      BY <2>2, <2>4, <3>2
    <3>3. CASE v = u /\ ~ changed /\ sess'[u][i] \in Held(u)
      <4>1. PICK k \in DOMAIN sess[u] : sess'[u][i] = sess[u][k]
        BY <3>3 DEF Held
      <4>2. known[u] # Unknown
        <5>1. sess[u] # << >>
          BY <4>1
        <5> QED
          BY <5>1 DEF RecordBehindSessions
      <4> QED
        BY <2>1, <2>4, <2>6, <3>3, <4>1, <4>2 DEF SessionsMatchIdentity
    <3> QED
      BY <2>4, <3>1, <3>2, <3>3
  <2> QED
    BY <1>1, <1>2, <2>5, <2>6
<1> QED
  BY <1>3, <1>4

(* Every step keeps the invariant.                                         *)
LEMMA InvStep == ASSUME SessionsAssumption, IInv, [Next]_vars PROVE IInv'
<1> USE DEF IInv
<1>0. TypeOK'
  BY NextType
<1>1. ASSUME NEW u \in Users, AddContact(u)
      PROVE  IInv'
  <2>1. /\ UNCHANGED <<sess, cur, pend, net, kept, mode>>
        /\ known[u] = Unknown \/ mode.reAdd
        /\ known' = [known EXCEPT ![u] = identity[Peer(u)]]
    BY <1>1 DEF AddContact, bounds
  <2>2. identity[Peer(u)] # Unknown
    BY Peers DEF TypeOK, Unknown
  <2>3. known'[u] = identity[Peer(u)] /\ \A v \in Users : v # u => known'[v] = known[v]
    BY <2>1 DEF TypeOK
  <2>4. RecordBehindSessions' /\ YieldingUsesNewest' /\ HandshakesAreThePeers'
    BY <2>1, <2>2, <2>3 DEF RecordBehindSessions, YieldingUsesNewest, HandshakesAreThePeers
  <2>5. ASSUME ~ mode.reAdd
        PROVE  SessionsMatchIdentity'
    <3>1. known[u] = Unknown /\ sess[u] = << >> /\ DOMAIN sess[u] = {}
      BY <2>1, <2>5 DEF RecordBehindSessions
    <3> QED
      BY <2>1, <2>3, <2>5, <3>1 DEF SessionsMatchIdentity, PeerIdentity
  <2> QED
    BY <1>0, <2>1, <2>4, <2>5
<1>2. ASSUME NEW u \in Users, EnsureSession(u)
      PROVE  IInv'
  <2> DEFINE s == [by |-> u, n |-> built[u], from |-> identity[u], to |-> identity[Peer(u)]]
  <2>1. /\ UNCHANGED <<net, kept, mode>> /\ OnlySession(u, s)
        /\ known' = [known EXCEPT ![u] = identity[Peer(u)]]
        /\ pend' = [pend EXCEPT ![u] = s]
    BY <1>2 DEF EnsureSession
  <2>2. identity[Peer(u)] # Unknown /\ s \in Session
    BY Peers DEF TypeOK, Unknown, Session
  <2>3. s.by = u /\ s.to = identity[Peer(u)]
    OBVIOUS
  <2> HIDE DEF s
  <2>4. /\ known'[u] = s.to /\ pend'[u] = s
        /\ \A v \in Users : v # u => known'[v] = known[v] /\ pend'[v] = pend[v]
    BY <2>1, <2>3 DEF TypeOK
  <2>5. /\ Len(sess'[u]) = 1 /\ DOMAIN sess'[u] = {1} /\ sess'[u][1] = s /\ cur'[u] = 1
        /\ \A v \in Users : v # u => sess'[v] = sess[v] /\ cur'[v] = cur[v]
    BY <2>1, <2>2, OnlyIsCurrent
  <2>a. RecordBehindSessions'
    BY <2>2, <2>3, <2>4, <2>5 DEF RecordBehindSessions
  <2>b. YieldingUsesNewest'
    BY <2>5, Peers DEF YieldingUsesNewest
  <2>c. HandshakesAreThePeers'
    BY <2>1, <2>3, <2>4 DEF HandshakesAreThePeers
  <2>6. RecordBehindSessions' /\ YieldingUsesNewest' /\ HandshakesAreThePeers'
    BY <2>a, <2>b, <2>c
  <2>7. ~ mode.reAdd => SessionsMatchIdentity'
    BY <2>3, <2>4, <2>5 DEF SessionsMatchIdentity, PeerIdentity
  <2> QED
    BY <1>0, <2>1, <2>6, <2>7
<1>3. ASSUME NEW u \in Users, Send(u)
      PROVE  IInv'
  <2>1. UNCHANGED <<sess, cur, known, mode, kept>> /\ pend' = [pend EXCEPT ![u] = NoSession]
    BY <1>3 DEF Send, store
  <2>2. PICK sealed \in BOOLEAN :
            net' = [net EXCEPT ![Peer(u)] =
                       Append(net[Peer(u)], [session |-> sess[u][cur[u]], x3dh |-> pend[u],
                                             sealed |-> sealed])]
    BY <1>3 DEF Send
  <2> DEFINE f == [session |-> sess[u][cur[u]], x3dh |-> pend[u], sealed |-> sealed]
  <2>3. f.x3dh = pend[u] /\ f \in Frame
    <3>1. sess[u][cur[u]] \in Session
      BY <1>3, SeqFacts DEF Send, TypeOK
    <3> QED
      BY <3>1 DEF Frame, TypeOK
  <2> HIDE DEF f
  <2>4. net[Peer(u)] \in Seq(Frame) /\ net'[Peer(u)] = Append(net[Peer(u)], f)
    BY <2>2, Peers DEF TypeOK, f
  <2>5. \A i \in DOMAIN net'[Peer(u)] :
            net'[Peer(u)][i] = f \/ (i \in DOMAIN net[Peer(u)] /\ net'[Peer(u)][i] = net[Peer(u)][i])
    BY <2>3, <2>4, AppendFacts
  <2>6. \A v \in Users : v # Peer(u) => net'[v] = net[v]
    BY <2>2 DEF TypeOK
  <2>7. \A v \in Users : pend'[v] # NoSession => pend'[v] = pend[v]
    BY <2>1 DEF TypeOK
  <2>8. HandshakesAreThePeers'
    BY <2>1, <2>3, <2>5, <2>6, <2>7, Peers DEF HandshakesAreThePeers
  <2> QED
    BY <1>0, <2>1, <2>8, StoreKept
<1>4. ASSUME NEW u \in Users, ReadHeld(u) \/ Retry(u)
      PROVE  IInv'
  <2>1. /\ Take(u) /\ UNCHANGED <<sess, cur, known, mode, pend>>
        /\ UNCHANGED kept \/ kept' = [kept EXCEPT ![u] = Append(@, Head(net[u]))]
    BY <1>4 DEF ReadHeld, Retry, store, bounds
  <2> QED
    BY <1>0, <2>1, StoreKept, TakeKeepsHandshakes
<1>5. ASSUME NEW u \in Users, Respond(u) \/ RespondSealed(u)
      PROVE  IInv'
  <2>1. Take(u) /\ Head(net[u]).x3dh # NoSession
    BY <1>5 DEF Respond, RespondSealed
  <2>2. Head(net[u]).x3dh \in Session
    BY <2>1, TakeFacts, FrameFacts
  <2> QED
    BY <1>0, <1>5, <2>1, <2>2, AnswerInv DEF Respond, RespondSealed
<1>6. ASSUME NEW u \in Users, Redeliver(u)
      PROVE  IInv'
  <2>1. /\ UNCHANGED <<sess, cur, known, mode, pend>>
        /\ net' = [net EXCEPT ![u] = kept[u] \o net[u]] /\ kept' = [kept EXCEPT ![u] = << >>]
    BY <1>6 DEF Redeliver, store, bounds
  <2>2. kept[u] \in Seq(Frame) /\ net[u] \in Seq(Frame)
    BY DEF TypeOK
  <2>3. net'[u] = kept[u] \o net[u] /\ kept'[u] = << >> /\ DOMAIN kept'[u] = {}
    BY <2>1 DEF TypeOK
  <2>4. \A v \in Users : v # u => net'[v] = net[v] /\ kept'[v] = kept[v]
    BY <2>1 DEF TypeOK
  <2>5. \A i \in DOMAIN net'[u] :
            \/ \E k \in DOMAIN kept[u] : net'[u][i] = kept[u][k]
            \/ \E k \in DOMAIN net[u] : net'[u][i] = net[u][k]
    <3> DEFINE a == Len(kept[u])
               b == Len(net[u])
    <3>1. /\ a \in Nat /\ b \in Nat /\ DOMAIN kept[u] = 1 .. a /\ DOMAIN net[u] = 1 .. b
      BY <2>2, SeqFacts
    <3>2. /\ kept[u] \o net[u] \in Seq(Frame) /\ Len(kept[u] \o net[u]) = a + b
          /\ \A i \in 1 .. a + b : (kept[u] \o net[u])[i] = IF i <= a THEN kept[u][i] ELSE net[u][i - a]
      BY <2>2, ConcatProperties
    <3> HIDE DEF a, b
    <3>3. /\ net'[u] \in Seq(Frame) /\ Len(net'[u]) = a + b
          /\ \A i \in 1 .. a + b : net'[u][i] = IF i <= a THEN kept[u][i] ELSE net[u][i - a]
      BY <2>3, <3>2
    <3>4. DOMAIN net'[u] = 1 .. a + b
      BY <3>3, LenProperties
    <3> SUFFICES ASSUME NEW i \in 1 .. a + b
                 PROVE  \/ \E k \in DOMAIN kept[u] : net'[u][i] = kept[u][k]
                        \/ \E k \in DOMAIN net[u] : net'[u][i] = net[u][k]
      BY <3>4
    <3>5. CASE i <= a
      <4>1. i \in 1 .. a /\ net'[u][i] = kept[u][i]
        BY <3>1, <3>3, <3>5
      <4> QED
        BY <3>1, <4>1
    <3>6. CASE ~ (i <= a)
      <4>1. i - a \in 1 .. b /\ net'[u][i] = net[u][i - a]
        BY <3>1, <3>3, <3>6
      <4> QED
        BY <3>1, <4>1
    <3> QED
      BY <3>5, <3>6
  <2>6. HandshakesAreThePeers'
    <3>1. \A v \in Users : \A i \in DOMAIN net'[v] :
              \/ \E k \in DOMAIN kept[v] : net'[v][i] = kept[v][k]
              \/ \E k \in DOMAIN net[v] : net'[v][i] = net[v][k]
      BY <2>4, <2>5
    <3>2. \A v \in Users : DOMAIN kept'[v] = {} \/ kept'[v] = kept[v]
      BY <2>3, <2>4
    <3>3. UNCHANGED pend
      BY <2>1
    <3> QED
      BY <3>1, <3>2, <3>3 DEF HandshakesAreThePeers
  <2> QED
    BY <1>0, <2>1, <2>6, StoreKept
<1>7. ASSUME NEW u \in Users, RemoveContact(u) \/ Reinstall(u)
      PROVE  IInv'
  <2>1. /\ UNCHANGED <<net, kept, mode>>
        /\ known' = [known EXCEPT ![u] = Unknown]
        /\ sess' = [sess EXCEPT ![u] = << >>]
        /\ cur' = [cur EXCEPT ![u] = 1]
        /\ UNCHANGED pend \/ pend' = [pend EXCEPT ![u] = NoSession]
    BY <1>7 DEF RemoveContact, Reinstall
  <2>2. /\ sess'[u] = << >> /\ DOMAIN sess'[u] = {}
        /\ \A v \in Users : v # u => sess'[v] = sess[v] /\ cur'[v] = cur[v] /\ known'[v] = known[v]
    BY <2>1 DEF TypeOK
  <2>3. \A v \in Users : pend'[v] # NoSession => pend'[v] = pend[v]
    BY <2>1 DEF TypeOK
  <2>4. HandshakesAreThePeers'
    BY <2>1, <2>3 DEF HandshakesAreThePeers
  <2>5. RecordBehindSessions' /\ YieldingUsesNewest' /\ (~ mode.reAdd => SessionsMatchIdentity')
    BY <2>2, Peers DEF RecordBehindSessions, YieldingUsesNewest, SessionsMatchIdentity, PeerIdentity
  <2> QED
    BY <1>0, <2>1, <2>4, <2>5
<1>8. ASSUME NEW u \in Users, Restart(u)
      PROVE  IInv'
  <2>1. UNCHANGED <<sess, cur, known, mode, net, kept>> /\ pend' = [pend EXCEPT ![u] = NoSession]
    BY <1>8 DEF Restart, store
  <2>2. \A v \in Users : pend'[v] # NoSession => pend'[v] = pend[v]
    BY <2>1 DEF TypeOK
  <2>3. HandshakesAreThePeers'
    BY <2>1, <2>2 DEF HandshakesAreThePeers
  <2> QED
    BY <1>0, <2>1, <2>3, StoreKept
<1>9. ASSUME NEW u \in Users, Lose(u)
      PROVE  IInv'
  <2>1. Take(u) /\ UNCHANGED <<sess, cur, known, mode, pend, kept>>
    BY <1>9 DEF Lose, store
  <2> QED
    BY <1>0, <2>1, StoreKept, TakeKeepsHandshakes
<1>10. CASE UNCHANGED vars
  <2>1. UNCHANGED <<sess, cur, known, mode, pend, net, kept>>
    BY <1>10 DEF vars, store, bounds
  <2> QED
    BY <1>0, <2>1, StoreKept DEF HandshakesAreThePeers
<1> QED
  BY <1>1, <1>2, <1>3, <1>4, <1>5, <1>6, <1>7, <1>8, <1>9, <1>10 DEF Next

(* The strengthened invariant holds in every reachable state.              *)
THEOREM InvHolds == Spec => []IInv
<1>1. Init => IInv
  BY InitInv, SessionsAssumption
<1>2. IInv /\ [Next]_vars => IInv'
  BY InvStep, SessionsAssumption
<1> QED
  BY <1>1, <1>2, PTL DEF Spec

(* What the session store and the frames on their way may hold, for any    *)
(* cap and any mode: within the cap, and the session in use among those    *)
(* held.                                                                   *)
THEOREM TypeCorrect == Spec => []TypeOK
<1>1. IInv => TypeOK
  BY DEF IInv
<1> QED
  BY <1>1, InvHolds, PTL

(* Unless a contact may be added again over its own record, every session  *)
(* held for it belongs to the identity on record (replaceSessionSet).      *)
THEOREM IdentityHolds == Spec => [](~ mode.reAdd => SessionsMatchIdentity)
<1>1. IInv => (~ mode.reAdd => SessionsMatchIdentity)
  BY DEF IInv
<1> QED
  BY <1>1, InvHolds, PTL

(* With room for more than one session, as the program has for three, the  *)
(* session in use is given up only with the contact or its identity, in    *)
(* every mode (capSessions, addSession).                                   *)
THEOREM CurrentHolds == ASSUME MaxSessions # 1 PROVE Spec => CurrentIsKept
<1> DEFINE Step == \A u \in Users :
               (sess[u] # << >> /\ known'[u] = known[u]) => sess[u][cur[u]] \in Held(u)'
<1>1. IInv /\ [Next]_vars => [Step]_vars
  <2> SUFFICES ASSUME IInv, Next, NEW v \in Users, sess[v] # << >>, known'[v] = known[v]
               PROVE  sess[v][cur[v]] \in Held(v)'
    OBVIOUS
  <2> USE DEF IInv
  <2>1. PICK u \in Users :
            \/ AddContact(u) \/ EnsureSession(u) \/ Send(u)
            \/ ReadHeld(u) \/ Retry(u) \/ Respond(u) \/ RespondSealed(u) \/ Redeliver(u)
            \/ RemoveContact(u) \/ Reinstall(u) \/ Restart(u) \/ Lose(u)
    BY DEF Next
  <2>2. sess[v] \in Seq(Session) /\ cur[v] \in DOMAIN sess[v] /\ known[v] # Unknown
    BY DEF TypeOK, RecordBehindSessions
  <2>3. ASSUME sess'[v] = sess[v]
        PROVE  sess[v][cur[v]] \in Held(v)'
    BY <2>2, <2>3 DEF Held
  <2>4. CASE AddContact(u) \/ Send(u) \/ ReadHeld(u) \/ Retry(u) \/ Redeliver(u) \/ Restart(u) \/ Lose(u)
    BY <2>3, <2>4 DEF AddContact, Send, ReadHeld, Retry, Redeliver, Restart, Lose, store
  <2>5. CASE EnsureSession(u)
    <3>1. v # u /\ sess' = [sess EXCEPT ![u] = sess'[u]]
      BY <2>5 DEF EnsureSession, OnlySession, TypeOK
    <3> QED
      BY <2>3, <3>1 DEF TypeOK
  <2>6. CASE RemoveContact(u) \/ Reinstall(u)
    <3>1. known'[u] = Unknown /\ sess' = [sess EXCEPT ![u] = << >>]
      BY <2>6 DEF RemoveContact, Reinstall, TypeOK
    <3> QED
      BY <2>2, <2>3, <3>1 DEF TypeOK
  <2>7. CASE Respond(u) \/ RespondSealed(u)
    <3> DEFINE f == Head(net[u])
               changed == KeyChanged(u, f)
    <3>1. Take(u) /\ f.x3dh # NoSession
      BY <2>7 DEF Respond, RespondSealed
    <3>2. f.x3dh \in Session /\ changed \in BOOLEAN
      BY <3>1, TakeFacts, FrameFacts DEF KeyChanged
    <3>3. CASE UNCHANGED store
      BY <2>3, <3>3 DEF store
    <3>4. CASE Commit(u, f.x3dh, changed)
      <4>1. changed => known'[u] # known[u]
        BY <3>1, <3>2, <3>4 DEF KeyChanged, Commit, TypeOK
      <4> HIDE DEF changed, f
      <4>2. /\ \A w \in Users : w # u => sess'[w] = sess[w]
            /\ (~ changed /\ sess[u] # << >>) => sess[u][cur[u]] \in Held(u)'
        BY <3>2, <3>4, CommitFacts, SessionsAssumption
      <4> QED
        BY <2>3, <4>1, <4>2
    <3> QED
      BY <2>7, <3>3, <3>4 DEF Respond, RespondSealed
  <2> QED
    BY <2>1, <2>4, <2>5, <2>6, <2>7
<1> QED
  BY <1>1, InvHolds, PTL DEF Spec, CurrentIsKept

-----------------------------------------------------------------------------
(* Crossed first messages.                                                 *)

(* The two sessions of an undisturbed exchange are two, and sessions.      *)
LEMMA OwnFacts ==
    ASSUME SessionsAssumption, NEW u \in Users
    PROVE  /\ Own(u) \in Session /\ Own(u) # NoSession
           /\ Own(u).by = u /\ Own(u).from = 0 /\ Own(u).to = 0
           /\ Own(u) # Own(Peer(u))
<1>1. Own(u).by = u /\ Own(Peer(u)).by = Peer(u) /\ Peer(u) # u
  BY Peers DEF Own
<1>2. Own(u) # NoSession
  <2>1. DOMAIN Own(u) = {"by", "n", "from", "to"} /\ DOMAIN NoSession = {"by"}
    BY DEF Own, NoSession
  <2>2. "n" \in DOMAIN Own(u) /\ "n" \notin DOMAIN NoSession
    BY <2>1
  <2> QED
    BY <2>2
<1> QED
  BY <1>1, <1>2 DEF Own, Session

(* What is in a set of sessions held in order.                             *)
LEMMA HeldInOrder ==
    ASSUME SessionsAssumption, NEW u \in Users, HoldsInOrder(u)
    PROVE  /\ built[u] # 0 <=> Own(u) \in Held(u)
           /\ Own(Peer(u)) \in Held(u) => built[Peer(u)] # 0
           /\ Held(u) \subseteq {Own(u), Own(Peer(u))}
           /\ sess[u] = << >> => built[u] = 0
           /\ Own(Peer(u)) \notin Held(u) =>
                  sess[u] = IF built[u] = 0 THEN << >> ELSE <<Own(u)>>
           /\ sess[u] # << >> => /\ cur[u] \in DOMAIN sess[u]
                                 /\ sess[u][cur[u]] \in Held(u)
<1> DEFINE a == Own(u)
           b == Own(Peer(u))
<1>1. a # b
  BY OwnFacts
<1>2. CASE sess[u] = << >>
  <2>1. Held(u) = {}
    BY <1>2 DEF Held
  <2>2. << >> # <<a>> /\ << >> # <<a, b>>
    OBVIOUS
  <2> QED
    BY <1>2, <2>1, <2>2 DEF HoldsInOrder
<1>3. CASE sess[u] = <<b>>
  <2>1. Held(u) = {b} /\ DOMAIN sess[u] = {1}
    BY <1>3 DEF Held
  <2>2. <<b>> # <<a>> /\ <<b>> # <<a, b>> /\ <<b>> # << >>
    BY <1>1
  <2>3. cur[u] = 1 /\ built[u] = 0 /\ built[Peer(u)] # 0
    BY <1>3, <2>2 DEF HoldsInOrder
  <2> QED
    BY <1>1, <1>3, <2>1, <2>2, <2>3
<1>4. CASE sess[u] = <<a>>
  <2>1. Held(u) = {a} /\ DOMAIN sess[u] = {1}
    BY <1>4 DEF Held
  <2>2. <<a>> # <<b>> /\ <<a>> # <<a, b>> /\ <<a>> # << >>
    BY <1>1
  <2>3. cur[u] = 1 /\ built[u] # 0
    BY <1>4, <2>2 DEF HoldsInOrder
  <2> QED
    BY <1>1, <1>4, <2>1, <2>2, <2>3
<1>5. CASE sess[u] = <<a, b>>
  <2>1. Held(u) = {a, b} /\ DOMAIN sess[u] = {1, 2}
    BY <1>5 DEF Held
  <2>2. <<a, b>> # <<b>> /\ <<a, b>> # << >>
    OBVIOUS
  <2>3. cur[u] \in {1, 2} /\ built[u] # 0 /\ built[Peer(u)] # 0
    BY <1>5, <2>2 DEF HoldsInOrder
  <2> QED
    BY <1>1, <1>5, <2>1, <2>2, <2>3
<1> QED
  BY <1>2, <1>3, <1>4, <1>5 DEF HoldsInOrder

(* Without a token a user sends plain frames, on the session in use.       *)
LEMMA SendFacts ==
    ASSUME SessionsAssumption, TypeOK, NEW u \in Users, ~ mode.token, Send(u)
    PROVE  LET v == Peer(u)
               n == Len(net[v])
           IN  /\ n \in Nat /\ DOMAIN net[v] = 1 .. n
               /\ \A w \in Users : w # v => net'[w] = net[w]
               /\ net'[v] # << >> /\ DOMAIN net'[v] = 1 .. n + 1
               /\ \A i \in DOMAIN net[v] : net'[v][i] = net[v][i]
               /\ net'[v][n + 1].session = sess[u][cur[u]]
               /\ net'[v][n + 1].x3dh = pend[u]
               /\ ~ net'[v][n + 1].sealed
<1> DEFINE v == Peer(u)
           f == [session |-> sess[u][cur[u]], x3dh |-> pend[u], sealed |-> FALSE]
<1>1. net' = [net EXCEPT ![v] = Append(net[v], f)]
  BY DEF Send
<1>2. f.session = sess[u][cur[u]] /\ f.x3dh = pend[u] /\ ~ f.sealed
  OBVIOUS
<1>3. f \in Frame
  <2>1. sess[u][cur[u]] \in Session
    BY SeqFacts DEF Send, TypeOK
  <2> QED
    BY <2>1 DEF Frame, TypeOK
<1> HIDE DEF f
<1>4. net[v] \in Seq(Frame) /\ net'[v] = Append(net[v], f)
  BY <1>1, Peers DEF TypeOK
<1>5. \A w \in Users : w # v => net'[w] = net[w]
  BY <1>1 DEF TypeOK
<1> QED
  BY <1>2, <1>3, <1>4, <1>5, AppendFacts

(* An undisturbed exchange goes on undisturbed when a user sends: what is  *)
(* sent on a session the peer lacks follows what brings it.                *)
LEMMA SendExchange ==
    ASSUME SessionsAssumption, TypeOK, Exchange, ~ mode.token, NEW u \in Users, Send(u)
    PROVE  Exchange'
<1> DEFINE v == Peer(u)
           n == Len(net[v])
<1>1. /\ UNCHANGED <<identity, known, sess, cur, kept, built, dropped>>
      /\ sess[u] # << >> /\ pend' = [pend EXCEPT ![u] = NoSession]
  BY DEF Send, store
<1>2. pend'[u] = NoSession /\ \A w \in Users : w # u => pend'[w] = pend[w]
  BY <1>1 DEF TypeOK
<1>3. v \in Users /\ v # u /\ Peer(v) = u /\ \A w \in Users : w \in {u, v}
  BY Peers
<1>4. /\ n \in Nat /\ DOMAIN net[v] = 1 .. n
      /\ net'[u] = net[u]
      /\ net'[v] # << >> /\ DOMAIN net'[v] = 1 .. n + 1
      /\ \A i \in DOMAIN net[v] : net'[v][i] = net[v][i]
      /\ net'[v][n + 1].session = sess[u][cur[u]]
      /\ net'[v][n + 1].x3dh = pend[u]
      /\ ~ net'[v][n + 1].sealed
  BY <1>3, SendFacts
<1>5. Held(u)' = Held(u) /\ Held(v)' = Held(v)
  BY <1>1 DEF Held
<1>6. /\ HoldsInOrder(u) /\ HoldsInOrder(v) /\ ReadableInTurn(u) /\ ReadableInTurn(v)
      /\ Announced(u) /\ Announced(v) /\ LosesNothing
  BY <1>3 DEF Exchange
<1> HIDE DEF v, n
<1>7. HoldsInOrder(u)' /\ HoldsInOrder(v)'
  BY <1>1, <1>6 DEF HoldsInOrder, Own
<1>8. ReadableInTurn(v)' /\ Announced(v)'
  BY <1>1, <1>2, <1>3, <1>4, <1>5, <1>6 DEF ReadableInTurn, Announced, Own
<1>9. /\ sess[u][cur[u]] \in {Own(u), Own(v)}
      /\ sess[u][cur[u]] = Own(u) => built[u] # 0
      /\ sess[u][cur[u]] = Own(v) => built[v] # 0
  BY <1>1, <1>6, HeldInOrder DEF v
<1>10. n + 1 \in DOMAIN net'[v] /\ \A i \in DOMAIN net[v] : i \in DOMAIN net'[v] /\ i <= n + 1
  BY <1>4
<1>11. sess[u][cur[u]] = Own(u) /\ Own(u) \notin Held(v) =>
           \E j \in DOMAIN net'[v] :
               j <= n + 1 /\ net'[v][j].session = Own(u) /\ net'[v][j].x3dh = Own(u)
  <2> SUFFICES ASSUME sess[u][cur[u]] = Own(u), Own(u) \notin Held(v)
               PROVE  \E j \in DOMAIN net'[v] :
                          j <= n + 1 /\ net'[v][j].session = Own(u) /\ net'[v][j].x3dh = Own(u)
    OBVIOUS
  <2>1. CASE pend[u] = Own(u)
    BY <1>4, <1>10, <2>1
  <2>2. CASE \E j \in DOMAIN net[v] : net[v][j].session = Own(u) /\ net[v][j].x3dh = Own(u)
    BY <1>4, <1>10, <2>2
  <2> QED
    BY <1>6, <1>9, <2>1, <2>2 DEF Announced, v
<1>12. ReadableInTurn(u)'
  <2> SUFFICES ASSUME NEW i \in DOMAIN net'[v]
               PROVE  /\ net'[v][i].session \in {Own(u), Own(v)} /\ ~ net'[v][i].sealed
                      /\ net'[v][i].x3dh \in {NoSession, Own(u)}
                      /\ net'[v][i].session = Own(u) => built'[u] # 0
                      /\ net'[v][i].session = Own(v) => built'[v] # 0
                      /\ net'[v][i].session = Own(u) /\ Own(u) \notin Held(v)' =>
                             \E j \in DOMAIN net'[v] :
                                 j <= i /\ net'[v][j].session = Own(u) /\ net'[v][j].x3dh = Own(u)
    BY DEF ReadableInTurn, Own, v
  <2>1. CASE i \in DOMAIN net[v]
    BY <1>1, <1>4, <1>5, <1>6, <1>10, <2>1 DEF ReadableInTurn, v
  <2>2. CASE i = n + 1
    BY <1>1, <1>4, <1>5, <1>6, <1>9, <1>11, <2>2 DEF Announced, v
  <2> QED
    BY <1>4, <2>1, <2>2
<1>13. Announced(u)'
  <2>1. NoSession # Own(u)
    BY OwnFacts
  <2>2. /\ pend'[u] \in {NoSession, Own(u)} /\ pend'[u] # Own(u)
        /\ sess'[u] # << >>
        /\ (Own(u) \notin Held(v)' /\ sess'[u][cur'[u]] = Own(u)) =>
               \E j \in DOMAIN net'[v] : net'[v][j].session = Own(u) /\ net'[v][j].x3dh = Own(u)
    BY <1>1, <1>2, <1>5, <1>11, <2>1
  <2> QED
    BY <2>2 DEF Announced, Own, v
<1>14. LosesNothing'
  BY <1>1, <1>6 DEF LosesNothing
<1> QED
  BY <1>1, <1>3, <1>7, <1>8, <1>12, <1>13, <1>14 DEF Exchange

(* Building a session does not disturb it either: it is the user's own,    *)
(* nothing has been sent before it, and it rides the next send.            *)
LEMMA EnsureExchange ==
    ASSUME SessionsAssumption, TypeOK, Exchange, NEW u \in Users, EnsureSession(u)
    PROVE  Exchange'
<1> DEFINE v == Peer(u)
<1>1. v \in Users /\ v # u /\ Peer(v) = u /\ \A w \in Users : w \in {u, v}
  BY Peers
<1>2. /\ HoldsInOrder(u) /\ HoldsInOrder(v) /\ ReadableInTurn(u) /\ ReadableInTurn(v)
      /\ Announced(u) /\ Announced(v) /\ LosesNothing
  BY <1>1 DEF Exchange
<1>3. sess[u] = << >> /\ built[u] = 0 /\ Held(u) = {} /\ net[v] = << >> /\ DOMAIN net[v] = {}
  <2>1. sess[u] = << >>
    BY DEF EnsureSession
  <2> QED
    <3>1. built[u] = 0
      BY <1>2, <2>1, HeldInOrder
    <3>2. Held(u) = {}
      BY <2>1 DEF Held
    <3>3. net[v] = << >>
      BY <1>2, <2>1 DEF Announced
    <3> QED
      BY <2>1, <3>1, <3>2, <3>3
<1>4. /\ UNCHANGED <<identity, net, kept, dropped>>
      /\ known' = [known EXCEPT ![u] = 0] /\ pend' = [pend EXCEPT ![u] = Own(u)]
      /\ built' = [built EXCEPT ![u] = 1] /\ OnlySession(u, Own(u))
  <2>1. [by |-> u, n |-> built[u], from |-> identity[u], to |-> identity[Peer(u)]] = Own(u)
    BY <1>1, <1>3 DEF Own, Exchange
  <2>2. identity[v] = 0
    BY <1>1 DEF Exchange
  <2>3. /\ built' = [built EXCEPT ![u] = built[u] + 1]
        /\ known' = [known EXCEPT ![u] = identity[v]]
        /\ UNCHANGED <<identity, net, kept, dropped>>
    BY DEF EnsureSession
  <2>4. 0 + 1 = 1
    OBVIOUS
  <2>5. pend' = [pend EXCEPT ![u] = Own(u)] /\ OnlySession(u, Own(u))
    BY <2>1 DEF EnsureSession
  <2> QED
    BY <1>3, <2>2, <2>3, <2>4, <2>5
<1>5. /\ known'[u] = 0 /\ pend'[u] = Own(u) /\ built'[u] = 1
      /\ known'[v] = known[v] /\ pend'[v] = pend[v] /\ built'[v] = built[v]
  BY <1>1, <1>4 DEF TypeOK
<1>6. /\ sess'[u] = <<Own(u)>> /\ cur'[u] = 1 /\ sess'[u] # << >>
      /\ DOMAIN sess'[u] = {1} /\ sess'[u][1] = Own(u)
      /\ sess'[v] = sess[v] /\ cur'[v] = cur[v]
  BY <1>1, <1>4, OwnFacts, OnlyIsCurrent
<1>7. Held(u)' = {Own(u)} /\ Held(v)' = Held(v)
  BY <1>6 DEF Held
<1>8. Own(u) # Own(v) /\ Own(u) # NoSession
  BY OwnFacts
<1>9. <<Own(u)>> # <<Own(v)>> /\ <<Own(u)>> # <<Own(u), Own(v)>> /\ <<Own(u)>> # << >>
  BY <1>8
<1> HIDE DEF v
<1>10. HoldsInOrder(u)'
  BY <1>5, <1>6, <1>9 DEF HoldsInOrder, Own, v
<1>11. HoldsInOrder(v)'
  BY <1>1, <1>2, <1>5, <1>6 DEF HoldsInOrder, Own
<1>12. ReadableInTurn(u)' /\ Announced(u)'
  BY <1>3, <1>4, <1>5, <1>6, <1>8 DEF ReadableInTurn, Announced, Own, v
<1>13. ReadableInTurn(v)'
  BY <1>1, <1>2, <1>3, <1>4, <1>5, <1>7, <1>8 DEF ReadableInTurn, Own
<1>14. Announced(v)'
  BY <1>1, <1>2, <1>3, <1>4, <1>5, <1>6, <1>7, <1>8 DEF Announced, Own
<1>15. LosesNothing'
  BY <1>2, <1>4 DEF LosesNothing
<1> QED
  BY <1>1, <1>4, <1>5, <1>10, <1>11, <1>12, <1>13, <1>14, <1>15 DEF Exchange

(* The frame at the head is one the user reads, or the one that brings the *)
(* session it is on; in no case is it dropped or kept for later.           *)
LEMMA HeadIsReadable ==
    ASSUME SessionsAssumption, TypeOK, Exchange, NEW u \in Users, Take(u)
    PROVE  LET v == Peer(u)
               f == Head(net[u])
           IN  /\ f = net[u][1] /\ 1 \in DOMAIN net[u]
               /\ ~ f.sealed /\ ~ KeyChanged(u, f)
               /\ Reads(u, f) <=> f.session \in Held(u)
               /\ ~ Reads(u, f) =>
                      /\ f.x3dh = Own(v) /\ f.x3dh # NoSession /\ Own(v) \notin Held(u)
                      /\ Answers(u, f) /\ built[v] # 0
<1> DEFINE v == Peer(u)
           f == Head(net[u])
<1>1. v \in Users /\ Peer(v) = u
  BY Peers
<1>2. f = net[u][1] /\ 1 \in DOMAIN net[u]
  BY TakeFacts
<1> HIDE DEF f
<1>3. HoldsInOrder(u) /\ ReadableInTurn(v) /\ known[u] \in {Unknown, 0} /\ identity[u] = 0
  BY <1>1 DEF Exchange
<1>4. /\ f.session \in {Own(u), Own(v)} /\ ~ f.sealed
      /\ f.x3dh \in {NoSession, Own(v)}
      /\ f.session = Own(v) => built[v] # 0
      /\ f.session = Own(u) => built[u] # 0
      /\ f.session = Own(v) /\ Own(v) \notin Held(u) =>
             \E j \in DOMAIN net[u] : j <= 1 /\ net[u][j].session = Own(v) /\ net[u][j].x3dh = Own(v)
  BY <1>1, <1>2, <1>3 DEF ReadableInTurn
<1>5. Own(v).from = 0 /\ Own(v).to = 0 /\ Own(v) # NoSession
  BY <1>1, OwnFacts
<1>6. ~ KeyChanged(u, f)
  BY <1>3, <1>4, <1>5 DEF KeyChanged
<1>7. Reads(u, f) <=> f.session \in Held(u)
  BY <1>4, <1>6 DEF Reads
<1>8. ASSUME ~ Reads(u, f)
      PROVE  /\ f.x3dh = Own(v) /\ f.x3dh # NoSession /\ Own(v) \notin Held(u)
             /\ Answers(u, f) /\ built[v] # 0
  <2>1. f.session \notin Held(u)
    BY <1>7, <1>8
  <2>2. f.session # Own(u)
    BY <1>3, <1>4, <2>1, HeldInOrder
  <2>3. PICK j \in DOMAIN net[u] : j <= 1 /\ net[u][j].x3dh = Own(v)
    BY <1>4, <2>1, <2>2
  <2>4. j = 1
    <3>1. DOMAIN net[u] = 1 .. Len(net[u]) /\ Len(net[u]) \in Nat
      BY SeqFacts DEF TypeOK
    <3> QED
      BY <2>3, <3>1
  <2>5. f.x3dh = Own(v)
    BY <1>2, <2>3, <2>4
  <2> QED
    BY <1>3, <1>4, <1>5, <2>1, <2>2, <2>5 DEF Answers
<1> QED
  BY <1>2, <1>4, <1>6, <1>7, <1>8 DEF f

(* Taking a frame leaves what the peer sent readable in turn, as long as   *)
(* the frame was not the one to bring a session still not held.            *)
LEMMA TakeExchange ==
    ASSUME SessionsAssumption, TypeOK, Exchange, NEW u \in Users, Take(u),
           UNCHANGED <<built, pend, sess, cur>>, Reads(u, Head(net[u]))
    PROVE  ReadableInTurn(Peer(u))' /\ Announced(Peer(u))'
<1> DEFINE v == Peer(u)
<1>1. v \in Users /\ Peer(v) = u /\ v # u
  BY Peers
<1>2. ReadableInTurn(v) /\ Announced(v)
  BY <1>1 DEF Exchange
<1>3. /\ net[u] # << >> /\ 1 \in DOMAIN net[u]
      /\ \A i \in DOMAIN net'[u] :
             i \in Nat \ {0} /\ i + 1 \in DOMAIN net[u] /\ net'[u][i] = net[u][i + 1]
      /\ \A j \in DOMAIN net[u] : j # 1 => j - 1 \in DOMAIN net'[u] /\ net'[u][j - 1] = net[u][j]
      /\ \A j \in DOMAIN net[u] : j \in Nat
  <2>1. DOMAIN net[u] = 1 .. Len(net[u]) /\ Len(net[u]) \in Nat
    BY SeqFacts DEF TypeOK
  <2> QED
    BY <2>1, TakeFacts
<1>4. net[u][1].session \in Held(u)
  BY HeadIsReadable
<1>5. Held(u)' = Held(u)
  BY DEF Held
<1> HIDE DEF v
<1>6. ReadableInTurn(v)'
  <2> SUFFICES ASSUME NEW i \in DOMAIN net'[u]
               PROVE  /\ net'[u][i].session \in {Own(v), Own(u)} /\ ~ net'[u][i].sealed
                      /\ net'[u][i].x3dh \in {NoSession, Own(v)}
                      /\ net'[u][i].session = Own(v) => built'[v] # 0
                      /\ net'[u][i].session = Own(u) => built'[u] # 0
                      /\ net'[u][i].session = Own(v) /\ Own(v) \notin Held(u)' =>
                             \E j \in DOMAIN net'[u] :
                                 j <= i /\ net'[u][j].session = Own(v) /\ net'[u][j].x3dh = Own(v)
    BY <1>1 DEF ReadableInTurn, Own
  <2>1. i \in Nat \ {0} /\ i + 1 \in DOMAIN net[u] /\ net'[u][i] = net[u][i + 1]
    BY <1>3
  <2>2. /\ net'[u][i].session \in {Own(v), Own(u)} /\ ~ net'[u][i].sealed
        /\ net'[u][i].x3dh \in {NoSession, Own(v)}
        /\ net'[u][i].session = Own(v) => built'[v] # 0
        /\ net'[u][i].session = Own(u) => built'[u] # 0
    BY <1>1, <1>2, <2>1 DEF ReadableInTurn
  <2>3. ASSUME net'[u][i].session = Own(v), Own(v) \notin Held(u)'
        PROVE  \E j \in DOMAIN net'[u] :
                   j <= i /\ net'[u][j].session = Own(v) /\ net'[u][j].x3dh = Own(v)
    <3>1. PICK j \in DOMAIN net[u] :
              j <= i + 1 /\ net[u][j].session = Own(v) /\ net[u][j].x3dh = Own(v)
      BY <1>1, <1>2, <1>5, <2>1, <2>3 DEF ReadableInTurn
    <3>2. j # 1 /\ j \in Nat
      BY <1>3, <1>4, <1>5, <2>3, <3>1
    <3>3. j - 1 \in DOMAIN net'[u] /\ net'[u][j - 1] = net[u][j]
      BY <1>3, <3>2
    <3>4. j - 1 <= i
      BY <2>1, <3>1, <3>2
    <3> QED
      BY <3>1, <3>3, <3>4
  <2> QED
    BY <2>2, <2>3
<1>7. Announced(v)'
  <2>1. Own(v) \notin Held(u) =>
            \A j \in DOMAIN net[u] : net[u][j].session = Own(v) =>
                j - 1 \in DOMAIN net'[u] /\ net'[u][j - 1] = net[u][j]
    BY <1>3, <1>4
  <2>2. pend[v] # Own(v) /\ sess[v] # << >> /\ pend[v] \in {NoSession, Own(v)}
    BY <1>1, <1>2, <1>3 DEF Announced
  <2>3. built[v] # 0 /\ Own(v) \notin Held(u) /\ sess[v][cur[v]] = Own(v) =>
            \E j \in DOMAIN net'[u] : net'[u][j].session = Own(v) /\ net'[u][j].x3dh = Own(v)
    BY <1>1, <1>2, <2>1, <2>2 DEF Announced
  <2> QED
    BY <1>1, <1>5, <2>2, <2>3 DEF Announced, Own
<1> QED
  BY <1>6, <1>7 DEF v

(* One session and another make two.                                       *)
LEMMA AppendPair ==
    ASSUME NEW a, NEW b
    PROVE  Append(<<a>>, b) = <<a, b>> /\ Len(<<a>>) = 1
<1>1. <<a>> \in Seq({a, b}) /\ b \in {a, b} /\ Len(<<a>>) = 1
  OBVIOUS
<1>2. <<a, b>> \in Seq({a, b}) /\ Len(<<a, b>>) = 2
  OBVIOUS
<1>3. /\ Append(<<a>>, b) \in Seq({a, b}) /\ Len(Append(<<a>>, b)) = 2
      /\ Append(<<a>>, b)[1] = a /\ Append(<<a>>, b)[2] = b
  BY <1>1, AppendProperties
<1>4. \A i \in 1 .. 2 : Append(<<a>>, b)[i] = <<a, b>>[i]
  BY <1>3
<1> QED
  BY <1>1, <1>2, <1>3, <1>4, SeqEqual

(* The peer's handshake is answered by holding its session as well; the    *)
(* user who yields in a tie moves to it.                                   *)
LEMMA CommitExchange ==
    ASSUME SessionsAssumption, MaxSessions # 1, TypeOK, Exchange, NEW u \in Users,
           Take(u), Own(Peer(u)) \notin Held(u), built[Peer(u)] # 0,
           Commit(u, Own(Peer(u)), FALSE), UNCHANGED <<identity, pend, kept, built, dropped>>
    PROVE  Exchange'
<1> DEFINE v == Peer(u)
<1>1. v \in Users /\ Peer(v) = u /\ v # u /\ \A w \in Users : w \in {u, v}
  BY Peers
<1>2. /\ HoldsInOrder(u) /\ HoldsInOrder(v) /\ ReadableInTurn(u) /\ ReadableInTurn(v)
      /\ Announced(u) /\ Announced(v) /\ LosesNothing
  BY <1>1 DEF Exchange
<1>3. sess[u] = IF built[u] = 0 THEN << >> ELSE <<Own(u)>>
  BY <1>2, HeldInOrder
<1>4. Own(v) \in Session /\ Own(v) # Own(u) /\ Own(u) \in Session /\ Own(v).from = 0
  BY <1>1, OwnFacts
<1> HIDE DEF v
<1>5. /\ known'[u] = 0 /\ known'[v] = known[v] /\ sess'[v] = sess[v] /\ cur'[v] = cur[v]
      /\ sess'[u] = IF built[u] = 0 THEN <<Own(v)>> ELSE <<Own(u), Own(v)>>
      /\ cur'[u] = IF u = Hi /\ built[u] # 0 THEN 2 ELSE 1
  <2>1. known' = [known EXCEPT ![u] = 0]
    BY <1>4 DEF Commit, v
  <2>2. CASE built[u] = 0
    <3>1. OnlySession(u, Own(v))
      BY <1>3, <2>2 DEF Commit, v
    <3>2. sess'[u] = <<Own(v)>> /\ cur'[u] = 1 /\ sess'[v] = sess[v] /\ cur'[v] = cur[v]
      BY <1>1, <1>4, <3>1, OnlyIsCurrent
    <3>3. known'[u] = 0 /\ known'[v] = known[v]
      BY <1>1, <2>1 DEF TypeOK
    <3> QED
      BY <2>2, <3>2, <3>3
  <2>3. CASE built[u] # 0
    <3>1. sess[u] = <<Own(u)>> /\ sess[u] # << >>
      BY <1>3, <2>3
    <3>2. AddSession(u, Own(v))
      BY <3>1 DEF Commit, v
    <3>3. Append(sess[u], Own(v)) = <<Own(u), Own(v)>> /\ Len(sess[u]) = 1
      <4>1. Append(<<Own(u)>>, Own(v)) = <<Own(u), Own(v)>> /\ Len(<<Own(u)>>) = 1
        BY AppendPair
      <4> QED
        BY <3>1, <4>1
    <3>4. Len(<<Own(u), Own(v)>>) = 2 /\ MaxSessions \in Nat \ {0, 1}
      BY DEF SessionsAssumption
    <3>5. 2 - MaxSessions <= 0
      BY <3>4
    <3>6. \A k : CapSessions(<<Own(u), Own(v)>>, k) = <<(<<Own(u), Own(v)>>), k>>
      BY <3>4, <3>5 DEF CapSessions
    <3>7. sess' = [sess EXCEPT ![u] = <<Own(u), Own(v)>>] /\ cur' = [cur EXCEPT ![u] = AfterAdopting(u)]
      <4>1. CapSessions(Append(sess[u], Own(v)), AfterAdopting(u)) =
                <<(<<Own(u), Own(v)>>), AfterAdopting(u)>>
        BY <3>3, <3>6
      <4> QED
        BY <3>2, <4>1 DEF AddSession
    <3>8. cur[u] = 1
      <4>1. <<Own(u)>> # <<Own(u), Own(v)>>
        OBVIOUS
      <4> QED
        BY <1>2, <3>1, <4>1 DEF HoldsInOrder, v
    <3>9. AfterAdopting(u) = IF u = Hi THEN 2 ELSE 1
      BY <3>3, <3>8, Peers DEF AfterAdopting, Users
    <3> QED
      BY <1>1, <2>1, <2>3, <3>7, <3>9 DEF TypeOK
  <2> QED
    BY <2>2, <2>3
<1>6. Held(v)' = Held(v) /\ Own(v) \in Held(u)'
  <2>1. sess'[u] = <<Own(v)>> \/ sess'[u] = <<Own(u), Own(v)>>
    BY <1>5
  <2>2. CASE sess'[u] = <<Own(v)>>
    <3>1. DOMAIN sess'[u] = {1} /\ sess'[u][1] = Own(v)
      BY <2>2
    <3> QED
      BY <1>5, <3>1 DEF Held
  <2>3. CASE sess'[u] = <<Own(u), Own(v)>>
    <3>1. DOMAIN sess'[u] = {1, 2} /\ sess'[u][2] = Own(v)
      BY <2>3
    <3> QED
      BY <1>5, <3>1 DEF Held
  <2> QED
    BY <2>1, <2>2, <2>3
<1>7. net'[v] = net[v] /\ net[u] # << >>
  BY <1>1, TakeFacts
<1>8. HoldsInOrder(u)'
  <2>1. <<Own(v)>> # <<Own(u), Own(v)>>
    OBVIOUS
  <2> QED
    BY <1>5, <2>1 DEF HoldsInOrder, Own, v
<1>9. HoldsInOrder(v)'
  BY <1>1, <1>2, <1>5 DEF HoldsInOrder, Own
<1>10. ReadableInTurn(u)'
  BY <1>2, <1>6, <1>7 DEF ReadableInTurn, Own, v
<1>11. ReadableInTurn(v)'
  <2>1. \A i \in DOMAIN net'[u] : \E k \in DOMAIN net[u] : net'[u][i] = net[u][k]
    BY TakeFacts
  <2> QED
    BY <1>1, <1>2, <1>6, <2>1 DEF ReadableInTurn, Own
<1>12. Announced(v)'
  BY <1>1, <1>2, <1>5, <1>6, <1>7 DEF Announced, Own
<1>13. Announced(u)'
  <2>1. sess'[u] # << >>
    BY <1>5
  <2>2. sess'[u][cur'[u]] = Own(u) => built[u] # 0 /\ sess[u][cur[u]] = Own(u)
    <3>1. CASE built[u] = 0
      <4>1. sess'[u][cur'[u]] = Own(v)
        BY <1>5, <3>1
      <4> QED
        BY <1>4, <4>1
    <3>2. CASE built[u] # 0
      <4>1. sess[u] = <<Own(u)>> /\ <<Own(u)>> # <<Own(u), Own(v)>>
        BY <1>3, <3>2
      <4>2. cur[u] = 1
        BY <1>2, <4>1 DEF HoldsInOrder, v
      <4> QED
        BY <3>2, <4>1, <4>2
    <3> QED
      BY <3>1, <3>2
  <2> QED
    BY <1>2, <1>6, <1>7, <2>1, <2>2 DEF Announced, Own, v
<1>14. LosesNothing'
  BY <1>2 DEF LosesNothing
<1> QED
  BY <1>1, <1>5, <1>8, <1>9, <1>10, <1>11, <1>12, <1>13, <1>14 DEF Exchange

(* A step that changes at most a record, to the one identity there is,     *)
(* changes nothing for the exchange.                                       *)
LEMMA ExchangeFrame ==
    ASSUME Exchange, UNCHANGED <<identity, sess, cur, pend, net, kept, built, dropped>>,
           \A w \in Users : known'[w] \in {Unknown, 0}
    PROVE  Exchange'
<1>1. \A w \in Users : HoldsInOrder(w)'
  BY DEF Exchange, HoldsInOrder, Own
<1>2. ASSUME NEW w \in Users
      PROVE  ReadableInTurn(w)'
  <2>1. ReadableInTurn(w) /\ Held(Peer(w))' = Held(Peer(w)) /\ UNCHANGED <<net, built>>
    BY DEF Exchange, Held
  <2> QED
    BY <2>1 DEF ReadableInTurn, Own
<1>3. \A w \in Users : Announced(w)'
  BY DEF Exchange, Announced, Own, Held
<1> QED
  BY <1>1, <1>2, <1>3 DEF Exchange, LosesNothing

(* Every step that disturbs nothing goes on with the exchange.             *)
LEMMA ExchangeStep ==
    ASSUME SessionsAssumption, MaxSessions # 1, TypeOK, GlareInv, [Next]_vars
    PROVE  GlareInv'
<1> SUFFICES ASSUME Undisturbed', ~ mode'.token
             PROVE  Exchange'
  BY DEF GlareInv
<1>1. ASSUME NEW u \in Users, RemoveContact(u) \/ Reinstall(u) \/ Restart(u) \/ Lose(u)
      PROVE  FALSE
  BY <1>1 DEF RemoveContact, Reinstall, Restart, Lose, Undisturbed, TypeOK
<1>2. CASE UNCHANGED vars
  <2>1. UNCHANGED <<mode, resets, faults, identity, known, sess, cur, pend, net, kept, built, dropped>>
    BY <1>2 DEF vars, bounds, store
  <2>2. Exchange
    BY <2>1 DEF GlareInv, Undisturbed
  <2>3. \A w \in Users : known'[w] \in {Unknown, 0}
    BY <2>1, <2>2 DEF Exchange
  <2> QED
    BY <2>1, <2>2, <2>3, ExchangeFrame
<1>3. ASSUME NEW u \in Users,
             \/ AddContact(u) \/ EnsureSession(u) \/ Send(u)
             \/ ReadHeld(u) \/ Retry(u) \/ Respond(u) \/ RespondSealed(u) \/ Redeliver(u)
      PROVE  Exchange'
  <2>1. UNCHANGED <<mode, resets, faults>>
    BY <1>3 DEF AddContact, EnsureSession, Send, ReadHeld, Retry, Respond, RespondSealed, Redeliver,
                bounds
  <2>2. Exchange /\ ~ mode.token
    BY <2>1 DEF GlareInv, Undisturbed
  <2>3. CASE AddContact(u)
    <3>1. /\ UNCHANGED <<identity, sess, cur, pend, net, kept, built, dropped>>
          /\ known' = [known EXCEPT ![u] = identity[Peer(u)]]
      BY <2>3 DEF AddContact, bounds
    <3>2. identity[Peer(u)] = 0
      BY <2>2, Peers DEF Exchange
    <3>3. \A w \in Users : known'[w] \in {Unknown, 0}
      BY <2>2, <3>1, <3>2 DEF Exchange, TypeOK
    <3> QED
      BY <2>2, <3>1, <3>3, ExchangeFrame
  <2>4. CASE ReadHeld(u)
    <3> DEFINE v == Peer(u)
    <3>1. /\ UNCHANGED <<identity, known, sess, cur, pend, kept, built, dropped>>
          /\ Take(u) /\ Reads(u, Head(net[u]))
      BY <2>4 DEF ReadHeld, store, bounds
    <3>2. v \in Users /\ Peer(v) = u /\ v # u /\ \A w \in Users : w \in {u, v}
      BY Peers
    <3>3. ReadableInTurn(v)' /\ Announced(v)'
      BY <2>2, <3>1, TakeExchange
    <3>4. net'[v] = net[v]
      BY <3>1, <3>2, TakeFacts
    <3> HIDE DEF v
    <3>5. ReadableInTurn(u)' /\ Announced(u)'
      <4>1. ReadableInTurn(u) /\ Announced(u)
        BY <2>2 DEF Exchange
      <4> QED
        BY <3>1, <3>4, <4>1 DEF ReadableInTurn, Announced, Held, Own, v
    <3>6. \A w \in Users : HoldsInOrder(w)'
      BY <2>2, <3>1 DEF Exchange, HoldsInOrder, Own
    <3>7. \A w \in Users : ReadableInTurn(w)' /\ Announced(w)'
      BY <3>2, <3>3, <3>5
    <3> QED
      BY <2>2, <3>1, <3>6, <3>7 DEF Exchange, LosesNothing
  <2>5. CASE Retry(u)
    BY <2>2, <2>5, HeadIsReadable DEF Retry
  <2>6. CASE Respond(u)
    <3> DEFINE f == Head(net[u])
    <3>1. /\ Take(u) /\ ~ Reads(u, f) /\ UNCHANGED <<identity, pend, kept, built>>
      BY <2>6 DEF Respond, bounds
    <3>2. /\ f.x3dh = Own(Peer(u)) /\ Own(Peer(u)) \notin Held(u) /\ built[Peer(u)] # 0
          /\ Answers(u, f) /\ ~ KeyChanged(u, f)
      BY <2>2, <3>1, HeadIsReadable
    <3>3. Commit(u, f.x3dh, KeyChanged(u, f)) /\ UNCHANGED dropped
      BY <2>6, <3>2 DEF Respond
    <3>4. KeyChanged(u, f) = FALSE
      BY <3>2 DEF KeyChanged
    <3> HIDE DEF f
    <3>5. Commit(u, Own(Peer(u)), FALSE)
      BY <3>2, <3>3, <3>4
    <3> QED
      BY <2>2, <3>1, <3>2, <3>3, <3>5, CommitExchange
  <2>7. CASE RespondSealed(u)
    BY <2>2, <2>7, HeadIsReadable DEF RespondSealed
  <2>8. CASE Redeliver(u)
    BY <2>2, <2>8 DEF Redeliver, Exchange, LosesNothing
  <2> QED
    BY <1>3, <2>2, <2>3, <2>4, <2>5, <2>6, <2>7, <2>8, EnsureExchange, SendExchange
<1> QED
  BY <1>1, <1>2, <1>3 DEF Next

(* The exchange starts so.                                                 *)
LEMMA ExchangeInit == ASSUME SessionsAssumption, Init PROVE GlareInv
<1>1. \A u \in Users : /\ identity[u] = 0 /\ known[u] = Unknown /\ built[u] = 0 /\ ~ dropped[u]
                       /\ sess[u] = << >> /\ cur[u] = 1 /\ pend[u] = NoSession
                       /\ net[u] = << >> /\ DOMAIN net[u] = {} /\ kept[u] = << >>
  BY DEF Init
<1>2. \A u \in Users : NoSession # Own(u) /\ Peer(u) \in Users
  BY OwnFacts, Peers
<1>3. \A u \in Users : HoldsInOrder(u)
  <2> SUFFICES ASSUME NEW u \in Users PROVE HoldsInOrder(u)
    OBVIOUS
  <2>1. << >> # <<Own(Peer(u))>> /\ << >> # <<Own(u), Own(Peer(u))>>
    OBVIOUS
  <2> QED
    BY <1>1, <2>1 DEF HoldsInOrder
<1> QED
  BY <1>1, <1>2, <1>3 DEF GlareInv, Exchange, ReadableInTurn, Announced, LosesNothing

(* With room for more than one session, crossed first messages on the      *)
(* from-stamped path lose nothing, and once all is delivered both users    *)
(* send on the same session, however many messages cross                   *)
(* (trialDecryptSessions, isDesignatedInitiator, currentAfterAdopting).    *)
THEOREM GlareHolds == ASSUME MaxSessions # 1 PROVE Spec => []GlareSettles
<1>1. Init => GlareInv
  BY ExchangeInit, SessionsAssumption
<1>2. TypeOK /\ GlareInv /\ [Next]_vars => GlareInv'
  BY ExchangeStep, SessionsAssumption
<1>3. GlareInv => GlareSettles
  <2> SUFFICES ASSUME Exchange, Quiet
               PROVE  sess[Lo][cur[Lo]] = sess[Hi][cur[Hi]]
    BY DEF GlareInv, GlareSettles, Exchange
  <2>1. /\ Lo \in Users /\ Hi \in Users /\ Peer(Lo) = Hi /\ Peer(Hi) = Lo /\ Lo # Hi
    BY SessionsAssumption DEF SessionsAssumption, Users, Peer
  <2>2. /\ HoldsInOrder(Lo) /\ HoldsInOrder(Hi) /\ Announced(Lo)
        /\ sess[Lo] # << >> /\ sess[Hi] # << >> /\ pend[Lo] = NoSession /\ net[Hi] = << >>
    BY <2>1 DEF Exchange, Quiet
  <2>3. Own(Lo) # Own(Hi) /\ NoSession # Own(Lo) /\ DOMAIN net[Hi] = {}
    BY <2>1, <2>2, OwnFacts, SessionsAssumption
  <2>4. CASE built[Lo] = 0
    <3>1. sess[Lo] = <<Own(Hi)>> /\ cur[Lo] = 1 /\ built[Hi] # 0
      BY <2>1, <2>2, <2>4 DEF HoldsInOrder
    <3>2. Own(Lo) \notin Held(Hi)
      BY <2>1, <2>2, <2>4, HeldInOrder, SessionsAssumption
    <3>3. sess[Hi] = <<Own(Hi)>>
      BY <2>1, <2>2, <3>1, <3>2, HeldInOrder, SessionsAssumption
    <3>4. cur[Hi] = 1
      <4>1. <<Own(Hi)>> # <<Own(Hi), Own(Lo)>>
        OBVIOUS
      <4> QED
        BY <2>1, <2>2, <3>3, <4>1 DEF HoldsInOrder
    <3> QED
      BY <3>1, <3>3, <3>4
  <2>5. CASE built[Lo] # 0
    <3>1. cur[Lo] = 1 /\ sess[Lo][1] = Own(Lo)
      BY <2>1, <2>2, <2>5 DEF HoldsInOrder
    <3>2. Own(Lo) \in Held(Hi)
      BY <2>1, <2>2, <2>3, <2>5, <3>1 DEF Announced
    <3>3. sess[Hi] = <<Own(Lo)>> \/ sess[Hi] = <<Own(Hi), Own(Lo)>>
      <4>1. DOMAIN <<Own(Hi)>> = {1} /\ <<Own(Hi)>>[1] = Own(Hi)
        OBVIOUS
      <4>2. sess[Hi] # <<Own(Hi)>>
        BY <2>3, <3>2, <4>1 DEF Held
      <4> QED
        BY <2>1, <2>2, <4>2 DEF HoldsInOrder
    <3>4. <<Own(Lo)>> # <<Own(Hi), Own(Lo)>>
      OBVIOUS
    <3>5. sess[Hi][cur[Hi]] = Own(Lo)
      BY <2>1, <2>2, <3>3, <3>4 DEF HoldsInOrder
    <3> QED
      BY <3>1, <3>5
  <2> QED
    BY <2>4, <2>5
<1> QED
  BY <1>1, <1>2, <1>3, TypeCorrect, PTL DEF Spec
=============================================================================
