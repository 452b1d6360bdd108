---------------------------- MODULE GroupsProofs ----------------------------
(***************************************************************************)
(* Theorems about Groups, for any users, bounds and cases.                 *)
(***************************************************************************)
EXTENDS Groups, FiniteSetTheorems, SequenceTheorems, TLAPS

-----------------------------------------------------------------------------
(* Channels. *)

Chans == [Users \X Users -> Seq(Frame)]

\* A frame is under way from a to b.
Carries(c, a, b, f) == \E i \in DOMAIN c[<<a, b>>] : c[<<a, b>>][i] = f

(* Taking an element out of a sequence leaves the others, in their order.  *)
LEMMA RemovedAre ==
    ASSUME NEW S, NEW c \in Seq(S), NEW x \in DOMAIN c
    PROVE  /\ RemoveAt(c, x) \in Seq(S) /\ Len(RemoveAt(c, x)) = Len(c) - 1
           /\ \A i \in 1 .. Len(c) - 1 : RemoveAt(c, x)[i] = IF i < x THEN c[i] ELSE c[i + 1]
<1>1. PICK n \in Nat : n = Len(c)
  BY LenProperties
<1>2. x \in 1 .. n /\ \A i \in 1 .. n : c[i] \in S
  BY <1>1, LenProperties
<1>3. PICK a \in Seq(S) : a = SubSeq(c, 1, x - 1)
  <2>1. \A i \in 1 .. x - 1 : c[i] \in S
    BY <1>2
  <2>2. SubSeq(c, 1, x - 1) \in Seq(S)
    BY <1>2, <2>1, SubSeqProperties
  <2> QED
    BY <2>2
<1>4. Len(a) = x - 1 /\ \A i \in 1 .. x - 1 : a[i] = c[i]
  <2>1. \A i \in 1 .. x - 1 : c[i] \in S
    BY <1>2
  <2>2. /\ Len(a) = IF 1 <= x - 1 THEN (x - 1) - 1 + 1 ELSE 0
        /\ \A i \in 1 .. (x - 1) - 1 + 1 : a[i] = c[1 + i - 1]
    BY <1>2, <1>3, <2>1, SubSeqProperties
  <2>3. Len(a) = x - 1
    BY <1>2, <2>2
  <2>4. ASSUME NEW i \in 1 .. x - 1 PROVE a[i] = c[i]
    <3>1. i \in 1 .. (x - 1) - 1 + 1 /\ 1 + i - 1 = i
      BY <1>2
    <3> QED
      BY <2>2, <3>1
  <2> QED
    BY <2>3, <2>4
<1>5. \A i \in x + 1 .. n : c[i] \in S
  BY <1>2
<1>6. PICK b \in Seq(S) : b = SubSeq(c, x + 1, n)
  <2>1. SubSeq(c, x + 1, n) \in Seq(S)
    BY <1>2, <1>5, SubSeqProperties
  <2> QED
    BY <2>1
<1>7. Len(b) = n - x /\ \A i \in 1 .. n - x : b[i] = c[x + i]
  <2>1. /\ Len(SubSeq(c, x + 1, n)) = IF x + 1 <= n THEN n - (x + 1) + 1 ELSE 0
        /\ \A i \in 1 .. n - (x + 1) + 1 : SubSeq(c, x + 1, n)[i] = c[(x + 1) + i - 1]
    <3>1. PICK g \in Int : g = x + 1
      BY <1>2
    <3>2. \A i \in g .. n : c[i] \in S
      BY <1>5, <3>1
    <3>3. /\ Len(SubSeq(c, g, n)) = IF g <= n THEN n - g + 1 ELSE 0
          /\ \A i \in 1 .. n - g + 1 : SubSeq(c, g, n)[i] = c[g + i - 1]
      BY <1>2, <3>2, SubSeqProperties
    <3> QED
      BY <3>1, <3>3, Zenon
  <2>2. /\ Len(b) = IF x + 1 <= n THEN n - (x + 1) + 1 ELSE 0
        /\ \A i \in 1 .. n - (x + 1) + 1 : b[i] = c[(x + 1) + i - 1]
    BY <1>6, <2>1, Zenon
  <2>3. Len(b) = n - x
    BY <1>2, <2>2
  <2>4. ASSUME NEW i \in 1 .. n - x PROVE b[i] = c[x + i]
    <3>1. i \in 1 .. n - (x + 1) + 1 /\ (x + 1) + i - 1 = x + i
      BY <1>2
    <3> QED
      BY <2>2, <3>1
  <2> QED
    BY <2>3, <2>4
<1>8. PICK r \in Seq(S) : r = a \o b
  BY <1>3, <1>6, ConcatProperties
<1>9. RemoveAt(c, x) = r
  BY <1>1, <1>3, <1>6, <1>8 DEF RemoveAt
<1>10. Len(r) = n - 1 /\ \A i \in 1 .. n - 1 : r[i] = IF i <= x - 1 THEN a[i] ELSE b[i - (x - 1)]
  <2>1. /\ Len(a \o b) = Len(a) + Len(b)
        /\ \A i \in 1 .. Len(a) + Len(b) : (a \o b)[i] = IF i <= Len(a) THEN a[i] ELSE b[i - Len(a)]
    BY <1>3, <1>6, ConcatProperties
  <2>2. Len(a) + Len(b) = n - 1
    BY <1>2, <1>4, <1>7
  <2>3. Len(r) = n - 1 /\ \A i \in 1 .. n - 1 : r[i] = IF i <= Len(a) THEN a[i] ELSE b[i - Len(a)]
    BY <1>8, <2>1, <2>2, Zenon
  <2>4. Len(a) = x - 1
    BY <1>4
  <2> QED
    BY <2>3, <2>4, Zenon
<1>11. ASSUME NEW i \in 1 .. n - 1 PROVE r[i] = IF i < x THEN c[i] ELSE c[i + 1]
  <2>1. CASE i < x
    <3>1. i \in 1 .. x - 1 /\ i <= x - 1
      BY <1>2, <2>1
    <3> QED
      BY <1>4, <1>10, <2>1, <3>1
  <2>2. CASE ~ i < x
    <3>1. ~ i <= x - 1 /\ i - (x - 1) \in 1 .. n - x /\ x + (i - (x - 1)) = i + 1
      BY <1>2, <2>2
    <3> QED
      BY <1>7, <1>10, <2>2, <3>1
  <2> QED
    BY <2>1, <2>2
<1> QED
  BY <1>1, <1>8, <1>9, <1>10, <1>11

(* One entry of a table replaced.                                          *)
LEMMA EntrySet ==
    ASSUME NEW S, NEW r \in [Users -> [Users -> S]], NEW u \in Users, NEW v \in Users, NEW x \in S,
           NEW t, t = [r EXCEPT ![u][v] = x]
    PROVE  /\ t \in [Users -> [Users -> S]]
           /\ \A a, b \in Users : t[a][b] = IF a = u /\ b = v THEN x ELSE r[a][b]
<1>1. PICK row \in [Users -> S] : row = [r[u] EXCEPT ![v] = x]
  OBVIOUS
<1>2. t = [r EXCEPT ![u] = row]
  BY <1>1
<1>3. t \in [Users -> [Users -> S]]
  BY <1>2
<1>4. \A b \in Users : row[b] = IF b = v THEN x ELSE r[u][b]
  BY <1>1
<1>5. \A a \in Users : t[a] = IF a = u THEN row ELSE r[a]
  BY <1>2
<1> QED
  BY <1>3, <1>4, <1>5

(* What is delivered (IsNext) was under way; everything else stays so.     *)
LEMMA TakenFacts ==
    ASSUME chan \in Chans, NEW from \in Users, NEW u \in Users,
           NEW i \in DOMAIN chan[<<from, u>>]
    PROVE  /\ Taken(from, u, i) \in Chans
           /\ chan[<<from, u>>][i] \in Frame
           /\ Carries(chan, from, u, chan[<<from, u>>][i])
           /\ \A a, b \in Users : \A f \in Frame :
                 Carries(Taken(from, u, i), a, b, f) => Carries(chan, a, b, f)
           /\ \A a, b \in Users : \A f \in Frame :
                 Carries(chan, a, b, f) /\ (a = from /\ b = u => f # chan[<<from, u>>][i])
                 => Carries(Taken(from, u, i), a, b, f)
<1>1. PICK q \in Seq(Frame) : q = chan[<<from, u>>]
  BY DEF Chans
<1>2. PICK r : r = RemoveAt(q, i)
  OBVIOUS
<1>3. PICK n \in Nat : n = Len(q)
  BY <1>1, LenProperties
<1>4. /\ DOMAIN q = 1 .. n /\ i \in 1 .. n
      /\ \A k \in 1 .. n : q[k] \in Frame
  BY <1>1, <1>3, LenProperties
<1>5. /\ r \in Seq(Frame) /\ DOMAIN r = 1 .. n - 1
      /\ \A k \in 1 .. n - 1 : r[k] = IF k < i THEN q[k] ELSE q[k + 1]
  <2>1. r \in Seq(Frame) /\ Len(r) = n - 1 /\ \A k \in 1 .. n - 1 : r[k] = IF k < i THEN q[k] ELSE q[k + 1]
    BY <1>1, <1>2, <1>3, RemovedAre
  <2> QED
    BY <2>1, LenProperties
<1>6. PICK c : c = Taken(from, u, i)
  OBVIOUS
<1>7. c = [chan EXCEPT ![<<from, u>>] = r]
  BY <1>1, <1>2, <1>6 DEF Taken
<1>8. c \in Chans /\ c[<<from, u>>] = r /\ \A a, b \in Users : a # from \/ b # u => c[<<a, b>>] = chan[<<a, b>>]
  BY <1>5, <1>7 DEF Chans
<1>9. ASSUME NEW k \in DOMAIN r PROVE \E l \in DOMAIN q : q[l] = r[k]
  <2>1. k \in 1 .. n - 1 /\ k \in 1 .. n /\ k + 1 \in 1 .. n
    BY <1>4, <1>5
  <2>2. CASE k < i
    BY <1>4, <1>5, <2>1, <2>2
  <2>3. CASE ~ k < i
    BY <1>4, <1>5, <2>1, <2>3
  <2> QED
    BY <2>2, <2>3
<1>10. ASSUME NEW l \in DOMAIN q, q[l] # q[i] PROVE \E k \in DOMAIN r : r[k] = q[l]
  <2>1. l \in 1 .. n /\ l # i
    BY <1>4, <1>10
  <2>2. CASE l < i
    <3>1. l \in 1 .. n - 1
      BY <1>4, <2>1, <2>2
    <3> QED
      BY <1>5, <2>2, <3>1
  <2>3. CASE i < l
    <3>1. l - 1 \in 1 .. n - 1 /\ ~ l - 1 < i /\ l - 1 + 1 = l
      BY <1>4, <2>1, <2>3
    <3> QED
      BY <1>5, <3>1
  <2> QED
    BY <1>4, <2>1, <2>2, <2>3
<1>11. ASSUME NEW a \in Users, NEW b \in Users, NEW f \in Frame
       PROVE  /\ Carries(c, a, b, f) => Carries(chan, a, b, f)
              /\ Carries(chan, a, b, f) /\ (a = from /\ b = u => f # q[i]) => Carries(c, a, b, f)
  <2>1. CASE a = from /\ b = u
    BY <1>1, <1>8, <1>9, <1>10, <2>1 DEF Carries
  <2>2. CASE a # from \/ b # u
    BY <1>8, <2>2 DEF Carries
  <2> QED
    BY <2>1, <2>2
<1>12. q[i] \in Frame /\ Carries(chan, from, u, q[i])
  BY <1>1, <1>4 DEF Carries
<1> QED
  BY <1>1, <1>6, <1>8, <1>11, <1>12

\* Channels c after mail was appended to those it goes to.
Posted(d, c, from, mail) ==
    /\ d \in Chans
    /\ \A a, b \in Users :
          \/ d[<<a, b>>] = c[<<a, b>>] /\ ~ \E f \in Frame : a = from /\ <<b, f>> \in mail
          \/ a = from /\ \E f \in Frame : <<b, f>> \in mail /\ d[<<a, b>>] = Append(c[<<a, b>>], f)
    /\ \A a, b \in Users : \A f \in Frame : Carries(c, a, b, f) => Carries(d, a, b, f)
    /\ \A a, b \in Users : \A f \in Frame :
          Carries(d, a, b, f) => Carries(c, a, b, f) \/ (a = from /\ <<b, f>> \in mail)

(* A handler's mail is appended to the channels it goes to (emitRelay).    *)
LEMMA PostFacts ==
    ASSUME NEW c \in Chans, NEW from \in Users, NEW mail \in SUBSET (Users \X Frame)
    PROVE  Posted(Post(c, from, mail), c, from, mail)
<1>1. PICK d : d = Post(c, from, mail)
  OBVIOUS
<1> DEFINE mine(p) == {x \in mail : p = <<from, x[1]>>}
           chosen(p) == (CHOOSE x \in mine(p) : TRUE)[2]
<1>2. d = [p \in Users \X Users |-> IF mine(p) = {} THEN c[p] ELSE Append(c[p], chosen(p))]
  BY <1>1 DEF Post
<1>3. \A p : mine(p) # {} => (CHOOSE x \in mine(p) : TRUE) \in mine(p)
  OBVIOUS
<1>4. ASSUME NEW a \in Users, NEW b \in Users
      PROVE  /\ mine(<<a, b>>) = {} => ~ \E f \in Frame : a = from /\ <<b, f>> \in mail
             /\ mine(<<a, b>>) # {} => chosen(<<a, b>>) \in Frame /\ a = from /\ <<b, chosen(<<a, b>>)>> \in mail
  <2>1. ASSUME NEW x \in mine(<<a, b>>) PROVE x[2] \in Frame /\ a = from /\ <<b, x[2]>> \in mail
    <3>1. x \in mail /\ <<a, b>> = <<from, x[1]>>
      OBVIOUS
    <3>2. x = <<x[1], x[2]>> /\ x[2] \in Frame
      BY <3>1
    <3> QED
      BY <3>1, <3>2
  <2>2. ASSUME NEW f \in Frame, a = from, <<b, f>> \in mail PROVE <<b, f>> \in mine(<<a, b>>)
    BY <2>2
  <2> HIDE DEF mine
  <2> QED
    BY <1>3, <2>1, <2>2
<1> HIDE DEF mine, chosen
<1>5. ASSUME NEW a \in Users, NEW b \in Users
      PROVE  \/ d[<<a, b>>] = c[<<a, b>>] /\ ~ \E f \in Frame : a = from /\ <<b, f>> \in mail
             \/ a = from /\ \E f \in Frame : <<b, f>> \in mail /\ d[<<a, b>>] = Append(c[<<a, b>>], f)
  <2>1. d[<<a, b>>] = IF mine(<<a, b>>) = {} THEN c[<<a, b>>] ELSE Append(c[<<a, b>>], chosen(<<a, b>>))
    BY <1>2
  <2> QED
    BY <1>4, <2>1
<1>6. ASSUME NEW q \in Seq(Frame), NEW f \in Frame
      PROVE  \E r \in Seq(Frame) :
                /\ r = Append(q, f)
                /\ \A k \in DOMAIN q : k \in DOMAIN r /\ r[k] = q[k]
                /\ \A k \in DOMAIN r : r[k] = f \/ (k \in DOMAIN q /\ r[k] = q[k])
                /\ \E k \in DOMAIN r : r[k] = f
  <2>1. PICK n \in Nat : n = Len(q)
    BY LenProperties
  <2>2. DOMAIN q = 1 .. n
    BY <2>1, LenProperties
  <2>3. PICK r \in Seq(Frame) : r = Append(q, f)
    BY AppendProperties
  <2>10. PICK m \in Nat : m = n + 1
    OBVIOUS
  <2>4. Len(r) = m /\ r[m] = f /\ \A k \in 1 .. n : r[k] = q[k]
    BY <2>1, <2>3, <2>10, AppendProperties
  <2>5. DOMAIN r = 1 .. m
    BY <2>4, LenProperties
  <2>6. \A k \in 1 .. m : k \in 1 .. n \/ k = m
    BY <2>10
  <2>7. ASSUME NEW k \in DOMAIN r PROVE r[k] = f \/ (k \in DOMAIN q /\ r[k] = q[k])
    <3>1. CASE k \in 1 .. n
      BY <2>2, <2>4, <3>1, Zenon
    <3>2. CASE k = m
      BY <2>4, <3>2, Zenon
    <3>3. k \in 1 .. m
      BY <2>5, Zenon
    <3> QED
      BY <2>6, <3>1, <3>2, <3>3
  <2>8. \A k \in DOMAIN q : k \in DOMAIN r /\ r[k] = q[k]
    <3>1. ASSUME NEW k \in 1 .. n PROVE k \in 1 .. m
      BY <2>10
    <3> QED
      BY <2>2, <2>4, <2>5, <3>1
  <2>9. \E k \in DOMAIN r : r[k] = f
    <3>1. m \in 1 .. m
      BY <2>10
    <3> QED
      BY <2>4, <2>5, <3>1
  <2> QED
    BY <2>3, <2>7, <2>8, <2>9, Zenon
<1>7. d \in Chans
  <2>1. ASSUME NEW a \in Users, NEW b \in Users PROVE d[<<a, b>>] \in Seq(Frame)
    <3>1. c[<<a, b>>] \in Seq(Frame)
      BY DEF Chans
    <3>2. PICK q \in Seq(Frame) : q = c[<<a, b>>]
      BY <3>1
    <3>3. CASE d[<<a, b>>] = q
      BY <3>3
    <3>4. ASSUME NEW f \in Frame, d[<<a, b>>] = Append(q, f) PROVE d[<<a, b>>] \in Seq(Frame)
      BY <1>6, <3>4
    <3> QED
      BY <1>5, <3>2, <3>3, <3>4
  <2>2. \A p \in Users \X Users : d[p] \in Seq(Frame)
    BY <2>1
  <2>3. d = [p \in Users \X Users |-> d[p]]
    BY <1>2
  <2> QED
    BY <2>2, <2>3 DEF Chans
<1>8. ASSUME NEW a \in Users, NEW b \in Users, NEW f \in Frame
      PROVE  /\ Carries(c, a, b, f) => Carries(d, a, b, f)
             /\ Carries(d, a, b, f) => Carries(c, a, b, f) \/ (a = from /\ <<b, f>> \in mail)
  <2>1. PICK q \in Seq(Frame) : q = c[<<a, b>>]
    BY DEF Chans
  <2> DEFINE s == d[<<a, b>>]
  <2>2. CASE s = q
    BY <2>1, <2>2, Zenon DEF Carries
  <2>3. ASSUME NEW g \in Frame, a = from, <<b, g>> \in mail, d[<<a, b>>] = Append(c[<<a, b>>], g)
        PROVE  /\ Carries(c, a, b, f) => Carries(d, a, b, f)
               /\ Carries(d, a, b, f) => Carries(c, a, b, f) \/ (a = from /\ <<b, f>> \in mail)
    <3>1. PICK r \in Seq(Frame) :
                /\ r = Append(q, g)
                /\ \A k \in DOMAIN q : k \in DOMAIN r /\ r[k] = q[k]
                /\ \A k \in DOMAIN r : r[k] = g \/ (k \in DOMAIN q /\ r[k] = q[k])
                /\ \E k \in DOMAIN r : r[k] = g
      BY <1>6
    <3>2. d[<<a, b>>] = r
      BY <2>1, <2>3, <3>1
    <3>3. Carries(c, a, b, f) <=> \E k \in DOMAIN q : q[k] = f
      BY <2>1 DEF Carries
    <3>4. Carries(d, a, b, f) <=> \E k \in DOMAIN r : r[k] = f
      BY <3>2 DEF Carries
    <3>5. CASE f = g
      BY <2>3, <3>1, <3>3, <3>4, <3>5, Zenon
    <3>6. CASE f # g
      BY <3>1, <3>3, <3>4, <3>6, Zenon
    <3> QED
      BY <3>5, <3>6
  <2> QED
    BY <1>5, <2>1, <2>2, <2>3
<1> QED
  BY <1>1, <1>5, <1>7, <1>8 DEF Posted

-----------------------------------------------------------------------------
(* What handlers send. *)

(* Fewer facts about where a key is sent than the code has, and enough.    *)
LEMMA DistributeOwnIs ==
    ASSUME NEW u \in Users, NEW key \in SenderKey,
           NEW members \in SUBSET Users, NEW stored \in SUBSET Users
    PROVE  /\ DistributeOwn(u, key, members, stored) \in SUBSET (Users \X Frame)
           /\ \A b \in Users : \A f \in Frame :
                 <<b, f>> \in DistributeOwn(u, key, members, stored) =>
                    /\ b # u /\ (IF u = Creator THEN b \in members ELSE b = Creator)
                    /\ f.kind = "senderkey" /\ f.owner = u /\ f.gen = key.gen
                    /\ f.iteration = key.iteration /\ f.members = stored
<1> DEFINE d == DistributionOf(u, key, stored)
<1>1. d \in Distribution /\ d.kind = "senderkey" /\ d.owner = u /\ d.gen = key.gen
      /\ d.iteration = key.iteration /\ d.members = stored
  BY DEF DistributionOf, SenderKey, Distribution
<1>2. d \in Frame
  BY <1>1 DEF Frame
<1> HIDE DEF d
<1>3. Creator \in Users
  BY DEF Users
<1>4. DistributeOwn(u, key, members, stored) =
         {<<m, d>> : m \in (IF u = Creator THEN members ELSE {Creator}) \ {u}}
  BY DEF DistributeOwn, d
<1>5. \A x \in DistributeOwn(u, key, members, stored) :
         \E m \in Users : /\ x = <<m, d>> /\ m # u
                          /\ IF u = Creator THEN m \in members ELSE m = Creator
  BY <1>3, <1>4
<1> QED
  BY <1>1, <1>2, <1>5

LEMMA RelayIs ==
    ASSUME NEW u \in Users, NEW owner \in Users, NEW key \in Receiver, NEW members \in SUBSET Users
    PROVE  /\ Relay(u, owner, key, members) \in SUBSET (Users \X Frame)
           /\ \A b \in Users : \A f \in Frame :
                 <<b, f>> \in Relay(u, owner, key, members) =>
                    /\ u = Creator /\ b \in members /\ b # u /\ b # owner
                    /\ f.kind = "senderkey" /\ f.owner = owner /\ f.gen = key.gen
                    /\ f.iteration = key.iteration /\ f.members = members
<1> DEFINE d == DistributionOf(owner, key, members)
<1>1. d \in Distribution /\ d.kind = "senderkey" /\ d.owner = owner /\ d.gen = key.gen
      /\ d.iteration = key.iteration /\ d.members = members
  BY DEF DistributionOf, Receiver, Distribution
<1>2. d \in Frame
  BY <1>1 DEF Frame
<1> HIDE DEF d
<1>3. Relay(u, owner, key, members) =
         IF u = Creator THEN {<<m, d>> : m \in members \ {u, owner}} ELSE {}
  BY DEF Relay, d
<1>4. \A x \in Relay(u, owner, key, members) :
         \E m \in Users : x = <<m, d>> /\ m \notin {u, owner} /\ u = Creator /\ m \in members
  BY <1>3
<1> QED
  BY <1>1, <1>2, <1>4

KeysTyped == own \in [Users -> SenderKey] /\ made \in [Users -> Nat]

\* u goes over to a key that it has just made.
Renewed(u) ==
    /\ own' = [own EXCEPT ![u] = Fresh(u)]
    /\ made' = [made EXCEPT ![u] = @ + 1]

LEMMA RenewedFacts ==
    ASSUME KeysTyped, NEW u \in Users
    PROVE  /\ Fresh(u) \in SenderKey /\ Fresh(u).gen = made[u] + 1 /\ Fresh(u).iteration = 0
           /\ IsKey(Fresh(u))
           /\ Renewed(u) =>
                 /\ KeysTyped' /\ own'[u] = Fresh(u) /\ made'[u] = made[u] + 1
                 /\ \A v \in Users : v # u => own'[v] = own[v] /\ made'[v] = made[v]
<1>1. made[u] \in Nat
  BY DEF KeysTyped
<1>2. /\ Fresh(u) \in SenderKey /\ Fresh(u).gen = made[u] + 1 /\ Fresh(u).iteration = 0
      /\ IsKey(Fresh(u))
  BY <1>1 DEF Fresh, SenderKey, IsKey
<1> HIDE DEF Fresh
<1>3. ASSUME Renewed(u)
      PROVE  /\ KeysTyped' /\ own'[u] = Fresh(u) /\ made'[u] = made[u] + 1
             /\ \A v \in Users : v # u => own'[v] = own[v] /\ made'[v] = made[v]
  BY <1>1, <1>2, <1>3 DEF KeysTyped, Renewed
<1> QED
  BY <1>2, <1>3

\* u has a new key, and has sent it to those of members it sends to.
Rotated(u, c, members, stored) ==
    /\ Renewed(u) /\ owing' = owing \ {u} /\ chan' \in Chans
    /\ \A a, b \in Users : \A f \in Frame : Carries(c, a, b, f) => Carries(chan', a, b, f)
    /\ \A a, b \in Users : \A f \in Frame : Carries(chan', a, b, f) =>
          \/ Carries(c, a, b, f)
          \/ /\ a = u /\ b # u /\ (IF u = Creator THEN b \in members ELSE b = Creator)
             /\ f.kind = "senderkey" /\ f.owner = u /\ f.gen = made[u] + 1
             /\ f.iteration = 0 /\ f.members = stored
    /\ \A b \in Users : b \notin members /\ b # Creator => chan'[<<u, b>>] = c[<<u, b>>]
    /\ \A a, b \in Users : a # u => chan'[<<a, b>>] = c[<<a, b>>]

LEMMA RotateFacts ==
    ASSUME KeysTyped, NEW u \in Users, NEW c \in Chans,
           NEW members \in SUBSET Users, NEW stored \in SUBSET Users, Rotate(u, c, members, stored)
    PROVE  Rotated(u, c, members, stored)
<1>1. PICK mail : mail = DistributeOwn(u, Fresh(u), members, stored)
  OBVIOUS
<1>2. Renewed(u) /\ owing' = owing \ {u} /\ chan' = Post(c, u, mail)
  BY <1>1 DEF Rotate, Renewed
<1>3. /\ mail \in SUBSET (Users \X Frame)
      /\ \A b \in Users : \A f \in Frame : <<b, f>> \in mail =>
            /\ b # u /\ (IF u = Creator THEN b \in members ELSE b = Creator)
            /\ f.kind = "senderkey" /\ f.owner = u /\ f.gen = made[u] + 1
            /\ f.iteration = 0 /\ f.members = stored
  <2>1. PICK k \in SenderKey : k = Fresh(u) /\ k.gen = made[u] + 1 /\ k.iteration = 0
    BY RenewedFacts
  <2>2. mail = DistributeOwn(u, k, members, stored)
    BY <1>1, <2>1
  <2> QED
    BY <2>1, <2>2, DistributeOwnIs
<1>4. PICK d : d = Post(c, u, mail)
  OBVIOUS
<1>5. Posted(d, c, u, mail)
  BY <1>3, <1>4, PostFacts
<1>6. chan' = d
  BY <1>2, <1>4
<1>7. /\ \A b \in Users : b \notin members /\ b # Creator => d[<<u, b>>] = c[<<u, b>>]
      /\ \A a, b \in Users : a # u => d[<<a, b>>] = c[<<a, b>>]
  BY <1>3, <1>5 DEF Posted
<1>8. \A a, b \in Users : \A f \in Frame : Carries(d, a, b, f) =>
         \/ Carries(c, a, b, f)
         \/ /\ a = u /\ b # u /\ (IF u = Creator THEN b \in members ELSE b = Creator)
            /\ f.kind = "senderkey" /\ f.owner = u /\ f.gen = made[u] + 1
            /\ f.iteration = 0 /\ f.members = stored
  BY <1>3, <1>5 DEF Posted
<1> QED
  BY <1>2, <1>5, <1>6, <1>7, <1>8 DEF Posted, Rotated

\* u has a key, made and distributed to members if there was none, and has sent relayed.
Ensured(u, c, members, relayed) ==
    /\ \/ IsKey(own[u]) /\ own' = own /\ made' = made /\ owing' = owing
       \/ ~ IsKey(own[u]) /\ Renewed(u) /\ owing' = owing \ {u}
    /\ chan' \in Chans
    /\ \A a, b \in Users : \A f \in Frame : Carries(c, a, b, f) => Carries(chan', a, b, f)
    /\ \A a, b \in Users : \A f \in Frame : Carries(chan', a, b, f) =>
          \/ Carries(c, a, b, f)
          \/ a = u /\ <<b, f>> \in relayed
          \/ /\ ~ IsKey(own[u])
             /\ a = u /\ b # u /\ (IF u = Creator THEN b \in members ELSE b = Creator)
             /\ f.kind = "senderkey" /\ f.owner = u /\ f.gen = made[u] + 1
             /\ f.iteration = 0 /\ f.members = members
    /\ \A b \in Users : b \notin members /\ b # Creator /\ (\A f \in Frame : <<b, f>> \notin relayed)
          => chan'[<<u, b>>] = c[<<u, b>>]
    /\ \A a, b \in Users : a # u => chan'[<<a, b>>] = c[<<a, b>>]

(* Of a key that is only made when there is none.                          *)
LEMMA EnsureOwnFacts ==
    ASSUME KeysTyped, NEW u \in Users, NEW c \in Chans, NEW members \in SUBSET Users,
           NEW relayed \in SUBSET (Users \X Frame), EnsureOwn(u, c, members, relayed)
    PROVE  Ensured(u, c, members, relayed)
<1>1. CASE IsKey(own[u])
  <2>1. PICK d : d = Post(c, u, relayed)
    OBVIOUS
  <2>2. own' = own /\ made' = made /\ owing' = owing /\ chan' = d
    BY <1>1, <2>1 DEF EnsureOwn
  <2>3. Posted(d, c, u, relayed)
    BY <2>1, PostFacts
  <2> QED
    BY <1>1, <2>2, <2>3 DEF Posted, Ensured
<1>2. CASE ~ IsKey(own[u])
  <2>1. PICK mail : mail = DistributeOwn(u, Fresh(u), members, members)
    OBVIOUS
  <2>2. PICK d : d = Post(c, u, mail)
    OBVIOUS
  <2>3. PICK e : e = Post(d, u, relayed)
    OBVIOUS
  <2>4. Renewed(u) /\ owing' = owing \ {u} /\ chan' = e
    BY <1>2, <2>1, <2>2, <2>3 DEF EnsureOwn, Renewed
  <2>5. /\ mail \in SUBSET (Users \X Frame)
        /\ \A b \in Users : \A f \in Frame : <<b, f>> \in mail =>
              /\ b # u /\ (IF u = Creator THEN b \in members ELSE b = Creator)
              /\ f.kind = "senderkey" /\ f.owner = u /\ f.gen = made[u] + 1
              /\ f.iteration = 0 /\ f.members = members
    <3>1. PICK k \in SenderKey : k = Fresh(u) /\ k.gen = made[u] + 1 /\ k.iteration = 0
      BY RenewedFacts
    <3>2. mail = DistributeOwn(u, k, members, members)
      BY <2>1, <3>1
    <3> QED
      BY <3>1, <3>2, DistributeOwnIs
  <2>6. Posted(d, c, u, mail)
    BY <2>2, <2>5, PostFacts
  <2>7. d \in Chans
    BY <2>6 DEF Posted
  <2>8. Posted(e, d, u, relayed)
    BY <2>3, <2>7, PostFacts
  <2>9. e \in Chans /\ \A a, b \in Users : \A f \in Frame : Carries(c, a, b, f) => Carries(e, a, b, f)
    BY <2>6, <2>8 DEF Posted
  <2>10. \A a, b \in Users : \A f \in Frame : Carries(e, a, b, f) =>
                 \/ Carries(c, a, b, f)
                 \/ a = u /\ <<b, f>> \in relayed
                 \/ a = u /\ <<b, f>> \in mail
    BY <2>6, <2>8 DEF Posted
  <2>11. \A a, b \in Users :
            \/ e[<<a, b>>] = d[<<a, b>>]
            \/ a = u /\ \E f \in Frame : <<b, f>> \in relayed
    BY <2>8 DEF Posted
  <2>12. \A a, b \in Users :
            \/ d[<<a, b>>] = c[<<a, b>>]
            \/ a = u /\ \E f \in Frame : <<b, f>> \in mail
    BY <2>6 DEF Posted
  <2>13. ASSUME NEW b \in Users, b \notin members, b # Creator, \A f \in Frame : <<b, f>> \notin relayed
         PROVE  e[<<u, b>>] = c[<<u, b>>]
    <3>1. ~ \E f \in Frame : <<b, f>> \in mail
      BY <2>5, <2>13
    <3>2. d[<<u, b>>] = c[<<u, b>>]
      BY <2>12, <3>1, Zenon
    <3> QED
      BY <2>11, <2>13, <3>2, Zenon
  <2>14. \A a, b \in Users : a # u => e[<<a, b>>] = c[<<a, b>>]
    BY <2>11, <2>12
  <2>15. \A a, b \in Users : \A f \in Frame : Carries(e, a, b, f) =>
                 \/ Carries(c, a, b, f)
                 \/ a = u /\ <<b, f>> \in relayed
                 \/ /\ a = u /\ b # u /\ (IF u = Creator THEN b \in members ELSE b = Creator)
                    /\ f.kind = "senderkey" /\ f.owner = u /\ f.gen = made[u] + 1
                    /\ f.iteration = 0 /\ f.members = members
    BY <2>5, <2>10
  <2> HIDE DEF Renewed
  <2> QED
    BY <1>2, <2>4, <2>9, <2>13, <2>14, <2>15 DEF Ensured
<1> QED
  BY <1>1, <1>2

-----------------------------------------------------------------------------
(* Types, and what holds of every group. *)

KnowsOK == knows \in [Users -> SUBSET [owner : Users, gen : Nat, iteration : Nat]]

\* Of a frame under way from a to b.
FrameOK(a, b, f) ==
    /\ a # b
    /\ a = Creator => roster[Creator] # {}
    /\ f.kind # "content" => Creator \in f.members
    /\ f.kind = "groupmembership" => f.target # Creator
    /\ f.kind = "content" => f \in said
    /\ f.kind = "senderkey" => f.gen <= made[f.owner]

FramesOK == \A a, b \in Users : \A f \in Frame : Carries(chan, a, b, f) => FrameOK(a, b, f)

HeldOK == \A u \in Users : held[u] \subseteq said

\* Before the group is made there is nothing; only who has a group has a key.
CreatorOK ==
    /\ roster[Creator] = {} => view = {} /\ jobs = {} /\ \A u \in Users : roster[u] = {}
    /\ view # {} => Creator \in view
    /\ \A u \in Users : IsKey(own[u]) => roster[u] # {}

JobsOK ==
    \A job \in jobs :
        /\ Creator \in job.members /\ job.target # Creator /\ Creator \notin job.tell
        /\ \A f \in job.ready : Creator \in f.members /\ f.gen <= made[f.owner]

GensOK ==
    /\ \A u \in Users : own[u].gen <= made[u]
    /\ \A u, s \in Users : recv[u][s].gen <= made[s]
    /\ \A u \in Users : \A k \in knows[u] : k.gen <= made[k.owner]

GroupInv == TypeOK /\ KnowsOK /\ FramesOK /\ HeldOK /\ CreatorOK /\ JobsOK /\ GensOK

LEMMA GroupInit == Init => GroupInv
<1> SUFFICES ASSUME Init PROVE GroupInv
  OBVIOUS
<1>1. NoKey \in SenderKey /\ NoKey.gen = 0 /\ ~ IsKey(NoKey)
  BY DEF NoKey, SenderKey, IsKey
<1>2. NoReceiver \in Receiver /\ NoReceiver.gen = 0
  BY DEF NoReceiver, Receiver
<1> HIDE DEF NoKey, NoReceiver
<1>3. << >> \in Seq(Frame) /\ DOMAIN << >> = {}
  BY EmptySeq
<1>4. \A a, b \in Users : \A f \in Frame : ~ Carries(chan, a, b, f)
  BY <1>3 DEF Init, Carries
<1>5. chan \in [Users \X Users -> Seq(Frame)]
  BY <1>3 DEF Init
<1>6. Creator \in Users
  BY DEF Users
<1>7. recv \in [Users -> [Users -> Receiver]] /\ \A u, s \in Users : recv[u][s] = NoReceiver
  BY <1>2 DEF Init
<1>8. own \in [Users -> SenderKey] /\ \A u \in Users : own[u] = NoKey
  BY <1>1 DEF Init
<1>9. TypeOK
  BY <1>5, <1>7, <1>8 DEF Init, TypeOK
<1>10. KnowsOK /\ HeldOK
  BY DEF Init, KnowsOK, HeldOK
<1>11. FramesOK
  BY <1>4 DEF FramesOK
<1>12. CreatorOK
  BY <1>1, <1>6, <1>8 DEF Init, CreatorOK
<1>13. JobsOK
  BY DEF Init, JobsOK
<1>14. GensOK
  BY <1>1, <1>2, <1>7, <1>8 DEF Init, GensOK
<1> QED
  BY <1>9, <1>10, <1>11, <1>12, <1>13, <1>14 DEF GroupInv

\* What a step may not take back.
Grows ==
    /\ roster[Creator] # {} => roster'[Creator] # {}
    /\ said \subseteq said'
    /\ made' \in [Users -> Nat] /\ \A u \in Users : made[u] <= made'[u]

LEMMA FramesKept ==
    ASSUME GroupInv, Grows,
           \A a, b \in Users : \A f \in Frame :
              Carries(chan', a, b, f) => Carries(chan, a, b, f) \/ FrameOK(a, b, f)'
    PROVE  FramesOK'
<1>1. ASSUME NEW a \in Users, NEW b \in Users, NEW f \in Frame, Carries(chan', a, b, f)
      PROVE  FrameOK(a, b, f)'
  <2>1. CASE Carries(chan, a, b, f)
    <3>1. FrameOK(a, b, f)
      BY <2>1 DEF GroupInv, FramesOK
    <3>2. ASSUME f.kind = "senderkey" PROVE f.gen <= made'[f.owner]
      <4>1. f \in Distribution
        BY <3>2 DEF Frame, Content, Membership
      <4>2. f.gen \in Nat /\ f.owner \in Users
        BY <4>1 DEF Distribution
      <4>3. made[f.owner] \in Nat /\ made'[f.owner] \in Nat /\ made[f.owner] <= made'[f.owner]
        BY <4>2 DEF Grows, GroupInv, TypeOK
      <4>4. f.gen <= made[f.owner]
        BY <3>1, <3>2 DEF FrameOK
      <4> QED
        BY <4>2, <4>3, <4>4
    <3> QED
      BY <3>1, <3>2 DEF FrameOK, Grows
  <2> QED
    BY <1>1, <2>1
<1> QED
  BY <1>1 DEF FramesOK

LEMMA Typed ==
    ASSUME GroupInv
    PROVE  KeysTyped /\ chan \in Chans /\ Creator \in Users
BY DEF GroupInv, TypeOK, KeysTyped, Chans, Users

LEMMA RenewedGrows ==
    ASSUME KeysTyped, NEW u \in Users, Renewed(u)
    PROVE  made' \in [Users -> Nat] /\ \A v \in Users : made[v] <= made'[v]
<1>1. KeysTyped' /\ made'[u] = made[u] + 1 /\ \A v \in Users : v # u => made'[v] = made[v]
  BY RenewedFacts
<1>2. made \in [Users -> Nat] /\ made' \in [Users -> Nat]
  BY <1>1 DEF KeysTyped
<1> QED
  BY <1>1, <1>2

\* The parts of GensOK that are about keys that were passed on.
LEMMA GensKept ==
    ASSUME GroupInv, Grows, recv' = recv, knows' = knows, jobs' = jobs
    PROVE  /\ \A u, s \in Users : recv'[u][s].gen <= made'[s]
           /\ \A u \in Users : \A k \in knows'[u] : k.gen <= made'[k.owner]
           /\ \A job \in jobs' : \A f \in job.ready : f.gen <= made'[f.owner]
<1>1. \A u \in Users : made[u] \in Nat /\ made'[u] \in Nat /\ made[u] <= made'[u]
  BY DEF Grows, GroupInv, TypeOK
<1>2. \A u, s \in Users : recv[u][s].gen \in Nat /\ recv[u][s].gen <= made[s]
  BY DEF GroupInv, GensOK, TypeOK, Receiver
<1>3. \A u \in Users : \A k \in knows[u] : k.gen \in Nat /\ k.owner \in Users /\ k.gen <= made[k.owner]
  BY DEF GroupInv, GensOK, KnowsOK
<1>4. \A job \in jobs : \A f \in job.ready : f.gen \in Nat /\ f.owner \in Users /\ f.gen <= made[f.owner]
  BY DEF GroupInv, JobsOK, TypeOK, Job, Distribution
<1> QED
  BY <1>1, <1>2, <1>3, <1>4

LEMMA OwnGens ==
    ASSUME GroupInv, NEW u \in Users,
           (own' = own /\ made' = made) \/ Renewed(u)
    PROVE  \A v \in Users : own'[v].gen <= made'[v]
<1>1. KeysTyped
  BY Typed
<1>2. CASE own' = own /\ made' = made
  BY <1>2 DEF GroupInv, GensOK
<1>3. CASE Renewed(u)
  <2>1. /\ own'[u] = Fresh(u) /\ Fresh(u).gen = made[u] + 1 /\ made'[u] = made[u] + 1
        /\ made[u] \in Nat
        /\ \A v \in Users : v # u => own'[v] = own[v] /\ made'[v] = made[v]
    BY <1>1, <1>3, RenewedFacts DEF KeysTyped
  <2>2. own'[u].gen <= made'[u]
    BY <2>1
  <2> QED
    BY <2>1, <2>2 DEF GroupInv, GensOK
<1> QED
  BY <1>2, <1>3

LEMMA CreateGroupKeeps ==
    ASSUME GroupInv, NEW selected \in SUBSET Others, CreateGroup(selected)
    PROVE  GroupInv'
<1> DEFINE members == RosterOf(selected)
<1>1. members \in SUBSET Users /\ Creator \in members
  BY DEF RosterOf, Users
<1>2. KeysTyped /\ chan \in Chans /\ Creator \in Users
  BY Typed
<1>3. Rotate(Creator, chan, members, members)
  BY DEF CreateGroup, Rotate
<1>4. /\ roster[Creator] = {} /\ roster' = [roster EXCEPT ![Creator] = members]
      /\ accepted' = accepted \cup {Creator} /\ view' = members
      /\ UNCHANGED <<mode, recv, jobs, held, said, readBy, failedBy, knows, stale, faults, changes>>
  BY DEF CreateGroup
<1> HIDE DEF members
<1>15. Rotated(Creator, chan, members, members)
  BY <1>1, <1>2, <1>3, RotateFacts
<1>5. Renewed(Creator) /\ chan' \in Chans
  BY <1>15 DEF Rotated
<1>6. KeysTyped' /\ \A v \in Users : v # Creator => own'[v] = own[v] /\ made'[v] = made[v]
  BY <1>2, <1>5, RenewedFacts
<1>7. \A a, b \in Users : \A f \in Frame : Carries(chan', a, b, f) =>
         \/ Carries(chan, a, b, f)
         \/ /\ a = Creator /\ b # Creator
            /\ f.kind = "senderkey" /\ f.owner = Creator /\ f.gen = made[Creator] + 1
            /\ f.members = members
  BY <1>15 DEF Rotated
<1>8. roster'[Creator] = members /\ \A u \in Users : u # Creator => roster'[u] = roster[u]
  BY <1>1, <1>2, <1>4 DEF GroupInv, TypeOK
<1>9. Grows
  BY <1>1, <1>2, <1>4, <1>5, <1>8, RenewedGrows DEF Grows
<1>10. TypeOK'
  <2>1. roster' \in [Users -> SUBSET Users] /\ \A u \in Users : roster'[u] # {} => Creator \in roster'[u]
    BY <1>1, <1>4, <1>8 DEF GroupInv, TypeOK
  <2> QED
    BY <1>1, <1>2, <1>4, <1>5, <1>6, <2>1 DEF GroupInv, TypeOK, KeysTyped, Chans
<1>11. FramesOK'
  <2>1. made'[Creator] = made[Creator] + 1 /\ made[Creator] + 1 \in Nat
    BY <1>2, <1>5, RenewedFacts DEF KeysTyped
  <2>2. ASSUME NEW a \in Users, NEW b \in Users, NEW f \in Frame, Carries(chan', a, b, f)
        PROVE  Carries(chan, a, b, f) \/ FrameOK(a, b, f)'
    BY <1>1, <1>7, <1>8, <2>1, <2>2 DEF FrameOK
  <2> QED
    BY <1>9, <2>2, FramesKept
<1>12. HeldOK' /\ KnowsOK'
  BY <1>4 DEF GroupInv, HeldOK, KnowsOK
<1>13. CreatorOK'
  BY <1>1, <1>4, <1>6, <1>8 DEF GroupInv, CreatorOK
<1>14. GensOK' /\ JobsOK'
  <2>1. \A v \in Users : own'[v].gen <= made'[v]
    BY <1>2, <1>5, OwnGens
  <2> QED
    BY <1>4, <1>9, <2>1, GensKept DEF GroupInv, GensOK, JobsOK
<1> QED
  BY <1>10, <1>11, <1>12, <1>13, <1>14 DEF GroupInv

LEMMA AcceptGroupKeeps ==
    ASSUME GroupInv, NEW u \in Users, AcceptGroup(u)
    PROVE  GroupInv'
<1>1. KeysTyped /\ chan \in Chans /\ Creator \in Users /\ roster[u] \in SUBSET Users
  BY Typed DEF GroupInv, TypeOK
<1>2. /\ roster[u] # {} /\ accepted' = accepted \cup {u} /\ EnsureOwn(u, chan, roster[u], {})
      /\ UNCHANGED <<mode, roster, recv, view, jobs, held, said, readBy, failedBy, knows,
                     stale, faults, changes>>
  BY DEF AcceptGroup
<1>3. /\ \/ IsKey(own[u]) /\ own' = own /\ made' = made
         \/ ~ IsKey(own[u]) /\ Renewed(u)
      /\ chan' \in Chans
      /\ \A a, b \in Users : \A f \in Frame : Carries(chan', a, b, f) =>
            \/ Carries(chan, a, b, f)
            \/ /\ ~ IsKey(own[u]) /\ a = u /\ b # u
               /\ f.kind = "senderkey" /\ f.owner = u /\ f.gen = made[u] + 1
               /\ f.members = roster[u]
  <2>1. PICK none \in SUBSET (Users \X Frame) : none = {}
    OBVIOUS
  <2>2. Ensured(u, chan, roster[u], none)
    BY <1>1, <1>2, <2>1, EnsureOwnFacts
  <2> QED
    BY <2>1, <2>2 DEF Ensured
<1>4. KeysTyped' /\ \A v \in Users : v # u => own'[v] = own[v] /\ made'[v] = made[v]
  BY <1>1, <1>3, RenewedFacts DEF KeysTyped
<1>5. Grows
  BY <1>1, <1>2, <1>3, RenewedGrows DEF Grows, KeysTyped
<1>6. TypeOK'
  BY <1>2, <1>3, <1>4 DEF GroupInv, TypeOK, KeysTyped, Chans
<1>7. FramesOK'
  <2>1. ~ IsKey(own[u]) => made'[u] = made[u] + 1 /\ made[u] + 1 \in Nat
    BY <1>1, <1>3, RenewedFacts DEF KeysTyped
  <2>2. roster[u] # {} /\ Creator \in roster[u] /\ roster[Creator] # {}
    BY <1>2 DEF GroupInv, TypeOK, CreatorOK
  <2>3. ASSUME NEW a \in Users, NEW b \in Users, NEW f \in Frame, Carries(chan', a, b, f)
        PROVE  Carries(chan, a, b, f) \/ FrameOK(a, b, f)'
    BY <1>2, <1>3, <2>1, <2>2, <2>3 DEF FrameOK
  <2> QED
    BY <1>5, <2>3, FramesKept
<1>8. HeldOK' /\ KnowsOK'
  BY <1>2 DEF GroupInv, HeldOK, KnowsOK
<1>9. CreatorOK'
  BY <1>2, <1>4 DEF GroupInv, CreatorOK
<1>10. GensOK' /\ JobsOK'
  <2>1. \A v \in Users : own'[v].gen <= made'[v]
    BY <1>1, <1>3, OwnGens
  <2> QED
    BY <1>2, <1>5, <2>1, GensKept DEF GroupInv, GensOK, JobsOK
<1> QED
  BY <1>6, <1>7, <1>8, <1>9, <1>10 DEF GroupInv

LEMMA SendGroupMessageKeeps ==
    ASSUME GroupInv, NEW u \in Users, SendGroupMessage(u)
    PROVE  GroupInv'
<1> DEFINE m == [kind |-> "content", owner |-> u, gen |-> own[u].gen,
                 iteration |-> own[u].iteration, to |-> roster[u] \ {u}]
           mail == {<<v, m>> : v \in m.to}
<1>1. KeysTyped /\ chan \in Chans /\ Creator \in Users /\ roster[u] \in SUBSET Users
      /\ own[u] \in SenderKey
  BY Typed DEF GroupInv, TypeOK
<1>2. m \in Content /\ m.kind = "content" /\ m.to = roster[u] \ {u}
  BY <1>1 DEF Content, SenderKey
<1>3. m \in Frame
  BY <1>2 DEF Frame
<1>4. mail \in SUBSET (Users \X Frame)
      /\ \A b \in Users : \A f \in Frame : <<b, f>> \in mail => f = m /\ b # u
  BY <1>1, <1>2, <1>3
<1>5. /\ roster[u] # {} /\ own' = [own EXCEPT ![u].iteration = @ + 1]
      /\ chan' = Post(chan, u, mail) /\ said' = said \cup {m}
      /\ UNCHANGED <<mode, roster, accepted, made, recv, view, jobs, held, readBy, failedBy,
                     knows, stale, faults, changes>>
  BY DEF SendGroupMessage
<1> HIDE DEF mail, m
<1>6. Posted(chan', chan, u, mail)
  BY <1>1, <1>4, <1>5, PostFacts
<1>7. own' \in [Users -> SenderKey] /\ \A v \in Users : own'[v].gen = own[v].gen
  <2>1. PICK n \in Nat : n = own[u].iteration + 1
    BY <1>1 DEF SenderKey
  <2>2. own' = [own EXCEPT ![u] = [own[u] EXCEPT !.iteration = n]]
    BY <1>5, <2>1
  <2>3. [own[u] EXCEPT !.iteration = n] \in SenderKey /\ [own[u] EXCEPT !.iteration = n].gen = own[u].gen
    BY <1>1, <2>1 DEF SenderKey
  <2> QED
    BY <1>1, <2>2, <2>3 DEF KeysTyped
<1>8. Grows
  BY <1>5, <1>1 DEF Grows, KeysTyped
<1>9. TypeOK'
  <2>1. chan' \in Chans
    BY <1>6 DEF Posted
  <2>2. said' \subseteq Content /\ readBy' \subseteq Users \X said' /\ failedBy' \subseteq Users \X said'
    BY <1>2, <1>5 DEF GroupInv, TypeOK
  <2> QED
    BY <1>5, <1>7, <2>1, <2>2 DEF GroupInv, TypeOK, Chans
<1>10. FramesOK'
  <2>1. ASSUME NEW a \in Users, NEW b \in Users, NEW f \in Frame, Carries(chan', a, b, f)
        PROVE  Carries(chan, a, b, f) \/ FrameOK(a, b, f)'
    <3>1. Carries(chan, a, b, f) \/ (a = u /\ <<b, f>> \in mail)
      BY <1>6, <2>1 DEF Posted
    <3>2. ASSUME a = u, b # u, f = m PROVE FrameOK(a, b, f)'
      <4>1. f \in said' /\ roster' = roster
        BY <1>5, <3>2
      <4> QED
        BY <1>2, <1>5, <3>2, <4>1 DEF FrameOK
    <3> QED
      BY <1>4, <3>1, <3>2
  <2> QED
    BY <1>8, <2>1, FramesKept
<1>11. HeldOK' /\ KnowsOK'
  BY <1>5 DEF GroupInv, HeldOK, KnowsOK
<1>12. CreatorOK'
  BY <1>5, <1>7 DEF GroupInv, CreatorOK, IsKey
<1>13. GensOK' /\ JobsOK'
  <2>1. \A v \in Users : own'[v].gen <= made'[v]
    BY <1>5, <1>7 DEF GroupInv, GensOK
  <2> QED
    BY <1>5, <1>8, <2>1, GensKept DEF GroupInv, GensOK, JobsOK
<1> QED
  BY <1>9, <1>10, <1>11, <1>12, <1>13 DEF GroupInv

(* What a reader does to a receiver of a key leaves it one of that key.    *)
LEMMA AfterReadingType ==
    ASSUME NEW r \in Receiver, NEW f \in Content
    PROVE  AfterReading(r, f) \in Receiver /\ AfterReading(r, f).gen = r.gen
<1>1. f.iteration \in Nat /\ r.iteration \in Nat /\ r.skipped \in SUBSET Nat
  BY DEF Content, Receiver
<1>2. CASE f.iteration \in r.skipped
  <2>1. AfterReading(r, f) = [r EXCEPT !.skipped = r.skipped \ {f.iteration}]
    BY <1>2 DEF AfterReading
  <2> QED
    BY <1>1, <2>1 DEF Receiver
<1>3. CASE f.iteration \notin r.skipped
  <2>1. PICK s : s = Newest(r.skipped \cup (r.iteration .. (f.iteration - 1)))
    OBVIOUS
  <2>2. s \in SUBSET Nat
    BY <1>1, <2>1 DEF Newest
  <2>3. PICK n \in Nat : n = f.iteration + 1
    BY <1>1
  <2>4. AfterReading(r, f) = [r EXCEPT !.iteration = n, !.skipped = s]
    BY <1>3, <2>1, <2>3 DEF AfterReading
  <2> QED
    BY <1>1, <2>2, <2>4 DEF Receiver
<1> QED
  BY <1>2, <1>3

(* Of reading content, wherever it comes from.                             *)
LEMMA DecryptKeeps ==
    ASSUME GroupInv, NEW u \in Users, NEW f \in said, NEW stays \in BOOLEAN,
           DecryptGroupMessage(u, f, stays), chan' \in Chans,
           \A a, b \in Users : \A g \in Frame : Carries(chan', a, b, g) => Carries(chan, a, b, g)
    PROVE  GroupInv'
<1>1. f \in Content /\ f.owner \in Users
  BY DEF GroupInv, TypeOK, Content
<1> DEFINE r == recv[u][f.owner]
<1>2. recv \in [Users -> [Users -> Receiver]] /\ r \in Receiver
  BY <1>1 DEF GroupInv, TypeOK
<1>3. /\ recv' = recv \/ recv' = [recv EXCEPT ![u][f.owner] = AfterReading(r, f)]
      /\ readBy' = readBy \/ readBy' = readBy \cup {<<u, f>>}
      /\ failedBy' = failedBy \/ failedBy' = failedBy \cup {<<u, f>>}
      /\ held' = [held EXCEPT ![u] = @ \cup {f}] \/ held' = [held EXCEPT ![u] = @ \ {f}]
      /\ UNCHANGED <<mode, roster, accepted, own, made, view, jobs, said, knows, stale, faults, changes>>
  BY DEF DecryptGroupMessage
<1>4. recv' \in [Users -> [Users -> Receiver]] /\ \A v, s \in Users : recv'[v][s].gen = recv[v][s].gen
  <2>1. PICK t \in Receiver : t = AfterReading(r, f) /\ t.gen = r.gen
    BY <1>1, <1>2, AfterReadingType
  <2>2. recv' = recv \/ recv' = [recv EXCEPT ![u] = [recv[u] EXCEPT ![f.owner] = t]]
    BY <1>3, <2>1
  <2> QED
    BY <1>1, <1>2, <2>1, <2>2
<1>5. Grows
  BY <1>3 DEF Grows, GroupInv, TypeOK
<1>6. TypeOK'
  <2>1. readBy' \subseteq Users \X said' /\ failedBy' \subseteq Users \X said'
    BY <1>3 DEF GroupInv, TypeOK
  <2>2. held' \in [Users -> SUBSET Content]
    <3>1. held \in [Users -> SUBSET Content] /\ held[u] \cup {f} \in SUBSET Content
          /\ held[u] \ {f} \in SUBSET Content
      BY <1>1 DEF GroupInv, TypeOK
    <3> QED
      BY <1>3, <3>1
  <2> QED
    BY <1>3, <1>4, <2>1, <2>2 DEF GroupInv, TypeOK, Chans
<1>7. FramesOK'
  BY <1>5, FramesKept
<1>8. HeldOK'
  <2>1. \A v \in Users : held'[v] \subseteq held[v] \cup {f}
    <3>1. held \in [Users -> SUBSET Content]
      BY DEF GroupInv, TypeOK
    <3>2. CASE held' = [held EXCEPT ![u] = @ \cup {f}]
      BY <3>1, <3>2
    <3>3. CASE held' = [held EXCEPT ![u] = @ \ {f}]
      BY <3>1, <3>3
    <3> QED
      BY <1>3, <3>2, <3>3
  <2> QED
    BY <1>3, <2>1 DEF GroupInv, HeldOK
<1>9. KnowsOK' /\ CreatorOK' /\ JobsOK'
  BY <1>3 DEF GroupInv, KnowsOK, CreatorOK, JobsOK
<1>10. GensOK'
  BY <1>3, <1>4 DEF GroupInv, GensOK
<1> QED
  BY <1>6, <1>7, <1>8, <1>9, <1>10 DEF GroupInv

LEMMA RedeliverKeeps ==
    ASSUME GroupInv, NEW u \in Users, NEW f \in held[u], Redeliver(u, f)
    PROVE  GroupInv'
<1>1. f \in said
  BY DEF GroupInv, HeldOK
<1>2. DecryptGroupMessage(u, f, TRUE) /\ chan' = chan
  BY DEF Redeliver
<1>3. chan' \in Chans /\ \A a, b \in Users : \A g \in Frame : Carries(chan', a, b, g) => Carries(chan, a, b, g)
  BY <1>2, Typed
<1> QED
  BY <1>1, <1>2, <1>3, DecryptKeeps

LEMMA ReceiveContentKeeps ==
    ASSUME GroupInv, NEW u \in Users, NEW from \in Users, NEW i \in DOMAIN chan[<<from, u>>],
           NEW stays \in BOOLEAN, ReceiveContent(u, from, i, stays)
    PROVE  GroupInv'
<1> DEFINE f == chan[<<from, u>>][i]
<1>1. chan \in Chans
  BY Typed
<1>2. f.kind = "content" /\ chan' = Taken(from, u, i) /\ DecryptGroupMessage(u, f, stays)
  BY DEF ReceiveContent
<1>3. /\ chan' \in Chans /\ f \in Frame /\ Carries(chan, from, u, f)
      /\ \A a, b \in Users : \A g \in Frame : Carries(chan', a, b, g) => Carries(chan, a, b, g)
  BY <1>1, <1>2, TakenFacts
<1>4. f \in said
  BY <1>2, <1>3 DEF GroupInv, FramesOK, FrameOK
<1> QED
  BY <1>2, <1>3, <1>4, DecryptKeeps

\* What u does with a distribution f that it installs; c are the channels without f.
Installed(u, f, c) ==
    /\ roster[Creator] # {}
    /\ roster' = [roster EXCEPT ![u] = IF @ = {} THEN f.members ELSE @]
    /\ Creator \in roster'[u] /\ roster'[u] \subseteq Users
    /\ recv' = IF f.owner = u THEN recv ELSE [recv EXCEPT ![u][f.owner] = InitReceiver(f)]
    /\ \/ own' = own /\ made' = made /\ owing' = owing
       \/ ~ IsKey(own[u]) /\ Renewed(u) /\ owing' = owing \ {u}
    /\ chan' \in Chans
    /\ \A a, b \in Users : \A g \in Frame : Carries(c, a, b, g) => Carries(chan', a, b, g)
    /\ \A a, b \in Users : \A g \in Frame : Carries(chan', a, b, g) =>
          \/ Carries(c, a, b, g)
          \/ /\ a = Creator /\ u = Creator /\ b \in roster'[u] /\ b # u
             /\ g.kind = "senderkey" /\ g.owner = f.owner /\ g.gen = f.gen /\ g.members = roster'[u]
          \/ /\ ~ IsKey(own[u]) /\ Renewed(u)
             /\ a = u /\ b # u /\ (IF u = Creator THEN b \in roster'[u] ELSE b = Creator)
             /\ g.kind = "senderkey" /\ g.owner = u /\ g.gen = made[u] + 1 /\ g.members = roster'[u]
    /\ \A b \in Users : b \notin roster'[u] => chan'[<<u, b>>] = c[<<u, b>>]
    /\ \A a, b \in Users : a # u => chan'[<<a, b>>] = c[<<a, b>>]

LEMMA ReceiveSenderKeyIs ==
    ASSUME GroupInv, NEW u \in Users, NEW from \in Users, NEW i \in DOMAIN chan[<<from, u>>],
           NEW cut \in BOOLEAN, ReceiveSenderKey(u, from, i, cut)
    PROVE  LET f == chan[<<from, u>>][i]
           IN  /\ f \in Distribution /\ f \in Frame /\ Carries(chan, from, u, f) /\ FrameOK(from, u, f)
               /\ f.kind = "senderkey"
               /\ \/ /\ ~ Installs(u, from, f)
                     /\ chan' = Taken(from, u, i) /\ UNCHANGED <<roster, recv, own, made, owing>>
                  \/ Installs(u, from, f) /\ Installed(u, f, Taken(from, u, i))
               /\ knows' = [knows EXCEPT ![u] = @ \cup
                               {[owner |-> f.owner, gen |-> f.gen, iteration |-> f.iteration]}]
               /\ faults' \in {faults, faults + 1}
               /\ UNCHANGED <<mode, accepted, view, jobs, held, said, readBy, failedBy, stale, changes>>
<1> DEFINE f == chan[<<from, u>>][i]
<1>1. PICK c : c = Taken(from, u, i)
  OBVIOUS
<1>2. KeysTyped /\ chan \in Chans /\ Creator \in Users
  BY Typed
<1>3. /\ c \in Chans /\ f \in Frame /\ Carries(chan, from, u, f)
  BY <1>1, <1>2, TakenFacts
<1>4. f.kind = "senderkey" /\ f \in Distribution
  <2>1. f.kind = "senderkey"
    BY DEF ReceiveSenderKey
  <2> QED
    BY <1>3, <2>1 DEF Frame, Content, Membership
<1>5. FrameOK(from, u, f)
  BY <1>3 DEF GroupInv, FramesOK
<1>6. /\ knows' = [knows EXCEPT ![u] = @ \cup
                      {[owner |-> f.owner, gen |-> f.gen, iteration |-> f.iteration]}]
      /\ faults' \in {faults, faults + 1}
      /\ UNCHANGED <<mode, accepted, view, jobs, held, said, readBy, failedBy, stale, changes>>
  BY DEF ReceiveSenderKey, Cut
<1>7. IF Installs(u, from, f)
      THEN /\ roster' = [roster EXCEPT ![u] = IF @ = {} THEN f.members ELSE @]
           /\ recv' = IF f.owner = u THEN recv ELSE [recv EXCEPT ![u][f.owner] = InitReceiver(f)]
           /\ IF cut \/ u \notin accepted
              THEN chan' = c /\ UNCHANGED <<own, made, owing>>
              ELSE EnsureOwn(u, c, roster'[u],
                             IF f.owner = u THEN {}
                             ELSE Relay(u, f.owner, recv'[u][f.owner], roster'[u]))
      ELSE chan' = c /\ UNCHANGED <<roster, recv, own, made, owing>>
  BY <1>1 DEF ReceiveSenderKey
<1>8. /\ f.owner \in Users /\ f.gen \in Nat /\ f.iteration \in Nat /\ f.members \in SUBSET Users
      /\ Creator \in f.members
  BY <1>4, <1>5 DEF Distribution, FrameOK
<1>9. ASSUME Installs(u, from, f) PROVE Installed(u, f, c)
  <2> HIDE DEF f
  <2>1. roster \in [Users -> SUBSET Users] /\ (roster[u] # {} => Creator \in roster[u])
    BY DEF GroupInv, TypeOK
  <2>2. roster[Creator] # {}
    <3>1. CASE roster[u] # {}
      BY <3>1 DEF GroupInv, CreatorOK
    <3>2. CASE roster[u] = {}
      BY <1>5, <1>9, <3>2 DEF Installs, FrameOK
    <3> QED
      BY <3>1, <3>2
  <2>3. PICK members \in SUBSET Users : members = roster'[u] /\ Creator \in members
    BY <1>7, <1>8, <1>9, <2>1
  <2>4. PICK rel : rel = IF f.owner = u THEN {} ELSE Relay(u, f.owner, recv'[u][f.owner], members)
    OBVIOUS
  <2>5. /\ rel \in SUBSET (Users \X Frame)
        /\ \A b \in Users : \A g \in Frame : <<b, g>> \in rel =>
              /\ u = Creator /\ b \in members /\ b # u
              /\ g.kind = "senderkey" /\ g.owner = f.owner /\ g.gen = f.gen /\ g.members = members
    <3>1. CASE f.owner = u
      BY <2>4, <3>1
    <3>2. CASE f.owner # u
      <4>1. PICK key \in Receiver : key = InitReceiver(f) /\ key.gen = f.gen
        <5>1. InitReceiver(f) \in Receiver /\ InitReceiver(f).gen = f.gen
          BY <1>8 DEF InitReceiver, Receiver
        <5> QED
          BY <5>1
      <4>2. recv'[u][f.owner] = key
        <5>1. recv \in [Users -> [Users -> Receiver]]
          BY DEF GroupInv, TypeOK
        <5>2. recv' = [recv EXCEPT ![u] = [recv[u] EXCEPT ![f.owner] = key]]
          BY <1>7, <1>9, <3>2, <4>1
        <5> QED
          BY <1>8, <5>1, <5>2
      <4>3. rel = Relay(u, f.owner, key, members)
        BY <2>4, <3>2, <4>2
      <4> QED
        BY <1>8, <4>1, <4>3, RelayIs
    <3> QED
      BY <3>1, <3>2
  <2>6. CASE cut \/ u \notin accepted
    <3>1. chan' = c /\ own' = own /\ made' = made /\ owing' = owing
      BY <1>7, <1>9, <2>6
    <3> QED
      BY <1>3, <1>7, <1>9, <2>2, <2>3, <3>1 DEF Installed
  <2>7. CASE ~ (cut \/ u \notin accepted)
    <3>1. EnsureOwn(u, c, members, rel)
      BY <1>7, <1>9, <2>3, <2>4, <2>7
    <3>2. Ensured(u, c, members, rel)
      BY <1>2, <1>3, <2>5, <3>1, EnsureOwnFacts
    <3>3. ASSUME NEW a \in Users, NEW b \in Users, NEW g \in Frame, Carries(chan', a, b, g)
          PROVE  \/ Carries(c, a, b, g)
                 \/ /\ a = Creator /\ u = Creator /\ b \in members /\ b # u
                    /\ g.kind = "senderkey" /\ g.owner = f.owner /\ g.gen = f.gen /\ g.members = members
                 \/ /\ ~ IsKey(own[u]) /\ Renewed(u)
                    /\ a = u /\ b # u /\ (IF u = Creator THEN b \in members ELSE b = Creator)
                    /\ g.kind = "senderkey" /\ g.owner = u /\ g.gen = made[u] + 1 /\ g.members = members
      <4>1. \/ Carries(c, a, b, g)
            \/ a = u /\ <<b, g>> \in rel
            \/ /\ ~ IsKey(own[u])
               /\ a = u /\ b # u /\ (IF u = Creator THEN b \in members ELSE b = Creator)
               /\ g.kind = "senderkey" /\ g.owner = u /\ g.gen = made[u] + 1 /\ g.members = members
        BY <3>2, <3>3, Zenon DEF Ensured
      <4>2. ~ IsKey(own[u]) => Renewed(u)
        BY <3>2, Zenon DEF Ensured
      <4> QED
        BY <2>5, <4>1, <4>2
    <3>4. ASSUME NEW b \in Users, b \notin members PROVE chan'[<<u, b>>] = c[<<u, b>>]
      <4>1. \A g \in Frame : <<b, g>> \notin rel
        BY <2>5, <3>4
      <4> QED
        BY <2>3, <3>2, <3>4, <4>1 DEF Ensured
    <3>5. /\ \/ own' = own /\ made' = made /\ owing' = owing
             \/ ~ IsKey(own[u]) /\ Renewed(u) /\ owing' = owing \ {u}
          /\ chan' \in Chans
          /\ \A a, b \in Users : \A g \in Frame : Carries(c, a, b, g) => Carries(chan', a, b, g)
          /\ \A a, b \in Users : a # u => chan'[<<a, b>>] = c[<<a, b>>]
      BY <3>2 DEF Ensured
    <3> QED
      <4>1. roster' = [roster EXCEPT ![u] = IF @ = {} THEN f.members ELSE @]
            /\ recv' = IF f.owner = u THEN recv ELSE [recv EXCEPT ![u][f.owner] = InitReceiver(f)]
        BY <1>7, <1>9
      <4> QED
        BY <2>2, <2>3, <3>3, <3>4, <3>5, <4>1 DEF Installed
  <2> QED
    BY <2>6, <2>7
<1> QED
  BY <1>1, <1>3, <1>4, <1>5, <1>6, <1>7, <1>9

LEMMA ReceiveSenderKeyKeeps ==
    ASSUME GroupInv, NEW u \in Users, NEW from \in Users, NEW i \in DOMAIN chan[<<from, u>>],
           NEW cut \in BOOLEAN, ReceiveSenderKey(u, from, i, cut)
    PROVE  GroupInv'
<1> DEFINE f == chan[<<from, u>>][i]
<1>1. PICK c : c = Taken(from, u, i)
  OBVIOUS
<1>2. KeysTyped /\ chan \in Chans /\ Creator \in Users
  BY Typed
<1>3. /\ c \in Chans
      /\ \A a, b \in Users : \A g \in Frame : Carries(c, a, b, g) => Carries(chan, a, b, g)
  BY <1>1, <1>2, TakenFacts
<1>4. /\ f \in Distribution /\ FrameOK(from, u, f) /\ f.kind = "senderkey"
      /\ \/ /\ ~ Installs(u, from, f)
            /\ chan' = c /\ UNCHANGED <<roster, recv, own, made>>
         \/ Installs(u, from, f) /\ Installed(u, f, c)
      /\ knows' = [knows EXCEPT ![u] = @ \cup
                      {[owner |-> f.owner, gen |-> f.gen, iteration |-> f.iteration]}]
      /\ faults' \in {faults, faults + 1}
      /\ UNCHANGED <<mode, accepted, view, jobs, held, said, readBy, failedBy, stale, changes>>
  BY <1>1, ReceiveSenderKeyIs
<1> HIDE DEF f
<1>5. /\ f.owner \in Users /\ f.gen \in Nat /\ f.iteration \in Nat /\ f.members \in SUBSET Users
      /\ Creator \in f.members /\ f.gen <= made[f.owner]
  BY <1>4 DEF Distribution, FrameOK
<1>6. /\ roster' \in [Users -> SUBSET Users]
      /\ \A v \in Users : v # u => roster'[v] = roster[v]
      /\ roster[u] # {} => roster'[u] = roster[u]
      /\ roster'[u] # {} => Creator \in roster'[u]
      /\ roster'[u] # {} => roster[Creator] # {}
  <2>1. roster \in [Users -> SUBSET Users] /\ \A v \in Users : roster[v] # {} => Creator \in roster[v]
    BY DEF GroupInv, TypeOK
  <2>2. \A v \in Users : roster[v] # {} => roster[Creator] # {}
    BY DEF GroupInv, CreatorOK
  <2>3. CASE roster' = roster
    BY <2>1, <2>2, <2>3
  <2>4. CASE Installed(u, f, c)
    <3>1. /\ roster[Creator] # {} /\ Creator \in roster'[u]
          /\ roster' = [roster EXCEPT ![u] = IF @ = {} THEN f.members ELSE @]
      BY <2>4 DEF Installed
    <3> QED
      BY <1>5, <2>1, <3>1
  <2> QED
    BY <1>4, <2>3, <2>4
<1>7. /\ (own' = own /\ made' = made) \/ Renewed(u)
      /\ roster'[u] = {} => own' = own
      /\ chan' \in Chans
  BY <1>3, <1>4 DEF Installed
<1>8. KeysTyped' /\ \A v \in Users : v # u => own'[v] = own[v] /\ made'[v] = made[v]
  BY <1>2, <1>7, RenewedFacts DEF KeysTyped
<1>9. Grows
  <2>1. made' \in [Users -> Nat] /\ \A v \in Users : made[v] <= made'[v]
    <3>1. CASE made' = made
      BY <1>2, <3>1 DEF KeysTyped
    <3>2. CASE Renewed(u)
      BY <1>2, <3>2, RenewedGrows
    <3> QED
      BY <1>7, <3>1, <3>2
  <2>2. roster[Creator] # {} => roster'[Creator] # {}
    BY <1>2, <1>6
  <2> QED
    BY <1>4, <2>1, <2>2 DEF Grows
<1>10. \A v \in Users : made[v] \in Nat /\ made'[v] \in Nat /\ made[v] <= made'[v]
  BY <1>2, <1>9 DEF Grows, KeysTyped
<1>11. /\ recv' \in [Users -> [Users -> Receiver]]
       /\ \A v, s \in Users : recv'[v][s].gen <= made'[s]
  <2>1. recv \in [Users -> [Users -> Receiver]]
    BY DEF GroupInv, TypeOK
  <2>2. \A v, s \in Users : recv[v][s].gen <= made'[s]
    <3>1. \A v, s \in Users : recv[v][s].gen \in Nat /\ recv[v][s].gen <= made[s]
      BY <2>1 DEF GroupInv, GensOK, Receiver
    <3> QED
      BY <1>10, <3>1
  <2>3. PICK r \in Receiver : r = InitReceiver(f) /\ r.gen = f.gen
    <3>1. InitReceiver(f) \in Receiver /\ InitReceiver(f).gen = f.gen
      BY <1>5 DEF InitReceiver, Receiver
    <3> QED
      BY <3>1
  <2>4. recv' = recv \/ recv' = [recv EXCEPT ![u][f.owner] = r]
    BY <1>4, <2>3 DEF Installed
  <2>5. r.gen <= made'[f.owner]
    BY <1>5, <1>10, <2>3
  <2>6. CASE recv' = [recv EXCEPT ![u][f.owner] = r]
    <3>1. /\ recv' \in [Users -> [Users -> Receiver]]
          /\ \A a, b \in Users : recv'[a][b] = IF a = u /\ b = f.owner THEN r ELSE recv[a][b]
      BY <1>5, <2>1, <2>3, <2>6, EntrySet
    <3> QED
      BY <2>2, <2>5, <3>1
  <2> QED
    BY <2>1, <2>2, <2>4, <2>6
<1>12. TypeOK'
  <2>1. \A v \in Users : roster'[v] # {} => Creator \in roster'[v]
    BY <1>6 DEF GroupInv, TypeOK
  <2>2. faults' \in Nat
    BY <1>4 DEF GroupInv, TypeOK
  <2> QED
    BY <1>4, <1>6, <1>7, <1>8, <1>11, <2>1, <2>2 DEF GroupInv, TypeOK, KeysTyped, Chans
<1>13. FramesOK'
  <2>1. ASSUME NEW a \in Users, NEW b \in Users, NEW g \in Frame, Carries(chan', a, b, g)
        PROVE  Carries(chan, a, b, g) \/ FrameOK(a, b, g)'
    <3>1. CASE Carries(c, a, b, g)
      BY <1>3, <3>1
    <3>2. CASE /\ a = Creator /\ u = Creator /\ b \in roster'[u] /\ b # u
               /\ g.kind = "senderkey" /\ g.owner = f.owner /\ g.gen = f.gen /\ g.members = roster'[u]
      <4>1. g.gen <= made'[g.owner]
        BY <1>5, <1>10, <3>2
      <4>2. Creator \in g.members /\ roster'[Creator] # {}
        BY <1>6, <3>2
      <4> QED
        BY <3>2, <4>1, <4>2 DEF FrameOK
    <3>3. CASE /\ ~ IsKey(own[u]) /\ Renewed(u) /\ Installed(u, f, c)
               /\ a = u /\ b # u
               /\ g.kind = "senderkey" /\ g.owner = u /\ g.gen = made[u] + 1 /\ g.members = roster'[u]
      <4>1. made'[u] = made[u] + 1 /\ made[u] + 1 \in Nat
        BY <1>2, <3>3, RenewedFacts DEF KeysTyped
      <4>2. Creator \in g.members /\ roster'[u] # {}
        BY <3>3 DEF Installed
      <4> QED
        BY <3>3, <4>1, <4>2 DEF FrameOK
    <3>4. CASE chan' = c
      BY <1>3, <2>1, <3>4
    <3>5. CASE Installed(u, f, c)
      <4>1. \/ Carries(c, a, b, g)
            \/ /\ a = Creator /\ u = Creator /\ b \in roster'[u] /\ b # u
               /\ g.kind = "senderkey" /\ g.owner = f.owner /\ g.gen = f.gen /\ g.members = roster'[u]
            \/ /\ ~ IsKey(own[u]) /\ Renewed(u)
               /\ a = u /\ b # u
               /\ g.kind = "senderkey" /\ g.owner = u /\ g.gen = made[u] + 1 /\ g.members = roster'[u]
        BY <2>1, <3>5, Zenon DEF Installed
      <4> QED
        BY <3>1, <3>2, <3>3, <3>5, <4>1, Zenon
    <3> QED
      BY <1>4, <3>4, <3>5, Zenon
  <2> QED
    BY <1>9, <2>1, FramesKept
<1>14. HeldOK'
  BY <1>4 DEF GroupInv, HeldOK
<1>15. KnowsOK' /\ \A v \in Users : \A k \in knows'[v] : k.gen <= made'[k.owner]
  <2> DEFINE Given0 == [owner : Users, gen : Nat, iteration : Nat]
             k0 == [owner |-> f.owner, gen |-> f.gen, iteration |-> f.iteration]
  <2>1. knows \in [Users -> SUBSET Given0] /\ \A v \in Users : \A k \in knows[v] : k.gen <= made[k.owner]
    BY DEF GroupInv, KnowsOK, GensOK
  <2>2. k0 \in Given0 /\ k0.gen = f.gen /\ k0.owner = f.owner
    BY <1>5
  <2>3. \A k \in Given0 : k.gen <= made[k.owner] => k.gen <= made'[k.owner]
    BY <1>10
  <2>4. knows' = [knows EXCEPT ![u] = knows[u] \cup {k0}]
    BY <1>4
  <2>5. k0.gen <= made[k0.owner]
    BY <1>5, <2>2
  <2> HIDE DEF Given0, k0
  <2>6. knows' \in [Users -> SUBSET Given0]
    BY <2>1, <2>2, <2>4
  <2>7. \A v \in Users : \A k \in knows'[v] : k \in knows[v] \/ k = k0
    BY <2>1, <2>4
  <2>8. \A v \in Users : \A k \in knows'[v] : k \in Given0 /\ k.gen <= made[k.owner]
    BY <2>1, <2>2, <2>5, <2>7
  <2>9. \A v \in Users : \A k \in knows'[v] : k.gen <= made'[k.owner]
    BY <2>3, <2>8
  <2> QED
    BY <2>6, <2>9 DEF KnowsOK, Given0
<1>16. CreatorOK'
  <2>1. \A v \in Users : IsKey(own'[v]) => roster'[v] # {}
    BY <1>6, <1>7, <1>8 DEF GroupInv, CreatorOK
  <2>2. roster'[Creator] = {} => roster[Creator] = {} /\ \A v \in Users : roster'[v] = {}
    <3>1. roster'[Creator] = {} => roster[Creator] = {}
      BY <1>9 DEF Grows
    <3> QED
      BY <1>6, <3>1 DEF GroupInv, CreatorOK
  <2> QED
    BY <1>4, <2>1, <2>2 DEF GroupInv, CreatorOK
<1>17. JobsOK'
  <2>1. \A job \in jobs : \A g \in job.ready : g.gen \in Nat /\ g.owner \in Users /\ g.gen <= made[g.owner]
    BY DEF GroupInv, JobsOK, TypeOK, Job, Distribution
  <2>2. \A job \in jobs : \A g \in job.ready : g.gen <= made'[g.owner]
    BY <1>10, <2>1
  <2> QED
    BY <1>4, <2>2 DEF GroupInv, JobsOK
<1>18. GensOK'
  <2>1. \A v \in Users : own'[v].gen <= made'[v]
    BY <1>7, OwnGens
  <2> QED
    BY <1>11, <1>15, <2>1 DEF GensOK
<1> QED
  BY <1>12, <1>13, <1>14, <1>15, <1>16, <1>17, <1>18 DEF GroupInv

\* What u does with a membership payload f of the creator; c are the channels without f.
\* It leaves the group, drops a member, or takes one in.
Leaves(u, f, c) ==
    /\ f.action = "remove" /\ f.target = u
    /\ roster' = [roster EXCEPT ![u] = {}]
    /\ own' = [own EXCEPT ![u] = NoKey]
    /\ recv' = [recv EXCEPT ![u] = [s \in Users |-> NoReceiver]]
    /\ chan' = c
    /\ UNCHANGED <<made, owing>>

Drops(u, f, c, cut) ==
    /\ f.action = "remove" /\ f.target # u
    /\ roster' = [roster EXCEPT ![u] = f.members]
    /\ recv' = [recv EXCEPT ![u][f.target] = NoReceiver]
    /\ IF cut THEN chan' = c /\ owing' = owing \cup {u} /\ UNCHANGED <<own, made>>
              ELSE Rotate(u, c, f.members, f.members)

TakesIn(u, f, c, cut) ==
    /\ f.action = "add"
    /\ roster' = [roster EXCEPT ![u] = f.members]
    /\ IF f.target = u /\ ~ cut THEN EnsureOwn(u, c, f.members, {})
       ELSE chan' = c /\ UNCHANGED <<own, made, owing>>
    /\ UNCHANGED recv

LEMMA ReceiveMembershipIs ==
    ASSUME GroupInv, NEW u \in Users, NEW from \in Users, NEW i \in DOMAIN chan[<<from, u>>],
           NEW cut \in BOOLEAN, ReceiveMembership(u, from, i, cut)
    PROVE  LET f == chan[<<from, u>>][i]
               c == Taken(from, u, i)
           IN  /\ f \in Membership /\ f \in Frame /\ Carries(chan, from, u, f) /\ FrameOK(from, u, f)
               /\ f.kind = "groupmembership"
               /\ \/ /\ roster[u] = {} \/ from # Creator
                     /\ chan' = c /\ UNCHANGED <<roster, recv, own, made, owing>>
                  \/ /\ roster[u] # {} /\ from = Creator
                     /\ Leaves(u, f, c) \/ Drops(u, f, c, cut) \/ TakesIn(u, f, c, cut)
               /\ faults' = (IF cut THEN faults + 1 ELSE faults)
               /\ UNCHANGED <<mode, accepted, view, jobs, held, said, readBy, failedBy, knows, stale,
                              changes>>
<1> DEFINE f == chan[<<from, u>>][i]
<1>1. PICK c : c = Taken(from, u, i)
  OBVIOUS
<1>2. KeysTyped /\ chan \in Chans /\ Creator \in Users
  BY Typed
<1>3. f \in Frame /\ Carries(chan, from, u, f)
  BY <1>2, TakenFacts
<1>4. f.kind = "groupmembership" /\ f \in Membership
  <2>1. f.kind = "groupmembership"
    BY DEF ReceiveMembership
  <2> QED
    BY <1>3, <2>1 DEF Frame, Content, Distribution
<1>5. FrameOK(from, u, f)
  BY <1>3 DEF GroupInv, FramesOK
<1>6. /\ faults' = (IF cut THEN faults + 1 ELSE faults)
      /\ UNCHANGED <<mode, accepted, view, jobs, held, said, readBy, failedBy, knows, stale, changes>>
  BY DEF ReceiveMembership, Cut
<1>7. f.action \in {"add", "remove"}
  BY <1>4 DEF Membership
<1>8. CASE roster[u] = {} \/ from # Creator
  BY <1>1, <1>3, <1>4, <1>5, <1>6, <1>8 DEF ReceiveMembership
<1>9. CASE roster[u] # {} /\ from = Creator
  <2>1. CASE f.action = "remove" /\ f.target = u
    <3>1. Leaves(u, f, c)
      BY <1>1, <1>9, <2>1 DEF ReceiveMembership, Leaves
    <3> QED
      BY <1>1, <1>3, <1>4, <1>5, <1>6, <1>9, <3>1
  <2>2. CASE f.action = "remove" /\ f.target # u
    <3>1. Drops(u, f, c, cut)
      BY <1>1, <1>9, <2>2 DEF ReceiveMembership, Drops
    <3> QED
      BY <1>1, <1>3, <1>4, <1>5, <1>6, <1>9, <3>1
  <2>3. CASE f.action = "add"
    <3>1. TakesIn(u, f, c, cut)
      BY <1>1, <1>9, <2>3 DEF ReceiveMembership, TakesIn
    <3> QED
      BY <1>1, <1>3, <1>4, <1>5, <1>6, <1>9, <3>1
  <2> QED
    BY <1>7, <2>1, <2>2, <2>3
<1> QED
  BY <1>8, <1>9

\* The part all of these have in common.
Informed(u, f, c) ==
    /\ \/ roster' = roster
       \/ (roster[u] # {} /\ roster' = [roster EXCEPT ![u] = f.members])
       \/ roster' = [roster EXCEPT ![u] = {}]
    /\ recv' \in [Users -> [Users -> Receiver]]
    /\ \A v, s \in Users : recv'[v][s] \in {recv[v][s], NoReceiver}
    /\ \/ own' = own /\ made' = made /\ (roster'[u] = {} => roster[u] = {})
       \/ Renewed(u) /\ Creator \in roster'[u]
       \/ own' = [own EXCEPT ![u] = NoKey] /\ made' = made
    /\ chan' \in Chans
    /\ \A a, b \in Users : \A g \in Frame : Carries(chan', a, b, g) =>
          \/ Carries(c, a, b, g)
          \/ /\ Renewed(u) /\ a = u /\ b # u
             /\ g.kind = "senderkey" /\ g.owner = u /\ g.gen = made[u] + 1 /\ g.members = f.members

LEMMA MembershipCommon ==
    ASSUME GroupInv, NEW u \in Users, NEW f \in Membership, Creator \in f.members, f.target \in Users,
           roster[u] # {}, NEW c \in Chans, NEW cut \in BOOLEAN,
           Leaves(u, f, c) \/ Drops(u, f, c, cut) \/ TakesIn(u, f, c, cut)
    PROVE  Informed(u, f, c)
<1>1. KeysTyped /\ f.members \in SUBSET Users
  BY Typed DEF Membership
<1>2. roster \in [Users -> SUBSET Users] /\ recv \in [Users -> [Users -> Receiver]]
  BY DEF GroupInv, TypeOK
<1>3. NoReceiver \in Receiver
  BY DEF NoReceiver, Receiver
<1> HIDE DEF NoReceiver
<1>4. CASE Leaves(u, f, c)
  <2>1. recv' \in [Users -> [Users -> Receiver]] /\ \A v, s \in Users : recv'[v][s] \in {recv[v][s], NoReceiver}
    BY <1>2, <1>3, <1>4 DEF Leaves
  <2> QED
    BY <1>4, <2>1 DEF Leaves, Informed
<1>5. CASE Drops(u, f, c, cut)
  <2>1. recv' \in [Users -> [Users -> Receiver]] /\ \A v, s \in Users : recv'[v][s] \in {recv[v][s], NoReceiver}
    <3>1. recv' = [recv EXCEPT ![u][f.target] = NoReceiver]
      BY <1>5 DEF Drops
    <3> QED
      BY <1>2, <1>3, <3>1, EntrySet
  <2>2. roster' = [roster EXCEPT ![u] = f.members] /\ roster'[u] = f.members
    BY <1>2, <1>5 DEF Drops
  <2>3. CASE chan' = c /\ UNCHANGED <<own, made>>
    BY <2>1, <2>2, <2>3 DEF Informed
  <2>4. CASE Rotate(u, c, f.members, f.members)
    <3>1. /\ Renewed(u) /\ chan' \in Chans
          /\ \A a, b \in Users : \A g \in Frame : Carries(chan', a, b, g) =>
                \/ Carries(c, a, b, g)
                \/ /\ a = u /\ b # u
                   /\ g.kind = "senderkey" /\ g.owner = u /\ g.gen = made[u] + 1 /\ g.members = f.members
      <4>1. Rotated(u, c, f.members, f.members)
        BY <1>1, <2>4, RotateFacts
      <4> QED
        BY <4>1, Zenon DEF Rotated
    <3> QED
      BY <2>1, <2>2, <3>1 DEF Informed
  <2> QED
    BY <1>5, <2>3, <2>4 DEF Drops
<1>6. CASE TakesIn(u, f, c, cut)
  <2>1. recv' \in [Users -> [Users -> Receiver]] /\ \A v, s \in Users : recv'[v][s] \in {recv[v][s], NoReceiver}
    BY <1>2, <1>6 DEF TakesIn
  <2>2. roster' = [roster EXCEPT ![u] = f.members] /\ roster'[u] = f.members
    BY <1>2, <1>6 DEF TakesIn
  <2>3. CASE chan' = c /\ UNCHANGED <<own, made>>
    BY <2>1, <2>2, <2>3 DEF Informed
  <2>4. CASE EnsureOwn(u, c, f.members, {})
    <3>1. PICK none \in SUBSET (Users \X Frame) : none = {}
      OBVIOUS
    <3>2. Ensured(u, c, f.members, none)
      BY <1>1, <2>4, <3>1, EnsureOwnFacts
    <3>3. ASSUME NEW a \in Users, NEW b \in Users, NEW g \in Frame, Carries(chan', a, b, g)
          PROVE  \/ Carries(c, a, b, g)
                 \/ /\ Renewed(u) /\ a = u /\ b # u
                    /\ g.kind = "senderkey" /\ g.owner = u /\ g.gen = made[u] + 1 /\ g.members = f.members
      BY <3>1, <3>2, <3>3, Zenon DEF Ensured
    <3>4. ((own' = own /\ made' = made) \/ Renewed(u)) /\ chan' \in Chans
      BY <3>2 DEF Ensured
    <3> QED
      BY <2>1, <2>2, <3>3, <3>4 DEF Informed
  <2> QED
    BY <1>6, <2>3, <2>4 DEF TakesIn
<1> QED
  BY <1>4, <1>5, <1>6

LEMMA ReceiveMembershipKeeps ==
    ASSUME GroupInv, NEW u \in Users, NEW from \in Users, NEW i \in DOMAIN chan[<<from, u>>],
           NEW cut \in BOOLEAN, ReceiveMembership(u, from, i, cut)
    PROVE  GroupInv'
<1> DEFINE f == chan[<<from, u>>][i]
<1>1. PICK c : c = Taken(from, u, i)
  OBVIOUS
<1>2. KeysTyped /\ chan \in Chans /\ Creator \in Users
  BY Typed
<1>3. /\ c \in Chans
      /\ \A a, b \in Users : \A g \in Frame : Carries(c, a, b, g) => Carries(chan, a, b, g)
  BY <1>1, <1>2, TakenFacts
<1>4. /\ f \in Membership /\ FrameOK(from, u, f) /\ f.kind = "groupmembership"
      /\ \/ chan' = c /\ UNCHANGED <<roster, recv, own, made>>
         \/ /\ roster[u] # {} /\ from = Creator
            /\ Leaves(u, f, c) \/ Drops(u, f, c, cut) \/ TakesIn(u, f, c, cut)
      /\ faults' \in {faults, faults + 1}
      /\ UNCHANGED <<mode, accepted, view, jobs, held, said, readBy, failedBy, knows, stale, changes>>
  BY <1>1, ReceiveMembershipIs
<1> HIDE DEF f
<1>5. f.target \in Users /\ f.members \in SUBSET Users /\ Creator \in f.members
  BY <1>4 DEF Membership, FrameOK
<1>6. roster \in [Users -> SUBSET Users] /\ recv \in [Users -> [Users -> Receiver]]
      /\ \A v \in Users : roster[v] # {} => Creator \in roster[v]
  BY DEF GroupInv, TypeOK
<1>7. /\ u # Creator \/ roster' = roster
      /\ Informed(u, f, c)
  <2>1. CASE chan' = c /\ UNCHANGED <<roster, recv, own, made>>
    BY <1>3, <1>6, <2>1 DEF Informed
  <2>2. CASE /\ roster[u] # {} /\ from = Creator
             /\ Leaves(u, f, c) \/ Drops(u, f, c, cut) \/ TakesIn(u, f, c, cut)
    <3>1. u # Creator
      BY <1>4, <2>2 DEF FrameOK
    <3> QED
      BY <1>3, <1>4, <1>5, <2>2, <3>1, MembershipCommon
  <2> QED
    BY <1>4, <2>1, <2>2
<1>8. /\ roster' \in [Users -> SUBSET Users] /\ roster'[Creator] = roster[Creator]
      /\ \A v \in Users : v # u => roster'[v] = roster[v]
      /\ \A v \in Users : roster'[v] # {} => Creator \in roster'[v] /\ roster[v] # {}
  <2>1. CASE roster' = roster
    BY <1>6, <2>1
  <2>2. CASE roster[u] # {} /\ roster' = [roster EXCEPT ![u] = f.members]
    BY <1>2, <1>5, <1>6, <1>7, <2>2
  <2>3. CASE roster' = [roster EXCEPT ![u] = {}]
    BY <1>2, <1>6, <1>7, <2>3
  <2> QED
    BY <1>7, <2>1, <2>2, <2>3 DEF Informed
<1>9. /\ recv' \in [Users -> [Users -> Receiver]]
      /\ \A v, s \in Users : recv'[v][s] \in {recv[v][s], NoReceiver}
  BY <1>7 DEF Informed
<1>10. NoKey \in SenderKey /\ NoKey.gen = 0 /\ ~ IsKey(NoKey) /\ NoReceiver.gen = 0
  BY DEF NoKey, SenderKey, IsKey, NoReceiver
<1> HIDE DEF NoKey, NoReceiver
<1>11. /\ \/ own' = own /\ made' = made /\ (roster'[u] = {} => roster[u] = {})
          \/ Renewed(u) /\ Creator \in roster'[u]
          \/ own' = [own EXCEPT ![u] = NoKey] /\ made' = made
       /\ chan' \in Chans
  BY <1>7 DEF Informed
<1>12. /\ KeysTyped' /\ (\A v \in Users : v # u => own'[v] = own[v])
       /\ \A v \in Users : own'[v].gen <= made'[v] /\ made[v] \in Nat /\ made'[v] \in Nat /\ made[v] <= made'[v]
       /\ \A v \in Users : IsKey(own'[v]) => roster'[v] # {}
  <2>1. CASE own' = own /\ made' = made /\ (roster'[u] = {} => roster[u] = {})
    BY <1>2, <1>8, <2>1 DEF KeysTyped, GroupInv, GensOK, CreatorOK
  <2>2. CASE Renewed(u) /\ Creator \in roster'[u]
    <3>1. \A v \in Users : own'[v].gen <= made'[v]
      BY <2>2, OwnGens
    <3>2. \A v \in Users : made[v] <= made'[v]
      BY <1>2, <2>2, RenewedGrows
    <3>3. KeysTyped' /\ \A v \in Users : v # u => own'[v] = own[v]
      BY <1>2, <2>2, RenewedFacts
    <3> QED
      BY <1>2, <1>8, <2>2, <3>1, <3>2, <3>3 DEF KeysTyped, GroupInv, CreatorOK
  <2>3. CASE own' = [own EXCEPT ![u] = NoKey] /\ made' = made
    <3>1. KeysTyped' /\ own'[u] = NoKey /\ \A v \in Users : v # u => own'[v] = own[v]
      BY <1>2, <1>10, <2>3 DEF KeysTyped
    <3>2. \A v \in Users : own[v].gen <= made[v] /\ made[v] \in Nat
      BY <1>2 DEF GroupInv, GensOK, KeysTyped
    <3> QED
      BY <1>8, <1>10, <2>3, <3>1, <3>2 DEF GroupInv, CreatorOK
  <2> QED
    BY <1>11, <2>1, <2>2, <2>3
<1>13. Grows
  BY <1>4, <1>8, <1>12 DEF Grows, KeysTyped
<1>14. TypeOK'
  <2>1. faults' \in Nat
    BY <1>4 DEF GroupInv, TypeOK
  <2> QED
    BY <1>4, <1>8, <1>9, <1>11, <1>12, <2>1 DEF GroupInv, TypeOK, KeysTyped, Chans
<1>15. FramesOK'
  <2>1. ASSUME NEW a \in Users, NEW b \in Users, NEW g \in Frame, Carries(chan', a, b, g)
        PROVE  Carries(chan, a, b, g) \/ FrameOK(a, b, g)'
    <3>1. CASE Carries(c, a, b, g)
      BY <1>3, <3>1
    <3>2. CASE /\ Renewed(u) /\ a = u /\ b # u
               /\ g.kind = "senderkey" /\ g.owner = u /\ g.gen = made[u] + 1 /\ g.members = f.members
      <4>1. made'[u] = made[u] + 1 /\ made[u] + 1 \in Nat
        BY <1>2, <3>2, RenewedFacts DEF KeysTyped
      <4>2. IsKey(own'[u])
        BY <1>2, <3>2, RenewedFacts
      <4>3. roster'[u] # {}
        BY <1>12, <4>2
      <4> QED
        BY <1>5, <3>2, <4>1, <4>3 DEF FrameOK
    <3> QED
      BY <1>7, <2>1, <3>1, <3>2, Zenon DEF Informed
  <2> QED
    BY <1>13, <2>1, FramesKept
<1>16. HeldOK' /\ KnowsOK'
  BY <1>4 DEF GroupInv, HeldOK, KnowsOK
<1>17. CreatorOK'
  <2>1. roster'[Creator] = {} => view' = {} /\ jobs' = {} /\ \A v \in Users : roster'[v] = {}
    BY <1>4, <1>8 DEF GroupInv, CreatorOK
  <2> QED
    BY <1>4, <1>12, <2>1 DEF GroupInv, CreatorOK
<1>18. JobsOK'
  <2>1. \A job \in jobs : \A g \in job.ready : g.gen \in Nat /\ g.owner \in Users /\ g.gen <= made[g.owner]
    BY DEF GroupInv, JobsOK, TypeOK, Job, Distribution
  <2>2. \A job \in jobs : \A g \in job.ready : g.gen <= made'[g.owner]
    BY <1>12, <2>1
  <2> QED
    BY <1>4, <2>2 DEF GroupInv, JobsOK
<1>19. GensOK'
  <2>1. \A v, s \in Users : recv'[v][s].gen <= made'[s]
    <3>1. \A v, s \in Users : recv[v][s].gen \in Nat /\ recv[v][s].gen <= made[s]
      BY <1>6 DEF GroupInv, GensOK, Receiver
    <3>2. ASSUME NEW v \in Users, NEW s \in Users PROVE recv'[v][s].gen <= made'[s]
      <4>1. recv'[v][s] = recv[v][s] \/ recv'[v][s] = NoReceiver
        BY <1>9
      <4> QED
        BY <1>10, <1>12, <3>1, <4>1
    <3> QED
      BY <3>2
  <2>2. \A v \in Users : \A k \in knows[v] : k.gen \in Nat /\ k.owner \in Users /\ k.gen <= made[k.owner]
    BY DEF GroupInv, KnowsOK, GensOK
  <2>3. \A v \in Users : \A k \in knows'[v] : k.gen <= made'[k.owner]
    BY <1>4, <1>12, <2>2
  <2> QED
    BY <1>12, <2>1, <2>3 DEF GensOK
<1> QED
  BY <1>14, <1>15, <1>16, <1>17, <1>18, <1>19 DEF GroupInv

-----------------------------------------------------------------------------
(* Membership changes. *)

\* Of one change under way.
JobOK(job) ==
    /\ Creator \in job.members /\ job.target # Creator /\ Creator \notin job.tell
    /\ \A f \in job.ready : Creator \in f.members /\ f.gen <= made[f.owner]

(* A step that changes neither keys nor channels, and starts or goes on    *)
(* with a change.                                                          *)
LEMMA StartKeeps ==
    ASSUME GroupInv, NEW updated \in SUBSET Users, Creator \in updated, roster[Creator] # {},
           NEW job \in Job, JobOK(job),
           roster' = [roster EXCEPT ![Creator] = updated], jobs' = jobs \cup {job},
           recv' \in [Users -> [Users -> Receiver]],
           \A v, s \in Users : recv'[v][s] \in {recv[v][s], NoReceiver},
           changes' = changes + 1,
           UNCHANGED <<mode, accepted, own, made, view, chan, held, said, readBy, failedBy, knows,
                       stale, faults>>
    PROVE  GroupInv'
<1>1. KeysTyped /\ chan \in Chans /\ Creator \in Users
  BY Typed
<1>2. roster \in [Users -> SUBSET Users] /\ \A v \in Users : roster[v] # {} => Creator \in roster[v]
  BY DEF GroupInv, TypeOK
<1>3. roster' \in [Users -> SUBSET Users] /\ roster'[Creator] = updated
      /\ \A v \in Users : v # Creator => roster'[v] = roster[v]
  BY <1>1, <1>2
<1>4. TypeOK'
  <2>1. \A v \in Users : roster'[v] # {} => Creator \in roster'[v]
    BY <1>2, <1>3
  <2>2. changes' \in Nat
    BY DEF GroupInv, TypeOK
  <2> QED
    BY <1>3, <2>1, <2>2 DEF GroupInv, TypeOK
<1>5. Grows
  BY <1>1, <1>3 DEF Grows, KeysTyped
<1>6. FramesOK'
  BY <1>5, FramesKept
<1>7. KnowsOK' /\ HeldOK'
  BY DEF GroupInv, KnowsOK, HeldOK
<1>8. CreatorOK'
  BY <1>3 DEF GroupInv, CreatorOK
<1>9. JobsOK'
  BY DEF GroupInv, JobsOK, JobOK
<1>10. GensOK'
  <2>1. NoReceiver.gen = 0
    BY DEF NoReceiver
  <2>2. \A v, s \in Users : recv[v][s].gen <= made[s] /\ made[s] \in Nat
    BY <1>1 DEF GroupInv, GensOK, KeysTyped
  <2> HIDE DEF NoReceiver
  <2>3. \A v, s \in Users : recv'[v][s].gen <= made[s]
    BY <2>1, <2>2
  <2> QED
    BY <2>3 DEF GroupInv, GensOK
<1> QED
  BY <1>4, <1>6, <1>7, <1>8, <1>9, <1>10 DEF GroupInv

LEMMA StartAddKeeps ==
    ASSUME GroupInv, NEW x \in Users, StartAdd(x)
    PROVE  GroupInv'
<1> DEFINE updated == view \cup {x}
           job == [action |-> "add", target |-> x, members |-> updated,
                   tell |-> updated \ {Creator}, give |-> view, ready |-> {}]
<1>1. view # {} /\ x \notin view
  BY DEF StartAdd, MayChange
<1>2. Creator \in view /\ view \in SUBSET Users /\ roster[Creator] # {}
  BY <1>1 DEF GroupInv, CreatorOK, TypeOK
<1>3. updated \in SUBSET Users /\ Creator \in updated /\ x # Creator
  BY <1>1, <1>2
<1>4. job \in Job /\ JobOK(job)
  BY <1>2, <1>3 DEF Job, JobOK
<1>5. /\ roster' = [roster EXCEPT ![Creator] = updated] /\ jobs' = jobs \cup {job}
      /\ changes' = changes + 1
      /\ UNCHANGED <<mode, accepted, own, made, recv, view, chan, held, said, readBy, failedBy,
                     knows, stale, faults>>
  BY DEF StartAdd
<1> HIDE DEF updated, job
<1>6. /\ recv' \in [Users -> [Users -> Receiver]]
      /\ \A v, s \in Users : recv'[v][s] \in {recv[v][s], NoReceiver}
  BY <1>5 DEF GroupInv, TypeOK
<1> QED
  BY <1>2, <1>3, <1>4, <1>5, <1>6, StartKeeps

LEMMA StartRemoveKeeps ==
    ASSUME GroupInv, NEW x \in Users, StartRemove(x)
    PROVE  GroupInv'
<1> DEFINE updated == view \ {x}
           job == [action |-> "remove", target |-> x, members |-> updated,
                   tell |-> view \ {Creator}, give |-> {}, ready |-> {}]
<1>1. view # {} /\ x \in view \ {Creator}
  BY DEF StartRemove, MayChange
<1>2. Creator \in view /\ view \in SUBSET Users /\ roster[Creator] # {} /\ Creator \in Users
  BY <1>1 DEF GroupInv, CreatorOK, TypeOK
<1>3. updated \in SUBSET Users /\ Creator \in updated /\ x # Creator
  BY <1>1, <1>2
<1>4. job \in Job /\ JobOK(job)
  BY <1>2, <1>3 DEF Job, JobOK
<1>5. /\ roster' = [roster EXCEPT ![Creator] = updated] /\ jobs' = jobs \cup {job}
      /\ recv' = [recv EXCEPT ![Creator][x] = NoReceiver] /\ changes' = changes + 1
      /\ UNCHANGED <<mode, accepted, own, made, view, chan, held, said, readBy, failedBy,
                     knows, stale, faults>>
  BY DEF StartRemove
<1> HIDE DEF updated, job
<1>6. /\ recv' \in [Users -> [Users -> Receiver]]
      /\ \A v, s \in Users : recv'[v][s] \in {recv[v][s], NoReceiver}
  <2>1. NoReceiver \in Receiver
    BY DEF NoReceiver, Receiver
  <2>2. recv \in [Users -> [Users -> Receiver]]
    BY DEF GroupInv, TypeOK
  <2> HIDE DEF NoReceiver
  <2> QED
    BY <1>2, <1>5, <2>1, <2>2, EntrySet
<1> QED
  BY <1>2, <1>3, <1>4, <1>5, <1>6, StartKeeps

(* A step of a change that goes on, and what it sends.                     *)
LEMMA GoesOnKeeps ==
    ASSUME GroupInv, NEW job \in jobs, NEW next \in Job, JobOK(next),
           jobs' = (jobs \ {job}) \cup {next}, chan' \in Chans, NEW mail \in SUBSET (Users \X Frame),
           \A b \in Users : \A f \in Frame : <<b, f>> \in mail =>
              /\ b # Creator /\ f.kind # "content" /\ Creator \in f.members
              /\ f.kind = "groupmembership" => f.target # Creator
              /\ f.kind = "senderkey" => f.gen <= made[f.owner],
           \A a, b \in Users : \A f \in Frame :
              Carries(chan', a, b, f) => Carries(chan, a, b, f) \/ (a = Creator /\ <<b, f>> \in mail),
           stale' \subseteq Users \X Users,
           UNCHANGED <<mode, roster, accepted, own, made, recv, view, held, said, readBy, failedBy,
                       knows, faults, changes>>
    PROVE  GroupInv'
<1>1. KeysTyped /\ chan \in Chans /\ Creator \in Users
  BY Typed
<1>2. TypeOK'
  BY DEF GroupInv, TypeOK, Chans
<1>3. Grows
  BY <1>1 DEF Grows, KeysTyped
<1>4. FramesOK'
  <2>1. roster[Creator] # {}
    BY DEF GroupInv, CreatorOK
  <2>2. ASSUME NEW a \in Users, NEW b \in Users, NEW f \in Frame, Carries(chan', a, b, f)
        PROVE  Carries(chan, a, b, f) \/ FrameOK(a, b, f)'
    <3>1. Carries(chan, a, b, f) \/ (a = Creator /\ <<b, f>> \in mail)
      BY <2>2
    <3>2. CASE a = Creator /\ <<b, f>> \in mail
      BY <2>1, <3>2 DEF FrameOK
    <3> QED
      BY <3>1, <3>2
  <2> QED
    BY <1>3, <2>2, FramesKept
<1>5. KnowsOK' /\ HeldOK' /\ GensOK'
  BY DEF GroupInv, KnowsOK, HeldOK, GensOK
<1>6. CreatorOK'
  BY DEF GroupInv, CreatorOK
<1>7. JobsOK'
  BY DEF GroupInv, JobsOK, JobOK
<1> QED
  BY <1>2, <1>4, <1>5, <1>6, <1>7 DEF GroupInv

LEMMA TellNextKeeps ==
    ASSUME GroupInv, NEW job \in jobs, NEW m \in Users, TellNext(job, m)
    PROVE  GroupInv'
<1> DEFINE next == [job EXCEPT !.tell = @ \ {m}]
           f == [kind |-> "groupmembership", action |-> job.action,
                 target |-> job.target, members |-> job.members]
           mail == {<<m, f>>}
<1>1. job \in Job /\ JobOK(job) /\ m \in job.tell /\ m # Creator /\ Creator \in Users
  <2>1. job \in Job /\ JobOK(job) /\ m \in job.tell
    BY DEF GroupInv, TypeOK, JobsOK, JobOK, TellNext
  <2> QED
    BY <2>1, Typed DEF JobOK
<1>2. f \in Membership
  BY <1>1 DEF Job, Membership
<1>3. f \in Frame
  BY <1>2 DEF Frame
<1>4. /\ mail \in SUBSET (Users \X Frame)
      /\ \A b \in Users : \A g \in Frame : <<b, g>> \in mail => b = m /\ g = f
  BY <1>3
<1>5. next \in Job /\ JobOK(next)
  BY <1>1 DEF Job, JobOK
<1>6. /\ jobs' = (jobs \ {job}) \cup {next} /\ chan' = Post(chan, Creator, mail)
      /\ UNCHANGED <<mode, roster, accepted, own, made, recv, view, held, said, readBy, failedBy,
                     knows, stale, faults, changes>>
  BY DEF TellNext
<1>7. Posted(chan', chan, Creator, mail)
  BY <1>1, <1>4, <1>6, Typed, PostFacts
<1>8. /\ chan' \in Chans
      /\ \A a, b \in Users : \A g \in Frame :
            Carries(chan', a, b, g) => Carries(chan, a, b, g) \/ (a = Creator /\ <<b, g>> \in mail)
  BY <1>7 DEF Posted
<1>9. /\ f.kind = "groupmembership" /\ f.target = job.target /\ f.members = job.members
  OBVIOUS
<1> HIDE DEF next, f, mail
<1>10. \A b \in Users : \A g \in Frame : <<b, g>> \in mail =>
              /\ b # Creator /\ g.kind # "content" /\ Creator \in g.members
              /\ g.kind = "groupmembership" => g.target # Creator
              /\ g.kind = "senderkey" => g.gen <= made[g.owner]
  BY <1>1, <1>4, <1>9 DEF JobOK
<1>11. stale' \subseteq Users \X Users
  BY <1>6 DEF GroupInv, TypeOK
<1> QED
  BY <1>4, <1>5, <1>6, <1>8, <1>10, <1>11, GoesOnKeeps

\* What LoadNext loads: nothing, or the current key, with the roster of the moment.
Loaded(owner) ==
    LET key == IF owner = Creator THEN own[Creator] ELSE recv[Creator][owner]
    IN  IF IsKey(key) THEN {DistributionOf(owner, key, roster[Creator])} ELSE {}

LEMMA LoadedIs ==
    ASSUME GroupInv, NEW owner \in Users
    PROVE  /\ Loaded(owner) \in SUBSET Distribution
           /\ \A f \in Loaded(owner) :
                 f.owner = owner /\ f.gen <= made[owner] /\ f.members = roster[Creator]
<1> DEFINE key == IF owner = Creator THEN own[Creator] ELSE recv[Creator][owner]
<1>1. Creator \in Users /\ roster[Creator] \in SUBSET Users
      /\ own[Creator] \in SenderKey /\ recv[Creator][owner] \in Receiver
  <2>1. Creator \in Users
    BY Typed
  <2> QED
    BY <2>1 DEF GroupInv, TypeOK
<1>2. key.gen \in Nat /\ key.iteration \in Nat
  BY <1>1 DEF SenderKey, Receiver
<1>3. key.gen <= made[owner]
  BY <1>1 DEF GroupInv, GensOK
<1> HIDE DEF key
<1>4. DistributionOf(owner, key, roster[Creator]) \in Distribution
  BY <1>1, <1>2 DEF DistributionOf, Distribution
<1>5. Loaded(owner) = IF IsKey(key) THEN {DistributionOf(owner, key, roster[Creator])} ELSE {}
  BY DEF Loaded, key
<1> QED
  BY <1>3, <1>4, <1>5 DEF DistributionOf

LEMMA LoadNextKeeps ==
    ASSUME GroupInv, NEW job \in jobs, NEW owner \in Users, LoadNext(job, owner)
    PROVE  GroupInv'
<1> DEFINE next == [job EXCEPT !.give = @ \ {owner}, !.ready = Loaded(owner)]
<1>1. job \in Job /\ JobOK(job) /\ Creator \in roster[Creator] /\ Creator \in Users
  <2>1. job \in Job /\ JobOK(job)
    BY DEF GroupInv, TypeOK, JobsOK, JobOK
  <2>2. roster[Creator] # {} /\ Creator \in Users
    BY Typed DEF GroupInv, CreatorOK
  <2> QED
    BY <2>1, <2>2 DEF GroupInv, TypeOK
<1>2. /\ jobs' = (jobs \ {job}) \cup {next}
      /\ UNCHANGED <<mode, roster, accepted, own, made, recv, view, chan, held, said, readBy,
                     failedBy, knows, stale, faults, changes>>
  BY DEF LoadNext, Loaded
<1>3. next \in Job /\ JobOK(next)
  <2>1. PICK set \in SUBSET Distribution :
           /\ set = Loaded(owner)
           /\ \A f \in set : f.owner = owner /\ f.gen <= made[owner] /\ f.members = roster[Creator]
    BY LoadedIs
  <2>2. next = [job EXCEPT !.give = @ \ {owner}, !.ready = set]
    BY <2>1
  <2>3. next \in Job /\ next.ready = set /\ next.members = job.members /\ next.target = job.target
        /\ next.tell = job.tell
    BY <1>1, <2>2 DEF Job
  <2> HIDE DEF next
  <2> QED
    BY <1>1, <2>1, <2>3 DEF JobOK
<1> HIDE DEF next
<1>4. PICK none \in SUBSET (Users \X Frame) : none = {}
  OBVIOUS
<1>5. /\ chan' \in Chans /\ stale' \subseteq Users \X Users
      /\ \A a, b \in Users : \A g \in Frame :
            Carries(chan', a, b, g) => Carries(chan, a, b, g) \/ (a = Creator /\ <<b, g>> \in none)
  BY <1>2, Typed DEF GroupInv, TypeOK
<1> QED
  BY <1>2, <1>3, <1>4, <1>5, GoesOnKeeps

LEMMA GiveNextKeeps ==
    ASSUME GroupInv, NEW job \in jobs, GiveNext(job)
    PROVE  GroupInv'
<1> DEFINE next == [job EXCEPT !.ready = {}]
           mail == {<<job.target, f>> : f \in job.ready}
<1>1. job \in Job /\ JobOK(job) /\ Creator \in Users
  <2>1. job \in Job /\ JobOK(job)
    BY DEF GroupInv, TypeOK, JobsOK, JobOK
  <2> QED
    BY <2>1, Typed
<1>2. /\ jobs' = (jobs \ {job}) \cup {next} /\ chan' = Post(chan, Creator, mail)
      /\ UNCHANGED <<mode, roster, accepted, own, made, recv, view, held, said, readBy, failedBy,
                     knows, faults, changes>>
  BY DEF GiveNext
<1>3. job.target \in Users /\ job.ready \in SUBSET Distribution
  BY <1>1 DEF Job
<1>4. \A f \in job.ready : f \in Distribution /\ f \in Frame /\ f.kind = "senderkey" /\ f.owner \in Users
  BY <1>3 DEF Distribution, Frame
<1>5. /\ mail \in SUBSET (Users \X Frame)
      /\ \A b \in Users : \A g \in Frame : <<b, g>> \in mail => b = job.target /\ g \in job.ready
  BY <1>3, <1>4
<1>6. next \in Job /\ JobOK(next)
  BY <1>1 DEF Job, JobOK
<1>7. Posted(chan', chan, Creator, mail)
  BY <1>1, <1>2, <1>5, Typed, PostFacts
<1>8. /\ chan' \in Chans
      /\ \A a, b \in Users : \A g \in Frame :
            Carries(chan', a, b, g) => Carries(chan, a, b, g) \/ (a = Creator /\ <<b, g>> \in mail)
  BY <1>7 DEF Posted
<1>9. stale' \subseteq Users \X Users
  <2>1. PICK set : set = {g \in job.ready : g.gen #
                    (IF g.owner = Creator THEN own[Creator] ELSE recv[Creator][g.owner]).gen}
    OBVIOUS
  <2>2. stale' = stale \cup {<<job.target, f.owner>> : f \in set} /\ set \subseteq job.ready
    BY <2>1 DEF GiveNext
  <2> QED
    BY <1>3, <1>4, <2>2 DEF GroupInv, TypeOK
<1> HIDE DEF next, mail
<1>10. \A b \in Users : \A g \in Frame : <<b, g>> \in mail =>
              /\ b # Creator /\ g.kind # "content" /\ Creator \in g.members
              /\ g.kind = "groupmembership" => g.target # Creator
              /\ g.kind = "senderkey" => g.gen <= made[g.owner]
  BY <1>1, <1>4, <1>5 DEF JobOK
<1> QED
  BY <1>2, <1>5, <1>6, <1>8, <1>9, <1>10, GoesOnKeeps

LEMMA FinishChangeKeeps ==
    ASSUME GroupInv, NEW job \in jobs, FinishChange(job)
    PROVE  GroupInv'
<1>1. KeysTyped /\ chan \in Chans /\ Creator \in Users
  BY Typed
<1>2. job \in Job /\ JobOK(job) /\ job.members \in SUBSET Users
  BY DEF GroupInv, TypeOK, JobsOK, JobOK, Job
<1>3. Creator \in roster[Creator] /\ roster[Creator] \in SUBSET Users /\ roster[Creator] # {}
  <2>1. roster[Creator] # {}
    BY DEF GroupInv, CreatorOK
  <2> QED
    BY <1>1, <2>1 DEF GroupInv, TypeOK
<1>4. /\ jobs' = jobs \ {job} /\ view' = job.members
      /\ IF job.action = "remove" THEN Rotate(Creator, chan, job.members, roster[Creator])
         ELSE UNCHANGED <<own, made, chan>>
      /\ UNCHANGED <<mode, roster, accepted, recv, held, said, readBy, failedBy, knows, stale, faults,
                     changes>>
  BY DEF FinishChange
<1>5. /\ (own' = own /\ made' = made) \/ Renewed(Creator)
      /\ chan' \in Chans
      /\ \A a, b \in Users : \A g \in Frame : Carries(chan', a, b, g) =>
            \/ Carries(chan, a, b, g)
            \/ /\ Renewed(Creator) /\ a = Creator /\ b # Creator
               /\ g.kind = "senderkey" /\ g.owner = Creator /\ g.gen = made[Creator] + 1
               /\ g.members = roster[Creator]
  <2>1. CASE UNCHANGED <<own, made, chan>>
    BY <1>1, <2>1
  <2>2. CASE Rotate(Creator, chan, job.members, roster[Creator])
    <3>1. Rotated(Creator, chan, job.members, roster[Creator])
      BY <1>1, <1>2, <1>3, <2>2, RotateFacts
    <3> QED
      BY <3>1, Zenon DEF Rotated
  <2> QED
    BY <1>4, <2>1, <2>2
<1>6. /\ KeysTyped' /\ (\A v \in Users : v # Creator => own'[v] = own[v])
      /\ \A v \in Users : made[v] \in Nat /\ made'[v] \in Nat /\ made[v] <= made'[v]
  <2>1. CASE own' = own /\ made' = made
    BY <1>1, <2>1 DEF KeysTyped
  <2>2. CASE Renewed(Creator)
    <3>1. KeysTyped' /\ \A v \in Users : v # Creator => own'[v] = own[v]
      BY <1>1, <2>2, RenewedFacts
    <3> QED
      BY <1>1, <2>2, <3>1, RenewedGrows DEF KeysTyped
  <2> QED
    BY <1>5, <2>1, <2>2
<1>7. Grows
  BY <1>4, <1>6 DEF Grows, KeysTyped
<1>8. TypeOK'
  <2>1. jobs' \subseteq Job /\ view' \subseteq Users
    BY <1>2, <1>4 DEF GroupInv, TypeOK
  <2> QED
    BY <1>4, <1>5, <1>6, <2>1 DEF GroupInv, TypeOK, KeysTyped, Chans
<1>9. FramesOK'
  <2>1. ASSUME NEW a \in Users, NEW b \in Users, NEW g \in Frame, Carries(chan', a, b, g)
        PROVE  Carries(chan, a, b, g) \/ FrameOK(a, b, g)'
    <3>1. CASE Carries(chan, a, b, g)
      BY <3>1
    <3>2. CASE /\ Renewed(Creator) /\ a = Creator /\ b # Creator
               /\ g.kind = "senderkey" /\ g.owner = Creator /\ g.gen = made[Creator] + 1
               /\ g.members = roster[Creator]
      <4>1. made'[Creator] = made[Creator] + 1 /\ made[Creator] + 1 \in Nat
        BY <1>1, <3>2, RenewedFacts DEF KeysTyped
      <4> QED
        BY <1>3, <1>4, <3>2, <4>1 DEF FrameOK
    <3> QED
      BY <1>5, <2>1, <3>1, <3>2, Zenon
  <2> QED
    BY <1>7, <2>1, FramesKept
<1>10. HeldOK' /\ KnowsOK'
  BY <1>4 DEF GroupInv, HeldOK, KnowsOK
<1>11. CreatorOK'
  BY <1>2, <1>3, <1>4, <1>6 DEF GroupInv, CreatorOK, JobOK
<1>12. JobsOK'
  <2>1. \A j \in jobs : \A g \in j.ready : g.gen \in Nat /\ g.owner \in Users /\ g.gen <= made[g.owner]
    BY DEF GroupInv, JobsOK, TypeOK, Job, Distribution
  <2>2. \A j \in jobs' : j \in jobs /\ \A g \in j.ready : g.gen <= made'[g.owner]
    BY <1>4, <1>6, <2>1
  <2> QED
    BY <2>2 DEF GroupInv, JobsOK
<1>13. GensOK'
  <2>1. \A v \in Users : own'[v].gen <= made'[v]
    BY <1>1, <1>5, OwnGens
  <2>2. \A v, s \in Users : recv[v][s].gen \in Nat /\ recv[v][s].gen <= made[s]
    BY DEF GroupInv, GensOK, TypeOK, Receiver
  <2>3. \A v \in Users : \A k \in knows[v] : k.gen \in Nat /\ k.owner \in Users /\ k.gen <= made[k.owner]
    BY DEF GroupInv, KnowsOK, GensOK
  <2> QED
    BY <1>4, <1>6, <2>1, <2>2, <2>3 DEF GensOK
<1> QED
  BY <1>8, <1>9, <1>10, <1>11, <1>12, <1>13 DEF GroupInv

(* Steps that leave keys and channels alone.                               *)
LEMMA QuietKeeps ==
    ASSUME GroupInv, jobs' \subseteq jobs, view' \in {view, roster[Creator]}, faults' \in {faults, faults + 1},
           UNCHANGED <<mode, roster, accepted, own, made, recv, chan, held, said, readBy,
                       failedBy, knows, stale, changes>>
    PROVE  GroupInv'
<1>1. KeysTyped /\ chan \in Chans /\ Creator \in Users
  BY Typed
<1>2. roster[Creator] \in SUBSET Users /\ (roster[Creator] # {} => Creator \in roster[Creator])
  BY <1>1 DEF GroupInv, TypeOK
<1>3. TypeOK'
  <2>1. faults' \in Nat
    BY DEF GroupInv, TypeOK
  <2> QED
    BY <1>2, <2>1 DEF GroupInv, TypeOK
<1>4. Grows
  BY <1>1 DEF Grows, KeysTyped
<1>5. FramesOK'
  BY <1>4, FramesKept
<1>6. HeldOK' /\ KnowsOK' /\ GensOK' /\ JobsOK'
  BY DEF GroupInv, HeldOK, KnowsOK, GensOK, JobsOK
<1>7. CreatorOK'
  BY <1>2 DEF GroupInv, CreatorOK
<1> QED
  BY <1>3, <1>5, <1>6, <1>7 DEF GroupInv

LEMMA GroupStep == GroupInv /\ [Next]_vars => GroupInv'
<1> SUFFICES ASSUME GroupInv, [Next]_vars PROVE GroupInv'
  OBVIOUS
<1>1. ASSUME NEW selected \in SUBSET Others, CreateGroup(selected) PROVE GroupInv'
  BY <1>1, CreateGroupKeeps
<1>2. ASSUME NEW u \in Users, AcceptGroup(u) PROVE GroupInv'
  BY <1>2, AcceptGroupKeeps
<1>3. ASSUME NEW u \in Users, SendGroupMessage(u) PROVE GroupInv'
  BY <1>3, SendGroupMessageKeeps
<1>4. ASSUME NEW u \in Users, NEW f \in held[u], Redeliver(u, f) PROVE GroupInv'
  BY <1>4, RedeliverKeeps
<1>5. CASE Receive
  BY <1>5, ReceiveSenderKeyKeeps, ReceiveMembershipKeeps, ReceiveContentKeeps DEF Receive
<1>6. CASE Change
  <2>1. ASSUME NEW x \in Users, StartAdd(x) \/ StartRemove(x) PROVE GroupInv'
    BY <2>1, StartAddKeeps, StartRemoveKeeps
  <2>2. ASSUME NEW job \in jobs, NEW m \in Users, TellNext(job, m) \/ LoadNext(job, m) PROVE GroupInv'
    BY <2>2, TellNextKeeps, LoadNextKeeps
  <2>3. ASSUME NEW job \in jobs, GiveNext(job) \/ FinishChange(job) PROVE GroupInv'
    BY <2>3, GiveNextKeeps, FinishChangeKeeps
  <2>4. ASSUME NEW job \in jobs, AbandonChange(job) PROVE GroupInv'
    BY <2>4, QuietKeeps DEF AbandonChange
  <2>5. CASE SelectGroup
    BY <2>5, QuietKeeps DEF SelectGroup
  <2> QED
    BY <1>6, <2>1, <2>2, <2>3, <2>4, <2>5 DEF Change
<1>7. CASE UNCHANGED vars
  BY <1>7, QuietKeeps DEF vars
<1> QED
  BY <1>1, <1>2, <1>3, <1>4, <1>5, <1>6, <1>7 DEF Next

(* Keys, rosters, channels and changes are well formed, of any users and   *)
(* in every case, accidents and overlapping changes included; the creator  *)
(* is in every roster that is stored.                                      *)
THEOREM GroupTypesHold == Spec => []TypeOK
<1>1. GroupInv => TypeOK
  BY DEF GroupInv
<1> QED
  BY <1>1, GroupInit, GroupStep, PTL DEF Spec

-----------------------------------------------------------------------------
(* Who was removed is locked out. *)

IsRemoval(f, x) == f.kind = "groupmembership" /\ f.action = "remove" /\ f.target = x

\* Outstanding and Given, of single frames.
Pending(s, x) ==
    \/ \E job \in jobs : job.action = "remove" /\ job.target = x /\ (s \in job.tell \/ s = Creator)
    \/ \E f \in Frame : IsRemoval(f, x) /\ Carries(chan, Creator, s, f)

IsKeyOf(f, s, n) == f.kind = "senderkey" /\ f.owner = s /\ f.gen = n

Holds(x, s, n) ==
    \/ \E k \in knows[x] : k.owner = s /\ k.gen = n
    \/ \E p \in Users : \E f \in Frame : IsKeyOf(f, s, n) /\ Carries(chan, p, x, f)

\* Behind every key under way from the creator to s there is the removal of s.
Followed(c, s) ==
    \A i \in DOMAIN c[<<Creator, s>>] : c[<<Creator, s>>][i].kind = "senderkey" =>
        \E j \in DOMAIN c[<<Creator, s>>] : i < j /\ IsRemoval(c[<<Creator, s>>][j], s)

Plain == ~ mode.overlap

\* Then there is one change at a time, and it is to the roster on record; it
\* starts from that roster as well, as long as no handler was cut short.
OneChange ==
    /\ \A j, k \in jobs : j = k
    /\ jobs = {} /\ faults = 0 => view = roster[Creator]
    /\ \A job \in jobs : /\ job.members = roster[Creator]
                         /\ job.action = "add" => job.target \in job.members
                         /\ job.action = "remove" =>
                               job.target \notin job.members /\ job.give = {} /\ job.ready = {}
                         /\ job.tell \subseteq job.members \cup {job.target}

\* Who is not on the creator's roster and has a group has still to hear of it, and gets
\* no key after that.
LeftBehind == \A s \in Users \ roster[Creator] : roster[s] # {} => Pending(s, s)

KeysLast ==
    \A s \in Users \ roster[Creator] :
        \/ \E job \in jobs : job.action = "remove" /\ job.target = s /\ s \in job.tell
        \/ Followed(chan, s)

\* Nothing was cut short.
Orderly == LeftBehind /\ KeysLast /\ owing = {}

Locked ==
    \A s \in roster[Creator] \ owing : \A x \in Users \ roster[Creator] :
        IsKey(own[s]) /\ ~ Pending(s, x) /\ ~ Pending(s, s) =>
            \A n \in Nat : Holds(x, s, n) => own[s].gen # n

LockInv == OneChange /\ Locked /\ (faults = 0 => Orderly)

LEMMA FaultsCounted ==
    ASSUME GroupInv, faults' \in {faults, faults + 1}
    PROVE  faults' = 0 => faults' = faults
<1>1. faults \in Nat
  BY DEF GroupInv, TypeOK
<1> QED
  BY <1>1

\* A new key is what settles a debt, and what was cut short is what makes one.
Settled ==
    /\ \A s \in owing \ owing' : IsKey(own'[s]) => own'[s].gen = made[s] + 1
    /\ faults' = 0 /\ owing = {} => owing' = {}

LEMMA SettledBy ==
    ASSUME GroupInv, NEW u \in Users, owing' = owing \/ (owing' = owing \ {u} /\ Renewed(u))
    PROVE  Settled
<1>1. CASE Renewed(u) /\ owing' = owing \ {u}
  <2>1. own'[u].gen = made[u] + 1
    BY <1>1, Typed, RenewedFacts
  <2> QED
    BY <1>1, <2>1 DEF Settled
<1> QED
  BY <1>1 DEF Settled

LEMMA PendingIs ==
    ASSUME GroupInv, NEW s \in Users, NEW x
    PROVE  Pending(s, x) <=> Outstanding(s, x)
<1>1. Creator \in Users /\ chan \in Chans
  BY Typed
<1>2. PICK q \in Seq(Frame) : q = chan[<<Creator, s>>]
  BY <1>1 DEF Chans
<1>3. \A i \in DOMAIN q : q[i] \in Frame
  BY LenProperties, ElementOfSeq
<1>4. (\E f \in ToSet(q) : f.kind = "groupmembership" /\ f.action = "remove" /\ f.target = x)
      <=> \E f \in Frame : IsRemoval(f, x) /\ \E i \in DOMAIN q : q[i] = f
  BY <1>3 DEF ToSet, IsRemoval
<1> QED
  BY <1>2, <1>4 DEF Pending, Outstanding, Carries

LEMMA GivenIs ==
    ASSUME GroupInv, NEW x \in Users, NEW s \in Users, NEW n \in Given(x, s)
    PROVE  Holds(x, s, n)
<1>1. chan \in Chans
  BY Typed
<1>2. PICK k \in knows[x] \cup {[owner |-> f.owner, gen |-> f.gen, iteration |-> f.iteration] :
                                    f \in UnderWay(x)} : k.owner = s /\ n = k.gen
  BY DEF Given
<1>3. CASE k \in knows[x]
  BY <1>2, <1>3 DEF Holds
<1>4. CASE k \notin knows[x]
  <2>1. PICK f \in UnderWay(x) : k = [owner |-> f.owner, gen |-> f.gen, iteration |-> f.iteration]
    BY <1>2, <1>4
  <2>2. f.owner = s /\ f.gen = n
    BY <1>2, <2>1
  <2>3. f.kind = "senderkey" /\ \E p \in Users : f \in ToSet(chan[<<p, x>>])
    BY <2>1 DEF UnderWay
  <2>4. PICK p \in Users : f \in ToSet(chan[<<p, x>>])
    BY <2>3
  <2>5. PICK q \in Seq(Frame) : q = chan[<<p, x>>]
    BY <1>1 DEF Chans
  <2>6. \E i \in DOMAIN q : q[i] = f
    BY <2>4, <2>5 DEF ToSet
  <2>7. f \in Frame
    BY <2>6, LenProperties, ElementOfSeq
  <2> QED
    BY <2>2, <2>3, <2>5, <2>6, <2>7 DEF Holds, Carries, IsKeyOf
<1> QED
  BY <1>3, <1>4

\* Nobody holds a key that was not made yet.
LEMMA HeldIsMade ==
    ASSUME GroupInv, NEW x \in Users, NEW s \in Users, NEW n \in Nat, Holds(x, s, n)
    PROVE  n <= made[s]
<1>1. CASE \E k \in knows[x] : k.owner = s /\ k.gen = n
  BY <1>1 DEF GroupInv, GensOK
<1>2. CASE \E p \in Users : \E f \in Frame : IsKeyOf(f, s, n) /\ Carries(chan, p, x, f)
  BY <1>2 DEF GroupInv, FramesOK, FrameOK, IsKeyOf
<1> QED
  BY <1>1, <1>2 DEF Holds

(* Who is not on the roster learns of no key, if a step sends keys only to *)
(* those who are.                                                          *)
LEMMA HoldsKept ==
    ASSUME GroupInv,
           \A a, b \in Users : \A g \in Frame :
              Carries(chan', a, b, g) /\ g.kind = "senderkey" => Carries(chan, a, b, g) \/ b \in roster'[Creator],
           \A x \in Users : \A k \in knows'[x] :
              \/ k \in knows[x]
              \/ \E p \in Users : \E g \in Frame : IsKeyOf(g, k.owner, k.gen) /\ Carries(chan, p, x, g),
           NEW x \in Users \ roster'[Creator], NEW s \in Users, NEW n, Holds(x, s, n)'
    PROVE  Holds(x, s, n)
<1>1. CASE \E k \in knows'[x] : k.owner = s /\ k.gen = n
  BY <1>1 DEF Holds
<1>2. CASE \E p \in Users : \E f \in Frame : IsKeyOf(f, s, n) /\ Carries(chan', p, x, f)
  BY <1>2 DEF Holds, IsKeyOf
<1> QED
  BY <1>1, <1>2 DEF Holds

(* The step of Locked: the roster stays, keys stay or are new, and who has *)
(* not heard of a removal yet still has not, unless its key is new or it   *)
(* owes one now.                                                           *)
LEMMA LockedStep ==
    ASSUME GroupInv, Locked, roster'[Creator] = roster[Creator], Settled,
           \A s \in Users : IsKey(own'[s]) => own'[s].gen = own[s].gen \/ own'[s].gen = made[s] + 1,
           \A x \in Users \ roster[Creator] : \A s \in Users : \A n \in Nat : Holds(x, s, n)' => Holds(x, s, n),
           \A s \in roster[Creator] \ owing' : \A x \in Users :
              IsKey(own'[s]) /\ own'[s].gen = own[s].gen /\ Pending(s, x) => Pending(s, x)'
    PROVE  Locked'
<1>1. ASSUME NEW s \in roster[Creator] \ owing', NEW x \in Users \ roster[Creator],
             IsKey(own'[s]), ~ Pending(s, x)', ~ Pending(s, s)', NEW n \in Nat, Holds(x, s, n)'
      PROVE  own'[s].gen # n
  <2>1. s \in Users /\ made[s] \in Nat /\ own[s].gen \in Nat
    <3>1. Creator \in Users
      BY Typed
    <3> QED
      BY <3>1 DEF GroupInv, TypeOK, SenderKey
  <2>2. CASE own'[s].gen = own[s].gen /\ s \notin owing
    <3>1. IsKey(own[s]) /\ ~ Pending(s, x) /\ ~ Pending(s, s)
      BY <1>1, <2>1, <2>2 DEF IsKey
    <3>2. Holds(x, s, n)
      BY <1>1, <2>1
    <3> QED
      BY <1>1, <2>2, <3>1, <3>2 DEF Locked
  <2>3. CASE own'[s].gen = made[s] + 1
    <3>1. Holds(x, s, n)
      BY <1>1, <2>1
    <3>2. n <= made[s]
      BY <2>1, <3>1, HeldIsMade
    <3> QED
      BY <2>1, <2>3, <3>2
  <2> QED
    BY <1>1, <2>1, <2>2, <2>3 DEF Settled
<1> HIDE DEF Pending, Holds, IsKey
<1>2. roster'[Creator] = roster[Creator]
  OBVIOUS
<1> QED
  BY <1>1, <1>2 DEF Locked

LEMMA FollowedTaken ==
    ASSUME GroupInv, NEW from \in Users, NEW u \in Users, NEW i \in DOMAIN chan[<<from, u>>],
           IsNext(from, u, i), NEW s \in Users, Followed(chan, s)
    PROVE  Followed(Taken(from, u, i), s)
<1>1. chan \in Chans /\ Creator \in Users
  BY Typed
<1>2. PICK c : c = Taken(from, u, i)
  OBVIOUS
<1>3. CASE from = Creator /\ u = s
  <2>1. PICK q \in Seq(Frame) : q = chan[<<Creator, s>>]
    BY <1>1 DEF Chans
  <2>2. PICK n \in Nat : n = Len(q)
    BY LenProperties
  <2>3. DOMAIN q = 1 .. n /\ i \in 1 .. n
    BY <1>3, <2>1, <2>2, LenProperties
  <2>4. PICK r \in Seq(Frame) : r = RemoveAt(q, i)
    BY <1>3, <2>1, RemovedAre
  <2>5. Len(r) = n - 1 /\ \A k \in 1 .. n - 1 : r[k] = IF k < i THEN q[k] ELSE q[k + 1]
    BY <1>3, <2>1, <2>2, <2>4, RemovedAre
  <2>6. DOMAIN r = 1 .. n - 1
    BY <2>2, <2>5, LenProperties
  <2>7. c[<<Creator, s>>] = r
    BY <1>1, <1>2, <1>3, <2>1, <2>4 DEF Taken, Chans
  <2>8. \A k \in 1 .. n : q[k].kind = "senderkey" => \E j \in 1 .. n : k < j /\ IsRemoval(q[j], s)
    BY <2>1, <2>3 DEF Followed
  <2>9. \/ i = 1
        \/ \A j \in 1 .. (i - 1) : (q[j].kind = "content") # (q[i].kind = "content")
    BY <1>3, <2>1 DEF IsNext
  <2>10. ASSUME NEW k \in 1 .. n - 1, r[k].kind = "senderkey"
         PROVE  \E j \in 1 .. n - 1 : k < j /\ IsRemoval(r[j], s)
    <3>1. PICK l \in 1 .. n : l = (IF k < i THEN k ELSE k + 1) /\ r[k] = q[l] /\ l # i
      <4>1. CASE k < i
        <5>1. k \in 1 .. n
          BY <2>3
        <5> QED
          BY <2>5, <4>1, <5>1
      <4>2. CASE ~ k < i
        <5>1. k + 1 \in 1 .. n /\ k + 1 # i
          BY <2>3, <4>2
        <5> QED
          BY <2>5, <4>2, <5>1
      <4> QED
        BY <4>1, <4>2
    <3>2. PICK j \in 1 .. n : l < j /\ IsRemoval(q[j], s)
      BY <2>8, <2>10, <3>1
    <3>3. j # i
      <4>1. SUFFICES ASSUME j = i PROVE FALSE
        OBVIOUS
      <4>2. q[i].kind # "content" /\ q[l].kind # "content"
        BY <2>10, <3>1, <3>2, <4>1 DEF IsRemoval
      <4>3. l \in 1 .. (i - 1) /\ i # 1
        BY <2>3, <3>2, <4>1
      <4> QED
        BY <2>9, <4>2, <4>3
    <3>4. CASE j < i
      <4>1. j \in 1 .. n - 1 /\ k < j
        BY <2>3, <3>1, <3>2, <3>4
      <4>2. r[j] = q[j]
        BY <2>5, <3>4, <4>1
      <4> QED
        BY <3>2, <4>1, <4>2
    <3>5. CASE i < j
      <4>1. j - 1 \in 1 .. n - 1 /\ k < j - 1 /\ ~ j - 1 < i /\ j - 1 + 1 = j
        BY <2>3, <3>1, <3>2, <3>5
      <4>2. PICK m \in 1 .. n - 1 : m = j - 1
        BY <4>1
      <4>3. r[m] = q[j] /\ k < m
        BY <2>5, <4>1, <4>2
      <4> QED
        BY <3>2, <4>3
    <3> QED
      BY <2>3, <3>3, <3>4, <3>5
  <2> QED
    BY <1>2, <2>6, <2>7, <2>10 DEF Followed
<1>4. CASE ~ (from = Creator /\ u = s)
  <2>1. c[<<Creator, s>>] = chan[<<Creator, s>>]
    BY <1>1, <1>2, <1>4 DEF Taken, Chans
  <2> QED
    BY <1>2, <2>1 DEF Followed
<1> QED
  BY <1>3, <1>4

LEMMA PendingStays ==
    ASSUME NEW s, NEW x, jobs' = jobs,
           \A g \in Frame : IsRemoval(g, x) /\ Carries(chan, Creator, s, g) => Carries(chan', Creator, s, g),
           Pending(s, x)
    PROVE  Pending(s, x)'
BY DEF Pending

(* The step of LockInv when the creator's roster stays.                    *)
LEMMA LockStep ==
    ASSUME GroupInv, LockInv, roster'[Creator] = roster[Creator], OneChange', Settled,
           faults' = 0 => faults = 0, faults' = 0 => KeysLast',
           \A s \in Users : IsKey(own'[s]) => own'[s].gen = own[s].gen \/ own'[s].gen = made[s] + 1,
           \A a, b \in Users : \A g \in Frame :
              Carries(chan', a, b, g) /\ g.kind = "senderkey" => Carries(chan, a, b, g) \/ b \in roster[Creator],
           \A x \in Users : \A k \in knows'[x] :
              \/ k \in knows[x]
              \/ \E p \in Users : \E g \in Frame : IsKeyOf(g, k.owner, k.gen) /\ Carries(chan, p, x, g),
           \A s \in roster[Creator] \ owing' : \A x \in Users :
              IsKey(own'[s]) /\ own'[s].gen = own[s].gen /\ Pending(s, x) => Pending(s, x)',
           faults' = 0 => \A s \in Users \ roster[Creator] : roster'[s] # {} => Pending(s, s)'
    PROVE  LockInv'
<1>1. \A x \in Users \ roster[Creator] : \A s \in Users : \A n \in Nat : Holds(x, s, n)' => Holds(x, s, n)
  BY HoldsKept
<1>2. Locked'
  BY <1>1, LockedStep DEF LockInv
<1>3. faults' = 0 => Orderly'
  <2>1. faults' = 0 => LeftBehind'
    BY DEF LeftBehind
  <2>2. faults' = 0 => owing' = {}
    BY DEF LockInv, Orderly, Settled
  <2> QED
    BY <2>1, <2>2 DEF Orderly
<1> QED
  BY <1>2, <1>3 DEF LockInv

\* No change has done anything to the roster on record that it has not to the creator's screen.
LEMMA OneChangeStays ==
    ASSUME OneChange, roster'[Creator] = roster[Creator], jobs' = jobs, view' = view,
           faults' = 0 => faults = 0
    PROVE  OneChange'
BY DEF OneChange

LEMMA CreatorListed ==
    ASSUME GroupInv, NEW u \in Users, roster[u] # {}
    PROVE  Creator \in roster[Creator] /\ roster[Creator] # {}
<1>1. Creator \in Users
  BY Typed
<1>2. roster[Creator] # {}
  BY DEF GroupInv, CreatorOK
<1> QED
  BY <1>1, <1>2 DEF GroupInv, TypeOK

LEMMA AcceptGroupLocks ==
    ASSUME GroupInv, LockInv, NEW u \in Users, AcceptGroup(u)
    PROVE  LockInv'
<1>1. KeysTyped /\ chan \in Chans /\ Creator \in Users /\ roster[u] \in SUBSET Users
  BY Typed DEF GroupInv, TypeOK
<1>2. /\ roster[u] # {} /\ EnsureOwn(u, chan, roster[u], {})
      /\ UNCHANGED <<roster, view, jobs, knows, faults>>
  BY DEF AcceptGroup
<1>3. Creator \in roster[Creator]
  BY <1>2, CreatorListed
<1>4. PICK none \in SUBSET (Users \X Frame) : none = {}
  OBVIOUS
<1>5. Ensured(u, chan, roster[u], none)
  BY <1>1, <1>2, <1>4, EnsureOwnFacts
<1>6. /\ (own' = own /\ made' = made) \/ Renewed(u)
      /\ owing' = owing \/ (owing' = owing \ {u} /\ Renewed(u))
  BY <1>5 DEF Ensured
<1>14. Settled
  BY <1>6, SettledBy
<1>7. \A s \in Users : IsKey(own'[s]) => own'[s].gen = own[s].gen \/ own'[s].gen = made[s] + 1
  BY <1>1, <1>6, RenewedFacts
<1>8. \A a, b \in Users : \A g \in Frame :
              Carries(chan', a, b, g) /\ g.kind = "senderkey" => Carries(chan, a, b, g) \/ b \in roster[Creator]
  BY <1>3, <1>4, <1>5, Zenon DEF Ensured
<1>9. \A s, x \in Users : Pending(s, x) => Pending(s, x)'
  BY <1>1, <1>2, <1>5, PendingStays DEF Ensured
<1>10. faults' = 0 => KeysLast'
  <2>1. ASSUME NEW s \in Users \ roster[Creator] PROVE chan'[<<Creator, s>>] = chan[<<Creator, s>>]
    <3>1. CASE u = Creator
      BY <1>3, <1>4, <1>5, <3>1 DEF Ensured
    <3>2. CASE u # Creator
      BY <1>1, <1>5, <3>2 DEF Ensured
    <3> QED
      BY <3>1, <3>2
  <2> QED
    BY <1>2, <2>1 DEF LockInv, Orderly, KeysLast, Followed
<1>11. OneChange'
  BY <1>2, OneChangeStays DEF LockInv
<1>12. faults' = 0 => \A s \in Users \ roster[Creator] : roster'[s] # {} => Pending(s, s)'
  BY <1>2, <1>9 DEF LockInv, Orderly, LeftBehind
<1>13. \A s \in roster[Creator] : s \in Users
  BY <1>1 DEF GroupInv, TypeOK
<1> QED
  BY <1>2, <1>7, <1>8, <1>9, <1>10, <1>11, <1>12, <1>13, <1>14, LockStep

LEMMA SendGroupMessageLocks ==
    ASSUME GroupInv, LockInv, NEW u \in Users, SendGroupMessage(u)
    PROVE  LockInv'
<1> DEFINE m == [kind |-> "content", owner |-> u, gen |-> own[u].gen,
                 iteration |-> own[u].iteration, to |-> roster[u] \ {u}]
           mail == {<<v, m>> : v \in m.to}
<1>1. KeysTyped /\ chan \in Chans /\ Creator \in Users /\ roster[u] \in SUBSET Users
      /\ own[u] \in SenderKey
  BY Typed DEF GroupInv, TypeOK
<1>2. m \in Content /\ m.kind = "content" /\ m.to = roster[u] \ {u}
  BY <1>1 DEF Content, SenderKey
<1>3. m \in Frame
  BY <1>2 DEF Frame
<1>4. mail \in SUBSET (Users \X Frame)
      /\ \A b \in Users : \A f \in Frame : <<b, f>> \in mail => f.kind = "content" /\ b \in roster[u]
  BY <1>1, <1>2, <1>3
<1>5. /\ own' = [own EXCEPT ![u].iteration = @ + 1]
      /\ chan' = Post(chan, u, mail)
      /\ UNCHANGED <<roster, made, view, jobs, knows, owing, faults>>
  BY DEF SendGroupMessage
<1> HIDE DEF mail, m
<1>6. Posted(chan', chan, u, mail)
  BY <1>1, <1>4, <1>5, PostFacts
<1>7. \A v \in Users : own'[v].gen = own[v].gen
  <2>1. PICK n : n = own[u].iteration + 1
    OBVIOUS
  <2>2. own' = [own EXCEPT ![u] = [own[u] EXCEPT !.iteration = n]]
    BY <1>5, <2>1
  <2>3. [own[u] EXCEPT !.iteration = n].gen = own[u].gen
    BY <1>1 DEF SenderKey
  <2> QED
    BY <1>1, <2>2, <2>3 DEF KeysTyped
<1>8. \A a, b \in Users : \A g \in Frame :
              Carries(chan', a, b, g) /\ g.kind = "senderkey" => Carries(chan, a, b, g) \/ b \in roster[Creator]
  BY <1>4, <1>6 DEF Posted
<1>9. \A s, x \in Users : Pending(s, x) => Pending(s, x)'
  BY <1>1, <1>5, <1>6, PendingStays DEF Posted
<1>10. faults' = 0 => KeysLast'
  <2>1. \A s \in Users \ roster[Creator] : chan'[<<Creator, s>>] = chan[<<Creator, s>>]
    BY <1>1, <1>4, <1>6 DEF Posted
  <2> QED
    BY <1>5, <2>1 DEF LockInv, Orderly, KeysLast, Followed
<1>11. OneChange'
  BY <1>5, OneChangeStays DEF LockInv
<1>12. faults' = 0 => \A s \in Users \ roster[Creator] : roster'[s] # {} => Pending(s, s)'
  BY <1>5, <1>9 DEF LockInv, Orderly, LeftBehind
<1>13. \A s \in roster[Creator] : s \in Users
  BY <1>1 DEF GroupInv, TypeOK
<1>14. Settled
  BY <1>5 DEF Settled
<1> QED
  BY <1>5, <1>7, <1>8, <1>9, <1>10, <1>11, <1>12, <1>13, <1>14, LockStep

(* Reading content, new or held, tells of nothing.                         *)
LEMMA ReadingLocks ==
    ASSUME GroupInv, LockInv, NEW u \in Users, NEW f, NEW stays, DecryptGroupMessage(u, f, stays),
           \A a, b \in Users : \A g \in Frame : Carries(chan', a, b, g) => Carries(chan, a, b, g),
           \A a, b \in Users : \A g \in Frame :
              g.kind # "content" /\ Carries(chan, a, b, g) => Carries(chan', a, b, g),
           \A s \in Users : Followed(chan, s) => Followed(chan', s)
    PROVE  LockInv'
<1>1. Creator \in Users
  BY Typed
<1>2. UNCHANGED <<roster, own, view, jobs, knows, owing, faults>>
  BY DEF DecryptGroupMessage
<1>3. \A s, x \in Users : Pending(s, x) => Pending(s, x)'
  BY <1>1, <1>2, PendingStays DEF IsRemoval
<1>4. faults' = 0 => KeysLast'
  BY <1>2 DEF LockInv, Orderly, KeysLast
<1>5. OneChange'
  BY <1>2, OneChangeStays DEF LockInv
<1>6. faults' = 0 => \A s \in Users \ roster[Creator] : roster'[s] # {} => Pending(s, s)'
  BY <1>2, <1>3 DEF LockInv, Orderly, LeftBehind
<1>7. \A s \in roster[Creator] : s \in Users
  BY <1>1 DEF GroupInv, TypeOK
<1>8. Settled
  BY <1>2 DEF Settled
<1> QED
  BY <1>2, <1>3, <1>4, <1>5, <1>6, <1>7, <1>8, LockStep

LEMMA RedeliverLocks ==
    ASSUME GroupInv, LockInv, NEW u \in Users, NEW f \in held[u], Redeliver(u, f)
    PROVE  LockInv'
BY ReadingLocks DEF Redeliver

LEMMA ReceiveContentLocks ==
    ASSUME GroupInv, LockInv, NEW u \in Users, NEW from \in Users, NEW i \in DOMAIN chan[<<from, u>>],
           NEW stays \in BOOLEAN, ReceiveContent(u, from, i, stays)
    PROVE  LockInv'
<1>1. chan \in Chans
  BY Typed
<1>2. PICK f : f = chan[<<from, u>>][i]
  OBVIOUS
<1>3. /\ f.kind = "content" /\ IsNext(from, u, i)
      /\ chan' = Taken(from, u, i) /\ DecryptGroupMessage(u, f, stays)
  BY <1>2 DEF ReceiveContent
<1>4. \A a, b \in Users : \A g \in Frame : Carries(chan', a, b, g) => Carries(chan, a, b, g)
  BY <1>1, <1>3, TakenFacts
<1>5. \A a, b \in Users : \A g \in Frame :
              g.kind # "content" /\ Carries(chan, a, b, g) => Carries(chan', a, b, g)
  BY <1>1, <1>2, <1>3, TakenFacts
<1>6. \A s \in Users : Followed(chan, s) => Followed(chan', s)
  BY <1>3, FollowedTaken
<1> QED
  BY <1>3, <1>4, <1>5, <1>6, ReadingLocks

LEMMA ReceiveSenderKeyLocks ==
    ASSUME GroupInv, LockInv, NEW u \in Users, NEW from \in Users, NEW i \in DOMAIN chan[<<from, u>>],
           NEW cut \in BOOLEAN, ReceiveSenderKey(u, from, i, cut)
    PROVE  LockInv'
<1>1. KeysTyped /\ chan \in Chans /\ Creator \in Users /\ roster \in [Users -> SUBSET Users]
  BY Typed DEF GroupInv, TypeOK
<1>2. PICK f : f = chan[<<from, u>>][i]
  OBVIOUS
<1>3. PICK c : c = Taken(from, u, i)
  OBVIOUS
<1>4. /\ f \in Frame /\ Carries(chan, from, u, f) /\ f.kind = "senderkey"
      /\ \/ /\ ~ Installs(u, from, f)
            /\ chan' = c /\ UNCHANGED <<roster, recv, own, made, owing>>
         \/ Installs(u, from, f) /\ Installed(u, f, c)
      /\ knows' = [knows EXCEPT ![u] = @ \cup
                      {[owner |-> f.owner, gen |-> f.gen, iteration |-> f.iteration]}]
      /\ faults' \in {faults, faults + 1}
      /\ UNCHANGED <<view, jobs>>
  BY <1>2, <1>3, ReceiveSenderKeyIs
<1>17. faults' = 0 => faults = 0
  BY <1>4, FaultsCounted
<1>18. Settled
  <2>1. owing' = owing \/ (owing' = owing \ {u} /\ Renewed(u))
    BY <1>4 DEF Installed
  <2> QED
    BY <2>1, SettledBy
<1>5. IsNext(from, u, i)
  BY DEF ReceiveSenderKey
<1>6. /\ \A a, b \in Users : \A g \in Frame : Carries(c, a, b, g) => Carries(chan, a, b, g)
      /\ \A a, b \in Users : \A g \in Frame :
            g.kind # "senderkey" /\ Carries(chan, a, b, g) => Carries(c, a, b, g)
  <2>1. \A a, b \in Users : \A g \in Frame : Carries(c, a, b, g) => Carries(chan, a, b, g)
    BY <1>1, <1>3, TakenFacts
  <2>2. \A a, b \in Users : \A g \in Frame :
            g.kind # "senderkey" /\ Carries(chan, a, b, g) => Carries(c, a, b, g)
    BY <1>1, <1>2, <1>3, <1>4, TakenFacts
  <2> QED
    BY <2>1, <2>2
<1>7. /\ roster'[Creator] = roster[Creator]
      /\ \A s \in Users : roster'[s] = roster[s] \/ (s = u /\ roster[s] = {} /\ from = Creator)
  <2>1. CASE UNCHANGED <<roster, recv, own, made>>
    BY <2>1
  <2>2. CASE Installs(u, from, f) /\ Installed(u, f, c)
    <3>1. roster' = [roster EXCEPT ![u] = IF @ = {} THEN f.members ELSE @] /\ roster[Creator] # {}
      BY <2>2 DEF Installed
    <3>2. roster[u] = {} => from = Creator
      BY <2>2 DEF Installs
    <3> QED
      BY <1>1, <3>1, <3>2
  <2> QED
    BY <1>4, <2>1, <2>2
<1>8. \A s \in Users : IsKey(own'[s]) => own'[s].gen = own[s].gen \/ own'[s].gen = made[s] + 1
  <2>1. (own' = own /\ made' = made) \/ Renewed(u)
    BY <1>4 DEF Installed
  <2> QED
    BY <1>1, <2>1, RenewedFacts
<1>9. \A a, b \in Users : \A g \in Frame :
              Carries(chan', a, b, g) /\ g.kind = "senderkey" => Carries(chan, a, b, g) \/ b \in roster[Creator]
  <2>1. CASE chan' = c
    BY <1>6, <2>1
  <2>2. CASE Installed(u, f, c)
    <3>1. Creator \in roster[Creator]
      BY <1>1, <2>2, CreatorListed DEF Installed
    <3>2. \A a, b \in Users : \A g \in Frame : Carries(chan', a, b, g) =>
             \/ Carries(c, a, b, g)
             \/ u = Creator /\ b \in roster'[u]
             \/ u # Creator /\ b = Creator
      BY <2>2 DEF Installed
    <3> QED
      BY <1>6, <1>7, <3>1, <3>2
  <2> QED
    BY <1>4, <2>1, <2>2
<1>10. \A a, b \in Users : \A g \in Frame :
            g.kind # "senderkey" /\ Carries(chan, a, b, g) => Carries(chan', a, b, g)
  BY <1>4, <1>6 DEF Installed
<1>11. \A s, x \in Users : Pending(s, x) => Pending(s, x)'
  BY <1>1, <1>4, <1>10, PendingStays DEF IsRemoval
<1>12. faults' = 0 => KeysLast'
  <2>1. \A s \in Users \ roster[Creator] : chan'[<<Creator, s>>] = c[<<Creator, s>>]
    <3>1. CASE Installed(u, f, c)
      BY <1>1, <1>7, <3>1 DEF Installed
    <3> QED
      BY <1>4, <3>1
  <2>2. \A s \in Users : Followed(chan, s) => Followed(c, s)
    BY <1>3, <1>5, FollowedTaken
  <2> QED
    BY <1>4, <1>7, <1>17, <2>1, <2>2 DEF LockInv, Orderly, KeysLast, Followed
<1>13. OneChange'
  BY <1>4, <1>7, <1>17, OneChangeStays DEF LockInv
<1>14. ASSUME faults' = 0, NEW s \in Users \ roster[Creator], roster'[s] # {} PROVE Pending(s, s)'
  <2>3. LeftBehind /\ KeysLast
    BY <1>14, <1>17 DEF LockInv, Orderly
  <2>1. CASE roster[s] # {}
    BY <1>11, <2>1, <2>3 DEF LeftBehind
  <2>2. CASE roster[s] = {}
    <3>1. s = u /\ from = Creator
      BY <1>7, <1>14, <2>2
    <3>2. CASE \E job \in jobs : job.action = "remove" /\ job.target = s /\ s \in job.tell
      BY <1>4, <3>2 DEF Pending
    <3>3. CASE Followed(chan, s)
      <4>1. PICK j \in DOMAIN chan[<<Creator, s>>] : IsRemoval(chan[<<Creator, s>>][j], s)
        BY <1>2, <1>4, <3>1, <3>3 DEF Followed
      <4>2. chan[<<Creator, s>>][j] \in Frame
        BY <1>1, <4>1, TakenFacts
      <4>3. Pending(s, s)
        BY <4>1, <4>2 DEF Pending, Carries
      <4> QED
        BY <1>11, <4>3
    <3> QED
      BY <2>3, <3>2, <3>3 DEF KeysLast
  <2> QED
    BY <2>1, <2>2
<1>15. \A x \in Users : \A k \in knows'[x] :
              \/ k \in knows[x]
              \/ \E p \in Users : \E g \in Frame : IsKeyOf(g, k.owner, k.gen) /\ Carries(chan, p, x, g)
  <2>1. ASSUME NEW x \in Users, NEW k \in knows'[x], k \notin knows[x]
        PROVE  \E p \in Users : \E g \in Frame : IsKeyOf(g, k.owner, k.gen) /\ Carries(chan, p, x, g)
    <3>1. x = u /\ k = [owner |-> f.owner, gen |-> f.gen, iteration |-> f.iteration]
      BY <1>4, <2>1 DEF GroupInv, KnowsOK
    <3>2. IsKeyOf(f, k.owner, k.gen)
      BY <1>4, <3>1 DEF IsKeyOf
    <3> QED
      BY <1>4, <3>1, <3>2
  <2> QED
    BY <2>1
<1>16. \A s \in roster[Creator] : s \in Users
  BY <1>1
<1> QED
  BY <1>7, <1>8, <1>9, <1>11, <1>12, <1>13, <1>14, <1>15, <1>16, <1>17, <1>18, LockStep

\* What matters of a membership payload f that comes to u, c being the channels without f.
Heard(u, from, f, c) ==
    /\ roster'[Creator] = roster[Creator] /\ \A s \in Users : roster'[s] # {} => roster[s] # {}
    /\ \A s \in Users : IsKey(own'[s]) => own'[s].gen = own[s].gen \/ own'[s].gen = made[s] + 1
    /\ \A a, b \in Users : \A g \in Frame : Carries(c, a, b, g) => Carries(chan', a, b, g)
    /\ \A a, b \in Users : \A g \in Frame :
          Carries(chan', a, b, g) => Carries(c, a, b, g) \/ b = Creator
    /\ \A s \in Users \ roster[Creator] : chan'[<<Creator, s>>] = c[<<Creator, s>>]
    /\ from = Creator /\ f.action = "remove" /\ IsKey(own'[u]) =>
          own'[u].gen # own[u].gen \/ u \in owing'
    /\ from = Creator /\ IsRemoval(f, u) => roster'[u] = {}
    /\ Settled

(* A removal that comes to a member makes it go over to a new key, or to   *)
(* none, or it owes one.                                                   *)
LEMMA HeardIs ==
    ASSUME GroupInv, NEW u \in Users, NEW from \in Users, NEW i \in DOMAIN chan[<<from, u>>],
           NEW cut \in BOOLEAN, ReceiveMembership(u, from, i, cut)
    PROVE  Heard(u, from, chan[<<from, u>>][i], Taken(from, u, i))
<1>1. KeysTyped /\ chan \in Chans /\ Creator \in Users /\ roster \in [Users -> SUBSET Users]
  BY Typed DEF GroupInv, TypeOK
<1>2. PICK f : f = chan[<<from, u>>][i]
  OBVIOUS
<1>3. PICK c : c = Taken(from, u, i)
  OBVIOUS
<1>4. /\ f \in Membership /\ FrameOK(from, u, f) /\ f.kind = "groupmembership"
      /\ \/ /\ roster[u] = {} \/ from # Creator
            /\ chan' = c /\ UNCHANGED <<roster, recv, own, made, owing>>
         \/ /\ roster[u] # {} /\ from = Creator
            /\ Leaves(u, f, c) \/ Drops(u, f, c, cut) \/ TakesIn(u, f, c, cut)
      /\ faults' = IF cut THEN faults + 1 ELSE faults
  BY <1>2, <1>3, ReceiveMembershipIs
<1>5. c \in Chans /\ f.members \in SUBSET Users /\ Creator \in f.members
  BY <1>1, <1>3, <1>4, TakenFacts DEF FrameOK, Membership
<1>6. cut => faults' # 0
  <2>1. faults \in Nat
    BY DEF GroupInv, TypeOK
  <2> QED
    BY <1>4, <2>1
<1>7. CASE /\ roster[u] = {} \/ from # Creator
           /\ chan' = c /\ UNCHANGED <<roster, recv, own, made, owing>>
  <2>1. from = Creator => ~ IsKey(own'[u])
    BY <1>7 DEF GroupInv, CreatorOK
  <2>2. Settled
    BY <1>7 DEF Settled
  <2> QED
    BY <1>2, <1>3, <1>7, <2>1, <2>2 DEF Heard
<1>8. ASSUME roster[u] # {}, from = Creator, Leaves(u, f, c) PROVE Heard(u, from, f, c)
  <2>1. u # Creator /\ chan' = c
    BY <1>4, <1>8 DEF FrameOK, Leaves
  <2>2. roster'[u] = {} /\ \A s \in Users : s # u => roster'[s] = roster[s]
    BY <1>1, <1>8 DEF Leaves
  <2>3. ~ IsKey(own'[u]) /\ \A s \in Users : s # u => own'[s] = own[s]
    <3>1. ~ IsKey(NoKey)
      BY DEF IsKey, NoKey
    <3> QED
      BY <1>1, <1>8, <3>1 DEF Leaves, KeysTyped
  <2>4. Settled
    BY <1>8 DEF Leaves, Settled
  <2> QED
    BY <1>1, <2>1, <2>2, <2>3, <2>4 DEF Heard
<1>11. ASSUME roster[u] # {}, from = Creator, Drops(u, f, c, cut), cut PROVE Heard(u, from, f, c)
  <2>1. u # Creator /\ f.target # u /\ chan' = c /\ own' = own /\ owing' = owing \cup {u}
    BY <1>4, <1>11 DEF FrameOK, Drops
  <2>2. \A s \in Users : s # u => roster'[s] = roster[s]
    BY <1>1, <1>11 DEF Drops
  <2>3. ~ IsRemoval(f, u) /\ Settled
    BY <1>6, <1>11, <2>1 DEF IsRemoval, Settled
  <2>4. roster'[Creator] = roster[Creator] /\ \A s \in Users : roster'[s] # {} => roster[s] # {}
    BY <1>1, <1>11, <2>1, <2>2
  <2> QED
    BY <2>1, <2>3, <2>4 DEF Heard
<1>9. ASSUME roster[u] # {}, from = Creator, Drops(u, f, c, cut), ~ cut PROVE Heard(u, from, f, c)
  <2>1. u # Creator /\ f.target # u /\ Rotate(u, c, f.members, f.members)
    BY <1>4, <1>9 DEF FrameOK, Drops
  <2>2. Rotated(u, c, f.members, f.members)
    BY <1>1, <1>5, <2>1, RotateFacts
  <2>3. \A s \in Users : s # u => roster'[s] = roster[s]
    BY <1>1, <1>9 DEF Drops
  <2>4. /\ own'[u].gen = made[u] + 1
        /\ \A s \in Users : s # u => own'[s] = own[s]
    BY <1>1, <2>2, RenewedFacts DEF Rotated
  <2>5. own[u].gen # made[u] + 1
    <3>1. own[u].gen \in Nat /\ made[u] \in Nat
      BY <1>1 DEF KeysTyped, SenderKey
    <3>2. own[u].gen <= made[u]
      BY DEF GroupInv, GensOK
    <3> QED
      BY <3>1, <3>2
  <2>6. \A a, b \in Users : \A g \in Frame :
            Carries(chan', a, b, g) => Carries(c, a, b, g) \/ b = Creator
    BY <2>1, <2>2, Zenon DEF Rotated
  <2>7. /\ \A a, b \in Users : \A g \in Frame : Carries(c, a, b, g) => Carries(chan', a, b, g)
        /\ \A s \in Users : chan'[<<Creator, s>>] = c[<<Creator, s>>]
    BY <1>1, <2>1, <2>2, Zenon DEF Rotated
  <2>8. ~ IsRemoval(f, u)
    BY <2>1 DEF IsRemoval
  <2>9. \A s \in Users : IsKey(own'[s]) => own'[s].gen = own[s].gen \/ own'[s].gen = made[s] + 1
    BY <2>4
  <2>10. roster'[Creator] = roster[Creator] /\ \A s \in Users : roster'[s] # {} => roster[s] # {}
    BY <1>1, <1>9, <2>1, <2>3
  <2>11. Settled
    BY <2>2, SettledBy DEF Rotated
  <2> QED
    BY <2>4, <2>5, <2>6, <2>7, <2>8, <2>9, <2>10, <2>11 DEF Heard
<1>10. ASSUME roster[u] # {}, from = Creator, TakesIn(u, f, c, cut) PROVE Heard(u, from, f, c)
  <2>1. u # Creator /\ f.action = "add"
    BY <1>4, <1>10 DEF FrameOK, TakesIn
  <2>2. PICK none \in SUBSET (Users \X Frame) : none = {}
    OBVIOUS
  <2>3. \/ chan' = c /\ UNCHANGED <<own, made, owing>>
        \/ Ensured(u, c, f.members, none)
    <3>1. CASE EnsureOwn(u, c, f.members, none)
      BY <1>1, <1>5, <3>1, EnsureOwnFacts
    <3> QED
      BY <1>10, <2>2, <3>1 DEF TakesIn
  <2>4. \A s \in Users : s # u => roster'[s] = roster[s]
    BY <1>1, <1>10 DEF TakesIn
  <2>5. \A s \in Users : IsKey(own'[s]) => own'[s].gen = own[s].gen \/ own'[s].gen = made[s] + 1
    <3>1. (own' = own /\ made' = made) \/ Renewed(u)
      BY <2>3 DEF Ensured
    <3> QED
      BY <1>1, <3>1, RenewedFacts
  <2>6. \A a, b \in Users : \A g \in Frame :
            Carries(chan', a, b, g) => Carries(c, a, b, g) \/ b = Creator
    BY <2>1, <2>2, <2>3, Zenon DEF Ensured
  <2>7. /\ \A a, b \in Users : \A g \in Frame : Carries(c, a, b, g) => Carries(chan', a, b, g)
        /\ \A s \in Users : chan'[<<Creator, s>>] = c[<<Creator, s>>]
    BY <1>1, <2>1, <2>3, Zenon DEF Ensured
  <2>8. ~ IsRemoval(f, u) /\ f.action # "remove"
    BY <2>1 DEF IsRemoval
  <2>9. roster'[Creator] = roster[Creator] /\ \A s \in Users : roster'[s] # {} => roster[s] # {}
    BY <1>1, <1>10, <2>1, <2>4
  <2>10. Settled
    BY <2>3, SettledBy DEF Ensured
  <2> QED
    BY <2>5, <2>6, <2>7, <2>8, <2>9, <2>10 DEF Heard
<1> QED
  BY <1>2, <1>3, <1>4, <1>7, <1>8, <1>9, <1>10, <1>11

LEMMA ReceiveMembershipLocks ==
    ASSUME GroupInv, LockInv, NEW u \in Users, NEW from \in Users,
           NEW i \in DOMAIN chan[<<from, u>>],
           NEW cut \in BOOLEAN, ReceiveMembership(u, from, i, cut)
    PROVE  LockInv'
<1>1. KeysTyped /\ chan \in Chans /\ Creator \in Users /\ roster \in [Users -> SUBSET Users]
  BY Typed DEF GroupInv, TypeOK
<1>2. PICK f : f = chan[<<from, u>>][i]
  OBVIOUS
<1>3. PICK c : c = Taken(from, u, i)
  OBVIOUS
<1>4. /\ f.kind = "groupmembership" /\ Carries(chan, from, u, f) /\ FrameOK(from, u, f)
      /\ faults' = (IF cut THEN faults + 1 ELSE faults)
      /\ UNCHANGED <<view, jobs, knows>>
  BY <1>2, ReceiveMembershipIs
<1>15. faults' = 0 => faults = 0
  BY <1>4, FaultsCounted
<1>5. IsNext(from, u, i)
  BY DEF ReceiveMembership
<1>6. /\ \A a, b \in Users : \A g \in Frame : Carries(c, a, b, g) => Carries(chan, a, b, g)
      /\ \A a, b \in Users : \A g \in Frame :
            Carries(chan, a, b, g) /\ (a = from /\ b = u => g # f) => Carries(c, a, b, g)
  BY <1>1, <1>2, <1>3, TakenFacts
<1>7. Heard(u, from, f, c)
  BY <1>2, <1>3, HeardIs
<1>8. \A s, x \in Users : Pending(s, x) => Pending(s, x)' \/ (s = u /\ from = Creator /\ IsRemoval(f, x))
  BY <1>1, <1>4, <1>6, <1>7 DEF Heard, Pending
<1>9. faults' = 0 => KeysLast'
  <2>1. \A s \in Users \ roster[Creator] : chan'[<<Creator, s>>] = c[<<Creator, s>>]
    BY <1>7 DEF Heard
  <2>2. \A s \in Users : Followed(chan, s) => Followed(c, s)
    BY <1>3, <1>5, FollowedTaken
  <2> QED
    BY <1>4, <1>7, <1>15, <2>1, <2>2 DEF LockInv, Orderly, KeysLast, Followed, Heard
<1>10. roster'[Creator] = roster[Creator] /\ OneChange'
  BY <1>4, <1>7, <1>15, OneChangeStays DEF LockInv, Heard
<1>11. ASSUME faults' = 0, NEW s \in Users \ roster[Creator], roster'[s] # {} PROVE Pending(s, s)'
  BY <1>7, <1>8, <1>11, <1>15 DEF LockInv, Orderly, LeftBehind, Heard
<1>12. \A a, b \in Users : \A g \in Frame :
              Carries(chan', a, b, g) /\ g.kind = "senderkey" => Carries(chan, a, b, g) \/ b \in roster[Creator]
  <2>1. CASE roster[u] # {}
    <3>1. Creator \in roster[Creator]
      BY <2>1, CreatorListed
    <3> QED
      BY <1>6, <1>7, <3>1 DEF Heard
  <2>2. CASE roster[u] = {}
    <3>1. chan' = c
      BY <1>3, <2>2, ReceiveMembershipIs
    <3> QED
      BY <1>6, <3>1
  <2> QED
    BY <2>1, <2>2
<1>13. \A s \in roster[Creator] \ owing' : \A x \in Users :
              IsKey(own'[s]) /\ own'[s].gen = own[s].gen /\ Pending(s, x) => Pending(s, x)'
  BY <1>1, <1>7, <1>8 DEF Heard, IsRemoval
<1>14. \A s \in Users : IsKey(own'[s]) => own'[s].gen = own[s].gen \/ own'[s].gen = made[s] + 1
  BY <1>7 DEF Heard
<1>16. Settled
  BY <1>7 DEF Heard
<1> QED
  BY <1>4, <1>9, <1>10, <1>11, <1>12, <1>13, <1>14, <1>15, <1>16, LockStep

LEMMA AppendCarries ==
    ASSUME chan \in Chans, NEW a \in Users, NEW b \in Users, NEW f \in Frame, NEW d,
           d[<<a, b>>] = Append(chan[<<a, b>>], f)
    PROVE  Carries(d, a, b, f)
<1>1. PICK q \in Seq(Frame) : q = chan[<<a, b>>]
  BY DEF Chans
<1>2. PICK r \in Seq(Frame) : r = Append(q, f)
  BY AppendProperties
<1>3. Len(r) = Len(q) + 1 /\ r[Len(q) + 1] = f /\ Len(q) \in Nat
  BY <1>2, AppendProperties, LenProperties
<1>4. DOMAIN r = 1 .. Len(r)
  BY LenProperties
<1>5. Len(q) + 1 \in DOMAIN r
  BY <1>3, <1>4
<1> QED
  BY <1>1, <1>2, <1>3, <1>5 DEF Carries

-----------------------------------------------------------------------------
(* The steps of a change. *)

\* Frames that are no keys, or the removal of s, at the end of the channel to s.
LEMMA FollowedPosted ==
    ASSUME chan \in Chans, Creator \in Users, NEW s \in Users, NEW d, NEW f \in Frame, f.kind # "senderkey",
           d[<<Creator, s>>] = Append(chan[<<Creator, s>>], f),
           Followed(chan, s) \/ IsRemoval(f, s)
    PROVE  Followed(d, s)
<1>1. PICK q \in Seq(Frame) : q = chan[<<Creator, s>>]
  BY DEF Chans
<1>2. PICK n \in Nat : n = Len(q)
  BY LenProperties
<1>3. PICK r \in Seq(Frame) : r = Append(q, f)
  BY AppendProperties
<1>4. PICK m \in Nat : m = n + 1
  OBVIOUS
<1>5. Len(r) = m /\ r[m] = f /\ \A k \in 1 .. n : r[k] = q[k]
  BY <1>2, <1>3, <1>4, AppendProperties
<1>6. DOMAIN r = 1 .. m /\ DOMAIN q = 1 .. n
  BY <1>2, <1>5, LenProperties
<1>7. ASSUME NEW k \in 1 .. m, r[k].kind = "senderkey"
      PROVE  \E j \in 1 .. m : k < j /\ IsRemoval(r[j], s)
  <2>1. k \in 1 .. n /\ k < m /\ m \in 1 .. m
    <3>1. k # m
      BY <1>5, <1>7
    <3> QED
      BY <1>4, <3>1
  <2>2. CASE IsRemoval(f, s)
    BY <1>5, <2>1, <2>2
  <2>3. CASE Followed(chan, s)
    <3>1. q[k].kind = "senderkey"
      BY <1>5, <1>7, <2>1
    <3>2. PICK j \in 1 .. n : k < j /\ IsRemoval(q[j], s)
      BY <1>1, <1>6, <2>1, <2>3, <3>1 DEF Followed
    <3>3. j \in 1 .. m
      BY <1>4
    <3> QED
      BY <1>5, <3>2, <3>3
  <2> QED
    BY <2>2, <2>3
<1>8. d[<<Creator, s>>] = r
  BY <1>1, <1>3
<1> QED
  BY <1>6, <1>7, <1>8 DEF Followed

\* There is one job; next takes its place.
LEMMA OneJob ==
    ASSUME OneChange, NEW job \in jobs, NEW next, jobs' = (jobs \ {job}) \cup {next},
           roster'[Creator] = roster[Creator],
           next.members = job.members, next.target = job.target, next.action = job.action,
           next.action = "remove" => next.give = {} /\ next.ready = {},
           next.tell \subseteq job.tell
    PROVE  OneChange' /\ jobs = {job} /\ jobs' = {next}
<1>1. jobs = {job} /\ jobs' = {next}
  BY DEF OneChange
<1>2. /\ job.members = roster[Creator]
      /\ job.action = "add" => job.target \in job.members
      /\ job.action = "remove" => job.target \notin job.members
      /\ job.tell \subseteq job.members \cup {job.target}
  BY DEF OneChange
<1> QED
  BY <1>1, <1>2 DEF OneChange

LEMMA TellNextLocks ==
    ASSUME GroupInv, LockInv, NEW job \in jobs, NEW m \in Users, TellNext(job, m)
    PROVE  LockInv'
<1> DEFINE next == [job EXCEPT !.tell = @ \ {m}]
           f == [kind |-> "groupmembership", action |-> job.action,
                 target |-> job.target, members |-> job.members]
           mail == {<<m, f>>}
<1>1. job \in Job /\ m \in job.tell /\ Creator \in Users /\ KeysTyped /\ chan \in Chans
      /\ roster[Creator] \in SUBSET Users
  <2>1. job \in Job /\ m \in job.tell
    BY DEF GroupInv, TypeOK, TellNext
  <2> QED
    BY <2>1, Typed DEF GroupInv, TypeOK
<1>2. f \in Frame
  BY <1>1 DEF Job, Membership, Frame
<1>3. /\ mail \in SUBSET (Users \X Frame)
      /\ \A b \in Users : \A g \in Frame : <<b, g>> \in mail <=> b = m /\ g = f
  BY <1>2
<1>4. /\ next.members = job.members /\ next.target = job.target /\ next.action = job.action
      /\ next.give = job.give /\ next.ready = job.ready /\ next.tell = job.tell \ {m}
  BY <1>1 DEF Job
<1>5. /\ jobs' = (jobs \ {job}) \cup {next} /\ chan' = Post(chan, Creator, mail)
      /\ UNCHANGED <<roster, own, made, knows, owing, faults>>
  BY DEF TellNext
<1>6. f.kind = "groupmembership" /\ \A x : job.action = "remove" /\ job.target = x => IsRemoval(f, x)
  BY DEF IsRemoval
<1> HIDE DEF next, f, mail
<1>7. Posted(chan', chan, Creator, mail)
  BY <1>1, <1>3, <1>5, PostFacts
<1>8. OneChange' /\ jobs = {job} /\ jobs' = {next}
  <2>1. next.action = "remove" => next.give = {} /\ next.ready = {}
    BY <1>4 DEF LockInv, OneChange
  <2> QED
    BY <1>4, <1>5, <2>1, OneJob DEF LockInv
<1>9. /\ \A a, b \in Users : \A g \in Frame : Carries(chan, a, b, g) => Carries(chan', a, b, g)
      /\ \A a, b \in Users : \A g \in Frame :
            Carries(chan', a, b, g) /\ g.kind = "senderkey" => Carries(chan, a, b, g)
      /\ chan'[<<Creator, m>>] = Append(chan[<<Creator, m>>], f)
      /\ \A b \in Users : b # m => chan'[<<Creator, b>>] = chan[<<Creator, b>>]
  <2>1. /\ \A a, b \in Users : \A g \in Frame : Carries(chan, a, b, g) => Carries(chan', a, b, g)
        /\ \A a, b \in Users : \A g \in Frame :
            Carries(chan', a, b, g) /\ g.kind = "senderkey" => Carries(chan, a, b, g)
    BY <1>3, <1>6, <1>7 DEF Posted
  <2>2. \A b \in Users :
          \/ chan'[<<Creator, b>>] = chan[<<Creator, b>>] /\ ~ \E g \in Frame : <<b, g>> \in mail
          \/ \E g \in Frame : <<b, g>> \in mail /\ chan'[<<Creator, b>>] = Append(chan[<<Creator, b>>], g)
    BY <1>1, <1>7 DEF Posted
  <2> QED
    BY <1>2, <1>3, <2>1, <2>2
<1>10. Carries(chan', Creator, m, f)
  BY <1>1, <1>2, <1>3, <1>9, AppendCarries
<1>11. \A s, x \in Users : Pending(s, x) => Pending(s, x)'
  BY <1>1, <1>2, <1>4, <1>6, <1>8, <1>9, <1>10 DEF Pending
<1>12. faults' = 0 => KeysLast'
  <2>1. ASSUME faults = 0, NEW s \in Users \ roster[Creator]
        PROVE  (\E j \in jobs' : j.action = "remove" /\ j.target = s /\ s \in j.tell) \/ Followed(chan', s)
    <3>1. CASE s = m
      <4>1. Followed(chan, s) \/ IsRemoval(f, s)
        BY <1>6, <1>8, <2>1 DEF LockInv, Orderly, KeysLast
      <4>2. Followed(chan', s)
        BY <1>1, <1>2, <1>6, <1>9, <3>1, <4>1, FollowedPosted
      <4> QED
        BY <4>2
    <3>2. CASE s # m
      BY <1>4, <1>8, <1>9, <2>1, <3>2 DEF LockInv, Orderly, KeysLast, Followed
    <3> QED
      BY <3>1, <3>2
  <2> QED
    BY <1>5, <2>1 DEF KeysLast
<1>13. faults' = 0 => \A s \in Users \ roster[Creator] : roster'[s] # {} => Pending(s, s)'
  BY <1>5, <1>11 DEF LockInv, Orderly, LeftBehind
<1>14. (\A s \in roster[Creator] : s \in Users) /\ Settled
  BY <1>1, <1>5 DEF Settled
<1>15. \A s \in Users : IsKey(own'[s]) => own'[s].gen = own[s].gen \/ own'[s].gen = made[s] + 1
  BY <1>5
<1>16. \A x \in Users : \A k \in knows'[x] :
              \/ k \in knows[x]
              \/ \E p \in Users : \E g \in Frame : IsKeyOf(g, k.owner, k.gen) /\ Carries(chan, p, x, g)
  BY <1>5
<1>17. \A a, b \in Users : \A g \in Frame :
              Carries(chan', a, b, g) /\ g.kind = "senderkey" => Carries(chan, a, b, g) \/ b \in roster[Creator]
  BY <1>9
<1> QED
  BY <1>5, <1>8, <1>11, <1>12, <1>13, <1>14, <1>15, <1>16, <1>17, LockStep

\* A change that has keys to pass on takes a member in.
LEMMA GiverAdds ==
    ASSUME GroupInv, OneChange, NEW job \in jobs, job.give # {} \/ job.ready # {}
    PROVE  /\ job.action = "add" /\ job.target \in roster[Creator]
           /\ \A s, x \in Users : Pending(s, x) => \E f \in Frame : IsRemoval(f, x) /\ Carries(chan, Creator, s, f)
           /\ KeysLast => \A s \in Users \ roster[Creator] : Followed(chan, s)
<1>1. job \in Job /\ jobs = {job}
  BY DEF GroupInv, TypeOK, OneChange
<1>2. job.action = "add" /\ job.target \in roster[Creator]
  BY <1>1 DEF OneChange, Job
<1> QED
  BY <1>1, <1>2 DEF Pending, KeysLast

LEMMA LoadNextLocks ==
    ASSUME GroupInv, LockInv, NEW job \in jobs, NEW owner \in Users, LoadNext(job, owner)
    PROVE  LockInv'
<1> DEFINE next == [job EXCEPT !.give = @ \ {owner}, !.ready = Loaded(owner)]
<1>1. job \in Job /\ job.give # {} /\ Creator \in Users /\ roster[Creator] \in SUBSET Users
  <2>1. job \in Job /\ job.give # {}
    BY DEF GroupInv, TypeOK, LoadNext
  <2> QED
    BY <2>1, Typed DEF GroupInv, TypeOK
<1>2. /\ jobs' = (jobs \ {job}) \cup {next}
      /\ UNCHANGED <<roster, own, made, chan, knows, owing, faults>>
  BY DEF LoadNext, Loaded
<1>3. /\ next.members = job.members /\ next.target = job.target /\ next.action = job.action
      /\ next.tell = job.tell
  <2>1. PICK set : set = Loaded(owner)
    OBVIOUS
  <2>2. next = [job EXCEPT !.give = @ \ {owner}, !.ready = set]
    BY <2>1
  <2> HIDE DEF next
  <2> QED
    BY <1>1, <2>2 DEF Job
<1> HIDE DEF next
<1>4. /\ job.action = "add"
      /\ \A s, x \in Users : Pending(s, x) => \E f \in Frame : IsRemoval(f, x) /\ Carries(chan, Creator, s, f)
      /\ faults = 0 => \A s \in Users \ roster[Creator] : Followed(chan, s)
  BY <1>1, GiverAdds DEF LockInv, Orderly
<1>5. OneChange'
  BY <1>2, <1>3, <1>4, OneJob DEF LockInv
<1>6. \A s, x \in Users : Pending(s, x) => Pending(s, x)'
  BY <1>2, <1>4 DEF Pending
<1>7. faults' = 0 => KeysLast'
  BY <1>2, <1>4 DEF KeysLast
<1>8. faults' = 0 => \A s \in Users \ roster[Creator] : roster'[s] # {} => Pending(s, s)'
  BY <1>2, <1>6 DEF LockInv, Orderly, LeftBehind
<1>9. (\A s \in roster[Creator] : s \in Users) /\ Settled
  BY <1>1, <1>2 DEF Settled
<1> QED
  BY <1>2, <1>5, <1>6, <1>7, <1>8, <1>9, LockStep

LEMMA GiveNextLocks ==
    ASSUME GroupInv, LockInv, NEW job \in jobs, GiveNext(job)
    PROVE  LockInv'
<1> DEFINE next == [job EXCEPT !.ready = {}]
           mail == {<<job.target, f>> : f \in job.ready}
<1>1. job \in Job /\ job.ready # {} /\ Creator \in Users /\ roster[Creator] \in SUBSET Users
      /\ KeysTyped /\ chan \in Chans
  <2>1. job \in Job /\ job.ready # {}
    BY DEF GroupInv, TypeOK, GiveNext
  <2> QED
    BY <2>1, Typed DEF GroupInv, TypeOK
<1>2. /\ jobs' = (jobs \ {job}) \cup {next} /\ chan' = Post(chan, Creator, mail)
      /\ UNCHANGED <<roster, own, made, knows, owing, faults>>
  BY DEF GiveNext
<1>3. /\ next.members = job.members /\ next.target = job.target /\ next.action = job.action
      /\ next.tell = job.tell
  BY <1>1 DEF Job
<1>4. job.target \in Users /\ \A f \in job.ready : f \in Frame /\ f.kind = "senderkey"
  BY <1>1 DEF Job, Distribution, Frame
<1>5. /\ mail \in SUBSET (Users \X Frame)
      /\ \A b \in Users : \A g \in Frame : <<b, g>> \in mail => b = job.target /\ g.kind = "senderkey"
  BY <1>4
<1> HIDE DEF next, mail
<1>6. Posted(chan', chan, Creator, mail)
  BY <1>1, <1>2, <1>5, PostFacts
<1>7. /\ job.action = "add" /\ job.target \in roster[Creator]
      /\ \A s, x \in Users : Pending(s, x) => \E f \in Frame : IsRemoval(f, x) /\ Carries(chan, Creator, s, f)
      /\ faults = 0 => \A s \in Users \ roster[Creator] : Followed(chan, s)
  BY <1>1, GiverAdds DEF LockInv, Orderly
<1>8. OneChange'
  BY <1>2, <1>3, <1>7, OneJob DEF LockInv
<1>9. /\ \A a, b \in Users : \A g \in Frame : Carries(chan, a, b, g) => Carries(chan', a, b, g)
      /\ \A a, b \in Users : \A g \in Frame :
            Carries(chan', a, b, g) => Carries(chan, a, b, g) \/ b \in roster[Creator]
      /\ \A s \in Users \ roster[Creator] : chan'[<<Creator, s>>] = chan[<<Creator, s>>]
  BY <1>1, <1>5, <1>6, <1>7 DEF Posted
<1>10. \A s, x \in Users : Pending(s, x) => Pending(s, x)'
  BY <1>1, <1>7, <1>9 DEF Pending
<1>11. faults' = 0 => KeysLast'
  BY <1>2, <1>7, <1>9 DEF KeysLast, Followed
<1>12. faults' = 0 => \A s \in Users \ roster[Creator] : roster'[s] # {} => Pending(s, s)'
  BY <1>2, <1>10 DEF LockInv, Orderly, LeftBehind
<1>13. (\A s \in roster[Creator] : s \in Users) /\ Settled
  BY <1>1, <1>2 DEF Settled
<1>14. \A s \in Users : IsKey(own'[s]) => own'[s].gen = own[s].gen \/ own'[s].gen = made[s] + 1
  BY <1>2
<1> QED
  BY <1>2, <1>8, <1>9, <1>10, <1>11, <1>12, <1>13, <1>14, LockStep

LEMMA FinishChangeLocks ==
    ASSUME GroupInv, LockInv, NEW job \in jobs, FinishChange(job)
    PROVE  LockInv'
<1>1. /\ job \in Job /\ Creator \in Users /\ KeysTyped /\ chan \in Chans
      /\ roster[Creator] \in SUBSET Users /\ Creator \in roster[Creator]
  <2>1. job \in Job /\ roster[Creator] # {}
    BY DEF GroupInv, TypeOK, CreatorOK
  <2> QED
    BY <2>1, Typed, CreatorListed DEF GroupInv, TypeOK
<1>2. /\ job.tell = {} /\ jobs' = jobs \ {job} /\ view' = job.members
      /\ IF job.action = "remove" THEN Rotate(Creator, chan, job.members, roster[Creator])
         ELSE UNCHANGED <<own, made, chan, owing>>
      /\ UNCHANGED <<roster, knows, faults>>
  BY DEF FinishChange
<1>3. jobs = {job} /\ jobs' = {} /\ job.members = roster[Creator]
  BY <1>2 DEF LockInv, OneChange
<1>4. OneChange'
  BY <1>2, <1>3 DEF OneChange
<1>5. faults = 0 => \A s \in Users \ roster[Creator] : Followed(chan, s)
  BY <1>2, <1>3 DEF LockInv, Orderly, KeysLast
<1>6. \/ job.action # "remove" /\ UNCHANGED <<own, made, chan, owing>>
      \/ Rotated(Creator, chan, roster[Creator], roster[Creator])
  BY <1>1, <1>2, <1>3, RotateFacts
<1>7. /\ \A a, b \in Users : \A g \in Frame : Carries(chan, a, b, g) => Carries(chan', a, b, g)
      /\ \A a, b \in Users : \A g \in Frame :
            Carries(chan', a, b, g) => Carries(chan, a, b, g) \/ b \in roster[Creator]
      /\ \A s \in Users \ roster[Creator] : chan'[<<Creator, s>>] = chan[<<Creator, s>>]
  <2>1. CASE Rotated(Creator, chan, roster[Creator], roster[Creator])
    BY <1>1, <2>1 DEF Rotated
  <2> QED
    BY <1>6, <2>1
<1>8. /\ \A s \in Users : IsKey(own'[s]) => own'[s].gen = own[s].gen \/ own'[s].gen = made[s] + 1
      /\ job.action = "remove" => own'[Creator].gen # own[Creator].gen
  <2>1. CASE Renewed(Creator)
    <3>1. /\ own'[Creator].gen = made[Creator] + 1
          /\ \A s \in Users : s # Creator => own'[s] = own[s]
      BY <1>1, <2>1, RenewedFacts
    <3>2. own[Creator].gen \in Nat /\ made[Creator] \in Nat
      BY <1>1 DEF KeysTyped, SenderKey
    <3>3. own[Creator].gen <= made[Creator]
      BY <1>1 DEF GroupInv, GensOK
    <3> QED
      BY <3>1, <3>2, <3>3
  <2> QED
    BY <1>6, <2>1 DEF Rotated
<1>9. \A s, x \in Users : Pending(s, x) =>
         \/ Pending(s, x)'
         \/ s = Creator /\ job.action = "remove"
  BY <1>1, <1>2, <1>3, <1>7 DEF Pending
<1>10. faults' = 0 => KeysLast'
  BY <1>2, <1>5, <1>7 DEF KeysLast, Followed
<1>11. faults' = 0 => \A s \in Users \ roster[Creator] : roster'[s] # {} => Pending(s, s)'
  BY <1>1, <1>2, <1>9 DEF LockInv, Orderly, LeftBehind
<1>13. Settled
  <2>1. owing' = owing \/ (owing' = owing \ {Creator} /\ Renewed(Creator))
    BY <1>6 DEF Rotated
  <2> QED
    BY <1>1, <2>1, SettledBy
<1>12. \A s \in roster[Creator] : \A x \in Users :
              IsKey(own'[s]) /\ own'[s].gen = own[s].gen /\ Pending(s, x) => Pending(s, x)'
  BY <1>1, <1>8, <1>9
<1> HIDE DEF IsKey, Pending
<1> QED
  BY <1>2, <1>4, <1>7, <1>8, <1>10, <1>11, <1>12, <1>13, LockStep

(* A handler that gives up: whoever it has not told of a removal owes a    *)
(* new key, and so does the creator.                                       *)
LEMMA AbandonChangeLocks ==
    ASSUME GroupInv, LockInv, NEW job \in jobs, AbandonChange(job)
    PROVE  LockInv'
<1>1. /\ faults' = faults + 1 /\ jobs' = jobs \ {job}
      /\ owing' = IF job.action = "remove" THEN owing \cup job.tell \cup {Creator} ELSE owing
      /\ UNCHANGED <<roster, own, made, view, chan, knows>>
  BY DEF AbandonChange
<1>2. faults' # 0
  BY <1>1 DEF GroupInv, TypeOK
<1>3. jobs = {job} /\ jobs' = {}
  BY <1>1 DEF LockInv, OneChange
<1>4. OneChange'
  BY <1>2, <1>3 DEF OneChange
<1>5. Settled
  BY <1>1, <1>2 DEF Settled
<1>6. \A s \in roster[Creator] \ owing' : \A x \in Users : Pending(s, x) => Pending(s, x)'
  BY <1>1, <1>3 DEF Pending
<1> QED
  BY <1>1, <1>2, <1>4, <1>5, <1>6, LockStep

\* Steps that change nothing of all this.
LEMMA StillLocks ==
    ASSUME GroupInv, LockInv, UNCHANGED <<roster, own, chan, knows, jobs, owing, faults>>,
           view' = view \/ view' = roster[Creator]
    PROVE  LockInv'
<1>1. OneChange'
  BY DEF LockInv, OneChange
<1> QED
  BY <1>1 DEF LockInv, Orderly, LeftBehind, KeysLast, Locked, Followed, Pending, Holds

\* Who comes to be on the creator's roster has no key, still has to hear of its removal,
\* or owes a new key; who drops out of it without being the target makes all owe one.
LEMMA OverdueIs ==
    ASSUME GroupInv, NEW x, NEW updated \in SUBSET Users, Creator \in updated
    PROVE  /\ \A s \in updated \ (roster[Creator] \cup Overdue(x, updated)) :
                 IsKey(own[s]) => Pending(s, s)
           /\ ~ roster[Creator] \subseteq updated \cup {x} => Users \subseteq Overdue(x, updated)
           /\ updated \subseteq roster[Creator] \cup {x} /\ roster[Creator] \subseteq updated \cup {x}
                 /\ LeftBehind => Overdue(x, updated) = {}
<1>1. \A s \in updated \ (roster[Creator] \cup Overdue(x, updated)) :
         roster[s] # {} => Outstanding(s, s)
  BY DEF Overdue
<1>2. \A s \in Users : Pending(s, s) <=> Outstanding(s, s)
  BY PendingIs
<1>3. \A s \in Users : IsKey(own[s]) => roster[s] # {}
  BY DEF GroupInv, CreatorOK
<1>4. ASSUME roster[Creator] \subseteq updated \cup {x}, LeftBehind PROVE Overdue(x, updated) = {}
  BY <1>2, <1>4 DEF Overdue, LeftBehind
<1>5. ~ roster[Creator] \subseteq updated \cup {x} => Users \subseteq Overdue(x, updated)
  BY DEF Overdue
<1> HIDE DEF Overdue, Outstanding, Pending
<1> QED
  BY <1>1, <1>2, <1>3, <1>4, <1>5

(* The step of Locked when the creator's roster changes.                   *)
LEMMA RosterStep ==
    ASSUME GroupInv, Locked, NEW x \in Users, NEW updated \in SUBSET Users, Creator \in updated,
           roster'[Creator] = updated, own' = own,
           owing' = owing \cup Overdue(x, updated),
           \A y, s, n : Holds(y, s, n)' <=> Holds(y, s, n),
           \A s, y : Pending(s, y) => Pending(s, y)',
           x \notin updated => \A s \in updated : Pending(s, x)'
    PROVE  Locked'
<1>1. ASSUME NEW s \in updated \ owing', NEW y \in Users \ updated,
             IsKey(own[s]), ~ Pending(s, y)', ~ Pending(s, s)', NEW n \in Nat, Holds(y, s, n)
      PROVE  own[s].gen # n
  <2>1. ~ Pending(s, y) /\ ~ Pending(s, s) /\ y # x
    BY <1>1
  <2>2. s \in roster[Creator]
    BY <1>1, <2>1, OverdueIs
  <2>3. y \notin roster[Creator]
    <3>1. SUFFICES ASSUME y \in roster[Creator] PROVE FALSE
      OBVIOUS
    <3>2. Users \subseteq Overdue(x, updated)
      BY <1>1, <2>1, <3>1, OverdueIs
    <3> QED
      BY <1>1, <3>2
  <2> QED
    BY <1>1, <2>1, <2>2, <2>3 DEF Locked
<1> HIDE DEF Holds, Pending, IsKey, Overdue
<1> QED
  BY <1>1 DEF Locked

LEMMA StartAddLocks ==
    ASSUME GroupInv, LockInv, Plain, NEW x \in Users, StartAdd(x)
    PROVE  LockInv'
<1> DEFINE updated == view \cup {x}
           job == [action |-> "add", target |-> x, members |-> updated,
                   tell |-> updated \ {Creator}, give |-> view, ready |-> {}]
<1>1. jobs = {} /\ x \notin view /\ view # {}
  BY DEF StartAdd, MayChange, Plain
<1>2. roster' = [roster EXCEPT ![Creator] = updated] /\ jobs' = {job}
      /\ owing' = owing \cup Overdue(x, updated)
      /\ UNCHANGED <<own, view, chan, knows, faults>>
  BY <1>1 DEF StartAdd
<1>3. /\ Creator \in Users /\ roster \in [Users -> SUBSET Users]
      /\ view \in SUBSET Users /\ Creator \in view
  BY <1>1, Typed DEF GroupInv, TypeOK, CreatorOK
<1>4. job.action = "add" /\ job.target = x /\ job.members = updated /\ job.tell = updated \ {Creator}
  OBVIOUS
<1>5. updated = view \cup {x} /\ updated \in SUBSET Users /\ Creator \in updated
  BY <1>3
<1> HIDE DEF updated, job
<1>6. roster'[Creator] = updated /\ \A s \in Users : s # Creator => roster'[s] = roster[s]
  BY <1>2, <1>3, <1>5
<1>7. OneChange'
  BY <1>2, <1>4, <1>5, <1>6 DEF OneChange
<1>8. \A s, y : Pending(s, y)' <=> Pending(s, y)
  BY <1>1, <1>2, <1>4 DEF Pending
<1>9. ASSUME faults' = 0 PROVE Orderly'
  <2>1. Orderly /\ updated = roster[Creator] \cup {x}
    BY <1>1, <1>2, <1>5, <1>9 DEF LockInv, OneChange
  <2>2. LeftBehind'
    BY <1>3, <1>5, <1>6, <1>8, <2>1 DEF Orderly, LeftBehind
  <2>3. KeysLast'
    BY <1>1, <1>2, <1>6, <2>1 DEF Orderly, KeysLast, Followed
  <2>4. owing' = {}
    BY <1>2, <1>5, <2>1, OverdueIs DEF Orderly
  <2> QED
    BY <2>2, <2>3, <2>4 DEF Orderly
<1>11. \A y, s, n : Holds(y, s, n)' <=> Holds(y, s, n)
  BY <1>2 DEF Holds
<1>13. Locked'
  BY <1>2, <1>5, <1>6, <1>8, <1>11, RosterStep DEF LockInv
<1> QED
  BY <1>7, <1>9, <1>13 DEF LockInv

LEMMA StartRemoveLocks ==
    ASSUME GroupInv, LockInv, Plain, NEW x \in Users, StartRemove(x)
    PROVE  LockInv'
<1> DEFINE updated == view \ {x}
           job == [action |-> "remove", target |-> x, members |-> updated,
                   tell |-> view \ {Creator}, give |-> {}, ready |-> {}]
<1>1. jobs = {} /\ x \in view \ {Creator} /\ view # {}
  BY DEF StartRemove, MayChange, Plain
<1>2. roster' = [roster EXCEPT ![Creator] = updated] /\ jobs' = {job}
      /\ owing' = owing \cup Overdue(x, updated)
      /\ UNCHANGED <<own, view, chan, knows, faults>>
  BY <1>1 DEF StartRemove
<1>3. /\ Creator \in Users /\ roster \in [Users -> SUBSET Users]
      /\ view \in SUBSET Users /\ Creator \in view
  BY <1>1, Typed DEF GroupInv, TypeOK, CreatorOK
<1>4. /\ job.action = "remove" /\ job.target = x /\ job.members = updated /\ job.tell = view \ {Creator}
      /\ job.give = {} /\ job.ready = {}
  OBVIOUS
<1>5. updated = view \ {x} /\ updated \in SUBSET Users /\ Creator \in updated
  BY <1>1, <1>3
<1> HIDE DEF updated, job
<1>6. roster'[Creator] = updated /\ \A s \in Users : s # Creator => roster'[s] = roster[s]
  BY <1>2, <1>3, <1>5
<1>7. OneChange'
  BY <1>1, <1>2, <1>4, <1>5, <1>6 DEF OneChange
<1>8. /\ \A s, y : Pending(s, y) => Pending(s, y)'
      /\ \A s \in view : Pending(s, x)'
  BY <1>1, <1>2, <1>4 DEF Pending
<1>9. ASSUME faults' = 0 PROVE Orderly'
  <2>1. Orderly /\ updated = roster[Creator] \ {x} /\ view = roster[Creator]
    BY <1>1, <1>2, <1>5, <1>9 DEF LockInv, OneChange
  <2>2. LeftBehind'
    BY <1>1, <1>6, <1>8, <2>1 DEF Orderly, LeftBehind
  <2>3. KeysLast'
    <3>1. \A s \in Users \ roster[Creator] : Followed(chan, s)
      BY <1>1, <2>1 DEF Orderly, KeysLast
    <3> QED
      BY <1>1, <1>2, <1>4, <1>6, <2>1, <3>1 DEF KeysLast, Followed
  <2>4. owing' = {}
    BY <1>2, <1>5, <2>1, OverdueIs DEF Orderly
  <2> QED
    BY <2>2, <2>3, <2>4 DEF Orderly
<1>11. \A y, s, n : Holds(y, s, n)' <=> Holds(y, s, n)
  BY <1>2 DEF Holds
<1>12. Locked'
  BY <1>2, <1>5, <1>6, <1>8, <1>11, RosterStep DEF LockInv
<1> QED
  BY <1>7, <1>9, <1>12 DEF LockInv

LEMMA CreateGroupLocks ==
    ASSUME GroupInv, LockInv, NEW selected \in SUBSET Others, CreateGroup(selected)
    PROVE  LockInv'
<1> DEFINE members == RosterOf(selected)
<1>1. members \in SUBSET Users /\ Creator \in members
  BY DEF RosterOf, Users
<1>2. KeysTyped /\ chan \in Chans /\ Creator \in Users /\ roster \in [Users -> SUBSET Users]
  BY Typed DEF GroupInv, TypeOK
<1>3. Rotate(Creator, chan, members, members)
  BY DEF CreateGroup, Rotate
<1>4. /\ roster[Creator] = {} /\ roster' = [roster EXCEPT ![Creator] = members]
      /\ view' = members /\ owing' \subseteq owing
      /\ UNCHANGED <<jobs, knows, faults>>
  BY DEF CreateGroup
<1> HIDE DEF members
<1>5. Rotated(Creator, chan, members, members)
  BY <1>1, <1>2, <1>3, RotateFacts
<1>6. jobs = {} /\ \A s \in Users : roster[s] = {} /\ ~ IsKey(own[s])
  BY <1>4 DEF GroupInv, CreatorOK
<1>7. roster'[Creator] = members /\ \A s \in Users : s # Creator => roster'[s] = {}
  BY <1>1, <1>2, <1>4, <1>6
<1>8. own'[Creator].gen = made[Creator] + 1 /\ \A s \in Users : s # Creator => ~ IsKey(own'[s])
  BY <1>2, <1>5, <1>6, RenewedFacts DEF Rotated
<1>9. OneChange'
  BY <1>4, <1>6, <1>7 DEF OneChange
<1>10. LeftBehind'
  BY <1>1, <1>7 DEF LeftBehind
<1>11. KeysLast'
  <2>1. ASSUME NEW s \in Users \ members PROVE Followed(chan', s)
    <3>1. chan'[<<Creator, s>>] = chan[<<Creator, s>>]
      BY <1>1, <1>5, <2>1 DEF Rotated
    <3>2. DOMAIN chan[<<Creator, s>>] = {}
      <4>1. \A i \in DOMAIN chan[<<Creator, s>>] : Carries(chan, Creator, s, chan[<<Creator, s>>][i])
                                                   /\ chan[<<Creator, s>>][i] \in Frame
        BY <1>2, TakenFacts
      <4>2. \A f \in Frame : ~ Carries(chan, Creator, s, f)
        BY <1>2, <1>4 DEF GroupInv, FramesOK, FrameOK
      <4> QED
        BY <4>1, <4>2
    <3> QED
      BY <3>1, <3>2 DEF Followed
  <2> QED
    BY <1>7, <2>1 DEF KeysLast
<1>12. \A a, b \in Users : \A g \in Frame :
              Carries(chan', a, b, g) /\ g.kind = "senderkey" => Carries(chan, a, b, g) \/ b \in roster'[Creator]
  BY <1>5, <1>7, Zenon DEF Rotated
<1>13. Locked'
  <2>1. ASSUME NEW s \in members, IsKey(own'[s]), NEW x \in Users \ members, NEW n \in Nat, Holds(x, s, n)'
        PROVE  own'[s].gen # n
    <3>1. s = Creator
      BY <1>1, <1>8, <2>1
    <3>2. Holds(x, Creator, n)
      BY <1>2, <1>4, <1>7, <1>12, <2>1, <3>1, HoldsKept
    <3>3. n <= made[Creator] /\ made[Creator] \in Nat
      BY <1>2, <3>2, HeldIsMade DEF KeysTyped
    <3> QED
      BY <1>8, <3>1, <3>3
  <2> HIDE DEF IsKey, Holds, Pending
  <2> QED
    BY <1>7, <2>1 DEF Locked
<1>14. faults' = 0 => owing' = {}
  BY <1>4 DEF LockInv, Orderly
<1> QED
  BY <1>9, <1>10, <1>11, <1>13, <1>14 DEF LockInv, Orderly

LEMMA ModeStays == [Next]_vars => mode' = mode
<1>1. ASSUME NEW selected \in SUBSET Others, CreateGroup(selected) PROVE mode' = mode
  BY <1>1 DEF CreateGroup
<1>2. ASSUME NEW u \in Users, AcceptGroup(u) \/ SendGroupMessage(u) PROVE mode' = mode
  BY <1>2 DEF AcceptGroup, SendGroupMessage
<1>3. ASSUME NEW u \in Users, NEW f \in held[u], Redeliver(u, f) PROVE mode' = mode
  BY <1>3 DEF Redeliver, DecryptGroupMessage
<1>4. ASSUME NEW u \in Users, NEW from \in Users, NEW i \in DOMAIN chan[<<from, u>>], NEW b \in BOOLEAN,
             \/ ReceiveSenderKey(u, from, i, b)
             \/ ReceiveMembership(u, from, i, b)
             \/ ReceiveContent(u, from, i, b)
      PROVE  mode' = mode
  <2>1. CASE ReceiveSenderKey(u, from, i, b)
    BY <2>1 DEF ReceiveSenderKey
  <2>2. CASE ReceiveMembership(u, from, i, b)
    BY <2>2 DEF ReceiveMembership
  <2>3. CASE ReceiveContent(u, from, i, b)
    BY <2>3 DEF ReceiveContent, DecryptGroupMessage
  <2> QED
    BY <1>4, <2>1, <2>2, <2>3
<1>5. ASSUME NEW x \in Users, StartAdd(x) \/ StartRemove(x) PROVE mode' = mode
  BY <1>5 DEF StartAdd, StartRemove
<1>6. ASSUME NEW job \in jobs, NEW m \in Users, TellNext(job, m) \/ LoadNext(job, m) PROVE mode' = mode
  BY <1>6 DEF TellNext, LoadNext
<1>7. ASSUME NEW job \in jobs, GiveNext(job) \/ FinishChange(job) \/ AbandonChange(job) PROVE mode' = mode
  BY <1>7 DEF GiveNext, FinishChange, AbandonChange
<1>8. CASE SelectGroup \/ UNCHANGED vars
  BY <1>8 DEF SelectGroup, vars
<1> QED
  BY <1>1, <1>2, <1>3, <1>4, <1>5, <1>6, <1>7, <1>8 DEF Next, Receive, Change

(* The invariant in a run without overlapping changes; whether a run is    *)
(* one does not change.                                                    *)
LEMMA LockAll == GroupInv /\ (Plain => LockInv) /\ [Next]_vars => (Plain => LockInv)'
<1> SUFFICES ASSUME GroupInv, Plain => LockInv, [Next]_vars, Plain' PROVE LockInv'
  OBVIOUS
<1>1. mode' = mode
  BY ModeStays
<1>2. Plain /\ LockInv
  BY <1>1 DEF Plain
<1>3. ASSUME NEW selected \in SUBSET Others, CreateGroup(selected) PROVE LockInv'
  BY <1>2, <1>3, CreateGroupLocks
<1>4. ASSUME NEW u \in Users, AcceptGroup(u) PROVE LockInv'
  BY <1>2, <1>4, AcceptGroupLocks
<1>5. ASSUME NEW u \in Users, SendGroupMessage(u) PROVE LockInv'
  BY <1>2, <1>5, SendGroupMessageLocks
<1>6. ASSUME NEW u \in Users, NEW f \in held[u], Redeliver(u, f) PROVE LockInv'
  BY <1>2, <1>6, RedeliverLocks
<1>7. CASE Receive
  BY <1>2, <1>7, ReceiveSenderKeyLocks, ReceiveMembershipLocks, ReceiveContentLocks DEF Receive
<1>8. CASE Change
  <2>1. ASSUME NEW x \in Users, StartAdd(x) \/ StartRemove(x) PROVE LockInv'
    BY <1>2, <2>1, StartAddLocks, StartRemoveLocks
  <2>2. ASSUME NEW job \in jobs, NEW m \in Users, TellNext(job, m) \/ LoadNext(job, m) PROVE LockInv'
    BY <1>2, <2>2, TellNextLocks, LoadNextLocks
  <2>3. ASSUME NEW job \in jobs, GiveNext(job) \/ FinishChange(job) PROVE LockInv'
    BY <1>2, <2>3, GiveNextLocks, FinishChangeLocks
  <2>4. ASSUME NEW job \in jobs, AbandonChange(job) PROVE LockInv'
    BY <1>2, <2>4, AbandonChangeLocks
  <2>5. CASE SelectGroup
    BY <1>2, <2>5, StillLocks DEF SelectGroup
  <2> QED
    BY <1>8, <2>1, <2>2, <2>3, <2>4, <2>5 DEF Change
<1>9. CASE UNCHANGED vars
  BY <1>2, <1>9, StillLocks DEF vars
<1> QED
  BY <1>3, <1>4, <1>5, <1>6, <1>7, <1>8, <1>9 DEF Next

LEMMA LockInit == Init => LockInv
<1> SUFFICES ASSUME Init PROVE LockInv
  OBVIOUS
<1>1. << >> \in Seq(Frame) /\ DOMAIN << >> = {}
  BY EmptySeq
<1>2. Creator \in Users
  BY DEF Users
<1>3. OneChange /\ LeftBehind /\ Locked
  BY <1>2 DEF Init, OneChange, LeftBehind, Locked
<1>4. KeysLast /\ owing = {}
  BY <1>1, <1>2 DEF Init, KeysLast, Followed
<1> QED
  BY <1>3, <1>4 DEF LockInv, Orderly

LEMMA LockedOutHolds ==
    ASSUME GroupInv, LockInv
    PROVE  /\ \A s \in roster[Creator] \ owing : \A x \in Users \ roster[Creator] :
                 IsKey(own[s]) /\ ~ Outstanding(s, x) /\ ~ Outstanding(s, s) => Locks(s, x)
           /\ faults = 0 => owing = {}
<1>1. ASSUME NEW s \in roster[Creator] \ owing, IsKey(own[s]), NEW x \in Users \ roster[Creator],
             ~ Outstanding(s, x), ~ Outstanding(s, s)
      PROVE  Locks(s, x)
  <2>1. s \in Users /\ own[s].gen \in Nat
    <3>1. Creator \in Users
      BY Typed
    <3> QED
      BY <3>1 DEF GroupInv, TypeOK, SenderKey
  <2>2. ~ Pending(s, x) /\ ~ Pending(s, s)
    BY <1>1, <2>1, PendingIs
  <2>3. \A n \in Nat : Holds(x, s, n) => own[s].gen # n
    BY <1>1, <2>2 DEF LockInv, Locked
  <2>4. ASSUME own[s].gen \in Given(x, s) PROVE FALSE
    <3>1. Holds(x, s, own[s].gen)
      BY <2>1, <2>4, GivenIs
    <3> QED
      BY <2>1, <2>3, <3>1
  <2> QED
    BY <2>4 DEF Locks
<1>2. faults = 0 => owing = {}
  BY DEF LockInv, Orderly
<1> HIDE DEF Outstanding, Locks, IsKey
<1> QED
  BY <1>1, <1>2

(* In any series of changes, each begun when the one before was over, with *)
(* any number of handlers cut short and of messages, and with control      *)
(* payloads that overtake content or fall behind it, a member that has     *)
(* taken a removal in, and does not owe a new key since somebody was cut   *)
(* short, sends nothing that a key the removed user has or is about to get *)
(* opens: it went over to a new key, which goes to members alone           *)
(* (rotateOwnSenderKey, distributeOwnSenderKeyRaw, relaySenderKeyRaw).     *)
(* Nobody owes one while nothing was cut short.                            *)
THEOREM RemovalsHold == Spec => []RemovedIsLockedOut
<1> DEFINE Inv == GroupInv /\ (Plain => LockInv)
<1>1. Init => Inv
  BY GroupInit, LockInit
<1>2. Inv /\ [Next]_vars => Inv'
  BY GroupStep, LockAll
<1>3. Inv => RemovedIsLockedOut
  BY LockedOutHolds DEF Plain, RemovedIsLockedOut
<1> QED
  BY <1>1, <1>2, <1>3, PTL DEF Spec
=============================================================================
