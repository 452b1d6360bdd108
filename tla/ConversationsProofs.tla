------------------------- MODULE ConversationsProofs -------------------------
(***************************************************************************)
(* Theorems about Conversations, for any peers, groups, posts and          *)
(* situations.                                                             *)
(***************************************************************************)
EXTENDS Conversations, SequenceTheorems, WellFoundedInduction, TLAPS

-----------------------------------------------------------------------------
(* Histories.  Of a history the proofs need which messages are in it, and  *)
(* which of them are not emptied.                                          *)

Entries == [id : Posts, deleted : BOOLEAN, delivered : BOOLEAN]
Hist == Seq(Entries)
Left(h) == {h[n].id : n \in {n \in 1 .. Len(h) : ~ h[n].deleted}}

Below == {pair \in Nat \X Nat : pair[1] < pair[2]}

LEMMA BelowWellFounded == IsWellFoundedOn(Below, Nat)
  BY NatLessThanWellFounded DEF OpToRel, Below

(* Induction over a set of numbers: its least element is not outside.      *)
LEMMA Induction ==
    ASSUME NEW T \in SUBSET Nat, 0 \in T, \A n \in T : n + 1 \in T
    PROVE  T = Nat
<1> SUFFICES ASSUME Nat \ T # {} PROVE FALSE
  OBVIOUS
<1>1. PICK m \in Nat \ T : \A y \in Nat \ T : <<y, m>> \notin Below
  <2>1. Nat \ T \subseteq Nat
    OBVIOUS
  <2> QED
    BY <2>1, BelowWellFounded, WFMin
<1>2. m # 0 /\ m - 1 \in Nat /\ m - 1 < m /\ m - 1 + 1 = m
  OBVIOUS
<1>3. m - 1 \notin T
  BY <1>2
<1>4. <<m - 1, m>> \in Below
  BY <1>2 DEF Below
<1> QED
  BY <1>1, <1>2, <1>3, <1>4

\* The function that Without is defined with, up to n.
Keeps(kept, h, ids, n) ==
    kept = [i \in 0 .. n |-> IF i = 0 THEN << >>
                             ELSE IF h[i].id \in ids THEN kept[i - 1] ELSE Append(kept[i - 1], h[i])]

\* What it has reached at n is what of the first n entries is not in ids.
Filtered(s, h, ids, n) ==
    /\ s \in Hist
    /\ \A e : (\E k \in 1 .. Len(s) : s[k] = e) <=> (\E k \in 1 .. n : h[k] = e /\ h[k].id \notin ids)

LEMMA FilteredStep ==
    ASSUME NEW h \in Hist, NEW ids, NEW n \in Nat, n + 1 <= Len(h), NEW s, Filtered(s, h, ids, n),
           NEW t, t = IF h[n + 1].id \in ids THEN s ELSE Append(s, h[n + 1])
    PROVE  Filtered(t, h, ids, n + 1)
<1>1. s \in Hist /\ h[n + 1] \in Entries
  BY ElementOfSeq DEF Filtered, Hist
<1>2. CASE h[n + 1].id \in ids
  <2>1. \A e : (\E k \in 1 .. n + 1 : h[k] = e /\ h[k].id \notin ids)
               <=> (\E k \in 1 .. n : h[k] = e /\ h[k].id \notin ids)
    BY <1>2
  <2> QED
    BY <1>2, <2>1 DEF Filtered
<1>3. CASE h[n + 1].id \notin ids
  <2>1. t \in Hist /\ Len(t) = Len(s) + 1 /\ Len(s) \in Nat /\ t[Len(s) + 1] = h[n + 1]
        /\ \A k \in 1 .. Len(s) : t[k] = s[k]
    BY <1>1, <1>3, AppendProperties, LenProperties DEF Hist
  <2>2. ASSUME NEW e
        PROVE (\E k \in 1 .. Len(t) : t[k] = e) <=> ((\E k \in 1 .. Len(s) : s[k] = e) \/ e = h[n + 1])
    BY <2>1
  <2>3. ASSUME NEW e
        PROVE (\E k \in 1 .. n + 1 : h[k] = e /\ h[k].id \notin ids)
              <=> ((\E k \in 1 .. n : h[k] = e /\ h[k].id \notin ids) \/ e = h[n + 1])
    BY <1>3
  <2> QED
    BY <2>1, <2>2, <2>3 DEF Filtered
<1> QED
  BY <1>2, <1>3

(* The function exists.                                                    *)
LEMMA KeepsExists ==
    ASSUME NEW h \in Hist, NEW ids, NEW n \in Nat, n <= Len(h)
    PROVE  \E kept : Keeps(kept, h, ids, n)
<1> DEFINE T == {m \in Nat : m <= Len(h) => \E kept : Keeps(kept, h, ids, m)}
<1>1. 0 \in T
  <2> DEFINE kept == [i \in 0 .. 0 |-> << >>]
  <2>1. Keeps(kept, h, ids, 0)
    BY DEF Keeps
  <2> QED
    BY <2>1
<1>2. ASSUME NEW m \in T PROVE m + 1 \in T
  <2>a. m \in Nat /\ m + 1 \in Nat /\ Len(h) \in Nat /\ (m <= Len(h) => \E kept : Keeps(kept, h, ids, m))
    BY LenProperties DEF Hist
  <2> HIDE DEF T
  <2> SUFFICES ASSUME m + 1 <= Len(h) PROVE \E kept : Keeps(kept, h, ids, m + 1)
    BY <2>a DEF T
  <2>b. \E kept : Keeps(kept, h, ids, m)
    BY <2>a
  <2>1. PICK f : Keeps(f, h, ids, m)
    BY <2>b
  <2> DEFINE last == IF h[m + 1].id \in ids THEN f[m] ELSE Append(f[m], h[m + 1])
             g == [i \in 0 .. m + 1 |-> IF i = m + 1 THEN last ELSE f[i]]
  <2>2. \A i \in 0 .. m : f[i] = IF i = 0 THEN << >>
                                 ELSE IF h[i].id \in ids THEN f[i - 1] ELSE Append(f[i - 1], h[i])
    BY <2>1 DEF Keeps
  <2>3. \A i \in 0 .. m : i \in 0 .. m + 1 /\ i # m + 1 /\ g[i] = f[i]
    BY <2>a
  <2>4. \A i \in 0 .. m + 1 : i # 0 => i - 1 \in 0 .. m /\ g[i - 1] = f[i - 1]
    BY <2>a, <2>3
  <2>c. g[m + 1] = last /\ g[m] = f[m] /\ m + 1 - 1 = m /\ m + 1 # 0 /\ m + 1 \in 0 .. m + 1
    BY <2>a, <2>3
  <2>d. \A i \in 0 .. m + 1 : i # m + 1 => i \in 0 .. m
    BY <2>a
  <2>5. \A i \in 0 .. m + 1 : g[i] = IF i = 0 THEN << >>
                                     ELSE IF h[i].id \in ids THEN g[i - 1] ELSE Append(g[i - 1], h[i])
    <3> SUFFICES ASSUME NEW i \in 0 .. m + 1
                 PROVE  g[i] = IF i = 0 THEN << >>
                               ELSE IF h[i].id \in ids THEN g[i - 1] ELSE Append(g[i - 1], h[i])
      OBVIOUS
    <3> HIDE DEF g
    <3>1. CASE i = m + 1
      <4>1. g[i] = last /\ i # 0 /\ i - 1 = m /\ h[i] = h[m + 1] /\ g[i - 1] = f[m]
        BY <3>1, <2>a, <2>c
      <4>2. g[i] = IF h[i].id \in ids THEN g[i - 1] ELSE Append(g[i - 1], h[i])
        BY <4>1
      <4> QED
        BY <4>1, <4>2
    <3>2. CASE i # m + 1
      <4>1. g[i] = f[i] /\ (i # 0 => g[i - 1] = f[i - 1])
        BY <3>2, <2>d, <2>3, <2>4
      <4> QED
        BY <3>2, <4>1, <2>d, <2>2
    <3> QED
      BY <3>1, <3>2
  <2>6. DOMAIN g = 0 .. m + 1 /\ g = [i \in 0 .. m + 1 |-> g[i]]
    OBVIOUS
  <2> HIDE DEF g
  <2> QED
    BY <2>5, <2>6 DEF Keeps
<1> HIDE DEF T
<1>3. T = Nat
  <2>1. T \in SUBSET Nat
    BY DEF T
  <2> QED
    BY <1>1, <1>2, <2>1, Induction
<1> QED
  BY <1>3 DEF T

(* Without leaves what is not in ids.                                      *)
LEMMA WithoutFilters == ASSUME NEW h \in Hist, NEW ids PROVE Filtered(Without(h, ids), h, ids, Len(h))
<1> DEFINE K == CHOOSE kept : Keeps(kept, h, ids, Len(h))
<1>1. Len(h) \in Nat
  BY LenProperties DEF Hist
<1>2. Keeps(K, h, ids, Len(h))
  BY <1>1, KeepsExists
<1>3. Without(h, ids) = K[Len(h)]
  BY DEF Without, Keeps
<1> HIDE DEF K
<1>4. \A i \in 0 .. Len(h) : K[i] = IF i = 0 THEN << >>
                                    ELSE IF h[i].id \in ids THEN K[i - 1] ELSE Append(K[i - 1], h[i])
  BY <1>2 DEF Keeps
<1> DEFINE T == {m \in Nat : m <= Len(h) => Filtered(K[m], h, ids, m)}
<1>5. 0 \in T
  <2>1. K[0] = << >>
    BY <1>1, <1>4
  <2> QED
    <3>1. << >> \in Hist /\ Len(<< >>) = 0 /\ 1 .. 0 = {}
      BY EmptySeq DEF Hist
    <3>2. Filtered(<< >>, h, ids, 0)
      BY <3>1 DEF Filtered
    <3> QED
      BY <2>1, <3>2
<1>6. ASSUME NEW m \in T PROVE m + 1 \in T
  <2>a. m \in Nat /\ m + 1 \in Nat /\ (m <= Len(h) => Filtered(K[m], h, ids, m))
    OBVIOUS
  <2>b. (m + 1 <= Len(h) => Filtered(K[m + 1], h, ids, m + 1)) => m + 1 \in T
    BY <2>a
  <2> HIDE DEF T
  <2> SUFFICES ASSUME m + 1 <= Len(h) PROVE Filtered(K[m + 1], h, ids, m + 1)
    BY <2>b
  <2>1. Filtered(K[m], h, ids, m)
    BY <1>1, <2>a
  <2>2. m + 1 \in 0 .. Len(h) /\ m + 1 # 0 /\ m + 1 - 1 = m
    BY <1>1, <2>a
  <2>3. K[m + 1] = IF h[m + 1].id \in ids THEN K[m] ELSE Append(K[m], h[m + 1])
    <3>1. \A j \in 0 .. Len(h) : j # 0 /\ j - 1 = m
             => K[j] = IF h[j].id \in ids THEN K[m] ELSE Append(K[m], h[j])
      BY <1>4
    <3> QED
      BY <2>a, <2>2, <3>1
  <2> QED
    BY <2>1, <2>3, <2>a, FilteredStep
<1> HIDE DEF T
<1>7. T = Nat
  <2>1. T \in SUBSET Nat
    BY DEF T
  <2> QED
    BY <1>5, <1>6, <2>1, Induction
<1> QED
  BY <1>1, <1>3, <1>7 DEF T

LEMMA HistType ==
    ASSUME NEW h \in Hist
    PROVE  /\ Len(h) \in Nat /\ DOMAIN h = 1 .. Len(h)
           /\ \A n \in 1 .. Len(h) : h[n] \in Entries
           /\ Left(h) \subseteq Ids(h) /\ Ids(h) \subseteq Posts
<1>1. Len(h) \in Nat /\ DOMAIN h = 1 .. Len(h) /\ \A n \in 1 .. Len(h) : h[n] \in Entries
  BY LenProperties, ElementOfSeq DEF Hist
<1> QED
  BY <1>1 DEF Left, Ids, Entries

LEMMA EmptyHist == << >> \in Hist /\ Ids(<< >>) = {} /\ Left(<< >>) = {}
<1>1. << >> \in Hist /\ 1 .. Len(<< >>) = {}
  BY EmptySeq DEF Hist
<1> QED
  BY <1>1 DEF Ids, Left

LEMMA AppendedHist ==
    ASSUME NEW h \in Hist, NEW i \in Posts
    PROVE  LET s == Append(h, Entry(i)) IN
              s \in Hist /\ Ids(s) = Ids(h) \cup {i} /\ Left(s) = Left(h) \cup {i} /\ s # << >>
<1> DEFINE s == Append(h, Entry(i))
<1>1. Entry(i) \in Entries /\ Entry(i).id = i /\ Entry(i).deleted = FALSE
  BY DEF Entry, Entries
<1>2. s \in Hist /\ Len(s) = Len(h) + 1 /\ s[Len(h) + 1] = Entry(i) /\ \A n \in 1 .. Len(h) : s[n] = h[n]
  BY <1>1, AppendProperties DEF Hist
<1> HIDE DEF s
<1>3. Len(h) \in Nat /\ 1 .. Len(s) = 1 .. Len(h) \cup {Len(h) + 1} /\ s # << >>
  <2>1. Len(h) \in Nat
    BY HistType
  <2> QED
    BY <1>2, <2>1, EmptySeq
<1>4. Ids(s) = Ids(h) \cup {i}
  BY <1>1, <1>2, <1>3 DEF Ids
<1>5. Left(s) = Left(h) \cup {i}
  BY <1>1, <1>2, <1>3 DEF Left
<1> QED
  BY <1>2, <1>3, <1>4, <1>5 DEF s

LEMMA WithoutHist ==
    ASSUME NEW h \in Hist, NEW ids
    PROVE  LET s == Without(h, ids) IN
              s \in Hist /\ Ids(s) = Ids(h) \ ids /\ Left(s) = Left(h) \ ids
<1> DEFINE s == Without(h, ids)
<1>1. Filtered(s, h, ids, Len(h))
  BY WithoutFilters
<1> HIDE DEF s
<1>2. s \in Hist /\ \A e : (\E k \in 1 .. Len(s) : s[k] = e) <=> (\E k \in 1 .. Len(h) : h[k] = e /\ h[k].id \notin ids)
  BY <1>1 DEF Filtered
<1>3. Ids(s) = Ids(h) \ ids
  <2>1. ASSUME NEW k \in 1 .. Len(s) PROVE s[k].id \in Ids(h) \ ids
    <3>1. PICK j \in 1 .. Len(h) : h[j] = s[k] /\ h[j].id \notin ids
      BY <1>2
    <3> QED
      BY <3>1 DEF Ids
  <2>2. ASSUME NEW j \in 1 .. Len(h), h[j].id \notin ids PROVE h[j].id \in Ids(s)
    <3>1. PICK k \in 1 .. Len(s) : s[k] = h[j]
      BY <1>2, <2>2
    <3> QED
      BY <3>1 DEF Ids
  <2> QED
    BY <2>1, <2>2 DEF Ids
<1>4. Left(s) = Left(h) \ ids
  <2>1. ASSUME NEW k \in 1 .. Len(s), ~ s[k].deleted PROVE s[k].id \in Left(h) \ ids
    <3>1. PICK j \in 1 .. Len(h) : h[j] = s[k] /\ h[j].id \notin ids
      BY <1>2
    <3> QED
      BY <2>1, <3>1 DEF Left
  <2>2. ASSUME NEW j \in 1 .. Len(h), h[j].id \notin ids, ~ h[j].deleted PROVE h[j].id \in Left(s)
    <3>1. PICK k \in 1 .. Len(s) : s[k] = h[j]
      BY <1>2, <2>2
    <3> QED
      BY <2>2, <3>1 DEF Left
  <2> QED
    BY <2>1, <2>2 DEF Left
<1> QED
  BY <1>2, <1>3, <1>4 DEF s

LEMMA TombstonedHist ==
    ASSUME NEW h \in Hist, NEW i
    PROVE  LET s == Tombstoned(h, i) IN
              s \in Hist /\ Ids(s) = Ids(h) /\ Left(s) = Left(h) \ {i}
<1> DEFINE s == Tombstoned(h, i)
<1>1. Len(h) \in Nat /\ \A n \in 1 .. Len(h) : h[n] \in Entries
  BY HistType
<1>2. ASSUME NEW n \in 1 .. Len(h)
      PROVE  s[n] \in Entries /\ s[n].id = h[n].id /\ s[n].deleted = (h[n].deleted \/ h[n].id = i)
  <2>1. s[n] = [h[n] EXCEPT !.deleted = @ \/ h[n].id = i]
    BY DEF Tombstoned
  <2>2. h[n].deleted \in BOOLEAN /\ (h[n].deleted \/ h[n].id = i) \in BOOLEAN
    BY <1>1 DEF Entries
  <2> HIDE DEF s
  <2> QED
    BY <1>1, <2>1, <2>2 DEF Entries
<1>3. s \in Hist /\ Len(s) = Len(h)
  <2>1. s = [n \in 1 .. Len(h) |-> s[n]]
    BY DEF Tombstoned
  <2> HIDE DEF s
  <2>2. \A n \in 1 .. Len(h) : s[n] \in Entries
    BY <1>2
  <2>3. s \in Seq(Entries)
    BY <1>1, <2>1, <2>2, IsASeq
  <2>4. DOMAIN s = 1 .. Len(h) /\ DOMAIN s = 1 .. Len(s) /\ Len(s) \in Nat
    BY <2>1, <2>3, LenProperties
  <2> QED
    BY <1>1, <2>3, <2>4 DEF Hist
<1> HIDE DEF s
<1>4. Ids(s) = Ids(h)
  BY <1>2, <1>3 DEF Ids
<1>5. Left(s) = Left(h) \ {i}
  BY <1>2, <1>3 DEF Left
<1> QED
  BY <1>3, <1>4, <1>5 DEF s

LEMMA DeliveredHist ==
    ASSUME NEW h \in Hist, NEW i
    PROVE  LET s == Delivered(h, i) IN s \in Hist /\ Ids(s) = Ids(h) /\ Left(s) = Left(h)
<1> DEFINE s == Delivered(h, i)
<1>1. Len(h) \in Nat /\ \A n \in 1 .. Len(h) : h[n] \in Entries
  BY HistType
<1>2. ASSUME NEW n \in 1 .. Len(h)
      PROVE  s[n] \in Entries /\ s[n].id = h[n].id /\ s[n].deleted = h[n].deleted
  <2>1. s[n] = [h[n] EXCEPT !.delivered = @ \/ h[n].id = i]
    BY DEF Delivered
  <2>2. (h[n].delivered \/ h[n].id = i) \in BOOLEAN
    BY <1>1 DEF Entries
  <2> HIDE DEF s
  <2> QED
    BY <1>1, <2>1, <2>2 DEF Entries
<1>3. s \in Hist /\ Len(s) = Len(h)
  <2>1. s = [n \in 1 .. Len(h) |-> s[n]]
    BY DEF Delivered
  <2> HIDE DEF s
  <2>2. \A n \in 1 .. Len(h) : s[n] \in Entries
    BY <1>2
  <2>3. s \in Seq(Entries)
    BY <1>1, <2>1, <2>2, IsASeq
  <2>4. DOMAIN s = 1 .. Len(h) /\ DOMAIN s = 1 .. Len(s) /\ Len(s) \in Nat
    BY <2>1, <2>3, LenProperties
  <2> QED
    BY <1>1, <2>3, <2>4 DEF Hist
<1> HIDE DEF s
<1>4. Ids(s) = Ids(h)
  BY <1>2, <1>3 DEF Ids
<1>5. Left(s) = Left(h)
  BY <1>2, <1>3 DEF Left
<1> QED
  BY <1>3, <1>4, <1>5 DEF s

LEMMA UntouchedIsLeft == ASSUME NEW h \in Hist, NEW i PROVE Untouched(h, i) <=> i \in Left(h)
  BY DEF Untouched, Left

LEMMA EntriesOf ==
    ASSUME NEW h \in Hist
    PROVE  /\ \A e \in ToSet(h) : e.id \in Ids(h) /\ (e.deleted \/ e.id \in Left(h))
           /\ \A i \in Ids(h) : \E e \in ToSet(h) : e.id = i
<1>1. DOMAIN h = 1 .. Len(h)
  BY HistType
<1> QED
  BY <1>1 DEF ToSet, Ids, Left

-----------------------------------------------------------------------------
(* Types.                                                                  *)

Stages == {"idle", "append", "gate", "purge", "tombstone", "status", "invited", "local", "set", "put",
           "reconcile", "load", "read", "wipe", "forget", "store", "ack"}

\* A task of the chain or of a handler.
Tasks == [at : Stages, id : Posts \cup {None}, conv : Convs \cup {None}, snap : Hist,
          todo : Hist \cup Seq(Posts)]

OpStages == {"idle", "append", "gate", "purge", "tombstone", "status", "invited", "local"}

TaskStages ==
    [open |-> {"set"}, erase |-> {"put"}, retract |-> {"put"}, sweep |-> {"put", "reconcile"},
     accept |-> {"load", "set"}, decline |-> {"load", "read", "put"}, remove |-> {"wipe", "forget"},
     fetch |-> {"store", "ack"}]

StoresOK ==
    /\ mode \in Modes
    /\ hist \in [Convs -> Hist]
    /\ view \in [Convs -> Hist \cup {None}]
    /\ contacts \cup accepted \cup pending \cup approved \subseteq Convs /\ blocked \subseteq Peers
    /\ handled \cup cached \cup r2 \cup asked \subseteq Posts
    /\ active \in Convs \cup {None}

\* Mail is under its sender's name, and what the user sends is the user's, each message once.
MailOK ==
    /\ inbox \in [Peers -> Seq(Posts)] /\ outbox \in Seq(Posts)
    /\ \A p \in Peers : \A n \in DOMAIN inbox[p] : Info[inbox[p][n]].from = p
    /\ \A n \in DOMAIN outbox : Info[outbox[n]].from = Me
    /\ \A n, k \in DOMAIN outbox : outbox[n] = outbox[k] => n = k
    /\ \A i \in handled : Info[i].from \in Peers

\* What a task of the chain was made from.
OpOK ==
    /\ op \in Tasks /\ op.at \in OpStages
    /\ op.at = "idle" => op = Idle
    /\ op.at # "idle" => op.id \in Posts /\ op.conv \in Convs
    /\ op.at \in {"append", "gate", "purge"} =>
          /\ Info[op.id].conv = op.conv /\ Info[op.id].kind \in {"text", "media"}
          /\ op.conv \in contacts \cup Peers
    /\ op.at \in {"append", "gate", "purge", "tombstone", "invited"} =>
          /\ Info[op.id].from \in Peers
          /\ inbox[Info[op.id].from] # <<>> /\ Head(inbox[Info[op.id].from]) = op.id
    /\ op.at = "append" => op.id \notin handled
    /\ op.at = "tombstone" => Info[op.id].kind = "delete" /\ op.conv \in Peers
    /\ op.at = "invited" => op.conv \in Groups \cap contacts
    /\ op.at = "local" =>
          /\ Info[op.id].from = Me /\ Info[op.id].conv = op.conv
          /\ \A n \in DOMAIN outbox : outbox[n] # op.id

TaskOK(k, t) ==
    /\ t \in Tasks
    /\ t = Idle \/ (t.at \in TaskStages[k] /\ t.conv \in Convs)
    /\ t.at = "put" /\ k # "sweep" => t.id \in Posts
    /\ k = "fetch" /\ t # Idle => t.id \in Posts
    /\ k = "sweep" => t.todo \in Hist
    /\ k = "decline" => t.todo \in Seq(Posts)

TasksOK == DOMAIN task = Kinds /\ \A k \in Kinds : TaskOK(k, task[k])

TInv == StoresOK /\ MailOK /\ OpOK /\ TasksOK

-----------------------------------------------------------------------------
(* The inductive invariants.                                               *)

\* What a handler is about to take away was asked for or has expired; what it is about to
\* tell the server is so.
Justified(k, t, gone, stored, past) ==
    /\ k \in {"erase", "retract", "decline"} /\ t.at = "put" => t.id \in gone
    /\ k = "decline" /\ t.at \in {"read", "put"} => ToSet(t.todo) \subseteq gone
    /\ k = "sweep" /\ t.at = "put" =>
          /\ Ids(t.todo) \subseteq Ids(t.snap) /\ Left(t.todo) \subseteq Left(t.snap)
          /\ Ids(t.snap) \subseteq Ids(t.todo) \cup past
    /\ k = "fetch" /\ t.at = "ack" => t.id \in stored \cup gone \cup past

JustInv ==
    /\ op.at = "purge" => op.id \in asked
    /\ \A k \in Kinds : Justified(k, task[k], asked, cached, expired)

Spoilt == crossed \cup torn

KeptInv ==
    \A i \in handled : Info[i].kind \in {"text", "media"} /\ Info[i].conv \notin Spoilt =>
        i \in Ids(hist[Info[i].conv]) \cup asked \cup expired

KeepInv == JustInv /\ FetchedIsKept /\ KeptInv

\* A history with something that a peer wrote.
Theirs(h) == \E i \in Ids(h) : Info[i].from # Me

\* The conversations that a peer may have written to.
Met ==
    {p \in Peers : p \in pending \cup accepted \cup blocked \cup torn \/ (op.at = "gate" /\ op.conv = p)}
        \cup (contacts \cap Groups)

Sound(h, c, met) == Theirs(h) => c \in met

SoundTask(k, t, met) ==
    t.conv \in Convs => Sound(t.snap, t.conv, met) /\ (k = "sweep" => Sound(t.todo, t.conv, met))

MetInv ==
    /\ \A c \in Convs : Sound(hist[c], c, Met)
    /\ op.conv \in Convs => Sound(op.snap, op.conv, Met)
    /\ \A k \in Kinds : SoundTask(k, task[k], Met)

\* A group the device has is a request or accepted, or its creator was turned away for good.
Seen(g) ==
    \/ g \in pending \cup accepted \cup torn
    \/ Creator[g] \in blocked \ (accepted \cup pending)
    \/ op.at = "invited" /\ op.conv = g

HeldInv == MetInv /\ (seeded => \A g \in contacts \cap Groups : Seen(g))

\* What peers wrote in it is in the view, or a handler is about to put it there.
Shown(c) ==
    \/ Theirs(ViewOf(c))
    \/ \E k \in {"open", "accept"} : task[k] # Idle /\ task[k].conv = c

RenderInv ==
    /\ accepted \subseteq approved \cup slipped
    /\ pending \cap accepted \subseteq slipped
    /\ ~ seeded => slipped = {}
    /\ \A c \in Convs : Shown(c) /\ c \notin slipped =>
          c \in approved /\ c \notin pending /\ c \in accepted \cup (Peers \cap blocked)

\* Posts that no append will write again.
Past == handled \cup ({i \in Posts : Info[i].from = Me /\ i \notin ToSet(outbox)}
                         \ (IF op.at = "local" THEN {op.id} ELSE {}))

Placed(h, c, past) == \A i \in Ids(h) : i \in past /\ Info[i].conv = c

PlacedTask(k, t, past) ==
    t # Idle =>
        /\ Placed(t.snap, t.conv, past)
        /\ k \in {"erase", "retract"} => Info[t.id].conv = t.conv
        /\ k = "decline" =>
              /\ \A i \in ToSet(t.todo) : Info[i].conv = t.conv
              /\ t.at = "put" => Info[t.id].conv = t.conv

\* Every copy of a history holds posts of its conversation that are there to stay.
PlaceInv ==
    /\ \A c \in Convs : Placed(hist[c], c, Past) /\ Placed(ViewOf(c), c, Past)
    /\ op.at # "idle" => Placed(op.snap, op.conv, Past)
    /\ op.at \in {"gate", "purge"} => op.id \in handled
    /\ \A k \in Kinds : PlacedTask(k, task[k], Past)
    /\ asked \subseteq Past

\* Who will take i out of its history, or empty it there.
TakenBy(k, t, i) ==
    \/ k \in {"erase", "retract"} /\ t.at = "put" /\ t.id = i
    \/ k = "decline" /\ t.at = "put" /\ t.id = i
    \/ k = "decline" /\ t.at \in {"read", "put"} /\ i \in ToSet(t.todo)

Removing(i) == (op.at = "purge" /\ op.id = i) \/ \E k \in Kinds : TakenBy(k, task[k], i)

\* Who will take i out of the view of c, or empty it there.
HiddenBy(k, t, i, c) ==
    \/ k \in {"erase", "retract"} /\ t.at = "put" /\ t.id = i
    \/ k = "decline" /\ t.at \in {"read", "put"} /\ t.conv = c
    \/ k = "remove" /\ t.at = "forget" /\ t.conv = c

Hiding(i, c) == \E k \in Kinds : HiddenBy(k, task[k], i, c)

\* A deletion finds what it is about in the history it has read.
Finds(k, t, h, c) ==
    t.at = "put" /\ t.conv = c =>
        /\ k = "erase" /\ t.id \in Ids(h) => t.id \in Ids(t.snap)
        /\ k = "retract" /\ t.id \in Left(h) => t.id \in Left(t.snap)

GoneAt(c) ==
    /\ \A i \in Left(hist[c]) \cap asked : Removing(i)
    /\ \A i \in Left(ViewOf(c)) \cap asked : Hiding(i, c)
    /\ op.at \in {"gate", "purge"} /\ op.conv = c => op.id \notin Ids(ViewOf(c))
    /\ \A k \in Kinds : Finds(k, task[k], hist[c], c)

GoneInv == PlaceInv /\ \A c \in Convs \ Spoilt : GoneAt(c)

-----------------------------------------------------------------------------
(* Tasks.                                                                  *)

LEMMA IdleIs ==
    /\ Idle = [at |-> "idle", id |-> None, conv |-> None, snap |-> << >>, todo |-> << >>]
    /\ Idle \in Tasks /\ Idle.at = "idle" /\ Idle.id = None /\ Idle.conv = None
    /\ Idle.snap = << >> /\ Idle.todo = << >>
<1>1. << >> \in Hist
  BY EmptyHist
<1>2. /\ Idle = [at |-> "idle", id |-> None, conv |-> None, snap |-> << >>, todo |-> << >>]
      /\ Idle.at = "idle" /\ Idle.id = None /\ Idle.conv = None /\ Idle.snap = << >> /\ Idle.todo = << >>
  BY DEF Idle
<1>3. Idle \in Tasks
  BY <1>1, <1>2 DEF Tasks, Stages
<1> QED
  BY <1>2, <1>3

LEMMA BeginIs ==
    ASSUME NEW at \in Stages, NEW id \in Posts \cup {None}, NEW c \in Convs
    PROVE  LET t == Begin(at, id, c) IN
              /\ t \in Tasks
              /\ t.at = at /\ t.id = id /\ t.conv = c /\ t.snap = << >> /\ t.todo = << >>
<1> DEFINE a == [Idle EXCEPT !.at = at]
           b == [a EXCEPT !.id = id]
<1>1. a \in Tasks /\ a.at = at /\ a.snap = << >> /\ a.todo = << >>
  BY IdleIs DEF Tasks
<1>2. b \in Tasks /\ b.at = at /\ b.id = id /\ b.snap = << >> /\ b.todo = << >>
  <2> HIDE DEF a
  <2> QED
    BY <1>1 DEF Tasks
<1>3. Begin(at, id, c) = [b EXCEPT !.conv = c]
  BY DEF Begin
<1> HIDE DEF b
<1> QED
  BY <1>2, <1>3 DEF Tasks

LEMMA BeginReadIs ==
    ASSUME NEW at \in Stages, NEW id \in Posts \cup {None}, NEW c \in Convs, hist[c] \in Hist
    PROVE  LET t == BeginRead(at, id, c) IN
              /\ t \in Tasks
              /\ t.at = at /\ t.id = id /\ t.conv = c /\ t.snap = hist[c] /\ t.todo = << >>
<1> DEFINE b == Begin(at, id, c)
<1>1. b \in Tasks /\ b.at = at /\ b.id = id /\ b.conv = c /\ b.todo = << >>
  BY BeginIs
<1>2. BeginRead(at, id, c) = [b EXCEPT !.snap = hist[c]]
  BY DEF BeginRead
<1> HIDE DEF b
<1> QED
  BY <1>1, <1>2 DEF Tasks

LEMMA TaskIs ==
    ASSUME TasksOK, NEW k \in Kinds, NEW t, Becomes(k, t)
    PROVE  task' = [task EXCEPT ![k] = t] /\ task'[k] = t /\ \A j \in Kinds : j # k => task'[j] = task[j]
BY DEF TasksOK, Becomes

LEMMA TasksBecome ==
    ASSUME TasksOK, NEW k \in Kinds, NEW t, Becomes(k, t), TaskOK(k, t)
    PROVE  TasksOK'
<1>1. task'[k] = t /\ (\A j \in Kinds : j # k => task'[j] = task[j]) /\ DOMAIN task' = Kinds
  BY DEF TasksOK, Becomes
<1>2. ASSUME NEW j \in Kinds PROVE TaskOK(j, task[j]')
  BY <1>1 DEF TasksOK
<1> QED
  BY <1>1, <1>2 DEF TasksOK, TaskOK, Tasks, Hist, Entries, Convs

LEMMA TasksStay == ASSUME TasksOK, UNCHANGED task PROVE TasksOK'
  BY DEF TasksOK, TaskOK, Tasks

LEMMA IdleTask == ASSUME NEW k \in Kinds PROVE TaskOK(k, Idle)
<1>1. << >> \in Hist /\ << >> \in Seq(Posts)
  BY EmptyHist, EmptySeq
<1> QED
  BY <1>1, IdleIs DEF TaskOK

LEMMA MailStays == ASSUME MailOK, UNCHANGED <<inbox, outbox, handled>> PROVE MailOK'
  BY DEF MailOK

\* Only a peer is ever removed.
LEMMA OpStays ==
    ASSUME OpOK, UNCHANGED <<op, inbox, outbox, handled>>, contacts \subseteq contacts' \cup Peers,
           Peers \cap Groups = {}
    PROVE  OpOK'
  BY DEF OpOK, Tasks

LEMMA InfoIs ==
    /\ \A i \in Posts : /\ Info[i].conv \in Convs /\ Info[i].from \in Peers \cup {Me}
                        /\ Info[i].target \in Posts \cup {None}
                        /\ Info[i].kind = "invite" => Info[i].conv \in Groups
    /\ Peers \cap Groups = {} /\ Me \notin Peers /\ None \notin Posts /\ None \notin Convs
    /\ Creator \in [Groups -> Peers] /\ Convs = Peers \cup Groups
  BY ConversationsAssumption DEF ConversationsAssumption, Convs

LEMMA SeqParts ==
    ASSUME NEW S, NEW s \in Seq(S), s # << >>
    PROVE  /\ Head(s) \in S /\ Tail(s) \in Seq(S) /\ Head(s) = s[1] /\ 1 \in DOMAIN s
           /\ \A n \in DOMAIN Tail(s) : n + 1 \in DOMAIN s /\ n + 1 # 1 /\ Tail(s)[n] = s[n + 1]
           /\ \A n, k \in DOMAIN Tail(s) : n + 1 = k + 1 => n = k
<1>1. Head(s) \in S /\ Tail(s) \in Seq(S) /\ Head(s) = s[1] /\ Len(Tail(s)) = Len(s) - 1
      /\ \A n \in 1 .. Len(Tail(s)) : Tail(s)[n] = s[n + 1]
  BY HeadTailProperties
<1>2. Len(s) \in Nat /\ Len(s) # 0 /\ DOMAIN s = 1 .. Len(s) /\ DOMAIN Tail(s) = 1 .. Len(Tail(s))
  BY <1>1, LenProperties, EmptySeq
<1> QED
  BY <1>1, <1>2

LEMMA HeadAndTail ==
    ASSUME NEW S, NEW s \in Seq(S), s # << >>
    PROVE  ToSet(s) = {Head(s)} \cup ToSet(Tail(s))
<1>1. Len(s) \in Nat /\ Len(s) # 0 /\ DOMAIN s = 1 .. Len(s)
  BY LenProperties, EmptySeq
<1>2. /\ Head(s) = s[1] /\ Len(Tail(s)) = Len(s) - 1 /\ Tail(s) \in Seq(S)
      /\ \A n \in 1 .. Len(Tail(s)) : Tail(s)[n] = s[n + 1]
  BY HeadTailProperties
<1>3. DOMAIN Tail(s) = 1 .. Len(s) - 1
  BY <1>2, LenProperties
<1>4. ASSUME NEW k \in 1 .. Len(s) PROVE s[k] = Head(s) \/ \E n \in DOMAIN Tail(s) : Tail(s)[n] = s[k]
  <2>1. CASE k = 1
    BY <1>2, <2>1
  <2>2. CASE k # 1
    <3>1. k - 1 \in 1 .. Len(s) - 1 /\ k - 1 + 1 = k
      BY <1>1, <2>2
    <3>2. Tail(s)[k - 1] = s[k]
      BY <1>2, <3>1
    <3> QED
      BY <1>3, <3>1, <3>2
  <2> QED
    BY <2>1, <2>2
<1>5. ASSUME NEW n \in DOMAIN Tail(s) PROVE \E k \in 1 .. Len(s) : s[k] = Tail(s)[n]
  <2>1. n + 1 \in 1 .. Len(s) /\ Tail(s)[n] = s[n + 1]
    BY <1>1, <1>2, <1>3
  <2> QED
    BY <2>1
<1>6. \E k \in 1 .. Len(s) : s[k] = Head(s)
  BY <1>1, <1>2
<1> QED
  BY <1>1, <1>4, <1>5, <1>6 DEF ToSet

LEMMA MailBecomes ==
    ASSUME MailOK, inbox' = inbox \/ (\E p \in Peers : inbox[p] # << >> /\ Pop(p)), UNCHANGED outbox,
           \A i \in handled' : i \in handled \/ Info[i].from \in Peers
    PROVE  MailOK'
<1>1. CASE inbox' = inbox
  BY <1>1 DEF MailOK
<1>2. ASSUME NEW p \in Peers, inbox[p] # << >>, Pop(p) PROVE MailOK'
  <2>1. inbox' \in [Peers -> Seq(Posts)]
    BY <1>2, SeqParts DEF Pop, MailOK
  <2>2. ASSUME NEW r \in Peers, NEW n \in DOMAIN inbox'[r] PROVE Info[inbox'[r][n]].from = r
    <3>1. CASE r = p
      <4>1. inbox'[r] = Tail(inbox[r]) /\ inbox[r] \in Seq(Posts)
        BY <1>2, <3>1 DEF Pop, MailOK
      <4>2. n + 1 \in DOMAIN inbox[r] /\ inbox'[r][n] = inbox[r][n + 1]
        BY <1>2, <3>1, <4>1, <2>2, SeqParts
      <4> QED
        BY <4>2 DEF MailOK
    <3>2. CASE r # p
      BY <1>2, <2>2, <3>2 DEF Pop, MailOK
    <3> QED
      BY <3>1, <3>2
  <2> QED
    BY <2>1, <2>2 DEF MailOK
<1> QED
  BY <1>1, <1>2

LEMMA OpIdle == ASSUME op' = Idle PROVE OpOK'
  BY IdleIs DEF OpOK, OpStages

LEMMA ViewOfIs == ASSUME StoresOK, NEW c \in Convs PROVE ViewOf(c) \in Hist /\ hist[c] \in Hist
  BY EmptyHist DEF StoresOK, ViewOf

LEMMA ShowIs ==
    ASSUME StoresOK, NEW c \in Convs, NEW h \in Hist, view' = Show(c, h)
    PROVE  view' \in [Convs -> Hist \cup {None}]
  BY DEF StoresOK, Show

-----------------------------------------------------------------------------
(* Every step keeps the types: the chain.                                  *)

LEMMA TakeDuplicateTypes == ASSUME TInv, NEW p \in Peers, TakeDuplicate(p) PROVE TInv'
<1>1. StoresOK'
  BY DEF TInv, TakeDuplicate, StoresOK, stores, gate, screen, ghosts
<1>2. MailOK'
  BY MailBecomes DEF TInv, TakeDuplicate, stores
<1>3. OpOK'
  BY OpIdle DEF TakeDuplicate
<1>4. TasksOK'
  BY TasksStay DEF TInv, TakeDuplicate
<1> QED
  BY <1>1, <1>2, <1>3, <1>4 DEF TInv

LEMMA TakeMessageTypes == ASSUME TInv, NEW p \in Peers, TakeMessage(p) PROVE TInv'
<1> DEFINE i == Head(inbox[p])
           c == Info[i].conv
<1>1. /\ i \in Posts /\ c \in Convs /\ Info[i].from = p /\ inbox[p] # << >> /\ i \notin handled
      /\ Info[i].kind \in {"text", "media"} /\ op' = BeginRead("append", i, c) /\ contacts' = contacts \cup {c}
      /\ UNCHANGED <<inbox, outbox, handled, task>>
  BY InfoIs, SeqParts DEF TInv, MailOK, TakeMessage, Take, world
<1>a. i = Head(inbox[p]) /\ c = Info[i].conv
  OBVIOUS
<1> HIDE DEF c, i
<1>2. StoresOK'
  BY <1>1 DEF TInv, TakeMessage, StoresOK, gate, screen, world, ghosts
<1>3. OpOK'
  <2>1. op' \in Tasks /\ op'.at = "append" /\ op'.id = i /\ op'.conv = c
    BY <1>1, BeginReadIs, ViewOfIs DEF TInv, Stages
  <2>2. Info[i].from \in Peers /\ inbox'[Info[i].from] # << >> /\ Head(inbox'[Info[i].from]) = i
    BY <1>1, <1>a
  <2>3. Info[i].conv = c /\ c \in contacts' /\ i \notin handled'
    BY <1>1, <1>a
  <2> QED
    BY <1>1, <2>1, <2>2, <2>3 DEF OpOK, OpStages
<1> QED
  BY <1>1, <1>2, <1>3, MailStays, TasksStay DEF TInv

LEMMA AppendMessageTypes == ASSUME TInv, AppendMessage PROVE TInv'
<1>1. /\ op.id \in Posts /\ op.conv \in Convs /\ op.snap \in Hist /\ Info[op.id].from \in Peers
      /\ op \in Tasks
  BY DEF TInv, OpOK, AppendMessage, Tasks
<1>2. StoresOK'
  <2>1. Append(op.snap, Entry(op.id)) \in Hist
    BY <1>1, AppendedHist
  <2> QED
    BY <1>1, <2>1 DEF TInv, AppendMessage, Put, StoresOK, gate, screen, world
<1>3. MailOK'
  BY <1>1, MailBecomes DEF TInv, AppendMessage, world
<1>4. OpOK'
  <2>1. << >> \in Hist
    BY EmptyHist
  <2>2. op' \in Tasks /\ op'.at = "gate" /\ op'.id = op.id /\ op'.conv = op.conv
    BY <1>1, <2>1 DEF AppendMessage, Tasks, Stages
  <2> QED
    BY <2>2 DEF TInv, AppendMessage, OpOK, OpStages, world
<1>5. TasksOK'
  BY TasksStay DEF TInv, AppendMessage
<1> QED
  BY <1>2, <1>3, <1>4, <1>5 DEF TInv

LEMMA FinishTypes ==
    ASSUME TInv, NEW at \in {"gate", "purge", "tombstone", "invited"}, Finish(at), UNCHANGED <<outbox, task>>,
           handled' = handled \/ handled' = handled \cup {op.id}
    PROVE  /\ op.id \in Posts /\ op.conv \in Convs /\ op.snap \in Hist /\ Info[op.id].from \in Peers
           /\ MailOK' /\ OpOK' /\ TasksOK' /\ handled' \subseteq Posts
<1>1. /\ op.id \in Posts /\ op.conv \in Convs /\ op.snap \in Hist /\ Info[op.id].from \in Peers
      /\ inbox[Info[op.id].from] # << >> /\ op' = Idle /\ Pop(Info[op.id].from)
  BY DEF TInv, OpOK, Finish, Tasks
<1>2. MailOK'
  BY <1>1, MailBecomes DEF TInv, MailOK
<1>3. OpOK' /\ TasksOK'
  BY <1>1, OpIdle, TasksStay DEF TInv
<1> QED
  BY <1>1, <1>2, <1>3 DEF TInv, StoresOK

LEMMA RenderMessageTypes == ASSUME TInv, RenderMessage PROVE TInv'
<1>1. /\ op.id \in Posts /\ op.conv \in Convs /\ MailOK' /\ OpOK' /\ TasksOK'
  BY FinishTypes DEF RenderMessage, stores
<1>2. Append(ViewOf(op.conv), Entry(op.id)) \in Hist
  BY <1>1, AppendedHist, ViewOfIs DEF TInv
<1> QED
  BY <1>1, <1>2 DEF TInv, RenderMessage, StoresOK, stores, gate

LEMMA HoldMessageTypes == ASSUME TInv, HoldMessage PROVE TInv'
<1>1. /\ op.id \in Posts /\ op.conv \in Convs /\ MailOK' /\ OpOK' /\ TasksOK'
  BY FinishTypes DEF HoldMessage, stores
<1> QED
  BY <1>1 DEF TInv, HoldMessage, StoresOK, stores, screen, ghosts

LEMMA DropMessageTypes == ASSUME TInv, DropMessage PROVE TInv'
<1>1. op.id \in Posts /\ op.conv \in Convs
  BY DEF TInv, OpOK, DropMessage
<1>2. StoresOK'
  BY <1>1 DEF TInv, DropMessage, StoresOK, stores, gate, screen, world
<1>3. OpOK'
  <2>1. op' \in Tasks /\ op'.at = "purge" /\ op'.id = op.id /\ op'.conv = op.conv
    BY <1>1, BeginReadIs, ViewOfIs DEF TInv, DropMessage, Stages
  <2> QED
    BY <1>1, <2>1 DEF TInv, DropMessage, OpOK, OpStages, stores, world
<1> QED
  BY <1>2, <1>3, MailStays, TasksStay DEF TInv, DropMessage, stores, world

LEMMA PurgeMessageTypes == ASSUME TInv, PurgeMessage PROVE TInv'
<1>1. /\ op.id \in Posts /\ op.conv \in Convs /\ op.snap \in Hist /\ MailOK' /\ OpOK' /\ TasksOK'
  BY FinishTypes DEF PurgeMessage
<1>2. Without(op.snap, {op.id}) \in Hist
  BY <1>1, WithoutHist
<1> QED
  BY <1>1, <1>2 DEF TInv, PurgeMessage, Put, StoresOK, gate, screen

LEMMA TakeDeleteTypes == ASSUME TInv, NEW p \in Peers, TakeDelete(p) PROVE TInv'
<1> DEFINE i == Head(inbox[p])
<1>1. /\ i \in Posts /\ Info[i].from = p /\ inbox[p] # << >>
      /\ Info[i].kind = "delete" /\ op' = BeginRead("tombstone", i, p)
      /\ UNCHANGED <<inbox, outbox, handled, task>>
  BY SeqParts DEF TInv, MailOK, TakeDelete, Take, stores, world
<1> HIDE DEF i
<1>2. StoresOK'
  BY DEF TInv, TakeDelete, StoresOK, stores, gate, screen, world, ghosts
<1>3. OpOK'
  <2>1. op' \in Tasks /\ op'.at = "tombstone" /\ op'.id = i /\ op'.conv = p
    BY <1>1, BeginReadIs, ViewOfIs, InfoIs DEF TInv, Stages
  <2> QED
    BY <1>1, <2>1, InfoIs DEF OpOK, OpStages, i
<1> QED
  BY <1>1, <1>2, <1>3, MailStays, TasksStay DEF TInv

\* The message that is retracted, and what becomes of the histories.
LEMMA ApplyDeleteIs ==
    ASSUME TInv, ApplyDelete
    PROVE  LET i == Info[op.id].target
               c == op.conv
           IN /\ op.id \in Posts /\ c \in Convs /\ op.snap \in Hist /\ Info[op.id].from \in Peers
              /\ \/ /\ CanDelete(op.snap, op.id, c) /\ i \in Left(op.snap) /\ i \in Posts
                    /\ Put(c, op.snap, Tombstoned(op.snap, i))
                    /\ cached' = cached \ {i} /\ asked' = asked \cup {i}
                    /\ view' = Show(c, Tombstoned(ViewOf(c), i))
                 \/ UNCHANGED <<hist, cached, view, crossed, asked>>
<1> DEFINE i == Info[op.id].target
           c == op.conv
<1>1. op.id \in Posts /\ c \in Convs /\ op.snap \in Hist /\ Info[op.id].from \in Peers
  BY DEF TInv, OpOK, ApplyDelete, Finish, Tasks
<1>2. CASE CanDelete(op.snap, op.id, c) /\ Untouched(op.snap, i)
  <2>1. i \in Left(op.snap) /\ i \in Posts
    BY <1>1, <1>2, UntouchedIsLeft, HistType
  <2> QED
    BY <1>1, <1>2, <2>1 DEF ApplyDelete
<1>3. CASE ~ (CanDelete(op.snap, op.id, c) /\ Untouched(op.snap, i))
  BY <1>1, <1>3 DEF ApplyDelete
<1> QED
  BY <1>2, <1>3

LEMMA ApplyDeleteTypes == ASSUME TInv, ApplyDelete PROVE TInv'
<1> DEFINE i == Info[op.id].target
           c == op.conv
<1>1. MailOK' /\ OpOK' /\ TasksOK' /\ handled' \subseteq Posts
  BY FinishTypes DEF ApplyDelete
<1>2. hist' \in [Convs -> Hist] /\ view' \in [Convs -> Hist \cup {None}]
      /\ cached' \subseteq Posts /\ asked' \subseteq Posts
  <2>1. c \in Convs /\ op.snap \in Hist /\ ViewOf(c) \in Hist
    BY ApplyDeleteIs, ViewOfIs DEF TInv
  <2>2. Tombstoned(op.snap, i) \in Hist /\ Tombstoned(ViewOf(c), i) \in Hist
    BY <2>1, TombstonedHist
  <2> QED
    BY <2>1, <2>2, ApplyDeleteIs, ShowIs DEF TInv, StoresOK, Put
<1> QED
  BY <1>1, <1>2 DEF TInv, ApplyDelete, StoresOK, gate

LEMMA TakeReceiptTypes == ASSUME TInv, NEW p \in Peers, TakeReceipt(p) PROVE TInv'
<1> DEFINE i == Info[Head(inbox[p])].target
<1>1. /\ inbox[p] # << >> /\ Pop(p) /\ UNCHANGED <<outbox, handled, task>>
      /\ op' = IF i \in Ids(hist[p]) THEN BeginRead("status", i, p) ELSE Idle
  BY DEF TakeReceipt, Take, stores
<1>2. StoresOK'
  BY DEF TInv, TakeReceipt, StoresOK, stores, gate, screen, ghosts
<1>3. MailOK'
  BY <1>1, MailBecomes DEF TInv
<1>4. OpOK'
  <2>1. CASE i \in Ids(hist[p])
    <3>1. i \in Posts /\ p \in Convs
      BY <2>1, HistType, ViewOfIs, InfoIs DEF TInv
    <3>2. op' \in Tasks /\ op'.at = "status" /\ op'.id = i /\ op'.conv = p
      BY <1>1, <2>1, <3>1, BeginReadIs, ViewOfIs DEF TInv, Stages
    <3> QED
      BY <3>1, <3>2 DEF OpOK, OpStages
  <2> QED
    BY <1>1, <2>1, OpIdle
<1> QED
  BY <1>1, <1>2, <1>3, <1>4, TasksStay DEF TInv

LEMMA ApplyReceiptTypes == ASSUME TInv, ApplyReceipt PROVE TInv'
<1>1. op.id \in Posts /\ op.conv \in Convs /\ op.snap \in Hist /\ ViewOf(op.conv) \in Hist
  <2>1. op.id \in Posts /\ op.conv \in Convs /\ op.snap \in Hist
    BY DEF TInv, OpOK, ApplyReceipt, Tasks
  <2> QED
    BY <2>1, ViewOfIs DEF TInv
<1>2. Delivered(op.snap, op.id) \in Hist /\ Delivered(ViewOf(op.conv), op.id) \in Hist
  BY <1>1, DeliveredHist
<1>3. StoresOK'
  BY <1>1, <1>2, ShowIs DEF TInv, ApplyReceipt, Put, StoresOK, gate, world
<1> QED
  BY <1>3, MailStays, OpIdle, TasksStay DEF TInv, ApplyReceipt, world

LEMMA TakeInviteTypes == ASSUME TInv, NEW p \in Peers, TakeInvite(p) PROVE TInv'
<1> DEFINE i == Head(inbox[p])
           c == Info[i].conv
<1>1. /\ i \in Posts /\ c \in Groups /\ Info[i].from = p /\ inbox[p] # << >>
      /\ op' = Begin("invited", i, c) /\ contacts' = contacts \cup {c} /\ handled' = handled \cup {i}
      /\ UNCHANGED <<inbox, outbox, task>>
  BY InfoIs, SeqParts DEF TInv, MailOK, TakeInvite, Take, world
<1> HIDE DEF c, i
<1>2. StoresOK'
  BY <1>1, InfoIs DEF TInv, TakeInvite, StoresOK, gate, screen, world, ghosts
<1>3. MailOK'
  BY <1>1, MailBecomes DEF TInv
<1>4. OpOK'
  <2>1. op' \in Tasks /\ op'.at = "invited" /\ op'.id = i /\ op'.conv = c
    BY <1>1, BeginIs, InfoIs DEF Stages
  <2> QED
    BY <1>1, <2>1, InfoIs DEF OpOK, OpStages, i
<1> QED
  BY <1>1, <1>2, <1>3, <1>4, TasksStay DEF TInv

LEMMA HoldInviteTypes == ASSUME TInv, HoldInvite PROVE TInv'
<1>1. /\ op.id \in Posts /\ op.conv \in Convs /\ MailOK' /\ OpOK' /\ TasksOK'
  BY FinishTypes DEF HoldInvite, stores
<1> QED
  BY <1>1 DEF TInv, HoldInvite, StoresOK, stores, screen, ghosts

LEMMA SendMessageTypes == ASSUME TInv, SendMessage PROVE TInv'
<1> DEFINE i == Head(outbox)
<1>1. /\ i \in Posts /\ active \in Convs /\ Info[i].conv = active /\ Info[i].from = Me
      /\ outbox # << >> /\ outbox' = Tail(outbox) /\ op' = BeginRead("local", i, active)
      /\ UNCHANGED <<inbox, handled, task>> /\ cached' \subseteq cached \cup {i}
  BY InfoIs, SeqParts DEF TInv, MailOK, SendMessage
<1>2. /\ outbox' \in Seq(Posts)
      /\ \A n \in DOMAIN outbox' : n + 1 \in DOMAIN outbox /\ n + 1 # 1 /\ outbox'[n] = outbox[n + 1]
      /\ \A n, k \in DOMAIN outbox' : n + 1 = k + 1 => n = k
      /\ 1 \in DOMAIN outbox /\ outbox[1] = i
  BY <1>1, SeqParts DEF TInv, MailOK
<1> HIDE DEF i
<1>3. StoresOK'
  BY <1>1 DEF TInv, SendMessage, StoresOK, gate, screen, ghosts
<1>4. MailOK'
  <2>1. \A n \in DOMAIN outbox' : Info[outbox'[n]].from = Me
    BY <1>2 DEF TInv, MailOK
  <2>2. \A n, k \in DOMAIN outbox' : outbox'[n] = outbox'[k] => n = k
    BY <1>2 DEF TInv, MailOK
  <2> QED
    BY <1>1, <1>2, <2>1, <2>2 DEF TInv, MailOK
<1>5. OpOK'
  <2>1. op' \in Tasks /\ op'.at = "local" /\ op'.id = i /\ op'.conv = active
    BY <1>1, BeginReadIs, ViewOfIs DEF TInv, Stages
  <2>2. \A n \in DOMAIN outbox' : outbox'[n] # i
    BY <1>2 DEF TInv, MailOK
  <2> QED
    BY <1>1, <2>1, <2>2 DEF OpOK, OpStages
<1> QED
  BY <1>1, <1>3, <1>4, <1>5, TasksStay DEF TInv

LEMMA AppendLocalMessageTypes == ASSUME TInv, AppendLocalMessage PROVE TInv'
<1>1. op.id \in Posts /\ op.conv \in Convs /\ op.snap \in Hist /\ ViewOf(op.conv) \in Hist
  <2>1. op.id \in Posts /\ op.conv \in Convs /\ op.snap \in Hist
    BY DEF TInv, OpOK, AppendLocalMessage, Tasks
  <2> QED
    BY <2>1, ViewOfIs DEF TInv
<1>2. Append(op.snap, Entry(op.id)) \in Hist /\ Append(ViewOf(op.conv), Entry(op.id)) \in Hist
  BY <1>1, AppendedHist
<1>3. StoresOK'
  BY <1>1, <1>2 DEF TInv, AppendLocalMessage, Put, StoresOK, gate, world
<1> QED
  BY <1>3, MailStays, OpIdle, TasksStay DEF TInv, AppendLocalMessage, world

-----------------------------------------------------------------------------
(* Every step keeps the types: what runs beside the chain.                 *)

\* A step that leaves the chain, the mail and what is handled alone.
LEMMA HandlerTypes ==
    ASSUME TInv, UNCHANGED <<op, inbox, outbox, handled>>, contacts \subseteq contacts' \cup Peers,
           StoresOK', TasksOK'
    PROVE  TInv'
  BY InfoIs, MailStays, OpStays DEF TInv

\* What is known of a task under way.
LEMMA RunsIs ==
    ASSUME TInv, NEW k \in Kinds, task[k] # Idle
    PROVE  /\ task[k] \in Tasks /\ task[k].conv \in Convs /\ task[k].at \in TaskStages[k]
           /\ hist[task[k].conv] \in Hist /\ ViewOf(task[k].conv) \in Hist /\ task[k].snap \in Hist
           /\ TaskOK(k, task[k])
<1>1. task[k] \in Tasks /\ task[k].conv \in Convs /\ task[k].at \in TaskStages[k] /\ TaskOK(k, task[k])
  BY DEF TInv, TasksOK, TaskOK
<1> QED
  BY <1>1, ViewOfIs DEF TInv, Tasks

LEMMA AtIs ==
    ASSUME NEW k \in Kinds, NEW at, at # "idle", Runs(k, at)
    PROVE  task[k] # Idle /\ task[k].at = at
  BY IdleIs DEF Runs


LEMMA OpenTypes == ASSUME TInv, NEW c \in Convs, Open(c) PROVE TInv'
<1> DEFINE t == BeginRead("set", None, c)
<1>1. t \in Tasks /\ t.at = "set" /\ t.id = None /\ t.conv = c /\ t.snap = hist[c] /\ t.todo = << >>
  BY BeginReadIs, ViewOfIs DEF TInv, Stages
<1> HIDE DEF t
<1>2. "open" \in Kinds /\ (Becomes("open", t) \/ UNCHANGED task)
  BY DEF Open, Kinds, t
<1>3. TaskOK("open", t)
  BY <1>1 DEF TaskOK, TaskStages
<1>4. TasksOK'
  BY <1>2, <1>3, TasksBecome, TasksStay DEF TInv
<1>5. StoresOK'
  BY DEF TInv, Open, StoresOK, stores, gate
<1> QED
  BY <1>4, <1>5, HandlerTypes DEF Open, stores

LEMMA LoadConversationTypes == ASSUME TInv, LoadConversation PROVE TInv'
<1>1. "open" \in Kinds /\ task["open"] # Idle
  BY AtIs DEF LoadConversation, Kinds
<1>2. task["open"].conv \in Convs /\ task["open"].snap \in Hist
  BY <1>1, RunsIs
<1>3. StoresOK'
  BY <1>2 DEF TInv, LoadConversation, StoresOK, stores, gate, world
<1>4. TasksOK'
  BY <1>1, TasksBecome, IdleTask DEF TInv, LoadConversation
<1> QED
  BY <1>3, <1>4, HandlerTypes DEF LoadConversation, stores, world

LEMMA VisibleIs == ASSUME TInv, NEW i \in Visible(active) PROVE active \in Convs /\ i \in Posts
<1>1. active \in Convs /\ i \in Ids(ViewOf(active))
  BY DEF Visible, TInv, StoresOK
<1> QED
  BY <1>1, ViewOfIs, HistType DEF TInv

LEMMA EraseTypes == ASSUME TInv, NEW i \in Posts, Erase(i) PROVE TInv'
<1> DEFINE t == BeginRead("put", i, active)
<1>1. active \in Convs
  BY VisibleIs DEF Erase
<1>2. t \in Tasks /\ t.at = "put" /\ t.id = i /\ t.conv = active /\ t.snap = hist[active] /\ t.todo = << >>
  BY <1>1, BeginReadIs, ViewOfIs DEF TInv, Stages
<1>3. "erase" \in Kinds /\ Becomes("erase", t)
  BY DEF Erase, Kinds
<1> HIDE DEF t
<1>4. TaskOK("erase", t)
  BY <1>1, <1>2 DEF TaskOK, TaskStages
<1>5. StoresOK'
  BY DEF TInv, Erase, StoresOK, stores, gate, screen
<1> QED
  BY <1>3, <1>4, <1>5, TasksBecome, HandlerTypes DEF TInv, Erase, stores

LEMMA EraseMessageTypes == ASSUME TInv, EraseMessage PROVE TInv'
<1> DEFINE t == task["erase"]
<1>1. "erase" \in Kinds /\ t # Idle
  BY AtIs DEF EraseMessage, Kinds
<1>2. t.conv \in Convs /\ t.snap \in Hist /\ ViewOf(t.conv) \in Hist
  BY <1>1, RunsIs
<1>3. Without(t.snap, {t.id}) \in Hist /\ Without(ViewOf(t.conv), {t.id}) \in Hist
  BY <1>2, WithoutHist
<1>4. hist' \in [Convs -> Hist] /\ view' \in [Convs -> Hist \cup {None}] /\ cached' \subseteq Posts
  <2>1. view' = Show(t.conv, Without(ViewOf(t.conv), {t.id}))
    BY DEF EraseMessage
  <2>2. view' \in [Convs -> Hist \cup {None}]
    BY <1>2, <1>3, <2>1, ShowIs DEF TInv
  <2>3. hist' = hist \/ hist' = [hist EXCEPT ![t.conv] = Without(t.snap, {t.id})]
    BY DEF EraseMessage, Put
  <2>4. cached' \subseteq cached
    BY DEF EraseMessage
  <2> QED
    BY <1>2, <1>3, <2>2, <2>3, <2>4 DEF TInv, StoresOK
<1>5. StoresOK'
  BY <1>4 DEF TInv, EraseMessage, StoresOK, gate, world
<1>6. TasksOK'
  BY <1>1, TasksBecome, IdleTask DEF TInv, EraseMessage
<1> QED
  BY <1>5, <1>6, HandlerTypes DEF EraseMessage, world

LEMMA RetractTypes == ASSUME TInv, NEW i \in Posts, Retract(i) PROVE TInv'
<1> DEFINE t == BeginRead("put", i, active)
<1>1. active \in Convs
  BY VisibleIs DEF Retract
<1>2. t \in Tasks /\ t.at = "put" /\ t.id = i /\ t.conv = active /\ t.snap = hist[active] /\ t.todo = << >>
  BY <1>1, BeginReadIs, ViewOfIs DEF TInv, Stages
<1>3. "retract" \in Kinds /\ Becomes("retract", t)
  BY DEF Retract, Kinds
<1> HIDE DEF t
<1>4. TaskOK("retract", t)
  BY <1>1, <1>2 DEF TaskOK, TaskStages
<1>5. StoresOK'
  BY DEF TInv, Retract, StoresOK, stores, gate, screen
<1> QED
  BY <1>3, <1>4, <1>5, TasksBecome, HandlerTypes DEF TInv, Retract, stores

LEMMA TombstoneMessageTypes == ASSUME TInv, TombstoneMessage PROVE TInv'
<1> DEFINE t == task["retract"]
<1>1. "retract" \in Kinds /\ t # Idle
  BY AtIs DEF TombstoneMessage, Kinds
<1>2. t.conv \in Convs /\ t.snap \in Hist /\ ViewOf(t.conv) \in Hist
  BY <1>1, RunsIs
<1>3. Tombstoned(t.snap, t.id) \in Hist /\ Tombstoned(ViewOf(t.conv), t.id) \in Hist
  BY <1>2, TombstonedHist
<1>4. hist' \in [Convs -> Hist] /\ view' \in [Convs -> Hist \cup {None}] /\ cached' \subseteq Posts
  <2>1. view' = Show(t.conv, Tombstoned(ViewOf(t.conv), t.id))
    BY DEF TombstoneMessage
  <2>2. view' \in [Convs -> Hist \cup {None}]
    BY <1>2, <1>3, <2>1, ShowIs DEF TInv
  <2>3. hist' = hist \/ hist' = [hist EXCEPT ![t.conv] = Tombstoned(t.snap, t.id)]
    BY DEF TombstoneMessage, Put
  <2>4. cached' \subseteq cached
    BY DEF TombstoneMessage
  <2> QED
    BY <1>2, <1>3, <2>2, <2>3, <2>4 DEF TInv, StoresOK
<1>5. StoresOK'
  BY <1>4 DEF TInv, TombstoneMessage, StoresOK, gate, world
<1>6. TasksOK'
  BY <1>1, TasksBecome, IdleTask DEF TInv, TombstoneMessage
<1> QED
  BY <1>5, <1>6, HandlerTypes DEF TombstoneMessage, world

LEMMA ExpireTypes == ASSUME TInv, NEW i \in Posts, Expire(i) PROVE TInv'
<1>1. StoresOK'
  BY DEF TInv, Expire, StoresOK, stores, gate, screen, ghosts
<1> QED
  BY <1>1, TasksStay, HandlerTypes DEF TInv, Expire, stores

\* The task that the sweep begins.
LEMMA SweepIs ==
    ASSUME TInv, NEW c \in Convs, Sweep(c)
    PROVE  LET t == [BeginRead("put", None, c) EXCEPT !.todo = Kept(hist[c])] IN
              /\ "sweep" \in Kinds /\ Becomes("sweep", t) /\ t \in Tasks
              /\ t.at = "put" /\ t.id = None /\ t.conv = c /\ t.snap = hist[c] /\ t.todo = Without(hist[c], expired)
              /\ hist[c] \in Hist /\ t.todo \in Hist
<1> DEFINE b == BeginRead("put", None, c)
           t == [b EXCEPT !.todo = Kept(hist[c])]
<1>1. hist[c] \in Hist /\ Kept(hist[c]) \in Hist
  BY ViewOfIs, WithoutHist DEF TInv, Kept
<1>2. b \in Tasks /\ b.at = "put" /\ b.id = None /\ b.conv = c /\ b.snap = hist[c]
  BY <1>1, BeginReadIs DEF Stages
<1>3. "sweep" \in Kinds /\ Becomes("sweep", t)
  BY DEF Sweep, Kinds
<1>4. t \in Tasks /\ t.at = "put" /\ t.id = None /\ t.conv = c /\ t.snap = hist[c] /\ t.todo = Kept(hist[c])
  <2> HIDE DEF b
  <2> QED
    BY <1>1, <1>2 DEF Tasks
<1> HIDE DEF b
<1> QED
  BY <1>1, <1>3, <1>4 DEF Kept, b

LEMMA SweepTypes == ASSUME TInv, NEW c \in Convs, Sweep(c) PROVE TInv'
<1> DEFINE t == [BeginRead("put", None, c) EXCEPT !.todo = Kept(hist[c])]
<1>1. /\ "sweep" \in Kinds /\ Becomes("sweep", t) /\ t \in Tasks /\ t.at = "put" /\ t.conv = c /\ t.todo \in Hist
  BY SweepIs
<1> HIDE DEF t
<1>2. TaskOK("sweep", t)
  BY <1>1 DEF TaskOK, TaskStages
<1>3. StoresOK'
  BY DEF TInv, Sweep, StoresOK, stores, gate, screen, world, ghosts
<1> QED
  BY <1>1, <1>2, <1>3, TasksBecome, HandlerTypes DEF TInv, Sweep, stores, world

LEMMA SweepMessagesTypes == ASSUME TInv, SweepMessages PROVE TInv'
<1> DEFINE t == task["sweep"]
           gone == Ids(t.snap) \ Ids(t.todo)
           n == [t EXCEPT !.at = "reconcile"]
<1>1. "sweep" \in Kinds /\ t # Idle
  BY AtIs DEF SweepMessages, Kinds
<1>2. t \in Tasks /\ t.conv \in Convs /\ t.snap \in Hist /\ ViewOf(t.conv) \in Hist /\ t.todo \in Hist
  BY <1>1, RunsIs DEF TaskOK
<1>3. Without(ViewOf(t.conv), gone) \in Hist
  BY <1>2, WithoutHist
<1>4. hist' \in [Convs -> Hist] /\ view' \in [Convs -> Hist \cup {None}] /\ cached' \subseteq Posts
  <2>1. view' = Show(t.conv, Without(ViewOf(t.conv), gone)) /\ hist' = [hist EXCEPT ![t.conv] = t.todo]
        /\ cached' \subseteq cached
    BY DEF SweepMessages, Put
  <2>2. view' \in [Convs -> Hist \cup {None}]
    BY <1>2, <1>3, <2>1, ShowIs DEF TInv
  <2> QED
    BY <1>2, <2>1, <2>2 DEF TInv, StoresOK
<1>5. StoresOK'
  BY <1>4 DEF TInv, SweepMessages, StoresOK, gate, world
<1>6. Becomes("sweep", n) /\ n \in Tasks /\ n.at = "reconcile" /\ n.conv = t.conv /\ n.todo = t.todo
  BY <1>2 DEF SweepMessages, Tasks, Stages
<1>7. TasksOK'
  <2>1. TaskOK("sweep", n)
    <3> HIDE DEF n
    <3> QED
      BY <1>2, <1>6 DEF TaskOK, TaskStages
  <2> HIDE DEF n
  <2> QED
    BY <1>1, <1>6, <2>1, TasksBecome DEF TInv
<1> QED
  BY <1>5, <1>7, HandlerTypes DEF SweepMessages, world

LEMMA DeriveTypes == ASSUME TInv, Derive PROVE TInv'
<1>1. StoresOK'
  BY DEF TInv, Derive, StoresOK, gate, world
<1> QED
  BY <1>1, TasksStay, HandlerTypes DEF TInv, Derive, world

LEMMA LoadSummariesTypes == ASSUME TInv, LoadSummaries PROVE TInv'
<1>1. StoresOK'
  BY DEF TInv, LoadSummaries, StoresOK, stores, gate, world
<1> QED
  BY <1>1, TasksStay, HandlerTypes DEF TInv, LoadSummaries, stores, world

LEMMA SweepSummaryTypes == ASSUME TInv, SweepSummary PROVE TInv'
<1>1. "sweep" \in Kinds /\ Becomes("sweep", Idle)
  BY DEF SweepSummary, Kinds
<1>2. StoresOK'
  BY DEF TInv, SweepSummary, StoresOK, gate, world, ghosts
<1> QED
  BY <1>1, <1>2, TasksBecome, IdleTask, HandlerTypes DEF TInv, SweepSummary, world

LEMMA SeedTypes == ASSUME TInv, Seed PROVE TInv'
<1>1. StoresOK'
  BY DEF TInv, Seed, StoresOK, stores, screen, world
<1> QED
  BY <1>1, TasksStay, HandlerTypes DEF TInv, Seed, stores, world

LEMMA AcceptTypes == ASSUME TInv, NEW c \in Convs, Accept(c) PROVE TInv'
<1> DEFINE t == Begin("load", None, c)
<1>1. t \in Tasks /\ t.at = "load" /\ t.conv = c /\ "accept" \in Kinds /\ Becomes("accept", t)
  BY BeginIs DEF Stages, Accept, Kinds
<1> HIDE DEF t
<1>2. TaskOK("accept", t)
  BY <1>1 DEF TaskOK, TaskStages
<1>3. StoresOK'
  BY DEF TInv, Accept, StoresOK, stores, screen
<1> QED
  BY <1>1, <1>2, <1>3, TasksBecome, HandlerTypes DEF TInv, Accept, stores

LEMMA AcceptLoadsTypes == ASSUME TInv, AcceptLoads PROVE TInv'
<1> DEFINE c == task["accept"].conv
           t == BeginRead("set", None, c)
<1>1. "accept" \in Kinds /\ task["accept"] # Idle
  BY AtIs DEF AcceptLoads, Kinds
<1>2. c \in Convs /\ hist[c] \in Hist
  BY <1>1, RunsIs
<1>3. t \in Tasks /\ t.at = "set" /\ t.conv = c
  BY <1>2, BeginReadIs DEF Stages
<1>b. Becomes("accept", t)
  BY DEF AcceptLoads
<1>4. TaskOK("accept", t)
  <2> HIDE DEF t
  <2> QED
    BY <1>2, <1>3 DEF TaskOK, TaskStages
<1>5. StoresOK'
  BY DEF TInv, AcceptLoads, StoresOK, stores, gate, screen, world, ghosts
<1> HIDE DEF t
<1> QED
  BY <1>1, <1>3, <1>b, <1>4, <1>5, TasksBecome, HandlerTypes DEF TInv, AcceptLoads, stores, world

LEMMA AcceptShowsTypes == ASSUME TInv, AcceptShows PROVE TInv'
<1>1. "accept" \in Kinds /\ task["accept"] # Idle
  BY AtIs DEF AcceptShows, Kinds
<1>2. task["accept"].conv \in Convs /\ task["accept"].snap \in Hist
  BY <1>1, RunsIs
<1>3. StoresOK'
  BY <1>2 DEF TInv, AcceptShows, StoresOK, stores, gate, world
<1>4. TasksOK'
  BY <1>1, TasksBecome, IdleTask DEF TInv, AcceptShows
<1> QED
  BY <1>3, <1>4, HandlerTypes DEF AcceptShows, stores, world

LEMMA DeclineTypes == ASSUME TInv, NEW c \in Convs, Decline(c) PROVE TInv'
<1> DEFINE t == Begin("load", None, c)
<1>1. t \in Tasks /\ t.at = "load" /\ t.conv = c /\ t.todo = << >> /\ "decline" \in Kinds /\ Becomes("decline", t)
  BY BeginIs DEF Stages, Decline, Kinds
<1> HIDE DEF t
<1>2. TaskOK("decline", t)
  BY <1>1, EmptySeq DEF TaskOK, TaskStages
<1>3. StoresOK'
  BY DEF TInv, Decline, StoresOK, stores, screen
<1> QED
  BY <1>1, <1>2, <1>3, TasksBecome, HandlerTypes DEF TInv, Decline, stores

\* The messages that a decline is to erase.
LEMMA DeclineLoadsIs ==
    ASSUME TInv, DeclineLoads
    PROVE  LET t == task["decline"]
               h == hist[t.conv]
               todo == [n \in 1 .. Len(h) |-> h[n].id]
               u == [t EXCEPT !.at = "read", !.todo = todo]
           IN /\ "decline" \in Kinds /\ Becomes("decline", u) /\ u \in Tasks /\ t # Idle /\ t.conv \in Convs
              /\ u.at = "read" /\ u.conv = t.conv /\ u.todo = todo /\ u.snap = t.snap /\ u.id = t.id
              /\ todo \in Seq(Posts) /\ ToSet(todo) = Ids(h) /\ h \in Hist
<1> DEFINE t == task["decline"]
           h == hist[t.conv]
           todo == [n \in 1 .. Len(h) |-> h[n].id]
           u == [t EXCEPT !.at = "read", !.todo = todo]
<1>1. "decline" \in Kinds /\ Becomes("decline", u) /\ t # Idle
  BY AtIs DEF DeclineLoads, Kinds
<1>2. t \in Tasks /\ t.conv \in Convs /\ h \in Hist
  BY <1>1, RunsIs
<1>3. Len(h) \in Nat /\ \A n \in 1 .. Len(h) : h[n] \in Entries /\ h[n].id \in Posts
  BY <1>2, HistType DEF Entries
<1>4. todo \in Seq(Posts) /\ DOMAIN todo = 1 .. Len(h)
  <2>1. \A n \in 1 .. Len(h) : h[n].id \in Posts
    BY <1>3
  <2> QED
    BY <1>3, <2>1, IsASeq
<1>5. ToSet(todo) = Ids(h)
  BY <1>4 DEF ToSet, Ids
<1>6. u \in Tasks /\ u.at = "read" /\ u.conv = t.conv /\ u.todo = todo /\ u.snap = t.snap /\ u.id = t.id
  <2> HIDE DEF todo, t
  <2> QED
    BY <1>2, <1>4 DEF Tasks, Stages
<1> QED
  BY <1>1, <1>2, <1>4, <1>5, <1>6

LEMMA DeclineLoadsTypes == ASSUME TInv, DeclineLoads PROVE TInv'
<1> DEFINE t == task["decline"]
           h == hist[t.conv]
           todo == [n \in 1 .. Len(h) |-> h[n].id]
           u == [t EXCEPT !.at = "read", !.todo = todo]
<1>1. /\ "decline" \in Kinds /\ Becomes("decline", u) /\ u \in Tasks /\ t.conv \in Convs
      /\ u.at = "read" /\ u.conv = t.conv /\ u.todo \in Seq(Posts) /\ h \in Hist
  BY DeclineLoadsIs
<1> HIDE DEF u
<1>2. TaskOK("decline", u)
  BY <1>1 DEF TaskOK, TaskStages
<1>3. TasksOK'
  BY <1>1, <1>2, TasksBecome DEF TInv
<1>4. StoresOK'
  <2>1. asked' \subseteq Posts
    BY <1>1, HistType DEF DeclineLoads, TInv, StoresOK
  <2> QED
    BY <2>1 DEF TInv, DeclineLoads, StoresOK, stores, gate, screen, world
<1> QED
  BY <1>3, <1>4, HandlerTypes DEF DeclineLoads, stores, world

\* The next message that a decline erases.
LEMMA DeclineReadsIs ==
    ASSUME TInv, DeclineReads
    PROVE  LET t == task["decline"]
               u == [t EXCEPT !.at = "put", !.id = Head(t.todo), !.snap = hist[t.conv], !.todo = Tail(t.todo)]
           IN /\ "decline" \in Kinds /\ Becomes("decline", u) /\ u \in Tasks /\ t # Idle /\ t.conv \in Convs
              /\ u.at = "put" /\ u.conv = t.conv /\ u.snap = hist[t.conv] /\ u.snap \in Hist
              /\ u.id \in Posts /\ u.todo \in Seq(Posts) /\ t.todo \in Seq(Posts)
              /\ ToSet(t.todo) = {u.id} \cup ToSet(u.todo) /\ t.at = "read"
<1> DEFINE t == task["decline"]
           a == [t EXCEPT !.at = "put", !.id = Head(t.todo)]
           b == [a EXCEPT !.snap = hist[t.conv]]
           u == [b EXCEPT !.todo = Tail(t.todo)]
<1>1. "decline" \in Kinds /\ Becomes("decline", u) /\ t # Idle /\ t.todo # << >> /\ t.at = "read"
  BY AtIs DEF DeclineReads, Kinds
<1>2. t \in Tasks /\ t.conv \in Convs /\ hist[t.conv] \in Hist /\ t.todo \in Seq(Posts)
  BY <1>1, RunsIs DEF TaskOK
<1>3. Head(t.todo) \in Posts /\ Tail(t.todo) \in Seq(Posts)
  BY <1>1, <1>2, SeqParts
<1>4. ToSet(t.todo) = {Head(t.todo)} \cup ToSet(Tail(t.todo))
  BY <1>1, <1>2, HeadAndTail
<1>5. u \in Tasks /\ u.at = "put" /\ u.conv = t.conv /\ u.snap = hist[t.conv] /\ u.id = Head(t.todo)
      /\ u.todo = Tail(t.todo)
  <2>1. a \in Tasks /\ a.at = "put" /\ a.conv = t.conv /\ a.id = Head(t.todo)
    <3> HIDE DEF t
    <3> QED
      BY <1>2, <1>3 DEF Tasks, Stages
  <2>2. b \in Tasks /\ b.at = "put" /\ b.conv = t.conv /\ b.id = Head(t.todo) /\ b.snap = hist[t.conv]
    <3> HIDE DEF t, a
    <3> QED
      BY <1>2, <2>1 DEF Tasks
  <2> HIDE DEF t, b
  <2> QED
    BY <1>2, <1>3, <2>2 DEF Tasks
<1> QED
  BY <1>1, <1>2, <1>3, <1>4, <1>5

LEMMA DeclineReadsTypes == ASSUME TInv, DeclineReads PROVE TInv'
<1> DEFINE t == task["decline"]
           u == [t EXCEPT !.at = "put", !.id = Head(t.todo), !.snap = hist[t.conv], !.todo = Tail(t.todo)]
<1>1. /\ "decline" \in Kinds /\ Becomes("decline", u) /\ u \in Tasks /\ t.conv \in Convs
      /\ u.at = "put" /\ u.conv = t.conv /\ u.todo \in Seq(Posts) /\ u.id \in Posts
  BY DeclineReadsIs
<1> HIDE DEF u
<1>2. TaskOK("decline", u)
  BY <1>1 DEF TaskOK, TaskStages
<1>3. TasksOK'
  BY <1>1, <1>2, TasksBecome DEF TInv
<1>4. StoresOK'
  BY DEF TInv, DeclineReads, StoresOK, stores, gate, screen, world, ghosts
<1> QED
  BY <1>3, <1>4, HandlerTypes DEF DeclineReads, stores, world

\* What a decline has left to do when it has erased one.
LEMMA DeclineErasesIs ==
    ASSUME TInv, DeclineErases
    PROVE  LET t == task["decline"]
               u == [t EXCEPT !.at = "read", !.snap = << >>]
           IN /\ "decline" \in Kinds /\ Becomes("decline", u) /\ u \in Tasks /\ t # Idle /\ t.conv \in Convs
              /\ u.at = "read" /\ u.conv = t.conv /\ u.snap = << >> /\ u.id = t.id /\ u.todo = t.todo
              /\ t.todo \in Seq(Posts) /\ t.at = "put" /\ t.id \in Posts /\ t.snap \in Hist
<1> DEFINE t == task["decline"]
           u == [t EXCEPT !.at = "read", !.snap = << >>]
<1>1. "decline" \in Kinds /\ Becomes("decline", u) /\ t # Idle /\ t.at = "put"
  BY AtIs DEF DeclineErases, Kinds
<1>2. t \in Tasks /\ t.conv \in Convs /\ t.todo \in Seq(Posts) /\ t.id \in Posts /\ t.snap \in Hist
  BY <1>1, RunsIs DEF TaskOK
<1>3. u \in Tasks /\ u.at = "read" /\ u.conv = t.conv /\ u.snap = << >> /\ u.id = t.id /\ u.todo = t.todo
  <2> HIDE DEF t
  <2> QED
    BY <1>2, EmptyHist DEF Tasks, Stages
<1> QED
  BY <1>1, <1>2, <1>3

LEMMA DeclineErasesTypes == ASSUME TInv, DeclineErases PROVE TInv'
<1> DEFINE t == task["decline"]
           u == [t EXCEPT !.at = "read", !.snap = << >>]
<1>1. /\ "decline" \in Kinds /\ Becomes("decline", u) /\ u \in Tasks /\ t.conv \in Convs /\ t.snap \in Hist
      /\ u.at = "read" /\ u.conv = t.conv /\ u.todo \in Seq(Posts)
  BY DeclineErasesIs
<1> HIDE DEF u
<1>2. TaskOK("decline", u)
  BY <1>1 DEF TaskOK, TaskStages
<1>3. TasksOK'
  BY <1>1, <1>2, TasksBecome DEF TInv
<1>4. StoresOK'
  <2>1. Without(t.snap, {t.id}) \in Hist
    BY <1>1, WithoutHist
  <2>2. hist' = [hist EXCEPT ![t.conv] = Without(t.snap, {t.id})] /\ cached' \subseteq cached
    BY DEF DeclineErases, Put
  <2> QED
    BY <1>1, <2>1, <2>2 DEF TInv, DeclineErases, StoresOK, gate, screen, world
<1> QED
  BY <1>3, <1>4, HandlerTypes DEF DeclineErases, world

LEMMA DeclineEndsTypes == ASSUME TInv, DeclineEnds PROVE TInv'
<1>1. "decline" \in Kinds /\ Becomes("decline", Idle)
  BY DEF DeclineEnds, Kinds
<1>2. StoresOK'
  BY DEF TInv, DeclineEnds, StoresOK, stores, gate, world
<1> QED
  BY <1>1, <1>2, TasksBecome, IdleTask, HandlerTypes DEF TInv, DeclineEnds, stores, world

LEMMA BlockTypes == ASSUME TInv, NEW p \in Peers, Block(p) PROVE TInv'
<1>1. StoresOK'
  BY DEF TInv, Block, StoresOK, stores, ghosts
<1> QED
  BY <1>1, TasksStay, HandlerTypes DEF TInv, Block, stores

LEMMA UnblockTypes == ASSUME TInv, NEW p \in Peers, Unblock(p) PROVE TInv'
<1>1. StoresOK'
  BY DEF TInv, Unblock, StoresOK, stores, screen, ghosts
<1> QED
  BY <1>1, TasksStay, HandlerTypes DEF TInv, Unblock, stores

LEMMA RemoveContactTypes == ASSUME TInv, NEW p \in Peers, RemoveContact(p) PROVE TInv'
<1> DEFINE t == BeginRead("wipe", None, p)
<1>1. p \in Convs /\ "remove" \in Kinds /\ Becomes("remove", t)
  BY InfoIs DEF RemoveContact, Kinds
<1>2. t \in Tasks /\ t.at = "wipe" /\ t.conv = p
  BY <1>1, BeginReadIs, ViewOfIs DEF TInv, Stages
<1> HIDE DEF t
<1>3. TaskOK("remove", t)
  BY <1>1, <1>2 DEF TaskOK, TaskStages
<1>4. StoresOK'
  BY DEF TInv, RemoveContact, StoresOK, gate, screen, ghosts
<1>5. contacts \subseteq contacts' \cup Peers
  BY DEF RemoveContact
<1> QED
  BY <1>1, <1>3, <1>4, <1>5, TasksBecome, HandlerTypes DEF TInv, RemoveContact

LEMMA RemoveHistoryIs ==
    ASSUME TInv, RemoveHistory
    PROVE  LET t == task["remove"]
               u == [t EXCEPT !.at = "forget"]
           IN /\ "remove" \in Kinds /\ Becomes("remove", u) /\ u \in Tasks /\ t # Idle /\ t.conv \in Convs
              /\ u.at = "forget" /\ u.conv = t.conv /\ u.snap = t.snap /\ hist[t.conv] \in Hist
<1> DEFINE t == task["remove"]
           u == [t EXCEPT !.at = "forget"]
<1>1. "remove" \in Kinds /\ Becomes("remove", u) /\ t # Idle
  BY AtIs DEF RemoveHistory, Kinds
<1>2. t \in Tasks /\ t.conv \in Convs /\ hist[t.conv] \in Hist
  BY <1>1, RunsIs
<1>3. u \in Tasks /\ u.at = "forget" /\ u.conv = t.conv /\ u.snap = t.snap
  <2> HIDE DEF t
  <2> QED
    BY <1>2 DEF Tasks, Stages
<1> QED
  BY <1>1, <1>2, <1>3

LEMMA RemoveHistoryTypes == ASSUME TInv, RemoveHistory PROVE TInv'
<1> DEFINE t == task["remove"]
           u == [t EXCEPT !.at = "forget"]
<1>1. /\ "remove" \in Kinds /\ Becomes("remove", u) /\ u \in Tasks /\ t.conv \in Convs /\ hist[t.conv] \in Hist
      /\ u.at = "forget" /\ u.conv = t.conv
  BY RemoveHistoryIs
<1> HIDE DEF u
<1>2. TaskOK("remove", u)
  BY <1>1 DEF TaskOK, TaskStages
<1>3. TasksOK'
  BY <1>1, <1>2, TasksBecome DEF TInv
<1>4. StoresOK'
  <2>1. Ids(hist[t.conv]) \subseteq Posts /\ << >> \in Hist
    BY <1>1, HistType, EmptyHist
  <2> QED
    BY <2>1 DEF TInv, RemoveHistory, StoresOK, gate, screen, world
<1> QED
  BY <1>3, <1>4, HandlerTypes DEF RemoveHistory, world

LEMMA RemoveFromViewTypes == ASSUME TInv, RemoveFromView PROVE TInv'
<1>1. "remove" \in Kinds /\ Becomes("remove", Idle)
  BY DEF RemoveFromView, Kinds
<1>2. StoresOK'
  BY DEF TInv, RemoveFromView, StoresOK, stores, gate, world
<1> QED
  BY <1>1, <1>2, TasksBecome, IdleTask, HandlerTypes DEF TInv, RemoveFromView, stores, world

LEMMA FetchTypes == ASSUME TInv, NEW i \in Posts, Fetch(i) PROVE TInv'
<1> DEFINE t == Begin("store", i, active)
<1>1. active \in Convs /\ "fetch" \in Kinds /\ Becomes("fetch", t)
  BY VisibleIs DEF Fetch, Attached, Kinds
<1>2. t \in Tasks /\ t.at = "store" /\ t.conv = active /\ t.id = i
  BY <1>1, BeginIs DEF Stages
<1> HIDE DEF t
<1>3. TaskOK("fetch", t)
  BY <1>1, <1>2 DEF TaskOK, TaskStages
<1>4. StoresOK'
  BY DEF TInv, Fetch, StoresOK, stores, gate, screen, world, ghosts
<1> QED
  BY <1>1, <1>3, <1>4, TasksBecome, HandlerTypes DEF TInv, Fetch, stores, world

LEMMA StoreMediaIs ==
    ASSUME TInv, StoreMedia
    PROVE  LET i == task["fetch"].id
               t == Begin("ack", i, task["fetch"].conv)
           IN /\ "fetch" \in Kinds /\ i \in Posts /\ task["fetch"].conv \in Convs
              /\ t \in Tasks /\ t.at = "ack" /\ t.id = i /\ t.conv = task["fetch"].conv /\ t.snap = << >>
              /\ t.todo = << >>
              /\ \/ cached' = cached \cup {i} /\ Becomes("fetch", t)
                 \/ cached' = cached /\ Becomes("fetch", Idle)
<1> DEFINE i == task["fetch"].id
           t == Begin("ack", i, task["fetch"].conv)
<1>1. "fetch" \in Kinds /\ task["fetch"] # Idle
  BY AtIs DEF StoreMedia, Kinds
<1>2. i \in Posts /\ task["fetch"].conv \in Convs
  BY <1>1, RunsIs DEF TaskOK
<1>3. t \in Tasks /\ t.at = "ack" /\ t.id = i /\ t.conv = task["fetch"].conv /\ t.snap = << >> /\ t.todo = << >>
  BY <1>2, BeginIs DEF Stages
<1>4. \/ cached' = cached \cup {i} /\ Becomes("fetch", t)
      \/ cached' = cached /\ Becomes("fetch", Idle)
  BY DEF StoreMedia
<1> HIDE DEF t
<1> QED
  BY <1>1, <1>2, <1>3, <1>4 DEF t

LEMMA StoreMediaTypes == ASSUME TInv, StoreMedia PROVE TInv'
<1> DEFINE i == task["fetch"].id
           t == Begin("ack", i, task["fetch"].conv)
<1>1. /\ "fetch" \in Kinds /\ i \in Posts /\ task["fetch"].conv \in Convs
      /\ t \in Tasks /\ t.at = "ack" /\ t.id = i /\ t.conv = task["fetch"].conv
      /\ \/ cached' = cached \cup {i} /\ Becomes("fetch", t)
         \/ cached' = cached /\ Becomes("fetch", Idle)
  BY StoreMediaIs
<1> HIDE DEF t
<1>2. TaskOK("fetch", t)
  BY <1>1 DEF TaskOK, TaskStages
<1>3. TasksOK'
  BY <1>1, <1>2, TasksBecome, IdleTask DEF TInv
<1>4. StoresOK'
  BY <1>1 DEF TInv, StoreMedia, StoresOK, gate, screen, world, ghosts
<1> QED
  BY <1>3, <1>4, HandlerTypes DEF StoreMedia, world

LEMMA AckMediaTypes == ASSUME TInv, NEW reached \in BOOLEAN, AckMedia(reached) PROVE TInv'
<1>1. "fetch" \in Kinds /\ Becomes("fetch", Idle)
  BY DEF AckMedia, Kinds
<1>2. StoresOK'
  BY DEF TInv, AckMedia, StoresOK, stores, gate, screen, ghosts
<1> QED
  BY <1>1, <1>2, TasksBecome, IdleTask, HandlerTypes DEF TInv, AckMedia, stores

LEMMA SearchTypes == ASSUME TInv, Search PROVE TInv'
<1>1. StoresOK'
  BY DEF TInv, Search, StoresOK, stores, gate, ghosts
<1> QED
  BY <1>1, TasksStay, HandlerTypes DEF TInv, Search, stores

LEMMA RestartTypes == ASSUME TInv, Restart PROVE TInv'
<1>1. /\ op' = Idle /\ task' = [k \in Kinds |-> Idle] /\ UNCHANGED <<inbox, outbox>>
      /\ handled' = handled \/ (op.at = "append" /\ handled' = handled \cup {op.id})
  BY DEF Restart
<1>2. op.at = "append" => op.id \in Posts /\ Info[op.id].from \in Peers
  BY DEF TInv, OpOK
<1>3. StoresOK'
  BY <1>1, <1>2 DEF TInv, Restart, StoresOK, gate
<1>4. MailOK'
  BY <1>1, <1>2, MailBecomes DEF TInv
<1>5. TasksOK'
  <2>1. \A k \in Kinds : TaskOK(k, Idle)
    BY IdleTask
  <2>2. DOMAIN task' = Kinds /\ \A k \in Kinds : task'[k] = Idle
    BY <1>1
  <2> QED
    BY <2>1, <2>2 DEF TasksOK, TaskOK, Tasks
<1> QED
  BY <1>1, <1>3, <1>4, <1>5, OpIdle DEF TInv

LEMMA InitTypes == ASSUME Init PROVE TInv
<1>1. /\ mode.mail \in [Peers -> Seq(Posts)] /\ mode.own \in Seq(Posts) /\ mode.known \subseteq Convs
      /\ \A p \in Peers : \A n \in DOMAIN mode.mail[p] : Info[mode.mail[p][n]].from = p
      /\ \A n \in DOMAIN mode.own : Info[mode.own[n]].from = Me
      /\ \A n, k \in DOMAIN mode.own : mode.own[n] = mode.own[k] => n = k
  BY ConversationsAssumption DEF ConversationsAssumption, Init
<1>2. StoresOK
  BY <1>1, EmptyHist DEF Init, StoresOK
<1>3. MailOK
  BY <1>1 DEF Init, MailOK
<1>4. OpOK
  BY IdleIs DEF Init, OpOK, OpStages
<1>5. TasksOK
  BY IdleTask DEF Init, TasksOK
<1> QED
  BY <1>2, <1>3, <1>4, <1>5 DEF TInv

LEMMA StutterTypes == ASSUME TInv, UNCHANGED vars PROVE TInv'
<1>1. StoresOK'
  BY DEF TInv, StoresOK, vars, stores, gate, screen, world, ghosts
<1> QED
  BY <1>1, TasksStay, HandlerTypes DEF TInv, vars, stores, world

LEMMA NextTypes == ASSUME TInv, [Next]_vars PROVE TInv'
<1>1. ASSUME NEW p \in Peers,
             TakeDuplicate(p) \/ TakeMessage(p) \/ TakeDelete(p) \/ TakeReceipt(p) \/ TakeInvite(p)
             \/ Block(p) \/ Unblock(p) \/ RemoveContact(p)
      PROVE  TInv'
  BY <1>1, TakeDuplicateTypes, TakeMessageTypes, TakeDeleteTypes, TakeReceiptTypes, TakeInviteTypes,
     BlockTypes, UnblockTypes, RemoveContactTypes
<1>2. ASSUME NEW c \in Convs, Open(c) \/ Sweep(c) \/ Accept(c) \/ Decline(c) PROVE TInv'
  BY <1>2, OpenTypes, SweepTypes, AcceptTypes, DeclineTypes
<1>3. ASSUME NEW i \in Posts, Erase(i) \/ Retract(i) \/ Expire(i) \/ Fetch(i) PROVE TInv'
  BY <1>3, EraseTypes, RetractTypes, ExpireTypes, FetchTypes
<1>4. ASSUME AppendMessage \/ RenderMessage \/ HoldMessage \/ DropMessage \/ PurgeMessage
             \/ ApplyDelete \/ ApplyReceipt \/ HoldInvite \/ SendMessage \/ AppendLocalMessage
      PROVE  TInv'
  BY <1>4, AppendMessageTypes, RenderMessageTypes, HoldMessageTypes, DropMessageTypes, PurgeMessageTypes,
     ApplyDeleteTypes, ApplyReceiptTypes, HoldInviteTypes, SendMessageTypes, AppendLocalMessageTypes
<1>5. ASSUME LoadConversation \/ EraseMessage \/ TombstoneMessage \/ SweepMessages \/ SweepSummary
             \/ Derive \/ LoadSummaries \/ Seed
      PROVE  TInv'
  BY <1>5, LoadConversationTypes, EraseMessageTypes, TombstoneMessageTypes, SweepMessagesTypes,
     SweepSummaryTypes, DeriveTypes, LoadSummariesTypes, SeedTypes
<1>6. ASSUME AcceptLoads \/ AcceptShows \/ DeclineLoads \/ DeclineReads \/ DeclineErases \/ DeclineEnds
             \/ RemoveHistory \/ RemoveFromView
      PROVE  TInv'
  BY <1>6, AcceptLoadsTypes, AcceptShowsTypes, DeclineLoadsTypes, DeclineReadsTypes, DeclineErasesTypes,
     DeclineEndsTypes, RemoveHistoryTypes, RemoveFromViewTypes
<1>7. ASSUME StoreMedia \/ (\E reached \in BOOLEAN : AckMedia(reached)) \/ Search \/ Restart PROVE TInv'
  BY <1>7, StoreMediaTypes, AckMediaTypes, SearchTypes, RestartTypes
<1> QED
  BY <1>1, <1>2, <1>3, <1>4, <1>5, <1>6, <1>7, StutterTypes DEF Next

(* Types of what a device keeps and shows, and of the tasks under way: of  *)
(* the histories that Chat.tsx and the keystore rewrite.                   *)
THEOREM ConversationTypesHold == Spec => []ConversationsTypeOK
<1>1. Init => TInv
  BY InitTypes
<1>2. TInv /\ [Next]_vars => TInv'
  BY NextTypes
<1>3. TInv => ConversationsTypeOK
  <2>1. Hist = Seq([id : Posts, deleted : BOOLEAN, delivered : BOOLEAN])
    BY DEF Hist, Entries
  <2> QED
    BY <2>1 DEF TInv, StoresOK, ConversationsTypeOK
<1> QED
  BY <1>1, <1>2, <1>3, PTL DEF Spec

-----------------------------------------------------------------------------
(* What is kept: every step keeps KeepInv.                                 *)

\* What became of a task.
Moves(k) == task'[k] = task[k] \/ Justified(k, task'[k], asked', cached', expired')

\* Nothing leaves a history that was not spoilt except what was asked to go or expired.
HistKeeps == \A c \in Convs : c \in Spoilt' \/ Ids(hist[c]) \subseteq Ids(hist'[c]) \cup asked' \cup expired'

Grow == asked \subseteq asked' /\ expired \subseteq expired' /\ crossed \subseteq crossed' /\ torn \subseteq torn'

LEMMA KeepStep ==
    ASSUME TInv, KeepInv, Grow, HistKeeps,
           cached \subseteq cached' \cup asked' \cup expired',
           r2 \subseteq r2' \cup cached \cup asked \cup expired,
           \A i \in handled' : Info[i].kind \in {"text", "media"} /\ i \notin handled =>
               Info[i].conv \in Spoilt' \/ i \in Ids(hist'[Info[i].conv]) \cup asked' \cup expired',
           \A k \in Kinds : Moves(k),
           op'.at = "purge" => op'.id \in asked'
    PROVE  KeepInv'
<1>1. JustInv'
  <2>1. ASSUME NEW k \in Kinds PROVE Justified(k, task'[k], asked', cached', expired')
    <3>1. CASE task'[k] = task[k]
      <4>1. Justified(k, task[k], asked, cached, expired)
        BY DEF KeepInv, JustInv
      <4> QED
        BY <3>1, <4>1 DEF Justified, Grow
    <3> QED
      BY <3>1 DEF Moves
  <2> QED
    BY <2>1 DEF JustInv
<1>2. FetchedIsKept'
  <2>1. FetchedIsKept
    BY DEF KeepInv
  <2> QED
    BY <2>1 DEF FetchedIsKept, Grow
<1>3. KeptInv'
  <2> SUFFICES ASSUME NEW i \in handled', Info[i].kind \in {"text", "media"}, Info[i].conv \notin Spoilt'
               PROVE  i \in Ids(hist'[Info[i].conv]) \cup asked' \cup expired'
    BY DEF KeptInv
  <2>1. CASE i \in handled
    <3>1. i \in Ids(hist[Info[i].conv]) \cup asked \cup expired
      BY <2>1 DEF KeepInv, KeptInv, Spoilt, Grow
    <3>2. Info[i].conv \in Convs
      BY <2>1, InfoIs DEF TInv, StoresOK
    <3> QED
      BY <3>1, <3>2 DEF HistKeeps, Grow
  <2> QED
    BY <2>1
<1> QED
  BY <1>1, <1>2, <1>3 DEF KeepInv

LEMMA HistSame == ASSUME UNCHANGED hist PROVE HistKeeps
  BY DEF HistKeeps

LEMMA PutKeeps ==
    ASSUME TInv, NEW c \in Convs, NEW snap, NEW h, Put(c, snap, h), UNCHANGED torn,
           Ids(snap) \subseteq Ids(h) \cup asked' \cup expired'
    PROVE  HistKeeps /\ crossed \subseteq crossed' /\ hist'[c] = h
<1>1. hist'[c] = h /\ \A d \in Convs : d # c => hist'[d] = hist[d]
  BY DEF Put, TInv, StoresOK
<1>2. crossed' = IF hist[c] = snap THEN crossed ELSE crossed \cup {c}
  BY DEF Put
<1>3. c \in Spoilt' \/ hist[c] = snap
  BY <1>2 DEF Spoilt
<1> QED
  BY <1>1, <1>2, <1>3 DEF HistKeeps

\* A step that touches neither histories nor attachments.
LEMMA KeepFrame ==
    ASSUME TInv, KeepInv, Grow, UNCHANGED <<hist, cached, handled, r2>>,
           \A k \in Kinds : Moves(k), op'.at = "purge" => op'.id \in asked'
    PROVE  KeepInv'
  BY KeepStep, HistSame

LEMMA TasksSame == ASSUME UNCHANGED task PROVE \A k \in Kinds : Moves(k)
  BY DEF Moves

LEMMA TaskMoves ==
    ASSUME TInv, NEW k \in Kinds, NEW t, Becomes(k, t), Justified(k, t, asked', cached', expired')
    PROVE  \A j \in Kinds : Moves(j)
  BY DEF TInv, TasksOK, Becomes, Moves

LEMMA IdleJustified == ASSUME NEW k \in Kinds PROVE Justified(k, Idle, asked', cached', expired')
  BY IdleIs DEF Justified

LEMMA IdleMoves ==
    ASSUME TInv, NEW k \in Kinds, Becomes(k, Idle)
    PROVE  \A j \in Kinds : Moves(j)
  BY TaskMoves, IdleJustified

LEMMA OpNotPurge == ASSUME TInv, op' = Idle \/ op' = op, asked \subseteq asked', KeepInv PROVE op'.at = "purge" => op'.id \in asked'
  BY IdleIs DEF KeepInv, JustInv

LEMMA TakesKeep ==
    ASSUME TInv, KeepInv, NEW p \in Peers,
           TakeDuplicate(p) \/ TakeMessage(p) \/ TakeDelete(p) \/ TakeReceipt(p)
    PROVE  KeepInv'
<1>1. Grow /\ UNCHANGED <<hist, cached, handled, r2, task, asked>>
  BY DEF TakeDuplicate, TakeMessage, TakeDelete, TakeReceipt, Grow, stores, world, ghosts
<1>2. op'.at = "purge" => op'.id \in asked'
  <2>1. CASE TakeDuplicate(p)
    BY <1>1, <2>1, OpNotPurge DEF TakeDuplicate
  <2>2. CASE TakeMessage(p)
    <3>1. op' = BeginRead("append", Head(inbox[p]), Info[Head(inbox[p])].conv)
      BY <2>2 DEF TakeMessage, Take
    <3>2. Head(inbox[p]) \in Posts /\ Info[Head(inbox[p])].conv \in Convs
      BY <2>2, InfoIs, SeqParts DEF TInv, MailOK, TakeMessage
    <3> QED
      BY <3>1, <3>2, BeginReadIs, ViewOfIs DEF TInv, Stages
  <2>3. CASE TakeDelete(p)
    <3>1. op' = BeginRead("tombstone", Head(inbox[p]), p) /\ inbox[p] # << >>
      BY <2>3 DEF TakeDelete, Take
    <3>2. Head(inbox[p]) \in Posts /\ p \in Convs
      BY <3>1, InfoIs, SeqParts DEF TInv, MailOK
    <3> QED
      BY <3>1, <3>2, BeginReadIs, ViewOfIs DEF TInv, Stages
  <2>4. CASE TakeReceipt(p)
    <3> DEFINE i == Info[Head(inbox[p])].target
    <3>1. op' = IF i \in Ids(hist[p]) THEN BeginRead("status", i, p) ELSE Idle
      BY <2>4 DEF TakeReceipt, Take
    <3>2. p \in Convs /\ hist[p] \in Hist /\ (i \in Ids(hist[p]) => i \in Posts)
      BY InfoIs, ViewOfIs, HistType DEF TInv
    <3> HIDE DEF i
    <3>3. CASE i \in Ids(hist[p])
      BY <3>1, <3>2, <3>3, BeginReadIs DEF Stages
    <3> QED
      BY <3>1, <3>3, IdleIs
  <2> QED
    BY <2>1, <2>2, <2>3, <2>4
<1> QED
  BY <1>1, <1>2, KeepFrame, TasksSame

LEMMA TakeInviteKeeps == ASSUME TInv, KeepInv, NEW p \in Peers, TakeInvite(p) PROVE KeepInv'
<1> DEFINE i == Head(inbox[p])
<1>1. Grow /\ UNCHANGED <<hist, cached, r2, task, asked, expired>> /\ handled' = handled \cup {i}
  BY DEF TakeInvite, Grow, world, ghosts
<1>2. /\ i \in Posts /\ Info[i].conv \in Convs /\ Info[i].kind = "invite"
      /\ op' = Begin("invited", i, Info[i].conv)
  BY InfoIs, SeqParts DEF TInv, MailOK, TakeInvite, Take
<1> HIDE DEF i
<1>3. op'.at = "purge" => op'.id \in asked'
  BY <1>2, BeginIs DEF Stages
<1> QED
  BY <1>1, <1>2, <1>3, KeepStep, HistSame, TasksSame

LEMMA AppendMessageKeeps == ASSUME TInv, KeepInv, AppendMessage PROVE KeepInv'
<1> DEFINE h == Append(op.snap, Entry(op.id))
<1>1. op.id \in Posts /\ op.conv \in Convs /\ op.snap \in Hist /\ Info[op.id].conv = op.conv /\ op \in Tasks
  BY DEF TInv, OpOK, AppendMessage, Tasks
<1>2. Ids(h) = Ids(op.snap) \cup {op.id}
  BY <1>1, AppendedHist
<1>3. Put(op.conv, op.snap, h) /\ UNCHANGED <<cached, r2, task, asked, expired, torn>> /\ handled' = handled \cup {op.id}
  BY DEF AppendMessage, world
<1> HIDE DEF h
<1>4. HistKeeps /\ crossed \subseteq crossed' /\ hist'[op.conv] = h
  BY <1>1, <1>2, <1>3, PutKeeps
<1>5. op'.at # "purge"
  BY <1>1 DEF AppendMessage, Tasks
<1> QED
  BY <1>1, <1>2, <1>3, <1>4, <1>5, KeepStep, TasksSame DEF Grow

LEMMA GatesKeep == ASSUME TInv, KeepInv, RenderMessage \/ HoldMessage \/ HoldInvite PROVE KeepInv'
<1>1. Grow /\ UNCHANGED <<hist, cached, handled, r2, task, asked>> /\ op' = Idle
  BY DEF RenderMessage, HoldMessage, HoldInvite, Finish, Grow, stores, ghosts
<1> QED
  BY <1>1, KeepFrame, TasksSame, OpNotPurge

LEMMA DropMessageKeeps == ASSUME TInv, KeepInv, DropMessage PROVE KeepInv'
<1>1. Grow /\ UNCHANGED <<hist, cached, handled, r2, task>> /\ asked' = asked \cup {op.id}
  BY DEF DropMessage, Grow, stores, world
<1>2. op.id \in Posts /\ op.conv \in Convs /\ op' = BeginRead("purge", op.id, op.conv)
  BY DEF TInv, OpOK, DropMessage
<1>3. op'.id = op.id
  BY <1>2, BeginReadIs, ViewOfIs DEF TInv, Stages
<1> QED
  BY <1>1, <1>3, KeepFrame, TasksSame

LEMMA PurgeMessageKeeps == ASSUME TInv, KeepInv, PurgeMessage PROVE KeepInv'
<1> DEFINE h == Without(op.snap, {op.id})
<1>1. op.id \in asked /\ op.conv \in Convs /\ op.snap \in Hist
  BY DEF TInv, OpOK, PurgeMessage, Finish, Tasks, KeepInv, JustInv
<1>2. Ids(h) = Ids(op.snap) \ {op.id}
  BY <1>1, WithoutHist
<1>3. Put(op.conv, op.snap, h) /\ UNCHANGED <<r2, task, asked, expired, torn, handled>>
      /\ cached' = cached \ {op.id} /\ op' = Idle
  BY DEF PurgeMessage, Finish
<1> HIDE DEF h
<1>4. HistKeeps /\ crossed \subseteq crossed'
  BY <1>1, <1>2, <1>3, PutKeeps
<1> QED
  BY <1>1, <1>3, <1>4, KeepStep, TasksSame, OpNotPurge DEF Grow

LEMMA ApplyDeleteKeeps == ASSUME TInv, KeepInv, ApplyDelete PROVE KeepInv'
<1> DEFINE i == Info[op.id].target
           c == op.conv
           h == Tombstoned(op.snap, i)
<1>1. /\ op.id \in Posts /\ c \in Convs /\ op.snap \in Hist
      /\ \/ Put(c, op.snap, h) /\ cached' = cached \ {i} /\ asked' = asked \cup {i}
         \/ UNCHANGED <<hist, cached, crossed, asked>>
  BY ApplyDeleteIs
<1>2. Ids(h) = Ids(op.snap) /\ Info[op.id].kind = "delete"
  BY <1>1, TombstonedHist DEF TInv, OpOK, ApplyDelete, Finish
<1>3. UNCHANGED <<r2, task, expired, torn>> /\ handled' = handled \cup {op.id} /\ op' = Idle
  BY DEF ApplyDelete, Finish
<1> HIDE DEF h, i
<1>4. HistKeeps /\ crossed \subseteq crossed'
  BY <1>1, <1>2, <1>3, PutKeeps, HistSame
<1> QED
  BY <1>1, <1>2, <1>3, <1>4, KeepStep, TasksSame, OpNotPurge DEF Grow

LEMMA ApplyReceiptKeeps == ASSUME TInv, KeepInv, ApplyReceipt PROVE KeepInv'
<1> DEFINE h == Delivered(op.snap, op.id)
<1>1. op.conv \in Convs /\ op.snap \in Hist
  BY DEF TInv, OpOK, ApplyReceipt, Tasks
<1>2. Ids(h) = Ids(op.snap)
  BY <1>1, DeliveredHist
<1>3. /\ Put(op.conv, op.snap, h) \/ UNCHANGED <<hist, crossed>>
      /\ UNCHANGED <<cached, r2, task, asked, expired, torn, handled>> /\ op' = Idle
  BY DEF ApplyReceipt, world
<1> HIDE DEF h
<1>4. HistKeeps /\ crossed \subseteq crossed'
  BY <1>1, <1>2, <1>3, PutKeeps, HistSame
<1> QED
  BY <1>1, <1>2, <1>3, <1>4, KeepStep, TasksSame, OpNotPurge DEF Grow

LEMMA SendMessageKeeps == ASSUME TInv, KeepInv, SendMessage PROVE KeepInv'
<1>1. /\ Grow /\ UNCHANGED <<hist, handled, r2, task, asked, expired>> /\ cached \subseteq cached'
      /\ op' = BeginRead("local", Head(outbox), active) /\ outbox # << >> /\ active = Info[Head(outbox)].conv
  BY DEF SendMessage, Grow, ghosts
<1>2. Head(outbox) \in Posts /\ active \in Convs
  BY <1>1, InfoIs, SeqParts DEF TInv, MailOK
<1>3. op'.at # "purge"
  BY <1>1, <1>2, BeginReadIs, ViewOfIs DEF TInv, Stages
<1> QED
  BY <1>1, <1>3, KeepStep, HistSame, TasksSame

LEMMA AppendLocalMessageKeeps == ASSUME TInv, KeepInv, AppendLocalMessage PROVE KeepInv'
<1> DEFINE h == Append(op.snap, Entry(op.id))
<1>1. op.id \in Posts /\ op.conv \in Convs /\ op.snap \in Hist
  BY DEF TInv, OpOK, AppendLocalMessage, Tasks
<1>2. Ids(h) = Ids(op.snap) \cup {op.id}
  BY <1>1, AppendedHist
<1>3. Put(op.conv, op.snap, h) /\ UNCHANGED <<cached, r2, task, asked, expired, torn, handled>> /\ op' = Idle
  BY DEF AppendLocalMessage, world
<1> HIDE DEF h
<1>4. HistKeeps /\ crossed \subseteq crossed'
  BY <1>1, <1>2, <1>3, PutKeeps
<1> QED
  BY <1>3, <1>4, KeepStep, TasksSame, OpNotPurge DEF Grow

LEMMA OpenKeeps == ASSUME TInv, KeepInv, NEW c \in Convs, Open(c) PROVE KeepInv'
<1> DEFINE t == BeginRead("set", None, c)
<1>1. Grow /\ UNCHANGED <<hist, cached, handled, r2, op, asked>> /\ "open" \in Kinds
      /\ (Becomes("open", t) \/ UNCHANGED task)
  BY DEF Open, Grow, stores, ghosts, Kinds
<1>2. Justified("open", t, asked', cached', expired')
  BY DEF Justified
<1> HIDE DEF t
<1> QED
  BY <1>1, <1>2, KeepFrame, TaskMoves, TasksSame, OpNotPurge

LEMMA LoadsKeep == ASSUME TInv, KeepInv, LoadConversation \/ AcceptShows \/ DeclineEnds \/ SweepSummary PROVE KeepInv'
<1>1. Grow /\ UNCHANGED <<hist, cached, handled, r2, op, asked>>
  BY DEF LoadConversation, AcceptShows, DeclineEnds, SweepSummary, Overtaken, Grow, stores, world, ghosts
<1>2. \E k \in Kinds : Becomes(k, Idle)
  BY DEF LoadConversation, AcceptShows, DeclineEnds, SweepSummary, Kinds
<1> QED
  BY <1>1, <1>2, KeepFrame, IdleMoves, OpNotPurge

LEMMA EraseKeeps == ASSUME TInv, KeepInv, NEW i \in Posts, Erase(i) PROVE KeepInv'
<1> DEFINE t == BeginRead("put", i, active)
<1>1. Grow /\ UNCHANGED <<hist, cached, handled, r2, op>> /\ "erase" \in Kinds /\ Becomes("erase", t)
      /\ asked' = asked \cup {i}
  BY DEF Erase, Grow, stores, Kinds
<1>2. t.id = i
  BY VisibleIs, BeginReadIs, ViewOfIs DEF TInv, Stages, Erase
<1> HIDE DEF t
<1>3. Justified("erase", t, asked', cached', expired')
  BY <1>1, <1>2 DEF Justified
<1> QED
  BY <1>1, <1>3, KeepFrame, TaskMoves, OpNotPurge

LEMMA RetractKeeps == ASSUME TInv, KeepInv, NEW i \in Posts, Retract(i) PROVE KeepInv'
<1> DEFINE t == BeginRead("put", i, active)
<1>1. Grow /\ UNCHANGED <<hist, cached, handled, r2, op>> /\ "retract" \in Kinds /\ Becomes("retract", t)
      /\ asked' = asked \cup {i}
  BY DEF Retract, Grow, stores, Kinds
<1>2. t.id = i
  BY VisibleIs, BeginReadIs, ViewOfIs DEF TInv, Stages, Retract
<1> HIDE DEF t
<1>3. Justified("retract", t, asked', cached', expired')
  BY <1>1, <1>2 DEF Justified
<1> QED
  BY <1>1, <1>3, KeepFrame, TaskMoves, OpNotPurge

LEMMA EraseMessageKeeps == ASSUME TInv, KeepInv, EraseMessage PROVE KeepInv'
<1> DEFINE t == task["erase"]
           h == Without(t.snap, {t.id})
<1>1. "erase" \in Kinds /\ t # Idle /\ t.at = "put"
  BY AtIs DEF EraseMessage, Kinds
<1>2. t.conv \in Convs /\ t.snap \in Hist
  BY <1>1, RunsIs
<1>3. t.id \in asked
  BY <1>1 DEF KeepInv, JustInv, Justified
<1>4. Ids(h) = Ids(t.snap) \ {t.id}
  BY <1>2, WithoutHist
<1>5. /\ (Put(t.conv, t.snap, h) /\ cached' = cached \ {t.id}) \/ UNCHANGED <<hist, crossed, cached>>
      /\ UNCHANGED <<r2, asked, expired, torn, handled, op>> /\ Becomes("erase", Idle)
  BY DEF EraseMessage, world
<1> HIDE DEF h, t
<1>6. HistKeeps /\ crossed \subseteq crossed'
  BY <1>2, <1>3, <1>4, <1>5, PutKeeps, HistSame
<1> QED
  BY <1>1, <1>3, <1>5, <1>6, KeepStep, IdleMoves, OpNotPurge DEF Grow

LEMMA TombstoneMessageKeeps == ASSUME TInv, KeepInv, TombstoneMessage PROVE KeepInv'
<1> DEFINE t == task["retract"]
           h == Tombstoned(t.snap, t.id)
<1>1. "retract" \in Kinds /\ t # Idle /\ t.at = "put"
  BY AtIs DEF TombstoneMessage, Kinds
<1>2. t.conv \in Convs /\ t.snap \in Hist
  BY <1>1, RunsIs
<1>3. t.id \in asked
  BY <1>1 DEF KeepInv, JustInv, Justified
<1>4. Ids(h) = Ids(t.snap)
  BY <1>2, TombstonedHist
<1>5. /\ (Put(t.conv, t.snap, h) /\ cached' = cached \ {t.id}) \/ UNCHANGED <<hist, crossed, cached>>
      /\ UNCHANGED <<r2, asked, expired, torn, handled, op>> /\ Becomes("retract", Idle)
  BY DEF TombstoneMessage, world
<1> HIDE DEF h, t
<1>6. HistKeeps /\ crossed \subseteq crossed'
  BY <1>2, <1>3, <1>4, <1>5, PutKeeps, HistSame
<1> QED
  BY <1>1, <1>3, <1>5, <1>6, KeepStep, IdleMoves, OpNotPurge DEF Grow

LEMMA ExpireKeeps == ASSUME TInv, KeepInv, NEW i \in Posts, Expire(i) PROVE KeepInv'
<1>1. Grow /\ UNCHANGED <<hist, cached, handled, r2, op, asked, task>>
  BY DEF Expire, Grow, stores, ghosts
<1> QED
  BY <1>1, KeepFrame, TasksSame, OpNotPurge

LEMMA SweepKeeps == ASSUME TInv, KeepInv, NEW c \in Convs, Sweep(c) PROVE KeepInv'
<1> DEFINE t == [BeginRead("put", None, c) EXCEPT !.todo = Kept(hist[c])]
<1>1. /\ "sweep" \in Kinds /\ Becomes("sweep", t) /\ t.snap = hist[c] /\ t.todo = Without(hist[c], expired)
      /\ hist[c] \in Hist
  BY SweepIs
<1>2. Grow /\ UNCHANGED <<hist, cached, handled, r2, op, asked, expired>>
  BY DEF Sweep, Grow, stores, world, ghosts
<1> HIDE DEF t
<1>3. Justified("sweep", t, asked', cached', expired')
  BY <1>1, <1>2, WithoutHist DEF Justified
<1> QED
  BY <1>1, <1>2, <1>3, KeepFrame, TaskMoves, OpNotPurge

LEMMA SweepMessagesKeeps == ASSUME TInv, KeepInv, SweepMessages PROVE KeepInv'
<1> DEFINE t == task["sweep"]
           n == [t EXCEPT !.at = "reconcile"]
           gone == Ids(t.snap) \ Ids(t.todo)
<1>1. "sweep" \in Kinds /\ t # Idle /\ t.at = "put"
  BY AtIs DEF SweepMessages, Kinds
<1>2. t.conv \in Convs /\ t.snap \in Hist /\ t \in Tasks
  BY <1>1, RunsIs
<1>3. Ids(t.snap) \subseteq Ids(t.todo) \cup expired
  BY <1>1 DEF KeepInv, JustInv, Justified
<1>4. /\ Put(t.conv, t.snap, t.todo) /\ cached' = cached \ gone /\ Becomes("sweep", n)
      /\ UNCHANGED <<r2, asked, expired, torn, handled, op>>
  BY DEF SweepMessages, world
<1>5. n.at = "reconcile"
  BY <1>2 DEF Tasks
<1> HIDE DEF n, t
<1>6. HistKeeps /\ crossed \subseteq crossed'
  BY <1>2, <1>3, <1>4, PutKeeps
<1>7. Justified("sweep", n, asked', cached', expired')
  BY <1>5 DEF Justified
<1> QED
  BY <1>1, <1>3, <1>4, <1>6, <1>7, KeepStep, TaskMoves, OpNotPurge DEF Grow

LEMMA OthersKeep ==
    ASSUME TInv, KeepInv,
           Derive \/ LoadSummaries \/ Seed \/ Search \/ (\E p \in Peers : Block(p) \/ Unblock(p)) \/ UNCHANGED vars
    PROVE  KeepInv'
<1>1. Grow /\ UNCHANGED <<hist, cached, handled, r2, op, asked, task>>
  BY DEF Derive, LoadSummaries, Seed, Search, Block, Unblock, Grow, vars, stores, world, ghosts
<1> QED
  BY <1>1, KeepFrame, TasksSame, OpNotPurge

\* A handler begins or goes on, and takes nothing away yet.
LEMMA BeginsKeep ==
    ASSUME TInv, KeepInv,
           \/ \E c \in Convs : Accept(c) \/ Decline(c)
           \/ AcceptLoads \/ (\E p \in Peers : RemoveContact(p)) \/ (\E i \in Posts : Fetch(i))
    PROVE  KeepInv'
<1>1. Grow /\ UNCHANGED <<hist, cached, handled, r2, op, asked>>
  BY DEF Accept, Decline, AcceptLoads, RemoveContact, Fetch, Grow, stores, world, ghosts
<1>2. \A j \in Kinds : Moves(j)
  <2>1. ASSUME NEW c \in Convs, Accept(c) PROVE \A j \in Kinds : Moves(j)
    <3> DEFINE t == Begin("load", None, c)
    <3>1. "accept" \in Kinds /\ Becomes("accept", t) /\ Justified("accept", t, asked', cached', expired')
      BY <2>1 DEF Accept, Kinds, Justified
    <3> HIDE DEF t
    <3> QED
      BY <3>1, TaskMoves
  <2>2. ASSUME NEW c \in Convs, Decline(c) PROVE \A j \in Kinds : Moves(j)
    <3> DEFINE t == Begin("load", None, c)
    <3>1. t.at = "load" /\ "decline" \in Kinds /\ Becomes("decline", t)
      BY <2>2, BeginIs DEF Decline, Kinds, Stages
    <3> HIDE DEF t
    <3>2. Justified("decline", t, asked', cached', expired')
      BY <3>1 DEF Justified
    <3> QED
      BY <3>1, <3>2, TaskMoves
  <2>3. ASSUME AcceptLoads PROVE \A j \in Kinds : Moves(j)
    <3> DEFINE t == BeginRead("set", None, task["accept"].conv)
    <3>1. "accept" \in Kinds /\ Becomes("accept", t) /\ Justified("accept", t, asked', cached', expired')
      BY <2>3 DEF AcceptLoads, Kinds, Justified
    <3> HIDE DEF t
    <3> QED
      BY <3>1, TaskMoves
  <2>4. ASSUME NEW p \in Peers, RemoveContact(p) PROVE \A j \in Kinds : Moves(j)
    <3> DEFINE t == BeginRead("wipe", None, p)
    <3>1. "remove" \in Kinds /\ Becomes("remove", t) /\ Justified("remove", t, asked', cached', expired')
      BY <2>4 DEF RemoveContact, Kinds, Justified
    <3> HIDE DEF t
    <3> QED
      BY <3>1, TaskMoves
  <2>5. ASSUME NEW i \in Posts, Fetch(i) PROVE \A j \in Kinds : Moves(j)
    <3> DEFINE t == Begin("store", i, active)
    <3>1. t.at = "store" /\ "fetch" \in Kinds /\ Becomes("fetch", t)
      BY <2>5, VisibleIs, BeginIs DEF Fetch, Attached, Kinds, Stages
    <3> HIDE DEF t
    <3>2. Justified("fetch", t, asked', cached', expired')
      BY <3>1 DEF Justified
    <3> QED
      BY <3>1, <3>2, TaskMoves
  <2> QED
    BY <2>1, <2>2, <2>3, <2>4, <2>5
<1> QED
  BY <1>1, <1>2, KeepFrame, OpNotPurge

LEMMA DeclineLoadsKeeps == ASSUME TInv, KeepInv, DeclineLoads PROVE KeepInv'
<1> DEFINE t == task["decline"]
           h == hist[t.conv]
           todo == [n \in 1 .. Len(h) |-> h[n].id]
           u == [t EXCEPT !.at = "read", !.todo = todo]
<1>1. "decline" \in Kinds /\ Becomes("decline", u) /\ u.at = "read" /\ u.todo = todo /\ ToSet(todo) = Ids(h)
  BY DeclineLoadsIs
<1>2. Grow /\ UNCHANGED <<hist, cached, handled, r2, op>> /\ asked' = asked \cup Ids(h)
  BY DEF DeclineLoads, Grow, stores, world
<1> HIDE DEF u, todo, h
<1>3. Justified("decline", u, asked', cached', expired')
  BY <1>1, <1>2 DEF Justified
<1> QED
  BY <1>1, <1>2, <1>3, KeepFrame, TaskMoves, OpNotPurge

LEMMA DeclineReadsKeeps == ASSUME TInv, KeepInv, DeclineReads PROVE KeepInv'
<1> DEFINE t == task["decline"]
           u == [t EXCEPT !.at = "put", !.id = Head(t.todo), !.snap = hist[t.conv], !.todo = Tail(t.todo)]
<1>1. "decline" \in Kinds /\ Becomes("decline", u) /\ t.at = "read" /\ ToSet(t.todo) = {u.id} \cup ToSet(u.todo)
  BY DeclineReadsIs
<1>2. Grow /\ UNCHANGED <<hist, cached, handled, r2, op, asked>>
  BY DEF DeclineReads, Grow, stores, world, ghosts
<1>3. ToSet(t.todo) \subseteq asked
  BY <1>1 DEF KeepInv, JustInv, Justified
<1> HIDE DEF u, t
<1>4. Justified("decline", u, asked', cached', expired')
  BY <1>1, <1>2, <1>3 DEF Justified
<1> QED
  BY <1>1, <1>2, <1>4, KeepFrame, TaskMoves, OpNotPurge

LEMMA DeclineErasesKeeps == ASSUME TInv, KeepInv, DeclineErases PROVE KeepInv'
<1> DEFINE t == task["decline"]
           u == [t EXCEPT !.at = "read", !.snap = << >>]
           h == Without(t.snap, {t.id})
<1>1. /\ "decline" \in Kinds /\ Becomes("decline", u) /\ u.at = "read" /\ u.todo = t.todo /\ t.at = "put"
      /\ t.conv \in Convs /\ t.snap \in Hist
  BY DeclineErasesIs
<1>2. ToSet(t.todo) \subseteq asked /\ t.id \in asked
  BY <1>1 DEF KeepInv, JustInv, Justified
<1>3. Put(t.conv, t.snap, h) /\ cached' = cached \ {t.id} /\ UNCHANGED <<handled, r2, op, asked, expired, torn>>
  BY DEF DeclineErases, world
<1>4. Ids(h) = Ids(t.snap) \ {t.id}
  BY <1>1, WithoutHist
<1> HIDE DEF u, t, h
<1>5. Justified("decline", u, asked', cached', expired')
  BY <1>1, <1>2, <1>3 DEF Justified
<1>6. HistKeeps /\ crossed \subseteq crossed'
  BY <1>1, <1>2, <1>3, <1>4, PutKeeps
<1> QED
  BY <1>1, <1>2, <1>3, <1>5, <1>6, KeepStep, TaskMoves, OpNotPurge DEF Grow

LEMMA RemoveHistoryKeeps == ASSUME TInv, KeepInv, RemoveHistory PROVE KeepInv'
<1> DEFINE t == task["remove"]
           u == [t EXCEPT !.at = "forget"]
<1>1. "remove" \in Kinds /\ Becomes("remove", u) /\ t.conv \in Convs
  BY RemoveHistoryIs
<1>2. /\ hist' = [hist EXCEPT ![t.conv] = << >>] /\ asked' = asked \cup Ids(hist[t.conv])
      /\ UNCHANGED <<cached, handled, r2, op, expired, torn>> /\ crossed \subseteq crossed'
  BY DEF RemoveHistory, world
<1> HIDE DEF u, t
<1>3. Justified("remove", u, asked', cached', expired')
  BY DEF Justified
<1>4. HistKeeps
  BY <1>1, <1>2 DEF HistKeeps, TInv, StoresOK
<1> QED
  BY <1>1, <1>2, <1>3, <1>4, KeepStep, TaskMoves, OpNotPurge DEF Grow

LEMMA RemoveFromViewKeeps == ASSUME TInv, KeepInv, RemoveFromView PROVE KeepInv'
<1>1. /\ Grow /\ UNCHANGED <<hist, cached, handled, r2, op, asked>>
      /\ "remove" \in Kinds /\ Becomes("remove", Idle)
  BY DEF RemoveFromView, Grow, stores, world, Kinds
<1> QED
  BY <1>1, KeepFrame, IdleMoves, OpNotPurge

LEMMA StoreMediaKeeps == ASSUME TInv, KeepInv, StoreMedia PROVE KeepInv'
<1> DEFINE i == task["fetch"].id
           t == Begin("ack", i, task["fetch"].conv)
<1>1. /\ "fetch" \in Kinds /\ t.id = i
      /\ \/ cached' = cached \cup {i} /\ Becomes("fetch", t)
         \/ cached' = cached /\ Becomes("fetch", Idle)
  BY StoreMediaIs
<1>2. UNCHANGED <<hist, handled, r2, op, asked, expired, crossed, torn>>
  BY DEF StoreMedia, world, ghosts
<1> HIDE DEF t, i
<1>3. \A j \in Kinds : Moves(j)
  <2>1. CASE cached' = cached \cup {i} /\ Becomes("fetch", t)
    <3>1. Justified("fetch", t, asked', cached', expired')
      BY <1>1, <2>1 DEF Justified
    <3> QED
      BY <1>1, <2>1, <3>1, TaskMoves
  <2> QED
    BY <1>1, <2>1, IdleMoves
<1> QED
  BY <1>1, <1>2, <1>3, KeepStep, HistSame, OpNotPurge DEF Grow

LEMMA AckMediaKeeps == ASSUME TInv, KeepInv, NEW reached \in BOOLEAN, AckMedia(reached) PROVE KeepInv'
<1> DEFINE i == task["fetch"].id
<1>1. "fetch" \in Kinds /\ task["fetch"].at = "ack"
  BY DEF AckMedia, Runs, Kinds
<1>2. i \in cached \cup asked \cup expired
  BY <1>1 DEF KeepInv, JustInv, Justified
<1>3. /\ r2 \subseteq r2' \cup {i} /\ Becomes("fetch", Idle)
      /\ UNCHANGED <<hist, cached, handled, op, asked, expired, crossed, torn>>
  BY DEF AckMedia, stores, ghosts
<1> HIDE DEF i
<1> QED
  BY <1>1, <1>2, <1>3, KeepStep, HistSame, IdleMoves, OpNotPurge DEF Grow

LEMMA RestartKeeps == ASSUME TInv, KeepInv, Restart PROVE KeepInv'
<1>1. /\ UNCHANGED <<hist, cached, r2, asked, expired, crossed>> /\ op' = Idle /\ task' = [k \in Kinds |-> Idle]
      /\ torn \subseteq torn' /\ (op.conv \in Convs => op.conv \in torn')
      /\ handled' = IF op.at = "append" THEN handled \cup {op.id} ELSE handled
  BY DEF Restart
<1>2. op.at = "append" => op.conv \in Convs /\ Info[op.id].conv = op.conv
  BY DEF TInv, OpOK
<1>3. \A k \in Kinds : Moves(k)
  BY <1>1, IdleJustified DEF Moves
<1> QED
  BY <1>1, <1>2, <1>3, KeepStep, HistSame, OpNotPurge DEF Grow, Spoilt

LEMMA NextKeeps == ASSUME TInv, KeepInv, [Next]_vars PROVE KeepInv'
<1>1. ASSUME NEW p \in Peers,
             TakeDuplicate(p) \/ TakeMessage(p) \/ TakeDelete(p) \/ TakeReceipt(p) \/ TakeInvite(p)
             \/ Block(p) \/ Unblock(p) \/ RemoveContact(p)
      PROVE  KeepInv'
  BY <1>1, TakesKeep, TakeInviteKeeps, OthersKeep, BeginsKeep
<1>2. ASSUME NEW c \in Convs, Open(c) \/ Sweep(c) \/ Accept(c) \/ Decline(c) PROVE KeepInv'
  BY <1>2, OpenKeeps, SweepKeeps, BeginsKeep
<1>3. ASSUME NEW i \in Posts, Erase(i) \/ Retract(i) \/ Expire(i) \/ Fetch(i) PROVE KeepInv'
  BY <1>3, EraseKeeps, RetractKeeps, ExpireKeeps, BeginsKeep
<1>4. ASSUME AppendMessage \/ RenderMessage \/ HoldMessage \/ DropMessage \/ PurgeMessage
             \/ ApplyDelete \/ ApplyReceipt \/ HoldInvite \/ SendMessage \/ AppendLocalMessage
      PROVE  KeepInv'
  BY <1>4, AppendMessageKeeps, GatesKeep, DropMessageKeeps, PurgeMessageKeeps, ApplyDeleteKeeps,
     ApplyReceiptKeeps, SendMessageKeeps, AppendLocalMessageKeeps
<1>5. ASSUME LoadConversation \/ EraseMessage \/ TombstoneMessage \/ SweepMessages \/ SweepSummary
             \/ Derive \/ LoadSummaries \/ Seed
      PROVE  KeepInv'
  BY <1>5, LoadsKeep, EraseMessageKeeps, TombstoneMessageKeeps, SweepMessagesKeeps, OthersKeep
<1>6. ASSUME AcceptLoads \/ AcceptShows \/ DeclineLoads \/ DeclineReads \/ DeclineErases \/ DeclineEnds
             \/ RemoveHistory \/ RemoveFromView
      PROVE  KeepInv'
  BY <1>6, BeginsKeep, LoadsKeep, DeclineLoadsKeeps, DeclineReadsKeeps, DeclineErasesKeeps,
     RemoveHistoryKeeps, RemoveFromViewKeeps
<1>7. ASSUME StoreMedia \/ (\E reached \in BOOLEAN : AckMedia(reached)) \/ Search \/ Restart PROVE KeepInv'
  BY <1>7, StoreMediaKeeps, AckMediaKeeps, OthersKeep, RestartKeeps
<1> QED
  BY <1>1, <1>2, <1>3, <1>4, <1>5, <1>6, <1>7, OthersKeep DEF Next

LEMMA InitKeeps == ASSUME Init PROVE KeepInv
<1>1. op.at = "idle" /\ \A k \in Kinds : task[k] = Idle
  BY IdleIs DEF Init
<1>2. \A k \in Kinds : Justified(k, Idle, asked, cached, expired)
  BY IdleIs DEF Justified
<1>3. JustInv
  BY <1>1, <1>2 DEF JustInv
<1> QED
  BY <1>3 DEF Init, KeepInv, FetchedIsKept, KeptInv

(* A message that was handled stays in its history until someone asks for  *)
(* it to go or its time passes, whatever rewrites the record meanwhile     *)
(* (appendMessage, deleteMessageLocal, tombstoneMessage, the sweep).       *)
THEOREM HistoryHolds == Spec => []HistoryIsKept
<1>1. Init => TInv /\ KeepInv
  BY InitTypes, InitKeeps
<1>2. TInv /\ KeepInv /\ [Next]_vars => TInv' /\ KeepInv'
  BY NextTypes, NextKeeps
<1>3. TInv /\ KeepInv => HistoryIsKept
  BY DEF KeepInv, KeptInv, HistoryIsKept, Undisturbed, Spoilt
<1> QED
  BY <1>1, <1>2, <1>3, PTL DEF Spec

(* The server is told that an attachment was fetched only when the device  *)
(* has it, or no longer has the message (fetchMedia and ackMediaFetched).  *)
THEOREM FetchedHolds == Spec => []FetchedIsKept
<1>1. Init => TInv /\ KeepInv
  BY InitTypes, InitKeeps
<1>2. TInv /\ KeepInv /\ [Next]_vars => TInv' /\ KeepInv'
  BY NextTypes, NextKeeps
<1>3. KeepInv => FetchedIsKept
  BY DEF KeepInv
<1> QED
  BY <1>1, <1>2, <1>3, PTL DEF Spec

-----------------------------------------------------------------------------
(* What is held: every step keeps HeldInv.                                 *)

LEMMA TheirsIs ==
    /\ \A h, s : Ids(s) \subseteq Ids(h) => (Theirs(s) => Theirs(h))
    /\ ~ Theirs(<< >>)
  BY EmptyHist DEF Theirs

\* The gate forgets nobody, and a message that it passes is of someone it knows.
MetGrows ==
    /\ \A p \in Peers : p \in pending \cup accepted \cup blocked \cup torn
                            => p \in pending' \cup accepted' \cup blocked' \cup torn'
    /\ op.at = "gate" /\ op.conv \in Peers =>
          op' = op \/ op.conv \in pending' \cup accepted' \cup blocked' \cup torn'
    /\ contacts \cap Groups \subseteq contacts'

LEMMA MetStep ==
    ASSUME TInv, MetInv, MetGrows,
           \A c \in Convs : hist'[c] = hist[c] \/ Sound(hist'[c], c, Met'),
           op' = op \/ (op'.conv \in Convs => Sound(op'.snap, op'.conv, Met')),
           \A k \in Kinds : task'[k] = task[k] \/ SoundTask(k, task'[k], Met')
    PROVE  MetInv' /\ Met \subseteq Met'
<1>1. Met \subseteq Met'
  BY DEF Met, MetGrows
<1>2. \A h, c : Sound(h, c, Met) => Sound(h, c, Met')
  BY <1>1 DEF Sound
<1>3. \A k, t : SoundTask(k, t, Met) => SoundTask(k, t, Met')
  BY <1>2 DEF SoundTask
<1> QED
  BY <1>1, <1>2, <1>3 DEF MetInv

\* Groups: who is turned away stays turned away, and a new group is a request.
SeenStep ==
    /\ seeded' => seeded \/ contacts' \cap Groups \subseteq accepted'
    /\ \A g \in contacts' \cap Groups : g \in contacts \/ (op'.at = "invited" /\ op'.conv = g)
    /\ \A g \in Groups : g \in pending \cup accepted \cup torn =>
          g \in pending' \cup accepted' \cup torn' \/ Creator[g] \in blocked' \ (accepted' \cup pending')
    /\ \A p \in Peers : p \in blocked \ (accepted \cup pending) =>
          p \in blocked' \ (accepted' \cup pending') \/ ~ seeded
    /\ op.at = "invited" => op' = op \/ op.conv \in pending' \cup accepted' \cup torn'

LEMMA SeenStays ==
    ASSUME TInv, seeded => \A g \in contacts \cap Groups : Seen(g), SeenStep
    PROVE  seeded' => \A g \in contacts' \cap Groups : Seen(g)'
<1> SUFFICES ASSUME seeded', NEW g \in contacts' \cap Groups PROVE Seen(g)'
  OBVIOUS
<1>1. CASE ~ seeded
  BY <1>1 DEF SeenStep, Seen
<1>2. CASE seeded /\ g \in contacts
  <2>1. Seen(g) /\ Creator[g] \in Peers
    BY <1>2, InfoIs
  <2> QED
    BY <1>2, <2>1 DEF SeenStep, Seen
<1>3. CASE g \notin contacts
  BY <1>3 DEF SeenStep, Seen
<1> QED
  BY <1>1, <1>2, <1>3

\* A step that leaves the gate alone.
LEMMA GateStays ==
    ASSUME UNCHANGED gate, torn \subseteq torn'
    PROVE  /\ contacts \cap Groups \subseteq contacts' /\ op' = op => MetGrows
           /\ contacts' \cap Groups \subseteq contacts /\ op' = op => SeenStep
  BY DEF MetGrows, SeenStep, gate

\* A step beside the chain that touches neither the gate nor a history.
LEMMA HeldFrame ==
    ASSUME TInv, HeldInv, UNCHANGED gate, UNCHANGED <<hist, op>>, torn \subseteq torn',
           contacts' \cap Groups = contacts \cap Groups,
           \A k \in Kinds : task'[k] = task[k] \/ SoundTask(k, task'[k], Met')
    PROVE  HeldInv'
<1>1. MetGrows /\ SeenStep
  BY GateStays
<1> QED
  BY <1>1, MetStep, SeenStays DEF HeldInv

LEMMA SoundIdle == ASSUME NEW k \in Kinds PROVE SoundTask(k, Idle, Met') /\ Idle.conv \notin Convs
  BY IdleIs, InfoIs DEF SoundTask

LEMMA HeldMoves ==
    ASSUME TInv, NEW k \in Kinds, NEW t, Becomes(k, t), SoundTask(k, t, Met')
    PROVE  \A j \in Kinds : task'[j] = task[j] \/ SoundTask(j, task'[j], Met')
  BY DEF TInv, TasksOK, Becomes

LEMMA HeldIdleMoves ==
    ASSUME TInv, NEW k \in Kinds, Becomes(k, Idle)
    PROVE  \A j \in Kinds : task'[j] = task[j] \/ SoundTask(j, task'[j], Met')
  BY HeldMoves, SoundIdle

\* The task taken from an idle chain.
LEMMA HeldTake ==
    ASSUME TInv, HeldInv, op = Idle, UNCHANGED gate, UNCHANGED <<hist, task, torn>>,
           contacts \subseteq contacts',
           \A g \in contacts' \cap Groups : g \in contacts \/ (op'.at = "invited" /\ op'.conv = g),
           \/ op'.conv \notin Convs \/ op'.snap = << >>
           \/ op'.conv \in Convs /\ op'.snap = hist[op'.conv]
    PROVE  HeldInv'
<1>1. op.at = "idle"
  BY IdleIs
<1>2. MetGrows /\ SeenStep
  BY <1>1 DEF MetGrows, SeenStep, gate
<1>3. Met \subseteq Met'
  BY <1>1, <1>2 DEF MetGrows, Met
<1>4. op'.conv \in Convs => Sound(op'.snap, op'.conv, Met')
  BY <1>3, TheirsIs DEF HeldInv, MetInv, Sound
<1> QED
  BY <1>2, <1>4, MetStep, SeenStays DEF HeldInv

LEMMA TakesHold ==
    ASSUME TInv, HeldInv, NEW p \in Peers,
           TakeDuplicate(p) \/ TakeMessage(p) \/ TakeDelete(p) \/ TakeReceipt(p) \/ TakeInvite(p)
    PROVE  HeldInv'
<1> DEFINE i == Head(inbox[p])
<1>1. UNCHANGED gate /\ UNCHANGED <<hist, task, torn>> /\ op = Idle /\ inbox[p] # << >>
  BY DEF TakeDuplicate, TakeMessage, TakeDelete, TakeReceipt, TakeInvite, Take, stores, ghosts
<1>2. i \in Posts /\ Info[i].conv \in Convs /\ p \in Convs
  BY <1>1, InfoIs, SeqParts DEF TInv, MailOK
<1>3. CASE TakeDuplicate(p)
  <2>1. op' = op /\ op'.conv \notin Convs /\ UNCHANGED contacts
    BY <1>1, <1>3, IdleIs, InfoIs DEF TakeDuplicate, stores
  <2> QED
    BY <1>1, <2>1, HeldTake
<1>4. CASE TakeMessage(p)
  <2>1. /\ op' = BeginRead("append", i, Info[i].conv) /\ contacts' = contacts \cup {Info[i].conv}
        /\ Info[i].conv \in Groups => Info[i].conv \in contacts
    BY <1>4 DEF TakeMessage, Take
  <2>2. op'.conv = Info[i].conv /\ op'.snap = hist[Info[i].conv]
    BY <1>2, <2>1, BeginReadIs, ViewOfIs DEF TInv, Stages
  <2> HIDE DEF i
  <2> QED
    BY <1>1, <1>2, <2>1, <2>2, HeldTake
<1>5. CASE TakeDelete(p)
  <2>1. op' = BeginRead("tombstone", i, p) /\ UNCHANGED contacts
    BY <1>5 DEF TakeDelete, Take, stores
  <2>2. op'.conv = p /\ op'.snap = hist[p]
    BY <1>2, <2>1, BeginReadIs, ViewOfIs DEF TInv, Stages
  <2> QED
    BY <1>1, <1>2, <2>1, <2>2, HeldTake
<1>6. CASE TakeReceipt(p)
  <2> DEFINE j == Info[i].target
  <2>1. op' = (IF j \in Ids(hist[p]) THEN BeginRead("status", j, p) ELSE Idle) /\ UNCHANGED contacts
    BY <1>6 DEF TakeReceipt, Take, stores
  <2>2. hist[p] \in Hist /\ (j \in Ids(hist[p]) => j \in Posts)
    BY <1>2, ViewOfIs, HistType DEF TInv
  <2> HIDE DEF j
  <2>3. op'.conv \notin Convs \/ (op'.conv = p /\ op'.snap = hist[p])
    <3>1. CASE j \in Ids(hist[p])
      BY <1>2, <2>1, <2>2, <3>1, BeginReadIs DEF Stages
    <3> QED
      BY <2>1, <3>1, IdleIs, InfoIs
  <2> QED
    BY <1>1, <1>2, <2>1, <2>3, HeldTake
<1>7. CASE TakeInvite(p)
  <2>1. op' = Begin("invited", i, Info[i].conv) /\ contacts' = contacts \cup {Info[i].conv}
    BY <1>7 DEF TakeInvite, Take
  <2>2. op'.at = "invited" /\ op'.conv = Info[i].conv /\ op'.snap = << >>
    BY <1>2, <2>1, BeginIs DEF Stages
  <2> HIDE DEF i
  <2> QED
    BY <1>1, <2>1, <2>2, HeldTake
<1> QED
  BY <1>3, <1>4, <1>5, <1>6, <1>7

LEMMA PutMet ==
    ASSUME TInv, NEW c \in Convs, NEW snap, NEW h, Put(c, snap, h), Sound(h, c, Met')
    PROVE  \A d \in Convs : hist'[d] = hist[d] \/ Sound(hist'[d], d, Met')
  BY DEF TInv, StoresOK, Put

LEMMA AppendMessageHolds == ASSUME TInv, HeldInv, AppendMessage PROVE HeldInv'
<1> DEFINE h == Append(op.snap, Entry(op.id))
<1>1. /\ op.conv \in Convs /\ op \in Tasks /\ op.conv \in contacts \cup Peers /\ op.at = "append"
      /\ UNCHANGED gate /\ UNCHANGED <<contacts, task, torn>> /\ Put(op.conv, op.snap, h)
  BY DEF TInv, OpOK, AppendMessage, world
<1>2. op'.at = "gate" /\ op'.conv = op.conv /\ op'.snap = << >>
  BY <1>1 DEF AppendMessage, Tasks
<1>3. op.conv \in Met' /\ Sound(h, op.conv, Met') /\ Sound(op'.snap, op'.conv, Met')
  BY <1>1, <1>2, InfoIs, TheirsIs DEF Met, Sound
<1>4. MetGrows /\ SeenStep
  BY <1>1 DEF MetGrows, SeenStep, gate
<1> HIDE DEF h
<1> QED
  BY <1>1, <1>3, <1>4, PutMet, MetStep, SeenStays DEF HeldInv

\* The gate lets a message in, or asks about its sender.
LEMMA GatesHold ==
    ASSUME TInv, HeldInv, RenderMessage \/ HoldMessage \/ DropMessage
    PROVE  HeldInv'
<1>1. /\ op.conv \in Convs /\ op.at = "gate" /\ op.id \in Posts
      /\ UNCHANGED <<hist, contacts, task, torn, accepted, blocked, seeded>>
  BY DEF TInv, OpOK, RenderMessage, HoldMessage, DropMessage, Finish, stores, gate, ghosts
<1>2. op.conv \in Peers => op.conv \in pending' \cup accepted' \cup blocked'
  BY DEF RenderMessage, HoldMessage, DropMessage, Gate, gate
<1>3. pending \subseteq pending' /\ pending' \cap blocked \subseteq pending /\ pending' \cap Groups = pending \cap Groups
  BY InfoIs DEF RenderMessage, HoldMessage, DropMessage, Gate, gate
<1>4. MetGrows /\ SeenStep
  BY <1>1, <1>2, <1>3 DEF MetGrows, SeenStep
<1>5. op'.conv \in Convs => Sound(op'.snap, op'.conv, Met')
  <2>1. CASE DropMessage
    <3>1. op'.snap = hist[op.conv] /\ op'.conv = op.conv
      BY <1>1, <2>1, BeginReadIs, ViewOfIs DEF TInv, DropMessage, Stages
    <3>2. Met \subseteq Met'
      BY <1>4 DEF MetGrows, Met
    <3> QED
      BY <1>1, <3>1, <3>2 DEF HeldInv, MetInv, Sound
  <2>2. CASE op' = Idle
    BY <2>2, IdleIs, InfoIs
  <2> QED
    BY <2>1, <2>2 DEF RenderMessage, HoldMessage, Finish
<1> QED
  BY <1>1, <1>4, <1>5, MetStep, SeenStays DEF HeldInv

LEMMA HoldInviteHolds == ASSUME TInv, HeldInv, HoldInvite PROVE HeldInv'
<1>1. /\ op.conv \in Groups /\ op.at = "invited" /\ op' = Idle
      /\ UNCHANGED <<hist, contacts, task, torn, accepted, blocked, seeded>>
      /\ pending' = IF op.conv \in accepted THEN pending ELSE pending \cup {op.conv}
  BY DEF TInv, OpOK, HoldInvite, Finish, stores, ghosts
<1>2. MetGrows
  BY <1>1 DEF MetGrows
<1>3. SeenStep
  BY <1>1, InfoIs DEF SeenStep
<1>4. op'.conv \notin Convs
  BY <1>1, IdleIs, InfoIs
<1> QED
  BY <1>1, <1>2, <1>3, <1>4, MetStep, SeenStays DEF HeldInv

\* The end of a task that leaves no more in a history than it read.
LEMMA HeldWrites ==
    ASSUME TInv, HeldInv, op.conv \in Convs, UNCHANGED gate, UNCHANGED <<contacts, task, torn>>,
           op' = Idle, op.at \notin {"gate", "invited"},
           UNCHANGED hist \/ \E h : Put(op.conv, op.snap, h) /\ (Theirs(h) => Theirs(op.snap))
    PROVE  HeldInv'
<1>1. MetGrows /\ SeenStep
  BY DEF MetGrows, SeenStep, gate
<1>2. op'.conv \notin Convs
  BY IdleIs, InfoIs
<1>3. Met \subseteq Met'
  BY <1>1 DEF MetGrows, Met
<1>4. \A d \in Convs : hist'[d] = hist[d] \/ Sound(hist'[d], d, Met')
  <2>1. ASSUME NEW h, Put(op.conv, op.snap, h), Theirs(h) => Theirs(op.snap)
        PROVE  \A d \in Convs : hist'[d] = hist[d] \/ Sound(hist'[d], d, Met')
    <3>1. Sound(h, op.conv, Met')
      BY <1>3, <2>1 DEF HeldInv, MetInv, Sound
    <3> QED
      BY <2>1, <3>1, PutMet
  <2> QED
    BY <2>1
<1> QED
  BY <1>1, <1>2, <1>4, MetStep, SeenStays DEF HeldInv

LEMMA WritesHold ==
    ASSUME TInv, HeldInv, PurgeMessage \/ ApplyDelete \/ ApplyReceipt \/ AppendLocalMessage
    PROVE  HeldInv'
<1>1. /\ op.conv \in Convs /\ op.snap \in Hist /\ op.at \notin {"gate", "invited"} /\ op.id \in Posts
      /\ op.at = "local" => Info[op.id].from = Me
      /\ UNCHANGED gate /\ UNCHANGED <<contacts, task, torn>> /\ op' = Idle
  BY DEF TInv, OpOK, PurgeMessage, ApplyDelete, ApplyReceipt, AppendLocalMessage, Finish, Tasks
<1>2. CASE PurgeMessage
  <2> DEFINE h == Without(op.snap, {op.id})
  <2>1. Put(op.conv, op.snap, h) /\ Ids(h) \subseteq Ids(op.snap)
    BY <1>1, <1>2, WithoutHist DEF PurgeMessage
  <2> HIDE DEF h
  <2> QED
    BY <1>1, <2>1, TheirsIs, HeldWrites
<1>3. CASE ApplyDelete
  <2> DEFINE h == Tombstoned(op.snap, Info[op.id].target)
  <2>1. Put(op.conv, op.snap, h) \/ UNCHANGED hist
    BY <1>3 DEF ApplyDelete
  <2>2. Ids(h) = Ids(op.snap)
    BY <1>1, TombstonedHist
  <2> HIDE DEF h
  <2> QED
    BY <1>1, <2>1, <2>2, TheirsIs, HeldWrites
<1>4. CASE ApplyReceipt
  <2> DEFINE h == Delivered(op.snap, op.id)
  <2>1. Put(op.conv, op.snap, h) \/ UNCHANGED hist
    BY <1>4 DEF ApplyReceipt
  <2>2. Ids(h) = Ids(op.snap)
    BY <1>1, DeliveredHist
  <2> HIDE DEF h
  <2> QED
    BY <1>1, <2>1, <2>2, TheirsIs, HeldWrites
<1>5. CASE AppendLocalMessage
  <2> DEFINE h == Append(op.snap, Entry(op.id))
  <2>1. Put(op.conv, op.snap, h) /\ op.at = "local"
    BY <1>5 DEF AppendLocalMessage
  <2>2. Ids(h) = Ids(op.snap) \cup {op.id}
    BY <1>1, AppendedHist
  <2> HIDE DEF h
  <2>3. Theirs(h) => Theirs(op.snap)
    BY <1>1, <2>1, <2>2 DEF Theirs
  <2> QED
    BY <1>1, <2>1, <2>3, HeldWrites
<1> QED
  BY <1>2, <1>3, <1>4, <1>5

LEMMA SendMessageHolds == ASSUME TInv, HeldInv, SendMessage PROVE HeldInv'
<1>1. /\ UNCHANGED gate /\ UNCHANGED <<hist, task, torn, contacts>> /\ op = Idle
      /\ op' = BeginRead("local", Head(outbox), active) /\ outbox # << >> /\ active = Info[Head(outbox)].conv
  BY DEF SendMessage, ghosts
<1>2. Head(outbox) \in Posts /\ active \in Convs
  BY <1>1, InfoIs, SeqParts DEF TInv, MailOK
<1>3. op'.conv = active /\ op'.snap = hist[active]
  BY <1>1, <1>2, BeginReadIs, ViewOfIs DEF TInv, Stages
<1> QED
  BY <1>1, <1>2, <1>3, HeldTake

\* A handler reads a history, or begins without.
LEMMA HeldReads ==
    ASSUME TInv, HeldInv, MetGrows, NEW k \in Kinds, NEW t, Becomes(k, t), k # "sweep",
           t.conv \in Convs, t.snap = << >> \/ t.snap = hist[t.conv]
    PROVE  \A j \in Kinds : task'[j] = task[j] \/ SoundTask(j, task'[j], Met')
<1>1. Met \subseteq Met'
  BY DEF MetGrows, Met
<1>2. SoundTask(k, t, Met')
  BY <1>1, TheirsIs DEF HeldInv, MetInv, Sound, SoundTask
<1> QED
  BY <1>2, HeldMoves

LEMMA HeldBegins ==
    ASSUME TInv, HeldInv, UNCHANGED gate, UNCHANGED <<hist, op>>, torn \subseteq torn',
           contacts' \cap Groups = contacts \cap Groups,
           NEW k \in Kinds, NEW t, Becomes(k, t), k # "sweep",
           t.conv \in Convs, t.snap = << >> \/ t.snap = hist[t.conv]
    PROVE  HeldInv'
<1>1. MetGrows
  BY GateStays
<1> QED
  BY <1>1, HeldReads, HeldFrame

LEMMA HeldPut ==
    ASSUME TInv, HeldInv, UNCHANGED gate, UNCHANGED <<op, contacts, torn>>, NEW k \in Kinds, task[k] # Idle,
           \/ UNCHANGED hist
           \/ \E h : Put(task[k].conv, task[k].snap, h)
                     /\ (Theirs(h) => Theirs(task[k].snap) \/ (k = "sweep" /\ Theirs(task[k].todo))),
           \A j \in Kinds : task'[j] = task[j] \/ SoundTask(j, task'[j], Met')
    PROVE  HeldInv'
<1>1. MetGrows /\ SeenStep
  BY GateStays
<1>2. task[k].conv \in Convs
  BY RunsIs
<1>3. Met \subseteq Met'
  BY <1>1 DEF MetGrows, Met
<1>4. \A d \in Convs : hist'[d] = hist[d] \/ Sound(hist'[d], d, Met')
  <2>1. ASSUME NEW h, Put(task[k].conv, task[k].snap, h),
               Theirs(h) => Theirs(task[k].snap) \/ (k = "sweep" /\ Theirs(task[k].todo))
        PROVE  \A d \in Convs : hist'[d] = hist[d] \/ Sound(hist'[d], d, Met')
    <3>1. SoundTask(k, task[k], Met)
      BY DEF HeldInv, MetInv
    <3>2. Sound(h, task[k].conv, Met')
      BY <1>2, <1>3, <2>1, <3>1 DEF Sound, SoundTask
    <3> QED
      BY <1>2, <2>1, <3>2, PutMet
  <2> QED
    BY <2>1
<1> QED
  BY <1>1, <1>4, MetStep, SeenStays DEF HeldInv

LEMMA OpenHolds == ASSUME TInv, HeldInv, NEW c \in Convs, Open(c) PROVE HeldInv'
<1> DEFINE t == BeginRead("set", None, c)
<1>1. /\ UNCHANGED gate /\ UNCHANGED <<hist, op, torn, contacts>> /\ "open" \in Kinds
      /\ (Becomes("open", t) \/ UNCHANGED task)
  BY DEF Open, stores, Kinds
<1>2. t.conv = c /\ t.snap = hist[c]
  BY BeginReadIs, ViewOfIs DEF TInv, Stages
<1> HIDE DEF t
<1> QED
  BY <1>1, <1>2, HeldBegins, HeldFrame

\* A handler ends and has written no history.
LEMMA EndsHold ==
    ASSUME TInv, HeldInv,
           LoadConversation \/ SweepSummary \/ AcceptShows \/ DeclineEnds \/ RemoveFromView
           \/ (\E reached \in BOOLEAN : AckMedia(reached))
    PROVE  HeldInv'
<1>1. UNCHANGED gate /\ UNCHANGED <<hist, op, torn, contacts>>
  BY DEF LoadConversation, SweepSummary, AcceptShows, DeclineEnds, RemoveFromView, AckMedia, stores, world, ghosts
<1>2. \E k \in Kinds : Becomes(k, Idle)
  BY DEF LoadConversation, SweepSummary, AcceptShows, DeclineEnds, RemoveFromView, AckMedia, Kinds
<1> QED
  BY <1>1, <1>2, HeldIdleMoves, HeldFrame

LEMMA ErasesHold == ASSUME TInv, HeldInv, NEW i \in Posts, Erase(i) \/ Retract(i) \/ Fetch(i) PROVE HeldInv'
<1>1. UNCHANGED gate /\ UNCHANGED <<hist, op, torn, contacts>> /\ active \in Convs
  BY VisibleIs DEF Erase, Retract, Fetch, Attached, stores, world, ghosts
<1>2. CASE Erase(i) \/ Retract(i)
  <2> DEFINE t == BeginRead("put", i, active)
  <2>1. \E k \in Kinds \ {"sweep"} : Becomes(k, t)
    BY <1>2 DEF Erase, Retract, Kinds
  <2>2. t.conv = active /\ t.snap = hist[active]
    BY <1>1, BeginReadIs, ViewOfIs DEF TInv, Stages
  <2> HIDE DEF t
  <2> QED
    BY <1>1, <2>1, <2>2, HeldBegins
<1>3. CASE Fetch(i)
  <2> DEFINE t == Begin("store", i, active)
  <2>1. "fetch" \in Kinds /\ Becomes("fetch", t)
    BY <1>3 DEF Fetch, Kinds
  <2>2. t.conv = active /\ t.snap = << >>
    BY <1>1, BeginIs DEF Stages
  <2> HIDE DEF t
  <2> QED
    BY <1>1, <2>1, <2>2, HeldBegins
<1> QED
  BY <1>2, <1>3

LEMMA EraseMessageHolds == ASSUME TInv, HeldInv, EraseMessage PROVE HeldInv'
<1> DEFINE t == task["erase"]
           h == Without(t.snap, {t.id})
<1>1. "erase" \in Kinds /\ t # Idle
  BY AtIs DEF EraseMessage, Kinds
<1>2. t.conv \in Convs /\ t.snap \in Hist
  BY <1>1, RunsIs
<1>3. Ids(h) \subseteq Ids(t.snap)
  BY <1>2, WithoutHist
<1>4. /\ UNCHANGED hist \/ Put(t.conv, t.snap, h)
      /\ UNCHANGED gate /\ UNCHANGED <<op, contacts, torn>> /\ Becomes("erase", Idle)
  BY DEF EraseMessage, world
<1> HIDE DEF h
<1>5. UNCHANGED hist \/ \E s : Put(t.conv, t.snap, s) /\ (Theirs(s) => Theirs(t.snap))
  BY <1>3, <1>4, TheirsIs
<1> QED
  BY <1>1, <1>4, <1>5, HeldPut, HeldIdleMoves

LEMMA TombstoneMessageHolds == ASSUME TInv, HeldInv, TombstoneMessage PROVE HeldInv'
<1> DEFINE t == task["retract"]
           h == Tombstoned(t.snap, t.id)
<1>1. "retract" \in Kinds /\ t # Idle
  BY AtIs DEF TombstoneMessage, Kinds
<1>2. t.conv \in Convs /\ t.snap \in Hist
  BY <1>1, RunsIs
<1>3. Ids(h) = Ids(t.snap)
  BY <1>2, TombstonedHist
<1>4. /\ UNCHANGED hist \/ Put(t.conv, t.snap, h)
      /\ UNCHANGED gate /\ UNCHANGED <<op, contacts, torn>> /\ Becomes("retract", Idle)
  BY DEF TombstoneMessage, world
<1> HIDE DEF h
<1>5. UNCHANGED hist \/ \E s : Put(t.conv, t.snap, s) /\ (Theirs(s) => Theirs(t.snap))
  BY <1>3, <1>4, TheirsIs
<1> QED
  BY <1>1, <1>4, <1>5, HeldPut, HeldIdleMoves

LEMMA SweepHolds == ASSUME TInv, HeldInv, NEW c \in Convs, Sweep(c) PROVE HeldInv'
<1> DEFINE t == [BeginRead("put", None, c) EXCEPT !.todo = Kept(hist[c])]
<1>1. /\ "sweep" \in Kinds /\ Becomes("sweep", t) /\ t.conv = c /\ t.snap = hist[c]
      /\ t.todo = Without(hist[c], expired) /\ hist[c] \in Hist
  BY SweepIs
<1>2. UNCHANGED gate /\ UNCHANGED <<hist, op, torn, contacts>>
  BY DEF Sweep, stores, world, ghosts
<1>3. Ids(t.todo) \subseteq Ids(t.snap)
  BY <1>1, WithoutHist
<1> HIDE DEF t
<1>4. SoundTask("sweep", t, Met')
  <2>1. Met \subseteq Met'
    BY <1>2, GateStays DEF MetGrows, Met
  <2>2. Sound(t.snap, c, Met)
    BY <1>1 DEF HeldInv, MetInv
  <2>3. Theirs(t.todo) => Theirs(t.snap)
    BY <1>3, TheirsIs
  <2> QED
    BY <1>1, <2>1, <2>2, <2>3 DEF Sound, SoundTask
<1> QED
  BY <1>1, <1>2, <1>4, HeldMoves, HeldFrame

LEMMA SweepMessagesHolds == ASSUME TInv, HeldInv, SweepMessages PROVE HeldInv'
<1> DEFINE t == task["sweep"]
           n == [t EXCEPT !.at = "reconcile"]
<1>1. "sweep" \in Kinds /\ t # Idle
  BY AtIs DEF SweepMessages, Kinds
<1>2. t \in Tasks /\ t.conv \in Convs
  BY <1>1, RunsIs
<1>3. /\ Put(t.conv, t.snap, t.todo) /\ Becomes("sweep", n)
      /\ UNCHANGED gate /\ UNCHANGED <<op, contacts, torn>>
  BY DEF SweepMessages, world
<1>4. n.conv = t.conv /\ n.snap = t.snap /\ n.todo = t.todo
  <2> HIDE DEF t
  <2> QED
    BY <1>2 DEF Tasks
<1> HIDE DEF n
<1>5. SoundTask("sweep", n, Met')
  <2>1. Met \subseteq Met'
    BY <1>3, GateStays DEF MetGrows, Met
  <2>2. SoundTask("sweep", t, Met)
    BY <1>1 DEF HeldInv, MetInv
  <2> HIDE DEF t
  <2> QED
    BY <1>4, <2>1, <2>2 DEF Sound, SoundTask
<1>6. \E h : Put(t.conv, t.snap, h) /\ (Theirs(h) => Theirs(t.snap) \/ Theirs(t.todo))
  BY <1>3
<1> QED
  BY <1>1, <1>3, <1>5, <1>6, HeldPut, HeldMoves

LEMMA OthersHold ==
    ASSUME TInv, HeldInv, Derive \/ LoadSummaries \/ Search \/ (\E i \in Posts : Expire(i)) \/ UNCHANGED vars
    PROVE  HeldInv'
<1>1. UNCHANGED gate /\ UNCHANGED <<hist, op, torn, contacts, task>>
  BY DEF Derive, LoadSummaries, Search, Expire, vars, stores, world, ghosts
<1> QED
  BY <1>1, HeldFrame

\* A step of the gate beside the chain.
LEMMA HeldGate ==
    ASSUME TInv, HeldInv, UNCHANGED <<hist, op, torn, contacts>>, MetGrows, SeenStep,
           \A k \in Kinds : task'[k] = task[k] \/ SoundTask(k, task'[k], Met')
    PROVE  HeldInv'
  BY MetStep, SeenStays DEF HeldInv

LEMMA SeedHolds == ASSUME TInv, HeldInv, Seed PROVE HeldInv'
<1>1. /\ UNCHANGED <<hist, op, torn, contacts, task, pending, blocked>> /\ ~ seeded
      /\ accepted' = accepted \cup contacts
  BY DEF Seed, stores, world
<1>2. MetGrows /\ SeenStep
  BY <1>1 DEF MetGrows, SeenStep
<1> QED
  BY <1>1, <1>2, HeldGate

LEMMA BlocksHold == ASSUME TInv, HeldInv, NEW p \in Peers, Block(p) \/ Unblock(p) PROVE HeldInv'
<1>1. /\ UNCHANGED <<hist, op, torn, contacts, task, pending, accepted, seeded>>
      /\ p \in accepted /\ (blocked' = blocked \cup {p} \/ blocked' = blocked \ {p})
  BY DEF Block, Unblock, stores, ghosts
<1>2. MetGrows
  BY <1>1 DEF MetGrows
<1>3. SeenStep
  BY <1>1 DEF SeenStep
<1> QED
  BY <1>1, <1>2, <1>3, HeldGate

LEMMA AcceptHolds == ASSUME TInv, HeldInv, NEW c \in Convs, Accept(c) PROVE HeldInv'
<1> DEFINE t == Begin("load", None, c)
<1>1. /\ UNCHANGED <<hist, op, torn, contacts, blocked, seeded>> /\ c \in pending
      /\ accepted' = accepted \cup {c} /\ pending' = pending \ {c}
      /\ "accept" \in Kinds /\ Becomes("accept", t)
  BY DEF Accept, stores, Kinds
<1>2. MetGrows
  BY <1>1 DEF MetGrows
<1>3. SeenStep
  BY <1>1 DEF SeenStep
<1>4. t.conv = c /\ t.snap = << >>
  BY BeginIs DEF Stages
<1> HIDE DEF t
<1> QED
  BY <1>1, <1>2, <1>3, <1>4, HeldReads, HeldGate

LEMMA DeclineHolds == ASSUME TInv, HeldInv, NEW c \in Convs, Decline(c) PROVE HeldInv'
<1> DEFINE t == Begin("load", None, c)
           who == {c} \cup (IF c \in Groups THEN {Creator[c]} ELSE {})
<1>1. /\ UNCHANGED <<hist, op, torn, contacts, seeded>> /\ c \in pending
      /\ pending' = pending \ who /\ accepted' = accepted \ who /\ blocked' = blocked \cup (who \cap Peers)
      /\ "decline" \in Kinds /\ Becomes("decline", t)
  BY DEF Decline, stores, Kinds
<1>2. who \cap Groups \subseteq {c} /\ c \in who /\ (c \in Groups => Creator[c] \in who \cap Peers)
  BY InfoIs
<1>3. t.conv = c /\ t.snap = << >>
  BY BeginIs DEF Stages
<1> HIDE DEF t, who
<1>4. MetGrows
  BY <1>1 DEF MetGrows
<1>5. SeenStep
  BY <1>1, <1>2 DEF SeenStep
<1> QED
  BY <1>1, <1>3, <1>4, <1>5, HeldReads, HeldGate

LEMMA AcceptLoadsHolds == ASSUME TInv, HeldInv, AcceptLoads PROVE HeldInv'
<1> DEFINE c == task["accept"].conv
           t == BeginRead("set", None, c)
<1>1. "accept" \in Kinds /\ task["accept"] # Idle
  BY AtIs DEF AcceptLoads, Kinds
<1>2. c \in Convs /\ hist[c] \in Hist
  BY <1>1, RunsIs
<1>3. t.conv = c /\ t.snap = hist[c]
  <2> HIDE DEF c
  <2>1. "set" \in Stages
    BY DEF Stages
  <2> QED
    BY <1>2, <2>1, BeginReadIs
<1>4. Becomes("accept", t) /\ UNCHANGED gate /\ UNCHANGED <<hist, op, torn, contacts>>
  BY DEF AcceptLoads, stores, world, ghosts
<1> HIDE DEF t
<1> QED
  BY <1>1, <1>2, <1>3, <1>4, HeldBegins

LEMMA DeclineStepsHold == ASSUME TInv, HeldInv, DeclineLoads \/ DeclineReads \/ DeclineErases PROVE HeldInv'
<1> DEFINE t == task["decline"]
<1>1. UNCHANGED gate /\ UNCHANGED <<op, torn, contacts>>
  BY DEF DeclineLoads, DeclineReads, DeclineErases, stores, world, ghosts
<1>2. MetGrows /\ Met \subseteq Met'
  BY <1>1, GateStays DEF MetGrows, Met
<1>3. CASE DeclineLoads
  <2> DEFINE h == hist[t.conv]
             todo == [n \in 1 .. Len(h) |-> h[n].id]
             u == [t EXCEPT !.at = "read", !.todo = todo]
  <2>1. "decline" \in Kinds /\ Becomes("decline", u) /\ u.conv = t.conv /\ u.snap = t.snap
    BY <1>3, DeclineLoadsIs
  <2>2. SoundTask("decline", t, Met)
    BY <2>1 DEF HeldInv, MetInv
  <2> HIDE DEF u, t
  <2>3. SoundTask("decline", u, Met')
    BY <1>2, <2>1, <2>2 DEF SoundTask, Sound
  <2>4. UNCHANGED hist
    BY <1>3 DEF DeclineLoads, stores
  <2> QED
    BY <1>1, <2>1, <2>3, <2>4, HeldMoves, HeldFrame
<1>4. CASE DeclineReads
  <2> DEFINE u == [t EXCEPT !.at = "put", !.id = Head(t.todo), !.snap = hist[t.conv], !.todo = Tail(t.todo)]
  <2>1. "decline" \in Kinds /\ Becomes("decline", u) /\ u.conv = t.conv /\ u.snap = hist[t.conv] /\ t.conv \in Convs
    BY <1>4, DeclineReadsIs
  <2>2. UNCHANGED hist
    BY <1>4 DEF DeclineReads, stores
  <2> HIDE DEF u, t
  <2> QED
    BY <1>1, <2>1, <2>2, HeldBegins
<1>5. CASE DeclineErases
  <2> DEFINE u == [t EXCEPT !.at = "read", !.snap = << >>]
             h == Without(t.snap, {t.id})
  <2>1. /\ "decline" \in Kinds /\ Becomes("decline", u) /\ u.conv = t.conv /\ u.snap = << >> /\ t.conv \in Convs
        /\ t # Idle /\ t.snap \in Hist
    BY <1>5, DeclineErasesIs
  <2>2. Put(t.conv, t.snap, h)
    BY <1>5 DEF DeclineErases
  <2>3. Ids(h) \subseteq Ids(t.snap)
    BY <2>1, WithoutHist
  <2> HIDE DEF u, h
  <2>4. \E s : Put(t.conv, t.snap, s) /\ (Theirs(s) => Theirs(t.snap))
    BY <2>2, <2>3, TheirsIs
  <2> QED
    BY <1>1, <1>2, <2>1, <2>4, HeldReads, HeldPut
<1> QED
  BY <1>3, <1>4, <1>5

LEMMA RemoveContactHolds == ASSUME TInv, HeldInv, NEW p \in Peers, RemoveContact(p) PROVE HeldInv'
<1> DEFINE t == BeginRead("wipe", None, p)
<1>1. p \in Convs /\ "remove" \in Kinds /\ Becomes("remove", t) /\ UNCHANGED gate /\ UNCHANGED <<hist, op, torn>>
      /\ contacts' = contacts \ {p} /\ p \notin Groups
  BY InfoIs DEF RemoveContact, Kinds, ghosts
<1>2. t.conv = p /\ t.snap = hist[p]
  BY <1>1, BeginReadIs, ViewOfIs DEF TInv, Stages
<1> HIDE DEF t
<1> QED
  BY <1>1, <1>2, HeldBegins

LEMMA RemoveHistoryHolds == ASSUME TInv, HeldInv, RemoveHistory PROVE HeldInv'
<1> DEFINE t == task["remove"]
           u == [t EXCEPT !.at = "forget"]
<1>1. "remove" \in Kinds /\ Becomes("remove", u) /\ t.conv \in Convs /\ u.conv = t.conv /\ u.snap = t.snap
  BY RemoveHistoryIs
<1>2. hist' = [hist EXCEPT ![t.conv] = << >>] /\ UNCHANGED gate /\ UNCHANGED <<op, torn, contacts>>
  BY DEF RemoveHistory, world
<1>3. MetGrows /\ SeenStep /\ Met \subseteq Met'
  BY <1>2, GateStays DEF MetGrows, Met
<1>4. SoundTask("remove", t, Met)
  BY <1>1 DEF HeldInv, MetInv
<1> HIDE DEF t, u
<1>5. SoundTask("remove", u, Met')
  BY <1>1, <1>3, <1>4 DEF SoundTask, Sound
<1>6. \A d \in Convs : hist'[d] = hist[d] \/ Sound(hist'[d], d, Met')
  BY <1>1, <1>2, TheirsIs DEF TInv, StoresOK, Sound
<1> QED
  BY <1>1, <1>2, <1>3, <1>5, <1>6, HeldMoves, MetStep, SeenStays DEF HeldInv

LEMMA StoreMediaHolds == ASSUME TInv, HeldInv, StoreMedia PROVE HeldInv'
<1> DEFINE t == Begin("ack", task["fetch"].id, task["fetch"].conv)
<1>1. /\ "fetch" \in Kinds /\ t.conv \in Convs /\ t.snap = << >>
      /\ Becomes("fetch", t) \/ Becomes("fetch", Idle)
  BY StoreMediaIs
<1>2. UNCHANGED gate /\ UNCHANGED <<hist, op, torn, contacts>>
  BY DEF StoreMedia, world, ghosts
<1> HIDE DEF t
<1> QED
  BY <1>1, <1>2, HeldBegins, HeldIdleMoves, HeldFrame

LEMMA RestartHolds == ASSUME TInv, HeldInv, Restart PROVE HeldInv'
<1>1. /\ UNCHANGED <<hist, contacts>> /\ UNCHANGED gate /\ op' = Idle /\ task' = [k \in Kinds |-> Idle]
      /\ torn \subseteq torn' /\ (op.conv \in Convs => op.conv \in torn')
  BY DEF Restart
<1>2. op.at \in {"gate", "invited"} => op.conv \in Convs
  BY InfoIs DEF TInv, OpOK
<1>3. MetGrows /\ SeenStep
  BY <1>1, <1>2 DEF MetGrows, SeenStep, gate
<1>4. \A k \in Kinds : SoundTask(k, task'[k], Met')
  BY <1>1, SoundIdle
<1>5. op'.conv \notin Convs
  BY <1>1, IdleIs, InfoIs
<1> QED
  BY <1>1, <1>3, <1>4, <1>5, MetStep, SeenStays DEF HeldInv

LEMMA NextHolds == ASSUME TInv, HeldInv, [Next]_vars PROVE HeldInv'
<1>1. ASSUME NEW p \in Peers,
             TakeDuplicate(p) \/ TakeMessage(p) \/ TakeDelete(p) \/ TakeReceipt(p) \/ TakeInvite(p)
             \/ Block(p) \/ Unblock(p) \/ RemoveContact(p)
      PROVE  HeldInv'
  BY <1>1, TakesHold, BlocksHold, RemoveContactHolds
<1>2. ASSUME NEW c \in Convs, Open(c) \/ Sweep(c) \/ Accept(c) \/ Decline(c) PROVE HeldInv'
  BY <1>2, OpenHolds, SweepHolds, AcceptHolds, DeclineHolds
<1>3. ASSUME NEW i \in Posts, Erase(i) \/ Retract(i) \/ Expire(i) \/ Fetch(i) PROVE HeldInv'
  BY <1>3, ErasesHold, OthersHold
<1>4. ASSUME AppendMessage \/ RenderMessage \/ HoldMessage \/ DropMessage \/ PurgeMessage
             \/ ApplyDelete \/ ApplyReceipt \/ HoldInvite \/ SendMessage \/ AppendLocalMessage
      PROVE  HeldInv'
  BY <1>4, AppendMessageHolds, GatesHold, WritesHold, HoldInviteHolds, SendMessageHolds
<1>5. ASSUME LoadConversation \/ EraseMessage \/ TombstoneMessage \/ SweepMessages \/ SweepSummary
             \/ Derive \/ LoadSummaries \/ Seed
      PROVE  HeldInv'
  BY <1>5, EndsHold, EraseMessageHolds, TombstoneMessageHolds, SweepMessagesHolds, OthersHold, SeedHolds
<1>6. ASSUME AcceptLoads \/ AcceptShows \/ DeclineLoads \/ DeclineReads \/ DeclineErases \/ DeclineEnds
             \/ RemoveHistory \/ RemoveFromView
      PROVE  HeldInv'
  BY <1>6, AcceptLoadsHolds, EndsHold, DeclineStepsHold, RemoveHistoryHolds
<1>7. ASSUME StoreMedia \/ (\E reached \in BOOLEAN : AckMedia(reached)) \/ Search \/ Restart PROVE HeldInv'
  BY <1>7, StoreMediaHolds, EndsHold, OthersHold, RestartHolds
<1> QED
  BY <1>1, <1>2, <1>3, <1>4, <1>5, <1>6, <1>7, OthersHold DEF Next

LEMMA InitHolds == ASSUME Init PROVE HeldInv
<1>1. \A c \in Convs : Sound(hist[c], c, Met)
  BY TheirsIs DEF Init, Sound
<1>2. op.conv \notin Convs /\ \A k \in Kinds : task[k].conv \notin Convs
  BY IdleIs, InfoIs DEF Init
<1>3. MetInv
  BY <1>1, <1>2 DEF MetInv, SoundTask
<1>4. seeded => \A g \in contacts \cap Groups : Seen(g)
  BY DEF Init, Seen
<1> QED
  BY <1>3, <1>4 DEF HeldInv

(* A message that is held is a request the user can see: gateInbound and   *)
(* addPendingSender list its sender, TakeInvite and addPendingGroup its    *)
(* group, whatever the user accepts, declines, blocks or removes between.  *)
THEOREM HeldHolds == Spec => []HeldIsPending
<1>1. Init => TInv /\ HeldInv
  BY InitTypes, InitHolds
<1>2. TInv /\ HeldInv /\ [Next]_vars => TInv' /\ HeldInv'
  BY NextTypes, NextHolds
<1>3. ASSUME TInv, HeldInv PROVE HeldIsPending
  <2> SUFFICES ASSUME op = Idle, NEW c \in Convs \ torn, NEW e \in ToSet(hist[c]), Info[e.id].from # Me
               PROVE  \/ c \in pending \cup accepted \cup blocked
                      \/ c \in Groups /\ (Creator[c] \in blocked \/ (c \in contacts /\ ~ seeded))
    BY DEF HeldIsPending, Quiet
  <2>1. Theirs(hist[c])
    BY <1>3, ViewOfIs, EntriesOf DEF Theirs, TInv
  <2>2. c \in Met /\ op.at = "idle"
    BY <1>3, <2>1, IdleIs DEF HeldInv, MetInv, Sound
  <2>3. CASE c \in Groups
    BY <1>3, <2>2, <2>3, InfoIs DEF HeldInv, Met, Seen
  <2> QED
    BY <2>2, <2>3, InfoIs DEF Met
<1> QED
  BY <1>1, <1>2, <1>3, PTL DEF Spec

-----------------------------------------------------------------------------
(* What is shown: every step keeps RenderInv.                              *)

LEMMA RenderFrame ==
    ASSUME RenderInv, UNCHANGED gate, UNCHANGED <<approved, slipped>>,
           \A c \in Convs : Shown(c)' => Shown(c) \/ c \in accepted
    PROVE  RenderInv'
  BY DEF RenderInv, gate

\* The views and the loads of a step that shows nothing new.
ViewsFade == \A c \in Convs : Theirs(ViewOf(c)') => Shown(c)
LoadsFade ==
    \A k \in {"open", "accept"} :
        task'[k] = task[k] \/ task'[k] = Idle \/ (task[k] # Idle /\ task'[k].conv = task[k].conv)

LEMMA ShownFades == ASSUME ViewsFade, LoadsFade PROVE \A c \in Convs : Shown(c)' => Shown(c)
  BY DEF ViewsFade, LoadsFade, Shown

LEMMA ViewSame == ASSUME UNCHANGED view PROVE ViewsFade
  BY DEF ViewsFade, ViewOf, Shown

LEMMA ShowFades ==
    ASSUME TInv, NEW c \in Convs, NEW h, view' = Show(c, h), Ids(h) \subseteq Ids(ViewOf(c))
    PROVE  ViewsFade
<1>1. \A d \in Convs : view'[d] = view[d] \/ (d = c /\ view[d] # None /\ view'[d] = h)
  BY DEF Show, TInv, StoresOK
<1> QED
  BY <1>1, TheirsIs DEF ViewsFade, ViewOf, Shown

LEMMA ClearFades == ASSUME TInv, NEW c \in Convs, view' = [view EXCEPT ![c] = None] PROVE ViewsFade
<1>1. \A d \in Convs : view'[d] = view[d] \/ view'[d] = None
  BY DEF TInv, StoresOK
<1> QED
  BY <1>1, TheirsIs DEF ViewsFade, ViewOf, Shown

LEMMA OtherTasks ==
    ASSUME TInv, NEW k \in Kinds \ {"open", "accept"}, NEW t, Becomes(k, t)
    PROVE  LoadsFade
<1>1. "open" \in Kinds /\ "accept" \in Kinds
  BY DEF Kinds
<1> QED
  BY <1>1 DEF TInv, TasksOK, Becomes, LoadsFade

LEMMA IdleLoads == ASSUME TInv, NEW k \in Kinds, Becomes(k, Idle) PROVE LoadsFade
<1>1. "open" \in Kinds /\ "accept" \in Kinds
  BY DEF Kinds
<1> QED
  BY <1>1 DEF TInv, TasksOK, Becomes, LoadsFade

LEMMA LoadsSame == ASSUME UNCHANGED task PROVE LoadsFade
  BY DEF LoadsFade

\* A step that shows nothing new and leaves the gate alone.
LEMMA RenderFades ==
    ASSUME RenderInv, UNCHANGED gate, UNCHANGED <<approved, slipped>>, ViewsFade, LoadsFade
    PROVE  RenderInv'
  BY ShownFades, RenderFrame

\* The chain, where it neither shows nor asks.
LEMMA ChainRenders ==
    ASSUME TInv, RenderInv,
           \/ \E p \in Peers :
                 TakeDuplicate(p) \/ TakeMessage(p) \/ TakeDelete(p) \/ TakeReceipt(p) \/ TakeInvite(p)
           \/ AppendMessage \/ DropMessage \/ PurgeMessage \/ SendMessage
    PROVE  RenderInv'
<1>1. UNCHANGED gate /\ UNCHANGED <<approved, slipped, view, task>>
  BY DEF TakeDuplicate, TakeMessage, TakeDelete, TakeReceipt, TakeInvite, AppendMessage, DropMessage,
         PurgeMessage, SendMessage, screen, ghosts
<1> QED
  BY <1>1, ViewSame, LoadsSame, RenderFades

LEMMA RenderMessageRenders == ASSUME TInv, RenderInv, RenderMessage PROVE RenderInv'
<1>1. /\ UNCHANGED gate /\ UNCHANGED <<approved, slipped, task>> /\ op.conv \in accepted
      /\ view' = [view EXCEPT ![op.conv] = Append(ViewOf(op.conv), Entry(op.id))]
  BY DEF RenderMessage, Gate
<1>2. \A c \in Convs : c # op.conv => view'[c] = view[c]
  BY <1>1 DEF TInv, StoresOK
<1>3. ASSUME NEW c \in Convs, Shown(c)' PROVE Shown(c) \/ c \in accepted
  BY <1>1, <1>2, <1>3 DEF Shown, ViewOf
<1> QED
  BY <1>1, <1>3, RenderFrame

\* Who is asked about is neither accepted nor blocked, so nothing of theirs is shown.
LEMMA HoldMessageRenders == ASSUME TInv, RenderInv, HoldMessage PROVE RenderInv'
<1>1. /\ UNCHANGED <<accepted, blocked, seeded, approved, slipped, view, task>> /\ op.conv \notin accepted
      /\ op.conv \in Peers => op.conv \notin blocked
      /\ pending' = IF op.conv \in Peers THEN pending \cup {op.conv} ELSE pending
  BY DEF HoldMessage, Gate, screen, ghosts
<1>2. \A c \in Convs : Shown(c)' => Shown(c)
  BY <1>1, ViewSame, LoadsSame, ShownFades
<1> QED
  BY <1>1, <1>2 DEF RenderInv

LEMMA HoldInviteRenders == ASSUME TInv, RenderInv, HoldInvite PROVE RenderInv'
<1>1. /\ UNCHANGED <<accepted, blocked, seeded, approved, slipped, view, task>> /\ op.conv \in Groups
      /\ pending' = IF op.conv \in accepted THEN pending ELSE pending \cup {op.conv}
  BY DEF TInv, OpOK, HoldInvite, Finish, screen, ghosts
<1>2. \A c \in Convs : Shown(c)' => Shown(c)
  BY <1>1, ViewSame, LoadsSame, ShownFades
<1> QED
  BY <1>1, <1>2, InfoIs DEF RenderInv

LEMMA ChangesRender == ASSUME TInv, RenderInv, ApplyDelete \/ ApplyReceipt PROVE RenderInv'
<1>1. UNCHANGED gate /\ UNCHANGED <<approved, slipped, task>> /\ op.conv \in Convs
  BY DEF TInv, OpOK, ApplyDelete, ApplyReceipt, Finish
<1>2. ViewOf(op.conv) \in Hist
  BY <1>1, ViewOfIs DEF TInv
<1>3. CASE ApplyDelete
  <2> DEFINE h == Tombstoned(ViewOf(op.conv), Info[op.id].target)
  <2>1. view' = Show(op.conv, h) \/ UNCHANGED view
    BY <1>3 DEF ApplyDelete
  <2>2. Ids(h) = Ids(ViewOf(op.conv))
    BY <1>2, TombstonedHist
  <2> HIDE DEF h
  <2> QED
    BY <1>1, <2>1, <2>2, ShowFades, ViewSame, LoadsSame, RenderFades
<1>4. CASE ApplyReceipt
  <2> DEFINE h == Delivered(ViewOf(op.conv), op.id)
  <2>1. view' = Show(op.conv, h)
    BY <1>4 DEF ApplyReceipt
  <2>2. Ids(h) = Ids(ViewOf(op.conv))
    BY <1>2, DeliveredHist
  <2> HIDE DEF h
  <2> QED
    BY <1>1, <2>1, <2>2, ShowFades, LoadsSame, RenderFades
<1> QED
  BY <1>3, <1>4

LEMMA AppendLocalMessageRenders == ASSUME TInv, RenderInv, AppendLocalMessage PROVE RenderInv'
<1> DEFINE c == op.conv
           h == Append(ViewOf(c), Entry(op.id))
<1>1. /\ UNCHANGED gate /\ UNCHANGED <<approved, slipped, task>> /\ c \in Convs /\ op.id \in Posts
      /\ Info[op.id].from = Me /\ view' = [view EXCEPT ![c] = h]
  BY DEF TInv, OpOK, AppendLocalMessage
<1>2. ViewOf(c) \in Hist
  BY <1>1, ViewOfIs DEF TInv
<1>3. Ids(h) = Ids(ViewOf(c)) \cup {op.id} /\ h \in Hist
  BY <1>1, <1>2, AppendedHist
<1> HIDE DEF h
<1>4. Theirs(h) => Theirs(ViewOf(c))
  BY <1>1, <1>3 DEF Theirs
<1>5. view'[c] = h /\ \A d \in Convs : d # c => view'[d] = view[d]
  BY <1>1 DEF TInv, StoresOK
<1>6. ViewsFade
  BY <1>4, <1>5, TheirsIs DEF ViewsFade, ViewOf, Shown
<1> QED
  BY <1>1, <1>6, LoadsSame, RenderFades

LEMMA OpenRenders == ASSUME TInv, RenderInv, NEW c \in Convs, Open(c) PROVE RenderInv'
<1> DEFINE t == BeginRead("set", None, c)
<1>1. /\ UNCHANGED gate /\ UNCHANGED <<approved, slipped, view>> /\ c \in accepted
      /\ Becomes("open", t) \/ UNCHANGED task
  BY DEF Open, Listed
<1>2. t.conv = c
  BY DEF BeginRead, Begin, Idle
<1> HIDE DEF t
<1>3. task'["accept"] = task["accept"] /\ (task'["open"] = task["open"] \/ task'["open"].conv = c)
  BY <1>1, <1>2 DEF Becomes, TInv, TasksOK, Kinds
<1>4. \A d \in Convs : Shown(d)' => Shown(d) \/ d \in accepted
  BY <1>1, <1>3 DEF Shown, ViewOf
<1> QED
  BY <1>1, <1>4, RenderFrame

\* A load that was begun is put in the view.
LEMMA LoadsRender == ASSUME TInv, RenderInv, LoadConversation \/ AcceptShows PROVE RenderInv'
<1>1. PICK k \in {"open", "accept"} :
          /\ task[k] # Idle /\ Becomes(k, Idle)
          /\ UNCHANGED view \/ view' = [view EXCEPT ![task[k].conv] = task[k].snap]
  <2>1. CASE LoadConversation
    <3>1. task["open"] # Idle
      BY <2>1, AtIs DEF LoadConversation, Kinds
    <3> QED
      BY <2>1, <3>1 DEF LoadConversation
  <2>2. CASE AcceptShows
    <3>1. task["accept"] # Idle
      BY <2>2, AtIs DEF AcceptShows, Kinds
    <3> QED
      BY <2>2, <3>1 DEF AcceptShows
  <2> QED
    BY <2>1, <2>2
<1>2. k \in Kinds /\ task[k].conv \in Convs
  BY <1>1, RunsIs DEF Kinds
<1>3. \A d \in Convs : d # task[k].conv => view'[d] = view[d]
  BY <1>1 DEF TInv, StoresOK
<1>4. ViewsFade
  BY <1>1, <1>3 DEF ViewsFade, ViewOf, Shown
<1>5. UNCHANGED gate /\ UNCHANGED <<approved, slipped>>
  BY DEF LoadConversation, AcceptShows
<1> QED
  BY <1>1, <1>2, <1>4, <1>5, IdleLoads, RenderFades

LEMMA ErasesRender == ASSUME TInv, RenderInv, EraseMessage \/ TombstoneMessage \/ SweepMessages PROVE RenderInv'
<1>1. UNCHANGED gate /\ UNCHANGED <<approved, slipped>>
  BY DEF EraseMessage, TombstoneMessage, SweepMessages
<1>2. CASE EraseMessage
  <2> DEFINE t == task["erase"]
             h == Without(ViewOf(t.conv), {t.id})
  <2>1. "erase" \in Kinds \ {"open", "accept"} /\ t # Idle
    BY <1>2, AtIs DEF EraseMessage, Kinds
  <2>2. t.conv \in Convs /\ Ids(h) \subseteq Ids(ViewOf(t.conv))
    BY <2>1, RunsIs, WithoutHist
  <2>3. view' = Show(t.conv, h) /\ Becomes("erase", Idle)
    BY <1>2 DEF EraseMessage
  <2> HIDE DEF h, t
  <2> QED
    BY <1>1, <2>1, <2>2, <2>3, ShowFades, IdleLoads, RenderFades
<1>3. CASE TombstoneMessage
  <2> DEFINE t == task["retract"]
             h == Tombstoned(ViewOf(t.conv), t.id)
  <2>1. "retract" \in Kinds \ {"open", "accept"} /\ t # Idle
    BY <1>3, AtIs DEF TombstoneMessage, Kinds
  <2>2. t.conv \in Convs /\ Ids(h) \subseteq Ids(ViewOf(t.conv))
    BY <2>1, RunsIs, TombstonedHist
  <2>3. view' = Show(t.conv, h) /\ Becomes("retract", Idle)
    BY <1>3 DEF TombstoneMessage
  <2> HIDE DEF h, t
  <2> QED
    BY <1>1, <2>1, <2>2, <2>3, ShowFades, IdleLoads, RenderFades
<1>4. CASE SweepMessages
  <2> DEFINE t == task["sweep"]
             h == Without(ViewOf(t.conv), Ids(t.snap) \ Ids(t.todo))
             n == [t EXCEPT !.at = "reconcile"]
  <2>1. "sweep" \in Kinds \ {"open", "accept"} /\ t # Idle
    BY <1>4, AtIs DEF SweepMessages, Kinds
  <2>2. t.conv \in Convs /\ Ids(h) \subseteq Ids(ViewOf(t.conv))
    BY <2>1, RunsIs, WithoutHist
  <2>3. view' = Show(t.conv, h) /\ Becomes("sweep", n)
    BY <1>4 DEF SweepMessages
  <2> HIDE DEF h, n, t
  <2> QED
    BY <1>1, <2>1, <2>2, <2>3, ShowFades, OtherTasks, RenderFades
<1> QED
  BY <1>2, <1>3, <1>4

LEMMA OthersRender ==
    ASSUME TInv, RenderInv, Derive \/ LoadSummaries \/ Search \/ (\E i \in Posts : Expire(i)) \/ UNCHANGED vars
    PROVE  RenderInv'
<1>1. UNCHANGED gate /\ UNCHANGED <<approved, slipped, view, task>>
  BY DEF Derive, LoadSummaries, Search, Expire, vars, screen, world, ghosts
<1> QED
  BY <1>1, ViewSame, LoadsSame, RenderFades

\* Handlers that neither change the view nor load.
LEMMA HandlersRender ==
    ASSUME TInv, RenderInv,
           \/ \E i \in Posts : Erase(i) \/ Retract(i) \/ Fetch(i)
           \/ (\E c \in Convs : Sweep(c)) \/ SweepSummary
           \/ DeclineLoads \/ DeclineReads \/ DeclineErases
           \/ (\E p \in Peers : RemoveContact(p)) \/ RemoveHistory
           \/ StoreMedia \/ (\E reached \in BOOLEAN : AckMedia(reached))
    PROVE  RenderInv'
<1>1. UNCHANGED gate /\ UNCHANGED <<approved, slipped, view>>
  BY DEF Erase, Retract, Fetch, Sweep, SweepSummary, DeclineLoads, DeclineReads, DeclineErases,
         RemoveContact, RemoveHistory, StoreMedia, AckMedia, screen, ghosts
<1>2. \E k \in Kinds \ {"open", "accept"} : \E t : Becomes(k, t)
  BY DEF Erase, Retract, Fetch, Sweep, SweepSummary, DeclineLoads, DeclineReads, DeclineErases,
         RemoveContact, RemoveHistory, StoreMedia, AckMedia, Kinds
<1> QED
  BY <1>1, <1>2, ViewSame, OtherTasks, RenderFades

LEMMA ClearsRender == ASSUME TInv, RenderInv, DeclineEnds \/ RemoveFromView PROVE RenderInv'
<1>1. PICK k \in Kinds \ {"open", "accept"} :
          /\ task[k] # Idle /\ Becomes(k, Idle) /\ view' = [view EXCEPT ![task[k].conv] = None]
  <2>1. CASE DeclineEnds
    <3>1. "decline" \in Kinds \ {"open", "accept"} /\ task["decline"] # Idle
      BY <2>1, AtIs DEF DeclineEnds, Kinds
    <3> QED
      BY <2>1, <3>1 DEF DeclineEnds
  <2>2. CASE RemoveFromView
    <3>1. "remove" \in Kinds \ {"open", "accept"} /\ task["remove"] # Idle
      BY <2>2, AtIs DEF RemoveFromView, Kinds
    <3> QED
      BY <2>2, <3>1 DEF RemoveFromView
  <2> QED
    BY <2>1, <2>2
<1>2. task[k].conv \in Convs
  BY <1>1, RunsIs
<1>3. UNCHANGED gate /\ UNCHANGED <<approved, slipped>>
  BY DEF DeclineEnds, RemoveFromView
<1> QED
  BY <1>1, <1>2, <1>3, ClearFades, IdleLoads, RenderFades

LEMMA SeedRenders == ASSUME TInv, RenderInv, Seed PROVE RenderInv'
<1>1. /\ UNCHANGED <<pending, blocked, approved, view, task>> /\ ~ seeded /\ seeded'
      /\ accepted' = accepted \cup contacts
      /\ slipped' = (contacts \ approved) \cup (contacts \cap pending)
  BY DEF Seed, screen
<1>2. \A c \in Convs : Shown(c)' => Shown(c)
  BY <1>1, ViewSame, LoadsSame, ShownFades
<1> QED
  BY <1>1, <1>2 DEF RenderInv

LEMMA BlocksRender == ASSUME TInv, RenderInv, NEW p \in Peers, Block(p) \/ Unblock(p) PROVE RenderInv'
<1>1. /\ UNCHANGED <<pending, accepted, seeded, approved, slipped, view, task>>
      /\ p \in accepted /\ (blocked' = blocked \cup {p} \/ blocked' = blocked \ {p})
  BY DEF Block, Unblock, screen, ghosts
<1>2. \A c \in Convs : Shown(c)' => Shown(c)
  BY <1>1, ViewSame, LoadsSame, ShownFades
<1> QED
  BY <1>1, <1>2 DEF RenderInv

LEMMA AcceptRenders == ASSUME TInv, RenderInv, NEW c \in Convs, Accept(c) PROVE RenderInv'
<1> DEFINE t == Begin("load", None, c)
<1>1. /\ UNCHANGED <<blocked, seeded, slipped, view>> /\ c \in pending
      /\ accepted' = accepted \cup {c} /\ pending' = pending \ {c} /\ approved' = approved \cup {c}
      /\ Becomes("accept", t)
  BY DEF Accept, screen
<1>2. t.conv = c
  BY BeginIs DEF Stages
<1> HIDE DEF t
<1>3. task'["open"] = task["open"] /\ task'["accept"].conv = c
  BY <1>1, <1>2 DEF Becomes, TInv, TasksOK, Kinds
<1>4. \A d \in Convs : Shown(d)' => Shown(d) \/ d = c
  BY <1>1, <1>3 DEF Shown, ViewOf
<1> QED
  BY <1>1, <1>4 DEF RenderInv

LEMMA AcceptLoadsRenders == ASSUME TInv, RenderInv, AcceptLoads PROVE RenderInv'
<1> DEFINE c == task["accept"].conv
           t == BeginRead("set", None, c)
<1>1. "accept" \in Kinds /\ "open" \in Kinds /\ task["accept"] # Idle
  BY AtIs DEF AcceptLoads, Kinds
<1>2. c \in Convs /\ hist[c] \in Hist
  BY <1>1, RunsIs
<1>3. t.conv = c
  BY <1>2, BeginReadIs DEF Stages
<1>4. Becomes("accept", t) /\ UNCHANGED gate /\ UNCHANGED <<approved, slipped, view>>
  BY DEF AcceptLoads, screen, ghosts
<1> HIDE DEF t
<1>5. LoadsFade
  BY <1>1, <1>3, <1>4 DEF Becomes, TInv, TasksOK, LoadsFade
<1> QED
  BY <1>4, <1>5, ViewSame, RenderFades

LEMMA DeclineRenders == ASSUME TInv, RenderInv, NEW c \in Convs, Decline(c) PROVE RenderInv'
<1> DEFINE t == Begin("load", None, c)
           who == {c} \cup (IF c \in Groups THEN {Creator[c]} ELSE {})
<1>1. /\ UNCHANGED <<seeded, slipped, view>> /\ c \in pending
      /\ pending' = pending \ who /\ accepted' = accepted \ who /\ blocked' = blocked \cup (who \cap Peers)
      /\ approved' = approved \ {c} /\ "decline" \in Kinds \ {"open", "accept"} /\ Becomes("decline", t)
  BY DEF Decline, screen, Kinds
<1>2. c \in who /\ who \subseteq {c} \cup Peers
  BY InfoIs
<1> HIDE DEF t, who
<1>3. \A d \in Convs : Shown(d)' => Shown(d)
  BY <1>1, ViewSame, OtherTasks, ShownFades
<1> QED
  BY <1>1, <1>2, <1>3 DEF RenderInv

LEMMA RestartRenders == ASSUME TInv, RenderInv, Restart PROVE RenderInv'
<1>1. /\ UNCHANGED gate /\ UNCHANGED <<approved, slipped>> /\ task' = [k \in Kinds |-> Idle]
      /\ view' = [c \in Convs |-> None]
  BY DEF Restart
<1>2. LoadsFade
  BY <1>1 DEF LoadsFade, Kinds
<1>3. ViewsFade
  BY <1>1, TheirsIs DEF ViewsFade, ViewOf
<1> QED
  BY <1>1, <1>2, <1>3, RenderFades

LEMMA NextRenders == ASSUME TInv, RenderInv, [Next]_vars PROVE RenderInv'
<1>1. ASSUME NEW p \in Peers,
             TakeDuplicate(p) \/ TakeMessage(p) \/ TakeDelete(p) \/ TakeReceipt(p) \/ TakeInvite(p)
             \/ Block(p) \/ Unblock(p) \/ RemoveContact(p)
      PROVE  RenderInv'
  BY <1>1, ChainRenders, BlocksRender, HandlersRender
<1>2. ASSUME NEW c \in Convs, Open(c) \/ Sweep(c) \/ Accept(c) \/ Decline(c) PROVE RenderInv'
  BY <1>2, OpenRenders, HandlersRender, AcceptRenders, DeclineRenders
<1>3. ASSUME NEW i \in Posts, Erase(i) \/ Retract(i) \/ Expire(i) \/ Fetch(i) PROVE RenderInv'
  BY <1>3, HandlersRender, OthersRender
<1>4. ASSUME AppendMessage \/ RenderMessage \/ HoldMessage \/ DropMessage \/ PurgeMessage
             \/ ApplyDelete \/ ApplyReceipt \/ HoldInvite \/ SendMessage \/ AppendLocalMessage
      PROVE  RenderInv'
  BY <1>4, ChainRenders, RenderMessageRenders, HoldMessageRenders, ChangesRender, HoldInviteRenders,
     AppendLocalMessageRenders
<1>5. ASSUME LoadConversation \/ EraseMessage \/ TombstoneMessage \/ SweepMessages \/ SweepSummary
             \/ Derive \/ LoadSummaries \/ Seed
      PROVE  RenderInv'
  BY <1>5, LoadsRender, ErasesRender, HandlersRender, OthersRender, SeedRenders
<1>6. ASSUME AcceptLoads \/ AcceptShows \/ DeclineLoads \/ DeclineReads \/ DeclineErases \/ DeclineEnds
             \/ RemoveHistory \/ RemoveFromView
      PROVE  RenderInv'
  BY <1>6, AcceptLoadsRenders, LoadsRender, HandlersRender, ClearsRender
<1>7. ASSUME StoreMedia \/ (\E reached \in BOOLEAN : AckMedia(reached)) \/ Search \/ Restart PROVE RenderInv'
  BY <1>7, HandlersRender, OthersRender, RestartRenders
<1> QED
  BY <1>1, <1>2, <1>3, <1>4, <1>5, <1>6, <1>7, OthersRender DEF Next

LEMMA InitRenders == ASSUME Init PROVE RenderInv
<1>1. \A c \in Convs : ~ Shown(c)
  BY TheirsIs DEF Init, Shown, ViewOf, Kinds
<1> QED
  BY <1>1 DEF Init, RenderInv

(* The unknown-sender gate: what peers wrote is drawn only in              *)
(* conversations that the user accepted, or had before there was a gate    *)
(* (gateInbound, isGroupAccepted, handleAcceptRequest, loadConversation).  *)
THEOREM RenderedHolds == Spec => []RenderedIsAccepted
<1>1. Init => TInv /\ RenderInv
  BY InitTypes, InitRenders
<1>2. TInv /\ RenderInv /\ [Next]_vars => TInv' /\ RenderInv'
  BY NextTypes, NextRenders
<1>3. ASSUME TInv, RenderInv PROVE RenderedIsAccepted
  <2> SUFFICES ASSUME NEW c \in Convs, view[c] # None, NEW e \in ToSet(view[c]), Info[e.id].from # Me
               PROVE  c \in approved \cup slipped
    BY DEF RenderedIsAccepted
  <2>1. ViewOf(c) = view[c] /\ view[c] \in Hist
    BY <1>3 DEF ViewOf, TInv, StoresOK
  <2>2. Shown(c)
    BY <2>1, EntriesOf DEF Theirs, Shown
  <2> QED
    BY <1>3, <2>2 DEF RenderInv
<1> QED
  BY <1>1, <1>2, <1>3, PTL DEF Spec


-----------------------------------------------------------------------------
(* What is gone: every step keeps GoneInv.  First, where posts stand.      *)

\* What became of a history, or of the view of one.
Settles(old, new, c) == Ids(new) \subseteq Ids(old) \/ Placed(new, c, Past')

LEMMA PlacedStays ==
    ASSUME NEW h, NEW s, NEW c, Placed(h, c, Past), Past \subseteq Past', Ids(s) \subseteq Ids(h)
    PROVE  Placed(s, c, Past')
  BY DEF Placed

LEMMA PlaceStep ==
    ASSUME TInv, PlaceInv, Past \subseteq Past',
           \A c \in Convs : Settles(hist[c], hist'[c], c) /\ Settles(ViewOf(c), ViewOf(c)', c),
           op' = op \/ (op'.at # "idle" => Placed(op'.snap, op'.conv, Past')),
           op'.at \in {"gate", "purge"} => op'.id \in handled',
           \A k \in Kinds : task'[k] = task[k] \/ PlacedTask(k, task'[k], Past'),
           asked' \subseteq asked \cup Past'
    PROVE  PlaceInv'
<1>1. ASSUME NEW c \in Convs PROVE Placed(hist'[c], c, Past') /\ Placed(ViewOf(c)', c, Past')
  <2>1. Placed(hist[c], c, Past) /\ Placed(ViewOf(c), c, Past)
    BY DEF PlaceInv
  <2>2. Settles(hist[c], hist'[c], c) /\ Settles(ViewOf(c), ViewOf(c)', c)
    OBVIOUS
  <2> QED
    BY <2>1, <2>2, PlacedStays DEF Settles
<1>2. op'.at # "idle" => Placed(op'.snap, op'.conv, Past')
  BY DEF PlaceInv, Placed
<1>3. ASSUME NEW k \in Kinds PROVE PlacedTask(k, task'[k], Past')
  <2>1. PlacedTask(k, task[k], Past)
    BY DEF PlaceInv
  <2> QED
    BY <2>1 DEF PlacedTask, Placed
<1>4. asked' \subseteq Past'
  BY DEF PlaceInv
<1> QED
  BY <1>1, <1>2, <1>3, <1>4 DEF PlaceInv

LEMMA IdlePlaced == ASSUME NEW k \in Kinds PROVE PlacedTask(k, Idle, Past')
  BY DEF PlacedTask

LEMMA NothingPlaced == ASSUME NEW c, NEW past PROVE Placed(<< >>, c, past) /\ ToSet(<< >>) = {}
<1>1. DOMAIN << >> = {}
  BY EmptySeq
<1> QED
  BY <1>1, EmptyHist DEF Placed, ToSet

LEMMA HistPlaced ==
    ASSUME PlaceInv, Past \subseteq Past', NEW c \in Convs
    PROVE  Placed(hist[c], c, Past') /\ Placed(ViewOf(c), c, Past')
  BY DEF PlaceInv, Placed

\* The posts that may not come again stay so.
LEMMA PastStays ==
    ASSUME UNCHANGED <<mode, outbox>>, handled \subseteq handled', op'.at # "local" \/ op' = op
    PROVE  Past \subseteq Past'
  BY DEF Past

-----------------------------------------------------------------------------
(* What a step does to one conversation.                                   *)

LEMMA NotSpoilt == ASSUME Grow, NEW c \in Convs \ Spoilt' PROVE c \in Convs \ Spoilt
  BY DEF Grow, Spoilt

LEMMA GoneParts ==
    ASSUME PlaceInv', Grow, GoneInv, \A c \in Convs \ Spoilt' : GoneAt(c) => GoneAt(c)'
    PROVE  GoneInv'
<1>1. \A c \in Convs \ Spoilt' : GoneAt(c)
  BY NotSpoilt DEF GoneInv
<1> QED
  BY <1>1 DEF GoneInv

\* What a handler was about to take of c it takes now, or is still about to.
TakesOver(k, c) == \A i \in Left(hist'[c]) : TakenBy(k, task[k], i) => TakenBy(k, task'[k], i)
HidesOver(k, c) == \A i \in Left(ViewOf(c)') : HiddenBy(k, task[k], i, c) => HiddenBy(k, task'[k], i, c)
FindsOver(k, c) == Finds(k, task[k], hist[c], c) => Finds(k, task'[k], hist'[c], c)

LEMMA TaskOver ==
    ASSUME NEW k \in Kinds, NEW c, task'[k] = task[k],
           Ids(hist'[c]) \subseteq Ids(hist[c]), Left(hist'[c]) \subseteq Left(hist[c])
    PROVE  TakesOver(k, c) /\ HidesOver(k, c) /\ FindsOver(k, c)
  BY DEF TakesOver, HidesOver, FindsOver, Finds

\* The handlers that neither delete, decline nor remove.
LEMMA OtherOver ==
    ASSUME NEW k \in {"open", "sweep", "accept", "fetch"}, NEW c
    PROVE  TakesOver(k, c) /\ HidesOver(k, c) /\ FindsOver(k, c)
  BY DEF TakesOver, HidesOver, FindsOver, Finds, TakenBy, HiddenBy

\* A handler that begins.
LEMMA BeginsOver ==
    ASSUME NEW k \in Kinds, NEW c, task[k] = Idle, task'[k].at # "put" \/ k = "decline"
    PROVE  TakesOver(k, c) /\ HidesOver(k, c) /\ FindsOver(k, c)
  BY IdleIs DEF TakesOver, HidesOver, FindsOver, Finds, TakenBy, HiddenBy

LEMMA GoneFrame ==
    ASSUME NEW c, GoneAt(c), asked \subseteq asked',
           Left(hist'[c]) \subseteq Left(hist[c]), Left(ViewOf(c)') \subseteq Left(ViewOf(c)),
           Ids(ViewOf(c)') \subseteq Ids(ViewOf(c)),
           \A i \in asked' : i \in asked \/ (i \in Left(hist'[c]) => Removing(i)'),
           \A i \in asked' : i \in asked \/ (i \in Left(ViewOf(c)') => Hiding(i, c)'),
           op.at = "purge" => op' = op \/ op.id \notin Left(hist'[c]),
           op'.at \in {"gate", "purge"} /\ op'.conv = c =>
               op.at \in {"gate", "purge"} /\ op.conv = c /\ op.id = op'.id,
           \A k \in Kinds : TakesOver(k, c) /\ HidesOver(k, c) /\ FindsOver(k, c)
    PROVE  GoneAt(c)'
<1>1. ASSUME NEW i \in Left(hist'[c]), i \in asked PROVE Removing(i)'
  <2>1. Removing(i)
    BY <1>1 DEF GoneAt
  <2>2. CASE op.at = "purge" /\ op.id = i
    BY <1>1, <2>2 DEF Removing
  <2>3. CASE \E k \in Kinds : TakenBy(k, task[k], i)
    BY <1>1, <2>3 DEF Removing, TakesOver
  <2> QED
    BY <2>1, <2>2, <2>3 DEF Removing
<1>2. ASSUME NEW i \in Left(ViewOf(c)'), i \in asked PROVE Hiding(i, c)'
  <2>1. Hiding(i, c)
    BY <1>2 DEF GoneAt
  <2> QED
    BY <1>2, <2>1 DEF Hiding, HidesOver
<1>3. op'.at \in {"gate", "purge"} /\ op'.conv = c => op'.id \notin Ids(ViewOf(c)')
  BY DEF GoneAt
<1>4. \A k \in Kinds : Finds(k, task'[k], hist'[c], c)
  BY DEF GoneAt, FindsOver
<1>5. \A i \in Left(hist'[c]) \cap asked' : Removing(i)'
  BY <1>1
<1>6. \A i \in Left(ViewOf(c)') \cap asked' : Hiding(i, c)'
  BY <1>2
<1> QED
  BY <1>3, <1>4, <1>5, <1>6 DEF GoneAt

Over(k, c) == TakesOver(k, c) /\ HidesOver(k, c) /\ FindsOver(k, c)

HistSettles == \A c \in Convs : Settles(hist[c], hist'[c], c)
HistLeaves ==
    \A c \in Convs \ Spoilt' : Ids(hist'[c]) \subseteq Ids(hist[c]) /\ Left(hist'[c]) \subseteq Left(hist[c])
ViewLeaves ==
    \A c \in Convs : Ids(ViewOf(c)') \subseteq Ids(ViewOf(c)) /\ Left(ViewOf(c)') \subseteq Left(ViewOf(c))

\* A step that writes no post anywhere.
LEMMA FadeStep ==
    ASSUME TInv, GoneInv, Grow, Past \subseteq Past', HistSettles, HistLeaves, ViewLeaves,
           op' = op \/ (op'.at # "idle" => Placed(op'.snap, op'.conv, Past')),
           op'.at \in {"gate", "purge"} =>
               op.at \in {"gate", "purge"} /\ op.conv = op'.conv /\ op.id = op'.id /\ handled \subseteq handled',
           \A k \in Kinds : task'[k] = task[k] \/ PlacedTask(k, task'[k], Past'),
           asked' \subseteq asked \cup Past',
           \A c \in Convs \ Spoilt' : \A i \in asked' \ asked :
               (i \in Left(hist'[c]) => Removing(i)') /\ (i \in Left(ViewOf(c)') => Hiding(i, c)'),
           \A c \in Convs \ Spoilt' : op.at = "purge" => op' = op \/ op.id \notin Left(hist'[c]),
           \A c \in Convs \ Spoilt' : \A k \in Kinds : Over(k, c)
    PROVE  GoneInv'
<1>1. op'.at \in {"gate", "purge"} => op'.id \in handled'
  BY DEF GoneInv, PlaceInv
<1>2. PlaceInv'
  <2>1. \A c \in Convs : Settles(hist[c], hist'[c], c) /\ Settles(ViewOf(c), ViewOf(c)', c)
    BY DEF HistSettles, ViewLeaves, Settles
  <2> QED
    BY <1>1, <2>1, PlaceStep DEF GoneInv
<1>3. ASSUME NEW c \in Convs \ Spoilt', GoneAt(c) PROVE GoneAt(c)'
  <2>1. Left(hist'[c]) \subseteq Left(hist[c])
    BY DEF HistLeaves
  <2>2. Left(ViewOf(c)') \subseteq Left(ViewOf(c)) /\ Ids(ViewOf(c)') \subseteq Ids(ViewOf(c))
    BY DEF ViewLeaves
  <2>3. \A k \in Kinds : TakesOver(k, c) /\ HidesOver(k, c) /\ FindsOver(k, c)
    BY DEF Over
  <2>4. asked \subseteq asked'
    BY DEF Grow
  <2> QED
    BY <1>3, <2>1, <2>2, <2>3, <2>4, GoneFrame
<1> QED
  BY <1>2, <1>3, GoneParts

LEMMA SameSettles == ASSUME UNCHANGED hist PROVE HistSettles /\ HistLeaves
  BY DEF HistSettles, HistLeaves, Settles

LEMMA SameLeaves == ASSUME UNCHANGED view PROVE ViewLeaves
  BY DEF ViewLeaves, ViewOf

\* A step that leaves histories and views alone and asks for nothing to go.
LEMMA QuietStep ==
    ASSUME TInv, GoneInv, UNCHANGED <<hist, view, asked, mode, outbox>>, handled \subseteq handled', Grow,
           \/ op' = op
           \/ /\ op.at # "purge" /\ op'.at \notin {"gate", "purge", "local"}
              /\ op'.at # "idle" => Placed(op'.snap, op'.conv, Past'),
           \A k \in Kinds :
               \/ task'[k] = task[k]
               \/ /\ PlacedTask(k, task'[k], Past')
                  /\ k \in {"open", "sweep", "accept", "fetch"}
                        \/ (task[k] = Idle /\ (task'[k].at # "put" \/ k = "decline"))
    PROVE  GoneInv'
<1>1. Past \subseteq Past'
  BY PastStays
<1>2. HistSettles /\ HistLeaves /\ ViewLeaves
  BY SameSettles, SameLeaves
<1>3. ASSUME NEW c \in Convs, NEW k \in Kinds PROVE Over(k, c)
  <2>1. CASE task'[k] = task[k]
    BY <2>1, TaskOver DEF Over
  <2>2. CASE k \in {"open", "sweep", "accept", "fetch"}
    BY <2>2, OtherOver DEF Over
  <2>3. CASE task[k] = Idle /\ (task'[k].at # "put" \/ k = "decline")
    BY <2>3, BeginsOver DEF Over
  <2> QED
    BY <2>1, <2>2, <2>3
<1>4. asked' \subseteq asked
  OBVIOUS
<1> QED
  BY <1>1, <1>2, <1>3, <1>4, FadeStep

LEMMA TakesGone ==
    ASSUME TInv, GoneInv, NEW p \in Peers,
           TakeDuplicate(p) \/ TakeMessage(p) \/ TakeDelete(p) \/ TakeReceipt(p) \/ TakeInvite(p)
    PROVE  GoneInv'
<1> DEFINE i == Head(inbox[p])
<1>1. /\ UNCHANGED <<hist, view, asked, mode, outbox, task>> /\ handled \subseteq handled' /\ Grow
      /\ op = Idle /\ inbox[p] # << >>
  BY DEF TakeDuplicate, TakeMessage, TakeDelete, TakeReceipt, TakeInvite, Take, Grow, stores, screen, world, ghosts
<1>2. i \in Posts /\ Info[i].conv \in Convs /\ p \in Convs
  BY <1>1, InfoIs, SeqParts DEF TInv, MailOK
<1>3. hist[Info[i].conv] \in Hist /\ hist[p] \in Hist
  BY <1>2, ViewOfIs DEF TInv
<1>4. \/ op' = op
      \/ op' = Idle
      \/ op' = BeginRead("append", i, Info[i].conv)
      \/ op' = BeginRead("tombstone", i, p)
      \/ op' = BeginRead("status", Info[i].target, p) /\ Info[i].target \in Ids(hist[p])
      \/ op' = Begin("invited", i, Info[i].conv)
  BY DEF TakeDuplicate, TakeMessage, TakeDelete, TakeReceipt, TakeInvite, Take
<1>a. op.at = "idle"
  BY <1>1, IdleIs
<1> HIDE DEF i
<1>5. op' = op \/ (op'.at \notin {"gate", "purge", "local"} /\ (op'.at = "idle" \/ op'.snap = << >>
                     \/ (op'.conv \in Convs /\ op'.snap = hist[op'.conv])))
  <2>1. CASE op' = BeginRead("append", i, Info[i].conv)
    BY <1>2, <1>3, <2>1, BeginReadIs DEF Stages
  <2>2. CASE op' = BeginRead("tombstone", i, p)
    BY <1>2, <1>3, <2>2, BeginReadIs DEF Stages
  <2>3. CASE op' = BeginRead("status", Info[i].target, p) /\ Info[i].target \in Ids(hist[p])
    <3>1. Info[i].target \in Posts
      BY <1>3, <2>3, HistType
    <3> QED
      BY <1>2, <1>3, <2>3, <3>1, BeginReadIs DEF Stages
  <2>4. CASE op' = Begin("invited", i, Info[i].conv)
    BY <1>2, <2>4, BeginIs DEF Stages
  <2> QED
    BY <1>4, <2>1, <2>2, <2>3, <2>4, IdleIs
<1>6. Past \subseteq Past'
  BY <1>1, <1>5, PastStays
<1>7. op' = op \/ (op'.at \notin {"gate", "purge", "local"} /\ (op'.at # "idle" => Placed(op'.snap, op'.conv, Past')))
  BY <1>5, <1>6, HistPlaced, NothingPlaced DEF GoneInv
<1> QED
  BY <1>1, <1>a, <1>7, QuietStep

LEMMA HoldsGone == ASSUME TInv, GoneInv, HoldMessage \/ HoldInvite PROVE GoneInv'
<1>1. /\ UNCHANGED <<hist, view, asked, mode, outbox, task, handled>> /\ Grow
      /\ op.at \in {"gate", "invited"} /\ op' = Idle
  BY DEF HoldMessage, HoldInvite, Finish, Grow, stores, screen, ghosts
<1> QED
  BY <1>1, IdleIs, QuietStep

LEMMA OthersGone ==
    ASSUME TInv, GoneInv,
           \/ Derive \/ LoadSummaries \/ Seed \/ Search \/ (\E p \in Peers : Block(p) \/ Unblock(p))
           \/ (\E i \in Posts : Expire(i)) \/ UNCHANGED vars
    PROVE  GoneInv'
<1>1. UNCHANGED <<hist, view, asked, mode, outbox, task, handled, op>> /\ Grow
  BY DEF Derive, LoadSummaries, Seed, Search, Block, Unblock, Expire, Grow, vars, stores, screen, world, ghosts
<1> QED
  BY <1>1, QuietStep

\* One handler goes on, and neither writes, deletes nor asks.
LEMMA QuietTask ==
    ASSUME TInv, GoneInv, UNCHANGED <<hist, view, asked, mode, outbox, handled, op>>, Grow,
           NEW k \in Kinds, NEW t, Becomes(k, t), Past \subseteq Past' => PlacedTask(k, t, Past'),
           k \in {"open", "sweep", "accept", "fetch"} \/ (task[k] = Idle /\ (t.at # "put" \/ k = "decline"))
    PROVE  GoneInv'
<1>1. task'[k] = t /\ \A j \in Kinds : j # k => task'[j] = task[j]
  BY TaskIs DEF TInv
<1>2. Past \subseteq Past'
  BY PastStays
<1> QED
  BY <1>1, <1>2, QuietStep

\* It begins to read a history.
LEMMA ReadsGone ==
    ASSUME TInv, GoneInv, UNCHANGED <<hist, view, asked, mode, outbox, handled, op>>, Grow,
           NEW k \in Kinds \ {"erase", "retract", "decline"}, NEW t, Becomes(k, t), t.conv \in Convs,
           t.snap = hist[t.conv] \/ t.snap = << >>,
           k \in {"open", "sweep", "accept", "fetch"} \/ (task[k] = Idle /\ t.at # "put")
    PROVE  GoneInv'
<1>1. ASSUME Past \subseteq Past' PROVE PlacedTask(k, t, Past')
  <2>1. Placed(t.snap, t.conv, Past')
    BY <1>1, HistPlaced, NothingPlaced DEF GoneInv
  <2> QED
    BY <2>1 DEF PlacedTask
<1> QED
  BY <1>1, QuietTask

LEMMA HandlersGone ==
    ASSUME TInv, GoneInv,
           \/ (\E c \in Convs : Open(c) \/ Sweep(c) \/ Accept(c)) \/ AcceptLoads
           \/ (\E p \in Peers : RemoveContact(p))
    PROVE  GoneInv'
<1>1. UNCHANGED <<hist, view, asked, mode, outbox, handled, op>> /\ Grow
  BY DEF Open, Sweep, Accept, AcceptLoads, RemoveContact, Grow, stores, screen, world, ghosts
<1>2. ASSUME NEW c \in Convs, Open(c) PROVE GoneInv'
  <2> DEFINE t == BeginRead("set", None, c)
  <2>1. "open" \in Kinds \ {"erase", "retract", "decline"} /\ (Becomes("open", t) \/ UNCHANGED task)
    BY <1>2 DEF Open, Kinds
  <2>2. t.conv = c /\ t.snap = hist[c]
    BY ViewOfIs, BeginReadIs DEF TInv, Stages
  <2> HIDE DEF t
  <2> QED
    BY <1>1, <2>1, <2>2, ReadsGone, QuietStep
<1>3. ASSUME NEW c \in Convs, Sweep(c) PROVE GoneInv'
  <2> DEFINE t == [BeginRead("put", None, c) EXCEPT !.todo = Kept(hist[c])]
  <2>1. "sweep" \in Kinds \ {"erase", "retract", "decline"} /\ Becomes("sweep", t) /\ t.conv = c /\ t.snap = hist[c]
    BY <1>3, SweepIs
  <2> HIDE DEF t
  <2> QED
    BY <1>1, <2>1, ReadsGone
<1>4. ASSUME NEW c \in Convs, Accept(c) PROVE GoneInv'
  <2> DEFINE t == Begin("load", None, c)
  <2>1. "accept" \in Kinds \ {"erase", "retract", "decline"} /\ Becomes("accept", t) /\ t.conv = c /\ t.snap = << >>
    BY <1>4, BeginIs DEF Accept, Kinds, Stages
  <2> HIDE DEF t
  <2> QED
    BY <1>1, <2>1, ReadsGone
<1>5. CASE AcceptLoads
  <2> DEFINE c == task["accept"].conv
             t == BeginRead("set", None, c)
  <2>1. "accept" \in Kinds \ {"erase", "retract", "decline"} /\ Becomes("accept", t) /\ task["accept"] # Idle
    BY <1>5, AtIs DEF AcceptLoads, Kinds
  <2>2. c \in Convs /\ hist[c] \in Hist
    BY <2>1, RunsIs
  <2>3. t.conv = c /\ t.snap = hist[c]
    BY <2>2, BeginReadIs DEF Stages
  <2> HIDE DEF t, c
  <2> QED
    BY <1>1, <2>1, <2>2, <2>3, ReadsGone
<1>6. ASSUME NEW p \in Peers, RemoveContact(p) PROVE GoneInv'
  <2> DEFINE t == BeginRead("wipe", None, p)
  <2>1. "remove" \in Kinds \ {"erase", "retract", "decline"} /\ Becomes("remove", t) /\ task["remove"] = Idle /\ p \in Convs
    BY <1>6, InfoIs DEF RemoveContact, Handler, Kinds
  <2>2. t.conv = p /\ t.snap = hist[p] /\ t.at = "wipe"
    <3>1. "wipe" \in Stages
      BY DEF Stages
    <3>2. hist[p] \in Hist
      BY <2>1, ViewOfIs DEF TInv
    <3> QED
      BY <2>1, <3>1, <3>2, BeginReadIs
  <2> HIDE DEF t
  <2> QED
    BY <1>1, <2>1, <2>2, ReadsGone
<1> QED
  BY <1>2, <1>3, <1>4, <1>5, <1>6

LEMMA FetchesGone ==
    ASSUME TInv, GoneInv,
           \/ (\E i \in Posts : Fetch(i)) \/ StoreMedia \/ (\E reached \in BOOLEAN : AckMedia(reached))
           \/ SweepSummary \/ (\E c \in Convs : Decline(c))
    PROVE  GoneInv'
<1>1. UNCHANGED <<hist, view, asked, mode, outbox, handled, op>> /\ Grow
  BY DEF Fetch, StoreMedia, AckMedia, SweepSummary, Decline, Grow, stores, screen, world, ghosts
<1>2. ASSUME NEW k \in Kinds, Becomes(k, Idle), k \in {"open", "sweep", "accept", "fetch"} PROVE GoneInv'
  BY <1>1, <1>2, QuietTask, IdlePlaced
<1>3. ASSUME NEW i \in Posts, Fetch(i) PROVE GoneInv'
  <2> DEFINE t == Begin("store", i, active)
  <2>1. "fetch" \in Kinds \ {"erase", "retract", "decline"} /\ Becomes("fetch", t) /\ active \in Convs
    BY <1>3, VisibleIs DEF Fetch, Attached, Kinds
  <2>2. t.conv = active /\ t.snap = << >>
    BY <2>1, BeginIs DEF Stages
  <2> HIDE DEF t
  <2> QED
    BY <1>1, <2>1, <2>2, ReadsGone
<1>4. CASE StoreMedia
  <2> DEFINE t == Begin("ack", task["fetch"].id, task["fetch"].conv)
  <2>1. /\ "fetch" \in Kinds \ {"erase", "retract", "decline"} /\ t.conv \in Convs /\ t.snap = << >>
        /\ Becomes("fetch", t) \/ Becomes("fetch", Idle)
    BY <1>4, StoreMediaIs
  <2> HIDE DEF t
  <2> QED
    BY <1>1, <1>2, <2>1, ReadsGone
<1>5. CASE SweepSummary \/ \E reached \in BOOLEAN : AckMedia(reached)
  BY <1>2, <1>5 DEF SweepSummary, AckMedia, Kinds
<1>6. ASSUME NEW c \in Convs, Decline(c) PROVE GoneInv'
  <2> DEFINE t == Begin("load", None, c)
  <2>1. "decline" \in Kinds /\ Becomes("decline", t) /\ task["decline"] = Idle
    BY <1>6 DEF Decline, Handler, Kinds
  <2>2. t.at = "load" /\ t.conv = c /\ t.snap = << >> /\ t.todo = << >>
    BY BeginIs DEF Stages
  <2> HIDE DEF t
  <2>3. PlacedTask("decline", t, Past')
    BY <2>1, <2>2, NothingPlaced DEF PlacedTask, ToSet
  <2> QED
    BY <1>1, <2>1, <2>3, QuietTask
<1> QED
  BY <1>3, <1>4, <1>5, <1>6

-----------------------------------------------------------------------------
(* The chain.                                                              *)

LEMMA Elsewhere ==
    ASSUME TInv, GoneInv, NEW c \in Convs
    PROVE  /\ \A i \in Ids(hist[c]) \cup Left(hist[c]) : i \in Past /\ Info[i].conv = c
           /\ \A i \in Ids(ViewOf(c)) \cup Left(ViewOf(c)) : i \in Past /\ Info[i].conv = c
<1>1. Left(hist[c]) \subseteq Ids(hist[c]) /\ Left(ViewOf(c)) \subseteq Ids(ViewOf(c))
  BY ViewOfIs, HistType DEF TInv
<1> QED
  BY <1>1 DEF GoneInv, PlaceInv, Placed

\* A put of less than was read.
LEMMA PutSettles ==
    ASSUME TInv, NEW c \in Convs, NEW snap, NEW h, Put(c, snap, h), Placed(snap, c, Past), Past \subseteq Past',
           Ids(h) \subseteq Ids(snap), Left(h) \subseteq Left(snap)
    PROVE  /\ HistSettles /\ HistLeaves /\ crossed \subseteq crossed'
           /\ hist'[c] = h /\ (\A d \in Convs : d # c => hist'[d] = hist[d])
<1>1. hist'[c] = h /\ \A d \in Convs : d # c => hist'[d] = hist[d]
  BY DEF Put, TInv, StoresOK
<1>2. crossed \subseteq crossed' /\ (c \in Spoilt' \/ hist[c] = snap)
  BY DEF Put, Spoilt
<1>3. Placed(h, c, Past')
  BY PlacedStays
<1> QED
  BY <1>1, <1>2, <1>3 DEF HistSettles, HistLeaves, Settles

LEMMA ShowLeaves ==
    ASSUME TInv, NEW c \in Convs, NEW h, view' = Show(c, h),
           Ids(h) \subseteq Ids(ViewOf(c)), Left(h) \subseteq Left(ViewOf(c))
    PROVE  /\ ViewLeaves /\ Left(ViewOf(c)') \subseteq Left(h)
           /\ \A d \in Convs : d # c => ViewOf(d)' = ViewOf(d)
<1>1. \A d \in Convs : d # c => ViewOf(d)' = ViewOf(d)
  BY DEF Show, TInv, StoresOK, ViewOf
<1>2. ViewOf(c)' = h \/ ViewOf(c)' = << >>
  BY DEF Show, TInv, StoresOK, ViewOf
<1> QED
  BY <1>1, <1>2, EmptyHist DEF ViewLeaves

LEMMA SameOver ==
    ASSUME UNCHANGED task, HistLeaves
    PROVE  \A c \in Convs \ Spoilt' : \A k \in Kinds : Over(k, c)
  BY TaskOver DEF Over, HistLeaves

LEMMA PurgeMessageGone == ASSUME TInv, KeepInv, GoneInv, PurgeMessage PROVE GoneInv'
<1> DEFINE h == Without(op.snap, {op.id})
<1>1. /\ op.at = "purge" /\ op.id \in Posts /\ op.conv \in Convs /\ op.snap \in Hist
      /\ Info[op.id].conv = op.conv
  BY DEF TInv, OpOK, PurgeMessage, Finish, Tasks
<1>2. Ids(h) = Ids(op.snap) \ {op.id} /\ Left(h) = Left(op.snap) \ {op.id}
  BY <1>1, WithoutHist
<1>3. /\ Put(op.conv, op.snap, h) /\ op' = Idle
      /\ UNCHANGED <<view, asked, mode, outbox, task, handled, torn>>
  BY DEF PurgeMessage, Finish, screen
<1> HIDE DEF h
<1>4. Past \subseteq Past' /\ Placed(op.snap, op.conv, Past)
  BY <1>1, <1>3, IdleIs, PastStays DEF GoneInv, PlaceInv
<1>5. /\ HistSettles /\ HistLeaves /\ crossed \subseteq crossed'
      /\ hist'[op.conv] = h /\ (\A d \in Convs : d # op.conv => hist'[d] = hist[d])
  BY <1>1, <1>2, <1>3, <1>4, PutSettles
<1>6. \A c \in Convs : op.id \notin Left(hist'[c])
  BY <1>1, <1>2, <1>5, Elsewhere
<1>7. Grow /\ ViewLeaves
  BY <1>3, <1>5, SameLeaves DEF PurgeMessage, Grow
<1> QED
  BY <1>3, <1>4, <1>5, <1>6, <1>7, IdleIs, SameOver, FadeStep

LEMMA ApplyDeleteGone == ASSUME TInv, KeepInv, GoneInv, ApplyDelete PROVE GoneInv'
<1>0. PICK c \in Convs : c = op.conv
  BY ApplyDeleteIs
<1> DEFINE i == Info[op.id].target
           h == Tombstoned(op.snap, i)
           s == Tombstoned(ViewOf(c), i)
<1>1. /\ op.snap \in Hist /\ op.at = "tombstone"
      /\ \/ /\ i \in Left(op.snap) /\ Put(c, op.snap, h) /\ asked' = asked \cup {i} /\ view' = Show(c, s)
         \/ UNCHANGED <<hist, view, crossed, asked>>
  BY <1>0, ApplyDeleteIs DEF ApplyDelete, Finish
<1>2. UNCHANGED <<mode, outbox, task, expired, torn>> /\ handled \subseteq handled' /\ op' = Idle
  BY DEF ApplyDelete, Finish
<1>3. CASE UNCHANGED <<hist, view, crossed, asked>>
  BY <1>1, <1>2, <1>3, IdleIs, QuietStep DEF Grow
<1>4. CASE i \in Left(op.snap) /\ Put(c, op.snap, h) /\ asked' = asked \cup {i} /\ view' = Show(c, s)
  <2>1. ViewOf(c) \in Hist
    BY <1>1, ViewOfIs DEF TInv
  <2>2. /\ Ids(h) = Ids(op.snap) /\ Left(h) = Left(op.snap) \ {i}
        /\ Ids(s) = Ids(ViewOf(c)) /\ Left(s) = Left(ViewOf(c)) \ {i}
    BY <1>1, <2>1, TombstonedHist
  <2> HIDE DEF h, s, i
  <2>3. Past \subseteq Past' /\ Placed(op.snap, c, Past)
    BY <1>0, <1>1, <1>2, IdleIs, PastStays DEF GoneInv, PlaceInv
  <2>4. /\ HistSettles /\ HistLeaves /\ crossed \subseteq crossed'
        /\ hist'[c] = h /\ (\A d \in Convs : d # c => hist'[d] = hist[d])
    BY <1>1, <1>4, <2>2, <2>3, PutSettles
  <2>5. /\ ViewLeaves /\ Left(ViewOf(c)') \subseteq Left(s)
        /\ \A d \in Convs : d # c => ViewOf(d)' = ViewOf(d)
    BY <1>1, <1>4, <2>2, ShowLeaves
  <2>6. i \in Past /\ Info[i].conv = c
    BY <1>1, <1>4, <2>3, HistType DEF Placed
  <2>7. \A d \in Convs : i \notin Left(hist'[d]) /\ i \notin Left(ViewOf(d)')
    BY <2>2, <2>4, <2>5, <2>6, Elsewhere
  <2>8. Grow /\ asked' \subseteq asked \cup Past'
    BY <1>2, <1>4, <2>3, <2>4, <2>6 DEF Grow
  <2> QED
    BY <1>1, <1>2, <1>4, <2>3, <2>4, <2>5, <2>7, <2>8, IdleIs, SameOver, FadeStep
<1> QED
  BY <1>1, <1>3, <1>4

LEMMA ApplyReceiptGone == ASSUME TInv, KeepInv, GoneInv, ApplyReceipt PROVE GoneInv'
<1>0. PICK c \in Convs : c = op.conv
  BY DEF TInv, OpOK, ApplyReceipt
<1> DEFINE h == Delivered(op.snap, op.id)
           s == Delivered(ViewOf(c), op.id)
<1>1. op.snap \in Hist /\ op.at = "status"
  BY DEF TInv, OpOK, ApplyReceipt, Tasks
<1>2. ViewOf(c) \in Hist
  BY <1>1, ViewOfIs DEF TInv
<1>3. Ids(h) = Ids(op.snap) /\ Left(h) = Left(op.snap) /\ Ids(s) = Ids(ViewOf(c)) /\ Left(s) = Left(ViewOf(c))
  BY <1>1, <1>2, DeliveredHist
<1>4. /\ Put(c, op.snap, h) \/ UNCHANGED <<hist, crossed>>
      /\ view' = Show(c, s)
      /\ UNCHANGED <<mode, outbox, task, expired, torn, handled, asked>> /\ op' = Idle
  BY <1>0 DEF ApplyReceipt, world
<1> HIDE DEF h, s
<1>5. Past \subseteq Past' /\ Placed(op.snap, c, Past)
  BY <1>0, <1>1, <1>4, IdleIs, PastStays DEF GoneInv, PlaceInv
<1>6. HistSettles /\ HistLeaves /\ crossed \subseteq crossed'
  BY <1>1, <1>3, <1>4, <1>5, PutSettles, SameSettles
<1>7. ViewLeaves
  BY <1>1, <1>3, <1>4, ShowLeaves
<1>8. Grow
  BY <1>4, <1>6 DEF Grow
<1> QED
  BY <1>1, <1>4, <1>5, <1>6, <1>7, <1>8, IdleIs, SameOver, FadeStep

\* A step that writes one post, which nobody has asked to go.
LEMMA WriteStep ==
    ASSUME TInv, KeepInv, GoneInv, Grow, Past \subseteq Past', UNCHANGED <<task, asked>>, op.at # "purge",
           NEW c \in Convs, NEW i \in Posts, c \notin Spoilt' => i \notin asked, i \in Past', Info[i].conv = c,
           \A d \in Convs : d # c => hist'[d] = hist[d] /\ ViewOf(d)' = ViewOf(d),
           Placed(hist'[c], c, Past'), Ids(ViewOf(c)') \subseteq Ids(ViewOf(c)) \cup {i},
           Left(ViewOf(c)') \subseteq Left(ViewOf(c)) \cup {i},
           c \notin Spoilt' => /\ Ids(hist'[c]) \subseteq Ids(hist[c]) \cup {i}
                               /\ Left(hist'[c]) \subseteq Left(hist[c]) \cup {i},
           \/ op'.at = "idle"
           \/ /\ op'.at = "gate" /\ op'.conv = c /\ op'.id = i /\ i \in handled' /\ op'.snap = << >>
              /\ i \notin Ids(ViewOf(c)')
    PROVE  GoneInv'
<1>1. PlaceInv'
  <2>1. Placed(ViewOf(c)', c, Past')
    BY HistPlaced DEF GoneInv, Placed
  <2>2. \A d \in Convs : Settles(hist[d], hist'[d], d) /\ Settles(ViewOf(d), ViewOf(d)', d)
    BY <2>1 DEF Settles
  <2>3. op'.at # "idle" => Placed(op'.snap, op'.conv, Past')
    BY NothingPlaced
  <2>4. op'.at \in {"gate", "purge"} => op'.id \in handled'
    OBVIOUS
  <2>5. asked' \subseteq asked
    OBVIOUS
  <2> QED
    BY <2>2, <2>3, <2>4, <2>5, PlaceStep DEF GoneInv
<1>2. ASSUME NEW d \in Convs \ Spoilt', GoneAt(d), d # c PROVE GoneAt(d)'
  <2>1. \A k \in Kinds : TakesOver(k, d) /\ HidesOver(k, d) /\ FindsOver(k, d)
    BY <1>2, TaskOver
  <2>2. hist'[d] = hist[d] /\ ViewOf(d)' = ViewOf(d) /\ asked' = asked
    BY <1>2
  <2>3. op'.at \in {"gate", "purge"} => op'.conv # d
    BY <1>2
  <2> QED
    BY <1>2, <2>1, <2>2, <2>3, GoneFrame
<1>3. ASSUME c \notin Spoilt', GoneAt(c) PROVE GoneAt(c)'
  <2>1. ASSUME NEW j \in Left(hist'[c]), j \in asked PROVE Removing(j)'
    <3>1. j \in Left(hist[c])
      BY <1>3, <2>1
    <3>2. Removing(j)
      BY <1>3, <2>1, <3>1 DEF GoneAt
    <3> QED
      BY <3>2 DEF Removing
  <2>2. ASSUME NEW j \in Left(ViewOf(c)'), j \in asked PROVE Hiding(j, c)'
    <3>1. j \in Left(ViewOf(c))
      BY <1>3, <2>2
    <3>2. Hiding(j, c)
      BY <1>3, <2>2, <3>1 DEF GoneAt
    <3> QED
      BY <3>2 DEF Hiding
  <2>3. ASSUME NEW k \in Kinds PROVE Finds(k, task'[k], hist'[c], c)
    <3>1. Finds(k, task[k], hist[c], c)
      BY <1>3 DEF GoneAt
    <3>2. k \in {"erase", "retract"} /\ task[k].at = "put" => task[k].id # i
      BY <1>3 DEF KeepInv, JustInv, Justified
    <3> QED
      BY <1>3, <3>1, <3>2 DEF Finds
  <2>4. op'.at \in {"gate", "purge"} /\ op'.conv = c => op'.id \notin Ids(ViewOf(c)')
    OBVIOUS
  <2>5. asked' = asked
    OBVIOUS
  <2> QED
    BY <2>1, <2>2, <2>3, <2>4, <2>5 DEF GoneAt
<1> QED
  BY <1>1, <1>2, <1>3, GoneParts

LEMMA HandledIs == ASSUME TInv PROVE \A i \in handled : Info[i].from # Me
  BY InfoIs DEF TInv, MailOK

LEMMA AppendMessageGone == ASSUME TInv, KeepInv, GoneInv, AppendMessage PROVE GoneInv'
<1>0. PICK c \in Convs, i \in Posts : c = op.conv /\ i = op.id
  BY DEF TInv, OpOK, AppendMessage
<1> DEFINE h == Append(op.snap, Entry(i))
<1>1. /\ op.snap \in Hist /\ op.at = "append" /\ op \in Tasks /\ Info[i].conv = c /\ i \notin handled
      /\ Info[i].from \in Peers
  BY <1>0 DEF TInv, OpOK, AppendMessage, Tasks
<1>2. Ids(h) = Ids(op.snap) \cup {i} /\ Left(h) = Left(op.snap) \cup {i}
  BY <1>1, AppendedHist
<1>3. /\ Put(c, op.snap, h) /\ handled' = handled \cup {i} /\ op' = [op EXCEPT !.at = "gate", !.snap = << >>]
      /\ UNCHANGED <<view, asked, mode, outbox, task, expired, torn>>
  BY <1>0 DEF AppendMessage, screen, world
<1> HIDE DEF h
<1>4. op'.at = "gate" /\ op'.conv = c /\ op'.id = i /\ op'.snap = << >>
  BY <1>0, <1>1, <1>3 DEF Tasks
<1>5. Past \subseteq Past' /\ i \in Past' /\ i \notin Past
  <2>1. Past \subseteq Past' /\ i \in Past'
    BY <1>3, <1>4, PastStays DEF Past
  <2>2. i \notin Past
    BY <1>1, InfoIs DEF Past
  <2> QED
    BY <2>1, <2>2
<1>6. hist'[c] = h /\ (\A d \in Convs : d # c => hist'[d] = hist[d])
  BY <1>3 DEF Put, TInv, StoresOK
<1>7. crossed \subseteq crossed' /\ (c \in Spoilt' \/ hist[c] = op.snap)
  BY <1>3 DEF Put, Spoilt
<1>8. Placed(hist'[c], c, Past')
  <2>1. Placed(op.snap, c, Past)
    BY <1>0, <1>1 DEF GoneInv, PlaceInv
  <2> QED
    BY <1>1, <1>2, <1>5, <1>6, <2>1 DEF Placed
<1>9. i \notin asked /\ i \notin Ids(ViewOf(c))
  BY <1>5, Elsewhere DEF GoneInv, PlaceInv
<1>10. Grow /\ \A d \in Convs : ViewOf(d)' = ViewOf(d)
  BY <1>3, <1>7 DEF Grow, ViewOf
<1>11. i \in handled'
  BY <1>3
<1> QED
  BY <1>1, <1>2, <1>3, <1>4, <1>5, <1>6, <1>7, <1>8, <1>9, <1>10, <1>11, WriteStep

LEMMA AppendLocalMessageGone == ASSUME TInv, KeepInv, GoneInv, AppendLocalMessage PROVE GoneInv'
<1>0. PICK c \in Convs, i \in Posts : c = op.conv /\ i = op.id
  BY DEF TInv, OpOK, AppendLocalMessage
<1> DEFINE h == Append(op.snap, Entry(i))
           s == Append(ViewOf(c), Entry(i))
<1>1. /\ op.snap \in Hist /\ op.at = "local" /\ Info[i].conv = c /\ Info[i].from = Me
      /\ ViewOf(c) \in Hist
  BY <1>0, ViewOfIs DEF TInv, OpOK, AppendLocalMessage, Tasks
<1>2. /\ Ids(h) = Ids(op.snap) \cup {i} /\ Left(h) = Left(op.snap) \cup {i}
      /\ Ids(s) = Ids(ViewOf(c)) \cup {i} /\ Left(s) = Left(ViewOf(c)) \cup {i} /\ s \in Hist
  BY <1>1, AppendedHist
<1>3. /\ Put(c, op.snap, h) /\ view' = [view EXCEPT ![c] = s] /\ op' = Idle
      /\ UNCHANGED <<handled, asked, mode, outbox, task, expired, torn>>
  BY <1>0 DEF AppendLocalMessage, world
<1> HIDE DEF h, s
<1>4. op'.at = "idle"
  BY <1>3, IdleIs
<1>5. Past \subseteq Past' /\ i \in Past' /\ i \notin Past
  <2>1. i \notin Past
    BY <1>0, <1>1, HandledIs DEF Past
  <2>2. i \notin ToSet(outbox)
    BY <1>0, <1>1 DEF TInv, OpOK, ToSet
  <2>3. i \in Past'
    BY <1>1, <1>3, <1>4, <2>2 DEF Past
  <2> QED
    BY <1>3, <1>4, <2>1, <2>3, PastStays
<1>6. hist'[c] = h /\ (\A d \in Convs : d # c => hist'[d] = hist[d])
  BY <1>3 DEF Put, TInv, StoresOK
<1>7. crossed \subseteq crossed' /\ (c \in Spoilt' \/ hist[c] = op.snap)
  BY <1>3 DEF Put, Spoilt
<1>8. \A d \in Convs : d # c => ViewOf(d)' = ViewOf(d)
  BY <1>3 DEF TInv, StoresOK, ViewOf
<1>9. Ids(ViewOf(c)') \subseteq Ids(ViewOf(c)) \cup {i} /\ Left(ViewOf(c)') \subseteq Left(ViewOf(c)) \cup {i}
  <2>1. ViewOf(c)' \in {s, << >>}
    BY <1>3 DEF TInv, StoresOK, ViewOf
  <2> QED
    BY <1>2, <2>1, EmptyHist
<1>10. Grow /\ i \notin asked
  BY <1>3, <1>5, <1>7 DEF Grow, GoneInv, PlaceInv
<1>11. Placed(hist'[c], c, Past')
  <2>1. Placed(op.snap, c, Past)
    BY <1>0, <1>1 DEF GoneInv, PlaceInv
  <2> QED
    BY <1>1, <1>2, <1>5, <1>6, <2>1 DEF Placed
<1> QED
  BY <1>1, <1>2, <1>3, <1>4, <1>5, <1>6, <1>7, <1>8, <1>9, <1>10, <1>11, WriteStep

LEMMA RenderMessageGone == ASSUME TInv, KeepInv, GoneInv, RenderMessage PROVE GoneInv'
<1>0. PICK c \in Convs, i \in Posts : c = op.conv /\ i = op.id
  BY DEF TInv, OpOK, RenderMessage, Finish
<1> DEFINE s == Append(ViewOf(c), Entry(i))
<1>1. op.at = "gate" /\ Info[i].conv = c /\ ViewOf(c) \in Hist
  BY <1>0, ViewOfIs DEF TInv, OpOK, RenderMessage, Finish
<1>2. Ids(s) = Ids(ViewOf(c)) \cup {i} /\ Left(s) = Left(ViewOf(c)) \cup {i}
  BY <1>1, AppendedHist
<1>3. /\ view' = [view EXCEPT ![c] = s] /\ op' = Idle
      /\ UNCHANGED <<hist, handled, asked, mode, outbox, task, expired, torn>>
      /\ crossed' = IF i \in asked THEN crossed \cup {c} ELSE crossed
  BY <1>0 DEF RenderMessage, Finish, stores
<1> HIDE DEF s
<1>4. op'.at = "idle"
  BY <1>3, IdleIs
<1>5. Past \subseteq Past' /\ i \in Past'
  <2>1. Past \subseteq Past' /\ Past' = handled' \cup Past'
    BY <1>3, <1>4, PastStays DEF Past
  <2>2. i \in handled
    BY <1>0, <1>1 DEF GoneInv, PlaceInv
  <2> QED
    BY <1>3, <2>1, <2>2
<1>6. \A d \in Convs : d # c => ViewOf(d)' = ViewOf(d)
  BY <1>3 DEF TInv, StoresOK, ViewOf
<1>7. Ids(ViewOf(c)') \subseteq Ids(ViewOf(c)) \cup {i} /\ Left(ViewOf(c)') \subseteq Left(ViewOf(c)) \cup {i}
  <2>1. ViewOf(c)' \in {s, << >>}
    BY <1>3 DEF TInv, StoresOK, ViewOf
  <2> QED
    BY <1>2, <2>1, EmptyHist
<1>8. Grow /\ (c \notin Spoilt' => i \notin asked)
  BY <1>3 DEF Grow, Spoilt
<1>9. Placed(hist'[c], c, Past')
  BY <1>3, <1>5, HistPlaced DEF GoneInv
<1> QED
  BY <1>1, <1>3, <1>4, <1>5, <1>6, <1>7, <1>8, <1>9, WriteStep

\* A message that is not let in is not in the view.
LEMMA DropMessageGone == ASSUME TInv, KeepInv, GoneInv, DropMessage PROVE GoneInv'
<1>0. PICK c \in Convs, i \in Posts : c = op.conv /\ i = op.id
  BY DEF TInv, OpOK, DropMessage
<1>1. op.at = "gate" /\ Info[i].conv = c /\ hist[c] \in Hist
  BY <1>0, ViewOfIs DEF TInv, OpOK, DropMessage
<1>2. /\ UNCHANGED <<hist, view, handled, mode, outbox, task, expired, torn, crossed>>
      /\ asked' = asked \cup {i} /\ op' = BeginRead("purge", i, c)
  BY <1>0 DEF DropMessage, stores, screen, world
<1>3. op'.at = "purge" /\ op'.id = i /\ op'.conv = c /\ op'.snap = hist[c]
  BY <1>1, <1>2, BeginReadIs DEF Stages
<1>4. Past \subseteq Past' /\ i \in Past'
  <2>1. Past \subseteq Past' /\ Past' = handled' \cup Past'
    BY <1>2, <1>3, PastStays DEF Past
  <2>2. i \in handled
    BY <1>0, <1>1 DEF GoneInv, PlaceInv
  <2> QED
    BY <1>2, <2>1, <2>2
<1>5. Placed(op'.snap, op'.conv, Past')
  BY <1>3, <1>4, HistPlaced DEF GoneInv
<1>6. Grow /\ HistSettles /\ HistLeaves /\ ViewLeaves
  BY <1>2, SameSettles, SameLeaves DEF Grow
<1>7. ASSUME NEW d \in Convs \ Spoilt' PROVE i \notin Left(ViewOf(d)')
  <2>1. ViewOf(d)' = ViewOf(d) /\ ViewOf(d) \in Hist
    BY <1>2, ViewOfIs DEF ViewOf, TInv
  <2>2. GoneAt(d)
    BY <1>6, NotSpoilt DEF GoneInv
  <2>3. d = c => i \notin Ids(ViewOf(d))
    BY <1>0, <1>1, <2>2 DEF GoneAt
  <2> QED
    BY <1>1, <2>1, <2>3, Elsewhere, HistType
<1>8. Removing(i)'
  BY <1>3 DEF Removing
<1>9. /\ asked' \subseteq asked \cup Past'
      /\ \A d \in Convs \ Spoilt' : \A j \in asked' \ asked :
            (j \in Left(hist'[d]) => Removing(j)') /\ (j \in Left(ViewOf(d)') => Hiding(j, d)')
  BY <1>2, <1>4, <1>7, <1>8
<1> QED
  BY <1>0, <1>1, <1>2, <1>3, <1>4, <1>5, <1>6, <1>9, SameOver, FadeStep

LEMMA SendMessageGone == ASSUME TInv, KeepInv, GoneInv, SendMessage PROVE GoneInv'
<1> DEFINE i == Head(outbox)
           c == Info[i].conv
<1>1. /\ UNCHANGED <<hist, view, handled, asked, mode, task, expired, torn, crossed>>
      /\ op = Idle /\ outbox # << >> /\ outbox' = Tail(outbox) /\ op' = BeginRead("local", i, c)
  BY DEF SendMessage, screen, ghosts
<1>2. i \in Posts /\ ToSet(outbox) = {i} \cup ToSet(outbox')
  BY <1>1, SeqParts, HeadAndTail DEF TInv, MailOK
<1>3. c \in Convs /\ hist[c] \in Hist
  BY <1>2, InfoIs, ViewOfIs DEF TInv
<1> HIDE DEF c, i
<1>4. op'.at = "local" /\ op'.id = i /\ op'.conv = c /\ op'.snap = hist[c]
  BY <1>1, <1>2, <1>3, BeginReadIs DEF Stages
<1>5. Past \subseteq Past'
  BY <1>1, <1>2, <1>4 DEF Past
<1>6. Placed(op'.snap, op'.conv, Past')
  BY <1>3, <1>4, <1>5, HistPlaced DEF GoneInv
<1>7. Grow /\ HistSettles /\ HistLeaves /\ ViewLeaves
  BY <1>1, SameSettles, SameLeaves DEF Grow
<1>8. asked' \subseteq asked /\ op.at = "idle"
  BY <1>1, IdleIs
<1> QED
  BY <1>1, <1>4, <1>5, <1>6, <1>7, <1>8, SameOver, FadeStep

-----------------------------------------------------------------------------
(* The handlers that ask, delete, decline or remove.                       *)

\* What is loaded is the stored history, or the conversation counts as crossed.
LEMMA LoadsGone == ASSUME TInv, KeepInv, GoneInv, LoadConversation \/ AcceptShows PROVE GoneInv'
<1>1. PICK k \in {"open", "accept"} :
          /\ task[k] # Idle /\ Becomes(k, Idle)
          /\ \/ UNCHANGED <<view, crossed>>
             \/ /\ view' = [view EXCEPT ![task[k].conv] = task[k].snap]
                /\ crossed' = Overtaken(task[k].conv, task[k].snap)
  <2>1. CASE LoadConversation
    <3>1. task["open"] # Idle
      BY <2>1, AtIs DEF LoadConversation, Kinds
    <3> QED
      BY <2>1, <3>1 DEF LoadConversation
  <2>2. CASE AcceptShows
    <3>1. task["accept"] # Idle
      BY <2>2, AtIs DEF AcceptShows, Kinds
    <3> QED
      BY <2>2, <3>1 DEF AcceptShows
  <2> QED
    BY <2>1, <2>2
<1>2. k \in Kinds /\ task[k].conv \in Convs /\ task[k].snap \in Hist
  BY <1>1, RunsIs DEF Kinds
<1>3. PICK c \in Convs, snap \in Hist : c = task[k].conv /\ snap = task[k].snap
  BY <1>2
<1>4. UNCHANGED <<hist, handled, asked, mode, outbox, op, expired, torn>>
  BY DEF LoadConversation, AcceptShows, stores, world
<1>5. task'[k] = Idle /\ \A j \in Kinds : j # k => task'[j] = task[j]
  BY <1>1, <1>2, TaskIs DEF TInv
<1>6. Past \subseteq Past'
  BY <1>4, PastStays
<1>7. CASE UNCHANGED <<view, crossed>>
  BY <1>1, <1>2, <1>4, <1>7, QuietTask, IdlePlaced DEF Grow
<1>8. CASE view' = [view EXCEPT ![c] = snap] /\ crossed' = Overtaken(c, snap)
  <2>1. \A d \in Convs : d # c => ViewOf(d)' = ViewOf(d)
    BY <1>8 DEF TInv, StoresOK, ViewOf
  <2>2. ViewOf(c)' \in {snap, << >>}
    BY <1>8 DEF TInv, StoresOK, ViewOf
  <2>3. /\ crossed \subseteq crossed'
        /\ c \in Spoilt' \/ (hist[c] = snap /\ ~ (op.at \in {"gate", "purge"} /\ op.conv = c))
    BY <1>8 DEF Overtaken, Spoilt
  <2>4. Placed(snap, c, Past) /\ Placed(<< >>, c, Past)
    BY <1>1, <1>2, <1>3, NothingPlaced DEF GoneInv, PlaceInv, PlacedTask
  <2>5. PlaceInv'
    <3>1. \A d \in Convs : Settles(hist[d], hist'[d], d) /\ Settles(ViewOf(d), ViewOf(d)', d)
      BY <1>4, <1>6, <2>1, <2>2, <2>4 DEF Settles, Placed
    <3>2. \A j \in Kinds : task'[j] = task[j] \/ PlacedTask(j, task'[j], Past')
      BY <1>2, <1>5, IdlePlaced
    <3>3. op'.at \in {"gate", "purge"} => op'.id \in handled'
      BY <1>4 DEF GoneInv, PlaceInv
    <3>4. asked' \subseteq asked /\ op' = op
      BY <1>4
    <3> QED
      BY <1>6, <3>1, <3>2, <3>3, <3>4, PlaceStep DEF GoneInv
  <2>6. Grow
    BY <1>4, <2>3 DEF Grow
  <2>7. ASSUME NEW d \in Convs, NEW j \in Kinds PROVE Over(j, d)
    BY <1>1, <1>4, <1>5, OtherOver, TaskOver DEF Over
  <2>8. ASSUME NEW d \in Convs \ Spoilt', GoneAt(d), d # c PROVE GoneAt(d)'
    <3>1. hist'[d] = hist[d] /\ ViewOf(d)' = ViewOf(d) /\ asked' = asked /\ op' = op
      BY <1>4, <2>1, <2>8
    <3>2. \A j \in Kinds : TakesOver(j, d) /\ HidesOver(j, d) /\ FindsOver(j, d)
      BY <2>7 DEF Over
    <3> QED
      BY <2>8, <3>1, <3>2, GoneFrame
  <2>9. ASSUME c \notin Spoilt', GoneAt(c) PROVE GoneAt(c)'
    <3>1. hist[c] = snap /\ ~ (op.at \in {"gate", "purge"} /\ op.conv = c)
      BY <2>3, <2>9
    <3>2. ASSUME NEW i \in Left(hist[c]), i \in asked PROVE Removing(i) /\ Removing(i)' /\ Hiding(i, c)'
      <4>1. Removing(i)
        BY <2>9, <3>2 DEF GoneAt
      <4>2. Info[i].conv = c
        BY <3>2, Elsewhere
      <4>3. ~ (op.at = "purge" /\ op.id = i)
        BY <3>1, <4>2 DEF TInv, OpOK
      <4>4. PICK j \in Kinds : TakenBy(j, task[j], i)
        BY <4>1, <4>3 DEF Removing
      <4>5. task'[j] = task[j] /\ task[j] # Idle
        BY <1>1, <1>5, <4>4, IdleIs DEF TakenBy
      <4>6. Removing(i)'
        BY <4>4, <4>5 DEF Removing
      <4>7. PlacedTask(j, task[j], Past)
        BY DEF GoneInv, PlaceInv
      <4>8. HiddenBy(j, task[j], i, c)
        BY <4>2, <4>4, <4>5, <4>7 DEF TakenBy, HiddenBy, PlacedTask
      <4> QED
        BY <4>1, <4>5, <4>6, <4>8 DEF Hiding
    <3>3. Left(ViewOf(c)') \subseteq Left(hist[c])
      BY <2>2, <3>1, EmptyHist
    <3>4. \A j \in Kinds : Finds(j, task'[j], hist'[c], c)
      BY <2>7, <2>9 DEF GoneAt, Over, FindsOver
    <3>5. /\ \A i \in Left(hist'[c]) \cap asked' : Removing(i)'
          /\ \A i \in Left(ViewOf(c)') \cap asked' : Hiding(i, c)'
      BY <1>4, <3>2, <3>3
    <3>6. op'.at \in {"gate", "purge"} /\ op'.conv = c => op'.id \notin Ids(ViewOf(c)')
      BY <1>4, <3>1
    <3> QED
      BY <3>4, <3>5, <3>6 DEF GoneAt
  <2> QED
    BY <2>5, <2>6, <2>8, <2>9, GoneParts
<1> QED
  BY <1>1, <1>3, <1>7, <1>8

\* One handler goes on, beside the chain, and writes no post anywhere.
LEMMA TaskStep ==
    ASSUME TInv, GoneInv, Grow, UNCHANGED <<mode, outbox, handled, op>>, HistSettles, HistLeaves, ViewLeaves,
           NEW k \in Kinds, NEW t, Becomes(k, t), PlacedTask(k, t, Past'), asked' \subseteq asked \cup Past',
           \A c \in Convs \ Spoilt' : \A i \in asked' \ asked :
               (i \in Left(hist'[c]) => Removing(i)') /\ (i \in Left(ViewOf(c)') => Hiding(i, c)'),
           \A c \in Convs \ Spoilt' : Over(k, c)
    PROVE  GoneInv'
<1>1. task'[k] = t /\ \A j \in Kinds : j # k => task'[j] = task[j]
  BY TaskIs DEF TInv
<1>2. Past \subseteq Past'
  BY PastStays
<1>3. ASSUME NEW c \in Convs \ Spoilt', NEW j \in Kinds PROVE Over(j, c)
  <2>1. CASE j = k
    BY <2>1
  <2>2. CASE j # k
    BY <1>1, <2>2, TaskOver DEF Over, HistLeaves
  <2> QED
    BY <2>1, <2>2
<1>4. \A j \in Kinds : task'[j] = task[j] \/ PlacedTask(j, task'[j], Past')
  BY <1>1
<1>5. handled \subseteq handled' /\ op' = op
  OBVIOUS
<1> QED
  BY <1>2, <1>3, <1>4, <1>5, FadeStep

LEMMA TaskPlaced == ASSUME GoneInv, Past \subseteq Past', NEW k \in Kinds PROVE PlacedTask(k, task[k], Past')
  BY DEF GoneInv, PlaceInv, PlacedTask, Placed

LEMMA AsksGone == ASSUME TInv, KeepInv, GoneInv, NEW i \in Posts, Erase(i) \/ Retract(i) PROVE GoneInv'
<1>0. PICK k \in {"erase", "retract"} : task[k] = Idle /\ Becomes(k, BeginRead("put", i, active))
  BY DEF Erase, Retract, Handler
<1> DEFINE t == BeginRead("put", i, active)
<1>1. /\ UNCHANGED <<hist, view, handled, mode, outbox, op, expired, torn, crossed>>
      /\ asked' = asked \cup {i} /\ i \in Visible(active) /\ k \in Kinds
  BY DEF Erase, Retract, stores, screen, Kinds
<1>2. active \in Convs /\ hist[active] \in Hist /\ i \in Ids(ViewOf(active))
  BY <1>1, VisibleIs, ViewOfIs DEF Visible, TInv
<1>3. t.at = "put" /\ t.id = i /\ t.conv = active /\ t.snap = hist[active]
  BY <1>2, BeginReadIs DEF Stages
<1> HIDE DEF t
<1>4. Past \subseteq Past'
  BY <1>1, PastStays
<1>5. i \in Past /\ Info[i].conv = active
  BY <1>2, Elsewhere
<1>6. PlacedTask(k, t, Past')
  <2>1. Placed(t.snap, t.conv, Past')
    BY <1>2, <1>3, <1>4, HistPlaced DEF GoneInv
  <2> QED
    BY <1>3, <1>5, <2>1 DEF PlacedTask
<1>7. task'[k] = t
  BY <1>0, <1>1, TaskIs DEF TInv, t
<1>8. ASSUME NEW c \in Convs PROVE Over(k, c)
  BY <1>0, <1>1, <1>3, <1>7, IdleIs DEF Over, TakesOver, HidesOver, FindsOver, Finds, TakenBy, HiddenBy
<1>9. Removing(i)' /\ \A c \in Convs : Hiding(i, c)'
  <2>1. TakenBy(k, task'[k], i) /\ \A c \in Convs : HiddenBy(k, task'[k], i, c)
    BY <1>3, <1>7 DEF TakenBy, HiddenBy
  <2> QED
    BY <1>1, <2>1 DEF Removing, Hiding
<1>10. Grow /\ HistSettles /\ HistLeaves /\ ViewLeaves /\ asked' \subseteq asked \cup Past'
  BY <1>1, <1>4, <1>5, SameSettles, SameLeaves DEF Grow
<1>11. Becomes(k, t)
  BY <1>0 DEF t
<1>12. \A c \in Convs \ Spoilt' : \A j \in asked' \ asked :
          (j \in Left(hist'[c]) => Removing(j)') /\ (j \in Left(ViewOf(c)') => Hiding(j, c)')
  BY <1>1, <1>9
<1> QED
  BY <1>1, <1>6, <1>8, <1>10, <1>11, <1>12, TaskStep

\* A deletion takes the message out of the history and the view, or empties it in both.
LEMMA DeletesGone ==
    ASSUME TInv, GoneInv, NEW k \in {"erase", "retract"}, NEW c \in Convs, NEW i, NEW h, NEW s,
           task[k].at = "put", c = task[k].conv, i = task[k].id, Becomes(k, Idle),
           UNCHANGED <<asked, mode, outbox, handled, op, expired, torn>>,
           \/ Put(c, task[k].snap, h)
           \/ UNCHANGED <<hist, crossed>> /\ (c \notin Spoilt => i \notin Left(hist[c])),
           Ids(h) \subseteq Ids(task[k].snap), Left(h) \subseteq Left(task[k].snap) \ {i},
           view' = Show(c, s), Ids(s) \subseteq Ids(ViewOf(c)), Left(s) \subseteq Left(ViewOf(c)) \ {i}
    PROVE  GoneInv'
<1>1. k \in Kinds /\ task[k] # Idle
  BY IdleIs DEF Kinds
<1>2. task'[k] = Idle
  BY <1>1, TaskIs DEF TInv
<1>3. Past \subseteq Past'
  BY PastStays
<1>4. Placed(task[k].snap, c, Past) /\ Info[i].conv = c
  BY <1>1 DEF GoneInv, PlaceInv, PlacedTask
<1>5. /\ HistSettles /\ HistLeaves /\ crossed \subseteq crossed'
      /\ c \notin Spoilt' => i \notin Left(hist'[c])
  <2>1. CASE Put(c, task[k].snap, h)
    <3>1. /\ HistSettles /\ HistLeaves /\ crossed \subseteq crossed' /\ hist'[c] = h
      BY <1>3, <1>4, <2>1, PutSettles
    <3> QED
      BY <3>1
  <2>2. CASE UNCHANGED <<hist, crossed>> /\ (c \notin Spoilt => i \notin Left(hist[c]))
    BY <2>2, SameSettles DEF Spoilt
  <2> QED
    BY <2>1, <2>2
<1>6. ViewLeaves /\ Left(ViewOf(c)') \subseteq Left(s)
  BY ShowLeaves
<1>7. ASSUME NEW d \in Convs \ Spoilt' PROVE Over(k, d)
  <2>1. i \notin Left(hist'[d])
    BY <1>4, <1>5, Elsewhere DEF HistLeaves
  <2>2. i \notin Left(ViewOf(d)')
    BY <1>4, <1>6, Elsewhere DEF ViewLeaves
  <2>3. TakesOver(k, d)
    BY <2>1 DEF TakesOver, TakenBy
  <2>4. HidesOver(k, d)
    BY <2>2 DEF HidesOver, HiddenBy
  <2>5. FindsOver(k, d)
    BY <1>2, IdleIs DEF FindsOver, Finds
  <2> QED
    BY <2>3, <2>4, <2>5 DEF Over
<1>8. Grow /\ asked' = asked
  BY <1>5 DEF Grow
<1> QED
  BY <1>1, <1>5, <1>6, <1>7, <1>8, IdlePlaced, TaskStep

LEMMA EraseMessageGone == ASSUME TInv, KeepInv, GoneInv, EraseMessage PROVE GoneInv'
<1> DEFINE t == task["erase"]
           h == Without(t.snap, {t.id})
           s == Without(ViewOf(t.conv), {t.id})
<1>1. "erase" \in Kinds /\ t # Idle /\ t.at = "put"
  BY AtIs DEF EraseMessage, Kinds
<1>2. t.conv \in Convs /\ t.snap \in Hist /\ ViewOf(t.conv) \in Hist /\ hist[t.conv] \in Hist
  BY <1>1, RunsIs
<1>3. /\ Ids(h) = Ids(t.snap) \ {t.id} /\ Left(h) = Left(t.snap) \ {t.id}
      /\ Ids(s) = Ids(ViewOf(t.conv)) \ {t.id} /\ Left(s) = Left(ViewOf(t.conv)) \ {t.id}
  BY <1>2, WithoutHist
<1>4. /\ Put(t.conv, t.snap, h) \/ (t.id \notin Ids(t.snap) /\ UNCHANGED <<hist, crossed>>)
      /\ UNCHANGED <<asked, mode, outbox, handled, op, expired, torn>> /\ Becomes("erase", Idle)
      /\ view' = Show(t.conv, s)
  BY DEF EraseMessage, world
<1> HIDE DEF h, s
<1>5. ASSUME t.id \notin Ids(t.snap), t.conv \notin Spoilt PROVE t.id \notin Left(hist[t.conv])
  <2>1. Finds("erase", t, hist[t.conv], t.conv)
    BY <1>1, <1>2, <1>5 DEF GoneInv, GoneAt
  <2>2. t.id \notin Ids(hist[t.conv])
    BY <1>1, <1>5, <2>1 DEF Finds
  <2> QED
    BY <1>2, <2>2, HistType
<1>6. \/ Put(t.conv, t.snap, h)
      \/ UNCHANGED <<hist, crossed>> /\ (t.conv \notin Spoilt => t.id \notin Left(hist[t.conv]))
  BY <1>4, <1>5
<1>7. PICK c \in Convs : c = t.conv
  BY <1>2
<1> QED
  BY <1>1, <1>3, <1>4, <1>6, <1>7, DeletesGone

LEMMA TombstoneMessageGone == ASSUME TInv, KeepInv, GoneInv, TombstoneMessage PROVE GoneInv'
<1> DEFINE t == task["retract"]
           h == Tombstoned(t.snap, t.id)
           s == Tombstoned(ViewOf(t.conv), t.id)
<1>1. "retract" \in Kinds /\ t # Idle /\ t.at = "put"
  BY AtIs DEF TombstoneMessage, Kinds
<1>2. t.conv \in Convs /\ t.snap \in Hist /\ ViewOf(t.conv) \in Hist
  BY <1>1, RunsIs
<1>3. /\ Ids(h) = Ids(t.snap) /\ Left(h) = Left(t.snap) \ {t.id}
      /\ Ids(s) = Ids(ViewOf(t.conv)) /\ Left(s) = Left(ViewOf(t.conv)) \ {t.id}
  BY <1>2, TombstonedHist
<1>4. /\ Put(t.conv, t.snap, h) \/ (~ Untouched(t.snap, t.id) /\ UNCHANGED <<hist, crossed>>)
      /\ UNCHANGED <<asked, mode, outbox, handled, op, expired, torn>> /\ Becomes("retract", Idle)
      /\ view' = Show(t.conv, s)
  BY DEF TombstoneMessage, world
<1> HIDE DEF h, s
<1>5. ASSUME ~ Untouched(t.snap, t.id), t.conv \notin Spoilt PROVE t.id \notin Left(hist[t.conv])
  <2>1. Finds("retract", t, hist[t.conv], t.conv)
    BY <1>1, <1>2, <1>5 DEF GoneInv, GoneAt
  <2>2. t.id \notin Left(t.snap)
    BY <1>2, <1>5, UntouchedIsLeft
  <2> QED
    BY <1>1, <2>1, <2>2 DEF Finds
<1>6. \/ Put(t.conv, t.snap, h)
      \/ UNCHANGED <<hist, crossed>> /\ (t.conv \notin Spoilt => t.id \notin Left(hist[t.conv]))
  BY <1>4, <1>5
<1>7. PICK c \in Convs : c = t.conv
  BY <1>2
<1> QED
  BY <1>1, <1>3, <1>4, <1>6, <1>7, DeletesGone

LEMMA SweepMessagesGone == ASSUME TInv, KeepInv, GoneInv, SweepMessages PROVE GoneInv'
<1> DEFINE t == task["sweep"]
           n == [t EXCEPT !.at = "reconcile"]
           gone == Ids(t.snap) \ Ids(t.todo)
           s == Without(ViewOf(t.conv), gone)
<1>1. "sweep" \in Kinds /\ t # Idle /\ t.at = "put"
  BY AtIs DEF SweepMessages, Kinds
<1>2. t.conv \in Convs /\ t \in Tasks /\ ViewOf(t.conv) \in Hist
  BY <1>1, RunsIs
<1>3. Ids(t.todo) \subseteq Ids(t.snap) /\ Left(t.todo) \subseteq Left(t.snap)
  BY <1>1 DEF KeepInv, JustInv, Justified
<1>4. /\ Put(t.conv, t.snap, t.todo) /\ Becomes("sweep", n) /\ view' = Show(t.conv, s)
      /\ UNCHANGED <<asked, mode, outbox, handled, op, expired, torn>>
  BY DEF SweepMessages, world
<1>5. n.conv = t.conv /\ n.snap = t.snap
  BY <1>2 DEF Tasks
<1>6. Ids(s) \subseteq Ids(ViewOf(t.conv)) /\ Left(s) \subseteq Left(ViewOf(t.conv))
  BY <1>2, WithoutHist
<1>7. PICK c \in Convs : c = t.conv
  BY <1>2
<1> HIDE DEF n, s, t
<1>8. Past \subseteq Past'
  BY <1>4, PastStays
<1>9. Placed(t.snap, c, Past) /\ PlacedTask("sweep", n, Past')
  <2>1. Placed(t.snap, t.conv, Past)
    BY <1>1 DEF GoneInv, PlaceInv, PlacedTask, t
  <2> QED
    BY <1>5, <1>7, <1>8, <2>1 DEF PlacedTask, Placed
<1>10. HistSettles /\ HistLeaves /\ crossed \subseteq crossed'
  BY <1>3, <1>4, <1>7, <1>8, <1>9, PutSettles
<1>11. ViewLeaves
  BY <1>4, <1>6, <1>7, ShowLeaves
<1>12. Grow /\ asked' = asked /\ \A d \in Convs : Over("sweep", d)
  BY <1>4, <1>10, OtherOver DEF Grow, Over
<1> QED
  BY <1>1, <1>4, <1>9, <1>10, <1>11, <1>12, TaskStep

\* Whoever declines asks for what it read to go, and is still to take it.
LEMMA DeclineLoadsGone == ASSUME TInv, KeepInv, GoneInv, DeclineLoads PROVE GoneInv'
<1> DEFINE t == task["decline"]
           h == hist[t.conv]
           todo == [n \in 1 .. Len(h) |-> h[n].id]
           u == [t EXCEPT !.at = "read", !.todo = todo]
<1>1. /\ "decline" \in Kinds /\ Becomes("decline", u) /\ u.at = "read" /\ u.conv = t.conv /\ u.todo = todo
      /\ u.snap = t.snap /\ ToSet(todo) = Ids(h) /\ t.conv \in Convs /\ t # Idle
  BY DeclineLoadsIs
<1>2. /\ UNCHANGED <<hist, view, handled, mode, outbox, op, expired, torn, crossed>>
      /\ asked' = asked \cup Ids(h) /\ t.at = "load"
  BY DEF DeclineLoads, stores, screen, world, Runs
<1>3. PICK c \in Convs : c = t.conv
  BY <1>1
<1> HIDE DEF u, todo, t
<1>4. Past \subseteq Past'
  BY <1>2, PastStays
<1>5. \A i \in Ids(h) : i \in Past /\ Info[i].conv = c
  BY <1>3, Elsewhere
<1>6. PlacedTask("decline", u, Past')
  <2>1. Placed(t.snap, t.conv, Past')
    BY <1>1, <1>4, TaskPlaced DEF PlacedTask, t
  <2> QED
    BY <1>1, <1>3, <1>5, <2>1 DEF PlacedTask
<1>7. task'["decline"] = u /\ task["decline"] = t
  BY <1>1, TaskIs DEF TInv, t
<1>8. ASSUME NEW d \in Convs PROVE Over("decline", d)
  BY <1>2, <1>7 DEF Over, TakesOver, HidesOver, FindsOver, Finds, TakenBy, HiddenBy
<1>9. ASSUME NEW i \in Ids(h) PROVE Removing(i)' /\ Hiding(i, c)'
  <2>1. TakenBy("decline", task'["decline"], i) /\ HiddenBy("decline", task'["decline"], i, c)
    BY <1>1, <1>3, <1>7 DEF TakenBy, HiddenBy
  <2> QED
    BY <1>1, <2>1 DEF Removing, Hiding
<1>10. ASSUME NEW d \in Convs, NEW i \in asked' \ asked
       PROVE  (i \in Left(hist'[d]) => Removing(i)') /\ (i \in Left(ViewOf(d)') => Hiding(i, d)')
  <2>1. i \in Ids(h) /\ ViewOf(d)' = ViewOf(d)
    BY <1>2 DEF ViewOf
  <2>2. i \in Left(ViewOf(d)') => d = c
    BY <1>5, <2>1, Elsewhere
  <2> QED
    BY <1>9, <2>1, <2>2
<1>11. Grow /\ HistSettles /\ HistLeaves /\ ViewLeaves /\ asked' \subseteq asked \cup Past'
  BY <1>2, <1>4, <1>5, SameSettles, SameLeaves DEF Grow
<1> QED
  BY <1>1, <1>2, <1>6, <1>8, <1>10, <1>11, TaskStep

LEMMA DeclineReadsGone == ASSUME TInv, KeepInv, GoneInv, DeclineReads PROVE GoneInv'
<1> DEFINE t == task["decline"]
           u == [t EXCEPT !.at = "put", !.id = Head(t.todo), !.snap = hist[t.conv], !.todo = Tail(t.todo)]
<1>1. /\ "decline" \in Kinds /\ Becomes("decline", u) /\ t # Idle /\ t.conv \in Convs
      /\ u.at = "put" /\ u.conv = t.conv /\ u.snap = hist[t.conv]
      /\ ToSet(t.todo) = {u.id} \cup ToSet(u.todo) /\ t.at = "read"
  BY DeclineReadsIs
<1>2. UNCHANGED <<hist, view, handled, asked, mode, outbox, op, expired, torn, crossed>>
  BY DEF DeclineReads, stores, screen, world, ghosts
<1>3. PICK c \in Convs : c = t.conv
  BY <1>1
<1> HIDE DEF u, t
<1>4. Past \subseteq Past'
  BY <1>2, PastStays
<1>5. PlacedTask("decline", u, Past')
  <2>1. \A i \in ToSet(t.todo) : Info[i].conv = t.conv
    BY <1>1, <1>4, TaskPlaced DEF PlacedTask, t
  <2>2. Placed(u.snap, c, Past')
    BY <1>1, <1>3, <1>4, HistPlaced DEF GoneInv
  <2> QED
    BY <1>1, <1>3, <2>1, <2>2 DEF PlacedTask
<1>6. task'["decline"] = u /\ task["decline"] = t
  BY <1>1, TaskIs DEF TInv, t
<1>7. ASSUME NEW d \in Convs PROVE Over("decline", d)
  BY <1>1, <1>6 DEF Over, TakesOver, HidesOver, FindsOver, Finds, TakenBy, HiddenBy
<1>8. Grow /\ HistSettles /\ HistLeaves /\ ViewLeaves /\ asked' = asked
  BY <1>2, SameSettles, SameLeaves DEF Grow
<1> QED
  BY <1>1, <1>2, <1>5, <1>7, <1>8, TaskStep

LEMMA DeclineErasesGone == ASSUME TInv, KeepInv, GoneInv, DeclineErases PROVE GoneInv'
<1> DEFINE t == task["decline"]
           u == [t EXCEPT !.at = "read", !.snap = << >>]
           h == Without(t.snap, {t.id})
<1>1. /\ "decline" \in Kinds /\ Becomes("decline", u) /\ u.at = "read" /\ u.todo = t.todo /\ t.at = "put"
      /\ u.conv = t.conv /\ u.snap = << >> /\ t # Idle /\ t.conv \in Convs /\ t.snap \in Hist
  BY DeclineErasesIs
<1>2. Put(t.conv, t.snap, h) /\ UNCHANGED <<view, handled, asked, mode, outbox, op, expired, torn>>
  BY DEF DeclineErases, screen, world
<1>3. Ids(h) = Ids(t.snap) \ {t.id} /\ Left(h) = Left(t.snap) \ {t.id}
  BY <1>1, WithoutHist
<1>4. PICK c \in Convs : c = t.conv
  BY <1>1
<1> HIDE DEF u, h, t
<1>5. Past \subseteq Past'
  BY <1>2, PastStays
<1>6. /\ Placed(t.snap, c, Past) /\ Info[t.id].conv = c
      /\ \A i \in ToSet(t.todo) : Info[i].conv = c
  BY <1>1, <1>4 DEF GoneInv, PlaceInv, PlacedTask, t
<1>7. PlacedTask("decline", u, Past')
  BY <1>1, <1>4, <1>6, NothingPlaced DEF PlacedTask
<1>8. /\ HistSettles /\ HistLeaves /\ crossed \subseteq crossed' /\ hist'[c] = h
      /\ \A d \in Convs : d # c => hist'[d] = hist[d]
  BY <1>2, <1>3, <1>4, <1>5, <1>6, PutSettles
<1>9. task'["decline"] = u /\ task["decline"] = t
  BY <1>1, TaskIs DEF TInv, t
<1>10. ASSUME NEW d \in Convs PROVE Over("decline", d)
  <2>1. t.id \notin Left(hist'[d])
    BY <1>3, <1>6, <1>8, Elsewhere
  <2> QED
    BY <1>1, <1>9, <2>1 DEF Over, TakesOver, HidesOver, FindsOver, Finds, TakenBy, HiddenBy
<1>11. Grow /\ ViewLeaves /\ asked' = asked
  BY <1>2, <1>8, SameLeaves DEF Grow
<1> QED
  BY <1>1, <1>2, <1>7, <1>8, <1>10, <1>11, TaskStep

\* Who would still take what the view of c has, when the view is not there any more.
LEMMA ClearLeaves ==
    ASSUME TInv, NEW c \in Convs, view' = [view EXCEPT ![c] = None]
    PROVE  /\ ViewLeaves /\ Left(ViewOf(c)') = {}
           /\ \A d \in Convs : d # c => ViewOf(d)' = ViewOf(d)
  BY EmptyHist DEF TInv, StoresOK, ViewOf, ViewLeaves

LEMMA EndsGone == ASSUME TInv, KeepInv, GoneInv, DeclineEnds \/ RemoveFromView PROVE GoneInv'
<1>1. PICK k \in {"decline", "remove"} :
          /\ Becomes(k, Idle) /\ task[k] # Idle /\ view' = [view EXCEPT ![task[k].conv] = None]
          /\ k = "decline" => task[k].at = "read" /\ task[k].todo = << >>
  <2>1. CASE DeclineEnds
    <3>1. task["decline"] # Idle
      BY <2>1, AtIs DEF DeclineEnds, Kinds
    <3> QED
      BY <2>1, <3>1 DEF DeclineEnds, Runs
  <2>2. CASE RemoveFromView
    <3>1. task["remove"] # Idle
      BY <2>2, AtIs DEF RemoveFromView, Kinds
    <3> QED
      BY <2>2, <3>1 DEF RemoveFromView
  <2> QED
    BY <2>1, <2>2
<1>2. /\ UNCHANGED <<hist, handled, asked, mode, outbox, op, expired, torn>> /\ crossed \subseteq crossed'
      /\ k \in Kinds
  BY DEF DeclineEnds, RemoveFromView, stores, world, Kinds
<1>3. PICK c \in Convs : c = task[k].conv
  BY <1>1, <1>2, RunsIs
<1>4. ViewLeaves /\ Left(ViewOf(c)') = {}
  BY <1>1, <1>3, ClearLeaves
<1>5. task'[k] = Idle
  BY <1>1, <1>2, TaskIs DEF TInv
<1>6. k = "decline" => ToSet(task[k].todo) = {}
  BY <1>1, NothingPlaced
<1>7. ASSUME NEW d \in Convs PROVE Over(k, d)
  <2>1. TakesOver(k, d)
    BY <1>1, <1>6 DEF TakesOver, TakenBy
  <2>2. HidesOver(k, d)
    BY <1>1, <1>3, <1>4 DEF HidesOver, HiddenBy
  <2>3. FindsOver(k, d)
    BY <1>1 DEF FindsOver, Finds
  <2> QED
    BY <2>1, <2>2, <2>3 DEF Over
<1>8. Grow /\ HistSettles /\ HistLeaves /\ asked' = asked
  BY <1>2, SameSettles DEF Grow
<1> QED
  BY <1>1, <1>2, <1>4, <1>7, <1>8, IdlePlaced, TaskStep

LEMMA RemoveHistoryGone == ASSUME TInv, KeepInv, GoneInv, RemoveHistory PROVE GoneInv'
<1> DEFINE t == task["remove"]
           u == [t EXCEPT !.at = "forget"]
<1>1. /\ "remove" \in Kinds /\ Becomes("remove", u) /\ t.conv \in Convs /\ t # Idle
      /\ u.at = "forget" /\ u.conv = t.conv /\ u.snap = t.snap
  BY RemoveHistoryIs
<1>2. /\ hist' = [hist EXCEPT ![t.conv] = << >>] /\ asked' = asked \cup Ids(hist[t.conv]) /\ t.at = "wipe"
      /\ UNCHANGED <<view, handled, mode, outbox, op, expired, torn>> /\ crossed \subseteq crossed'
  BY DEF RemoveHistory, screen, world, Runs
<1>3. PICK c \in Convs : c = t.conv
  BY <1>1
<1> HIDE DEF u, t
<1>4. Past \subseteq Past'
  BY <1>2, PastStays
<1>5. PlacedTask("remove", u, Past')
  <2>1. Placed(t.snap, t.conv, Past')
    BY <1>1, <1>4, TaskPlaced DEF PlacedTask, t
  <2> QED
    BY <1>1, <2>1 DEF PlacedTask
<1>6. hist'[c] = << >> /\ \A d \in Convs : d # c => hist'[d] = hist[d]
  BY <1>2, <1>3 DEF TInv, StoresOK
<1>7. HistSettles /\ HistLeaves
  BY <1>6, EmptyHist DEF HistSettles, HistLeaves, Settles
<1>8. \A i \in Ids(hist[c]) : i \in Past /\ Info[i].conv = c
  BY Elsewhere
<1>9. task'["remove"] = u /\ task["remove"] = t
  BY <1>1, TaskIs DEF TInv, t
<1>10. ASSUME NEW d \in Convs PROVE Over("remove", d)
  BY <1>2, <1>9 DEF Over, TakesOver, HidesOver, FindsOver, Finds, TakenBy, HiddenBy
<1>11. ASSUME NEW i PROVE Hiding(i, c)'
  <2>1. HiddenBy("remove", task'["remove"], i, c)
    BY <1>1, <1>3, <1>9 DEF HiddenBy
  <2> QED
    BY <1>1, <2>1 DEF Hiding
<1>12. ASSUME NEW d \in Convs, NEW i \in asked' \ asked
       PROVE  (i \in Left(hist'[d]) => Removing(i)') /\ (i \in Left(ViewOf(d)') => Hiding(i, d)')
  <2>1. i \in Ids(hist[c]) /\ ViewOf(d)' = ViewOf(d)
    BY <1>2, <1>3 DEF ViewOf
  <2>2. i \notin Left(hist'[d])
    BY <1>6, <1>8, <2>1, Elsewhere, EmptyHist
  <2>3. i \in Left(ViewOf(d)') => d = c
    BY <1>8, <2>1, Elsewhere
  <2> QED
    BY <1>11, <2>2, <2>3
<1>13. Grow /\ ViewLeaves /\ asked' \subseteq asked \cup Past'
  BY <1>2, <1>3, <1>4, <1>8, SameLeaves DEF Grow
<1> QED
  BY <1>1, <1>2, <1>5, <1>7, <1>10, <1>12, <1>13, TaskStep

\* What nobody is left to take was to be taken of a conversation that counts as torn.
LEMMA RestartGone == ASSUME TInv, KeepInv, GoneInv, Restart PROVE GoneInv'
<1>1. /\ UNCHANGED <<hist, asked, mode, outbox, expired, crossed>>
      /\ op' = Idle /\ task' = [k \in Kinds |-> Idle] /\ view' = [c \in Convs |-> None]
      /\ handled \subseteq handled' /\ torn \subseteq torn'
      /\ \A c \in Convs : op.conv = c \/ (\E k \in Kinds : task[k].conv = c) => c \in torn'
  BY DEF Restart
<1>2. op'.at = "idle"
  BY <1>1, IdleIs
<1>3. Past \subseteq Past'
  BY <1>1, <1>2, PastStays
<1>4. Grow /\ HistSettles /\ HistLeaves
  BY <1>1, SameSettles DEF Grow
<1>5. \A c \in Convs : ViewOf(c)' = << >>
  BY <1>1 DEF ViewOf
<1>6. ViewLeaves
  BY <1>5, EmptyHist DEF ViewLeaves
<1>7. ASSUME NEW c \in Convs \ Spoilt', NEW k \in Kinds PROVE Over(k, c)
  <2>1. task'[k] = Idle /\ task[k].conv # c
    BY <1>1, <1>7 DEF Spoilt
  <2>2. ASSUME NEW i \in Left(hist'[c]), TakenBy(k, task[k], i) PROVE FALSE
    <3>1. PlacedTask(k, task[k], Past) /\ task[k] # Idle
      BY <2>2, IdleIs DEF GoneInv, PlaceInv, TakenBy
    <3>2. Info[i].conv = task[k].conv
      BY <2>2, <3>1 DEF TakenBy, PlacedTask
    <3>3. Info[i].conv = c
      BY <1>1, <2>2, Elsewhere
    <3> QED
      BY <2>1, <3>2, <3>3
  <2>3. TakesOver(k, c)
    BY <2>2 DEF TakesOver
  <2>4. HidesOver(k, c)
    BY <1>5, EmptyHist DEF HidesOver
  <2>5. FindsOver(k, c)
    BY <2>1, IdleIs DEF FindsOver, Finds
  <2> QED
    BY <2>3, <2>4, <2>5 DEF Over
<1>8. ASSUME NEW c \in Convs \ Spoilt', op.at = "purge" PROVE op.id \notin Left(hist'[c])
  <2>1. op.conv # c
    BY <1>1, <1>8 DEF Spoilt
  <2>2. Info[op.id].conv = op.conv
    BY <1>8 DEF TInv, OpOK
  <2> QED
    BY <1>1, <2>1, <2>2, Elsewhere
<1>9. \A k \in Kinds : PlacedTask(k, task'[k], Past')
  BY <1>1, IdlePlaced
<1>10. asked' = asked
  BY <1>1
<1> QED
  BY <1>2, <1>3, <1>4, <1>6, <1>7, <1>8, <1>9, <1>10, FadeStep

LEMMA NextGone == ASSUME TInv, KeepInv, GoneInv, [Next]_vars PROVE GoneInv'
<1>1. ASSUME NEW p \in Peers,
             TakeDuplicate(p) \/ TakeMessage(p) \/ TakeDelete(p) \/ TakeReceipt(p) \/ TakeInvite(p)
             \/ Block(p) \/ Unblock(p) \/ RemoveContact(p)
      PROVE  GoneInv'
  BY <1>1, TakesGone, OthersGone, HandlersGone
<1>2. ASSUME NEW c \in Convs, Open(c) \/ Sweep(c) \/ Accept(c) \/ Decline(c) PROVE GoneInv'
  BY <1>2, HandlersGone, FetchesGone
<1>3. ASSUME NEW i \in Posts, Erase(i) \/ Retract(i) \/ Expire(i) \/ Fetch(i) PROVE GoneInv'
  BY <1>3, AsksGone, OthersGone, FetchesGone
<1>4. ASSUME AppendMessage \/ RenderMessage \/ HoldMessage \/ DropMessage \/ PurgeMessage
             \/ ApplyDelete \/ ApplyReceipt \/ HoldInvite \/ SendMessage \/ AppendLocalMessage
      PROVE  GoneInv'
  BY <1>4, AppendMessageGone, RenderMessageGone, HoldsGone, DropMessageGone, PurgeMessageGone,
     ApplyDeleteGone, ApplyReceiptGone, SendMessageGone, AppendLocalMessageGone
<1>5. ASSUME LoadConversation \/ EraseMessage \/ TombstoneMessage \/ SweepMessages \/ SweepSummary
             \/ Derive \/ LoadSummaries \/ Seed
      PROVE  GoneInv'
  BY <1>5, LoadsGone, EraseMessageGone, TombstoneMessageGone, SweepMessagesGone, FetchesGone, OthersGone
<1>6. ASSUME AcceptLoads \/ AcceptShows \/ DeclineLoads \/ DeclineReads \/ DeclineErases \/ DeclineEnds
             \/ RemoveHistory \/ RemoveFromView
      PROVE  GoneInv'
  BY <1>6, HandlersGone, LoadsGone, DeclineLoadsGone, DeclineReadsGone, DeclineErasesGone, EndsGone,
     RemoveHistoryGone
<1>7. ASSUME StoreMedia \/ (\E reached \in BOOLEAN : AckMedia(reached)) \/ Search \/ Restart PROVE GoneInv'
  BY <1>7, FetchesGone, OthersGone, RestartGone
<1> QED
  BY <1>1, <1>2, <1>3, <1>4, <1>5, <1>6, <1>7, OthersGone DEF Next

LEMMA InitGone == ASSUME Init PROVE GoneInv
<1>1. op = Idle /\ op.at = "idle" /\ \A k \in Kinds : task[k] = Idle
  BY IdleIs DEF Init
<1>2. \A c \in Convs : hist[c] = << >> /\ ViewOf(c) = << >>
  BY DEF Init, ViewOf
<1>3. asked = {}
  BY DEF Init
<1>4. PlaceInv
  BY <1>1, <1>2, <1>3, NothingPlaced DEF PlaceInv, PlacedTask
<1>5. ASSUME NEW c \in Convs PROVE GoneAt(c)
  <2>1. \A k \in Kinds : Finds(k, task[k], hist[c], c)
    BY <1>1, IdleIs DEF Finds
  <2> QED
    BY <1>1, <1>3, <2>1 DEF GoneAt
<1> QED
  BY <1>4, <1>5 DEF GoneInv

\* The preview of a settled conversation is the last message of its view.
LEMMA PreviewIs ==
    ASSUME Settled, NEW c \in Convs, view[c] \in Hist, view[c] # None, list[c] # None
    PROVE  \E e \in ToSet(view[c]) : e.id = list[c].last /\ e.deleted = list[c].deleted
<1>1. view[c] # << >>
  BY DEF Settled, Derived
<1>2. list[c] = SummaryOf(list[c], Last(view[c]), c = active)
  BY <1>1 DEF Settled, Derived
<1>3. list[c].last = Last(view[c]).id /\ list[c].deleted = Last(view[c]).deleted
  BY <1>2 DEF SummaryOf
<1>4. Len(view[c]) \in Nat /\ Len(view[c]) # 0 /\ DOMAIN view[c] = 1 .. Len(view[c])
  BY <1>1, LenProperties, EmptySeq DEF Hist
<1>5. Last(view[c]) \in ToSet(view[c])
  BY <1>4 DEF Last, ToSet
<1> QED
  BY <1>3, <1>5

(* What was asked to go is gone when the handlers have run: out of the     *)
(* history and the view, or emptied there, and not the preview             *)
(* (handleDeleteForMe, handleDeleteForEveryone, applyTombstone, the purge  *)
(* of what a blocked sender wrote, handleDeclineRequest, removeContact).   *)
THEOREM GoneHolds == Spec => []GoneIsGone
<1>1. Init => TInv /\ KeepInv /\ GoneInv
  BY InitTypes, InitKeeps, InitGone
<1>2. TInv /\ KeepInv /\ GoneInv /\ [Next]_vars => TInv' /\ KeepInv' /\ GoneInv'
  BY NextTypes, NextKeeps, NextGone
<1>3. ASSUME TInv, GoneInv PROVE GoneIsGone
  <2> SUFFICES ASSUME Quiet, Settled, NEW i \in asked, Info[i].conv \in Undisturbed
               PROVE  LET c == Info[i].conv IN
                         /\ \A e \in ToSet(hist[c]) \cup ToSet(ViewOf(c)) : e.id = i => e.deleted
                         /\ (view[c] # None /\ list[c] # None /\ list[c].last = i) => list[c].deleted
    BY DEF GoneIsGone
  <2>1. PICK c \in Convs \ Spoilt : c = Info[i].conv
    BY DEF Undisturbed, Spoilt
  <2>2. hist[c] \in Hist /\ ViewOf(c) \in Hist /\ GoneAt(c)
    BY <1>3, ViewOfIs DEF TInv, GoneInv
  <2>3. op.at = "idle" /\ \A k \in Kinds : task[k].at = "idle"
    BY IdleIs DEF Quiet
  <2>4. ~ Removing(i) /\ ~ Hiding(i, c)
    BY <2>3 DEF Removing, Hiding, TakenBy, HiddenBy
  <2>5. i \notin Left(hist[c]) /\ i \notin Left(ViewOf(c))
    BY <2>2, <2>4 DEF GoneAt
  <2>6. \A e \in ToSet(hist[c]) \cup ToSet(ViewOf(c)) : e.id = i => e.deleted
    BY <2>2, <2>5, EntriesOf
  <2>7. (view[c] # None /\ list[c] # None /\ list[c].last = i) => list[c].deleted
    <3> SUFFICES ASSUME view[c] # None, list[c] # None, list[c].last = i PROVE list[c].deleted
      OBVIOUS
    <3>1. ViewOf(c) = view[c]
      BY DEF ViewOf
    <3> QED
      BY <2>2, <2>6, <3>1, PreviewIs
  <2> QED
    BY <2>1, <2>6, <2>7
<1> QED
  BY <1>1, <1>2, <1>3, PTL DEF Spec
=============================================================================
