-------------------------- MODULE CredentialsProofs --------------------------
(***************************************************************************)
(* Theorems about Credentials, for any tabs, devices, passwords and modes. *)
(***************************************************************************)
EXTENDS Credentials, FiniteSetTheorems, TLAPS

-----------------------------------------------------------------------------
(* The types, with those of the requests under way.                        *)

SessionToken == [gen : Nat, epoch : Nat, pw : Passwords]
SecondFactor == [secret : Nat, step : Nat, backup : BackupCodes \cup {None}]
PaperCode == [code : Nat, identity : Nat]
EnrolledRecord == [id : Nat, key : Nat]
LoadedDoc == [key : Nat, ident : Nat, envelope : KeystoreRecord \cup {None}]

\* A job has the fields of Idle.
HasFields(j) == j = [kind |-> j.kind, at |-> j.at, tok |-> j.tok, pw |-> j.pw, new |-> j.new,
                     code |-> j.code, seen |-> j.seen, ok |-> j.ok, orphan |-> j.orphan]

\* A reset of the password got hold of the blob that the recovery code opens.
GotRecovery(j) ==
    j.kind = "recover" /\ (j.at \in {"loaded", "received"} \/ (j.at = "answered" /\ j.ok))

\* What a request carries and what its handler has read.
JobOK(j) ==
    /\ HasFields(j)
    /\ j.tok \in SessionToken \cup {None}
    /\ j.kind \in {"signup", "login", "unlock"} => j.pw \in Passwords
    /\ j.kind \in {"change", "recover"} => j.new \in Passwords
    /\ j.kind = "change" => j.new # None
    /\ j.kind = "enable" => j.code \in SecondFactor
    /\ j.kind \in {"login", "disable"} => j.code \in SecondFactor \cup {None}
    /\ j.kind \in {"enroll", "recover"} => j.code \in PaperCode
    /\ j.kind = "publish" => j.code \in Nat
    /\ j.kind \in {"login", "change", "disable"} /\ j.at = "loaded" => j.seen \in AccountRow
    /\ j.kind \in {"login", "disable"} /\ j.at = "loaded" /\ j.seen.secret # None => j.code # None
    /\ GotRecovery(j) => j.seen \in AccountRow /\ j.seen.recovery \in PaperCode
    /\ j.at = "staging" => j.kind = "change" /\ j.seen \in KeystoreRecord /\ j.seen # None
    /\ j.at = "opening" => j.kind \in {"signup", "login", "unlock"} /\ j.seen \in KeystoreRecord \cup {None}
    /\ j.kind = "enrollPasskey" => j.at = "prompt" /\ j.seen \in Nat

ServerOK ==
    /\ ServerTypeOK
    /\ DOMAIN spent \subseteq SecondFactor
    /\ \A c \in DOMAIN spent : spent[c] \in Nat

JobsOK ==
    /\ DOMAIN job = Tabs
    /\ \A t \in Tabs : JobOK(job[t])

DiskOK ==
    /\ rec \in [Devices -> KeystoreRecord \cup {None}]
    /\ enrolled \in [Devices -> [Unlocks -> EnrolledRecord \cup {None}]]
    /\ cookie \in [Devices -> SessionToken \cup {None}]

TabsOK ==
    /\ user \in [Tabs -> BOOLEAN]
    /\ cached \in [Tabs -> Nat \cup {None}]
    /\ doc \in [Tabs -> LoadedDoc \cup {None}]
    /\ \A t \in Tabs : job[t].kind = "enrollPasskey" => cached[t] # None

RestOK ==
    /\ mode \in Modes
    /\ paper \subseteq PaperCode
    /\ minted \in Nat /\ ops \in Nat /\ crashes \in Nat /\ losses \in Nat
    /\ DOMAIN parted = Devices /\ DOMAIN unlisted = Devices

TInv == ServerOK /\ JobsOK /\ DiskOK /\ TabsOK /\ RestOK

-----------------------------------------------------------------------------
(* Session tokens.                                                         *)

\* A token, or a row that was read, is not of a later account or epoch than the present
\* one, and of the same only with its password.
Stale(gen, epoch, pw) ==
    /\ gen < born
    /\ row # None /\ gen = row.gen => epoch <= row.epoch /\ (epoch = row.epoch => pw = row.pw)

TokensAreStale == \A d \in Devices : cookie[d] # None => Stale(cookie[d].gen, cookie[d].epoch, cookie[d].pw)

RequestsAreStale ==
    \A t \in Tabs :
        LET j == job[t]
        IN  /\ j.tok # None => Stale(j.tok.gen, j.tok.epoch, j.tok.pw)
            /\ j.kind \in {"login", "change", "recover"} /\ j.at = "loaded" =>
                   Stale(j.seen.gen, j.seen.epoch, j.seen.pw)
            /\ j.kind = "login" /\ j.at = "loaded" => j.pw = j.seen.pw

TokenInv ==
    /\ row # None => row.gen + 1 = born
    /\ TokensAreStale
    /\ RequestsAreStale

-----------------------------------------------------------------------------
(* Second-factor codes.                                                    *)

\* A handler has verified a code and not answered.
Verifies(t) == job[t].at = "loaded" /\ job[t].kind \in {"login", "disable"} /\ job[t].code # None

\* A secret that is on its way to the server.
Enabling(t) == job[t].kind = "enable" /\ job[t].at \in {"sent", "authed", "loaded"}

\* The secrets are minted one by one.
SecretsAreMinted ==
    /\ row # None /\ row.secret # None => row.secret < minted
    /\ \A c \in DOMAIN spent : c.secret < minted
    /\ row # None => \A c \in row.backup : c.secret < minted
    /\ \A t \in Tabs :
          /\ job[t].kind \in {"login", "disable"} /\ job[t].code # None => job[t].code.secret < minted
          /\ job[t].kind = "enable" => job[t].code.secret < minted
          /\ Verifies(t) => \A c \in job[t].seen.backup : c.secret < minted

\* Nobody has used a secret before it is enabled.
SecretIsFresh(s) ==
    /\ row # None => (row.secret # None => row.secret # s) /\ \A c \in row.backup : c.secret # s
    /\ \A c \in DOMAIN spent : c.secret # s
    /\ \A u \in Tabs :
          /\ job[u].kind \in {"login", "disable"} /\ job[u].code # None => job[u].code.secret # s
          /\ Verifies(u) => \A c \in job[u].seen.backup : c.secret # s

EnabledSecretsAreFresh ==
    \A t \in Tabs : Enabling(t) =>
        /\ SecretIsFresh(job[t].code.secret)
        /\ \A u \in Tabs \ {t} : Enabling(u) => job[u].code.secret # job[t].code.secret

\* What the row accepts has not been accepted.
RowRefusesSpent ==
    row # None =>
        \A c \in DOMAIN spent :
            /\ c.backup = None /\ row.secret # None /\ c.secret = row.secret => c.step <= row.last
            /\ c.backup # None => c \notin row.backup

\* What a verification under way is about to write does not bring a spent code back.
VerifiedIsUnspent(t) ==
    LET c == job[t].code
    IN  job[t].seen.secret # None =>
            /\ c \notin DOMAIN spent
            /\ \A x \in DOMAIN spent : x.backup # None => x \notin job[t].seen.backup
            /\ c.backup = None /\ row # None /\ row.secret # None =>
                   IF row.secret = c.secret THEN row.last < c.step
                   ELSE \A x \in DOMAIN spent : x.backup = None => x.secret # row.secret

CodeInv ==
    /\ SecretsAreMinted
    /\ EnabledSecretsAreFresh
    /\ \A c \in DOMAIN spent : spent[c] >= 1
    /\ ~ raced =>
          /\ \A t, u \in Tabs : Verifies(t) /\ Verifies(u) => t = u
          /\ \A t \in Tabs : Verifies(t) => VerifiedIsUnspent(t)
          /\ RowRefusesSpent
          /\ \A c \in DOMAIN spent : spent[c] <= 1

-----------------------------------------------------------------------------
(* The two halves of a password, and of an identity.                       *)

\* A change of password past its staging and not settled.
InFlight(j) == j.kind = "change" /\ j.at \notin {"idle", "staging"}

\* The server did what it was asked, and said so.
Passed(j) == j.at = "received" \/ (j.at = "answered" /\ j.ok)

\* The wrap that a change staged is in the record, and it is the account's password that
\* the server has by now.
StagedFor(j, r) ==
    /\ r.alt # None /\ r.alt = j.new
    /\ row # None => row.pw = IF Passed(j) THEN r.alt ELSE r.wrap

\* A record that the account's password opens: of two changes one waits for the other.
Unparted(d, r) ==
    /\ r.sealed = r.key
    /\ row # None => Opens(r, row.pw)
    /\ \A t \in TabsOf(d) : InFlight(job[t]) => StagedFor(job[t], r)
    /\ \A t, u \in TabsOf(d) : InFlight(job[t]) /\ InFlight(job[u]) => t = u

PasswordInv ==
    \A d \in Devices : parted[d] = {} => \A r \in {rec[d]} \ {None} : Unparted(d, r)

\* A publication that the server has not confirmed.
Unconfirmed(j) == j.kind = "publish" /\ ~ Passed(j)

\* What is on its way to the server is the identity held, and otherwise the server has it.
Listed(d, r) ==
    /\ \A t \in TabsOf(d) : job[t].kind = "publish" => job[t].code = r.ident
    /\ row # None /\ (\A t \in TabsOf(d) : ~ Unconfirmed(job[t])) => row.identity = r.ident

IdentityInv ==
    \A d \in Devices : unlisted[d] = {} => \A r \in {rec[d]} \ {None} : Listed(d, r)

-----------------------------------------------------------------------------
(* What the updates of a job leave of its fields.                          *)

\* Two jobs that differ in what is said of them only.
Same(j, k) ==
    /\ k.kind = j.kind /\ k.pw = j.pw /\ k.new = j.new /\ k.code = j.code /\ k.orphan = j.orphan

(* A reset of the stage of a job keeps the rest of it.                     *)
LEMMA AtFacts ==
    ASSUME NEW j, HasFields(j), NEW a, NEW k, k = [j EXCEPT !.at = a]
    PROVE  HasFields(k) /\ Same(j, k) /\ k.at = a /\ k.tok = j.tok /\ k.seen = j.seen /\ k.ok = j.ok
<1>1. k = [kind |-> j.kind, at |-> a, tok |-> j.tok, pw |-> j.pw, new |-> j.new,
           code |-> j.code, seen |-> j.seen, ok |-> j.ok, orphan |-> j.orphan]
  BY DEF HasFields
<1> QED
  BY <1>1 DEF HasFields, Same

(* An answered job is the one that was asked, with the reply.              *)
LEMMA AnswerFacts ==
    ASSUME JobsOK, NEW t \in Tabs, NEW ok, NEW tok, Answer(t, ok, tok)
    PROVE  /\ DOMAIN job' = Tabs /\ \A u \in Tabs \ {t} : job'[u] = job[u]
           /\ HasFields(job'[t]) /\ Same(job[t], job'[t])
           /\ job'[t].at = "answered" /\ job'[t].ok = ok /\ job'[t].tok = tok /\ job'[t].seen = job[t].seen
<1>1. HasFields(job[t]) /\ DOMAIN job = Tabs
  BY DEF JobsOK, JobOK
<1>2. job'[t] = [kind |-> job[t].kind, at |-> "answered", tok |-> tok, pw |-> job[t].pw, new |-> job[t].new,
                code |-> job[t].code, seen |-> job[t].seen, ok |-> ok, orphan |-> job[t].orphan]
  BY <1>1 DEF HasFields, Answer
<1>3. DOMAIN job' = Tabs /\ \A u \in Tabs \ {t} : job'[u] = job[u]
  BY <1>1 DEF Answer
<1> QED
  BY <1>2, <1>3 DEF HasFields, Same

(* A loaded job is the one that was sent, with the row that was read.      *)
LEMMA LoadedFacts ==
    ASSUME JobsOK, NEW t \in Tabs, job' = [job EXCEPT ![t].at = "loaded", ![t].seen = row]
    PROVE  /\ DOMAIN job' = Tabs /\ \A u \in Tabs \ {t} : job'[u] = job[u]
           /\ HasFields(job'[t]) /\ Same(job[t], job'[t])
           /\ job'[t].at = "loaded" /\ job'[t].tok = job[t].tok /\ job'[t].seen = row
<1>1. HasFields(job[t]) /\ DOMAIN job = Tabs
  BY DEF JobsOK, JobOK
<1>2. job'[t] = [kind |-> job[t].kind, at |-> "loaded", tok |-> job[t].tok, pw |-> job[t].pw, new |-> job[t].new,
                code |-> job[t].code, seen |-> row, ok |-> job[t].ok, orphan |-> job[t].orphan]
  BY <1>1 DEF HasFields
<1>3. DOMAIN job' = Tabs /\ \A u \in Tabs \ {t} : job'[u] = job[u]
  BY <1>1
<1> QED
  BY <1>2, <1>3 DEF HasFields, Same

(* A job set to something takes nothing from the others.                   *)
LEMMA SetFacts ==
    ASSUME JobsOK, NEW t \in Tabs, NEW j, job' = [job EXCEPT ![t] = j]
    PROVE  DOMAIN job' = Tabs /\ job'[t] = j /\ \A u \in Tabs \ {t} : job'[u] = job[u]
BY DEF JobsOK

(* ... and so does a job with only its stage reset.                        *)
LEMMA SetAtFacts ==
    ASSUME JobsOK, NEW t \in Tabs, NEW a, job' = [job EXCEPT ![t].at = a]
    PROVE  /\ DOMAIN job' = Tabs /\ \A u \in Tabs \ {t} : job'[u] = job[u]
           /\ HasFields(job'[t]) /\ Same(job[t], job'[t])
           /\ job'[t].at = a /\ job'[t].tok = job[t].tok /\ job'[t].seen = job[t].seen
           /\ job'[t].ok = job[t].ok
<1>1. HasFields(job[t]) /\ DOMAIN job = Tabs
  BY DEF JobsOK, JobOK
<1>2. job'[t] = [job[t] EXCEPT !.at = a] /\ DOMAIN job' = Tabs /\ \A u \in Tabs \ {t} : job'[u] = job[u]
  BY <1>1
<1> QED
  BY <1>1, <1>2, AtFacts

(* The jobs stay well-formed when one is replaced by a well-formed one.    *)
LEMMA OtherJobsStay ==
    ASSUME JobsOK, NEW t \in Tabs, DOMAIN job' = Tabs, \A u \in Tabs \ {t} : job'[u] = job[u], JobOK(job'[t])
    PROVE  JobsOK'
<1> SUFFICES ASSUME NEW u \in Tabs PROVE JobOK(job'[u])
  BY DEF JobsOK, JobOK, HasFields, GotRecovery
<1>1. JobOK(job[u])
  BY DEF JobsOK
<1> QED
  BY <1>1

-----------------------------------------------------------------------------
(* The Worker's handlers keep the types.                                   *)

(* An answer keeps the jobs well-formed.                                   *)
LEMMA AnswerTypes ==
    ASSUME JobsOK, NEW t \in Tabs, NEW ok, NEW tok \in SessionToken \cup {None}, Answer(t, ok, tok),
           job[t].at # "prompt", ok /\ job[t].kind = "recover" => job[t].at = "loaded"
    PROVE  JobsOK'
<1>1. /\ DOMAIN job' = Tabs /\ \A u \in Tabs \ {t} : job'[u] = job[u]
      /\ HasFields(job'[t]) /\ Same(job[t], job'[t])
      /\ job'[t].at = "answered" /\ job'[t].ok = ok /\ job'[t].tok = tok /\ job'[t].seen = job[t].seen
  BY AnswerFacts
<1>2. JobOK(job[t])
  BY DEF JobsOK
<1>3. JobOK(job'[t])
  BY <1>1, <1>2 DEF JobOK, Same, GotRecovery
<1> QED
  BY <1>1, <1>3, OtherJobsStay

(* A row with a column overwritten is a row.                               *)
LEMMA RowTypes ==
    ASSUME NEW r \in AccountRow
    PROVE  /\ \A pw \in Passwords : [r EXCEPT !.pw = pw, !.epoch = @ + 1] \in AccountRow
           /\ [r EXCEPT !.epoch = @ + 1] \in AccountRow
           /\ \A n \in Nat : [r EXCEPT !.last = n] \in AccountRow
           /\ \A q \in AccountRow : \A c : [r EXCEPT !.backup = q.backup \ {c}] \in AccountRow
           /\ \A s \in Nat :
                  [r EXCEPT !.secret = s, !.last = 0,
                            !.backup = {BackupCode(s, b) : b \in BackupCodes}] \in AccountRow
           /\ [r EXCEPT !.secret = None, !.last = 0, !.backup = {}] \in AccountRow
           /\ \A c \in PaperCode : [r EXCEPT !.recovery = c] \in AccountRow
           /\ [r EXCEPT !.terms = TRUE] \in AccountRow
           /\ \A n \in Nat : [r EXCEPT !.identity = n] \in AccountRow
           /\ [r EXCEPT !.disabled = TRUE] \in AccountRow
<1>1. \A pw \in Passwords : [r EXCEPT !.pw = pw, !.epoch = @ + 1] \in AccountRow
  <2> SUFFICES ASSUME NEW pw \in Passwords PROVE [r EXCEPT !.pw = pw, !.epoch = @ + 1] \in AccountRow
    OBVIOUS
  <2>1. [r EXCEPT !.pw = pw] \in AccountRow
    BY DEF AccountRow
  <2>2. \A q \in AccountRow : [q EXCEPT !.epoch = @ + 1] \in AccountRow
    BY DEF AccountRow
  <2>3. [r EXCEPT !.pw = pw, !.epoch = @ + 1] = [[r EXCEPT !.pw = pw] EXCEPT !.epoch = @ + 1]
    BY Zenon
  <2> QED
    BY <2>1, <2>2, <2>3
<1>2. [r EXCEPT !.epoch = @ + 1] \in AccountRow
  BY DEF AccountRow
<1>3. \A n \in Nat : [r EXCEPT !.last = n] \in AccountRow
  BY DEF AccountRow
<1>4. \A q \in AccountRow : \A c : [r EXCEPT !.backup = q.backup \ {c}] \in AccountRow
  <2> SUFFICES ASSUME NEW q \in AccountRow, NEW c PROVE [r EXCEPT !.backup = q.backup \ {c}] \in AccountRow
    OBVIOUS
  <2>1. q.backup \ {c} \in SUBSET [secret : Nat, step : {0}, backup : BackupCodes]
    BY DEF AccountRow
  <2> QED
    BY <2>1 DEF AccountRow
<1>5. \A s \in Nat : [r EXCEPT !.secret = s, !.last = 0,
                              !.backup = {BackupCode(s, b) : b \in BackupCodes}] \in AccountRow
  <2> SUFFICES ASSUME NEW s \in Nat
               PROVE  [r EXCEPT !.secret = s, !.last = 0,
                                !.backup = {BackupCode(s, b) : b \in BackupCodes}] \in AccountRow
    OBVIOUS
  <2>1. {BackupCode(s, b) : b \in BackupCodes} \in SUBSET [secret : Nat, step : {0}, backup : BackupCodes]
    BY DEF BackupCode
  <2> HIDE DEF BackupCode
  <2> QED
    BY <2>1 DEF AccountRow
<1>6. [r EXCEPT !.secret = None, !.last = 0, !.backup = {}] \in AccountRow
  BY DEF AccountRow
<1>7. \A c \in PaperCode : [r EXCEPT !.recovery = c] \in AccountRow
  BY DEF AccountRow, PaperCode
<1>8. [r EXCEPT !.terms = TRUE] \in AccountRow /\ [r EXCEPT !.disabled = TRUE] \in AccountRow
  BY DEF AccountRow
<1>9. \A n \in Nat : [r EXCEPT !.identity = n] \in AccountRow
  BY DEF AccountRow
<1> QED
  BY <1>1, <1>2, <1>3, <1>4, <1>5, <1>6, <1>7, <1>8, <1>9

(* The first row of an account is a row.                                   *)
LEMMA FreshRowType == ASSUME born \in Nat, NEW pw \in Passwords PROVE FreshRow(pw) \in AccountRow
BY DEF FreshRow, AccountRow

(* Reading a token, and refusing what it does not entitle to.              *)
LEMMA AuthenticateTypes ==
    ASSUME TInv, NEW t \in Tabs, Authenticate(t) PROVE ServerOK' /\ JobsOK'
<1>1. ServerOK'
  BY DEF TInv, ServerOK, ServerTypeOK, Authenticate, server
<1>2. CASE Answer(t, FALSE, None)
  <2>1. JobsOK /\ job[t].at # "prompt"
    BY DEF TInv, Authenticate
  <2> QED
    BY <1>1, <1>2, <2>1, AnswerTypes
<1>3. CASE job' = [job EXCEPT ![t].at = "authed"]
  <2>1. JobsOK /\ JobOK(job[t]) /\ job[t].at = "sent"
    BY DEF TInv, JobsOK, Authenticate
  <2>2. /\ DOMAIN job' = Tabs /\ \A u \in Tabs \ {t} : job'[u] = job[u]
        /\ HasFields(job'[t]) /\ Same(job[t], job'[t])
        /\ job'[t].at = "authed" /\ job'[t].tok = job[t].tok /\ job'[t].seen = job[t].seen
        /\ job'[t].ok = job[t].ok
    BY <1>3, <2>1, SetAtFacts
  <2>3. JobOK(job'[t])
    BY <2>1, <2>2 DEF JobOK, Same, GotRecovery
  <2> QED
    BY <1>1, <2>1, <2>2, <2>3, OtherJobsStay
<1> QED
  BY <1>2, <1>3 DEF Authenticate

(* A second factor that opened is a code.                                  *)
LEMMA SecondOpens == ASSUME NEW r, NEW c, SecondFactorOpens(r, c) PROVE c # None
BY DEF SecondFactorOpens

(* What is admitted has a row where the handler needs one.                 *)
LEMMA LoadTypes == ASSUME TInv, NEW t \in Tabs, Load(t) PROVE ServerOK' /\ JobsOK'
<1>1. JobsOK /\ JobOK(job[t]) /\ job[t].at \in {"sent", "authed"}
  BY DEF TInv, JobsOK, Load
<1>2. ServerOK'
  BY DEF TInv, ServerOK, ServerTypeOK, Load
<1>3. CASE Answer(t, FALSE, None)
  BY <1>1, <1>2, <1>3, AnswerTypes
<1>4. CASE Admits(row, job[t]) /\ job' = [job EXCEPT ![t].at = "loaded", ![t].seen = row]
  <2>1. /\ DOMAIN job' = Tabs /\ \A u \in Tabs \ {t} : job'[u] = job[u]
        /\ HasFields(job'[t]) /\ Same(job[t], job'[t])
        /\ job'[t].at = "loaded" /\ job'[t].tok = job[t].tok /\ job'[t].seen = row
    BY <1>1, <1>4, LoadedFacts
  <2>4. row \in AccountRow \cup {None}
    BY DEF TInv, ServerOK, ServerTypeOK
  <2>5. job[t].kind \in {"login", "change", "disable", "recover"} => row # None
    BY <1>4 DEF Admits, PasswordKinds
  <2>6. job[t].kind = "recover" => row.recovery # None
    BY <1>4 DEF Admits, PasswordKinds
  <2>7. row # None => row.recovery \in PaperCode \cup {None}
    BY <2>4 DEF AccountRow, PaperCode
  <2>9. job[t].kind \in {"login", "disable"} /\ row.secret # None => job[t].code # None
    BY <1>4, SecondOpens DEF Admits, PasswordKinds
  <2>8. JobOK(job'[t])
    BY <1>1, <2>1, <2>4, <2>5, <2>6, <2>7, <2>9 DEF JobOK, Same, GotRecovery
  <2> QED
    BY <1>1, <1>2, <2>1, <2>8, OtherJobsStay
<1> QED
  BY <1>3, <1>4 DEF Load

(* A write of the row, with an answer.                                     *)
LEMMA WriteTypes ==
    ASSUME TInv, NEW t \in Tabs, row' \in AccountRow \cup {None}, used' \subseteq Passwords, born' \in Nat,
           banned' = banned, clock' = clock, raced' = raced,
           DOMAIN spent' \subseteq SecondFactor, \A c \in DOMAIN spent' : spent'[c] \in Nat
    PROVE  ServerOK'
BY DEF TInv, ServerOK, ServerTypeOK

(* A code is counted when it is accepted.                                  *)
LEMMA AcceptedFacts ==
    ASSUME ServerOK, NEW c \in SecondFactor, Accepted(c)
    PROVE  /\ DOMAIN spent' = DOMAIN spent \cup {c} /\ DOMAIN spent' \subseteq SecondFactor
           /\ \A x \in DOMAIN spent' : spent'[x] \in Nat
           /\ \A x \in DOMAIN spent \ {c} : spent'[x] = spent[x]
           /\ spent'[c] = IF c \in DOMAIN spent THEN spent[c] + 1 ELSE 1
BY DEF ServerOK, Accepted

(* Each handler, with its write and its answer.                            *)
LEMMA ServeTypes == ASSUME TInv, NEW t \in Tabs, Serve(t) PROVE ServerOK' /\ JobsOK'
<1> DEFINE j == job[t]
<1>1. JobsOK /\ JobOK(j) /\ ServerOK
  BY DEF TInv, JobsOK
<1>2. /\ row \in AccountRow \cup {None} /\ used \subseteq Passwords /\ born \in Nat
      /\ DOMAIN spent \subseteq SecondFactor /\ \A c \in DOMAIN spent : spent[c] \in Nat
  BY <1>1 DEF ServerOK, ServerTypeOK
<1>3. /\ j.tok \in SessionToken \cup {None} /\ None \in SessionToken \cup {None}
      /\ j.kind \in {"signup", "login", "unlock"} => j.pw \in Passwords
      /\ j.kind \in {"change", "recover"} => j.new \in Passwords
      /\ j.kind = "enable" => j.code \in SecondFactor
      /\ j.kind \in {"login", "disable"} => j.code \in SecondFactor \cup {None}
      /\ j.kind \in {"enroll", "recover"} => j.code \in PaperCode
      /\ j.kind = "publish" => j.code \in Nat
      /\ j.kind \in {"login", "change", "disable"} /\ j.at = "loaded" => j.seen \in AccountRow
      /\ j.kind \in {"login", "disable"} /\ j.at = "loaded" /\ j.seen.secret # None => j.code # None
      /\ j.kind = "recover" /\ j.at = "loaded" => j.seen \in AccountRow
  BY <1>1 DEF JobOK, GotRecovery
<1> HIDE DEF j
<1>4. ASSUME NEW n \in Nat, NEW r \in AccountRow, NEW pw \in Passwords
      PROVE  Token(r, n, pw) \in SessionToken
  BY <1>4 DEF Token, SessionToken, AccountRow
<1>5. \A r \in AccountRow : r.epoch \in Nat /\ r.epoch + 1 \in Nat
  BY DEF AccountRow
<1>6. CASE Signup(t)
  <2>1. j.at = "loaded" /\ j.kind = "signup" /\ j.pw \in Passwords
    BY <1>3, <1>6 DEF Signup, j
  <2>2. CASE row = None
    <3>1. /\ row' = FreshRow(j.pw) /\ used' = used \cup {j.pw} /\ born' = born + 1
          /\ Answer(t, TRUE, Token(FreshRow(j.pw), 0, j.pw))
          /\ UNCHANGED <<banned, clock, spent, raced>>
      BY <1>6, <2>2 DEF Signup, j
    <3>2. FreshRow(j.pw) \in AccountRow
      BY <1>2, <2>1, FreshRowType
    <3>3. Token(FreshRow(j.pw), 0, j.pw) \in SessionToken \cup {None}
      BY <1>4, <2>1, <3>2
    <3>4. row' \in AccountRow \cup {None} /\ used' \subseteq Passwords /\ born' \in Nat
      BY <1>2, <2>1, <3>1, <3>2
    <3>5. ServerOK'
      BY <1>2, <3>1, <3>4, WriteTypes
    <3> QED
      BY <1>1, <2>1, <3>1, <3>3, <3>5, AnswerTypes DEF j
  <2>3. CASE row # None
    <3>1. UNCHANGED <<row, used, born, banned, clock, spent, raced>> /\ Answer(t, FALSE, None)
      BY <1>6, <2>3 DEF Signup
    <3> QED
      BY <1>1, <1>2, <1>3, <2>1, <3>1, AnswerTypes, WriteTypes DEF j
  <2> QED
    BY <2>2, <2>3
<1>7. CASE Login(t)
  <2>1. /\ j.at = "loaded" /\ j.kind = "login" /\ j.pw \in Passwords /\ j.seen \in AccountRow
        /\ j.code \in SecondFactor \cup {None} /\ (j.seen.secret # None => j.code # None)
    BY <1>3, <1>7 DEF Login, j
  <2>2. /\ row' = IF j.seen.secret # None /\ row # None THEN SpendCode(row, j.seen, j.code) ELSE row
        /\ IF j.seen.secret # None THEN Accepted(j.code) ELSE UNCHANGED spent
        /\ Answer(t, TRUE, Token(j.seen, j.seen.epoch, j.pw))
        /\ UNCHANGED <<banned, clock, used, born, raced>>
    BY <1>7 DEF Login, j
  <2>3. Token(j.seen, j.seen.epoch, j.pw) \in SessionToken \cup {None}
    BY <1>4, <1>5, <2>1
  <2>4. JobsOK'
    BY <1>1, <2>1, <2>2, <2>3, AnswerTypes DEF j
  <2>5. row' \in AccountRow \cup {None}
    <3>1. CASE j.seen.secret # None /\ row # None
      <4>1. j.code \in SecondFactor /\ row \in AccountRow /\ j.code.step \in Nat
        BY <1>2, <2>1, <3>1 DEF SecondFactor
      <4>2. SpendCode(row, j.seen, j.code) \in AccountRow
        BY <2>1, <4>1, RowTypes DEF SpendCode
      <4> QED
        BY <2>2, <3>1, <4>2
    <3>2. CASE ~ (j.seen.secret # None /\ row # None)
      BY <1>2, <2>2, <3>2
    <3> QED
      BY <3>1, <3>2
  <2>6. DOMAIN spent' \subseteq SecondFactor /\ \A c \in DOMAIN spent' : spent'[c] \in Nat
    BY <1>1, <1>2, <2>1, <2>2, AcceptedFacts
  <2> QED
    BY <1>2, <2>2, <2>4, <2>5, <2>6, WriteTypes
<1>8. CASE Me(t)
  <2>1. j.at = "sent" /\ j.kind = "me" /\ UNCHANGED server
    BY <1>8 DEF Me, j
  <2>2. CASE Authenticates(j.tok)
    <3>1. j.tok \in SessionToken /\ row \in AccountRow /\ row.epoch \in Nat
      BY <1>2, <1>3, <1>5, <2>2 DEF Authenticates
    <3>2. [j.tok EXCEPT !.epoch = row.epoch] \in SessionToken
      BY <3>1 DEF SessionToken
    <3>3. Answer(t, TRUE, [j.tok EXCEPT !.epoch = row.epoch])
      BY <1>8, <2>2 DEF Me, j
    <3> QED
      BY <1>1, <1>2, <2>1, <3>2, <3>3, AnswerTypes, WriteTypes DEF j, server
  <2>3. CASE ~ Authenticates(j.tok)
    <3>1. Answer(t, FALSE, None)
      BY <1>8, <2>3 DEF Me, j
    <3> QED
      BY <1>1, <1>2, <1>3, <2>1, <3>1, AnswerTypes, WriteTypes DEF j, server
  <2> QED
    BY <2>2, <2>3
<1>9. CASE ChangePassword(t) \/ RecoveryReset(t)
  <2>1. /\ j.at = "loaded" /\ j.new \in Passwords /\ j.seen \in AccountRow
        /\ UpdatePassword(j.new) /\ used' = used \cup {j.new}
        /\ Answer(t, TRUE, Token(j.seen, j.seen.epoch + 1, j.new))
        /\ UNCHANGED <<banned, clock, born, spent, raced>>
    BY <1>3, <1>9 DEF ChangePassword, RecoveryReset, j
  <2>2. Token(j.seen, j.seen.epoch + 1, j.new) \in SessionToken \cup {None}
    BY <1>4, <1>5, <2>1
  <2>3. row' \in AccountRow \cup {None}
    <3>1. CASE row = None
      BY <2>1, <3>1 DEF UpdatePassword
    <3>2. CASE row # None
      <4>1. row \in AccountRow
        BY <1>2, <3>2
      <4>2. [row EXCEPT !.pw = j.new, !.epoch = @ + 1] \in AccountRow
        BY <2>1, <4>1, RowTypes, Zenon
      <4> QED
        BY <2>1, <3>2, <4>2, Zenon DEF UpdatePassword
    <3> QED
      BY <3>1, <3>2
  <2> QED
    BY <1>1, <1>2, <2>1, <2>2, <2>3, AnswerTypes, WriteTypes DEF j
<1>10. CASE LogoutAll(t) \/ DeleteAccount(t)
  <2>1. /\ j.at = "loaded" /\ j.kind # "recover" /\ Answer(t, TRUE, None)
        /\ UNCHANGED <<banned, clock, used, born, spent, raced>>
    BY <1>10 DEF LogoutAll, DeleteAccount, j
  <2>2. row' \in AccountRow \cup {None}
    BY <1>2, <1>10, RowTypes DEF LogoutAll, DeleteAccount
  <2> QED
    BY <1>1, <1>2, <1>3, <2>1, <2>2, AnswerTypes, WriteTypes DEF j
<1>11. CASE TwoFactorEnable(t)
  <2>1. /\ j.at = "loaded" /\ j.kind = "enable" /\ j.code \in SecondFactor /\ j.code.secret \in Nat
        /\ UNCHANGED <<banned, clock, used, born, spent, raced>>
    BY <1>3, <1>11 DEF TwoFactorEnable, SecondFactor, j
  <2>2. row' \in AccountRow \cup {None}
    <3>1. CASE row = None
      BY <1>11, <3>1 DEF TwoFactorEnable, j
    <3>2. CASE row # None
      <4> DEFINE new == [row EXCEPT !.secret = j.code.secret, !.last = 0,
                                    !.backup = {BackupCode(j.code.secret, b) : b \in BackupCodes}]
      <4>1. row \in AccountRow
        BY <1>2, <3>2
      <4>2. new \in AccountRow
        BY <2>1, <4>1, RowTypes, Zenon
      <4>3. row' \in {row, new}
        BY <1>11, <3>2 DEF TwoFactorEnable, j
      <4> HIDE DEF new
      <4> QED
        BY <4>1, <4>2, <4>3
    <3> QED
      BY <3>1, <3>2
  <2>3. Answer(t, TRUE, j.tok) \/ Answer(t, FALSE, None)
    BY <1>11 DEF TwoFactorEnable, j
  <2> QED
    BY <1>1, <1>2, <1>3, <2>1, <2>2, <2>3, AnswerTypes, WriteTypes DEF j
<1>12. CASE TwoFactorDisable(t)
  <2>1. /\ j.at = "loaded" /\ j.kind = "disable" /\ j.code \in SecondFactor \cup {None} /\ j.seen \in AccountRow
        /\ j.seen.secret # None => j.code # None
        /\ Answer(t, TRUE, j.tok)
        /\ UNCHANGED <<banned, clock, used, born, raced>>
    BY <1>3, <1>12 DEF TwoFactorDisable, j
  <2>2. row' \in AccountRow \cup {None}
    BY <1>2, <1>12, RowTypes DEF TwoFactorDisable
  <2>3. DOMAIN spent' \subseteq SecondFactor /\ \A c \in DOMAIN spent' : spent'[c] \in Nat
    <3>1. IF j.seen.secret # None THEN Accepted(j.code) ELSE UNCHANGED spent
      BY <1>12 DEF TwoFactorDisable, j
    <3> QED
      BY <1>1, <1>2, <2>1, <3>1, AcceptedFacts
  <2> QED
    BY <1>1, <1>2, <1>3, <2>1, <2>2, <2>3, AnswerTypes, WriteTypes DEF j
<1>13. CASE RecoveryEnroll(t) \/ AcceptTerms(t) \/ PublishKeys(t)
  <2>1. /\ j.at \in {"loaded", "authed"} /\ j.kind # "recover" /\ Answer(t, TRUE, j.tok)
        /\ UNCHANGED <<banned, clock, used, born, spent, raced>>
    BY <1>13 DEF RecoveryEnroll, AcceptTerms, PublishKeys, j
  <2>2. row' \in AccountRow \cup {None}
    <3>1. CASE RecoveryEnroll(t)
      BY <1>2, <1>3, <3>1, RowTypes DEF RecoveryEnroll, j
    <3>2. CASE AcceptTerms(t)
      BY <1>2, <3>2, RowTypes DEF AcceptTerms
    <3>3. CASE PublishKeys(t)
      BY <1>2, <1>3, <3>3, RowTypes DEF PublishKeys, j
    <3> QED
      BY <1>13, <3>1, <3>2, <3>3
  <2> QED
    BY <1>1, <1>2, <1>3, <2>1, <2>2, AnswerTypes, WriteTypes DEF j
<1> QED
  BY <1>6, <1>7, <1>8, <1>9, <1>10, <1>11, <1>12, <1>13, AuthenticateTypes, LoadTypes DEF Serve

-----------------------------------------------------------------------------
(* What happens on the devices keeps the types.                            *)

(* A step of one tab, with the server as it was.                           *)
LEMMA TabStep ==
    ASSUME TInv, NEW t \in Tabs, UNCHANGED server,
           DOMAIN job' = Tabs, \A u \in Tabs \ {t} : job'[u] = job[u], JobOK(job'[t]),
           DiskOK', RestOK', user' \in [Tabs -> BOOLEAN], doc' \in [Tabs -> LoadedDoc \cup {None}],
           cached' \in [Tabs -> Nat \cup {None}], \A u \in Tabs \ {t} : cached'[u] = cached[u],
           job'[t].kind = "enrollPasskey" => cached'[t] # None
    PROVE  TInv'
<1>1. ServerOK'
  BY DEF TInv, ServerOK, ServerTypeOK, server
<1>2. JobsOK'
  BY OtherJobsStay DEF TInv
<1>3. \A u \in Tabs : job'[u].kind = "enrollPasskey" => cached'[u] # None
  BY DEF TInv, TabsOK
<1> QED
  BY <1>1, <1>2, <1>3 DEF TInv, TabsOK

(* A job that is over.                                                     *)
LEMMA IdleOK == JobOK(Idle) /\ Idle.kind = "idle"
BY DEF JobOK, Idle, HasFields, GotRecovery

(* What a user starts.                                                     *)
LEMMA StartStep ==
    ASSUME TInv, NEW t \in Tabs, NEW kind, Start(t, kind), UNCHANGED cached, minted' \in Nat,
           NEW j, job' = [job EXCEPT ![t] = j], JobOK(j), j.kind # "enrollPasskey"
    PROVE  TInv'
<1>1. UNCHANGED <<server, disk, user, doc, paper, causes, mode, crashes, losses>> /\ ops' = ops + 1
  BY DEF Start
<1>2. DOMAIN job' = Tabs /\ job'[t] = j /\ \A u \in Tabs \ {t} : job'[u] = job[u]
  BY SetFacts DEF TInv
<1>3. DiskOK'
  BY <1>1 DEF TInv, DiskOK, disk
<1>4. RestOK'
  BY <1>1 DEF TInv, RestOK, causes
<1>5. user' \in [Tabs -> BOOLEAN] /\ doc' \in [Tabs -> LoadedDoc \cup {None}] /\ cached' \in [Tabs -> Nat \cup {None}]
  BY <1>1 DEF TInv, TabsOK
<1> QED
  BY <1>1, <1>2, <1>3, <1>4, <1>5, TabStep

(* The code in a user's hand is a code of the second factor.               *)
LEMMA InHandTypes == ASSUME ServerOK PROVE CodesInHand \subseteq SecondFactor \cup {None}
<1>1. row \in AccountRow \cup {None} /\ clock \in Nat
  BY DEF ServerOK, ServerTypeOK
<1>2. row # None /\ row.secret # None => row.secret \in Nat
  BY <1>1 DEF AccountRow
<1> QED
  BY <1>1, <1>2 DEF CodesInHand, SecondFactor, TotpCode, BackupCode

(* The device and home of a tab.                                           *)
LEMMA HomeFacts == ASSUME TInv, NEW t \in Tabs PROVE Home(t) \in Devices
BY CredentialsAssumption DEF TInv, RestOK, Home

LEMMA StartTypes ==
    ASSUME TInv, NEW t \in Tabs, NEW pw \in Passwords,
           \/ StartSignup(t, pw) \/ StartUnlock(t, pw) \/ StartEnable(t, pw) \/ StartEnroll(t, pw)
           \/ \E c \in CodesInHand : StartLogin(t, pw, c)
           \/ \E new \in Passwords : StartChange(t, pw, new)
           \/ \E c \in CodesInHand, k \in PasswordKinds \cup {"terms"} : StartRequest(t, k, pw, c)
           \/ \E c \in paper : StartRecover(t, c, pw)
    PROVE  TInv'
<1>1. /\ Home(t) \in Devices /\ CodesInHand \subseteq SecondFactor \cup {None} /\ paper \subseteq PaperCode
      /\ minted \in Nat /\ minted + 1 \in Nat /\ clock \in Nat /\ cookie[Home(t)] \in SessionToken \cup {None}
      /\ Here(t) \in KeystoreRecord \cup {None} /\ (Here(t) # None => Here(t).ident \in Nat)
  <2>1. Home(t) \in Devices
    BY HomeFacts
  <2>2. CodesInHand \subseteq SecondFactor \cup {None}
    BY InHandTypes DEF TInv
  <2>3. clock \in Nat
    BY DEF TInv, ServerOK, ServerTypeOK
  <2>4. minted \in Nat /\ paper \subseteq PaperCode
    BY DEF TInv, RestOK
  <2>5. cookie[Home(t)] \in SessionToken \cup {None} /\ Here(t) \in KeystoreRecord \cup {None}
    BY <2>1 DEF TInv, DiskOK, Here
  <2>6. Here(t) # None => Here(t).ident \in Nat
    BY <2>5 DEF KeystoreRecord
  <2> QED
    BY <2>1, <2>2, <2>3, <2>4, <2>5, <2>6
<1>2. CASE StartSignup(t, pw)
  <2> DEFINE j == [Idle EXCEPT !.kind = "signup", !.at = "sent", !.pw = pw]
  <2>1. JobOK(j) /\ j.kind # "enrollPasskey"
    <3>2. j = [Idle EXCEPT !.kind = "signup", !.at = "sent", !.pw = pw]
      OBVIOUS
    <3> HIDE DEF j
    <3>3. /\ HasFields(j) /\ j.kind = "signup" /\ j.at = "sent" /\ j.tok = None /\ j.pw = pw
          /\ j.new = None /\ j.code = None /\ j.seen = None
      BY <3>2 DEF Idle, HasFields
    <3> QED
      BY <1>1, <3>3 DEF JobOK, GotRecovery
  <2>2. Start(t, "signup") /\ UNCHANGED <<cached, minted>> /\ job' = [job EXCEPT ![t] = j]
    BY <1>2 DEF StartSignup
  <2> HIDE DEF j
  <2> QED
    BY <1>1, <2>1, <2>2, StartStep
<1>3. CASE StartUnlock(t, pw)
  <2> DEFINE j == [Idle EXCEPT !.kind = "unlock", !.at = "received", !.pw = pw]
  <2>1. JobOK(j) /\ j.kind # "enrollPasskey"
    <3>2. j = [Idle EXCEPT !.kind = "unlock", !.at = "received", !.pw = pw]
      OBVIOUS
    <3> HIDE DEF j
    <3>3. /\ HasFields(j) /\ j.kind = "unlock" /\ j.at = "received" /\ j.tok = None /\ j.pw = pw
          /\ j.new = None /\ j.code = None /\ j.seen = None
      BY <3>2 DEF Idle, HasFields
    <3> QED
      BY <1>1, <3>3 DEF JobOK, GotRecovery
  <2>2. Start(t, "unlock") /\ UNCHANGED <<cached, minted>> /\ job' = [job EXCEPT ![t] = j]
    BY <1>3 DEF StartUnlock
  <2> HIDE DEF j
  <2> QED
    BY <1>1, <2>1, <2>2, StartStep
<1>4. CASE StartEnable(t, pw)
  <2> DEFINE j == [Idle EXCEPT !.kind = "enable", !.at = "sent", !.pw = pw,
                               !.code = TotpCode(minted, clock), !.tok = cookie[Home(t)]]
  <2>1. JobOK(j) /\ j.kind # "enrollPasskey"
    <3>1. TotpCode(minted, clock) \in SecondFactor
      BY <1>1 DEF TotpCode, SecondFactor
    <3>2. j = [Idle EXCEPT !.kind = "enable", !.at = "sent", !.pw = pw,
                      !.code = TotpCode(minted, clock), !.tok = cookie[Home(t)]]
      OBVIOUS
    <3> HIDE DEF j
    <3>3. /\ HasFields(j) /\ j.kind = "enable" /\ j.at = "sent" /\ j.tok = cookie[Home(t)] /\ j.pw = pw
          /\ j.new = None /\ j.code = TotpCode(minted, clock) /\ j.seen = None
      BY <3>2 DEF Idle, HasFields
    <3> QED
      BY <1>1, <3>1, <3>3 DEF JobOK, GotRecovery
  <2>2. Start(t, "enable") /\ minted' = minted + 1 /\ UNCHANGED cached /\ job' = [job EXCEPT ![t] = j]
    BY <1>4 DEF StartEnable
  <2> HIDE DEF j
  <2> QED
    BY <1>1, <2>1, <2>2, StartStep
<1>5. CASE StartEnroll(t, pw)
  <2> DEFINE j == [Idle EXCEPT !.kind = "enroll", !.at = "sent", !.pw = pw,
                               !.code = [code |-> minted, identity |-> Here(t).ident],
                               !.tok = cookie[Home(t)]]
  <2>1. JobOK(j) /\ j.kind # "enrollPasskey"
    <3>1. [code |-> minted, identity |-> Here(t).ident] \in PaperCode
      BY <1>1, <1>5 DEF StartEnroll, PaperCode
    <3>2. j = [Idle EXCEPT !.kind = "enroll", !.at = "sent", !.pw = pw,
                      !.code = [code |-> minted, identity |-> Here(t).ident],
                      !.tok = cookie[Home(t)]]
      OBVIOUS
    <3> HIDE DEF j
    <3>3. /\ HasFields(j) /\ j.kind = "enroll" /\ j.at = "sent" /\ j.tok = cookie[Home(t)] /\ j.pw = pw
          /\ j.new = None /\ j.code = [code |-> minted, identity |-> Here(t).ident] /\ j.seen = None
      BY <3>2 DEF Idle, HasFields
    <3> QED
      BY <1>1, <3>1, <3>3 DEF JobOK, GotRecovery
  <2>2. Start(t, "enroll") /\ minted' = minted + 1 /\ UNCHANGED cached /\ job' = [job EXCEPT ![t] = j]
    BY <1>5 DEF StartEnroll
  <2> HIDE DEF j
  <2> QED
    BY <1>1, <2>1, <2>2, StartStep
<1>6. ASSUME NEW c \in CodesInHand, StartLogin(t, pw, c) PROVE TInv'
  <2> DEFINE j == [Idle EXCEPT !.kind = "login", !.at = "sent", !.pw = pw, !.code = c]
  <2>1. JobOK(j) /\ j.kind # "enrollPasskey"
    <3>2. j = [Idle EXCEPT !.kind = "login", !.at = "sent", !.pw = pw, !.code = c]
      OBVIOUS
    <3> HIDE DEF j
    <3>3. /\ HasFields(j) /\ j.kind = "login" /\ j.at = "sent" /\ j.tok = None /\ j.pw = pw
          /\ j.new = None /\ j.code = c /\ j.seen = None
      BY <3>2 DEF Idle, HasFields
    <3> QED
      BY <1>1, <3>3 DEF JobOK, GotRecovery
  <2>2. Start(t, "login") /\ UNCHANGED <<cached, minted>> /\ job' = [job EXCEPT ![t] = j]
    BY <1>6 DEF StartLogin
  <2> HIDE DEF j
  <2> QED
    BY <1>1, <2>1, <2>2, StartStep
<1>7. ASSUME NEW new \in Passwords, StartChange(t, pw, new) PROVE TInv'
  <2> DEFINE j == [Idle EXCEPT !.kind = "change", !.at = "staging", !.pw = pw, !.new = new, !.seen = Here(t)]
  <2>1. JobOK(j) /\ j.kind # "enrollPasskey"
    <3>1. Here(t) \in KeystoreRecord /\ Here(t) # None /\ new # None
      <4>1. job[t] = Idle /\ new # job[t].new /\ Here(t) # None
        BY <1>7 DEF StartChange, Start
      <4> QED
        BY <1>1, <4>1 DEF Idle
    <3>2. j = [Idle EXCEPT !.kind = "change", !.at = "staging", !.pw = pw, !.new = new, !.seen = Here(t)]
      OBVIOUS
    <3> HIDE DEF j
    <3>3. /\ HasFields(j) /\ j.kind = "change" /\ j.at = "staging" /\ j.tok = None /\ j.pw = pw
          /\ j.new = new /\ j.code = None /\ j.seen = Here(t)
      BY <3>2 DEF Idle, HasFields
    <3> QED
      BY <1>1, <3>1, <3>3 DEF JobOK, GotRecovery
  <2>2. Start(t, "change") /\ UNCHANGED <<cached, minted>> /\ job' = [job EXCEPT ![t] = j]
    BY <1>7 DEF StartChange
  <2> HIDE DEF j
  <2> QED
    BY <1>1, <2>1, <2>2, StartStep
<1>8. ASSUME NEW c \in CodesInHand, NEW k, StartRequest(t, k, pw, c) PROVE TInv'
  <2> DEFINE j == [Idle EXCEPT !.kind = k, !.at = "sent", !.pw = pw, !.code = c, !.tok = cookie[Home(t)]]
  <2>1. JobOK(j) /\ j.kind # "enrollPasskey"
    <3>1. k \in {"logoutAll", "disable", "delete", "terms"}
      BY <1>8 DEF StartRequest
    <3>2. j = [Idle EXCEPT !.kind = k, !.at = "sent", !.pw = pw, !.code = c, !.tok = cookie[Home(t)]]
      OBVIOUS
    <3> HIDE DEF j
    <3>3. /\ HasFields(j) /\ j.kind = k /\ j.at = "sent" /\ j.tok = cookie[Home(t)] /\ j.pw = pw
          /\ j.new = None /\ j.code = c /\ j.seen = None
      BY <3>2 DEF Idle, HasFields
    <3> QED
      BY <1>1, <3>1, <3>3 DEF JobOK, GotRecovery
  <2>2. Start(t, k) /\ UNCHANGED <<cached, minted>> /\ job' = [job EXCEPT ![t] = j]
    BY <1>8 DEF StartRequest
  <2> HIDE DEF j
  <2> QED
    BY <1>1, <2>1, <2>2, StartStep
<1>9. ASSUME NEW c \in paper, StartRecover(t, c, pw) PROVE TInv'
  <2> DEFINE j == [Idle EXCEPT !.kind = "recover", !.at = "sent", !.code = c, !.new = pw]
  <2>1. JobOK(j) /\ j.kind # "enrollPasskey"
    <3>2. j = [Idle EXCEPT !.kind = "recover", !.at = "sent", !.code = c, !.new = pw]
      OBVIOUS
    <3> HIDE DEF j
    <3>3. /\ HasFields(j) /\ j.kind = "recover" /\ j.at = "sent" /\ j.tok = None /\ j.pw = None
          /\ j.new = pw /\ j.code = c /\ j.seen = None
      BY <3>2 DEF Idle, HasFields
    <3> QED
      BY <1>1, <3>3 DEF JobOK, GotRecovery
  <2>2. Start(t, "recover") /\ UNCHANGED <<cached, minted>> /\ job' = [job EXCEPT ![t] = j]
    BY <1>9 DEF StartRecover
  <2> HIDE DEF j
  <2> QED
    BY <1>1, <2>1, <2>2, StartStep
<1> QED
  BY <1>2, <1>3, <1>4, <1>5, <1>6, <1>7, <1>8, <1>9

(* A job that ends, with whatever the step writes.                         *)
LEMMA EndStep ==
    ASSUME TInv, NEW t \in Tabs, UNCHANGED server, job' = [job EXCEPT ![t] = Idle],
           DiskOK', RestOK', user' \in [Tabs -> BOOLEAN], doc' \in [Tabs -> LoadedDoc \cup {None}],
           cached' \in [Tabs -> Nat \cup {None}], \A u \in Tabs \ {t} : cached'[u] = cached[u]
    PROVE  TInv'
<1>1. DOMAIN job' = Tabs /\ job'[t] = Idle /\ \A u \in Tabs \ {t} : job'[u] = job[u]
  BY SetFacts DEF TInv
<1>2. JobOK(job'[t]) /\ job'[t].kind # "enrollPasskey"
  BY <1>1, IdleOK
<1> QED
  BY <1>1, <1>2, TabStep

(* A job whose answer is read or lost.                                     *)
LEMMA StageStep ==
    ASSUME JobsOK, NEW t \in Tabs, NEW a \in {"received", "refused"}, job' = [job EXCEPT ![t].at = a],
           job[t].at # "prompt",
           a = "received" /\ job[t].kind = "recover" => job[t].at = "answered" /\ job[t].ok
    PROVE  /\ DOMAIN job' = Tabs /\ \A u \in Tabs \ {t} : job'[u] = job[u]
           /\ JobOK(job'[t]) /\ job'[t].kind # "enrollPasskey"
<1>1. /\ DOMAIN job' = Tabs /\ \A u \in Tabs \ {t} : job'[u] = job[u]
      /\ HasFields(job'[t]) /\ Same(job[t], job'[t])
      /\ job'[t].at = a /\ job'[t].tok = job[t].tok /\ job'[t].seen = job[t].seen
      /\ job'[t].ok = job[t].ok
  BY SetAtFacts
<1>2. JobOK(job[t])
  BY DEF JobsOK
<1>3. JobOK(job'[t]) /\ job'[t].kind # "enrollPasskey"
  BY <1>1, <1>2 DEF JobOK, Same, GotRecovery
<1> QED
  BY <1>1, <1>3

(* A cause is added for a device.                                          *)
LEMMA MarkFacts ==
    ASSUME NEW f, NEW d, NEW cause, NEW set PROVE DOMAIN Mark(f, d, cause, set) = DOMAIN f
BY DEF Mark

(* What the parts say of the state of one tab and its device.              *)
LEMMA Here1 ==
    ASSUME TInv, NEW t \in Tabs
    PROVE  /\ Home(t) \in Devices /\ rec[Home(t)] \in KeystoreRecord \cup {None}
           /\ cookie[Home(t)] \in SessionToken \cup {None} /\ cached[t] \in Nat \cup {None}
           /\ enrolled[Home(t)] \in [Unlocks -> EnrolledRecord \cup {None}]
           /\ doc[t] \in LoadedDoc \cup {None} /\ minted \in Nat /\ JobOK(job[t]) /\ JobsOK
           /\ mode \in Modes /\ ops \in Nat /\ crashes \in Nat /\ losses \in Nat
           /\ DOMAIN parted = Devices /\ DOMAIN unlisted = Devices
           /\ user \in [Tabs -> BOOLEAN] /\ cached \in [Tabs -> Nat \cup {None}]
           /\ doc \in [Tabs -> LoadedDoc \cup {None}]
BY HomeFacts DEF TInv, DiskOK, TabsOK, RestOK, JobsOK

(* A record with its wraps rearranged is a record.                         *)
LEMMA WrapTypes ==
    ASSUME NEW r \in KeystoreRecord, NEW pw
    PROVE  /\ Collapse(r, pw) \in KeystoreRecord /\ PromoteRewrap(r) \in KeystoreRecord
           /\ AbortRewrap(r) \in KeystoreRecord
           /\ \A new \in Passwords : StageRewrap(r, pw, new) \in KeystoreRecord
<1>1. r.alt \in Passwords \cup {None} /\ None \in Passwords \cup {None}
  BY DEF KeystoreRecord
<1>2. [r EXCEPT !.alt = None] \in KeystoreRecord
  BY DEF KeystoreRecord
<1>3. r.alt # None => [r EXCEPT !.wrap = r.alt, !.alt = None] \in KeystoreRecord
  BY <1>1 DEF KeystoreRecord
<1>4. Collapse(r, pw) \in KeystoreRecord
  BY <1>2, <1>3 DEF Collapse
<1>5. \A new \in Passwords : [Collapse(r, pw) EXCEPT !.alt = new] \in KeystoreRecord
  BY <1>4 DEF KeystoreRecord
<1> QED
  BY <1>2, <1>3, <1>4, <1>5 DEF PromoteRewrap, AbortRewrap, StageRewrap

(* The bootstrap asks who is signed in.                                    *)
LEMMA StartMeTypes == ASSUME TInv, NEW t \in Tabs, StartMe(t) PROVE TInv'
<1> DEFINE j == [Idle EXCEPT !.kind = "me", !.at = "sent", !.tok = cookie[Home(t)]]
<1>1. Start(t, "me") /\ UNCHANGED <<cached, minted>> /\ job' = [job EXCEPT ![t] = j]
  BY DEF StartMe
<1>2. j = [Idle EXCEPT !.kind = "me", !.at = "sent", !.tok = cookie[Home(t)]]
  OBVIOUS
<1> HIDE DEF j
<1>3. HasFields(j) /\ j.kind = "me" /\ j.at = "sent" /\ j.tok = cookie[Home(t)]
  BY <1>2 DEF Idle, HasFields
<1>4. cookie[Home(t)] \in SessionToken \cup {None} /\ minted \in Nat
  BY Here1
<1>5. JobOK(j) /\ j.kind # "enrollPasskey"
  BY <1>3, <1>4 DEF JobOK, GotRecovery
<1> QED
  BY <1>1, <1>4, <1>5, StartStep

(* The new wrap is staged.                                                 *)
LEMMA StageTypes == ASSUME TInv, NEW t \in Tabs, Stage(t) PROVE TInv'
<1> DEFINE j == job[t]
<1>1. /\ Home(t) \in Devices /\ cookie[Home(t)] \in SessionToken \cup {None} /\ JobsOK /\ JobOK(j)
      /\ DOMAIN parted = Devices /\ DOMAIN unlisted = Devices
  BY Here1
<1>2. j.at = "staging" /\ UNCHANGED <<server, enrolled, cookie, tabs, paper, minted, limits>>
  BY DEF Stage
<1>3. j.kind = "change" /\ j.seen \in KeystoreRecord /\ j.new \in Passwords
  BY <1>1, <1>2 DEF JobOK
<1>4. StageRewrap(j.seen, j.pw, j.new) \in KeystoreRecord
  BY <1>3, WrapTypes
<1>5. DiskOK'
  <2>1. rec' \in [Devices -> KeystoreRecord \cup {None}]
    BY <1>1, <1>4 DEF Stage, TInv, DiskOK
  <2> QED
    BY <1>2, <2>1 DEF TInv, DiskOK
<1>6. RestOK'
  <2>1. DOMAIN parted' = Devices /\ DOMAIN unlisted' = Devices
    BY <1>1, MarkFacts DEF Stage
  <2> QED
    BY <1>2, <2>1 DEF TInv, RestOK, limits
<1>7. /\ user' \in [Tabs -> BOOLEAN] /\ doc' \in [Tabs -> LoadedDoc \cup {None}]
      /\ cached' \in [Tabs -> Nat \cup {None}] /\ cached' = cached
  BY <1>2 DEF TInv, TabsOK, tabs
<1>8. CASE job' = [job EXCEPT ![t] = Idle]
  BY <1>2, <1>5, <1>6, <1>7, <1>8, EndStep
<1>9. CASE job' = [job EXCEPT ![t] = [j EXCEPT !.at = "sent", !.tok = cookie[Home(t)]]]
  <2>1. DOMAIN job' = Tabs /\ \A u \in Tabs \ {t} : job'[u] = job[u]
    BY <1>1, <1>9 DEF JobsOK
  <2>2. job'[t] = [j EXCEPT !.at = "sent", !.tok = cookie[Home(t)]]
    BY <1>1, <1>9 DEF JobsOK
  <2>3. HasFields(j)
    BY <1>1 DEF JobOK
  <2>4. /\ HasFields(job'[t]) /\ job'[t].kind = j.kind /\ job'[t].at = "sent" /\ job'[t].tok = cookie[Home(t)]
        /\ job'[t].new = j.new
    BY <2>2, <2>3 DEF HasFields
  <2>5. JobOK(job'[t]) /\ job'[t].kind # "enrollPasskey"
    BY <1>1, <1>3, <2>4 DEF JobOK, GotRecovery
  <2> QED
    BY <1>2, <1>5, <1>6, <1>7, <2>1, <2>5, TabStep
<1> QED
  BY <1>8, <1>9 DEF Stage

(* The reply is read, or the request or the reply was lost.                *)
LEMMA ReceiveTypes == ASSUME TInv, NEW t \in Tabs, Receive(t) \/ Lose(t) PROVE TInv'
<1> DEFINE j == job[t]
<1>1. /\ Home(t) \in Devices /\ JobsOK /\ JobOK(j) /\ DOMAIN parted = Devices /\ DOMAIN unlisted = Devices
      /\ losses \in Nat
  BY Here1
<1>2. j.at # "prompt" /\ UNCHANGED <<server, rec, enrolled, tabs, paper, minted, mode, ops, crashes, unlisted>>
  BY DEF Receive, Lose, disk, limits, causes
<1>3. /\ DOMAIN job' = Tabs /\ \A u \in Tabs \ {t} : job'[u] = job[u]
      /\ JobOK(job'[t]) /\ job'[t].kind # "enrollPasskey"
  <2>1. CASE Receive(t)
    <3>1. j.at = "answered" /\ job' = [job EXCEPT ![t].at = IF j.ok THEN "received" ELSE "refused"]
      BY <2>1 DEF Receive
    <3>2. CASE j.ok
      BY <1>1, <3>1, <3>2, StageStep
    <3>3. CASE ~ j.ok
      BY <1>1, <3>1, <3>3, StageStep
    <3> QED
      BY <3>2, <3>3
  <2>2. CASE Lose(t)
    <3>1. job' = [job EXCEPT ![t].at = "refused"]
      BY <2>2 DEF Lose
    <3> QED
      BY <1>1, <1>2, <3>1, StageStep
  <2> QED
    BY <2>1, <2>2
<1>4. DiskOK'
  <2>1. cookie' \in [Devices -> SessionToken \cup {None}]
    <3>1. j.tok \in SessionToken \cup {None}
      BY <1>1 DEF JobOK
    <3>2. cookie \in [Devices -> SessionToken \cup {None}]
      BY DEF TInv, DiskOK
    <3>3. CASE Receive(t)
      BY <1>1, <3>1, <3>2, <3>3 DEF Receive
    <3>4. CASE Lose(t)
      BY <3>2, <3>4 DEF Lose, disk
    <3> QED
      BY <3>3, <3>4
  <2> QED
    BY <1>2, <2>1 DEF TInv, DiskOK
<1>5. RestOK'
  <2>1. losses' \in Nat /\ DOMAIN parted' = Devices /\ DOMAIN unlisted' = Devices
    <3>1. CASE Receive(t)
      BY <1>1, <3>1 DEF Receive, limits, causes
    <3>2. CASE Lose(t)
      <4>1. losses' = losses + 1
        BY <3>2, Zenon DEF Lose
      <4>2. DOMAIN parted' = Devices
        BY <1>1, <3>2 DEF Lose, Mark
      <4> QED
        BY <1>1, <1>2, <4>1, <4>2
    <3> QED
      BY <3>1, <3>2
  <2> QED
    BY <1>2, <2>1 DEF TInv, RestOK
<1>6. /\ user' \in [Tabs -> BOOLEAN] /\ doc' \in [Tabs -> LoadedDoc \cup {None}]
      /\ cached' \in [Tabs -> Nat \cup {None}] /\ cached' = cached
  BY <1>2 DEF TInv, TabsOK, tabs
<1> QED
  BY <1>2, <1>3, <1>4, <1>5, <1>6, TabStep

(* The change is made final, or undone.                                    *)
LEMMA SettleTypes == ASSUME TInv, NEW t \in Tabs, FinalizeChange(t) \/ RollbackChange(t) PROVE TInv'
<1>1. /\ Home(t) \in Devices /\ rec[Home(t)] \in KeystoreRecord \cup {None}
      /\ DOMAIN parted = Devices /\ DOMAIN unlisted = Devices
      /\ enrolled[Home(t)] \in [Unlocks -> EnrolledRecord \cup {None}]
  BY Here1
<1>2. job' = [job EXCEPT ![t] = Idle] /\ UNCHANGED <<server, cookie, tabs, paper, minted, limits, unlisted>>
  BY DEF FinalizeChange, RollbackChange
<1>3. rec' \in [Devices -> KeystoreRecord \cup {None}]
  <2>1. rec[Home(t)] # None =>
            PromoteRewrap(rec[Home(t)]) \in KeystoreRecord /\ AbortRewrap(rec[Home(t)]) \in KeystoreRecord
    BY <1>1, WrapTypes
  <2> QED
    BY <1>1, <2>1 DEF FinalizeChange, RollbackChange, TInv, DiskOK
<1>4. enrolled' \in [Devices -> [Unlocks -> EnrolledRecord \cup {None}]]
  <2>1. CASE FinalizeChange(t)
    <3>1. PICK gone : enrolled' = [enrolled EXCEPT ![Home(t)] = [k \in Unlocks |-> IF k \in gone THEN None ELSE @[k]]]
      BY <2>1 DEF FinalizeChange
    <3>2. [k \in Unlocks |-> IF k \in gone THEN None ELSE enrolled[Home(t)][k]] \in
              [Unlocks -> EnrolledRecord \cup {None}]
      BY <1>1
    <3> QED
      BY <1>1, <3>1, <3>2 DEF TInv, DiskOK
  <2>2. CASE RollbackChange(t)
    BY <2>2 DEF RollbackChange, TInv, DiskOK
  <2> QED
    BY <2>1, <2>2
<1>5. DiskOK'
  BY <1>2, <1>3, <1>4 DEF TInv, DiskOK
<1>6. RestOK'
  <2>1. DOMAIN parted' = Devices /\ DOMAIN unlisted' = Devices
    BY <1>1, MarkFacts DEF FinalizeChange, RollbackChange
  <2> QED
    BY <1>2, <2>1 DEF TInv, RestOK, limits
<1>7. /\ user' \in [Tabs -> BOOLEAN] /\ doc' \in [Tabs -> LoadedDoc \cup {None}]
      /\ cached' \in [Tabs -> Nat \cup {None}] /\ cached' = cached
  BY <1>2 DEF TInv, TabsOK, tabs
<1> QED
  BY <1>2, <1>5, <1>6, <1>7, EndStep

(* The record is read to be opened.                                        *)
LEMMA UnlockReadTypes == ASSUME TInv, NEW t \in Tabs, UnlockRead(t) PROVE TInv'
<1> DEFINE j == job[t]
<1>1. /\ Home(t) \in Devices /\ JobsOK /\ JobOK(j) /\ rec[Home(t)] \in KeystoreRecord \cup {None}
      /\ DOMAIN parted = Devices /\ DOMAIN unlisted = Devices
  BY Here1
<1>2. /\ j.kind \in {"signup", "login", "unlock"}
      /\ job' = [job EXCEPT ![t].at = "opening", ![t].seen = Here(t)]
      /\ UNCHANGED <<server, disk, tabs, paper, minted, limits, causes>>
  BY DEF UnlockRead
<1>3. DOMAIN job' = Tabs /\ (\A u \in Tabs \ {t} : job'[u] = job[u]) /\ HasFields(j)
  BY <1>1, <1>2 DEF JobsOK, JobOK
<1>4. job'[t] = [kind |-> j.kind, at |-> "opening", tok |-> j.tok, pw |-> j.pw, new |-> j.new,
                code |-> j.code, seen |-> Here(t), ok |-> j.ok, orphan |-> j.orphan]
  BY <1>1, <1>2, <1>3 DEF JobsOK, HasFields
<1>5. HasFields(job'[t]) /\ Same(j, job'[t]) /\ job'[t].at = "opening" /\ job'[t].tok = j.tok /\ job'[t].seen = Here(t)
  BY <1>4 DEF HasFields, Same
<1>6. JobOK(job'[t]) /\ job'[t].kind # "enrollPasskey"
  BY <1>1, <1>2, <1>5 DEF JobOK, Same, GotRecovery, Here
<1>7. DiskOK' /\ RestOK'
  BY <1>2 DEF TInv, DiskOK, RestOK, disk, limits, causes
<1>8. /\ user' \in [Tabs -> BOOLEAN] /\ doc' \in [Tabs -> LoadedDoc \cup {None}]
      /\ cached' \in [Tabs -> Nat \cup {None}] /\ cached' = cached
  BY <1>2 DEF TInv, TabsOK, tabs
<1> QED
  BY <1>2, <1>3, <1>6, <1>7, <1>8, TabStep

(* A record that opens, or none.                                           *)
LEMMA OpenTypes == ASSUME TInv, NEW t \in Tabs, Unlock(t) PROVE TInv'
<1> DEFINE j == job[t]
<1>1. /\ Home(t) \in Devices /\ JobsOK /\ JobOK(j)
      /\ DOMAIN parted = Devices /\ DOMAIN unlisted = Devices
      /\ user \in [Tabs -> BOOLEAN] /\ cached \in [Tabs -> Nat \cup {None}]
  BY Here1
<1>2. /\ j.at = "opening" /\ j.seen # None /\ job' = [job EXCEPT ![t] = Idle]
      /\ UNCHANGED <<server, enrolled, cookie, doc, paper, minted, limits>>
  BY DEF Unlock
<1>3. j.seen \in KeystoreRecord
  BY <1>1, <1>2 DEF JobOK
<1>4. Collapse(j.seen, j.pw) \in KeystoreRecord /\ j.seen.key \in Nat
  BY <1>3, WrapTypes DEF KeystoreRecord
<1>5. rec' \in [Devices -> KeystoreRecord \cup {None}]
  BY <1>1, <1>4 DEF Unlock, TInv, DiskOK
<1>6. DiskOK'
  BY <1>2, <1>5 DEF TInv, DiskOK
<1>7. RestOK'
  <2>1. DOMAIN parted' = Devices /\ DOMAIN unlisted' = Devices
    BY <1>1, MarkFacts DEF Unlock
  <2> QED
    BY <1>2, <2>1 DEF TInv, RestOK, limits
<1>8. user' \in [Tabs -> BOOLEAN] /\ doc' \in [Tabs -> LoadedDoc \cup {None}]
  BY <1>1, <1>2 DEF Unlock, TInv, TabsOK
<1>9. cached' \in [Tabs -> Nat \cup {None}] /\ \A u \in Tabs \ {t} : cached'[u] = cached[u]
  BY <1>1, <1>4 DEF Unlock
<1> QED
  BY <1>2, <1>6, <1>7, <1>8, <1>9, EndStep

(* A new identity, or one out of a recovery: its publication is next.      *)
LEMMA NewRecordTypes ==
    ASSUME TInv, NEW t \in Tabs, NEW pw \in Passwords, NEW ident \in Nat,
           rec' = [rec EXCEPT ![Home(t)] = SealRecord(pw, minted, ident)],
           cached' = [cached EXCEPT ![t] = minted], minted' = minted + 1,
           job' = [job EXCEPT ![t] = [Idle EXCEPT !.kind = "publish", !.at = "sent", !.code = ident,
                                                  !.tok = cookie[Home(t)]]],
           DOMAIN parted' = Devices, DOMAIN unlisted' = Devices,
           UNCHANGED <<server, enrolled, cookie, user, doc, paper, limits>>
    PROVE  TInv'
<1>1. /\ Home(t) \in Devices /\ cookie[Home(t)] \in SessionToken \cup {None} /\ JobsOK /\ minted \in Nat
      /\ cached \in [Tabs -> Nat \cup {None}]
  BY Here1
<1>2. SealRecord(pw, minted, ident) \in KeystoreRecord
  BY <1>1 DEF SealRecord, KeystoreRecord
<1>3. DiskOK' /\ RestOK'
  <2>1. rec' \in [Devices -> KeystoreRecord \cup {None}]
    BY <1>1, <1>2 DEF TInv, DiskOK
  <2> QED
    BY <1>1, <2>1 DEF TInv, DiskOK, RestOK, limits
<1>4. /\ DOMAIN job' = Tabs /\ \A u \in Tabs \ {t} : job'[u] = job[u]
      /\ job'[t] = [Idle EXCEPT !.kind = "publish", !.at = "sent", !.code = ident, !.tok = cookie[Home(t)]]
  BY <1>1 DEF JobsOK
<1>5. HasFields(job'[t]) /\ job'[t].kind = "publish" /\ job'[t].at = "sent" /\ job'[t].code = ident
      /\ job'[t].tok = cookie[Home(t)]
  BY <1>4 DEF Idle, HasFields
<1>6. JobOK(job'[t]) /\ job'[t].kind # "enrollPasskey"
  BY <1>1, <1>5 DEF JobOK, GotRecovery
<1>7. user' \in [Tabs -> BOOLEAN] /\ doc' \in [Tabs -> LoadedDoc \cup {None}]
  BY DEF TInv, TabsOK
<1>8. cached' \in [Tabs -> Nat \cup {None}] /\ \A u \in Tabs \ {t} : cached'[u] = cached[u]
  BY <1>1
<1> QED
  BY <1>3, <1>4, <1>6, <1>7, <1>8, TabStep

LEMMA IdentityTypes == ASSUME TInv, NEW t \in Tabs, CreateIdentity(t) \/ RestoreFromRecovery(t) PROVE TInv'
<1> DEFINE j == job[t]
<1>1. JobOK(j) /\ minted \in Nat /\ DOMAIN parted = Devices /\ DOMAIN unlisted = Devices
  BY Here1
<1>2. CASE CreateIdentity(t)
  <2>1. j.at = "opening" /\ j.pw \in Passwords
    BY <1>1, <1>2 DEF CreateIdentity, JobOK
  <2>2. /\ rec' = [rec EXCEPT ![Home(t)] = SealRecord(j.pw, minted, minted)]
        /\ cached' = [cached EXCEPT ![t] = minted] /\ minted' = minted + 1
        /\ job' = [job EXCEPT ![t] = [Idle EXCEPT !.kind = "publish", !.at = "sent", !.code = minted,
                                                  !.tok = cookie[Home(t)]]]
        /\ UNCHANGED <<server, enrolled, cookie, user, doc, paper, limits>>
    BY <1>2 DEF CreateIdentity
  <2>3. DOMAIN parted' = Devices /\ DOMAIN unlisted' = Devices
    BY <1>1, <1>2 DEF CreateIdentity
  <2> QED
    BY <1>1, <2>1, <2>2, <2>3, NewRecordTypes
<1>3. CASE RestoreFromRecovery(t)
  <2>1. j.kind = "recover" /\ j.at = "received"
    BY <1>3 DEF RestoreFromRecovery
  <2>2. j.new \in Passwords /\ j.seen.recovery \in PaperCode
    BY <1>1, <2>1 DEF JobOK, GotRecovery
  <2>3. j.seen.recovery.identity \in Nat
    BY <2>2 DEF PaperCode
  <2>4. /\ rec' = [rec EXCEPT ![Home(t)] = SealRecord(j.new, minted, j.seen.recovery.identity)]
        /\ cached' = [cached EXCEPT ![t] = minted] /\ minted' = minted + 1
        /\ job' = [job EXCEPT ![t] = [Idle EXCEPT !.kind = "publish", !.at = "sent",
                                                  !.tok = cookie[Home(t)], !.code = j.seen.recovery.identity]]
        /\ UNCHANGED <<server, enrolled, cookie, user, doc, paper, limits>>
    BY <1>3 DEF RestoreFromRecovery
  <2>5. [Idle EXCEPT !.kind = "publish", !.at = "sent", !.tok = cookie[Home(t)], !.code = j.seen.recovery.identity]
        = [Idle EXCEPT !.kind = "publish", !.at = "sent", !.code = j.seen.recovery.identity, !.tok = cookie[Home(t)]]
    BY DEF Idle
  <2>6. DOMAIN parted' = Devices /\ DOMAIN unlisted' = Devices
    BY <1>1, <1>3 DEF RestoreFromRecovery
  <2> QED
    BY <2>2, <2>3, <2>4, <2>5, <2>6, NewRecordTypes
<1> QED
  BY <1>2, <1>3

(* The other ends of a request, and what needs no server.                  *)
LEMMA ReplyTypes ==
    ASSUME TInv, NEW t \in Tabs,
           \/ Published(t) \/ Enrolled(t) \/ Bootstrapped(t) \/ LeftEverywhere(t) \/ Done(t)
           \/ UnlockCancelled(t)
    PROVE  TInv'
<1> DEFINE j == job[t]
<1>1. /\ JobOK(j) /\ DOMAIN parted = Devices /\ DOMAIN unlisted = Devices
      /\ user \in [Tabs -> BOOLEAN] /\ cached \in [Tabs -> Nat \cup {None}]
      /\ doc \in [Tabs -> LoadedDoc \cup {None}]
  BY Here1
<1>2. job' = [job EXCEPT ![t] = Idle] /\ UNCHANGED <<server, disk, minted, limits, parted>>
  BY DEF Published, Enrolled, Bootstrapped, LeftEverywhere, Done, UnlockCancelled, causes
<1>3. DiskOK'
  BY <1>2 DEF TInv, DiskOK, disk
<1>4. user' \in [Tabs -> BOOLEAN]
  BY <1>1 DEF Published, Enrolled, Bootstrapped, LeftEverywhere, Done, UnlockCancelled, tabs
<1>5. cached' \in [Tabs -> Nat \cup {None}] /\ \A u \in Tabs \ {t} : cached'[u] = cached[u]
  BY <1>1 DEF Published, Enrolled, Bootstrapped, LeftEverywhere, Done, UnlockCancelled, tabs
<1>6. doc' \in [Tabs -> LoadedDoc \cup {None}]
  BY <1>1 DEF Published, Enrolled, Bootstrapped, LeftEverywhere, Done, UnlockCancelled, tabs
<1>7. DOMAIN unlisted' = Devices
  <2>1. CASE Published(t)
    BY <1>1, <2>1 DEF Published, Mark
  <2>2. CASE Done(t)
    BY <1>1, <2>2 DEF Done, Mark
  <2>3. CASE Enrolled(t) \/ Bootstrapped(t) \/ LeftEverywhere(t) \/ UnlockCancelled(t)
    BY <1>1, <2>3 DEF Enrolled, Bootstrapped, LeftEverywhere, UnlockCancelled, causes
  <2> QED
    BY <2>1, <2>2, <2>3
<1>8. paper' \subseteq PaperCode
  <2>1. j.kind = "enroll" => j.code \in PaperCode
    BY <1>1 DEF JobOK
  <2>2. paper \subseteq PaperCode
    BY DEF TInv, RestOK
  <2> QED
    BY <2>1, <2>2 DEF Published, Enrolled, Bootstrapped, LeftEverywhere, Done, UnlockCancelled
<1>9. RestOK'
  BY <1>1, <1>2, <1>7, <1>8 DEF TInv, RestOK, limits
<1> QED
  BY <1>2, <1>3, <1>4, <1>5, <1>6, <1>9, EndStep

(* A step with no request in it.                                           *)
LEMMA QuietStep ==
    ASSUME TInv, NEW t \in Tabs, UNCHANGED server, UNCHANGED job, DiskOK', RestOK',
           user' \in [Tabs -> BOOLEAN], doc' \in [Tabs -> LoadedDoc \cup {None}],
           cached' \in [Tabs -> Nat \cup {None}], \A u \in Tabs \ {t} : cached'[u] = cached[u],
           cached'[t] = cached[t] \/ job[t] = Idle
    PROVE  TInv'
<1>1. DOMAIN job' = Tabs /\ JobOK(job'[t]) /\ \A u \in Tabs \ {t} : job'[u] = job[u]
  BY DEF TInv, JobsOK
<1>2. job'[t].kind = "enrollPasskey" => cached'[t] # None
  BY IdleOK DEF TInv, TabsOK
<1> QED
  BY <1>1, <1>2, TabStep

(* The wipe.                                                               *)
LEMMA WipeFacts ==
    ASSUME TInv, NEW t \in Tabs, Wiped(t)
    PROVE  /\ rec' \in [Devices -> KeystoreRecord \cup {None}]
           /\ enrolled' \in [Devices -> [Unlocks -> EnrolledRecord \cup {None}]]
           /\ user' \in [Tabs -> BOOLEAN] /\ doc' \in [Tabs -> LoadedDoc \cup {None}]
           /\ cached' \in [Tabs -> Nat \cup {None}] /\ \A u \in Tabs \ {t} : cached'[u] = cached[u]
           /\ DOMAIN parted' = Devices /\ DOMAIN unlisted' = Devices
<1>1. /\ Home(t) \in Devices /\ DOMAIN parted = Devices /\ DOMAIN unlisted = Devices
      /\ user \in [Tabs -> BOOLEAN] /\ cached \in [Tabs -> Nat \cup {None}]
      /\ doc \in [Tabs -> LoadedDoc \cup {None}]
      /\ enrolled[Home(t)] \in [Unlocks -> EnrolledRecord \cup {None}]
  BY Here1
<1>2. rec' \in [Devices -> KeystoreRecord \cup {None}]
  BY <1>1 DEF Wiped, TInv, DiskOK
<1>3. enrolled' \in [Devices -> [Unlocks -> EnrolledRecord \cup {None}]]
  <2>1. [enrolled[Home(t)] EXCEPT !["passkey"] = None] \in [Unlocks -> EnrolledRecord \cup {None}]
    BY <1>1
  <2>2. enrolled' = [enrolled EXCEPT ![Home(t)] = [enrolled[Home(t)] EXCEPT !["passkey"] = None]]
    BY DEF Wiped
  <2> QED
    BY <1>1, <2>1, <2>2 DEF TInv, DiskOK
<1>4. user' \in [Tabs -> BOOLEAN] /\ doc' \in [Tabs -> LoadedDoc \cup {None}]
  BY <1>1 DEF Wiped
<1>5. cached' \in [Tabs -> Nat \cup {None}] /\ \A u \in Tabs \ {t} : cached'[u] = cached[u]
  BY <1>1 DEF Wiped
<1>6. DOMAIN parted' = Devices /\ DOMAIN unlisted' = Devices
  BY <1>1 DEF Wiped
<1> QED
  BY <1>2, <1>3, <1>4, <1>5, <1>6

LEMMA WipeTypes == ASSUME TInv, NEW t \in Tabs, DeletedHere(t) \/ PanicWipe(t) PROVE TInv'
<1>1. /\ rec' \in [Devices -> KeystoreRecord \cup {None}]
      /\ enrolled' \in [Devices -> [Unlocks -> EnrolledRecord \cup {None}]]
      /\ user' \in [Tabs -> BOOLEAN] /\ doc' \in [Tabs -> LoadedDoc \cup {None}]
      /\ cached' \in [Tabs -> Nat \cup {None}] /\ \A u \in Tabs \ {t} : cached'[u] = cached[u]
      /\ DOMAIN parted' = Devices /\ DOMAIN unlisted' = Devices
  BY WipeFacts DEF DeletedHere, PanicWipe
<1>2. Home(t) \in Devices /\ ops \in Nat
  BY Here1
<1>3. CASE DeletedHere(t)
  <2>1. job' = [job EXCEPT ![t] = Idle] /\ UNCHANGED <<server, cookie, paper, minted, limits>>
    BY <1>3 DEF DeletedHere
  <2>2. DiskOK' /\ RestOK'
    BY <1>1, <2>1 DEF TInv, DiskOK, RestOK, limits
  <2> QED
    BY <1>1, <2>1, <2>2, EndStep
<1>4. CASE PanicWipe(t)
  <2>1. job[t] = Idle /\ ops' = ops + 1 /\ UNCHANGED <<server, job, paper, minted, mode, crashes, losses>>
    BY <1>4 DEF PanicWipe
  <2>2. cookie' \in [Devices -> SessionToken \cup {None}]
    BY <1>2, <1>4 DEF PanicWipe, TInv, DiskOK
  <2>3. DiskOK' /\ RestOK'
    BY <1>1, <1>2, <2>1, <2>2 DEF TInv, DiskOK, RestOK
  <2> QED
    BY <1>1, <2>1, <2>3, QuietStep
<1> QED
  BY <1>3, <1>4

(* Signing out.                                                            *)
LEMMA LogoutTypes == ASSUME TInv, NEW t \in Tabs, Logout(t) \/ LoggedOut(t) PROVE TInv'
<1>1. /\ Home(t) \in Devices /\ ops \in Nat
      /\ user \in [Tabs -> BOOLEAN] /\ cached \in [Tabs -> Nat \cup {None}]
      /\ doc \in [Tabs -> LoadedDoc \cup {None}]
  BY Here1
<1>2. job[t] = Idle /\ UNCHANGED <<server, job, rec, enrolled, doc, paper, minted, mode, crashes, losses, causes>>
  BY DEF Logout, LoggedOut, Start, disk, limits
<1>3. cookie' \in [Devices -> SessionToken \cup {None}]
  BY <1>1 DEF Logout, LoggedOut, Start, disk, TInv, DiskOK
<1>4. user' \in [Tabs -> BOOLEAN]
  BY <1>1 DEF Logout, LoggedOut, Start
<1>5. cached' \in [Tabs -> Nat \cup {None}] /\ \A u \in Tabs \ {t} : cached'[u] = cached[u]
  BY <1>1 DEF Logout, LoggedOut
<1>6. ops' \in Nat
  BY <1>1 DEF Logout, LoggedOut, Start, limits
<1>7. DiskOK' /\ RestOK'
  BY <1>2, <1>3, <1>6 DEF TInv, DiskOK, RestOK, causes
<1> QED
  BY <1>1, <1>2, <1>4, <1>5, <1>7, QuietStep

(* The enrollments of the gated unlocks.                                   *)
LEMMA EnrollTypes ==
    ASSUME TInv, NEW t \in Tabs, ToggleBiometric(t) \/ TogglePasskey(t) \/ EnrollPasskeyUnlock(t)
    PROVE  TInv'
<1> DEFINE d == Home(t)
           Held == EnrolledRecord \cup {None}
<1>1. /\ d \in Devices /\ ops \in Nat /\ JobOK(job[t]) /\ JobsOK
      /\ user \in [Tabs -> BOOLEAN] /\ cached \in [Tabs -> Nat \cup {None}]
      /\ doc \in [Tabs -> LoadedDoc \cup {None}]
      /\ enrolled[d] \in [Unlocks -> Held] /\ enrolled \in [Devices -> [Unlocks -> Held]]
  BY Here1 DEF TInv, DiskOK
<1>2. /\ UNCHANGED <<server, rec, cookie, tabs, paper, minted, mode, crashes, losses, causes>>
      /\ ops' \in Nat
  BY <1>1 DEF ToggleBiometric, TogglePasskey, EnrollPasskeyUnlock, limits
<1>3. ASSUME NEW k \in Unlocks, NEW e \in Held, enrolled' = [enrolled EXCEPT ![d][k] = e]
      PROVE  DiskOK'
  <2>1. [enrolled[d] EXCEPT ![k] = e] \in [Unlocks -> Held]
    BY <1>1
  <2>2. enrolled' = [enrolled EXCEPT ![d] = [enrolled[d] EXCEPT ![k] = e]]
    BY <1>1, <1>3
  <2>3. enrolled' \in [Devices -> [Unlocks -> Held]]
    BY <1>1, <2>1, <2>2
  <2> QED
    BY <1>2, <2>3 DEF TInv, DiskOK
<1>4. RestOK'
  BY <1>2 DEF TInv, RestOK, causes
<1>5. /\ user' \in [Tabs -> BOOLEAN] /\ doc' \in [Tabs -> LoadedDoc \cup {None}]
      /\ cached' \in [Tabs -> Nat \cup {None}] /\ cached' = cached
  BY <1>1, <1>2 DEF tabs
<1>6. UNCHANGED enrolled => DiskOK'
  BY <1>2 DEF TInv, DiskOK
<1>7. "passkey" \in Unlocks /\ "biometric" \in Unlocks /\ None \in Held
  BY DEF Unlocks
<1>8. CASE ToggleBiometric(t)
  <2>1. PICK e \in Forgotten(d, "biometric") \cup {[id |-> ops, key |-> cached[t]]} :
            enrolled' = [enrolled EXCEPT ![d]["biometric"] = e]
    BY <1>8 DEF ToggleBiometric
  <2>2. e \in Held
    <3>1. cached[t] \in Nat
      BY <1>1, <1>8 DEF ToggleBiometric, SignedIn
    <3>2. [id |-> ops, key |-> cached[t]] \in EnrolledRecord
      BY <1>1, <3>1 DEF EnrolledRecord
    <3> QED
      BY <1>1, <1>7, <2>1, <3>2 DEF Forgotten
  <2>3. DiskOK'
    BY <1>3, <1>7, <2>1, <2>2
  <2>4. UNCHANGED job
    BY <1>8 DEF ToggleBiometric
  <2> QED
    BY <1>2, <1>4, <1>5, <2>3, <2>4, QuietStep
<1>9. CASE TogglePasskey(t)
  <2>1. CASE enrolled' = [enrolled EXCEPT ![d]["passkey"] = None] /\ UNCHANGED job
    <3>1. DiskOK'
      BY <1>3, <1>7, <2>1
    <3> QED
      BY <1>2, <1>4, <1>5, <2>1, <3>1, QuietStep
  <2>2. CASE /\ job' = [job EXCEPT ![t] = [Idle EXCEPT !.kind = "enrollPasskey", !.at = "prompt", !.seen = ops]]
             /\ UNCHANGED enrolled
    <3>1. /\ DOMAIN job' = Tabs /\ \A u \in Tabs \ {t} : job'[u] = job[u]
          /\ job'[t] = [Idle EXCEPT !.kind = "enrollPasskey", !.at = "prompt", !.seen = ops]
      BY <1>1, <2>2 DEF JobsOK
    <3>2. /\ HasFields(job'[t]) /\ job'[t].kind = "enrollPasskey" /\ job'[t].at = "prompt" /\ job'[t].seen = ops
          /\ job'[t].tok = None
      BY <3>1 DEF Idle, HasFields
    <3>3. JobOK(job'[t])
      BY <1>1, <3>2 DEF JobOK, GotRecovery
    <3>4. cached'[t] # None
      BY <1>5, <1>9 DEF TogglePasskey, SignedIn
    <3> QED
      BY <1>2, <1>4, <1>5, <1>6, <2>2, <3>1, <3>3, <3>4, TabStep
  <2> QED
    BY <1>9, <2>1, <2>2 DEF TogglePasskey
<1>10. CASE EnrollPasskeyUnlock(t)
  <2>1. DiskOK'
    <3>1. job[t].kind = "enrollPasskey" /\ job[t].seen \in Nat /\ cached[t] \in Nat
      <4>1. job[t].kind = "enrollPasskey"
        BY <1>10 DEF EnrollPasskeyUnlock
      <4>2. job[t].seen \in Nat
        BY <1>1, <4>1 DEF JobOK
      <4>3. cached[t] # None
        BY <4>1 DEF TInv, TabsOK
      <4> QED
        BY <1>1, <4>1, <4>2, <4>3
    <3>2. PasskeyRecord(t) \in EnrolledRecord
      BY <3>1 DEF PasskeyRecord, EnrolledRecord
    <3>3. enrolled' = [enrolled EXCEPT ![d]["passkey"] = PasskeyRecord(t)] \/ UNCHANGED enrolled
      BY <1>10 DEF EnrollPasskeyUnlock
    <3> QED
      BY <1>3, <1>6, <1>7, <3>2, <3>3
  <2>2. job' = [job EXCEPT ![t] = Idle]
    BY <1>10 DEF EnrollPasskeyUnlock
  <2> QED
    BY <1>2, <1>4, <1>5, <2>1, <2>2, EndStep
<1> QED
  BY <1>8, <1>9, <1>10

(* The gated unlocks.                                                      *)
LEMMA GateTypes ==
    ASSUME TInv, NEW t \in Tabs, NEW k \in Unlocks, UnlockPrompt(t, k) \/ UnlockWith(t, k)
    PROVE  TInv'
<1> DEFINE d == Home(t)
           Held == EnrolledRecord \cup {None}
<1>1. /\ d \in Devices /\ JobsOK
      /\ user \in [Tabs -> BOOLEAN] /\ cached \in [Tabs -> Nat \cup {None}]
      /\ doc \in [Tabs -> LoadedDoc \cup {None}]
      /\ enrolled[d] \in [Unlocks -> Held] /\ enrolled \in [Devices -> [Unlocks -> Held]]
  BY Here1 DEF TInv, DiskOK
<1>2. UNCHANGED <<server, rec, cookie, user, doc, paper, minted, limits, causes>>
  BY DEF UnlockPrompt, UnlockWith, disk, tabs
<1>3. RestOK' /\ user' \in [Tabs -> BOOLEAN] /\ doc' \in [Tabs -> LoadedDoc \cup {None}]
  BY <1>1, <1>2 DEF TInv, RestOK, causes, limits
<1>4. CASE UnlockPrompt(t, k)
  <2>1. PICK seen : job' = [job EXCEPT ![t] = [Idle EXCEPT !.kind = k, !.at = "prompt", !.seen = seen]]
    BY <1>4 DEF UnlockPrompt
  <2>2. /\ DOMAIN job' = Tabs /\ \A u \in Tabs \ {t} : job'[u] = job[u]
        /\ job'[t] = [Idle EXCEPT !.kind = k, !.at = "prompt", !.seen = seen]
    BY <1>1, <2>1 DEF JobsOK
  <2>3. /\ HasFields(job'[t]) /\ job'[t].kind = k /\ job'[t].at = "prompt" /\ job'[t].seen = seen
        /\ job'[t].tok = None
    BY <2>2 DEF Idle, HasFields
  <2>4. JobOK(job'[t]) /\ job'[t].kind # "enrollPasskey"
    BY <1>1, <2>3 DEF JobOK, GotRecovery, Unlocks
  <2>5. UNCHANGED <<cached, enrolled>>
    BY <1>4 DEF UnlockPrompt, disk, tabs
  <2>6. DiskOK'
    BY <1>2, <2>5 DEF TInv, DiskOK
  <2> QED
    BY <1>1, <1>2, <1>3, <2>2, <2>4, <2>5, <2>6, TabStep
<1>5. CASE UnlockWith(t, k)
  <2>1. enrolled[d][k] # None /\ enrolled[d][k] \in Held
    BY <1>1, <1>5 DEF UnlockWith
  <2>2. enrolled[d][k].key \in Nat
    BY <2>1 DEF EnrolledRecord
  <2>3. cached' = [cached EXCEPT ![t] = enrolled[d][k].key] \/ cached' = cached
    BY <1>5 DEF UnlockWith
  <2>4. cached' \in [Tabs -> Nat \cup {None}] /\ \A u \in Tabs \ {t} : cached'[u] = cached[u]
    BY <1>1, <2>2, <2>3
  <2>5. PICK left \in Forgotten(d, k) :
            enrolled' = enrolled \/ enrolled' = [enrolled EXCEPT ![d][k] = left]
    BY <1>5 DEF UnlockWith
  <2>6. enrolled' \in [Devices -> [Unlocks -> Held]]
    <3>1. left \in Held
      BY <2>1, <2>5 DEF Forgotten
    <3>2. [enrolled[d] EXCEPT ![k] = left] \in [Unlocks -> Held]
      BY <1>1, <3>1
    <3>3. enrolled' = enrolled \/ enrolled' = [enrolled EXCEPT ![d] = [enrolled[d] EXCEPT ![k] = left]]
      BY <1>1, <2>5
    <3> QED
      BY <1>1, <3>2, <3>3
  <2>7. DiskOK'
    BY <1>2, <2>6 DEF TInv, DiskOK
  <2>8. job' = [job EXCEPT ![t] = Idle]
    BY <1>5 DEF UnlockWith
  <2> QED
    BY <1>1, <1>2, <1>3, <2>4, <2>7, <2>8, EndStep
<1> QED
  BY <1>4, <1>5

(* The load-modify-save of the identity document.                          *)
LEMMA DocTypes ==
    ASSUME TInv, NEW t \in Tabs, LoadDoc(t) \/ SaveDocRead(t) \/ SaveDocPut(t)
    PROVE  TInv'
<1> DEFINE d == Home(t)
<1>1. /\ d \in Devices /\ rec[d] \in KeystoreRecord \cup {None} /\ rec \in [Devices -> KeystoreRecord \cup {None}]
      /\ user \in [Tabs -> BOOLEAN] /\ cached \in [Tabs -> Nat \cup {None}]
      /\ doc[t] \in LoadedDoc \cup {None} /\ doc \in [Tabs -> LoadedDoc \cup {None}]
      /\ DOMAIN parted = Devices /\ DOMAIN unlisted = Devices
  BY Here1 DEF TInv, DiskOK
<1>2. UNCHANGED <<server, job, enrolled, cookie, user, cached, paper, minted, limits>>
  BY DEF LoadDoc, SaveDocRead, SaveDocPut, disk
<1>3. CASE LoadDoc(t)
  <2>1. /\ rec[d] # None /\ cached[t] # None
        /\ doc' = [doc EXCEPT ![t] = [key |-> cached[t], ident |-> rec[d].ident, envelope |-> None]]
        /\ UNCHANGED <<disk, causes>>
    BY <1>3 DEF LoadDoc, SignedIn, Here
  <2>2. [key |-> cached[t], ident |-> rec[d].ident, envelope |-> None] \in LoadedDoc
    BY <1>1, <2>1 DEF LoadedDoc, KeystoreRecord
  <2>3. doc' \in [Tabs -> LoadedDoc \cup {None}]
    BY <1>1, <2>1, <2>2
  <2>4. DiskOK' /\ RestOK'
    BY <1>2, <2>1 DEF TInv, DiskOK, RestOK, disk, limits, causes
  <2> QED
    BY <1>1, <1>2, <2>3, <2>4, QuietStep
<1>4. CASE SaveDocRead(t)
  <2>1. /\ doc[t] # None
        /\ doc' = [doc EXCEPT ![t] = IF rec[d] = None THEN None ELSE [doc[t] EXCEPT !.envelope = rec[d]]]
        /\ UNCHANGED <<disk, causes>>
    BY <1>4 DEF SaveDocRead, Here
  <2>2. rec[d] # None => [doc[t] EXCEPT !.envelope = rec[d]] \in LoadedDoc
    BY <1>1, <2>1 DEF LoadedDoc
  <2>3. doc' \in [Tabs -> LoadedDoc \cup {None}]
    BY <1>1, <2>1, <2>2
  <2>4. DiskOK' /\ RestOK'
    BY <1>2, <2>1 DEF TInv, DiskOK, RestOK, disk, limits, causes
  <2> QED
    BY <1>1, <1>2, <2>3, <2>4, QuietStep
<1>5. CASE SaveDocPut(t)
  <2>1. /\ doc[t] # None /\ doc[t].envelope # None
        /\ rec' = [rec EXCEPT ![d] = [doc[t].envelope EXCEPT !.sealed = doc[t].key, !.ident = doc[t].ident]]
        /\ doc' = [doc EXCEPT ![t] = None]
    BY <1>5 DEF SaveDocPut
  <2>2. doc[t].envelope \in KeystoreRecord /\ doc[t].key \in Nat /\ doc[t].ident \in Nat
    BY <1>1, <2>1 DEF LoadedDoc
  <2>3. [doc[t].envelope EXCEPT !.sealed = doc[t].key, !.ident = doc[t].ident] \in KeystoreRecord
    BY <2>2 DEF KeystoreRecord
  <2>4. doc' \in [Tabs -> LoadedDoc \cup {None}] /\ rec' \in [Devices -> KeystoreRecord \cup {None}]
    BY <1>1, <2>1, <2>3
  <2>5. DOMAIN parted' = Devices /\ DOMAIN unlisted' = Devices
    BY <1>1, <1>5 DEF SaveDocPut, Mark
  <2>6. DiskOK' /\ RestOK'
    BY <1>2, <2>4, <2>5 DEF TInv, DiskOK, RestOK, limits
  <2> QED
    BY <1>1, <1>2, <2>4, <2>6, QuietStep
<1> QED
  BY <1>3, <1>4, <1>5

(* The heap is gone.                                                       *)
LEMMA CrashTypes == ASSUME TInv, NEW t \in Tabs, Crash(t) PROVE TInv'
<1> DEFINE j == job[t]
<1>1. /\ Home(t) \in Devices /\ crashes \in Nat /\ JobsOK /\ JobOK(j)
      /\ user \in [Tabs -> BOOLEAN] /\ cached \in [Tabs -> Nat \cup {None}]
      /\ doc \in [Tabs -> LoadedDoc \cup {None}]
      /\ DOMAIN parted = Devices /\ DOMAIN unlisted = Devices
  BY Here1
<1>2. /\ crashes' = crashes + 1 /\ cached' = [cached EXCEPT ![t] = None]
      /\ user' = [user EXCEPT ![t] = FALSE] /\ doc' = [doc EXCEPT ![t] = None]
      /\ UNCHANGED <<server, disk, paper, minted, mode, ops, losses, parted>>
  BY DEF Crash
<1>3. /\ user' \in [Tabs -> BOOLEAN] /\ doc' \in [Tabs -> LoadedDoc \cup {None}]
      /\ cached' \in [Tabs -> Nat \cup {None}] /\ \A u \in Tabs \ {t} : cached'[u] = cached[u]
  BY <1>1, <1>2
<1>4. DOMAIN unlisted' = Devices
  BY <1>1 DEF Crash, Mark
<1>5. DiskOK' /\ RestOK'
  BY <1>1, <1>2, <1>4 DEF TInv, DiskOK, RestOK, disk
<1>6. CASE job' = [job EXCEPT ![t] = Idle]
  BY <1>2, <1>3, <1>5, <1>6, EndStep
<1>7. CASE j.at \in {"sent", "authed", "loaded", "answered"} /\ job' = [job EXCEPT ![t].orphan = TRUE]
  <2>1. DOMAIN job' = Tabs /\ \A u \in Tabs \ {t} : job'[u] = job[u]
    BY <1>1, <1>7 DEF JobsOK
  <2>2. HasFields(j)
    BY <1>1 DEF JobOK
  <2>3. job'[t] = [job[t] EXCEPT !.orphan = TRUE]
    BY <1>1, <1>7 DEF JobsOK
  <2>4. /\ HasFields(job'[t]) /\ job'[t].kind = j.kind /\ job'[t].pw = j.pw /\ job'[t].new = j.new
        /\ job'[t].code = j.code /\ job'[t].at = j.at /\ job'[t].tok = j.tok /\ job'[t].seen = j.seen
        /\ job'[t].ok = j.ok
    BY <2>2, <2>3 DEF HasFields
  <2>5. JobOK(job'[t]) /\ job'[t].kind # "enrollPasskey"
    BY <1>1, <1>7, <2>4 DEF JobOK, GotRecovery
  <2> QED
    BY <1>2, <1>3, <1>5, <2>1, <2>5, TabStep
<1> QED
  BY <1>6, <1>7 DEF Crash

(* A request is handled, and nothing else happens.                         *)
LEMMA WorkTypes == ASSUME TInv, NEW t \in Tabs, Work(t) PROVE TInv'
<1>1. Serve(t) /\ UNCHANGED <<disk, tabs, paper, minted, limits>>
  BY DEF Work
<1>2. ServerOK' /\ JobsOK'
  BY <1>1, ServeTypes
<1>3. DOMAIN parted' = Devices /\ DOMAIN unlisted' = Devices
  BY DEF Work, Mark, Elsewhere
<1>4. DiskOK' /\ RestOK'
  BY <1>1, <1>3 DEF TInv, DiskOK, RestOK, disk, limits
<1>5. \A u \in Tabs : job'[u].kind = job[u].kind
  <2>1. JobsOK
    BY DEF TInv
  <2>2. ASSUME NEW ok, NEW tok, Answer(t, ok, tok) PROVE \A u \in Tabs : job'[u].kind = job[u].kind
    BY <2>1, <2>2, AnswerFacts DEF Same
  <2>3. CASE job' = [job EXCEPT ![t].at = "authed"]
    BY <2>1, <2>3, SetAtFacts DEF Same
  <2>4. CASE job' = [job EXCEPT ![t].at = "loaded", ![t].seen = row]
    BY <2>1, <2>4, LoadedFacts DEF Same
  <2>5. CASE Authenticate(t) \/ Load(t) \/ Me(t) \/ Signup(t) \/ Login(t) \/ ChangePassword(t)
    BY <2>2, <2>3, <2>4, <2>5 DEF Authenticate, Load, Me, Signup, Login, ChangePassword
  <2>6. CASE \/ RecoveryReset(t) \/ LogoutAll(t) \/ TwoFactorEnable(t) \/ TwoFactorDisable(t)
             \/ RecoveryEnroll(t) \/ DeleteAccount(t) \/ AcceptTerms(t) \/ PublishKeys(t)
    BY <2>2, <2>6 DEF RecoveryReset, LogoutAll, TwoFactorEnable, TwoFactorDisable, RecoveryEnroll,
                      DeleteAccount, AcceptTerms, PublishKeys
  <2> QED
    BY <1>1, <2>5, <2>6 DEF Serve
<1>6. TabsOK'
  BY <1>1, <1>5 DEF TInv, TabsOK, tabs
<1> QED
  BY <1>2, <1>4, <1>6 DEF TInv

(* A termination, and the clock.                                           *)
LEMMA AloneTypes ==
    ASSUME TInv, Terminate \/ Tick, UNCHANGED <<disk, tabs, paper, minted, limits, causes>> PROVE TInv'
<1>1. ServerOK'
  <2>1. CASE Terminate
    <3>1. row \in AccountRow /\ row' = [row EXCEPT !.disabled = TRUE]
      BY <2>1 DEF Terminate, TInv, ServerOK, ServerTypeOK
    <3>2. row' \in AccountRow
      BY <3>1, RowTypes
    <3> QED
      BY <2>1, <3>2 DEF Terminate, TInv, ServerOK, ServerTypeOK
  <2>2. CASE Tick
    BY <2>2, AccountsAssumption DEF Tick, TInv, ServerOK, ServerTypeOK
  <2> QED
    BY <2>1, <2>2
<1>2. UNCHANGED job
  BY DEF Terminate, Tick
<1>3. JobsOK' /\ DiskOK' /\ TabsOK' /\ RestOK'
  <2>1. JobsOK'
    BY <1>2 DEF TInv, JobsOK, JobOK, HasFields, GotRecovery
  <2> QED
    BY <1>2, <2>1 DEF TInv, DiskOK, TabsOK, RestOK, disk, tabs, limits, causes
<1> QED
  BY <1>1, <1>3 DEF TInv

(* The initial states.                                                     *)
LEMMA InitTypes == Init => TInv
<1> SUFFICES ASSUME Init PROVE TInv
  OBVIOUS
<1>1. mode \in Modes /\ mode.home \in [Tabs -> Devices] /\ mode.start \in Passwords \cup {None}
  BY CredentialsAssumption DEF Init
<1>2. row \in AccountRow \cup {None} /\ (mode.start # None => row \in AccountRow) /\ ServerOK
  <2>1. /\ used = IF mode.start = None THEN {} ELSE {mode.start}
        /\ born = IF mode.start = None THEN 0 ELSE 1
        /\ row = IF mode.start = None THEN None
                 ELSE [FreshRow(mode.start) EXCEPT !.gen = 0,
                                                   !.identity = IF mode.start = None THEN None ELSE 0]
        /\ banned = FALSE /\ clock = 1 /\ raced = FALSE /\ spent = [c \in {} |-> 0]
    BY DEF Init, InitServer
  <2>0. /\ banned \in BOOLEAN /\ raced \in BOOLEAN /\ clock \in 1 .. MaxClock
        /\ DOMAIN spent = {}
    <3>1. clock \in 1 .. MaxClock
      BY <2>1, AccountsAssumption
    <3>2. DOMAIN spent = {}
      BY <2>1
    <3> QED
      BY <2>1, <3>1, <3>2
  <2>2. born \in Nat
    BY <2>1
  <2>3. CASE mode.start # None
    <3>1. FreshRow(mode.start) \in AccountRow
      BY <1>1, <2>2, <2>3, FreshRowType
    <3>2. row = [FreshRow(mode.start) EXCEPT !.gen = 0, !.identity = 0]
      BY <2>1, <2>3
    <3>3. \A r \in AccountRow : [r EXCEPT !.gen = 0, !.identity = 0] \in AccountRow
      BY DEF AccountRow
    <3>4. row \in AccountRow
      BY <3>1, <3>2, <3>3
    <3>5. ServerOK
      <4>1. row \in AccountRow \cup {None} /\ used \subseteq Passwords
        BY <1>1, <2>1, <2>3, <3>4
      <4> QED
        BY <2>0, <2>2, <4>1 DEF ServerOK, ServerTypeOK
    <3> QED
      BY <2>3, <3>4, <3>5
  <2>4. CASE mode.start = None
    <3>1. row \in AccountRow \cup {None} /\ used \subseteq Passwords
      BY <2>1, <2>4
    <3> QED
      BY <2>0, <2>2, <2>4, <3>1 DEF ServerOK, ServerTypeOK
  <2> QED
    BY <2>3, <2>4
<1>3. JobsOK
  BY IdleOK DEF Init, JobsOK
<1>4. DiskOK
  <2>1. mode.start # None => [wrap |-> mode.start, alt |-> None, key |-> 0, sealed |-> 0, ident |-> 0] \in KeystoreRecord
    BY <1>1 DEF KeystoreRecord
  <2>2. rec \in [Devices -> KeystoreRecord \cup {None}]
    BY <1>1, <2>1 DEF Init
  <2>3. enrolled \in [Devices -> [Unlocks -> EnrolledRecord \cup {None}]]
    BY DEF Init
  <2>4. mode.start # None => Token(row, 0, mode.start) \in SessionToken
    BY <1>1, <1>2 DEF Token, SessionToken, AccountRow
  <2>5. ASSUME NEW d \in Devices PROVE cookie[d] \in SessionToken \cup {None}
    <3>1. mode.start = None => rec[d] = None
      BY DEF Init
    <3> QED
      BY <2>4, <3>1 DEF Init
  <2>6. cookie \in [Devices -> SessionToken \cup {None}]
    BY <2>5 DEF Init
  <2> QED
    BY <2>2, <2>3, <2>6 DEF DiskOK
<1>5. TabsOK
  BY <1>1, IdleOK DEF Init, TabsOK
<1>6. RestOK
  BY <1>1 DEF Init, RestOK
<1> QED
  BY <1>2, <1>3, <1>4, <1>5, <1>6 DEF TInv

(* Every step.                                                             *)
LEMMA StepTypes == TInv /\ [Next]_vars => TInv'
<1> SUFFICES ASSUME TInv, [Next]_vars PROVE TInv'
  OBVIOUS
<1>1. ASSUME NEW t \in Tabs,
             \/ \E pw \in Passwords :
                   \/ StartSignup(t, pw) \/ StartUnlock(t, pw) \/ StartEnable(t, pw) \/ StartEnroll(t, pw)
                   \/ \E c \in CodesInHand : StartLogin(t, pw, c)
                   \/ \E new \in Passwords : StartChange(t, pw, new)
                   \/ \E c \in CodesInHand, k \in PasswordKinds \cup {"terms"} : StartRequest(t, k, pw, c)
                   \/ \E c \in paper : StartRecover(t, c, pw)
             \/ StartMe(t)
             \/ Stage(t) \/ Work(t) \/ Receive(t) \/ Lose(t)
             \/ FinalizeChange(t) \/ RollbackChange(t) \/ UnlockRead(t)
      PROVE  TInv'
  BY <1>1, StartTypes, StartMeTypes, StageTypes, WorkTypes, ReceiveTypes, SettleTypes, UnlockReadTypes
<1>2. ASSUME NEW t \in Tabs,
             \/ Unlock(t) \/ CreateIdentity(t) \/ RestoreFromRecovery(t) \/ Published(t)
             \/ Enrolled(t) \/ Bootstrapped(t) \/ LeftEverywhere(t) \/ DeletedHere(t) \/ Done(t)
             \/ Logout(t) \/ LoggedOut(t) \/ PanicWipe(t)
      PROVE  TInv'
  BY <1>2, OpenTypes, IdentityTypes, ReplyTypes, WipeTypes, LogoutTypes
<1>3. ASSUME NEW t \in Tabs,
             \/ ToggleBiometric(t) \/ TogglePasskey(t) \/ EnrollPasskeyUnlock(t) \/ UnlockCancelled(t)
             \/ \E k \in Unlocks : UnlockPrompt(t, k) \/ UnlockWith(t, k)
             \/ LoadDoc(t) \/ SaveDocRead(t) \/ SaveDocPut(t)
             \/ Crash(t)
      PROVE  TInv'
  BY <1>3, EnrollTypes, ReplyTypes, GateTypes, DocTypes, CrashTypes
<1>4. CASE (Terminate \/ Tick) /\ UNCHANGED <<disk, tabs, paper, minted, limits, causes>>
  BY <1>4, AloneTypes
<1>5. CASE UNCHANGED vars
  <2>1. ServerOK'
    BY <1>5 DEF vars, server, TInv, ServerOK, ServerTypeOK
  <2>2. JobsOK'
    BY <1>5 DEF vars, TInv, JobsOK, JobOK, HasFields, GotRecovery
  <2>3. DiskOK' /\ TabsOK' /\ RestOK'
    BY <1>5 DEF vars, TInv, DiskOK, TabsOK, RestOK, disk, tabs, limits, causes
  <2> QED
    BY <2>1, <2>2, <2>3 DEF TInv
<1> QED
  BY <1>1, <1>2, <1>3, <1>4, <1>5 DEF Next

(* The types of the account's row, the keystore records, the tabs and the  *)
(* counters, with those of the requests under way.                         *)
THEOREM TypeCorrect == Spec => []CredentialsTypeOK
<1>1. TInv => CredentialsTypeOK
  BY DEF TInv, ServerOK, DiskOK, TabsOK, RestOK, CredentialsTypeOK, EnrolledRecord
<1> QED
  BY <1>1, InitTypes, StepTypes, PTL DEF Spec

-----------------------------------------------------------------------------
(* Where the tokens, the codes and the rows of the requests come from.     *)

\* A step of a tab without the server: what is in its job now was there, was in the
\* cookie jar or in the user's hand, or was just minted.
Sources(t) ==
    /\ UNCHANGED server
    /\ \A u \in Tabs \ {t} : job'[u] = job[u]
    /\ \A d \in Devices : cookie'[d] \in {cookie[d], None, job[t].tok}
    /\ job'[t].tok \in {None, cookie[Home(t)], job[t].tok}
    /\ job'[t].at = "loaded" =>
          /\ job[t].at = "loaded" /\ job'[t].kind = job[t].kind /\ job'[t].seen = job[t].seen
          /\ job'[t].pw = job[t].pw /\ job'[t].code = job[t].code
    /\ minted' \in {minted, minted + 1}
    /\ job'[t].kind \in {"login", "disable"} =>
          \/ job[t].kind \in {"login", "disable"} /\ job'[t].code = job[t].code
          \/ job'[t].code \in CodesInHand
    /\ job'[t].kind = "enable" =>
          \/ /\ job[t].kind = "enable" /\ job'[t].code = job[t].code
             /\ Enabling(t)' => Enabling(t)
          \/ job'[t].code.secret = minted /\ minted' = minted + 1

(* A job that is over has nothing.                                         *)
LEMMA IdleSources ==
    ASSUME TInv, NEW t \in Tabs, UNCHANGED server, job' = [job EXCEPT ![t] = Idle],
           \A d \in Devices : cookie'[d] \in {cookie[d], None, job[t].tok}, minted' \in {minted, minted + 1}
    PROVE  Sources(t)
<1>1. job'[t] = Idle /\ \A u \in Tabs \ {t} : job'[u] = job[u]
  BY SetFacts DEF TInv
<1>2. Idle.tok = None /\ Idle.at = "idle" /\ Idle.kind = "idle"
  BY DEF Idle
<1> QED
  BY <1>1, <1>2 DEF Sources

(* A job that is begun.                                                    *)
LEMMA NewSources ==
    ASSUME TInv, NEW t \in Tabs, UNCHANGED <<server, cookie>>, NEW j, job' = [job EXCEPT ![t] = j],
           j.tok \in {None, cookie[Home(t)]}, j.at # "loaded", minted' \in {minted, minted + 1},
           j.kind \in {"login", "disable"} => j.code \in CodesInHand,
           j.kind = "enable" => j.code.secret = minted /\ minted' = minted + 1
    PROVE  Sources(t)
<1>1. job'[t] = j /\ \A u \in Tabs \ {t} : job'[u] = job[u]
  BY SetFacts DEF TInv
<1> QED
  BY <1>1 DEF Sources

(* A job that goes on.                                                     *)
LEMMA GoSources ==
    ASSUME TInv, NEW t \in Tabs, UNCHANGED <<server, minted>>,
           \A u \in Tabs \ {t} : job'[u] = job[u],
           \A d \in Devices : cookie'[d] \in {cookie[d], None, job[t].tok},
           job'[t].kind = job[t].kind, job'[t].code = job[t].code,
           job'[t].tok \in {cookie[Home(t)], job[t].tok},
           \/ job'[t].at \notin {"sent", "authed", "loaded"}
           \/ job'[t].at = "sent" /\ job[t].kind = "change"
           \/ job'[t].at = job[t].at /\ job'[t].seen = job[t].seen /\ job'[t].pw = job[t].pw
    PROVE  Sources(t)
<1>1. Enabling(t)' => job'[t].kind = "enable" /\ job'[t].at \in {"sent", "authed", "loaded"}
  BY DEF Enabling
<1>2. job'[t].kind = "enable" /\ Enabling(t)' => Enabling(t)
  BY <1>1 DEF Enabling
<1> QED
  BY <1>2 DEF Sources

(* What a user starts.                                                     *)
LEMMA StartSources ==
    ASSUME TInv, NEW t \in Tabs, NEW pw \in Passwords,
           \/ StartSignup(t, pw) \/ StartUnlock(t, pw) \/ StartEnable(t, pw) \/ StartEnroll(t, pw)
           \/ \E c \in CodesInHand : StartLogin(t, pw, c)
           \/ \E new \in Passwords : StartChange(t, pw, new)
           \/ \E c \in CodesInHand, k \in PasswordKinds \cup {"terms"} : StartRequest(t, k, pw, c)
           \/ \E c \in paper : StartRecover(t, c, pw)
           \/ StartMe(t)
    PROVE  Sources(t)
<1>1. ASSUME NEW k, Start(t, k) PROVE UNCHANGED <<server, cookie>>
  BY <1>1 DEF Start, disk
<1>2. CASE StartSignup(t, pw)
  <2>1. PICK j : job' = [job EXCEPT ![t] = j] /\ j = [Idle EXCEPT !.kind = "signup", !.at = "sent", !.pw = pw]
    BY <1>2 DEF StartSignup
  <2>2. j.kind = "signup" /\ j.at = "sent" /\ j.tok = None
    BY <2>1 DEF Idle
  <2> QED
    BY <1>1, <1>2, <2>1, <2>2, NewSources DEF StartSignup
<1>3. CASE StartUnlock(t, pw)
  <2>1. PICK j : job' = [job EXCEPT ![t] = j] /\ j = [Idle EXCEPT !.kind = "unlock", !.at = "received", !.pw = pw]
    BY <1>3 DEF StartUnlock
  <2>2. j.kind = "unlock" /\ j.at = "received" /\ j.tok = None
    BY <2>1 DEF Idle
  <2> QED
    BY <1>1, <1>3, <2>1, <2>2, NewSources DEF StartUnlock
<1>4. CASE StartEnable(t, pw)
  <2>1. PICK j : /\ job' = [job EXCEPT ![t] = j]
                 /\ j = [Idle EXCEPT !.kind = "enable", !.at = "sent", !.pw = pw,
                                     !.code = TotpCode(minted, clock), !.tok = cookie[Home(t)]]
    BY <1>4 DEF StartEnable
  <2>2. j.kind = "enable" /\ j.at = "sent" /\ j.tok = cookie[Home(t)] /\ j.code = TotpCode(minted, clock)
    BY <2>1 DEF Idle
  <2>3. j.code.secret = minted
    BY <2>2 DEF TotpCode
  <2> QED
    BY <1>1, <1>4, <2>1, <2>2, <2>3, NewSources DEF StartEnable
<1>5. CASE StartEnroll(t, pw)
  <2>1. PICK j : /\ job' = [job EXCEPT ![t] = j]
                 /\ j = [Idle EXCEPT !.kind = "enroll", !.at = "sent", !.pw = pw,
                                     !.code = [code |-> minted, identity |-> Here(t).ident],
                                     !.tok = cookie[Home(t)]]
    BY <1>5 DEF StartEnroll
  <2>2. j.kind = "enroll" /\ j.at = "sent" /\ j.tok = cookie[Home(t)]
    BY <2>1 DEF Idle
  <2> QED
    BY <1>1, <1>5, <2>1, <2>2, NewSources DEF StartEnroll
<1>6. ASSUME NEW c \in CodesInHand, StartLogin(t, pw, c) PROVE Sources(t)
  <2>1. PICK j : /\ job' = [job EXCEPT ![t] = j]
                 /\ j = [Idle EXCEPT !.kind = "login", !.at = "sent", !.pw = pw, !.code = c]
    BY <1>6 DEF StartLogin
  <2>2. j.kind = "login" /\ j.at = "sent" /\ j.tok = None /\ j.code = c
    BY <2>1 DEF Idle
  <2> QED
    BY <1>1, <1>6, <2>1, <2>2, NewSources DEF StartLogin
<1>7. ASSUME NEW new \in Passwords, StartChange(t, pw, new) PROVE Sources(t)
  <2>1. PICK j : /\ job' = [job EXCEPT ![t] = j]
                 /\ j = [Idle EXCEPT !.kind = "change", !.at = "staging", !.pw = pw, !.new = new, !.seen = Here(t)]
    BY <1>7 DEF StartChange
  <2>2. j.kind = "change" /\ j.at = "staging" /\ j.tok = None
    BY <2>1 DEF Idle
  <2> QED
    BY <1>1, <1>7, <2>1, <2>2, NewSources DEF StartChange
<1>8. ASSUME NEW c \in CodesInHand, NEW k, StartRequest(t, k, pw, c) PROVE Sources(t)
  <2>1. PICK j : /\ job' = [job EXCEPT ![t] = j]
                 /\ j = [Idle EXCEPT !.kind = k, !.at = "sent", !.pw = pw, !.code = c, !.tok = cookie[Home(t)]]
    BY <1>8 DEF StartRequest
  <2>2. j.kind = k /\ j.at = "sent" /\ j.tok = cookie[Home(t)] /\ j.code = c
    BY <2>1 DEF Idle
  <2>3. k # "enable"
    BY <1>8 DEF StartRequest
  <2> QED
    BY <1>1, <1>8, <2>1, <2>2, <2>3, NewSources DEF StartRequest
<1>9. ASSUME NEW c \in paper, StartRecover(t, c, pw) PROVE Sources(t)
  <2>1. PICK j : /\ job' = [job EXCEPT ![t] = j]
                 /\ j = [Idle EXCEPT !.kind = "recover", !.at = "sent", !.code = c, !.new = pw]
    BY <1>9 DEF StartRecover
  <2>2. j.kind = "recover" /\ j.at = "sent" /\ j.tok = None
    BY <2>1 DEF Idle
  <2> QED
    BY <1>1, <1>9, <2>1, <2>2, NewSources DEF StartRecover
<1>10. CASE StartMe(t)
  <2>1. PICK j : /\ job' = [job EXCEPT ![t] = j]
                 /\ j = [Idle EXCEPT !.kind = "me", !.at = "sent", !.tok = cookie[Home(t)]]
    BY <1>10 DEF StartMe
  <2>2. j.kind = "me" /\ j.at = "sent" /\ j.tok = cookie[Home(t)]
    BY <2>1 DEF Idle
  <2> QED
    BY <1>1, <1>10, <2>1, <2>2, NewSources DEF StartMe
<1> QED
  BY <1>2, <1>3, <1>4, <1>5, <1>6, <1>7, <1>8, <1>9, <1>10

(* The other steps of a tab.                                               *)
LEMMA TabSources ==
    ASSUME TInv, NEW t \in Tabs,
           \/ Stage(t) \/ Receive(t) \/ Lose(t) \/ FinalizeChange(t) \/ RollbackChange(t)
           \/ UnlockRead(t) \/ Unlock(t) \/ CreateIdentity(t) \/ RestoreFromRecovery(t) \/ Published(t)
           \/ Enrolled(t) \/ Bootstrapped(t) \/ LeftEverywhere(t) \/ DeletedHere(t) \/ Done(t)
           \/ Logout(t) \/ LoggedOut(t) \/ PanicWipe(t)
           \/ ToggleBiometric(t) \/ TogglePasskey(t) \/ EnrollPasskeyUnlock(t) \/ UnlockCancelled(t)
           \/ \E k \in Unlocks : UnlockPrompt(t, k) \/ UnlockWith(t, k)
           \/ LoadDoc(t) \/ SaveDocRead(t) \/ SaveDocPut(t)
           \/ Crash(t)
    PROVE  Sources(t)
<1>1. /\ Home(t) \in Devices /\ JobsOK /\ JobOK(job[t]) /\ HasFields(job[t])
      /\ cookie \in [Devices -> SessionToken \cup {None}]
  BY Here1 DEF JobOK, TInv, DiskOK
<1>2. CASE Stage(t)
  <2>1. UNCHANGED <<server, cookie, minted>> /\ job[t].at = "staging"
    BY <1>2 DEF Stage
  <2>2. CASE job' = [job EXCEPT ![t] = Idle]
    BY <2>1, <2>2, IdleSources
  <2>3. CASE job' = [job EXCEPT ![t] = [job[t] EXCEPT !.at = "sent", !.tok = cookie[Home(t)]]]
    <3>1. /\ job'[t] = [job[t] EXCEPT !.at = "sent", !.tok = cookie[Home(t)]]
          /\ \A u \in Tabs \ {t} : job'[u] = job[u]
      BY <1>1, <2>3 DEF JobsOK
    <3>2. /\ job'[t].kind = job[t].kind /\ job'[t].at = "sent" /\ job'[t].tok = cookie[Home(t)]
          /\ job'[t].code = job[t].code
      BY <1>1, <3>1 DEF HasFields
    <3>3. job[t].kind = "change"
      BY <1>1, <2>1 DEF JobOK
    <3> QED
      BY <2>1, <3>1, <3>2, <3>3, GoSources
  <2> QED
    BY <1>2, <2>2, <2>3 DEF Stage
<1>3. ASSUME NEW a \in {"received", "refused"}, job' = [job EXCEPT ![t].at = a],
             \A d \in Devices : cookie'[d] \in {cookie[d], None, job[t].tok}, UNCHANGED <<server, minted>>
      PROVE  Sources(t)
  <2>1. /\ \A u \in Tabs \ {t} : job'[u] = job[u]
        /\ Same(job[t], job'[t]) /\ job'[t].at = a /\ job'[t].tok = job[t].tok
    BY <1>1, <1>3, SetAtFacts
  <2> QED
    BY <1>3, <2>1, GoSources DEF Same
<1>4. CASE Receive(t)
  <2>1. \E a \in {"received", "refused"} : job' = [job EXCEPT ![t].at = a]
    BY <1>4 DEF Receive
  <2>2. \A d \in Devices : cookie'[d] \in {cookie[d], None, job[t].tok}
    BY <1>1, <1>4 DEF Receive
  <2>3. UNCHANGED <<server, minted>>
    BY <1>4 DEF Receive
  <2> QED
    BY <1>3, <2>1, <2>2, <2>3
<1>5. CASE Lose(t)
  <2>1. job' = [job EXCEPT ![t].at = "refused"]
    BY <1>5 DEF Lose
  <2>2. UNCHANGED <<server, cookie, minted>>
    BY <1>5 DEF Lose, disk
  <2> QED
    BY <1>3, <2>1, <2>2
<1>6. CASE UnlockRead(t)
  <2>1. UNCHANGED <<server, cookie, minted>> /\ job' = [job EXCEPT ![t].at = "opening", ![t].seen = Here(t)]
    BY <1>6 DEF UnlockRead, disk
  <2>2. \A u \in Tabs \ {t} : job'[u] = job[u]
    BY <1>1, <2>1 DEF JobsOK
  <2>3. /\ job'[t].kind = job[t].kind /\ job'[t].at = "opening" /\ job'[t].tok = job[t].tok
        /\ job'[t].code = job[t].code
    BY <1>1, <2>1 DEF JobsOK, HasFields
  <2> QED
    BY <2>1, <2>2, <2>3, GoSources
<1>7. CASE CreateIdentity(t) \/ RestoreFromRecovery(t)
  <2>1. PICK c : job' = [job EXCEPT ![t] = [Idle EXCEPT !.kind = "publish", !.at = "sent", !.code = c,
                                                        !.tok = cookie[Home(t)]]]
    <3>1. CASE CreateIdentity(t)
      BY <3>1 DEF CreateIdentity
    <3>2. CASE RestoreFromRecovery(t)
      <4> DEFINE c == job[t].seen.recovery.identity
      <4>1. job' = [job EXCEPT ![t] = [Idle EXCEPT !.kind = "publish", !.at = "sent",
                                                   !.tok = cookie[Home(t)], !.code = c]]
        BY <3>2 DEF RestoreFromRecovery
      <4> HIDE DEF c
      <4>2. [Idle EXCEPT !.kind = "publish", !.at = "sent", !.tok = cookie[Home(t)], !.code = c]
            = [Idle EXCEPT !.kind = "publish", !.at = "sent", !.code = c, !.tok = cookie[Home(t)]]
        BY DEF Idle
      <4> QED
        BY <4>1, <4>2
    <3> QED
      BY <1>7, <3>1, <3>2
  <2>2. PICK j : /\ job' = [job EXCEPT ![t] = j]
                 /\ j = [Idle EXCEPT !.kind = "publish", !.at = "sent", !.code = c, !.tok = cookie[Home(t)]]
    BY <2>1
  <2>3. j.kind = "publish" /\ j.at = "sent" /\ j.tok = cookie[Home(t)]
    BY <2>2 DEF Idle
  <2>4. UNCHANGED <<server, cookie>> /\ minted' = minted + 1
    BY <1>7 DEF CreateIdentity, RestoreFromRecovery
  <2> QED
    BY <2>2, <2>3, <2>4, NewSources
<1>8. CASE \/ FinalizeChange(t) \/ RollbackChange(t) \/ Unlock(t) \/ Published(t) \/ Enrolled(t)
           \/ Bootstrapped(t) \/ LeftEverywhere(t) \/ DeletedHere(t) \/ Done(t) \/ EnrollPasskeyUnlock(t)
           \/ UnlockCancelled(t) \/ \E k \in Unlocks : UnlockWith(t, k)
  <2>1. job' = [job EXCEPT ![t] = Idle] /\ UNCHANGED <<server, cookie, minted>>
    BY <1>8 DEF FinalizeChange, RollbackChange, Unlock, Published, Enrolled, Bootstrapped, LeftEverywhere,
                DeletedHere, Done, EnrollPasskeyUnlock, UnlockCancelled, UnlockWith, disk
  <2> QED
    BY <2>1, IdleSources
<1>9. CASE \/ Logout(t) \/ LoggedOut(t) \/ PanicWipe(t) \/ ToggleBiometric(t)
           \/ LoadDoc(t) \/ SaveDocRead(t) \/ SaveDocPut(t)
  <2>1. UNCHANGED <<server, job, minted>>
    BY <1>9 DEF Logout, LoggedOut, PanicWipe, ToggleBiometric, LoadDoc, SaveDocRead, SaveDocPut, Start, limits
  <2>2. \A d \in Devices : cookie'[d] \in {cookie[d], None, job[t].tok}
    BY <1>1, <1>9 DEF Logout, LoggedOut, PanicWipe, ToggleBiometric, LoadDoc, SaveDocRead, SaveDocPut,
                      Start, disk
  <2> QED
    BY <2>1, <2>2, GoSources
<1>10. CASE TogglePasskey(t)
  <2>1. UNCHANGED <<server, cookie, minted>>
    BY <1>10 DEF TogglePasskey
  <2>2. CASE UNCHANGED job
    BY <2>1, <2>2, GoSources
  <2>3. CASE job' = [job EXCEPT ![t] = [Idle EXCEPT !.kind = "enrollPasskey", !.at = "prompt", !.seen = ops]]
    <3>1. PICK j : /\ job' = [job EXCEPT ![t] = j]
                   /\ j = [Idle EXCEPT !.kind = "enrollPasskey", !.at = "prompt", !.seen = ops]
      BY <2>3
    <3>2. j.kind = "enrollPasskey" /\ j.at = "prompt" /\ j.tok = None
      BY <3>1 DEF Idle
    <3> QED
      BY <2>1, <3>1, <3>2, NewSources
  <2> QED
    BY <1>10, <2>2, <2>3 DEF TogglePasskey
<1>11. ASSUME NEW k \in Unlocks, UnlockPrompt(t, k) PROVE Sources(t)
  <2>1. PICK seen : job' = [job EXCEPT ![t] = [Idle EXCEPT !.kind = k, !.at = "prompt", !.seen = seen]]
    BY <1>11 DEF UnlockPrompt
  <2>2. PICK j : /\ job' = [job EXCEPT ![t] = j]
                 /\ j = [Idle EXCEPT !.kind = k, !.at = "prompt", !.seen = seen]
    BY <2>1
  <2>3. j.kind = k /\ j.at = "prompt" /\ j.tok = None
    BY <2>2 DEF Idle
  <2>4. UNCHANGED <<server, cookie, minted>>
    BY <1>11 DEF UnlockPrompt, disk
  <2> QED
    BY <2>2, <2>3, <2>4, NewSources DEF Unlocks
<1>12. CASE Crash(t)
  <2>1. UNCHANGED <<server, cookie, minted>>
    BY <1>12 DEF Crash, disk
  <2>2. CASE job' = [job EXCEPT ![t] = Idle]
    BY <2>1, <2>2, IdleSources
  <2>3. CASE job' = [job EXCEPT ![t].orphan = TRUE]
    <3>1. job'[t] = [job[t] EXCEPT !.orphan = TRUE] /\ \A u \in Tabs \ {t} : job'[u] = job[u]
      BY <1>1, <2>3 DEF JobsOK
    <3>2. /\ job'[t].kind = job[t].kind /\ job'[t].at = job[t].at /\ job'[t].tok = job[t].tok
          /\ job'[t].code = job[t].code /\ job'[t].seen = job[t].seen /\ job'[t].pw = job[t].pw
      BY <1>1, <3>1 DEF HasFields
    <3> QED
      BY <2>1, <3>1, <3>2, GoSources
  <2> QED
    BY <1>12, <2>2, <2>3 DEF Crash
<1> QED
  BY <1>2, <1>4, <1>5, <1>6, <1>7, <1>8, <1>9, <1>10, <1>11, <1>12

-----------------------------------------------------------------------------
(* Session tokens prove the password.                                      *)

\* What a step may do to the account: end it, keep the password in its epoch, begin
\* another epoch, or begin the next account.
RowMoves ==
    /\ born' \in {born, born + 1}
    /\ row' # None =>
          \/ /\ row # None /\ row'.gen = row.gen /\ born' = born
             /\ (row'.epoch = row.epoch /\ row'.pw = row.pw) \/ row'.epoch = row.epoch + 1
          \/ row'.gen = born /\ born' = born + 1

(* None of that makes a token that was stale fresh.                        *)
LEMMA StaleMoves ==
    ASSUME TInv, RowMoves, NEW g \in Nat, NEW e \in Nat, NEW p, Stale(g, e, p) PROVE Stale(g, e, p)'
<1>1. born \in Nat /\ row \in AccountRow \cup {None}
  BY DEF TInv, ServerOK, ServerTypeOK
<1>2. row # None => row.epoch \in Nat
  BY <1>1 DEF AccountRow
<1>3. CASE row' = None
  BY <1>1, <1>3 DEF Stale, RowMoves
<1>4. CASE row' # None /\ row # None /\ row'.gen = row.gen /\ row'.epoch = row.epoch /\ row'.pw = row.pw
  BY <1>1, <1>2, <1>4 DEF Stale, RowMoves
<1>5. CASE row' # None /\ row # None /\ row'.gen = row.gen /\ row'.epoch = row.epoch + 1
  <2>1. g = row.gen => e # row'.epoch /\ e <= row'.epoch
    BY <1>1, <1>2, <1>5 DEF Stale
  <2> QED
    BY <1>1, <1>5, <2>1 DEF Stale, RowMoves
<1>6. CASE row'.gen = born /\ born' = born + 1
  BY <1>1, <1>6 DEF Stale
<1> QED
  BY <1>3, <1>4, <1>5, <1>6 DEF RowMoves

(* The columns that a write leaves.                                        *)
LEMMA RowKeeps ==
    ASSUME NEW r \in AccountRow
    PROVE  /\ \A pw : LET q == [r EXCEPT !.pw = pw, !.epoch = @ + 1]
                      IN  q.gen = r.gen /\ q.pw = pw /\ q.epoch = r.epoch + 1 /\ q.secret = r.secret
                          /\ q.last = r.last /\ q.backup = r.backup
           /\ LET q == [r EXCEPT !.epoch = @ + 1]
              IN  q.gen = r.gen /\ q.epoch = r.epoch + 1 /\ q.secret = r.secret
                  /\ q.last = r.last /\ q.backup = r.backup
           /\ \A n : LET q == [r EXCEPT !.last = n]
                     IN  q.gen = r.gen /\ q.pw = r.pw /\ q.epoch = r.epoch /\ q.secret = r.secret
                         /\ q.last = n /\ q.backup = r.backup
           /\ \A b : LET q == [r EXCEPT !.backup = b]
                     IN  q.gen = r.gen /\ q.pw = r.pw /\ q.epoch = r.epoch /\ q.secret = r.secret
                         /\ q.last = r.last /\ q.backup = b
           /\ \A s, n, b : LET q == [r EXCEPT !.secret = s, !.last = n, !.backup = b]
                           IN  q.gen = r.gen /\ q.pw = r.pw /\ q.epoch = r.epoch /\ q.secret = s
                               /\ q.last = n /\ q.backup = b
           /\ \A c : LET q == [r EXCEPT !.recovery = c]
                     IN  q.gen = r.gen /\ q.pw = r.pw /\ q.epoch = r.epoch /\ q.secret = r.secret
                         /\ q.last = r.last /\ q.backup = r.backup
           /\ \A c : LET q == [r EXCEPT !.terms = c]
                     IN  q.gen = r.gen /\ q.pw = r.pw /\ q.epoch = r.epoch /\ q.secret = r.secret
                         /\ q.last = r.last /\ q.backup = r.backup
           /\ \A c : LET q == [r EXCEPT !.identity = c]
                     IN  q.gen = r.gen /\ q.pw = r.pw /\ q.epoch = r.epoch /\ q.secret = r.secret
                         /\ q.last = r.last /\ q.backup = r.backup
           /\ \A c : LET q == [r EXCEPT !.disabled = c]
                     IN  q.gen = r.gen /\ q.pw = r.pw /\ q.epoch = r.epoch /\ q.secret = r.secret
                         /\ q.last = r.last /\ q.backup = r.backup
BY DEF AccountRow

(* The handlers move the account so.                                       *)
LEMMA ServeMoves == ASSUME TInv, NEW t \in Tabs, Serve(t) PROVE RowMoves
<1>1. row \in AccountRow \cup {None} /\ born \in Nat
  BY DEF TInv, ServerOK, ServerTypeOK
<1>2. ASSUME row' = row, born' = born PROVE RowMoves
  BY <1>2 DEF RowMoves
<1>3. ASSUME born' = born, row \in AccountRow => row'.gen = row.gen,
             row \in AccountRow => (row'.epoch = row.epoch /\ row'.pw = row.pw) \/ row'.epoch = row.epoch + 1,
             row = None => row' = None
      PROVE  RowMoves
  BY <1>1, <1>3 DEF RowMoves
<1>4. CASE Authenticate(t) \/ Load(t) \/ Me(t)
  BY <1>2, <1>4 DEF Authenticate, Load, Me, server
<1>5. CASE Signup(t)
  <2>1. CASE row = None
    <3>1. row' = FreshRow(job[t].pw) /\ born' = born + 1
      BY <1>5, <2>1 DEF Signup
    <3>2. row'.gen = born
      BY <3>1 DEF FreshRow
    <3> QED
      BY <3>1, <3>2 DEF RowMoves
  <2>2. CASE row # None
    BY <1>2, <1>5, <2>2 DEF Signup
  <2> QED
    BY <2>1, <2>2
<1>6. CASE Login(t)
  <2>1. born' = born /\ (row' = row \/ (row # None /\ row' = SpendCode(row, job[t].seen, job[t].code)))
    BY <1>6 DEF Login
  <2>2. CASE row' = row
    BY <1>2, <2>1, <2>2
  <2>3. CASE row # None /\ row' = SpendCode(row, job[t].seen, job[t].code)
    <3>1. row \in AccountRow
      BY <1>1, <2>3
    <3>2. row'.gen = row.gen /\ row'.epoch = row.epoch /\ row'.pw = row.pw
      BY <2>3, <3>1, RowKeeps DEF SpendCode
    <3> QED
      BY <2>1, <2>3, <3>2 DEF RowMoves
  <2> QED
    BY <2>1, <2>2, <2>3
<1>7. CASE ChangePassword(t) \/ RecoveryReset(t)
  <2>1. UpdatePassword(job[t].new) /\ born' = born
    BY <1>7 DEF ChangePassword, RecoveryReset
  <2>2. CASE row = None
    BY <1>2, <2>1, <2>2 DEF UpdatePassword
  <2>3. CASE row # None
    <3>1. row' = [row EXCEPT !.pw = job[t].new, !.epoch = @ + 1] /\ row \in AccountRow
      BY <1>1, <2>1, <2>3 DEF UpdatePassword
    <3>2. row'.gen = row.gen /\ row'.epoch = row.epoch + 1
      BY <3>1, RowKeeps
    <3> QED
      BY <2>1, <2>3, <3>2 DEF RowMoves
  <2> QED
    BY <2>2, <2>3
<1>8. CASE LogoutAll(t)
  <2>1. row' = (IF row = None THEN row ELSE [row EXCEPT !.epoch = @ + 1]) /\ born' = born
    BY <1>8 DEF LogoutAll
  <2> QED
    BY <1>1, <2>1, RowKeeps DEF RowMoves
<1>9. CASE DeleteAccount(t)
  BY <1>9 DEF DeleteAccount, RowMoves
<1>10. CASE TwoFactorEnable(t) \/ TwoFactorDisable(t)
  <2>1. /\ born' = born
        /\ \/ row' = row
           \/ \E s, n, b : row # None /\ row' = [row EXCEPT !.secret = s, !.last = n, !.backup = b]
    <3>1. CASE TwoFactorEnable(t)
      <4>1. /\ born' = born
            /\ \/ row' = row
               \/ row # None /\ row' = [row EXCEPT !.secret = job[t].code.secret, !.last = 0,
                             !.backup = {BackupCode(job[t].code.secret, b) : b \in BackupCodes}]
        BY <3>1 DEF TwoFactorEnable
      <4> QED
        BY <4>1
    <3>2. CASE TwoFactorDisable(t)
      <4>1. /\ born' = born
            /\ \/ row' = row
               \/ row # None /\ row' = [row EXCEPT !.secret = None, !.last = 0, !.backup = {}]
        BY <3>2 DEF TwoFactorDisable
      <4> QED
        BY <4>1
    <3> QED
      BY <1>10, <3>1, <3>2
  <2>2. CASE row' = row
    BY <1>2, <2>1, <2>2
  <2>3. ASSUME NEW s, NEW n, NEW b, row # None, row' = [row EXCEPT !.secret = s, !.last = n, !.backup = b]
        PROVE  RowMoves
    <3>1. row \in AccountRow
      BY <1>1, <2>3
    <3>2. row'.gen = row.gen /\ row'.epoch = row.epoch /\ row'.pw = row.pw
      BY <2>3, <3>1, RowKeeps
    <3> QED
      BY <2>1, <2>3, <3>2 DEF RowMoves
  <2> QED
    BY <2>1, <2>2, <2>3
<1>11. CASE RecoveryEnroll(t)
  <2>1. row' = (IF row = None THEN row ELSE [row EXCEPT !.recovery = job[t].code]) /\ born' = born
    BY <1>11 DEF RecoveryEnroll
  <2> QED
    BY <1>1, <2>1, RowKeeps DEF RowMoves
<1>12. CASE AcceptTerms(t)
  <2>1. row' = (IF row = None THEN row ELSE [row EXCEPT !.terms = TRUE]) /\ born' = born
    BY <1>12 DEF AcceptTerms
  <2> QED
    BY <1>1, <2>1, RowKeeps DEF RowMoves
<1>13. CASE PublishKeys(t)
  <2>1. row' = (IF row = None THEN row ELSE [row EXCEPT !.identity = job[t].code]) /\ born' = born
    BY <1>13 DEF PublishKeys
  <2> QED
    BY <1>1, <2>1, RowKeeps DEF RowMoves
<1> QED
  BY <1>4, <1>5, <1>6, <1>7, <1>8, <1>9, <1>10, <1>11, <1>12, <1>13 DEF Serve

(* The present account is the last that was born, whatever the handlers do. *)
LEMMA BornMoves ==
    ASSUME TInv, RowMoves, row # None => row.gen + 1 = born PROVE row' # None => row'.gen + 1 = born'
<1>1. born \in Nat /\ row \in AccountRow \cup {None}
  BY DEF TInv, ServerOK, ServerTypeOK
<1>2. row # None => row.gen \in Nat
  BY <1>1 DEF AccountRow
<1> QED
  BY <1>1, <1>2 DEF RowMoves

\* What TokenInv says of one tab.
TokenOf(tok) == tok # None => Stale(tok.gen, tok.epoch, tok.pw)
SeenOf(j) ==
    /\ j.kind \in {"login", "change", "recover"} /\ j.at = "loaded" =>
           Stale(j.seen.gen, j.seen.epoch, j.seen.pw)
    /\ j.kind = "login" /\ j.at = "loaded" => j.pw = j.seen.pw

(* The tokens and rows of the other tabs stay stale.                       *)
LEMMA OthersStale ==
    ASSUME TInv, TokenInv, RowMoves, NEW t \in Tabs, \A u \in Tabs \ {t} : job'[u] = job[u],
           \A d \in Devices : cookie'[d] \in {cookie[d], None, job[t].tok},
           TokenOf(job[t].tok)', SeenOf(job[t])'
    PROVE  TokenInv'
<1>1. \A d \in Devices : cookie[d] \in SessionToken \cup {None}
  BY DEF TInv, DiskOK
<1>2. ASSUME NEW tok \in SessionToken \cup {None}, TokenOf(tok) PROVE TokenOf(tok)'
  <2>1. tok # None => tok.gen \in Nat /\ tok.epoch \in Nat
    BY DEF SessionToken
  <2> QED
    BY <1>2, <2>1, StaleMoves DEF TokenOf
<1>3. \A u \in Tabs : JobOK(job[u])
  BY DEF TInv, JobsOK
<1>4. \A u \in Tabs : job[u].tok \in SessionToken \cup {None} /\ TokenOf(job[u].tok) /\ SeenOf(job[u])
  BY <1>3 DEF TokenInv, RequestsAreStale, TokenOf, SeenOf, JobOK
<1>5. \A d \in Devices : TokenOf(cookie[d])
  BY DEF TokenInv, TokensAreStale, TokenOf
<1>6. ASSUME NEW d \in Devices PROVE TokenOf(cookie[d])'
  <2>1. cookie'[d] \in SessionToken \cup {None} /\ TokenOf(cookie'[d])
    BY <1>1, <1>4, <1>5 DEF TokenOf
  <2>2. PICK tok \in SessionToken \cup {None} : tok = cookie'[d]
    BY <2>1
  <2>3. TokenOf(tok)'
    BY <1>2, <2>1, <2>2
  <2> QED
    BY <2>2, <2>3
<1>7. ASSUME NEW u \in Tabs \ {t} PROVE TokenOf(job[u].tok)' /\ SeenOf(job[u])'
  <2>1. TokenOf(job[u].tok)' /\ job'[u] = job[u]
    <3>1. PICK tok \in SessionToken \cup {None} : tok = job[u].tok
      BY <1>4
    <3>2. TokenOf(tok)'
      BY <1>2, <1>4, <3>1
    <3> QED
      BY <3>1, <3>2
  <2>2. SeenOf(job[u])'
    <3>1. CASE job[u].kind \in {"login", "change", "recover"} /\ job[u].at = "loaded"
      <4>1. job[u].seen \in AccountRow
        BY <1>3, <3>1 DEF JobOK, GotRecovery
      <4>2. job[u].seen.gen \in Nat /\ job[u].seen.epoch \in Nat /\ job[u].seen.pw \in Passwords
        BY <4>1 DEF AccountRow
      <4>3. Stale(job[u].seen.gen, job[u].seen.epoch, job[u].seen.pw)
        BY <1>4, <3>1 DEF SeenOf
      <4>4. Stale(job[u].seen.gen, job[u].seen.epoch, job[u].seen.pw)'
        <5>1. PICK g \in Nat, e \in Nat, p \in Passwords : g = job[u].seen.gen /\ e = job[u].seen.epoch /\ p = job[u].seen.pw
          BY <4>2
        <5>2. Stale(g, e, p)'
          BY <4>3, <5>1, StaleMoves
        <5> QED
          BY <2>1, <5>1, <5>2
      <4> QED
        BY <1>4, <2>1, <4>4 DEF SeenOf
    <3>2. CASE ~ (job[u].kind \in {"login", "change", "recover"} /\ job[u].at = "loaded")
      BY <2>1, <3>2 DEF SeenOf
    <3> QED
      BY <3>1, <3>2
  <2> QED
    BY <2>1, <2>2
<1>8. row' # None => row'.gen + 1 = born'
  BY BornMoves DEF TokenInv
<1>9. TokensAreStale'
  BY <1>6 DEF TokensAreStale, TokenOf
<1>10. RequestsAreStale'
  <2> SUFFICES ASSUME NEW u \in Tabs PROVE TokenOf(job[u].tok)' /\ SeenOf(job[u])'
    BY DEF RequestsAreStale, TokenOf, SeenOf
  <2> QED
    BY <1>7
<1> QED
  BY <1>8, <1>9, <1>10 DEF TokenInv

(* A token that is not of a later epoch stays so.                          *)
LEMMA KeptToken ==
    ASSUME TInv, RowMoves, NEW tok \in SessionToken \cup {None}, TokenOf(tok) PROVE TokenOf(tok)'
<1>1. tok # None => tok.gen \in Nat /\ tok.epoch \in Nat
  BY DEF SessionToken
<1> QED
  BY <1>1, StaleMoves DEF TokenOf

(* A step of a tab without the server.                                     *)
LEMMA SourcesTokens == ASSUME TInv, TokenInv, NEW t \in Tabs, Sources(t) PROVE TokenInv'
<1>1. row' = row /\ born' = born
  BY DEF Sources, server
<1>2. RowMoves
  BY <1>1 DEF RowMoves
<1>3. /\ \A u \in Tabs \ {t} : job'[u] = job[u]
      /\ \A d \in Devices : cookie'[d] \in {cookie[d], None, job[t].tok}
  BY DEF Sources
<1>4. Home(t) \in Devices
  BY HomeFacts
<1>5. TokenOf(cookie[Home(t)]) /\ TokenOf(job[t].tok) /\ TokenOf(None)
  BY <1>4 DEF TokenInv, TokensAreStale, RequestsAreStale, TokenOf
<1>6. TokenOf(job'[t].tok)
  BY <1>5 DEF Sources
<1>7. TokenOf(job[t].tok)'
  BY <1>1, <1>6 DEF TokenOf, Stale
<1>8. SeenOf(job[t])'
  <2>1. SeenOf(job[t])
    BY DEF TokenInv, RequestsAreStale, SeenOf
  <2>2. CASE job'[t].at = "loaded"
    <3>1. /\ job[t].at = "loaded" /\ job'[t].kind = job[t].kind /\ job'[t].seen = job[t].seen
          /\ job'[t].pw = job[t].pw
      BY <2>2 DEF Sources
    <3> QED
      BY <1>1, <2>1, <3>1 DEF SeenOf, Stale
  <2>3. CASE job'[t].at # "loaded"
    BY <2>3 DEF SeenOf
  <2> QED
    BY <2>2, <2>3
<1> QED
  BY <1>2, <1>3, <1>7, <1>8, OthersStale

(* An answer with a token that is stale.                                   *)
LEMMA AnswerTokens ==
    ASSUME TInv, TokenInv, RowMoves, UNCHANGED cookie, NEW t \in Tabs, NEW ok, NEW tok,
           Answer(t, ok, tok), TokenOf(tok)'
    PROVE  TokenInv'
<1>1. /\ \A u \in Tabs \ {t} : job'[u] = job[u]
      /\ job'[t].at = "answered" /\ job'[t].tok = tok
  BY AnswerFacts DEF TInv
<1>2. TokenOf(job[t].tok)'
  BY <1>1 DEF TokenOf
<1>3. SeenOf(job[t])'
  BY <1>1 DEF SeenOf
<1> QED
  BY <1>1, <1>2, <1>3, OthersStale

(* An answer without a token, or with the one that was presented.          *)
LEMMA SameTokens ==
    ASSUME TInv, TokenInv, RowMoves, UNCHANGED cookie, NEW t \in Tabs, NEW ok,
           Answer(t, ok, None) \/ Answer(t, ok, job[t].tok)
    PROVE  TokenInv'
<1>1. CASE Answer(t, ok, None)
  <2>1. TokenOf(None)'
    BY DEF TokenOf
  <2> QED
    BY <1>1, <2>1, AnswerTokens
<1>2. CASE Answer(t, ok, job[t].tok)
  <2>1. JobOK(job[t])
    BY DEF TInv, JobsOK
  <2>2. PICK tok \in SessionToken \cup {None} : tok = job[t].tok
    BY <2>1 DEF JobOK
  <2>3. TokenOf(tok)
    BY <2>2 DEF TokenInv, RequestsAreStale, TokenOf
  <2>4. TokenOf(tok)'
    BY <2>3, KeptToken
  <2>5. Answer(t, ok, tok)
    BY <1>2, <2>2
  <2> QED
    BY <2>4, <2>5, AnswerTokens
<1> QED
  BY <1>1, <1>2

(* The tokens the handlers sign.                                           *)
LEMMA ServeTokens ==
    ASSUME TInv, TokenInv, UNCHANGED cookie, NEW t \in Tabs, Serve(t) PROVE TokenInv'
<1>1. RowMoves
  BY ServeMoves
<1>2. /\ JobsOK /\ JobOK(job[t]) /\ born \in Nat /\ row \in AccountRow \cup {None}
      /\ row # None => row.gen + 1 = born
  BY DEF TInv, JobsOK, ServerOK, ServerTypeOK, TokenInv
<1>3. TokenOf(job[t].tok) /\ SeenOf(job[t])
  BY DEF TokenInv, RequestsAreStale, TokenOf, SeenOf
<1>4. CASE Authenticate(t)
  <2>1. CASE Answer(t, FALSE, None)
    BY <1>1, <2>1, SameTokens
  <2>2. CASE job' = [job EXCEPT ![t].at = "authed"]
    <3>1. /\ \A u \in Tabs \ {t} : job'[u] = job[u]
          /\ job'[t].at = "authed" /\ job'[t].tok = job[t].tok
      BY <1>2, <2>2, SetAtFacts
    <3>2. row' = row /\ born' = born
      BY <1>4 DEF Authenticate, server
    <3>3. TokenOf(job[t].tok)' /\ SeenOf(job[t])'
      BY <1>3, <3>1, <3>2 DEF TokenOf, SeenOf, Stale
    <3> QED
      BY <1>1, <3>1, <3>3, OthersStale
  <2> QED
    BY <1>4, <2>1, <2>2 DEF Authenticate
<1>5. CASE Load(t)
  <2>1. CASE Answer(t, FALSE, None)
    BY <1>1, <2>1, SameTokens
  <2>2. CASE Admits(row, job[t]) /\ job' = [job EXCEPT ![t].at = "loaded", ![t].seen = row]
    <3>1. /\ \A u \in Tabs \ {t} : job'[u] = job[u]
          /\ Same(job[t], job'[t])
          /\ job'[t].at = "loaded" /\ job'[t].tok = job[t].tok /\ job'[t].seen = row
      BY <1>2, <2>2, LoadedFacts
    <3>2. row' = row /\ born' = born
      BY <1>5 DEF Load
    <3>3. TokenOf(job[t].tok)'
      BY <1>3, <3>1, <3>2 DEF TokenOf, Stale
    <3>4. job'[t].kind = job[t].kind /\ job'[t].pw = job[t].pw
      BY <3>1 DEF Same
    <3>5. job[t].kind \in {"login", "change", "recover"} => row # None
      BY <2>2 DEF Admits, PasswordKinds
    <3>6. job[t].kind = "login" => job[t].pw = row.pw
      BY <2>2 DEF Admits
    <3>7. row # None => Stale(row.gen, row.epoch, row.pw)
      BY <1>2 DEF Stale, AccountRow
    <3>8. SeenOf(job[t])'
      BY <3>1, <3>2, <3>4, <3>5, <3>6, <3>7 DEF SeenOf, Stale
    <3> QED
      BY <1>1, <3>1, <3>3, <3>8, OthersStale
  <2> QED
    BY <1>5, <2>1, <2>2 DEF Load
<1>6. CASE Me(t)
  <2>1. CASE Answer(t, FALSE, None)
    BY <1>1, <2>1, SameTokens
  <2>2. CASE Authenticates(job[t].tok) /\ Answer(t, TRUE, [job[t].tok EXCEPT !.epoch = row.epoch])
    <3>1. job[t].tok \in SessionToken /\ job[t].tok.epoch = row.epoch
      BY <1>2, <2>2 DEF Authenticates, JobOK
    <3>2. [job[t].tok EXCEPT !.epoch = row.epoch] = job[t].tok
      BY <3>1 DEF SessionToken
    <3>3. Answer(t, TRUE, job[t].tok)
      BY <2>2, <3>2
    <3> QED
      BY <1>1, <3>3, SameTokens
  <2> QED
    BY <1>6, <2>1, <2>2 DEF Me
<1>7. CASE Signup(t)
  <2>1. CASE row = None
    <3>1. PICK tok : tok = Token(FreshRow(job[t].pw), 0, job[t].pw)
      OBVIOUS
    <3>2. row' = FreshRow(job[t].pw) /\ born' = born + 1 /\ Answer(t, TRUE, tok)
      BY <1>7, <2>1, <3>1 DEF Signup
    <3>3. tok.gen = born /\ tok.epoch = 0 /\ tok.pw = job[t].pw
      BY <3>1 DEF Token, FreshRow
    <3>4. row'.gen = born /\ row'.epoch = 0 /\ row'.pw = job[t].pw
      BY <3>2 DEF FreshRow
    <3>5. TokenOf(tok)'
      BY <1>2, <3>2, <3>3, <3>4 DEF TokenOf, Stale
    <3> QED
      BY <1>1, <3>2, <3>5, AnswerTokens
  <2>2. CASE row # None
    <3>1. Answer(t, FALSE, None)
      BY <1>7, <2>2 DEF Signup
    <3> QED
      BY <1>1, <3>1, SameTokens
  <2> QED
    BY <2>1, <2>2
<1>8. CASE Login(t)
  <2>1. /\ job[t].at = "loaded" /\ job[t].kind = "login"
        /\ Answer(t, TRUE, Token(job[t].seen, job[t].seen.epoch, job[t].pw))
    BY <1>8 DEF Login
  <2>2. /\ job[t].seen.gen \in Nat /\ job[t].seen.epoch \in Nat /\ job[t].pw \in Passwords
        /\ job[t].pw = job[t].seen.pw
        /\ Stale(job[t].seen.gen, job[t].seen.epoch, job[t].pw)
    BY <1>2, <1>3, <2>1 DEF JobOK, AccountRow, SeenOf
  <2>3. PICK tok : tok = Token(job[t].seen, job[t].seen.epoch, job[t].pw)
    OBVIOUS
  <2>4. tok.gen = job[t].seen.gen /\ tok.epoch = job[t].seen.epoch /\ tok.pw = job[t].pw
    BY <2>3 DEF Token
  <2>5. PICK g \in Nat, e \in Nat, p \in Passwords : g = tok.gen /\ e = tok.epoch /\ p = tok.pw
    BY <2>2, <2>4
  <2>6. Stale(g, e, p)'
    BY <1>1, <2>2, <2>4, <2>5, StaleMoves
  <2>7. TokenOf(tok)'
    BY <2>5, <2>6 DEF TokenOf
  <2>8. Answer(t, TRUE, tok)
    BY <2>1, <2>3
  <2> QED
    BY <1>1, <2>7, <2>8, AnswerTokens
<1>9. CASE ChangePassword(t) \/ RecoveryReset(t)
  <2>1. /\ job[t].at = "loaded" /\ job[t].kind \in {"change", "recover"}
        /\ UpdatePassword(job[t].new) /\ born' = born
        /\ Answer(t, TRUE, Token(job[t].seen, job[t].seen.epoch + 1, job[t].new))
    BY <1>9 DEF ChangePassword, RecoveryReset
  <2>2. job[t].seen \in AccountRow
    BY <1>2, <2>1 DEF JobOK, GotRecovery
  <2>3. PICK g \in Nat, e \in Nat, p \in Passwords, new \in Passwords :
            g = job[t].seen.gen /\ e = job[t].seen.epoch /\ p = job[t].seen.pw /\ new = job[t].new
    BY <1>2, <2>1, <2>2 DEF AccountRow, JobOK
  <2>4. Stale(g, e, p)
    BY <1>3, <2>1, <2>3 DEF SeenOf
  <2>5. PICK tok : tok = Token(job[t].seen, job[t].seen.epoch + 1, job[t].new)
    OBVIOUS
  <2>6. tok.gen = g /\ tok.epoch = e + 1 /\ tok.pw = new /\ Answer(t, TRUE, tok)
    BY <2>1, <2>3, <2>5 DEF Token
  <2>7. row' # None => /\ row # None /\ row'.gen = row.gen /\ row'.pw = new
                       /\ row'.epoch = row.epoch + 1 /\ row.epoch \in Nat
    <3>1. CASE row = None
      BY <2>1, <3>1 DEF UpdatePassword
    <3>2. CASE row # None
      <4>1. row' = [row EXCEPT !.pw = new, !.epoch = @ + 1] /\ row \in AccountRow
        BY <1>2, <2>1, <2>3, <3>2 DEF UpdatePassword
      <4>2. row.epoch \in Nat
        BY <4>1 DEF AccountRow
      <4> QED
        BY <3>2, <4>1, <4>2, RowKeeps
    <3> QED
      BY <3>1, <3>2
  <2>8. TokenOf(tok)'
    BY <1>2, <2>1, <2>4, <2>6, <2>7 DEF TokenOf, Stale
  <2> QED
    BY <1>1, <2>6, <2>8, AnswerTokens
<1>10. CASE LogoutAll(t) \/ DeleteAccount(t)
  <2>1. Answer(t, TRUE, None)
    BY <1>10 DEF LogoutAll, DeleteAccount
  <2> QED
    BY <1>1, <2>1, SameTokens
<1>11. CASE TwoFactorEnable(t) \/ TwoFactorDisable(t) \/ RecoveryEnroll(t) \/ AcceptTerms(t) \/ PublishKeys(t)
  <2>1. Answer(t, TRUE, job[t].tok) \/ Answer(t, FALSE, None)
    BY <1>11 DEF TwoFactorEnable, TwoFactorDisable, RecoveryEnroll, AcceptTerms, PublishKeys
  <2> QED
    BY <1>1, <2>1, SameTokens
<1> QED
  BY <1>4, <1>5, <1>6, <1>7, <1>8, <1>9, <1>10, <1>11 DEF Serve

(* What the operator and the clock do.                                     *)
LEMMA StillTokens ==
    ASSUME TInv, TokenInv, UNCHANGED <<cookie, job, born>>,
           \/ row' = row
           \/ row # None /\ row' = [row EXCEPT !.disabled = TRUE]
    PROVE  TokenInv'
<1>1. row' # None => row # None
  OBVIOUS
<1>2. row # None => row'.gen = row.gen /\ row'.epoch = row.epoch /\ row'.pw = row.pw
  <2>1. CASE row' = row
    BY <2>1
  <2>2. CASE row # None /\ row' = [row EXCEPT !.disabled = TRUE]
    <3>1. row \in AccountRow
      BY <2>2 DEF TInv, ServerOK, ServerTypeOK
    <3> QED
      BY <2>2, <3>1, RowKeeps
  <2> QED
    BY <2>1, <2>2
<1> QED
  BY <1>1, <1>2 DEF TokenInv, TokensAreStale, RequestsAreStale, Stale

(* A step of a tab is one of the client's or the Worker's.                 *)
LEMMA TabStepSplit ==
    ASSUME TInv, [Next]_vars
    PROVE  \/ \E t \in Tabs : Sources(t)
           \/ \E t \in Tabs : Work(t)
           \/ Terminate /\ UNCHANGED <<disk, tabs, paper, minted, limits, causes>>
           \/ Tick /\ UNCHANGED <<disk, tabs, paper, minted, limits, causes>>
           \/ UNCHANGED vars
<1>1. ASSUME NEW t \in Tabs, NEW pw \in Passwords,
             \/ StartSignup(t, pw) \/ StartUnlock(t, pw) \/ StartEnable(t, pw) \/ StartEnroll(t, pw)
             \/ \E c \in CodesInHand : StartLogin(t, pw, c)
             \/ \E new \in Passwords : StartChange(t, pw, new)
             \/ \E c \in CodesInHand, k \in PasswordKinds \cup {"terms"} : StartRequest(t, k, pw, c)
             \/ \E c \in paper : StartRecover(t, c, pw)
      PROVE  Sources(t)
  BY <1>1, StartSources
<1>2. ASSUME NEW t \in Tabs, StartMe(t) PROVE Sources(t)
  <2>1. PICK j : /\ job' = [job EXCEPT ![t] = j]
                 /\ j = [Idle EXCEPT !.kind = "me", !.at = "sent", !.tok = cookie[Home(t)]]
    BY <1>2 DEF StartMe
  <2>2. j.kind = "me" /\ j.at = "sent" /\ j.tok = cookie[Home(t)]
    BY <2>1 DEF Idle
  <2>3. UNCHANGED <<server, cookie, minted>>
    BY <1>2 DEF StartMe, Start, disk
  <2> QED
    BY <2>1, <2>2, <2>3, NewSources
<1> QED
  BY <1>1, <1>2, TabSources DEF Next

(* In the first state the jar has the token of the account, if there is one. *)
LEMMA InitTokens == Init => TokenInv
<1> SUFFICES ASSUME Init PROVE TokenInv
  OBVIOUS
<1>1. \A t \in Tabs : job[t].tok = None /\ job[t].at = "idle"
  BY DEF Init, Idle
<1>2. RequestsAreStale
  BY <1>1 DEF RequestsAreStale
<1>3. CASE mode.start = None
  <2>1. row = None /\ \A d \in Devices : rec[d] = None
    BY <1>3 DEF Init, InitServer
  <2>2. \A d \in Devices : cookie[d] = None
    BY <2>1 DEF Init
  <2> QED
    BY <1>2, <2>1, <2>2 DEF TokenInv, TokensAreStale
<1>4. CASE mode.start # None
  <2>1. born = 1 /\ row = [FreshRow(mode.start) EXCEPT !.gen = 0, !.identity = 0]
    BY <1>4 DEF Init, InitServer
  <2>2. row.gen = 0 /\ row.epoch = 0 /\ row.pw = mode.start
    BY <2>1 DEF FreshRow
  <2>3. \A d \in Devices : cookie[d] # None => cookie[d] = Token(row, 0, mode.start)
    BY DEF Init
  <2>4. \A d \in Devices : cookie[d] # None => Stale(cookie[d].gen, cookie[d].epoch, cookie[d].pw)
    <3> SUFFICES ASSUME NEW d \in Devices, cookie[d] # None
                 PROVE  Stale(cookie[d].gen, cookie[d].epoch, cookie[d].pw)
      OBVIOUS
    <3>1. cookie[d].gen = 0 /\ cookie[d].epoch = 0 /\ cookie[d].pw = mode.start
      BY <2>2, <2>3 DEF Token
    <3> QED
      BY <2>1, <2>2, <3>1 DEF Stale
  <2> QED
    BY <1>2, <2>1, <2>2, <2>4 DEF TokenInv, TokensAreStale
<1> QED
  BY <1>3, <1>4

LEMMA StepTokens == TInv /\ TokenInv /\ [Next]_vars => TokenInv'
<1> SUFFICES ASSUME TInv, TokenInv, [Next]_vars PROVE TokenInv'
  OBVIOUS
<1>1. ASSUME NEW t \in Tabs, Work(t) PROVE TokenInv'
  <2>1. Serve(t) /\ UNCHANGED cookie
    BY <1>1 DEF Work, disk
  <2> QED
    BY <2>1, ServeTokens
<1>2. CASE Terminate /\ UNCHANGED <<disk, tabs, paper, minted, limits, causes>>
  BY <1>2, StillTokens DEF Terminate, disk
<1>3. CASE Tick /\ UNCHANGED <<disk, tabs, paper, minted, limits, causes>>
  BY <1>3, StillTokens DEF Tick, disk
<1>4. CASE UNCHANGED vars
  BY <1>4, StillTokens DEF vars, server, disk
<1> QED
  BY <1>1, <1>2, <1>3, <1>4, TabStepSplit, SourcesTokens

(* A token that the server accepts proves the present password of the      *)
(* account it was signed for: readAuthenticatedUsername compares the       *)
(* epochs, and every token is signed for the epoch of the row its handler  *)
(* read (auth.ts, index.ts).  That account is the present one, or else an  *)
(* earlier one of the same name, which the check does not tell apart.      *)
THEOREM TokensHold == Spec => []SessionProvesThePassword
<1>1. TInv /\ TokenInv => SessionProvesThePassword
  <2> SUFFICES ASSUME TInv, TokenInv, NEW tok \in SessionTokens, Authenticates(tok)
               PROVE  tok.pw = row.pw \/ tok.gen < row.gen
    BY DEF SessionProvesThePassword
  <2>1. row # None /\ tok # None /\ tok.epoch = row.epoch
    BY DEF Authenticates
  <2>2. tok \in SessionToken
    <3>1. \A d \in Devices : cookie[d] \in SessionToken \cup {None}
      BY DEF TInv, DiskOK
    <3>2. \A t \in Tabs : job[t].tok \in SessionToken \cup {None}
      BY DEF TInv, JobsOK, JobOK
    <3> QED
      BY <2>1, <3>1, <3>2 DEF SessionTokens
  <2>3. Stale(tok.gen, tok.epoch, tok.pw)
    BY <2>1 DEF SessionTokens, TokenInv, TokensAreStale, RequestsAreStale
  <2>4. row.gen \in Nat /\ tok.gen \in Nat /\ row.gen + 1 = born
    BY <2>1, <2>2 DEF TInv, ServerOK, ServerTypeOK, AccountRow, SessionToken, TokenInv
  <2>5. tok.gen < born /\ (tok.gen = row.gen => tok.pw = row.pw)
    BY <2>1, <2>3 DEF Stale
  <2> QED
    BY <2>4, <2>5
<1> QED
  BY <1>1, InitTypes, StepTypes, InitTokens, StepTokens, PTL DEF Spec

-----------------------------------------------------------------------------
(* A code is accepted once.                                                *)

\* The parts of CodeInv.
SpentCounted == \A c \in DOMAIN spent : spent[c] >= 1
Unraced ==
    ~ raced =>
        /\ \A t, u \in Tabs : Verifies(t) /\ Verifies(u) => t = u
        /\ \A t \in Tabs : Verifies(t) => VerifiedIsUnspent(t)
        /\ RowRefusesSpent
        /\ \A c \in DOMAIN spent : spent[c] <= 1

(* Secrets, steps and counts are numbers.                                  *)
LEMMA CodeTypes ==
    ASSUME TInv
    PROVE  /\ minted \in Nat
           /\ row # None => /\ row \in AccountRow /\ row.secret \in Nat \cup {None} /\ row.last \in Nat
                            /\ \A c \in row.backup : c.secret \in Nat
           /\ \A c \in DOMAIN spent : c.secret \in Nat /\ c.step \in Nat /\ spent[c] \in Nat
           /\ \A t \in Tabs :
                 /\ job[t].kind \in {"login", "disable"} /\ job[t].code # None =>
                       job[t].code \in SecondFactor /\ job[t].code.secret \in Nat /\ job[t].code.step \in Nat
                 /\ job[t].kind = "enable" =>
                       job[t].code \in SecondFactor /\ job[t].code.secret \in Nat /\ job[t].code.step \in Nat
                 /\ Verifies(t) => job[t].seen \in AccountRow /\ \A c \in job[t].seen.backup : c.secret \in Nat
<1>1. \A c \in SecondFactor : c.secret \in Nat /\ c.step \in Nat
  BY DEF SecondFactor
<1>2. \A r \in AccountRow : /\ r.secret \in Nat \cup {None} /\ r.last \in Nat
                            /\ \A c \in r.backup : c.secret \in Nat
  <2> SUFFICES ASSUME NEW r \in AccountRow
               PROVE  /\ r.secret \in Nat \cup {None} /\ r.last \in Nat
                      /\ \A c \in r.backup : c.secret \in Nat
    OBVIOUS
  <2>1. r.backup \in SUBSET [secret : Nat, step : {0}, backup : BackupCodes]
    BY DEF AccountRow
  <2> QED
    BY <2>1 DEF AccountRow
<1>3. \A t \in Tabs : JobOK(job[t])
  BY DEF TInv, JobsOK
<1>4. ASSUME NEW t \in Tabs
      PROVE  /\ job[t].kind \in {"login", "disable"} /\ job[t].code # None => job[t].code \in SecondFactor
             /\ job[t].kind = "enable" => job[t].code \in SecondFactor
             /\ Verifies(t) => job[t].seen \in AccountRow
  BY <1>3 DEF JobOK, Verifies
<1>5. row \in AccountRow \cup {None} /\ DOMAIN spent \subseteq SecondFactor
      /\ (\A c \in DOMAIN spent : spent[c] \in Nat) /\ minted \in Nat
  BY DEF TInv, ServerOK, ServerTypeOK, RestOK
<1> QED
  BY <1>1, <1>2, <1>4, <1>5

\* What a step keeps of the requests when it reads no row and enables nothing.
JobsSettle ==
    \A u \in Tabs :
        /\ Same(job[u], job'[u])
        /\ job'[u].at = "loaded" => job[u].at = "loaded" /\ job'[u].seen = job[u].seen
        /\ job'[u].at \in {"sent", "authed", "loaded"} => job[u].at \in {"sent", "authed", "loaded"}

\* ... and of the second factor of the row.
FactorStays ==
    row' # None =>
        \/ row'.secret = None /\ row'.backup = {}
        \/ row # None /\ row'.secret = row.secret /\ row'.backup = row.backup /\ row'.last = row.last

(* Such a step keeps the codes.                                            *)
LEMMA CodesStay ==
    ASSUME TInv, CodeInv, JobsSettle, FactorStays, UNCHANGED <<spent, raced, minted>>
    PROVE  CodeInv'
<1>1. ASSUME NEW u \in Tabs
      PROVE  /\ job'[u].kind = job[u].kind /\ job'[u].code = job[u].code
             /\ Verifies(u)' => Verifies(u) /\ job'[u].seen = job[u].seen
             /\ Enabling(u)' => Enabling(u)
  BY DEF JobsSettle, Same, Verifies, Enabling
<1>2. SecretsAreMinted'
  <2>1. SecretsAreMinted
    BY DEF CodeInv
  <2>2. row' # None => (row'.secret # None => row'.secret < minted) /\ \A c \in row'.backup : c.secret < minted
    BY <2>1 DEF SecretsAreMinted, FactorStays
  <2> QED
    BY <1>1, <2>1, <2>2 DEF SecretsAreMinted
<1>3. EnabledSecretsAreFresh'
  <2>1. ASSUME NEW s, SecretIsFresh(s) PROVE SecretIsFresh(s)'
    <3>1. row' # None => (row'.secret # None => row'.secret # s) /\ \A c \in row'.backup : c.secret # s
      BY <2>1 DEF SecretIsFresh, FactorStays
    <3> QED
      BY <1>1, <2>1, <3>1 DEF SecretIsFresh
  <2> SUFFICES ASSUME NEW t \in Tabs, Enabling(t)'
               PROVE  /\ SecretIsFresh(job[t].code.secret)'
                      /\ \A u \in Tabs \ {t} : Enabling(u)' => job'[u].code.secret # job'[t].code.secret
    BY DEF EnabledSecretsAreFresh
  <2>2. Enabling(t) /\ job'[t].code = job[t].code
    BY <1>1
  <2>3. PICK s : s = job[t].code.secret
    OBVIOUS
  <2>4. SecretIsFresh(s) /\ \A u \in Tabs \ {t} : Enabling(u) => job[u].code.secret # s
    BY <2>2, <2>3 DEF CodeInv, EnabledSecretsAreFresh
  <2>5. SecretIsFresh(s)'
    BY <2>1, <2>4
  <2> QED
    BY <1>1, <2>2, <2>3, <2>4, <2>5
<1>4. SpentCounted'
  BY DEF CodeInv, SpentCounted
<1>5. Unraced'
  <2> SUFFICES ASSUME ~ raced
               PROVE  /\ \A t, u \in Tabs : Verifies(t)' /\ Verifies(u)' => t = u
                      /\ \A t \in Tabs : Verifies(t)' => VerifiedIsUnspent(t)'
                      /\ RowRefusesSpent'
                      /\ \A c \in DOMAIN spent' : spent'[c] <= 1
    BY DEF Unraced
  <2>1. \A t \in Tabs : Verifies(t)' => VerifiedIsUnspent(t)'
    BY <1>1 DEF CodeInv, VerifiedIsUnspent, FactorStays
  <2>2. RowRefusesSpent'
    BY DEF CodeInv, RowRefusesSpent, FactorStays
  <2> QED
    BY <1>1, <2>1, <2>2 DEF CodeInv
<1> QED
  BY <1>2, <1>3, <1>4, <1>5 DEF CodeInv, SpentCounted, Unraced

(* A code in the user's hand is of the secret of the row.                  *)
LEMMA InHandFacts ==
    ASSUME NEW c \in CodesInHand, c # None
    PROVE  row # None /\ row.secret # None /\ c.secret = row.secret
BY DEF CodesInHand, TotpCode, BackupCode

(* A step of a tab without the server: a fresh secret is minted, a code is taken from the hand. *)
LEMMA SourcesCodes == ASSUME TInv, CodeInv, NEW t \in Tabs, Sources(t) PROVE CodeInv'
<1>1. UNCHANGED <<row, spent, raced>> /\ minted' \in {minted, minted + 1} /\ minted \in Nat
  BY CodeTypes DEF Sources, server
<1>2. /\ \A u \in Tabs \ {t} : job'[u] = job[u]
      /\ Verifies(t)' => /\ Verifies(t) /\ job'[t].kind = job[t].kind
                         /\ job'[t].seen = job[t].seen /\ job'[t].code = job[t].code
  BY DEF Sources, Verifies
<1>3. \A u \in Tabs : Verifies(u)' => Verifies(u) /\ job'[u].seen = job[u].seen /\ job'[u].code = job[u].code
  BY <1>2 DEF Verifies
<1>4. SecretsAreMinted
  BY DEF CodeInv
<1>5. /\ row # None /\ row.secret # None => row.secret \in Nat /\ row.secret < minted
      /\ \A c \in DOMAIN spent : c.secret \in Nat /\ c.secret < minted
      /\ row # None => \A c \in row.backup : c.secret \in Nat /\ c.secret < minted
      /\ \A u \in Tabs :
            /\ job[u].kind \in {"login", "disable"} /\ job[u].code # None =>
                  job[u].code.secret \in Nat /\ job[u].code.secret < minted
            /\ job[u].kind = "enable" => job[u].code.secret \in Nat /\ job[u].code.secret < minted
            /\ Verifies(u) => \A c \in job[u].seen.backup : c.secret \in Nat /\ c.secret < minted
  BY <1>4, CodeTypes DEF SecretsAreMinted
<1>6. job'[t].kind \in {"login", "disable"} =>
          \/ job[t].kind \in {"login", "disable"} /\ job'[t].code = job[t].code
          \/ job'[t].code # None => row # None /\ row.secret # None /\ job'[t].code.secret = row.secret
  BY InHandFacts DEF Sources
<1>7. job'[t].kind = "enable" =>
          \/ job[t].kind = "enable" /\ job'[t].code = job[t].code /\ (Enabling(t)' => Enabling(t))
          \/ job'[t].code.secret = minted /\ minted' = minted + 1
  BY DEF Sources
<1>8. SecretsAreMinted'
  <2>1. ASSUME NEW n \in Nat, n < minted PROVE n < minted'
    BY <1>1, <2>1
  <2>2. minted' = minted + 1 => minted < minted'
    BY <1>1
  <2>3. ASSUME NEW u \in Tabs
        PROVE  /\ job'[u].kind \in {"login", "disable"} /\ job'[u].code # None => job'[u].code.secret < minted'
               /\ job'[u].kind = "enable" => job'[u].code.secret < minted'
               /\ Verifies(u)' => \A c \in job'[u].seen.backup : c.secret < minted'
    <3>1. Verifies(u)' => \A c \in job'[u].seen.backup : c.secret < minted'
      BY <1>3, <1>5, <2>1
    <3>2. CASE u # t
      BY <1>2, <1>5, <2>1, <3>1, <3>2
    <3>3. CASE u = t
      <4>1. job'[t].kind \in {"login", "disable"} /\ job'[t].code # None => job'[t].code.secret < minted'
        BY <1>5, <1>6, <2>1
      <4>2. job'[t].kind = "enable" => job'[t].code.secret < minted'
        BY <1>5, <1>7, <2>1, <2>2
      <4> QED
        BY <3>1, <3>3, <4>1, <4>2
    <3> QED
      BY <3>2, <3>3
  <2> QED
    BY <1>1, <1>5, <2>1, <2>3 DEF SecretsAreMinted
<1>9. EnabledSecretsAreFresh'
  <2>1. ASSUME NEW s, SecretIsFresh(s) PROVE SecretIsFresh(s)'
    <3>1. ASSUME NEW u \in Tabs
          PROVE  /\ job'[u].kind \in {"login", "disable"} /\ job'[u].code # None => job'[u].code.secret # s
                 /\ Verifies(u)' => \A c \in job'[u].seen.backup : c.secret # s
      <4>1. CASE u # t
        BY <1>2, <1>3, <2>1, <4>1 DEF SecretIsFresh
      <4>2. CASE u = t
        BY <1>3, <1>6, <2>1, <4>2 DEF SecretIsFresh
      <4> QED
        BY <4>1, <4>2
    <3> QED
      BY <1>1, <2>1, <3>1 DEF SecretIsFresh
  <2>2. SecretIsFresh(minted)
    BY <1>1, <1>5 DEF SecretIsFresh
  <2>3. \A u \in Tabs \ {t} : Enabling(u)' => Enabling(u) /\ job'[u].code = job[u].code
    BY <1>2 DEF Enabling
  <2>4. \A u \in Tabs : Enabling(u) => job[u].code.secret # minted /\ job[u].kind = "enable"
    BY <1>1, <1>5 DEF Enabling
  <2>5. Enabling(t)' => \/ Enabling(t) /\ job'[t].code = job[t].code
                        \/ job'[t].code.secret = minted
    BY <1>7 DEF Enabling
  <2> SUFFICES ASSUME NEW v \in Tabs, Enabling(v)'
               PROVE  /\ SecretIsFresh(job[v].code.secret)'
                      /\ \A u \in Tabs \ {v} : Enabling(u)' => job'[u].code.secret # job'[v].code.secret
    BY DEF EnabledSecretsAreFresh
  <2>6. \A u, w \in Tabs : Enabling(u) /\ Enabling(w) /\ u # w => job[u].code.secret # job[w].code.secret
    BY DEF CodeInv, EnabledSecretsAreFresh
  <2>7. \A u \in Tabs : Enabling(u) => SecretIsFresh(job[u].code.secret)
    BY DEF CodeInv, EnabledSecretsAreFresh
  <2>8. PICK s : s = job'[v].code.secret
    OBVIOUS
  <2>9. SecretIsFresh(s)
    BY <2>2, <2>3, <2>5, <2>7, <2>8
  <2>10. SecretIsFresh(s)'
    BY <2>1, <2>9
  <2>11. \A u \in Tabs \ {v} : Enabling(u)' => job'[u].code.secret # job'[v].code.secret
    BY <2>3, <2>4, <2>5, <2>6
  <2> QED
    BY <2>8, <2>10, <2>11
<1>10. SpentCounted'
  BY <1>1 DEF CodeInv, SpentCounted
<1>11. Unraced'
  <2> SUFFICES ASSUME ~ raced
               PROVE  /\ \A u, w \in Tabs : Verifies(u)' /\ Verifies(w)' => u = w
                      /\ \A u \in Tabs : Verifies(u)' => VerifiedIsUnspent(u)'
                      /\ RowRefusesSpent'
                      /\ \A c \in DOMAIN spent' : spent'[c] <= 1
    BY <1>1 DEF Unraced
  <2>1. \A u \in Tabs : Verifies(u)' => VerifiedIsUnspent(u)'
    BY <1>1, <1>3 DEF CodeInv, VerifiedIsUnspent
  <2> QED
    BY <1>1, <1>3, <2>1 DEF CodeInv, RowRefusesSpent
<1> QED
  BY <1>8, <1>9, <1>10, <1>11 DEF CodeInv, SpentCounted, Unraced

(* The verification of a code: it opens what the row holds now.            *)
LEMMA LoadCodes ==
    ASSUME TInv, CodeInv, NEW t \in Tabs, Admits(row, job[t]), job[t].at \in {"sent", "authed"},
           job' = [job EXCEPT ![t].at = "loaded", ![t].seen = row],
           raced' = (raced \/ (job[t].kind \in {"login", "disable"} /\ job[t].code # None /\ Verifying(t))),
           UNCHANGED <<row, clock, spent, minted>>
    PROVE  CodeInv'
<1>1. /\ \A u \in Tabs \ {t} : job'[u] = job[u]
      /\ Same(job[t], job'[t]) /\ job'[t].at = "loaded" /\ job'[t].seen = row
  BY LoadedFacts DEF TInv
<1>2. \A u \in Tabs : job'[u].kind = job[u].kind /\ job'[u].code = job[u].code
  BY <1>1 DEF Same
<1>3. \A u \in Tabs \ {t} : Verifies(u)' => Verifies(u) /\ job'[u].seen = job[u].seen
  BY <1>1 DEF Verifies
<1>4. \A u \in Tabs : Enabling(u)' => Enabling(u)
  BY <1>1, <1>2 DEF Enabling
<1>5. job[t].kind \in {"login", "disable"} => row # None /\ (row.secret # None => SecondFactorOpens(row, job[t].code))
  <2>1. CASE job[t].kind = "login"
    BY <2>1 DEF Admits, PasswordKinds
  <2>2. CASE job[t].kind = "disable"
    BY <2>2 DEF Admits, PasswordKinds
  <2> QED
    BY <2>1, <2>2
<1>6. Verifies(t)' => /\ job[t].kind \in {"login", "disable"} /\ job[t].code # None /\ row # None
                      /\ row.secret # None => SecondFactorOpens(row, job[t].code)
  BY <1>2, <1>5 DEF Verifies
<1>7. SecretsAreMinted'
  <2>1. Verifies(t)' => \A c \in job'[t].seen.backup : c.secret < minted
    BY <1>1, <1>6 DEF CodeInv, SecretsAreMinted
  <2> QED
    BY <1>2, <1>3, <2>1 DEF CodeInv, SecretsAreMinted
<1>8. EnabledSecretsAreFresh'
  <2>1. ASSUME NEW s, SecretIsFresh(s) PROVE SecretIsFresh(s)'
    <3>1. Verifies(t)' => \A c \in job'[t].seen.backup : c.secret # s
      BY <1>1, <1>6, <2>1 DEF SecretIsFresh
    <3> QED
      BY <1>2, <1>3, <2>1, <3>1 DEF SecretIsFresh
  <2> SUFFICES ASSUME NEW v \in Tabs, Enabling(v)'
               PROVE  /\ SecretIsFresh(job[v].code.secret)'
                      /\ \A u \in Tabs \ {v} : Enabling(u)' => job'[u].code.secret # job'[v].code.secret
    BY DEF EnabledSecretsAreFresh
  <2>2. PICK s : s = job'[v].code.secret
    OBVIOUS
  <2>3. SecretIsFresh(s) /\ \A u \in Tabs \ {v} : Enabling(u) => job[u].code.secret # s
    <3>1. Enabling(v) /\ s = job[v].code.secret
      BY <1>2, <1>4, <2>2
    <3> QED
      BY <3>1, Zenon DEF CodeInv, EnabledSecretsAreFresh
  <2>4. SecretIsFresh(s)'
    BY <2>1, <2>3
  <2> QED
    BY <1>2, <1>4, <2>2, <2>3, <2>4
<1>9. SpentCounted'
  BY DEF CodeInv, SpentCounted
<1>10. Unraced'
  <2> SUFFICES ASSUME ~ raced, ~ (job[t].kind \in {"login", "disable"} /\ job[t].code # None /\ Verifying(t))
               PROVE  /\ \A u, w \in Tabs : Verifies(u)' /\ Verifies(w)' => u = w
                      /\ \A u \in Tabs : Verifies(u)' => VerifiedIsUnspent(u)'
                      /\ RowRefusesSpent'
                      /\ \A c \in DOMAIN spent' : spent'[c] <= 1
    BY DEF Unraced
  <2>1. Verifies(t)' => \A u \in Tabs \ {t} : ~ Verifies(u)
    BY <1>6 DEF Verifying, Verifies
  <2>2. \A u, w \in Tabs : Verifies(u) /\ Verifies(w) => u = w
    BY DEF CodeInv
  <2>3. \A u, w \in Tabs : Verifies(u)' /\ Verifies(w)' => u = w
    BY <1>3, <2>1, <2>2
  <2>4. ASSUME NEW u \in Tabs \ {t}, Verifies(u)' PROVE VerifiedIsUnspent(u)'
    BY <1>1, <1>3, <2>4 DEF CodeInv, VerifiedIsUnspent
  <2>5. ASSUME Verifies(t)' PROVE VerifiedIsUnspent(t)'
    <3> SUFFICES ASSUME row.secret # None
                 PROVE  LET c == job[t].code
                        IN  /\ c \notin DOMAIN spent
                            /\ \A x \in DOMAIN spent : x.backup # None => x \notin row.backup
                            /\ c.backup = None /\ row # None /\ row.secret # None =>
                                 IF row.secret = c.secret THEN row.last < c.step
                                 ELSE \A x \in DOMAIN spent : x.backup = None => x.secret # row.secret
      BY <1>1, <1>2 DEF VerifiedIsUnspent
    <3>1. RowRefusesSpent /\ row # None /\ SecondFactorOpens(row, job[t].code)
      BY <1>6, <2>5 DEF CodeInv
    <3>2. job[t].code.step \in Nat /\ row.last \in Nat
      BY <1>6, <2>5, CodeTypes
    <3>3. \A x \in DOMAIN spent : x.backup # None => x \notin row.backup
      BY <3>1 DEF RowRefusesSpent
    <3>4. CASE TotpOpens(row, job[t].code)
      <4>1. job[t].code.backup = None /\ job[t].code.secret = row.secret /\ row.last < job[t].code.step
        BY <3>2, <3>4 DEF TotpOpens
      <4>2. job[t].code \notin DOMAIN spent
        BY <3>1, <3>2, <4>1 DEF RowRefusesSpent
      <4> QED
        BY <3>3, <4>1, <4>2
    <3>5. CASE BackupOpens(row, job[t].code)
      BY <3>3, <3>5 DEF BackupOpens
    <3> QED
      BY <3>1, <3>4, <3>5 DEF SecondFactorOpens
  <2>6. \A u \in Tabs : Verifies(u)' => VerifiedIsUnspent(u)'
    BY <2>4, <2>5
  <2> QED
    BY <2>3, <2>6 DEF CodeInv, RowRefusesSpent
<1> QED
  BY <1>7, <1>8, <1>9, <1>10 DEF CodeInv, SpentCounted, Unraced

(* The code that was verified is spent, in the row of now.                 *)
LEMMA SpendCodes ==
    ASSUME TInv, CodeInv, NEW t \in Tabs, Verifies(t), job[t].seen.secret # None,
           Answer(t, TRUE, job[t].tok) \/ Answer(t, TRUE, Token(job[t].seen, job[t].seen.epoch, job[t].pw)),
           Accepted(job[t].code), UNCHANGED <<raced, minted>>,
           \/ row = None /\ row' = None
           \/ row # None /\ row' = SpendCode(row, job[t].seen, job[t].code)
           \/ row # None /\ row' = [row EXCEPT !.secret = None, !.last = 0, !.backup = {}]
    PROVE  CodeInv'
<1>1. /\ \A u \in Tabs \ {t} : job'[u] = job[u]
      /\ Same(job[t], job'[t]) /\ job'[t].at = "answered"
  BY AnswerFacts DEF TInv
<1>2. PICK c : c = job[t].code
  OBVIOUS
<1>3. job[t].kind \in {"login", "disable"} /\ c # None /\ c \in SecondFactor
  BY <1>2, CodeTypes DEF Verifies
<1>4. /\ DOMAIN spent' = DOMAIN spent \cup {c}
      /\ \A x \in DOMAIN spent \ {c} : spent'[x] = spent[x]
      /\ spent'[c] = IF c \in DOMAIN spent THEN spent[c] + 1 ELSE 1
  BY <1>2, <1>3, AcceptedFacts DEF TInv
<1>5. \A u \in Tabs : job'[u].kind = job[u].kind /\ job'[u].code = job[u].code
  BY <1>1 DEF Same
<1>6. \A u \in Tabs : Verifies(u)' => Verifies(u) /\ u # t /\ job'[u].seen = job[u].seen
  BY <1>1 DEF Verifies
<1>7. \A u \in Tabs : Enabling(u)' => Enabling(u)
  BY <1>1 DEF Enabling
<1>8. row' # None =>
          /\ row # None
          /\ \/ row'.secret = None /\ row'.backup = {}
             \/ /\ row'.secret = row.secret
                /\ \/ c.backup = None /\ row'.last = c.step /\ row'.backup = row.backup
                   \/ c.backup # None /\ row'.last = row.last /\ row'.backup = job[t].seen.backup \ {c}
  <2>1. row # None => row \in AccountRow
    BY CodeTypes
  <2>2. CASE row # None /\ row' = SpendCode(row, job[t].seen, job[t].code)
    <3>1. CASE c.backup = None
      BY <1>2, <2>1, <2>2, <3>1, RowKeeps DEF SpendCode
    <3>2. CASE c.backup # None
      BY <1>2, <2>1, <2>2, <3>2, RowKeeps DEF SpendCode
    <3> QED
      BY <3>1, <3>2
  <2>3. CASE row # None /\ row' = [row EXCEPT !.secret = None, !.last = 0, !.backup = {}]
    BY <2>1, <2>3, RowKeeps
  <2> QED
    BY <2>2, <2>3
<1>9. row' # None =>
          /\ row # None
          /\ row'.secret # None => row'.secret = row.secret
          /\ \A x \in row'.backup : x \in row.backup \/ x \in job[t].seen.backup
  BY <1>8
<1>10. SecretsAreMinted'
  <2>1. c.secret < minted
    BY <1>2, <1>3 DEF CodeInv, SecretsAreMinted
  <2>2. row' # None => (row'.secret # None => row'.secret < minted) /\ \A x \in row'.backup : x.secret < minted
    BY <1>9 DEF CodeInv, SecretsAreMinted
  <2> QED
    BY <1>4, <1>5, <1>6, <2>1, <2>2 DEF CodeInv, SecretsAreMinted
<1>11. EnabledSecretsAreFresh'
  <2>1. ASSUME NEW s, SecretIsFresh(s) PROVE SecretIsFresh(s)'
    <3>1. row' # None => (row'.secret # None => row'.secret # s) /\ \A x \in row'.backup : x.secret # s
      BY <1>9, <2>1 DEF SecretIsFresh
    <3>2. c.secret # s
      BY <1>2, <1>3, <2>1 DEF SecretIsFresh
    <3> QED
      BY <1>4, <1>5, <1>6, <2>1, <3>1, <3>2 DEF SecretIsFresh
  <2> SUFFICES ASSUME NEW v \in Tabs, Enabling(v)'
               PROVE  /\ SecretIsFresh(job[v].code.secret)'
                      /\ \A u \in Tabs \ {v} : Enabling(u)' => job'[u].code.secret # job'[v].code.secret
    BY DEF EnabledSecretsAreFresh
  <2>2. PICK s : s = job'[v].code.secret
    OBVIOUS
  <2>3. SecretIsFresh(s) /\ \A u \in Tabs \ {v} : Enabling(u) => job[u].code.secret # s
    BY <1>5, <1>7, <2>2 DEF CodeInv, EnabledSecretsAreFresh
  <2>4. SecretIsFresh(s)'
    BY <2>1, <2>3
  <2> QED
    BY <1>5, <1>7, <2>2, <2>3, <2>4
<1>12. SpentCounted'
  BY <1>4, CodeTypes DEF CodeInv, SpentCounted
<1>13. Unraced'
  <2> SUFFICES ASSUME ~ raced
               PROVE  /\ \A u, w \in Tabs : Verifies(u)' /\ Verifies(w)' => u = w
                      /\ \A u \in Tabs : Verifies(u)' => VerifiedIsUnspent(u)'
                      /\ RowRefusesSpent'
                      /\ \A x \in DOMAIN spent' : spent'[x] <= 1
    BY DEF Unraced
  <2>1. \A u \in Tabs : ~ Verifies(u)'
    BY <1>6 DEF CodeInv
  <2>2. VerifiedIsUnspent(t) /\ RowRefusesSpent /\ \A x \in DOMAIN spent : spent[x] <= 1
    BY DEF CodeInv
  <2>3. c \notin DOMAIN spent
    BY <1>2, <2>2 DEF VerifiedIsUnspent
  <2>4. \A x \in DOMAIN spent' : spent'[x] <= 1
    BY <1>4, <2>2, <2>3
  <2>5. \A x \in DOMAIN spent' : x.step \in Nat
    BY <1>3, <1>4, CodeTypes DEF SecondFactor
  <2>6. ASSUME row' # None, NEW x \in DOMAIN spent', x.backup # None PROVE x \notin row'.backup
    <3>1. CASE c.backup = None
      BY <1>4, <1>8, <2>2, <2>6, <3>1 DEF RowRefusesSpent
    <3>2. CASE c.backup # None
      <4>1. \A y \in DOMAIN spent : y.backup # None => y \notin job[t].seen.backup
        BY <2>2 DEF VerifiedIsUnspent
      <4> QED
        BY <1>4, <1>8, <2>6, <3>2, <4>1
    <3> QED
      BY <3>1, <3>2
  <2>7. ASSUME row' # None, NEW x \in DOMAIN spent', x.backup = None, row'.secret # None, x.secret = row'.secret
        PROVE  x.step <= row'.last
    <3>1. row # None /\ row.secret # None /\ x.secret = row.secret /\ row.last \in Nat
      BY <1>9, <2>7, CodeTypes
    <3>2. x \in DOMAIN spent => x.step <= row.last
      BY <2>2, <2>7, <3>1 DEF RowRefusesSpent
    <3>3. CASE c.backup = None
      <4>1. row'.last = c.step
        BY <1>8, <2>7, <3>3
      <4>2. x = c => x.step <= row'.last
        BY <2>5, <4>1
      <4>3. IF row.secret = c.secret THEN row.last < c.step
            ELSE \A y \in DOMAIN spent : y.backup = None => y.secret # row.secret
        BY <1>2, <2>2, <3>1, <3>3 DEF VerifiedIsUnspent
      <4>4. CASE x \in DOMAIN spent
        <5>1. row.last < c.step
          BY <2>7, <3>1, <4>3, <4>4
        <5>2. c.step \in Nat /\ x.step \in Nat
          BY <1>4, <2>5
        <5> QED
          BY <3>1, <3>2, <4>1, <4>4, <5>1, <5>2
      <4> QED
        BY <1>4, <4>2, <4>4
    <3>4. CASE c.backup # None
      <4>1. row'.last = row.last
        BY <1>8, <2>7, <3>4
      <4> QED
        BY <1>4, <2>7, <3>2, <3>4, <4>1
    <3> QED
      BY <3>3, <3>4
  <2>8. RowRefusesSpent'
    BY <2>6, <2>7 DEF RowRefusesSpent
  <2> QED
    BY <2>1, <2>4, <2>8
<1> QED
  BY <1>10, <1>11, <1>12, <1>13 DEF CodeInv, SpentCounted, Unraced

(* A secret is enabled: nobody has used it before.                         *)
LEMMA EnableCodes ==
    ASSUME TInv, CodeInv, NEW t \in Tabs, Enabling(t), NEW ok, Answer(t, ok, job[t].tok),
           row # None,
           row' = [row EXCEPT !.secret = job[t].code.secret, !.last = 0,
                              !.backup = {BackupCode(job[t].code.secret, b) : b \in BackupCodes}],
           UNCHANGED <<spent, raced, minted>>
    PROVE  CodeInv'
<1>1. /\ \A u \in Tabs \ {t} : job'[u] = job[u]
      /\ Same(job[t], job'[t]) /\ job'[t].at = "answered"
  BY AnswerFacts DEF TInv
<1>2. PICK s : s = job[t].code.secret
  OBVIOUS
<1>3. row'.secret = s /\ \A c \in row'.backup : c.secret = s
  <2>1. row \in AccountRow
    BY CodeTypes
  <2>2. row'.secret = s /\ row'.backup = {BackupCode(s, b) : b \in BackupCodes}
    BY <1>2, <2>1, RowKeeps
  <2> QED
    BY <2>2 DEF BackupCode
<1>4. \A u \in Tabs : job'[u].kind = job[u].kind /\ job'[u].code = job[u].code
  BY <1>1 DEF Same
<1>5. \A u \in Tabs : Verifies(u)' => Verifies(u) /\ job'[u].seen = job[u].seen
  BY <1>1 DEF Verifies
<1>6. \A u \in Tabs : Enabling(u)' => Enabling(u) /\ u # t
  BY <1>1 DEF Enabling
<1>7. SecretIsFresh(s) /\ \A u \in Tabs \ {t} : Enabling(u) => job[u].code.secret # s
  BY <1>2 DEF CodeInv, EnabledSecretsAreFresh
<1>8. SecretsAreMinted'
  <2>1. s < minted
    BY <1>2 DEF CodeInv, SecretsAreMinted, Enabling
  <2> QED
    BY <1>3, <1>4, <1>5, <2>1 DEF CodeInv, SecretsAreMinted
<1>9. EnabledSecretsAreFresh'
  <2>1. ASSUME NEW q, q # s, SecretIsFresh(q) PROVE SecretIsFresh(q)'
    BY <1>3, <1>4, <1>5, <2>1 DEF SecretIsFresh
  <2> SUFFICES ASSUME NEW v \in Tabs, Enabling(v)'
               PROVE  /\ SecretIsFresh(job[v].code.secret)'
                      /\ \A u \in Tabs \ {v} : Enabling(u)' => job'[u].code.secret # job'[v].code.secret
    BY DEF EnabledSecretsAreFresh
  <2>2. PICK q : q = job'[v].code.secret
    OBVIOUS
  <2>3. q # s /\ SecretIsFresh(q) /\ \A u \in Tabs \ {v} : Enabling(u) => job[u].code.secret # q
    BY <1>4, <1>6, <1>7, <2>2 DEF CodeInv, EnabledSecretsAreFresh
  <2>4. SecretIsFresh(q)'
    BY <2>1, <2>3
  <2> QED
    BY <1>4, <1>6, <2>2, <2>3, <2>4
<1>10. SpentCounted'
  BY DEF CodeInv, SpentCounted
<1>11. Unraced'
  <2> SUFFICES ASSUME ~ raced
               PROVE  /\ \A u, w \in Tabs : Verifies(u)' /\ Verifies(w)' => u = w
                      /\ \A u \in Tabs : Verifies(u)' => VerifiedIsUnspent(u)'
                      /\ RowRefusesSpent'
                      /\ \A x \in DOMAIN spent' : spent'[x] <= 1
    BY DEF Unraced
  <2>1. \A x \in DOMAIN spent : x.secret # s
    BY <1>7 DEF SecretIsFresh
  <2>2. \A u \in Tabs : Verifies(u) => job[u].code.secret # s
    BY <1>7 DEF SecretIsFresh, Verifies
  <2>3. ASSUME NEW u \in Tabs, Verifies(u)' PROVE VerifiedIsUnspent(u)'
    <3>1. Verifies(u) /\ VerifiedIsUnspent(u) /\ job'[u].code = job[u].code /\ job'[u].seen = job[u].seen
      BY <1>4, <1>5, <2>3 DEF CodeInv
    <3> QED
      BY <1>3, <2>1, <2>2, <3>1 DEF VerifiedIsUnspent
  <2>4. RowRefusesSpent'
    BY <1>3, <2>1 DEF RowRefusesSpent
  <2> QED
    BY <1>5, <2>3, <2>4 DEF CodeInv
<1> QED
  BY <1>8, <1>9, <1>10, <1>11 DEF CodeInv, SpentCounted, Unraced

(* An answer is a step that settles a request.                             *)
LEMMA AnswerSettles ==
    ASSUME TInv, NEW t \in Tabs, NEW ok, NEW tok, Answer(t, ok, tok) PROVE JobsSettle
<1>1. /\ \A u \in Tabs \ {t} : job'[u] = job[u]
      /\ Same(job[t], job'[t]) /\ job'[t].at = "answered"
  BY AnswerFacts DEF TInv
<1> QED
  BY <1>1 DEF JobsSettle, Same

(* The codes that the handlers verify, spend and enable.                   *)
LEMMA ServeCodes ==
    ASSUME TInv, CodeInv, UNCHANGED minted, NEW t \in Tabs, Serve(t) PROVE CodeInv'
<1>1. JobsOK /\ JobOK(job[t])
  BY DEF TInv, JobsOK
<1>2. row # None => row \in AccountRow
  BY CodeTypes
<1>3. ASSUME NEW ok, NEW tok, Answer(t, ok, tok), UNCHANGED <<row, spent, raced>> PROVE CodeInv'
  <2>1. FactorStays
    BY <1>3 DEF FactorStays
  <2> QED
    BY <1>3, <2>1, AnswerSettles, CodesStay
<1>4. ASSUME NEW ok, NEW tok, Answer(t, ok, tok), UNCHANGED <<spent, raced>>, FactorStays PROVE CodeInv'
  BY <1>4, AnswerSettles, CodesStay
<1>5. CASE Authenticate(t)
  <2>1. UNCHANGED <<row, spent, raced>> /\ job[t].at = "sent"
    BY <1>5 DEF Authenticate, server
  <2>2. CASE Answer(t, FALSE, None)
    BY <1>3, <2>1, <2>2
  <2>3. CASE job' = [job EXCEPT ![t].at = "authed"]
    <3>1. /\ \A u \in Tabs \ {t} : job'[u] = job[u]
          /\ Same(job[t], job'[t]) /\ job'[t].at = "authed"
      BY <1>1, <2>3, SetAtFacts
    <3>2. JobsSettle
      BY <2>1, <3>1 DEF JobsSettle, Same
    <3>3. FactorStays
      BY <2>1 DEF FactorStays
    <3> QED
      BY <2>1, <3>2, <3>3, CodesStay
  <2> QED
    BY <1>5, <2>2, <2>3 DEF Authenticate
<1>6. CASE Load(t)
  <2>1. CASE Answer(t, FALSE, None) /\ UNCHANGED raced
    <3>1. UNCHANGED <<row, spent, raced>>
      BY <1>6, <2>1 DEF Load
    <3> QED
      BY <1>3, <2>1, <3>1
  <2>2. CASE /\ Admits(row, job[t])
             /\ job' = [job EXCEPT ![t].at = "loaded", ![t].seen = row]
             /\ raced' = (raced \/ (job[t].kind \in {"login", "disable"} /\ job[t].code # None /\ Verifying(t)))
    <3>1. UNCHANGED <<row, clock, spent, minted>> /\ job[t].at \in {"sent", "authed"}
      BY <1>6 DEF Load
    <3> QED
      BY <2>2, <3>1, LoadCodes
  <2> QED
    BY <1>6, <2>1, <2>2 DEF Load
<1>7. CASE Me(t)
  <2>1. UNCHANGED <<row, spent, raced>> /\ \E ok, tok : Answer(t, ok, tok)
    BY <1>7 DEF Me, server
  <2> QED
    BY <1>3, <2>1
<1>8. CASE Signup(t)
  <2>1. CASE row = None
    <3>1. /\ row' = FreshRow(job[t].pw) /\ UNCHANGED <<spent, raced>>
          /\ Answer(t, TRUE, Token(FreshRow(job[t].pw), 0, job[t].pw))
      BY <1>8, <2>1 DEF Signup
    <3>2. row'.secret = None /\ row'.backup = {}
      BY <3>1 DEF FreshRow
    <3>3. FactorStays
      BY <3>2 DEF FactorStays
    <3> QED
      BY <1>4, <3>1, <3>3
  <2>2. CASE row # None
    <3>1. Answer(t, FALSE, None) /\ UNCHANGED <<row, spent, raced>>
      BY <1>8, <2>2 DEF Signup
    <3> QED
      BY <1>3, <3>1
  <2> QED
    BY <2>1, <2>2
<1>9. CASE Login(t)
  <2>1. /\ Answer(t, TRUE, Token(job[t].seen, job[t].seen.epoch, job[t].pw)) /\ UNCHANGED raced
        /\ job[t].at = "loaded" /\ job[t].kind = "login"
    BY <1>9 DEF Login
  <2>2. CASE job[t].seen.secret # None
    <3>1. Verifies(t)
      BY <1>1, <2>1, <2>2 DEF JobOK, Verifies
    <3>2. /\ Accepted(job[t].code)
          /\ row' = IF row # None THEN SpendCode(row, job[t].seen, job[t].code) ELSE row
      BY <1>9, <2>2 DEF Login
    <3>3. \/ row = None /\ row' = None
          \/ row # None /\ row' = SpendCode(row, job[t].seen, job[t].code)
      BY <3>2
    <3> QED
      BY <2>1, <2>2, <3>1, <3>2, <3>3, SpendCodes
  <2>3. CASE job[t].seen.secret = None
    <3>1. UNCHANGED <<row, spent>>
      BY <1>9, <2>3 DEF Login
    <3> QED
      BY <1>3, <2>1, <3>1
  <2> QED
    BY <2>2, <2>3
<1>10. CASE TwoFactorDisable(t)
  <2>1. /\ Answer(t, TRUE, job[t].tok) /\ UNCHANGED raced
        /\ job[t].at = "loaded" /\ job[t].kind = "disable"
    BY <1>10 DEF TwoFactorDisable
  <2>2. CASE job[t].seen.secret # None
    <3>1. Verifies(t)
      BY <1>1, <2>1, <2>2 DEF JobOK, Verifies
    <3>2. /\ Accepted(job[t].code)
          /\ row' = IF row = None THEN row ELSE [row EXCEPT !.secret = None, !.last = 0, !.backup = {}]
      BY <1>10, <2>2 DEF TwoFactorDisable
    <3>3. \/ row = None /\ row' = None
          \/ row # None /\ row' = [row EXCEPT !.secret = None, !.last = 0, !.backup = {}]
      BY <3>2
    <3> QED
      BY <2>1, <2>2, <3>1, <3>2, <3>3, SpendCodes
  <2>3. CASE job[t].seen.secret = None
    <3>1. UNCHANGED <<row, spent>>
      BY <1>10, <2>3 DEF TwoFactorDisable
    <3> QED
      BY <1>3, <2>1, <3>1
  <2> QED
    BY <2>2, <2>3
<1>11. CASE TwoFactorEnable(t)
  <2>1. UNCHANGED <<spent, raced>> /\ Enabling(t)
    BY <1>11 DEF TwoFactorEnable, Enabling
  <2>2. CASE UNCHANGED row
    <3>1. \E ok, tok : Answer(t, ok, tok)
      BY <1>11 DEF TwoFactorEnable
    <3> QED
      BY <1>3, <2>1, <2>2, <3>1
  <2>3. CASE /\ row # None
             /\ row' = [row EXCEPT !.secret = job[t].code.secret, !.last = 0,
                                   !.backup = {BackupCode(job[t].code.secret, b) : b \in BackupCodes}]
             /\ Answer(t, TRUE, job[t].tok)
    BY <2>1, <2>3, EnableCodes
  <2> QED
    BY <1>11, <2>2, <2>3 DEF TwoFactorEnable
<1>12. CASE ChangePassword(t) \/ RecoveryReset(t)
  <2>1. UpdatePassword(job[t].new) /\ UNCHANGED <<spent, raced>> /\ \E ok, tok : Answer(t, ok, tok)
    BY <1>12 DEF ChangePassword, RecoveryReset
  <2>2. FactorStays
    <3>1. row = None => row' = row
      BY <2>1 DEF UpdatePassword
    <3>2. CASE row # None
      <4>1. PICK pw : pw = job[t].new
        OBVIOUS
      <4>2. row' = [row EXCEPT !.pw = pw, !.epoch = @ + 1]
        BY <2>1, <3>2, <4>1 DEF UpdatePassword
      <4>3. row'.secret = row.secret /\ row'.last = row.last /\ row'.backup = row.backup
        BY <1>2, <3>2, <4>2, RowKeeps
      <4> QED
        BY <3>2, <4>3 DEF FactorStays
    <3> QED
      BY <3>1, <3>2 DEF FactorStays
  <2> QED
    BY <1>4, <2>1, <2>2
<1>13. CASE LogoutAll(t)
  <2>1. row' = (IF row = None THEN row ELSE [row EXCEPT !.epoch = @ + 1]) /\ UNCHANGED <<spent, raced>>
        /\ Answer(t, TRUE, None)
    BY <1>13 DEF LogoutAll
  <2>2. FactorStays
    BY <1>2, <2>1, RowKeeps DEF FactorStays
  <2> QED
    BY <1>4, <2>1, <2>2
<1>14. CASE RecoveryEnroll(t)
  <2>1. row' = (IF row = None THEN row ELSE [row EXCEPT !.recovery = job[t].code]) /\ UNCHANGED <<spent, raced>>
        /\ Answer(t, TRUE, job[t].tok)
    BY <1>14 DEF RecoveryEnroll
  <2>2. FactorStays
    BY <1>2, <2>1, RowKeeps DEF FactorStays
  <2> QED
    BY <1>4, <2>1, <2>2
<1>15. CASE DeleteAccount(t)
  <2>1. row' = None /\ UNCHANGED <<spent, raced>> /\ Answer(t, TRUE, None)
    BY <1>15 DEF DeleteAccount
  <2>2. FactorStays
    BY <2>1 DEF FactorStays
  <2> QED
    BY <1>4, <2>1, <2>2
<1>16. CASE AcceptTerms(t)
  <2>1. row' = (IF row = None THEN row ELSE [row EXCEPT !.terms = TRUE]) /\ UNCHANGED <<spent, raced>>
        /\ Answer(t, TRUE, job[t].tok)
    BY <1>16 DEF AcceptTerms
  <2>2. FactorStays
    BY <1>2, <2>1, RowKeeps DEF FactorStays
  <2> QED
    BY <1>4, <2>1, <2>2
<1>17. CASE PublishKeys(t)
  <2>1. row' = (IF row = None THEN row ELSE [row EXCEPT !.identity = job[t].code]) /\ UNCHANGED <<spent, raced>>
        /\ Answer(t, TRUE, job[t].tok)
    BY <1>17 DEF PublishKeys
  <2>2. FactorStays
    BY <1>2, <2>1, RowKeeps DEF FactorStays
  <2> QED
    BY <1>4, <2>1, <2>2
<1> QED
  BY <1>5, <1>6, <1>7, <1>8, <1>9, <1>10, <1>11, <1>12, <1>13, <1>14, <1>15, <1>16, <1>17 DEF Serve

(* Nothing was spent when the run begins.                                  *)
LEMMA InitCodes == Init => CodeInv
<1> SUFFICES ASSUME Init PROVE CodeInv
  OBVIOUS
<1>1. DOMAIN spent = {}
  BY DEF Init, InitServer
<1>2. \A t \in Tabs : job[t].kind = "idle" /\ job[t].at = "idle"
  BY DEF Init, Idle
<1>3. row # None => row.secret = None /\ row.backup = {}
  BY DEF Init, InitServer, FreshRow
<1>4. \A t \in Tabs : ~ Verifies(t) /\ ~ Enabling(t)
  BY <1>2 DEF Verifies, Enabling
<1> QED
  BY <1>1, <1>2, <1>3, <1>4 DEF CodeInv, SecretsAreMinted, EnabledSecretsAreFresh, RowRefusesSpent

LEMMA StepCodes == TInv /\ CodeInv /\ [Next]_vars => CodeInv'
<1> SUFFICES ASSUME TInv, CodeInv, [Next]_vars PROVE CodeInv'
  OBVIOUS
<1>1. ASSUME NEW t \in Tabs, Work(t) PROVE CodeInv'
  <2>1. Serve(t) /\ UNCHANGED minted
    BY <1>1 DEF Work
  <2> QED
    BY <2>1, ServeCodes
<1>2. ASSUME UNCHANGED <<job, spent, raced, minted>>, FactorStays PROVE CodeInv'
  <2>1. JobsSettle
    BY <1>2 DEF JobsSettle, Same
  <2> QED
    BY <1>2, <2>1, CodesStay
<1>3. CASE Terminate /\ UNCHANGED <<disk, tabs, paper, minted, limits, causes>>
  <2>1. row # None /\ row' = [row EXCEPT !.disabled = TRUE] /\ row \in AccountRow
    BY <1>3, CodeTypes DEF Terminate
  <2>2. FactorStays
    BY <2>1, RowKeeps DEF FactorStays
  <2> QED
    BY <1>2, <1>3, <2>2 DEF Terminate
<1>4. CASE Tick /\ UNCHANGED <<disk, tabs, paper, minted, limits, causes>>
  BY <1>2, <1>4 DEF Tick, FactorStays
<1>5. CASE UNCHANGED vars
  BY <1>2, <1>5 DEF vars, server, FactorStays
<1> QED
  BY <1>1, <1>3, <1>4, <1>5, TabStepSplit, SourcesCodes

(* No TOTP step and no backup code is accepted twice, as long as two       *)
(* verifications never overlap: verifyTwoFactor reads the mark and the     *)
(* list, and the write after it is computed from what it read (index.ts).  *)
THEOREM CodesHold == Spec => []CodesAreSingleUse
<1>1. CodeInv => CodesAreSingleUse
  BY DEF CodeInv, CodesAreSingleUse
<1> QED
  BY <1>1, InitTypes, StepTypes, InitCodes, StepCodes, PTL DEF Spec
-----------------------------------------------------------------------------
(* The account's password opens the keystore, and its identity is the one  *)
(* that is held.                                                           *)

\* A job goes on or ends with nothing new about a change of password ...
ChangeGoesOn(j, k) == InFlight(k) => InFlight(j) /\ k.new = j.new /\ (Passed(k) <=> Passed(j))

\* ... or about a publication.
PublicationGoesOn(j, k) ==
    /\ k.kind = "publish" => j.kind = "publish" /\ k.code = j.code /\ (Passed(k) => Passed(j))
    /\ Unconfirmed(j) => k.kind = "publish"

\* A step of a tab that leaves the account to the server.
Local(t) == mode' = mode /\ row' = row /\ \A u \in Tabs \ {t} : job'[u] = job[u]

\* ... and the record, with what is said of it.
Quiet(t) ==
    /\ Local(t)
    /\ UNCHANGED <<rec, parted, unlisted>>
    /\ ChangeGoesOn(job[t], job'[t]) /\ PublicationGoesOn(job[t], job'[t])

(* A job that is begun.                                                    *)
LEMMA BegunGoesOn ==
    ASSUME NEW j, NEW k, j.kind # "publish", k.kind # "publish", k.kind = "change" => k.at = "staging"
    PROVE  ChangeGoesOn(j, k) /\ PublicationGoesOn(j, k)
BY DEF ChangeGoesOn, PublicationGoesOn, InFlight, Unconfirmed

(* A job that is over.                                                     *)
LEMMA OverGoesOn ==
    ASSUME NEW j
    PROVE  ChangeGoesOn(j, Idle) /\ (~ Unconfirmed(j) => PublicationGoesOn(j, Idle))
BY DEF ChangeGoesOn, PublicationGoesOn, InFlight, Unconfirmed, Idle

(* A record that others of the device do not touch stays unparted.         *)
LEMMA StaysUnparted ==
    ASSUME NEW d \in Devices, NEW r, Unparted(d, r), NEW t \in Tabs, mode' = mode,
           \A u \in Tabs \ {t} : job'[u] = job[u],
           row' # None => row # None /\ row'.pw = row.pw,
           t \in TabsOf(d) => ChangeGoesOn(job[t], job'[t])
    PROVE  Unparted(d, r)'
<1>1. TabsOf(d)' = TabsOf(d) /\ TabsOf(d) \subseteq Tabs
  BY DEF TabsOf, Home
<1>2. ASSUME NEW u \in TabsOf(d)
      PROVE  InFlight(job'[u]) => InFlight(job[u]) /\ job'[u].new = job[u].new /\ (Passed(job'[u]) <=> Passed(job[u]))
  BY <1>1, <1>2 DEF ChangeGoesOn
<1>3. r.sealed = r.key
  BY DEF Unparted
<1>4. row' # None => Opens(r, row'.pw)
  BY DEF Unparted
<1>5. ASSUME NEW u \in TabsOf(d), InFlight(job'[u]) PROVE StagedFor(job[u], r)'
  <2>1. InFlight(job[u]) /\ job'[u].new = job[u].new /\ (Passed(job'[u]) <=> Passed(job[u]))
    BY <1>2, <1>5
  <2>2. StagedFor(job[u], r)
    BY <2>1 DEF Unparted
  <2> QED
    BY <2>1, <2>2 DEF StagedFor
<1>6. \A u, v \in TabsOf(d) : InFlight(job'[u]) /\ InFlight(job'[v]) => u = v
  BY <1>2 DEF Unparted
<1> QED
  BY <1>1, <1>3, <1>4, <1>5, <1>6 DEF Unparted, Opens

(* ... and one that is listed stays so.                                    *)
LEMMA StaysListed ==
    ASSUME NEW d \in Devices, NEW r, Listed(d, r), NEW t \in Tabs, mode' = mode,
           \A u \in Tabs \ {t} : job'[u] = job[u],
           row' # None => row # None /\ row'.identity = row.identity,
           t \in TabsOf(d) => PublicationGoesOn(job[t], job'[t])
    PROVE  Listed(d, r)'
<1>1. TabsOf(d)' = TabsOf(d) /\ TabsOf(d) \subseteq Tabs
  BY DEF TabsOf, Home
<1>2. ASSUME NEW u \in TabsOf(d)
      PROVE  /\ job'[u].kind = "publish" => job[u].kind = "publish" /\ job'[u].code = job[u].code
             /\ Unconfirmed(job[u]) => Unconfirmed(job'[u])
  BY <1>1, <1>2 DEF PublicationGoesOn, Unconfirmed
<1>3. \A u \in TabsOf(d) : job'[u].kind = "publish" => job'[u].code = r.ident
  BY <1>2 DEF Listed
<1>4. row' # None /\ (\A u \in TabsOf(d) : ~ Unconfirmed(job'[u])) => row'.identity = r.ident
  BY <1>2 DEF Listed
<1> QED
  BY <1>1, <1>3, <1>4 DEF Listed

(* A step of a tab concerns the record of its device.                      *)
LEMMA HomePassword ==
    ASSUME PasswordInv, NEW t \in Tabs, mode' = mode, \A u \in Tabs \ {t} : job'[u] = job[u],
           \A d \in Devices \ {Home(t)} :
              /\ rec'[d] = rec[d]
              /\ parted'[d] = {} /\ rec[d] # None =>
                    parted[d] = {} /\ (row' # None => row # None /\ row'.pw = row.pw),
           \A d \in {Home(t)} : \A r \in {rec'[d]} \ {None} : parted'[d] = {} => Unparted(d, r)'
    PROVE  PasswordInv'
<1> SUFFICES ASSUME NEW d \in Devices, parted'[d] = {}, NEW r \in {rec'[d]} \ {None} PROVE Unparted(d, r)'
  BY DEF PasswordInv
<1>1. CASE d = Home(t)
  BY <1>1
<1>2. CASE d # Home(t)
  <2>1. rec'[d] = rec[d] /\ parted[d] = {} /\ (row' # None => row # None /\ row'.pw = row.pw)
    BY <1>2
  <2>2. Unparted(d, r)
    BY <2>1 DEF PasswordInv
  <2>3. t \notin TabsOf(d)
    BY <1>2 DEF TabsOf
  <2> QED
    BY <2>1, <2>2, <2>3, StaysUnparted
<1> QED
  BY <1>1, <1>2

LEMMA HomeIdentity ==
    ASSUME IdentityInv, NEW t \in Tabs, mode' = mode, \A u \in Tabs \ {t} : job'[u] = job[u],
           \A d \in Devices \ {Home(t)} :
              /\ rec'[d] = rec[d]
              /\ unlisted'[d] = {} /\ rec[d] # None =>
                    unlisted[d] = {} /\ (row' # None => row # None /\ row'.identity = row.identity),
           \A d \in {Home(t)} : \A r \in {rec'[d]} \ {None} : unlisted'[d] = {} => Listed(d, r)'
    PROVE  IdentityInv'
<1> SUFFICES ASSUME NEW d \in Devices, unlisted'[d] = {}, NEW r \in {rec'[d]} \ {None} PROVE Listed(d, r)'
  BY DEF IdentityInv
<1>1. CASE d = Home(t)
  BY <1>1
<1>2. CASE d # Home(t)
  <2>1. rec'[d] = rec[d] /\ unlisted[d] = {} /\ (row' # None => row # None /\ row'.identity = row.identity)
    BY <1>2
  <2>2. Listed(d, r)
    BY <2>1 DEF IdentityInv
  <2>3. t \notin TabsOf(d)
    BY <1>2 DEF TabsOf
  <2> QED
    BY <2>1, <2>2, <2>3, StaysListed
<1> QED
  BY <1>1, <1>2

(* A quiet step.                                                           *)
LEMMA QuietKeeps ==
    ASSUME NEW t \in Tabs, Quiet(t) PROVE (PasswordInv => PasswordInv') /\ (IdentityInv => IdentityInv')
<1>1. mode' = mode /\ row' = row /\ (\A u \in Tabs \ {t} : job'[u] = job[u])
  BY DEF Quiet, Local
<1>2. rec' = rec /\ parted' = parted /\ unlisted' = unlisted
  BY DEF Quiet
<1>3. ChangeGoesOn(job[t], job'[t]) /\ PublicationGoesOn(job[t], job'[t])
  BY DEF Quiet
<1>4. ASSUME PasswordInv PROVE PasswordInv'
  <2> SUFFICES ASSUME NEW d \in Devices, parted[d] = {}, NEW r \in {rec[d]} \ {None} PROVE Unparted(d, r)'
    BY <1>2 DEF PasswordInv
  <2>1. Unparted(d, r)
    BY <1>4 DEF PasswordInv
  <2> QED
    BY <1>1, <1>3, <2>1, StaysUnparted
<1>5. ASSUME IdentityInv PROVE IdentityInv'
  <2> SUFFICES ASSUME NEW d \in Devices, unlisted[d] = {}, NEW r \in {rec[d]} \ {None} PROVE Listed(d, r)'
    BY <1>2 DEF IdentityInv
  <2>1. Listed(d, r)
    BY <1>5 DEF IdentityInv
  <2> QED
    BY <1>1, <1>3, <2>1, StaysListed
<1> QED
  BY <1>4, <1>5

(* What a user starts.                                                     *)
LEMMA BegunQuiet ==
    ASSUME TInv, NEW t \in Tabs, Local(t), UNCHANGED <<rec, parted, unlisted>>, job[t] = Idle,
           job'[t].kind # "publish", job'[t].kind = "change" => job'[t].at = "staging"
    PROVE  Quiet(t)
<1>1. job[t].kind # "publish"
  BY DEF Idle
<1> QED
  BY <1>1, BegunGoesOn DEF Quiet

LEMMA StartQuiet ==
    ASSUME TInv, NEW t \in Tabs, NEW pw \in Passwords,
           \/ StartSignup(t, pw) \/ StartUnlock(t, pw) \/ StartEnable(t, pw) \/ StartEnroll(t, pw)
           \/ \E c \in CodesInHand : StartLogin(t, pw, c)
           \/ \E new \in Passwords : StartChange(t, pw, new)
           \/ \E c \in CodesInHand, k \in PasswordKinds \cup {"terms"} : StartRequest(t, k, pw, c)
           \/ \E c \in paper : StartRecover(t, c, pw)
           \/ StartMe(t)
    PROVE  Quiet(t)
<1>1. ASSUME NEW k, Start(t, k), NEW j, job' = [job EXCEPT ![t] = j], j.kind # "publish",
             j.kind = "change" => j.at = "staging"
      PROVE  Quiet(t)
  <2>1. job'[t] = j /\ \A u \in Tabs \ {t} : job'[u] = job[u]
    BY <1>1, SetFacts DEF TInv
  <2>2. job[t] = Idle /\ UNCHANGED <<rec, parted, unlisted, mode, row>>
    BY <1>1 DEF Start, disk, causes, server
  <2> QED
    BY <1>1, <2>1, <2>2, BegunQuiet DEF Local
<1>2. CASE StartSignup(t, pw)
  <2>1. PICK j : job' = [job EXCEPT ![t] = j] /\ j = [Idle EXCEPT !.kind = "signup", !.at = "sent", !.pw = pw]
    BY <1>2 DEF StartSignup
  <2>2. j.kind = "signup"
    BY <2>1 DEF Idle
  <2> QED
    BY <1>1, <1>2, <2>1, <2>2 DEF StartSignup
<1>3. CASE StartUnlock(t, pw)
  <2>1. PICK j : job' = [job EXCEPT ![t] = j] /\ j = [Idle EXCEPT !.kind = "unlock", !.at = "received", !.pw = pw]
    BY <1>3 DEF StartUnlock
  <2>2. j.kind = "unlock"
    BY <2>1 DEF Idle
  <2> QED
    BY <1>1, <1>3, <2>1, <2>2 DEF StartUnlock
<1>4. CASE StartEnable(t, pw)
  <2>1. PICK j : /\ job' = [job EXCEPT ![t] = j]
                 /\ j = [Idle EXCEPT !.kind = "enable", !.at = "sent", !.pw = pw,
                                     !.code = TotpCode(minted, clock), !.tok = cookie[Home(t)]]
    BY <1>4 DEF StartEnable
  <2>2. j.kind = "enable"
    BY <2>1 DEF Idle
  <2> QED
    BY <1>1, <1>4, <2>1, <2>2 DEF StartEnable
<1>5. CASE StartEnroll(t, pw)
  <2>1. PICK j : /\ job' = [job EXCEPT ![t] = j]
                 /\ j = [Idle EXCEPT !.kind = "enroll", !.at = "sent", !.pw = pw,
                                     !.code = [code |-> minted, identity |-> Here(t).ident],
                                     !.tok = cookie[Home(t)]]
    BY <1>5 DEF StartEnroll
  <2>2. j.kind = "enroll"
    BY <2>1 DEF Idle
  <2> QED
    BY <1>1, <1>5, <2>1, <2>2 DEF StartEnroll
<1>6. ASSUME NEW c \in CodesInHand, StartLogin(t, pw, c) PROVE Quiet(t)
  <2>1. PICK j : /\ job' = [job EXCEPT ![t] = j]
                 /\ j = [Idle EXCEPT !.kind = "login", !.at = "sent", !.pw = pw, !.code = c]
    BY <1>6 DEF StartLogin
  <2>2. j.kind = "login"
    BY <2>1 DEF Idle
  <2> QED
    BY <1>1, <1>6, <2>1, <2>2 DEF StartLogin
<1>7. ASSUME NEW new \in Passwords, StartChange(t, pw, new) PROVE Quiet(t)
  <2>1. PICK j : /\ job' = [job EXCEPT ![t] = j]
                 /\ j = [Idle EXCEPT !.kind = "change", !.at = "staging", !.pw = pw, !.new = new, !.seen = Here(t)]
    BY <1>7 DEF StartChange
  <2>2. j.kind = "change" /\ j.at = "staging"
    BY <2>1 DEF Idle
  <2> QED
    BY <1>1, <1>7, <2>1, <2>2 DEF StartChange
<1>8. ASSUME NEW c \in CodesInHand, NEW k, StartRequest(t, k, pw, c) PROVE Quiet(t)
  <2>1. PICK j : /\ job' = [job EXCEPT ![t] = j]
                 /\ j = [Idle EXCEPT !.kind = k, !.at = "sent", !.pw = pw, !.code = c, !.tok = cookie[Home(t)]]
    BY <1>8 DEF StartRequest
  <2>2. j.kind = k
    BY <2>1 DEF Idle
  <2>3. k \notin {"publish", "change"} /\ Start(t, k)
    BY <1>8 DEF StartRequest
  <2> QED
    BY <1>1, <2>1, <2>2, <2>3
<1>9. ASSUME NEW c \in paper, StartRecover(t, c, pw) PROVE Quiet(t)
  <2>1. PICK j : /\ job' = [job EXCEPT ![t] = j]
                 /\ j = [Idle EXCEPT !.kind = "recover", !.at = "sent", !.code = c, !.new = pw]
    BY <1>9 DEF StartRecover
  <2>2. j.kind = "recover"
    BY <2>1 DEF Idle
  <2> QED
    BY <1>1, <1>9, <2>1, <2>2 DEF StartRecover
<1>10. CASE StartMe(t)
  <2>1. PICK j : /\ job' = [job EXCEPT ![t] = j]
                 /\ j = [Idle EXCEPT !.kind = "me", !.at = "sent", !.tok = cookie[Home(t)]]
    BY <1>10 DEF StartMe
  <2>2. j.kind = "me"
    BY <2>1 DEF Idle
  <2> QED
    BY <1>1, <1>10, <2>1, <2>2 DEF StartMe
<1> QED
  BY <1>2, <1>3, <1>4, <1>5, <1>6, <1>7, <1>8, <1>9, <1>10

(* The other quiet steps of a tab.                                         *)
LEMMA TabQuiet ==
    ASSUME TInv, NEW t \in Tabs,
           \/ Receive(t) \/ UnlockRead(t) \/ Enrolled(t) \/ Bootstrapped(t) \/ LeftEverywhere(t)
           \/ Logout(t) \/ LoggedOut(t) \/ ToggleBiometric(t) \/ TogglePasskey(t)
           \/ EnrollPasskeyUnlock(t) \/ UnlockCancelled(t)
           \/ \E k \in Unlocks : UnlockPrompt(t, k) \/ UnlockWith(t, k)
           \/ LoadDoc(t) \/ SaveDocRead(t)
    PROVE  Quiet(t)
<1>1. JobsOK /\ HasFields(job[t])
  BY DEF TInv, JobsOK, JobOK
<1>2. mode' = mode /\ row' = row /\ UNCHANGED <<rec, parted, unlisted>>
  BY DEF Receive, UnlockRead, Enrolled, Bootstrapped, LeftEverywhere, Logout, LoggedOut, ToggleBiometric,
         TogglePasskey, EnrollPasskeyUnlock, UnlockCancelled, UnlockPrompt, UnlockWith, LoadDoc, SaveDocRead,
         Start, server, disk, limits, causes
<1>3. CASE Receive(t)
  <2>1. job[t].at = "answered" /\ job' = [job EXCEPT ![t].at = IF job[t].ok THEN "received" ELSE "refused"]
    BY <1>3 DEF Receive
  <2>2. /\ \A u \in Tabs \ {t} : job'[u] = job[u]
        /\ Same(job[t], job'[t]) /\ job'[t].at = IF job[t].ok THEN "received" ELSE "refused"
    <3>1. PICK a : a = IF job[t].ok THEN "received" ELSE "refused"
      OBVIOUS
    <3>2. job' = [job EXCEPT ![t].at = a]
      BY <2>1, <3>1
    <3>3. (\A u \in Tabs \ {t} : job'[u] = job[u]) /\ Same(job[t], job'[t]) /\ job'[t].at = a
      BY <1>1, <3>2, SetAtFacts
    <3> QED
      BY <3>1, <3>3
  <2>3. Passed(job'[t]) <=> Passed(job[t])
    BY <2>1, <2>2 DEF Passed
  <2>4. ChangeGoesOn(job[t], job'[t]) /\ PublicationGoesOn(job[t], job'[t])
    BY <2>1, <2>2, <2>3 DEF ChangeGoesOn, PublicationGoesOn, InFlight, Unconfirmed, Same
  <2> QED
    BY <1>2, <2>2, <2>4 DEF Quiet, Local
<1>4. CASE UnlockRead(t)
  <2>1. /\ job[t].kind \in {"signup", "login", "unlock"}
        /\ job' = [job EXCEPT ![t].at = "opening", ![t].seen = Here(t)]
    BY <1>4 DEF UnlockRead
  <2>2. (\A u \in Tabs \ {t} : job'[u] = job[u]) /\ job'[t].kind = job[t].kind
    BY <1>1, <2>1 DEF JobsOK, HasFields
  <2>3. ChangeGoesOn(job[t], job'[t]) /\ PublicationGoesOn(job[t], job'[t])
    BY <2>1, <2>2, BegunGoesOn
  <2> QED
    BY <1>2, <2>2, <2>3 DEF Quiet, Local
<1>5. CASE \/ Enrolled(t) \/ Bootstrapped(t) \/ LeftEverywhere(t) \/ EnrollPasskeyUnlock(t)
           \/ UnlockCancelled(t) \/ \E k \in Unlocks : UnlockWith(t, k)
  <2>1. job' = [job EXCEPT ![t] = Idle] /\ job[t].kind # "publish"
    BY <1>5 DEF Enrolled, Bootstrapped, LeftEverywhere, EnrollPasskeyUnlock, UnlockCancelled, UnlockWith, Unlocks
  <2>2. job'[t] = Idle /\ (\A u \in Tabs \ {t} : job'[u] = job[u])
    BY <1>1, <2>1, SetFacts
  <2>3. ChangeGoesOn(job[t], job'[t]) /\ PublicationGoesOn(job[t], job'[t])
    BY <2>1, <2>2, OverGoesOn DEF Unconfirmed
  <2> QED
    BY <1>2, <2>2, <2>3 DEF Quiet, Local
<1>6. CASE UNCHANGED job
  <2>1. (\A u \in Tabs \ {t} : job'[u] = job[u]) /\ job'[t] = job[t]
    BY <1>6
  <2>2. ChangeGoesOn(job[t], job'[t]) /\ PublicationGoesOn(job[t], job'[t])
    BY <2>1 DEF ChangeGoesOn, PublicationGoesOn, Unconfirmed
  <2> QED
    BY <1>2, <2>1, <2>2 DEF Quiet, Local
<1>7. CASE Logout(t) \/ LoggedOut(t) \/ ToggleBiometric(t) \/ LoadDoc(t) \/ SaveDocRead(t)
  <2>1. UNCHANGED job
    BY <1>7 DEF Logout, LoggedOut, ToggleBiometric, LoadDoc, SaveDocRead
  <2> QED
    BY <1>6, <2>1
<1>8. ASSUME NEW k \in Unlocks \cup {"enrollPasskey"}, NEW seen, job[t] = Idle,
             job' = [job EXCEPT ![t] = [Idle EXCEPT !.kind = k, !.at = "prompt", !.seen = seen]]
      PROVE  Quiet(t)
  <2>1. PICK j : job' = [job EXCEPT ![t] = j] /\ j = [Idle EXCEPT !.kind = k, !.at = "prompt", !.seen = seen]
    BY <1>8
  <2>2. j.kind \notin {"publish", "change"}
    BY <2>1 DEF Idle, Unlocks
  <2>3. job'[t] = j /\ \A u \in Tabs \ {t} : job'[u] = job[u]
    BY <1>1, <2>1, SetFacts
  <2> QED
    BY <1>2, <1>8, <2>2, <2>3, BegunQuiet DEF Local
<1>9. CASE TogglePasskey(t)
  <2>1. job[t] = Idle
    BY <1>9 DEF TogglePasskey
  <2>2. \/ UNCHANGED job
        \/ job' = [job EXCEPT ![t] = [Idle EXCEPT !.kind = "enrollPasskey", !.at = "prompt", !.seen = ops]]
    BY <1>9 DEF TogglePasskey
  <2> QED
    BY <1>6, <1>8, <2>1, <2>2
<1>10. ASSUME NEW k \in Unlocks, UnlockPrompt(t, k) PROVE Quiet(t)
  <2>1. job[t] = Idle
    BY <1>10 DEF UnlockPrompt
  <2>2. PICK seen : job' = [job EXCEPT ![t] = [Idle EXCEPT !.kind = k, !.at = "prompt", !.seen = seen]]
    BY <1>10 DEF UnlockPrompt
  <2> QED
    BY <1>8, <2>1, <2>2
<1> QED
  BY <1>3, <1>4, <1>5, <1>7, <1>9, <1>10

\* A step of a tab that writes at most the record of its device.
OnlyHere(t) ==
    /\ Local(t)
    /\ \A d \in Devices \ {Home(t)} : rec'[d] = rec[d] /\ parted'[d] = parted[d] /\ unlisted'[d] = unlisted[d]

(* What sets record and account apart is about the device it is marked for. *)
LEMMA MarkIs ==
    ASSUME NEW f, NEW d \in DOMAIN f, NEW cause, NEW set
    PROVE  /\ \A e \in DOMAIN f \ {d} : Mark(f, d, cause, set)[e] = f[e]
           /\ Mark(f, d, cause, set)[d] = {} => ~ cause /\ f[d] = {}
BY DEF Mark

(* The steps that write a record, or say something of one, do it at home.  *)
LEMMA WritesHere ==
    ASSUME TInv, NEW t \in Tabs,
           \/ Stage(t) \/ Lose(t) \/ FinalizeChange(t) \/ RollbackChange(t) \/ Unlock(t)
           \/ CreateIdentity(t) \/ RestoreFromRecovery(t) \/ Published(t) \/ DeletedHere(t) \/ Done(t)
           \/ PanicWipe(t) \/ SaveDocPut(t) \/ Crash(t)
    PROVE  OnlyHere(t)
<1>1. JobsOK /\ Home(t) \in Devices /\ DOMAIN parted = Devices /\ DOMAIN unlisted = Devices /\ DOMAIN rec = Devices
  BY Here1 DEF TInv, DiskOK
<1>2. mode' = mode /\ row' = row
  BY DEF Stage, Lose, FinalizeChange, RollbackChange, Unlock, CreateIdentity, RestoreFromRecovery, Published,
         DeletedHere, Done, PanicWipe, SaveDocPut, Crash, Wiped, server, limits
<1>3. \A u \in Tabs \ {t} : job'[u] = job[u]
  <2>1. UNCHANGED job \/ (\E j : job' = [job EXCEPT ![t] = j])
    <3>1. CASE Stage(t)
      BY <3>1 DEF Stage
    <3>2. CASE FinalizeChange(t) \/ RollbackChange(t) \/ Unlock(t) \/ Published(t) \/ DeletedHere(t) \/ Done(t)
      BY <3>2 DEF FinalizeChange, RollbackChange, Unlock, Published, DeletedHere, Done
    <3>3. CASE CreateIdentity(t)
      BY <3>3 DEF CreateIdentity
    <3>4. CASE RestoreFromRecovery(t)
      BY <3>4 DEF RestoreFromRecovery
    <3>5. CASE PanicWipe(t) \/ SaveDocPut(t)
      BY <3>5 DEF PanicWipe, SaveDocPut
    <3>6. CASE Lose(t)
      <4>1. job' = [job EXCEPT ![t].at = "refused"]
        BY <3>6 DEF Lose
      <4> QED
        BY <4>1
    <3>7. CASE Crash(t)
      <4>1. job' = [job EXCEPT ![t].orphan = TRUE] \/ job' = [job EXCEPT ![t] = Idle]
        BY <3>7 DEF Crash
      <4> QED
        BY <4>1
    <3> QED
      BY <3>1, <3>2, <3>3, <3>4, <3>5, <3>6, <3>7
  <2> QED
    BY <1>1, <2>1 DEF JobsOK
<1>4. \A d \in Devices \ {Home(t)} : rec'[d] = rec[d]
  <2>1. rec' = rec \/ (\E r : rec' = [rec EXCEPT ![Home(t)] = r])
    <3>1. CASE Stage(t)
      BY <3>1 DEF Stage
    <3>2. CASE FinalizeChange(t)
      BY <3>2 DEF FinalizeChange
    <3>3. CASE RollbackChange(t)
      BY <3>3 DEF RollbackChange
    <3>4. CASE Unlock(t)
      BY <3>4 DEF Unlock
    <3>5. CASE CreateIdentity(t)
      BY <3>5 DEF CreateIdentity
    <3>6. CASE RestoreFromRecovery(t)
      BY <3>6 DEF RestoreFromRecovery
    <3>7. CASE DeletedHere(t) \/ PanicWipe(t)
      BY <3>7 DEF DeletedHere, PanicWipe, Wiped
    <3>8. CASE SaveDocPut(t)
      BY <3>8 DEF SaveDocPut
    <3>9. CASE Lose(t) \/ Published(t) \/ Done(t) \/ Crash(t)
      BY <3>9 DEF Lose, Published, Done, Crash, disk
    <3> QED
      BY <3>1, <3>2, <3>3, <3>4, <3>5, <3>6, <3>7, <3>8, <3>9
  <2> QED
    BY <1>1, <2>1
<1>5. \A d \in Devices \ {Home(t)} : parted'[d] = parted[d]
  <2>1. \/ parted' = parted
        \/ \E x : parted' = [parted EXCEPT ![Home(t)] = x]
        \/ \E cause, set : parted' = Mark(parted, Home(t), cause, set)
    <3>1. CASE Stage(t)
      BY <3>1 DEF Stage
    <3>2. CASE FinalizeChange(t) \/ RollbackChange(t)
      BY <3>2 DEF FinalizeChange, RollbackChange
    <3>3. CASE Unlock(t)
      BY <3>3 DEF Unlock
    <3>4. CASE CreateIdentity(t)
      BY <3>4 DEF CreateIdentity
    <3>5. CASE RestoreFromRecovery(t)
      BY <3>5 DEF RestoreFromRecovery
    <3>6. CASE DeletedHere(t) \/ PanicWipe(t)
      BY <3>6 DEF DeletedHere, PanicWipe, Wiped
    <3>7. CASE SaveDocPut(t)
      BY <3>7 DEF SaveDocPut
    <3>8. CASE Lose(t)
      BY <3>8 DEF Lose
    <3>9. CASE Published(t) \/ Done(t) \/ Crash(t)
      BY <3>9 DEF Published, Done, Crash
    <3> QED
      BY <3>1, <3>2, <3>3, <3>4, <3>5, <3>6, <3>7, <3>8, <3>9
  <2> QED
    BY <1>1, <2>1, MarkIs
<1>6. \A d \in Devices \ {Home(t)} : unlisted'[d] = unlisted[d]
  <2>1. \/ unlisted' = unlisted
        \/ \E x : unlisted' = [unlisted EXCEPT ![Home(t)] = x]
        \/ \E cause, set : unlisted' = Mark(unlisted, Home(t), cause, set)
    <3>1. CASE Stage(t)
      BY <3>1 DEF Stage
    <3>2. CASE FinalizeChange(t) \/ RollbackChange(t) \/ Lose(t)
      BY <3>2 DEF FinalizeChange, RollbackChange, Lose
    <3>3. CASE Unlock(t)
      BY <3>3 DEF Unlock
    <3>4. CASE CreateIdentity(t)
      BY <3>4 DEF CreateIdentity
    <3>5. CASE RestoreFromRecovery(t)
      BY <3>5 DEF RestoreFromRecovery
    <3>6. CASE DeletedHere(t) \/ PanicWipe(t)
      BY <3>6 DEF DeletedHere, PanicWipe, Wiped
    <3>7. CASE SaveDocPut(t)
      BY <3>7 DEF SaveDocPut
    <3>8. CASE Published(t) \/ Done(t)
      BY <3>8 DEF Published, Done
    <3>9. CASE Crash(t)
      BY <3>9 DEF Crash
    <3> QED
      BY <3>1, <3>2, <3>3, <3>4, <3>5, <3>6, <3>7, <3>8, <3>9
  <2> QED
    BY <1>1, <2>1, MarkIs
<1> QED
  BY <1>2, <1>3, <1>4, <1>5, <1>6 DEF OnlyHere, Local

(* What the wraps of a record become.                                      *)
LEMMA WrapFacts ==
    ASSUME NEW r \in KeystoreRecord, NEW pw, NEW new
    PROVE  /\ LET c == Collapse(r, pw)
              IN  /\ c.sealed = r.sealed /\ c.key = r.key /\ c.ident = r.ident /\ c.alt = None
                  /\ c.wrap = IF r.alt = None \/ pw = r.wrap THEN r.wrap ELSE r.alt
           /\ LET c == StageRewrap(r, pw, new)
              IN  /\ c.sealed = r.sealed /\ c.key = r.key /\ c.ident = r.ident /\ c.alt = new
                  /\ c.wrap = IF r.alt = None \/ pw = r.wrap THEN r.wrap ELSE r.alt
           /\ LET c == PromoteRewrap(r)
              IN  /\ c.sealed = r.sealed /\ c.key = r.key /\ c.ident = r.ident
                  /\ c.wrap = IF r.alt = None THEN r.wrap ELSE r.alt
           /\ LET c == AbortRewrap(r)
              IN  c.sealed = r.sealed /\ c.key = r.key /\ c.ident = r.ident /\ c.wrap = r.wrap
<1>1. \A q \in KeystoreRecord :
         LET c == [q EXCEPT !.alt = None]
         IN  c.sealed = q.sealed /\ c.key = q.key /\ c.ident = q.ident /\ c.wrap = q.wrap /\ c.alt = None
  BY DEF KeystoreRecord
<1>2. LET c == [r EXCEPT !.wrap = r.alt, !.alt = None]
      IN  c.sealed = r.sealed /\ c.key = r.key /\ c.ident = r.ident /\ c.wrap = r.alt /\ c.alt = None
  BY DEF KeystoreRecord
<1>3. LET c == Collapse(r, pw)
      IN  /\ c.sealed = r.sealed /\ c.key = r.key /\ c.ident = r.ident /\ c.alt = None
          /\ c.wrap = IF r.alt = None \/ pw = r.wrap THEN r.wrap ELSE r.alt
  BY <1>1, <1>2 DEF Collapse
<1>4. LET c == StageRewrap(r, pw, new)
      IN  /\ c.sealed = r.sealed /\ c.key = r.key /\ c.ident = r.ident /\ c.alt = new
          /\ c.wrap = IF r.alt = None \/ pw = r.wrap THEN r.wrap ELSE r.alt
  <2>1. PICK q \in KeystoreRecord : q = Collapse(r, pw)
    BY WrapTypes
  <2>2. LET c == [q EXCEPT !.alt = new]
        IN  c.sealed = q.sealed /\ c.key = q.key /\ c.ident = q.ident /\ c.wrap = q.wrap /\ c.alt = new
    BY DEF KeystoreRecord
  <2> QED
    BY <1>3, <2>1, <2>2 DEF StageRewrap
<1>5. LET c == PromoteRewrap(r)
      IN  /\ c.sealed = r.sealed /\ c.key = r.key /\ c.ident = r.ident
          /\ c.wrap = IF r.alt = None THEN r.wrap ELSE r.alt
  BY <1>2 DEF PromoteRewrap
<1>6. LET c == AbortRewrap(r)
      IN  c.sealed = r.sealed /\ c.key = r.key /\ c.ident = r.ident /\ c.wrap = r.wrap
  BY <1>1 DEF AbortRewrap
<1> QED
  BY <1>3, <1>4, <1>5, <1>6

(* A record written while no other tab has a change in flight.             *)
LEMMA AloneUnparted ==
    ASSUME NEW t \in Tabs, Local(t), ~ ChangeInFlight(t), NEW d \in {Home(t)}, NEW r, r.sealed = r.key,
           row # None => Opens(r, row.pw), InFlight(job'[t]) => StagedFor(job'[t], r)
    PROVE  Unparted(d, r)'
<1>1. TabsOf(d)' = TabsOf(d) /\ TabsOf(d) \subseteq Tabs /\ row' = row /\ \A u \in Tabs \ {t} : job'[u] = job[u]
  BY DEF TabsOf, Home, Local
<1>2. ASSUME NEW u \in TabsOf(d), InFlight(job'[u]) PROVE u = t
  <2> SUFFICES ASSUME u # t PROVE FALSE
    OBVIOUS
  <2>1. job'[u] = job[u] /\ u \in TabsOf(Home(t)) \ {t}
    BY <1>1, <1>2
  <2> QED
    BY <1>2, <2>1 DEF ChangeInFlight, InFlight
<1>3. ASSUME NEW u \in TabsOf(d), InFlight(job'[u]) PROVE StagedFor(job[u], r)'
  <2>1. StagedFor(job'[t], r) /\ u = t
    BY <1>2, <1>3
  <2> QED
    BY <1>1, <2>1 DEF StagedFor
<1>4. row' # None => Opens(r, row'.pw)
  BY <1>1
<1> QED
  BY <1>1, <1>2, <1>3, <1>4 DEF Unparted, Opens

(* What a step that writes a record leaves there is unparted, unless it is *)
(* marked otherwise.                                                       *)
LEMMA SamePassword ==
    ASSUME PasswordInv, NEW t \in Tabs, Local(t), NEW d \in Devices, NEW r \in {rec'[d]} \ {None},
           rec'[d] = rec[d], parted[d] = {}, ChangeGoesOn(job[t], job'[t])
    PROVE  Unparted(d, r)'
<1>1. Unparted(d, r)
  BY DEF PasswordInv
<1> QED
  BY <1>1, StaysUnparted DEF Local

LEMMA SettlePasswords ==
    ASSUME TInv, PasswordInv, NEW t \in Tabs, OnlyHere(t), NEW d \in {Home(t)},
           FinalizeChange(t) \/ RollbackChange(t), parted'[d] = {}, NEW r \in {rec'[d]} \ {None}
    PROVE  Unparted(d, r)'
<1>1. d \in Devices /\ d \in DOMAIN parted /\ rec[d] \in KeystoreRecord \cup {None} /\ rec \in [Devices -> KeystoreRecord \cup {None}]
  BY Here1 DEF TInv, DiskOK
<1>2. ~ Crossed(t, rec[d]) /\ parted[d] = {}
  BY <1>1, MarkIs DEF FinalizeChange, RollbackChange
<1>3. ~ ChangeInFlight(t)
  BY <1>2 DEF Crossed
<1>4. job'[t] = Idle /\ ~ InFlight(job'[t])
  <2>1. job'[t] = Idle
    BY SetFacts DEF FinalizeChange, RollbackChange, TInv
  <2> QED
    BY <2>1 DEF InFlight, Idle
<1>5. rec[d] \in KeystoreRecord /\ r = IF job[t].at = "received" THEN PromoteRewrap(rec[d]) ELSE AbortRewrap(rec[d])
  BY <1>1 DEF FinalizeChange, RollbackChange
<1>6. PICK s \in KeystoreRecord : s = rec[d]
  BY <1>5
<1>7. s # None => Unparted(d, s)
  BY <1>1, <1>2, <1>6 DEF PasswordInv
<1>8. s # None
  <2>1. CASE rec[d] = None
    <3>1. rec' = rec
      BY <2>1 DEF FinalizeChange, RollbackChange
    <3> QED
      BY <2>1, <3>1
  <2>2. CASE rec[d] # None
    BY <1>6, <2>2
  <2> QED
    BY <2>1, <2>2
<1>9. StagedFor(job[t], s)
  <2>1. t \in TabsOf(d) /\ InFlight(job[t])
    BY DEF TabsOf, InFlight, FinalizeChange, RollbackChange
  <2> QED
    BY <1>7, <1>8, <2>1 DEF Unparted
<1>10. s.sealed = s.key /\ (row # None => Opens(s, row.pw))
  BY <1>7, <1>8 DEF Unparted
<1>11. r.sealed = r.key /\ (row # None => row.pw = r.wrap)
  <2>1. CASE FinalizeChange(t)
    <3>1. Passed(job[t]) /\ r = PromoteRewrap(s)
      BY <1>5, <1>6, <2>1 DEF FinalizeChange, Passed
    <3>2. r.sealed = s.sealed /\ r.key = s.key /\ r.wrap = IF s.alt = None THEN s.wrap ELSE s.alt
      BY <3>1, WrapFacts
    <3> QED
      BY <1>9, <1>10, <3>1, <3>2 DEF StagedFor
  <2>2. CASE RollbackChange(t)
    <3>1. ~ Passed(job[t]) /\ r = AbortRewrap(s)
      BY <1>5, <1>6, <2>2 DEF RollbackChange, Passed
    <3>2. r.sealed = s.sealed /\ r.key = s.key /\ r.wrap = s.wrap
      BY <3>1, WrapFacts
    <3> QED
      BY <1>9, <1>10, <3>1, <3>2 DEF StagedFor
  <2> QED
    BY <2>1, <2>2
<1> QED
  BY <1>3, <1>4, <1>11, AloneUnparted DEF OnlyHere, Opens

LEMMA StagePasswords ==
    ASSUME TInv, PasswordInv, NEW t \in Tabs, OnlyHere(t), NEW d \in {Home(t)}, Stage(t),
           parted'[d] = {}, NEW r \in {rec'[d]} \ {None}
    PROVE  Unparted(d, r)'
<1>1. d \in Devices /\ d \in DOMAIN parted /\ rec \in [Devices -> KeystoreRecord \cup {None}] /\ JobOK(job[t])
  BY Here1 DEF TInv, DiskOK
<1>2. job[t].kind = "change" /\ job[t].at = "staging" /\ job[t].seen \in KeystoreRecord /\ job[t].new # None
  BY <1>1 DEF Stage, JobOK
<1>3. CASE ~ OpensRecord(job[t].seen, job[t].pw)
  <2>1. rec' = rec /\ job' = [job EXCEPT ![t] = Idle]
    BY <1>3 DEF Stage
  <2>2. parted[d] = {}
    BY <1>1, MarkIs DEF Stage
  <2>3. ChangeGoesOn(job[t], job'[t])
    BY <2>1, SetFacts, OverGoesOn DEF TInv
  <2> QED
    BY <1>1, <2>1, <2>2, <2>3, SamePassword DEF OnlyHere
<1>4. CASE OpensRecord(job[t].seen, job[t].pw)
  <2>11. PICK s \in KeystoreRecord : s = job[t].seen
    BY <1>2
  <2>1. PICK pw, new : s = job[t].seen /\ pw = job[t].pw /\ new = job[t].new
    BY <2>11
  <2>2. /\ parted[d] = {} /\ ~ Crossed(t, s)
        /\ ~ (s.alt # None /\ row # None /\ pw # row.pw)
    <3> DEFINE cause == OpensRecord(s, pw) /\ (Crossed(t, s) \/ (s.alt # None /\ row # None /\ pw # row.pw))
    <3>1. parted' = Mark(parted, d, cause, "overwritten")
      BY <2>1 DEF Stage
    <3> HIDE DEF cause
    <3>2. parted[d] = {} /\ ~ cause
      BY <1>1, <3>1, MarkIs
    <3> QED
      BY <1>4, <2>1, <3>2 DEF cause
  <2>3. Here(t) = s /\ ~ ChangeInFlight(t)
    BY <2>2 DEF Crossed
  <2>4. rec[d] = s
    BY <2>3 DEF Here
  <2>5. r = StageRewrap(s, pw, new)
    BY <1>1, <1>4, <2>1 DEF Stage
  <2>6. /\ r.sealed = s.sealed /\ r.key = s.key /\ r.alt = new
        /\ r.wrap = IF s.alt = None \/ pw = s.wrap THEN s.wrap ELSE s.alt
    BY <2>5, WrapFacts
  <2>7. s.sealed = s.key /\ Opens(s, pw)
    BY <1>4, <2>1 DEF OpensRecord
  <2>8. row # None => Opens(s, row.pw)
    <3>1. s # None
      BY <1>1, <1>2, <2>1 DEF JobOK
    <3> QED
      BY <1>1, <2>2, <2>4, <3>1 DEF PasswordInv, Unparted
  <2>9. row # None => row.pw = r.wrap
    BY <2>2, <2>6, <2>7, <2>8 DEF Opens
  <2>10. StagedFor(job'[t], r)
    <3>1. job'[t] = [job[t] EXCEPT !.at = "sent", !.tok = cookie[Home(t)]]
      BY <1>4, SetFacts DEF Stage, TInv
    <3>2. job'[t].at = "sent" /\ job'[t].new = job[t].new
      BY <1>1, <3>1 DEF JobOK, HasFields
    <3> QED
      BY <1>2, <2>1, <2>6, <2>9, <3>2 DEF StagedFor, Passed
  <2> QED
    BY <2>3, <2>6, <2>7, <2>9, <2>10, AloneUnparted DEF OnlyHere, Opens
<1> QED
  BY <1>3, <1>4

LEMMA OpenPasswords ==
    ASSUME TInv, PasswordInv, NEW t \in Tabs, OnlyHere(t), NEW d \in {Home(t)}, Unlock(t),
           parted'[d] = {}, NEW r \in {rec'[d]} \ {None}
    PROVE  Unparted(d, r)'
<1>1. d \in Devices /\ d \in DOMAIN parted /\ rec \in [Devices -> KeystoreRecord \cup {None}] /\ JobOK(job[t])
  BY Here1 DEF TInv, DiskOK
<1>2. job[t].seen \in KeystoreRecord
  BY <1>1 DEF Unlock, JobOK
<1>31. PICK s \in KeystoreRecord : s = job[t].seen
  BY <1>2
<1>3. PICK pw : s = job[t].seen /\ pw = job[t].pw
  BY <1>31
<1>4. job'[t] = Idle
  BY SetFacts DEF Unlock, TInv
<1>5. CASE ~ (OpensRecord(s, pw) /\ s.alt # None)
  <2>1. rec' = rec
    BY <1>3, <1>5 DEF Unlock
  <2>2. parted[d] = {}
    BY <1>1, MarkIs DEF Unlock
  <2> QED
    BY <1>1, <1>4, <2>1, <2>2, OverGoesOn, SamePassword DEF OnlyHere
<1>6. CASE OpensRecord(s, pw) /\ s.alt # None
  <2>1. ~ ChangeInFlight(t) /\ (row # None => pw = row.pw)
    <3> DEFINE cause == OpensRecord(s, pw) /\ s.alt # None /\ (Crossed(t, s) \/ (row # None /\ pw # row.pw))
    <3>1. parted' = Mark(parted, d, cause, "overwritten")
      BY <1>3 DEF Unlock
    <3> HIDE DEF cause
    <3>2. ~ cause
      BY <1>1, <3>1, MarkIs
    <3> QED
      BY <1>6, <3>2 DEF cause, Crossed
  <2>2. r = Collapse(s, pw)
    BY <1>1, <1>3, <1>6 DEF Unlock
  <2>3. r.sealed = s.sealed /\ r.key = s.key /\ r.wrap = IF s.alt = None \/ pw = s.wrap THEN s.wrap ELSE s.alt
    BY <2>2, WrapFacts
  <2>4. r.sealed = r.key /\ r.wrap = pw
    BY <1>6, <2>3 DEF OpensRecord, Opens
  <2>5. ~ InFlight(job'[t])
    BY <1>4 DEF InFlight, Idle
  <2> QED
    BY <2>1, <2>4, <2>5, AloneUnparted DEF OnlyHere, Opens
<1> QED
  BY <1>5, <1>6

LEMMA SealPasswords ==
    ASSUME TInv, PasswordInv, NEW t \in Tabs, OnlyHere(t), NEW d \in {Home(t)},
           CreateIdentity(t) \/ RestoreFromRecovery(t), parted'[d] = {}, NEW r \in {rec'[d]} \ {None}
    PROVE  Unparted(d, r)'
<1>1. d \in Devices /\ d \in DOMAIN parted /\ rec \in [Devices -> KeystoreRecord \cup {None}]
  BY Here1 DEF TInv, DiskOK
<1>2. PICK pw, key, ident, code :
         /\ rec' = [rec EXCEPT ![d] = SealRecord(pw, key, ident)]
         /\ job' = [job EXCEPT ![t] = [Idle EXCEPT !.kind = "publish", !.at = "sent", !.code = code,
                                                   !.tok = cookie[d]]]
         /\ parted' = [parted EXCEPT ![d] = IF row # None /\ row.pw = pw /\ ~ ChangeInFlight(t)
                                            THEN {} ELSE {"overwritten"}]
  <2>1. CASE CreateIdentity(t)
    BY <2>1 DEF CreateIdentity
  <2>2. CASE RestoreFromRecovery(t)
    <3> DEFINE c == job[t].seen.recovery.identity
    <3>1. job' = [job EXCEPT ![t] = [Idle EXCEPT !.kind = "publish", !.at = "sent", !.tok = cookie[d], !.code = c]]
      BY <2>2 DEF RestoreFromRecovery
    <3>2. /\ rec' = [rec EXCEPT ![d] = SealRecord(job[t].new, minted, c)]
          /\ parted' = [parted EXCEPT ![d] = IF row # None /\ row.pw = job[t].new /\ ~ ChangeInFlight(t)
                                             THEN {} ELSE {"overwritten"}]
      BY <2>2 DEF RestoreFromRecovery
    <3> HIDE DEF c
    <3>3. [Idle EXCEPT !.kind = "publish", !.at = "sent", !.tok = cookie[d], !.code = c]
          = [Idle EXCEPT !.kind = "publish", !.at = "sent", !.code = c, !.tok = cookie[d]]
      BY DEF Idle
    <3> QED
      BY <3>1, <3>2, <3>3
  <2> QED
    BY <2>1, <2>2
<1>3. row # None /\ row.pw = pw /\ ~ ChangeInFlight(t)
  BY <1>1, <1>2
<1>4. r = SealRecord(pw, key, ident)
  BY <1>1, <1>2
<1>5. r.wrap = pw /\ r.sealed = r.key
  BY <1>4 DEF SealRecord
<1>6. ~ InFlight(job'[t])
  <2>1. PICK j : job' = [job EXCEPT ![t] = j] /\ j = [Idle EXCEPT !.kind = "publish", !.at = "sent", !.code = code,
                                                                  !.tok = cookie[d]]
    BY <1>2
  <2>2. job'[t] = j /\ j.kind = "publish"
    <3>1. job'[t] = j
      BY <2>1, SetFacts DEF TInv
    <3> QED
      BY <2>1, <3>1 DEF Idle
  <2> QED
    BY <2>2 DEF InFlight
<1> QED
  BY <1>3, <1>5, <1>6, AloneUnparted DEF OnlyHere, Opens

LEMMA SavePasswords ==
    ASSUME TInv, PasswordInv, NEW t \in Tabs, OnlyHere(t), NEW d \in {Home(t)}, SaveDocPut(t),
           parted'[d] = {}, NEW r \in {rec'[d]} \ {None}
    PROVE  Unparted(d, r)'
<1>1. /\ d \in Devices /\ d \in DOMAIN parted /\ rec \in [Devices -> KeystoreRecord \cup {None}]
      /\ doc[t] \in LoadedDoc \cup {None}
  BY Here1 DEF TInv, DiskOK
<1>2. doc[t] \in LoadedDoc /\ doc[t].envelope \in KeystoreRecord /\ doc[t].envelope # None /\ job' = job
  BY <1>1 DEF SaveDocPut, LoadedDoc
<1>31. PICK s \in KeystoreRecord : s = doc[t].envelope
  BY <1>2
<1>3. PICK key, ident : s = doc[t].envelope /\ key = doc[t].key /\ ident = doc[t].ident
  BY <1>31
<1>4. parted[d] = {} /\ ~ Crossed(t, s) /\ key = s.key
  <2> DEFINE cause == Crossed(t, s) \/ key # s.key
  <2>1. parted' = Mark(parted, d, cause, "overwritten")
    BY <1>3 DEF SaveDocPut
  <2> HIDE DEF cause
  <2>2. parted[d] = {} /\ ~ cause
    BY <1>1, <2>1, MarkIs
  <2> QED
    BY <2>2 DEF cause
<1>5. rec[d] = s /\ ~ ChangeInFlight(t)
  BY <1>4 DEF Crossed, Here
<1>6. Unparted(d, s)
  BY <1>1, <1>2, <1>3, <1>4, <1>5 DEF PasswordInv
<1>7. r = [s EXCEPT !.sealed = key, !.ident = ident]
  BY <1>1, <1>3 DEF SaveDocPut
<1>8. r.wrap = s.wrap /\ r.alt = s.alt /\ r.key = s.key /\ r.sealed = key
  BY <1>7 DEF KeystoreRecord
<1>9. row # None => Opens(r, row.pw)
  BY <1>6, <1>8 DEF Unparted, Opens
<1>10. InFlight(job'[t]) => StagedFor(job'[t], r)
  <2>1. t \in TabsOf(d)
    BY DEF TabsOf
  <2>2. InFlight(job[t]) => StagedFor(job[t], s)
    BY <1>6, <2>1 DEF Unparted
  <2> QED
    BY <1>2, <1>8, <2>2 DEF StagedFor
<1> QED
  BY <1>4, <1>5, <1>8, <1>9, <1>10, AloneUnparted DEF OnlyHere

LEMMA GoPasswords ==
    ASSUME TInv, PasswordInv, NEW t \in Tabs, OnlyHere(t), NEW d \in {Home(t)},
           Lose(t) \/ Published(t) \/ Done(t) \/ Crash(t), parted'[d] = {}, NEW r \in {rec'[d]} \ {None}
    PROVE  Unparted(d, r)'
<1>1. d \in Devices /\ d \in DOMAIN parted /\ JobsOK /\ HasFields(job[t])
  BY Here1 DEF JobOK
<1>2. rec' = rec
  BY DEF Lose, Published, Done, Crash, disk
<1>3. parted[d] = {} /\ ChangeGoesOn(job[t], job'[t])
  <2>1. CASE Lose(t)
    <3> DEFINE cause == (job[t].at = "answered" /\ job[t].ok) /\ job[t].kind = "change"
    <3>0. PICK set : parted' = Mark(parted, d, cause, set)
      BY <2>1 DEF Lose
    <3> HIDE DEF cause
    <3>1. parted[d] = {} /\ ~ cause
      BY <1>1, <3>0, MarkIs
    <3>2. job[t].at \in {"sent", "answered"} /\ job' = [job EXCEPT ![t].at = "refused"]
      BY <2>1 DEF Lose
    <3>3. Same(job[t], job'[t]) /\ job'[t].at = "refused"
      BY <1>1, <3>2, SetAtFacts
    <3> QED
      BY <3>1, <3>2, <3>3 DEF cause, ChangeGoesOn, InFlight, Passed, Same
  <2>2. CASE Published(t) \/ Done(t)
    <3>1. parted' = parted /\ job' = [job EXCEPT ![t] = Idle]
      BY <2>2 DEF Published, Done
    <3>2. job'[t] = Idle
      BY <1>1, <3>1, SetFacts
    <3> QED
      BY <3>1, <3>2, OverGoesOn
  <2>3. CASE Crash(t)
    <3>1. parted' = parted /\ (job' = [job EXCEPT ![t].orphan = TRUE] \/ job' = [job EXCEPT ![t] = Idle])
      BY <2>3 DEF Crash
    <3>2. CASE job' = [job EXCEPT ![t].orphan = TRUE]
      <4>1. job'[t] = [job[t] EXCEPT !.orphan = TRUE]
        BY <1>1, <3>2 DEF JobsOK
      <4>2. /\ job'[t].kind = job[t].kind /\ job'[t].at = job[t].at /\ job'[t].new = job[t].new
            /\ job'[t].ok = job[t].ok
        BY <1>1, <4>1 DEF HasFields
      <4> QED
        BY <3>1, <4>2 DEF ChangeGoesOn, InFlight, Passed
    <3>3. CASE job' = [job EXCEPT ![t] = Idle]
      BY <1>1, <3>1, <3>3, SetFacts, OverGoesOn
    <3> QED
      BY <3>1, <3>2, <3>3
  <2> QED
    BY <2>1, <2>2, <2>3
<1> QED
  BY <1>1, <1>2, <1>3, SamePassword DEF OnlyHere

(* The columns that a write leaves, continued.                             *)
LEMMA IdentityKeeps ==
    ASSUME NEW r \in AccountRow
    PROVE  /\ \A pw : [r EXCEPT !.pw = pw, !.epoch = @ + 1].identity = r.identity
           /\ LET q == [r EXCEPT !.epoch = @ + 1] IN q.pw = r.pw /\ q.identity = r.identity
           /\ \A n : [r EXCEPT !.last = n].identity = r.identity
           /\ \A b : [r EXCEPT !.backup = b].identity = r.identity
           /\ \A s, n, b : [r EXCEPT !.secret = s, !.last = n, !.backup = b].identity = r.identity
           /\ \A c : [r EXCEPT !.recovery = c].identity = r.identity
           /\ \A c : [r EXCEPT !.terms = c].identity = r.identity
           /\ \A c : [r EXCEPT !.identity = c].identity = c
           /\ \A c : [r EXCEPT !.disabled = c].identity = r.identity
BY DEF AccountRow

\* The account is gone, or has the password and the identity that it had.
SameAccount == row' # None => row # None /\ row'.pw = row.pw /\ row'.identity = row.identity

\* What a handler does to the request, and to the account's password and identity.
Handles(t) ==
    /\ \A u \in Tabs \ {t} : job'[u] = job[u]
    /\ Same(job[t], job'[t])
    /\ job[t].at \in {"sent", "authed", "loaded"} /\ job'[t].at \in {"authed", "loaded", "answered"}
    /\ \/ SameAccount /\ (Passed(job'[t]) => job[t].kind \notin {"change", "publish"})
       \/ /\ job[t].kind = "change" /\ Passed(job'[t])
          /\ row' # None => row # None /\ row'.pw = job[t].new /\ row'.identity = row.identity
       \/ /\ job[t].kind = "publish" /\ Passed(job'[t])
          /\ row' # None => row # None /\ row'.pw = row.pw /\ row'.identity = job[t].code
       \/ job[t].kind = "recover" /\ (row' # None => row # None /\ row'.identity = row.identity)
       \/ job[t].kind = "signup" /\ row = None

LEMMA AnswerHandles ==
    ASSUME TInv, NEW t \in Tabs, NEW ok, NEW tok, Answer(t, ok, tok), job[t].at \in {"sent", "authed", "loaded"},
           \/ SameAccount /\ (job[t].kind \notin {"change", "publish"} \/ ok = FALSE)
           \/ /\ job[t].kind = "change" /\ ok = TRUE
              /\ row' # None => row # None /\ row'.pw = job[t].new /\ row'.identity = row.identity
           \/ /\ job[t].kind = "publish" /\ ok = TRUE
              /\ row' # None => row # None /\ row'.pw = row.pw /\ row'.identity = job[t].code
           \/ job[t].kind = "recover" /\ (row' # None => row # None /\ row'.identity = row.identity)
           \/ job[t].kind = "signup" /\ row = None
    PROVE  Handles(t)
<1>1. /\ \A u \in Tabs \ {t} : job'[u] = job[u]
      /\ Same(job[t], job'[t]) /\ job'[t].at = "answered" /\ job'[t].ok = ok
  BY AnswerFacts DEF TInv
<1>2. ok = TRUE => Passed(job'[t])
  BY <1>1 DEF Passed
<1>3. ok = FALSE => ~ Passed(job'[t])
  BY <1>1 DEF Passed
<1> QED
  BY <1>1, <1>2, <1>3 DEF Handles

LEMMA ServeHandles == ASSUME TInv, NEW t \in Tabs, Serve(t) PROVE Handles(t)
<1>1. JobsOK /\ row \in AccountRow \cup {None}
  BY DEF TInv, ServerOK, ServerTypeOK
<1>2. ASSUME row' = row PROVE SameAccount
  BY <1>2 DEF SameAccount
<1>3. CASE Authenticate(t)
  <2>1. row' = row /\ job[t].at = "sent"
    BY <1>3 DEF Authenticate, server
  <2>2. CASE Answer(t, FALSE, None)
    BY <1>2, <2>1, <2>2, AnswerHandles
  <2>3. CASE job' = [job EXCEPT ![t].at = "authed"]
    <3>1. /\ \A u \in Tabs \ {t} : job'[u] = job[u]
          /\ Same(job[t], job'[t]) /\ job'[t].at = "authed"
      BY <1>1, <2>3, SetAtFacts
    <3> QED
      BY <1>2, <2>1, <3>1 DEF Handles, Passed
  <2> QED
    BY <1>3, <2>2, <2>3 DEF Authenticate
<1>4. CASE Load(t)
  <2>1. row' = row /\ job[t].at \in {"sent", "authed"}
    BY <1>4 DEF Load
  <2>2. CASE Answer(t, FALSE, None)
    BY <1>2, <2>1, <2>2, AnswerHandles
  <2>3. CASE job' = [job EXCEPT ![t].at = "loaded", ![t].seen = row]
    <3>1. /\ \A u \in Tabs \ {t} : job'[u] = job[u]
          /\ Same(job[t], job'[t]) /\ job'[t].at = "loaded"
      BY <1>1, <2>3, LoadedFacts
    <3> QED
      BY <1>2, <2>1, <3>1 DEF Handles, Passed
  <2> QED
    BY <1>4, <2>2, <2>3 DEF Load
<1>5. CASE Me(t)
  <2>1. row' = row /\ job[t].at = "sent" /\ job[t].kind = "me" /\ \E ok, tok : Answer(t, ok, tok)
    BY <1>5 DEF Me, server
  <2> QED
    BY <1>2, <2>1, AnswerHandles
<1>6. CASE Signup(t)
  <2>1. job[t].at = "loaded" /\ job[t].kind = "signup" /\ (\E ok, tok : Answer(t, ok, tok)) /\ (row = None \/ row' = row)
    BY <1>6 DEF Signup
  <2> QED
    BY <1>2, <2>1, AnswerHandles
<1>7. CASE Login(t)
  <2>1. /\ job[t].at = "loaded" /\ job[t].kind = "login" /\ \E ok, tok : Answer(t, ok, tok)
        /\ row' = row \/ (row # None /\ row' = SpendCode(row, job[t].seen, job[t].code))
    BY <1>7 DEF Login
  <2>2. SameAccount
    <3>1. CASE row # None /\ row' = SpendCode(row, job[t].seen, job[t].code)
      <4>1. row \in AccountRow /\ \E n : row' = [row EXCEPT !.last = n] \/ row' = [row EXCEPT !.backup = n]
        BY <1>1, <3>1 DEF SpendCode
      <4>2. ASSUME NEW n, row' = [row EXCEPT !.last = n] PROVE row'.pw = row.pw /\ row'.identity = row.identity
        BY <4>1, <4>2, RowKeeps, IdentityKeeps
      <4>3. ASSUME NEW n, row' = [row EXCEPT !.backup = n] PROVE row'.pw = row.pw /\ row'.identity = row.identity
        BY <4>1, <4>3, RowKeeps, IdentityKeeps
      <4> QED
        BY <3>1, <4>1, <4>2, <4>3 DEF SameAccount
    <3> QED
      BY <1>2, <2>1, <3>1
  <2> QED
    BY <2>1, <2>2, AnswerHandles
<1>8. CASE ChangePassword(t) \/ RecoveryReset(t)
  <2>1. /\ job[t].at = "loaded" /\ job[t].kind = IF ChangePassword(t) THEN "change" ELSE "recover"
        /\ \E tok : Answer(t, TRUE, tok)
        /\ UpdatePassword(job[t].new)
    BY <1>8 DEF ChangePassword, RecoveryReset
  <2>2. row' # None => row # None /\ row'.pw = job[t].new /\ row'.identity = row.identity
    <3>1. CASE row = None
      BY <2>1, <3>1 DEF UpdatePassword
    <3>2. CASE row # None
      <4>1. row' = [row EXCEPT !.pw = job[t].new, !.epoch = @ + 1] /\ row \in AccountRow
        BY <1>1, <2>1, <3>2 DEF UpdatePassword
      <4>2. row'.pw = job[t].new /\ row'.identity = row.identity
        BY <4>1, RowKeeps, IdentityKeeps
      <4> QED
        BY <3>2, <4>2
    <3> QED
      BY <3>1, <3>2
  <2> QED
    BY <2>1, <2>2, AnswerHandles
<1>9. CASE LogoutAll(t)
  <2>1. /\ job[t].at = "loaded" /\ job[t].kind = "logoutAll" /\ \E ok, tok : Answer(t, ok, tok)
        /\ row' = IF row = None THEN row ELSE [row EXCEPT !.epoch = @ + 1]
    BY <1>9 DEF LogoutAll
  <2>2. SameAccount
    BY <1>1, <2>1, IdentityKeeps DEF SameAccount
  <2> QED
    BY <2>1, <2>2, AnswerHandles
<1>10. CASE DeleteAccount(t)
  <2>1. job[t].at = "loaded" /\ job[t].kind = "delete" /\ (\E ok, tok : Answer(t, ok, tok)) /\ row' = None
    BY <1>10 DEF DeleteAccount
  <2>2. SameAccount
    BY <2>1 DEF SameAccount
  <2> QED
    BY <2>1, <2>2, AnswerHandles
<1>11. CASE TwoFactorEnable(t) \/ TwoFactorDisable(t)
  <2>1. job[t].at = "loaded" /\ job[t].kind \in {"enable", "disable"} /\ \E ok, tok : Answer(t, ok, tok)
    BY <1>11 DEF TwoFactorEnable, TwoFactorDisable
  <2>2. row' = row \/ \E s, n, b : row # None /\ row' = [row EXCEPT !.secret = s, !.last = n, !.backup = b]
    <3>1. CASE TwoFactorEnable(t)
      <4>1. \/ row' = row
            \/ row # None /\ row' = [row EXCEPT !.secret = job[t].code.secret, !.last = 0,
                                     !.backup = {BackupCode(job[t].code.secret, b) : b \in BackupCodes}]
        BY <3>1 DEF TwoFactorEnable
      <4> QED
        BY <4>1
    <3>2. CASE TwoFactorDisable(t)
      <4>1. row' = row \/ (row # None /\ row' = [row EXCEPT !.secret = None, !.last = 0, !.backup = {}])
        BY <3>2 DEF TwoFactorDisable
      <4> QED
        BY <4>1
    <3> QED
      BY <1>11, <3>1, <3>2
  <2>3. SameAccount
    <3>1. ASSUME NEW s, NEW n, NEW b, row # None, row' = [row EXCEPT !.secret = s, !.last = n, !.backup = b]
          PROVE  SameAccount
      <4>1. row \in AccountRow
        BY <1>1, <3>1
      <4>2. row'.pw = row.pw /\ row'.identity = row.identity
        BY <3>1, <4>1, RowKeeps, IdentityKeeps
      <4> QED
        BY <3>1, <4>2 DEF SameAccount
    <3> QED
      BY <1>2, <2>2, <3>1
  <2> QED
    BY <2>1, <2>3, AnswerHandles
<1>12. CASE RecoveryEnroll(t) \/ AcceptTerms(t)
  <2>1. /\ job[t].at \in {"authed", "loaded"} /\ job[t].kind \in {"enroll", "terms"} /\ \E ok, tok : Answer(t, ok, tok)
        /\ \/ row' = row
           \/ row # None /\ \E c : row' = [row EXCEPT !.recovery = c] \/ row' = [row EXCEPT !.terms = c]
    BY <1>12 DEF RecoveryEnroll, AcceptTerms
  <2>2. SameAccount
    <3>1. ASSUME NEW c, row # None, row' = [row EXCEPT !.recovery = c] PROVE SameAccount
      <4>1. row \in AccountRow
        BY <1>1, <3>1
      <4>2. row'.pw = row.pw /\ row'.identity = row.identity
        BY <3>1, <4>1, RowKeeps, IdentityKeeps
      <4> QED
        BY <3>1, <4>2 DEF SameAccount
    <3>2. ASSUME NEW c, row # None, row' = [row EXCEPT !.terms = c] PROVE SameAccount
      <4>1. row \in AccountRow
        BY <1>1, <3>2
      <4>2. row'.pw = row.pw /\ row'.identity = row.identity
        BY <3>2, <4>1, RowKeeps, IdentityKeeps
      <4> QED
        BY <3>2, <4>2 DEF SameAccount
    <3> QED
      BY <1>2, <2>1, <3>1, <3>2
  <2> QED
    BY <2>1, <2>2, AnswerHandles
<1>13. CASE PublishKeys(t)
  <2>1. /\ job[t].at = "authed" /\ job[t].kind = "publish" /\ \E tok : Answer(t, TRUE, tok)
        /\ row' = IF row = None THEN row ELSE [row EXCEPT !.identity = job[t].code]
    BY <1>13 DEF PublishKeys
  <2>2. row' # None => row # None /\ row'.pw = row.pw /\ row'.identity = job[t].code
    BY <1>1, <2>1, RowKeeps, IdentityKeeps
  <2> QED
    BY <2>1, <2>2, AnswerHandles
<1> QED
  BY <1>3, <1>4, <1>5, <1>6, <1>7, <1>8, <1>9, <1>10, <1>11, <1>12, <1>13 DEF Serve

(* What the Worker's step says of the records.                             *)
LEMMA WorkMarks ==
    ASSUME NEW t \in Tabs, Home(t) \in Devices, NEW f, NEW g, NEW hit, NEW cut, NEW one, NEW two,
           g = Mark(Elsewhere(t, hit, one, f), Home(t), cut, two), NEW d \in Devices, g[d] = {}
    PROVE  f[d] = {} /\ (d # Home(t) /\ rec[d] # None => ~ hit) /\ (d = Home(t) => ~ cut)
<1>1. PICK e : e = Elsewhere(t, hit, one, f)
  OBVIOUS
<1>2. DOMAIN e = Devices /\ (e[d] = IF hit /\ rec[d] # None /\ d # Home(t) THEN f[d] \cup {one} ELSE f[d])
  BY <1>1 DEF Elsewhere
<1>3. e[d] = {} /\ (d = Home(t) => ~ cut)
  <2>1. CASE d = Home(t)
    BY <1>1, <1>2, <2>1, MarkIs
  <2>2. CASE d # Home(t)
    BY <1>1, <1>2, <2>2, MarkIs
  <2> QED
    BY <2>1, <2>2
<1> QED
  BY <1>2, <1>3

LEMMA WorkPasswords == ASSUME TInv, PasswordInv, NEW t \in Tabs, Work(t) PROVE PasswordInv'
<1>1. Home(t) \in Devices /\ Handles(t) /\ mode' = mode /\ rec' = rec
  BY HomeFacts, ServeHandles DEF Work, disk, limits
<1>2. /\ \A u \in Tabs \ {t} : job'[u] = job[u]
      /\ Same(job[t], job'[t])
      /\ job[t].at \in {"sent", "authed", "loaded"} /\ job'[t].at \in {"authed", "loaded", "answered"}
  BY <1>1 DEF Handles
<1> DEFINE moved == row' # None /\ (row = None \/ row.pw # row'.pw)
           cut == moved /\ job[t].kind \in {"recover", "signup"} /\ Here(t) # None
<1>3. parted' = Mark(Elsewhere(t, moved, "elsewhere", parted), Home(t), cut, "recovery")
  BY DEF Work
<1> HIDE DEF moved, cut
<1>4. ASSUME NEW d \in Devices, parted'[d] = {}
      PROVE  parted[d] = {} /\ (d # Home(t) /\ rec[d] # None => ~ moved) /\ (d = Home(t) => ~ cut)
  BY <1>1, <1>3, <1>4, WorkMarks
<1>5. ~ moved => (row' # None => row # None /\ row'.pw = row.pw)
  BY DEF moved
<1>6. ASSUME NEW d \in Devices \ {Home(t)}
      PROVE  /\ rec'[d] = rec[d]
             /\ parted'[d] = {} /\ rec[d] # None =>
                   parted[d] = {} /\ (row' # None => row # None /\ row'.pw = row.pw)
  BY <1>1, <1>4, <1>5
<1>7. ASSUME NEW d \in {Home(t)}, NEW r \in {rec'[d]} \ {None}, parted'[d] = {} PROVE Unparted(d, r)'
  <2>1. d \in Devices /\ r = rec[d] /\ r # None /\ parted[d] = {} /\ ~ cut /\ Here(t) # None
    BY <1>1, <1>4, <1>7 DEF Here
  <2>2. Unparted(d, r)
    BY <2>1 DEF PasswordInv
  <2>3. ASSUME job[t].kind = "change", Passed(job'[t]), row' # None => row'.pw = job[t].new PROVE Unparted(d, r)'
    <3>1. TabsOf(d)' = TabsOf(d) /\ TabsOf(d) \subseteq Tabs /\ t \in TabsOf(d)
      BY <1>1, <2>1 DEF TabsOf, Home
    <3>2. InFlight(job[t]) /\ job'[t].new = job[t].new
      BY <1>2, <2>3 DEF InFlight, Same
    <3>3. StagedFor(job[t], r) /\ \A u \in TabsOf(d) : InFlight(job[u]) => u = t
      BY <2>2, <3>1, <3>2 DEF Unparted
    <3>4. r.alt # None /\ r.alt = job[t].new
      BY <3>3 DEF StagedFor
    <3>5. \A u \in TabsOf(d) : InFlight(job'[u]) => u = t
      BY <1>2, <3>1, <3>3
    <3>6. StagedFor(job[t], r)'
      BY <2>3, <3>2, <3>4 DEF StagedFor
    <3>7. row' # None => Opens(r, row'.pw)
      BY <2>3, <3>4 DEF Opens
    <3>8. r.sealed = r.key
      BY <2>2 DEF Unparted
    <3>9. \A u \in TabsOf(d) : InFlight(job'[u]) => StagedFor(job[u], r)'
      BY <3>5, <3>6
    <3> QED
      BY <3>1, <3>5, <3>7, <3>8, <3>9 DEF Unparted, Opens
  <2>4. ASSUME ~ moved, job[t].kind = "change" => ~ Passed(job'[t]) PROVE Unparted(d, r)'
    <3>1. ChangeGoesOn(job[t], job'[t])
      BY <1>2, <2>4 DEF ChangeGoesOn, InFlight, Passed, Same
    <3> QED
      BY <1>1, <1>2, <1>5, <2>1, <2>2, <2>4, <3>1, StaysUnparted
  <2>5. CASE SameAccount /\ (Passed(job'[t]) => job[t].kind \notin {"change", "publish"})
    BY <2>4, <2>5 DEF SameAccount, moved
  <2>6. CASE /\ job[t].kind = "change" /\ Passed(job'[t])
             /\ row' # None => row # None /\ row'.pw = job[t].new /\ row'.identity = row.identity
    BY <2>3, <2>6
  <2>7. CASE job[t].kind = "publish" /\ (row' # None => row # None /\ row'.pw = row.pw)
    BY <2>4, <2>7 DEF moved
  <2>8. CASE job[t].kind \in {"recover", "signup"}
    BY <2>1, <2>4, <2>8 DEF cut
  <2> QED
    BY <1>1, <2>5, <2>6, <2>7, <2>8 DEF Handles
<1> QED
  BY <1>1, <1>2, <1>6, <1>7, HomePassword

(* A wiped device holds no record.                                         *)
LEMMA WipeLeaves ==
    ASSUME TInv, NEW t \in Tabs, DeletedHere(t) \/ PanicWipe(t)
    PROVE  \A d \in {Home(t)} : {rec'[d]} \ {None} = {}
<1>1. Home(t) \in Devices /\ DOMAIN rec = Devices
  BY HomeFacts DEF TInv, DiskOK
<1>2. rec' = [rec EXCEPT ![Home(t)] = None]
  BY DEF DeletedHere, PanicWipe, Wiped
<1> QED
  BY <1>1, <1>2

\* A step that writes a record, or says something of one.
Writes(t) ==
    \/ Stage(t) \/ Lose(t) \/ FinalizeChange(t) \/ RollbackChange(t) \/ Unlock(t)
    \/ CreateIdentity(t) \/ RestoreFromRecovery(t) \/ Published(t) \/ DeletedHere(t) \/ Done(t)
    \/ PanicWipe(t) \/ SaveDocPut(t) \/ Crash(t)

LEMMA WritesPasswords == ASSUME TInv, PasswordInv, NEW t \in Tabs, Writes(t) PROVE PasswordInv'
<1>1. OnlyHere(t)
  BY WritesHere DEF Writes
<1>2. \A d \in Devices \ {Home(t)} : rec'[d] = rec[d] /\ parted'[d] = parted[d]
  BY <1>1 DEF OnlyHere
<1>3. mode' = mode /\ row' = row /\ \A u \in Tabs \ {t} : job'[u] = job[u]
  BY <1>1 DEF OnlyHere, Local
<1>4. ASSUME NEW d \in {Home(t)}, NEW r \in {rec'[d]} \ {None}, parted'[d] = {} PROVE Unparted(d, r)'
  <2>1. CASE FinalizeChange(t) \/ RollbackChange(t)
    BY <1>1, <1>4, <2>1, SettlePasswords
  <2>2. CASE Stage(t)
    BY <1>1, <1>4, <2>2, StagePasswords
  <2>3. CASE Unlock(t)
    BY <1>1, <1>4, <2>3, OpenPasswords
  <2>4. CASE CreateIdentity(t) \/ RestoreFromRecovery(t)
    BY <1>1, <1>4, <2>4, SealPasswords
  <2>5. CASE SaveDocPut(t)
    BY <1>1, <1>4, <2>5, SavePasswords
  <2>6. CASE Lose(t) \/ Published(t) \/ Done(t) \/ Crash(t)
    BY <1>1, <1>4, <2>6, GoPasswords
  <2>7. CASE DeletedHere(t) \/ PanicWipe(t)
    BY <1>4, <2>7, WipeLeaves
  <2> QED
    BY <2>1, <2>2, <2>3, <2>4, <2>5, <2>6, <2>7 DEF Writes
<1> QED
  BY <1>2, <1>3, <1>4, HomePassword

(* A step of a tab is quiet, writes, or is the Worker's.                   *)
LEMMA StepSplit ==
    ASSUME TInv, [Next]_vars
    PROVE  \/ \E t \in Tabs : Quiet(t)
           \/ \E t \in Tabs : Writes(t)
           \/ \E t \in Tabs : Work(t)
           \/ Terminate /\ UNCHANGED <<disk, tabs, paper, minted, limits, causes>>
           \/ Tick /\ UNCHANGED <<disk, tabs, paper, minted, limits, causes>>
           \/ UNCHANGED vars
<1>1. ASSUME NEW t \in Tabs, NEW pw \in Passwords,
             \/ StartSignup(t, pw) \/ StartUnlock(t, pw) \/ StartEnable(t, pw) \/ StartEnroll(t, pw)
             \/ \E c \in CodesInHand : StartLogin(t, pw, c)
             \/ \E new \in Passwords : StartChange(t, pw, new)
             \/ \E c \in CodesInHand, k \in PasswordKinds \cup {"terms"} : StartRequest(t, k, pw, c)
             \/ \E c \in paper : StartRecover(t, c, pw)
             \/ StartMe(t)
      PROVE  Quiet(t)
  BY <1>1, StartQuiet
<1>2. ASSUME NEW t \in Tabs, StartMe(t) PROVE Quiet(t)
  <2>1. job[t] = Idle /\ UNCHANGED <<rec, parted, unlisted, mode, row>>
    BY <1>2 DEF StartMe, Start, disk, causes, server
  <2>2. PICK j : /\ job' = [job EXCEPT ![t] = j]
                 /\ j = [Idle EXCEPT !.kind = "me", !.at = "sent", !.tok = cookie[Home(t)]]
    BY <1>2 DEF StartMe
  <2>3. j.kind = "me"
    BY <2>2 DEF Idle
  <2>4. job'[t] = j /\ \A u \in Tabs \ {t} : job'[u] = job[u]
    BY <2>2, SetFacts DEF TInv
  <2> QED
    BY <2>1, <2>3, <2>4, BegunQuiet DEF Local
<1> QED
  BY <1>1, <1>2, TabQuiet DEF Next, Writes

(* What a termination and the clock leave.                                 *)
LEMMA StillAccount ==
    ASSUME TInv,
           \/ Terminate /\ UNCHANGED <<disk, tabs, paper, minted, limits, causes>>
           \/ Tick /\ UNCHANGED <<disk, tabs, paper, minted, limits, causes>>
           \/ UNCHANGED vars
    PROVE  /\ UNCHANGED <<mode, job, rec, parted, unlisted>>
           /\ SameAccount
<1>1. UNCHANGED <<mode, job, rec, parted, unlisted>>
  BY DEF Terminate, Tick, disk, limits, causes, vars
<1>2. CASE Terminate
  <2>1. row \in AccountRow /\ row # None /\ row' = [row EXCEPT !.disabled = TRUE]
    BY <1>2 DEF Terminate, TInv, ServerOK, ServerTypeOK
  <2>2. row'.pw = row.pw /\ row'.identity = row.identity
    BY <2>1, RowKeeps, IdentityKeeps
  <2> QED
    BY <1>1, <2>1, <2>2 DEF SameAccount
<1>3. CASE row' = row
  BY <1>1, <1>3 DEF SameAccount
<1> QED
  BY <1>2, <1>3 DEF Tick, vars, server

LEMMA StillKeeps ==
    ASSUME UNCHANGED <<mode, job, rec, parted, unlisted>>, SameAccount
    PROVE  (PasswordInv => PasswordInv') /\ (IdentityInv => IdentityInv')
<1>1. \A d \in Devices : TabsOf(d)' = TabsOf(d)
  BY DEF TabsOf, Home
<1>2. ASSUME PasswordInv PROVE PasswordInv'
  <2> SUFFICES ASSUME NEW d \in Devices, parted[d] = {}, NEW r \in {rec[d]} \ {None} PROVE Unparted(d, r)'
    BY DEF PasswordInv
  <2>1. Unparted(d, r)
    BY <1>2 DEF PasswordInv
  <2>2. \A j : StagedFor(j, r) => StagedFor(j, r)'
    BY DEF StagedFor, SameAccount
  <2> QED
    BY <1>1, <2>1, <2>2 DEF Unparted, SameAccount, Opens
<1>3. ASSUME IdentityInv PROVE IdentityInv'
  <2> SUFFICES ASSUME NEW d \in Devices, unlisted[d] = {}, NEW r \in {rec[d]} \ {None} PROVE Listed(d, r)'
    BY DEF IdentityInv
  <2>1. Listed(d, r)
    BY <1>3 DEF IdentityInv
  <2> QED
    BY <1>1, <2>1 DEF Listed, SameAccount
<1> QED
  BY <1>2, <1>3

(* In the first state a device that has a record has that of the account.  *)
LEMMA InitRecords ==
    ASSUME Init
    PROVE  PasswordInv /\ IdentityInv
<1>1. \A t \in Tabs : job[t].kind = "idle"
  BY DEF Init, Idle
<1>2. ASSUME NEW d \in Devices, NEW r \in {rec[d]} \ {None} PROVE Unparted(d, r) /\ Listed(d, r)
  <2>1. mode.start # None /\ r = [wrap |-> mode.start, alt |-> None, key |-> 0, sealed |-> 0, ident |-> 0]
    BY <1>2 DEF Init
  <2>2. row = [FreshRow(mode.start) EXCEPT !.gen = 0, !.identity = 0]
    BY <2>1 DEF Init, InitServer
  <2>3. row.pw = mode.start /\ row.identity = 0
    BY <2>2 DEF FreshRow
  <2>4. r.wrap = mode.start /\ r.sealed = r.key /\ r.ident = 0
    BY <2>1
  <2>5. \A t \in TabsOf(d) : job[t].kind = "idle"
    BY <1>1 DEF TabsOf
  <2>6. Unparted(d, r)
    BY <2>3, <2>4, <2>5 DEF Unparted, Opens, InFlight
  <2>7. Listed(d, r)
    BY <2>3, <2>4, <2>5 DEF Listed
  <2> QED
    BY <2>6, <2>7
<1> QED
  BY <1>2 DEF PasswordInv, IdentityInv

LEMMA StepPasswords == TInv /\ PasswordInv /\ [Next]_vars => PasswordInv'
<1> SUFFICES ASSUME TInv, PasswordInv, [Next]_vars PROVE PasswordInv'
  OBVIOUS
<1>1. ASSUME NEW t \in Tabs, Quiet(t) PROVE PasswordInv'
  BY <1>1, QuietKeeps
<1>2. ASSUME NEW t \in Tabs, Writes(t) PROVE PasswordInv'
  BY <1>2, WritesPasswords
<1>3. ASSUME NEW t \in Tabs, Work(t) PROVE PasswordInv'
  BY <1>3, WorkPasswords
<1>4. CASE \/ Terminate /\ UNCHANGED <<disk, tabs, paper, minted, limits, causes>>
           \/ Tick /\ UNCHANGED <<disk, tabs, paper, minted, limits, causes>>
           \/ UNCHANGED vars
  BY <1>4, StillAccount, StillKeeps
<1> QED
  BY <1>1, <1>2, <1>3, <1>4, StepSplit

(* The password that signs in opens the keystore of a device: the new wrap *)
(* is staged beside the old one before the server is told, and dropped or  *)
(* promoted by what it answered (keystore/index.ts, AuthContext.tsx).      *)
THEOREM PasswordsHold == Spec => []AccountPasswordOpens
<1>1. TInv /\ PasswordInv => AccountPasswordOpens
  <2> SUFFICES ASSUME PasswordInv, NEW d \in Devices, row # None, rec[d] # None, parted[d] = {}
               PROVE  OpensRecord(rec[d], row.pw)
    BY DEF AccountPasswordOpens
  <2>1. Unparted(d, rec[d])
    BY DEF PasswordInv
  <2> QED
    BY <2>1 DEF Unparted, OpensRecord
<1>2. Init => PasswordInv
  BY InitRecords
<1> QED
  BY <1>1, <1>2, InitTypes, StepTypes, StepPasswords, PTL DEF Spec

-----------------------------------------------------------------------------
(* The identity that is published.                                         *)

(* A record whose identity stays, as a publication does.                   *)
LEMMA SameIdentity ==
    ASSUME IdentityInv, NEW t \in Tabs, Local(t), NEW d \in Devices, NEW r, rec[d] # None,
           r.ident = rec[d].ident, unlisted[d] = {}, PublicationGoesOn(job[t], job'[t])
    PROVE  Listed(d, r)'
<1>1. Listed(d, rec[d])
  BY DEF IdentityInv
<1>2. Listed(d, r)
  BY <1>1 DEF Listed
<1> QED
  BY <1>2, StaysListed DEF Local

LEMMA SettleIdentities ==
    ASSUME TInv, IdentityInv, NEW t \in Tabs, OnlyHere(t), NEW d \in {Home(t)},
           FinalizeChange(t) \/ RollbackChange(t), unlisted'[d] = {}, NEW r \in {rec'[d]} \ {None}
    PROVE  Listed(d, r)'
<1>1. d \in Devices /\ rec \in [Devices -> KeystoreRecord \cup {None}]
  BY Here1 DEF TInv, DiskOK
<1>2. unlisted[d] = {} /\ job[t].kind = "change" /\ job' = [job EXCEPT ![t] = Idle]
  BY DEF FinalizeChange, RollbackChange
<1>3. PublicationGoesOn(job[t], job'[t])
  <2>1. job'[t] = Idle /\ ~ Unconfirmed(job[t])
    BY <1>2, SetFacts DEF TInv, Unconfirmed
  <2> QED
    BY <2>1, OverGoesOn
<1>4. rec[d] # None /\ rec[d] \in KeystoreRecord /\ (r = PromoteRewrap(rec[d]) \/ r = AbortRewrap(rec[d]))
  BY <1>1 DEF FinalizeChange, RollbackChange
<1>5. r.ident = rec[d].ident
  <2>1. PICK s \in KeystoreRecord : s = rec[d]
    BY <1>4
  <2> QED
    BY <1>4, <2>1, WrapFacts
<1> QED
  BY <1>1, <1>2, <1>3, <1>4, <1>5, SameIdentity DEF OnlyHere

LEMMA StageIdentities ==
    ASSUME TInv, IdentityInv, NEW t \in Tabs, OnlyHere(t), NEW d \in {Home(t)}, Stage(t) \/ Unlock(t),
           unlisted'[d] = {}, NEW r \in {rec'[d]} \ {None}
    PROVE  Listed(d, r)'
<1>1. /\ d \in Devices /\ d \in DOMAIN unlisted /\ JobOK(job[t]) /\ JobsOK
      /\ rec \in [Devices -> KeystoreRecord \cup {None}]
  BY Here1 DEF TInv, DiskOK
<1>2. job[t].seen \in KeystoreRecord /\ job[t].seen # None /\ job[t].kind # "publish"
  BY <1>1 DEF Stage, Unlock, JobOK
<1>31. PICK s \in KeystoreRecord : s = job[t].seen
  BY <1>2
<1>3. PICK pw, new : s = job[t].seen /\ pw = job[t].pw /\ new = job[t].new
  BY <1>31
<1> DEFINE put == OpensRecord(s, pw) /\ (Stage(t) \/ s.alt # None)
           cause == put /\ rec[d] # s
<1>4. unlisted' = Mark(unlisted, d, cause, "overwritten") /\ (~ put => rec' = rec)
  <2>1. CASE Stage(t)
    BY <1>3, <2>1 DEF Stage
  <2>2. CASE Unlock(t)
    <3>1. job[t].at = "opening"
      BY <2>2 DEF Unlock
    <3>2. ~ Stage(t)
      BY <3>1 DEF Stage
    <3> QED
      BY <1>3, <2>2, <3>2 DEF Unlock
  <2> QED
    BY <2>1, <2>2
<1>5. put => rec' = [rec EXCEPT ![d] = StageRewrap(s, pw, new)] \/ rec' = [rec EXCEPT ![d] = Collapse(s, pw)]
  <2>1. CASE Stage(t)
    BY <1>3, <2>1 DEF Stage
  <2>2. CASE Unlock(t)
    <3>1. job[t].at = "opening"
      BY <2>2 DEF Unlock
    <3>2. ~ Stage(t)
      BY <3>1 DEF Stage
    <3> QED
      BY <1>3, <2>2, <3>2 DEF Unlock
  <2> QED
    BY <2>1, <2>2
<1>6. PublicationGoesOn(job[t], job'[t])
  <2>1. job'[t].kind # "publish"
    <3>1. job' = [job EXCEPT ![t] = Idle] \/ job' = [job EXCEPT ![t] = [job[t] EXCEPT !.at = "sent", !.tok = cookie[d]]]
      BY DEF Stage, Unlock
    <3>2. CASE job' = [job EXCEPT ![t] = Idle]
      BY <1>1, <3>2, SetFacts DEF Idle
    <3>3. CASE job' = [job EXCEPT ![t] = [job[t] EXCEPT !.at = "sent", !.tok = cookie[d]]]
      <4>1. job'[t] = [job[t] EXCEPT !.at = "sent", !.tok = cookie[d]]
        BY <1>1, <3>3, SetFacts
      <4>2. job'[t].kind = job[t].kind
        BY <1>1, <4>1 DEF JobOK, HasFields
      <4> QED
        BY <1>2, <4>2
    <3> QED
      BY <3>1, <3>2, <3>3
  <2> QED
    BY <1>2, <2>1 DEF PublicationGoesOn, Unconfirmed
<1> HIDE DEF cause
<1>7. unlisted[d] = {} /\ ~ cause
  BY <1>1, <1>4, MarkIs
<1> HIDE DEF put
<1>8. CASE ~ put
  BY <1>1, <1>4, <1>6, <1>7, <1>8, SameIdentity DEF OnlyHere
<1>9. CASE put
  <2>1. rec[d] = s /\ s # None
    BY <1>2, <1>3, <1>7, <1>9 DEF cause
  <2>2. r = StageRewrap(s, pw, new) \/ r = Collapse(s, pw)
    BY <1>1, <1>5, <1>9
  <2>3. r.ident = s.ident
    BY <2>2, WrapFacts
  <2> QED
    BY <1>1, <1>6, <1>7, <2>1, <2>3, SameIdentity DEF OnlyHere
<1> QED
  BY <1>8, <1>9

LEMMA SaveIdentities ==
    ASSUME TInv, IdentityInv, NEW t \in Tabs, OnlyHere(t), NEW d \in {Home(t)}, SaveDocPut(t),
           unlisted'[d] = {}, NEW r \in {rec'[d]} \ {None}
    PROVE  Listed(d, r)'
<1>1. /\ d \in Devices /\ d \in DOMAIN unlisted /\ rec \in [Devices -> KeystoreRecord \cup {None}]
      /\ doc[t] \in LoadedDoc \cup {None}
  BY Here1 DEF TInv, DiskOK
<1>2. doc[t] \in LoadedDoc /\ doc[t].envelope \in KeystoreRecord /\ doc[t].envelope # None /\ job' = job
  BY <1>1 DEF SaveDocPut, LoadedDoc
<1>31. PICK s \in KeystoreRecord : s = doc[t].envelope
  BY <1>2
<1>3. PICK key, ident : s = doc[t].envelope /\ key = doc[t].key /\ ident = doc[t].ident
  BY <1>31
<1>4. unlisted[d] = {} /\ ~ Crossed(t, s) /\ ident = rec[d].ident
  <2> DEFINE cause == Crossed(t, s) \/ ident # rec[d].ident
  <2>1. unlisted' = Mark(unlisted, d, cause, "overwritten")
    BY <1>3 DEF SaveDocPut
  <2> HIDE DEF cause
  <2>2. unlisted[d] = {} /\ ~ cause
    BY <1>1, <2>1, MarkIs
  <2> QED
    BY <2>2 DEF cause
<1>5. rec[d] = s /\ rec[d] # None
  BY <1>2, <1>3, <1>4 DEF Crossed, Here
<1>6. r = [s EXCEPT !.sealed = key, !.ident = ident]
  BY <1>1, <1>3 DEF SaveDocPut
<1>7. r.ident = ident
  BY <1>6 DEF KeystoreRecord
<1>8. PublicationGoesOn(job[t], job'[t])
  BY <1>2 DEF PublicationGoesOn, Unconfirmed
<1> QED
  BY <1>1, <1>4, <1>5, <1>7, <1>8, SameIdentity DEF OnlyHere

LEMMA SealIdentities ==
    ASSUME TInv, IdentityInv, NEW t \in Tabs, OnlyHere(t), NEW d \in {Home(t)},
           CreateIdentity(t) \/ RestoreFromRecovery(t), unlisted'[d] = {}, NEW r \in {rec'[d]} \ {None}
    PROVE  Listed(d, r)'
<1>1. d \in Devices /\ d \in DOMAIN unlisted /\ rec \in [Devices -> KeystoreRecord \cup {None}] /\ JobsOK
  BY Here1 DEF TInv, DiskOK
<1>2. PICK pw, ident :
         /\ rec' = [rec EXCEPT ![d] = SealRecord(pw, minted, ident)]
         /\ \E j : /\ job' = [job EXCEPT ![t] = j]
                   /\ j = [Idle EXCEPT !.kind = "publish", !.at = "sent", !.code = ident, !.tok = cookie[d]]
         /\ ~ OtherPublished(t, ident)
  <2>1. CASE CreateIdentity(t)
    BY <1>1, <2>1 DEF CreateIdentity
  <2>2. CASE RestoreFromRecovery(t)
    <3> DEFINE c == job[t].seen.recovery.identity
    <3>1. job' = [job EXCEPT ![t] = [Idle EXCEPT !.kind = "publish", !.at = "sent", !.tok = cookie[d], !.code = c]]
      BY <2>2 DEF RestoreFromRecovery
    <3>2. rec' = [rec EXCEPT ![d] = SealRecord(job[t].new, minted, c)] /\ ~ OtherPublished(t, c)
      BY <1>1, <2>2 DEF RestoreFromRecovery
    <3> HIDE DEF c
    <3>3. [Idle EXCEPT !.kind = "publish", !.at = "sent", !.tok = cookie[d], !.code = c]
          = [Idle EXCEPT !.kind = "publish", !.at = "sent", !.code = c, !.tok = cookie[d]]
      BY DEF Idle
    <3> QED
      BY <3>1, <3>2, <3>3
  <2> QED
    BY <2>1, <2>2
<1>3. r = SealRecord(pw, minted, ident)
  BY <1>1, <1>2
<1>4. r.ident = ident
  BY <1>3 DEF SealRecord
<1>5. job'[t].kind = "publish" /\ job'[t].code = ident /\ job'[t].at = "sent"
  <2>1. PICK j : /\ job' = [job EXCEPT ![t] = j]
                 /\ j = [Idle EXCEPT !.kind = "publish", !.at = "sent", !.code = ident, !.tok = cookie[d]]
    BY <1>2
  <2>2. job'[t] = j
    BY <1>1, <2>1, SetFacts
  <2>3. j.kind = "publish" /\ j.code = ident /\ j.at = "sent"
    BY <2>1 DEF Idle
  <2> QED
    BY <2>2, <2>3
<1>6. TabsOf(d)' = TabsOf(d) /\ t \in TabsOf(d) /\ \A u \in TabsOf(d) \ {t} : job'[u] = job[u]
  BY DEF TabsOf, Home, OnlyHere, Local
<1>7. \A u \in TabsOf(d) : job'[u].kind = "publish" => job'[u].code = ident
  BY <1>2, <1>5, <1>6 DEF OtherPublished
<1>8. Unconfirmed(job'[t])
  BY <1>5 DEF Unconfirmed, Passed
<1> QED
  BY <1>4, <1>6, <1>7, <1>8 DEF Listed

LEMMA GoIdentities ==
    ASSUME TInv, IdentityInv, NEW t \in Tabs, OnlyHere(t), NEW d \in {Home(t)},
           Lose(t) \/ Published(t) \/ Done(t) \/ Crash(t), unlisted'[d] = {}, NEW r \in {rec'[d]} \ {None}
    PROVE  Listed(d, r)'
<1>1. d \in Devices /\ d \in DOMAIN unlisted /\ JobsOK /\ HasFields(job[t])
  BY Here1 DEF JobOK
<1>2. rec' = rec
  BY DEF Lose, Published, Done, Crash, disk
<1>3. ASSUME NEW cause, \E set : unlisted' = Mark(unlisted, d, cause, set),
             ~ cause => ~ Unconfirmed(job[t]), job' = [job EXCEPT ![t] = Idle]
      PROVE  unlisted[d] = {} /\ PublicationGoesOn(job[t], job'[t])
  <2>1. unlisted[d] = {} /\ ~ cause
    BY <1>1, <1>3, MarkIs
  <2>2. job'[t] = Idle
    BY <1>1, <1>3, SetFacts
  <2> QED
    BY <1>3, <2>1, <2>2, OverGoesOn
<1>4. CASE Lose(t)
  <2>1. unlisted' = unlisted /\ job' = [job EXCEPT ![t].at = "refused"]
    BY <1>4 DEF Lose
  <2>2. Same(job[t], job'[t]) /\ job'[t].at = "refused"
    BY <1>1, <2>1, SetAtFacts
  <2>3. PublicationGoesOn(job[t], job'[t])
    BY <2>2 DEF PublicationGoesOn, Passed, Unconfirmed, Same
  <2> QED
    BY <1>1, <1>2, <2>1, <2>3, SameIdentity DEF OnlyHere
<1>5. CASE Published(t)
  <2> DEFINE cause == job[t].at = "refused"
  <2>1. \E set : unlisted' = Mark(unlisted, d, cause, set)
    BY <1>5 DEF Published
  <2>2. ~ cause => ~ Unconfirmed(job[t])
    BY <1>5 DEF Published, Unconfirmed, Passed
  <2>3. job' = [job EXCEPT ![t] = Idle]
    BY <1>5 DEF Published
  <2> HIDE DEF cause
  <2>4. unlisted[d] = {} /\ PublicationGoesOn(job[t], job'[t])
    BY <1>3, <2>1, <2>2, <2>3
  <2> QED
    BY <1>1, <1>2, <2>4, SameIdentity DEF OnlyHere
<1>6. CASE Done(t)
  <2> DEFINE cause == job[t].kind = "publish" /\ ~ job[t].ok
  <2>1. \E set : unlisted' = Mark(unlisted, d, cause, set)
    BY <1>6 DEF Done
  <2>2. ~ cause => ~ Unconfirmed(job[t])
    <3>1. job[t].kind = "publish" => job[t].at = "answered"
      BY <1>6 DEF Done
    <3> QED
      BY <3>1 DEF Unconfirmed, Passed
  <2>3. job' = [job EXCEPT ![t] = Idle]
    BY <1>6 DEF Done
  <2> HIDE DEF cause
  <2>4. unlisted[d] = {} /\ PublicationGoesOn(job[t], job'[t])
    BY <1>3, <2>1, <2>2, <2>3
  <2> QED
    BY <1>1, <1>2, <2>4, SameIdentity DEF OnlyHere
<1>7. CASE Crash(t)
  <2>1. CASE job' = [job EXCEPT ![t].orphan = TRUE] /\ UNCHANGED unlisted
    <3>1. job'[t] = [job[t] EXCEPT !.orphan = TRUE]
      BY <1>1, <2>1 DEF JobsOK
    <3>2. /\ job'[t].kind = job[t].kind /\ job'[t].at = job[t].at /\ job'[t].code = job[t].code
          /\ job'[t].ok = job[t].ok
      BY <1>1, <3>1 DEF HasFields
    <3>3. PublicationGoesOn(job[t], job'[t])
      BY <3>2 DEF PublicationGoesOn, Unconfirmed, Passed
    <3> QED
      BY <1>1, <1>2, <2>1, <3>3, SameIdentity DEF OnlyHere
  <2>2. CASE ~ (job' = [job EXCEPT ![t].orphan = TRUE] /\ UNCHANGED unlisted)
    <3> DEFINE cause == job[t].kind = "publish" /\ job[t].at # "received"
    <3>1. job' = [job EXCEPT ![t] = Idle] /\ \E set : unlisted' = Mark(unlisted, d, cause, set)
      BY <1>7, <2>2 DEF Crash
    <3>2. ~ cause => ~ Unconfirmed(job[t])
      BY DEF Unconfirmed, Passed
    <3> HIDE DEF cause
    <3>3. unlisted[d] = {} /\ PublicationGoesOn(job[t], job'[t])
      BY <1>3, <3>1, <3>2
    <3> QED
      BY <1>1, <1>2, <3>3, SameIdentity DEF OnlyHere
  <2> QED
    BY <2>1, <2>2
<1> QED
  BY <1>4, <1>5, <1>6, <1>7

LEMMA WorkIdentities == ASSUME TInv, IdentityInv, NEW t \in Tabs, Work(t) PROVE IdentityInv'
<1>1. Home(t) \in Devices /\ Handles(t) /\ mode' = mode /\ rec' = rec
  BY HomeFacts, ServeHandles DEF Work, disk, limits
<1>2. /\ \A u \in Tabs \ {t} : job'[u] = job[u]
      /\ Same(job[t], job'[t])
      /\ job[t].at \in {"sent", "authed", "loaded"} /\ job'[t].at \in {"authed", "loaded", "answered"}
  BY <1>1 DEF Handles
<1> DEFINE listed == row' # None /\ (row = None \/ row.identity # row'.identity)
           cut == row = None /\ row' # None /\ Here(t) # None
<1>3. PICK two : unlisted' = Mark(Elsewhere(t, listed, "elsewhere", unlisted), Home(t), cut, two)
  BY DEF Work
<1> HIDE DEF listed, cut
<1>4. ASSUME NEW d \in Devices, unlisted'[d] = {}
      PROVE  unlisted[d] = {} /\ (d # Home(t) /\ rec[d] # None => ~ listed) /\ (d = Home(t) => ~ cut)
  BY <1>1, <1>3, <1>4, WorkMarks
<1>5. ~ listed => (row' # None => row # None /\ row'.identity = row.identity)
  BY DEF listed
<1>6. ASSUME NEW d \in Devices \ {Home(t)}
      PROVE  /\ rec'[d] = rec[d]
             /\ unlisted'[d] = {} /\ rec[d] # None =>
                   unlisted[d] = {} /\ (row' # None => row # None /\ row'.identity = row.identity)
  BY <1>1, <1>4, <1>5
<1>7. ASSUME NEW d \in {Home(t)}, NEW r \in {rec'[d]} \ {None}, unlisted'[d] = {} PROVE Listed(d, r)'
  <2>1. d \in Devices /\ r = rec[d] /\ r # None /\ unlisted[d] = {} /\ ~ cut /\ Here(t) # None
    BY <1>1, <1>4, <1>7 DEF Here
  <2>2. Listed(d, r)
    BY <2>1 DEF IdentityInv
  <2>3. ASSUME job[t].kind = "publish", row' # None => row'.identity = job[t].code PROVE Listed(d, r)'
    <3>1. TabsOf(d)' = TabsOf(d) /\ TabsOf(d) \subseteq Tabs /\ t \in TabsOf(d)
      BY <1>1, <2>1 DEF TabsOf, Home
    <3>2. \A u \in TabsOf(d) : job'[u].kind = job[u].kind /\ job'[u].code = job[u].code
      BY <1>2, <3>1 DEF Same
    <3>3. \A u \in TabsOf(d) : job[u].kind = "publish" => job[u].code = r.ident
      BY <2>2 DEF Listed
    <3>4. row' # None => row'.identity = r.ident
      BY <2>3, <3>1, <3>3
    <3> QED
      BY <3>1, <3>2, <3>3, <3>4 DEF Listed
  <2>4. ASSUME row' # None => row # None /\ row'.identity = row.identity,
               job[t].kind = "publish" => ~ Passed(job'[t])
        PROVE  Listed(d, r)'
    <3>1. PublicationGoesOn(job[t], job'[t])
      BY <1>2, <2>4 DEF PublicationGoesOn, Unconfirmed, Same
    <3> QED
      BY <1>1, <1>2, <2>1, <2>2, <2>4, <3>1, StaysListed
  <2>5. CASE SameAccount /\ (Passed(job'[t]) => job[t].kind \notin {"change", "publish"})
    BY <2>4, <2>5 DEF SameAccount
  <2>6. CASE job[t].kind \in {"change", "recover"} /\ (row' # None => row # None /\ row'.identity = row.identity)
    BY <2>4, <2>6
  <2>7. CASE job[t].kind = "publish" /\ (row' # None => row # None /\ row'.pw = row.pw /\ row'.identity = job[t].code)
    BY <2>3, <2>7
  <2>8. CASE job[t].kind = "signup" /\ row = None
    <3>1. row' = None
      BY <2>1, <2>8 DEF cut
    <3> QED
      BY <2>4, <2>8, <3>1
  <2> QED
    BY <1>1, <2>5, <2>6, <2>7, <2>8 DEF Handles
<1> QED
  BY <1>1, <1>2, <1>6, <1>7, HomeIdentity

LEMMA WritesIdentities == ASSUME TInv, IdentityInv, NEW t \in Tabs, Writes(t) PROVE IdentityInv'
<1>1. OnlyHere(t)
  BY WritesHere DEF Writes
<1>2. \A d \in Devices \ {Home(t)} : rec'[d] = rec[d] /\ unlisted'[d] = unlisted[d]
  BY <1>1 DEF OnlyHere
<1>3. mode' = mode /\ row' = row /\ \A u \in Tabs \ {t} : job'[u] = job[u]
  BY <1>1 DEF OnlyHere, Local
<1>4. ASSUME NEW d \in {Home(t)}, NEW r \in {rec'[d]} \ {None}, unlisted'[d] = {} PROVE Listed(d, r)'
  <2>1. CASE FinalizeChange(t) \/ RollbackChange(t)
    BY <1>1, <1>4, <2>1, SettleIdentities
  <2>2. CASE Stage(t) \/ Unlock(t)
    BY <1>1, <1>4, <2>2, StageIdentities
  <2>3. CASE CreateIdentity(t) \/ RestoreFromRecovery(t)
    BY <1>1, <1>4, <2>3, SealIdentities
  <2>4. CASE SaveDocPut(t)
    BY <1>1, <1>4, <2>4, SaveIdentities
  <2>5. CASE Lose(t) \/ Published(t) \/ Done(t) \/ Crash(t)
    BY <1>1, <1>4, <2>5, GoIdentities
  <2>6. CASE DeletedHere(t) \/ PanicWipe(t)
    BY <1>4, <2>6, WipeLeaves
  <2> QED
    BY <2>1, <2>2, <2>3, <2>4, <2>5, <2>6 DEF Writes
<1> QED
  BY <1>2, <1>3, <1>4, HomeIdentity

LEMMA StepIdentities == TInv /\ IdentityInv /\ [Next]_vars => IdentityInv'
<1> SUFFICES ASSUME TInv, IdentityInv, [Next]_vars PROVE IdentityInv'
  OBVIOUS
<1>1. ASSUME NEW t \in Tabs, Quiet(t) PROVE IdentityInv'
  BY <1>1, QuietKeeps
<1>2. ASSUME NEW t \in Tabs, Writes(t) PROVE IdentityInv'
  BY <1>2, WritesIdentities
<1>3. ASSUME NEW t \in Tabs, Work(t) PROVE IdentityInv'
  BY <1>3, WorkIdentities
<1>4. CASE \/ Terminate /\ UNCHANGED <<disk, tabs, paper, minted, limits, causes>>
           \/ Tick /\ UNCHANGED <<disk, tabs, paper, minted, limits, causes>>
           \/ UNCHANGED vars
  BY <1>4, StillAccount, StillKeeps
<1> QED
  BY <1>1, <1>2, <1>3, <1>4, StepSplit

(* The identity others are served is the one that the device holds, once   *)
(* no publication of it is under way: publishIdentityMaterial is sent      *)
(* whenever the record is made anew, and nothing else changes either side  *)
(* (AuthContext.tsx, users.ts).                                            *)
THEOREM IdentitiesHold == Spec => []HeldIdentityIsPublished
<1>1. TInv /\ IdentityInv => HeldIdentityIsPublished
  <2> SUFFICES ASSUME IdentityInv, NEW d \in Devices, row # None, rec[d] # None, unlisted[d] = {},
                      \A t \in TabsOf(d) : job[t].kind # "publish"
               PROVE  row.identity = rec[d].ident
    BY DEF HeldIdentityIsPublished
  <2>1. Listed(d, rec[d])
    BY DEF IdentityInv
  <2> QED
    BY <2>1 DEF Listed, Unconfirmed
<1>2. Init => IdentityInv
  BY InitRecords
<1> QED
  BY <1>1, <1>2, InitTypes, StepTypes, StepIdentities, PTL DEF Spec

=============================================================================
