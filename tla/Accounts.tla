------------------------------ MODULE Accounts ------------------------------
(***************************************************************************)
(* The Worker's account handlers (index.ts, auth.ts, db.ts, totp.ts,       *)
(* account.ts) over one name: its row, the session tokens signed for it,   *)
(* and the requests being handled.  Each D1 statement is atomic and        *)
(* nothing else is: a handler authenticates, reads the row, spends an      *)
(* Argon2id on it, and writes; other requests run in between.              *)
(*                                                                         *)
(* A password, a recovery code or a TOTP secret is a value nobody guesses; *)
(* a token is what its payload says.  The rate limiter may refuse whoever  *)
(* it limits: its counters are in Prekeys.tla.  Lifetimes are left out: an *)
(* expired token is one that is never presented.                           *)
(***************************************************************************)
EXTENDS Naturals, FiniteSets

CONSTANTS
    Tabs,         \* where requests come from
    Passwords,    \* a password is chosen once in the life of a name
    BackupCodes,  \* the backup codes handed out by one enabling of two-factor
    MaxClock,     \* the last TOTP period of the run
    None          \* no row, no token, no code, no identity

ASSUME AccountsAssumption == MaxClock \in Nat \ {0}

VARIABLES
    row,      \* the users row of the name, or None
    banned,   \* the name is in banned_usernames
    clock,    \* the current TOTP period
    job,      \* per tab: what it is doing, with its request and the reply
    used,     \* the passwords the name ever had
    born,     \* how many accounts have had the name
    spent,    \* how often a second-factor code was accepted
    raced     \* has a second factor been verified while another verification was under way

server == <<row, banned, clock, used, born, spent, raced>>

Idle == [kind |-> "idle", at |-> "idle", tok |-> None, pw |-> None, new |-> None,
         code |-> None, seen |-> None, ok |-> FALSE, orphan |-> FALSE]

\* Behind readAuthenticatedUsername; the others authenticate by their content.
AuthedKinds == {"change", "logoutAll", "enable", "disable", "enroll", "delete", "terms", "publish"}
PasswordKinds == {"change", "logoutAll", "enable", "disable", "enroll", "delete"}
RateLimited == {"signup", "login", "change", "disable", "recover"}

TotpCode(s, n) == [secret |-> s, step |-> n, backup |-> None]
BackupCode(s, b) == [secret |-> s, step |-> 0, backup |-> b]

FreshRow(pw) ==
    [gen |-> born, pw |-> pw, epoch |-> 0, secret |-> None, last |-> 0,
     backup |-> {}, recovery |-> None, identity |-> None, terms |-> FALSE, disabled |-> FALSE]

Token(r, epoch, pw) == [gen |-> r.gen, epoch |-> epoch, pw |-> pw]

InitServer(pw, identity) ==
    /\ used = IF pw = None THEN {} ELSE {pw}
    /\ born = IF pw = None THEN 0 ELSE 1
    /\ row = IF pw = None THEN None ELSE [FreshRow(pw) EXCEPT !.gen = 0, !.identity = identity]
    /\ banned = FALSE
    /\ clock = 1
    /\ spent = [c \in {} |-> 0]
    /\ raced = FALSE

-----------------------------------------------------------------------------
(* Tokens.                                                                 *)

\* verifySessionPayload and the checks of readAuthenticatedUsername on the row.  The payload
\* is the name and the epoch: gen and pw say where a token comes from, and only properties
\* look at them.
Authenticates(tok) ==
    /\ tok # None
    /\ row # None
    /\ tok.epoch = row.epoch
    /\ ~ row.disabled

-----------------------------------------------------------------------------
(* The second factor.                                                      *)

\* Mutant: any step of the window does, used or not.
TotpOpensAgain(r, c) == c.backup = None /\ c.secret = r.secret /\ c.step \in clock - 1 .. clock + 1

\* verifyTotp: within a step of now, after the last one that was accepted.
TotpOpens(r, c) ==
    /\ c.backup = None
    /\ c.secret = r.secret
    /\ c.step \in clock - 1 .. clock + 1
    /\ c.step > r.last

BackupOpens(r, c) == c.backup # None /\ c \in r.backup

SecondFactorOpens(r, c) == c # None /\ (TotpOpens(r, c) \/ BackupOpens(r, c))

\* setTotpLastStep or setBackupCodeHashes: one column, computed from the row read before.
SpendCode(r, seen, c) ==
    IF c.backup = None THEN [r EXCEPT !.last = c.step]
    ELSE [r EXCEPT !.backup = seen.backup \ {c}]

\* A verification is under way in another request.
Verifying(t) ==
    \E u \in Tabs \ {t} :
        job[u].at = "loaded" /\ job[u].kind \in {"login", "disable"} /\ job[u].code # None

Accepted(c) ==
    spent' = [x \in DOMAIN spent \cup {c} |->
                 (IF x \in DOMAIN spent THEN spent[x] ELSE 0) + IF x = c THEN 1 ELSE 0]

-----------------------------------------------------------------------------
(* A request up to its write.                                              *)

Answer(t, ok, tok) == job' = [job EXCEPT ![t].at = "answered", ![t].ok = ok, ![t].tok = tok]

\* What the token read from the request entitles to: nothing that was revoked.
Authenticate(t) ==
    /\ job[t].at = "sent"
    /\ job[t].kind \in AuthedKinds
    /\ IF Authenticates(job[t].tok)
       THEN job' = [job EXCEPT ![t].at = "authed"]
       ELSE Answer(t, FALSE, None)
    /\ UNCHANGED server

\* Does the row that was read let the request through?  Where two-factor is off nothing is
\* left of "disable".
Admits(r, j) ==
    CASE j.kind = "signup" -> r = None /\ ~ banned
      [] j.kind = "login" ->
            /\ r # None
            /\ j.pw = r.pw
            /\ ~ r.disabled
            /\ r.secret # None => SecondFactorOpens(r, j.code)
      [] j.kind = "disable" ->
            r # None /\ j.pw = r.pw /\ (r.secret # None => SecondFactorOpens(r, j.code))
      [] j.kind = "recover" -> r # None /\ r.recovery # None /\ j.code.code = r.recovery.code
      [] j.kind \in PasswordKinds \ {"disable"} -> r # None /\ j.pw = r.pw
      [] OTHER -> TRUE

\* checkRateLimit, getUser, verifyPassword or verifyTwoFactor: the row as it is now is
\* what the rest of the handler works from.
Load(t) ==
    /\ \/ job[t].at = "authed" /\ job[t].kind \in PasswordKinds
       \/ job[t].at = "sent" /\ job[t].kind \in {"signup", "login", "recover"}
    /\ \/ /\ Admits(row, job[t])
          /\ job' = [job EXCEPT ![t].at = "loaded", ![t].seen = row]
          /\ raced' = (raced \/ (job[t].kind \in {"login", "disable"} /\ job[t].code # None /\ Verifying(t)))
       \/ /\ ~ Admits(row, job[t]) \/ job[t].kind \in RateLimited
          /\ Answer(t, FALSE, None)
          /\ UNCHANGED raced
    /\ UNCHANGED <<row, banned, clock, used, born, spent>>

-----------------------------------------------------------------------------
(* The writes.  An UPDATE of a row that is gone changes nothing.           *)

\* createUser: the primary key refuses the second of two that both found the name free.
Signup(t) ==
    /\ job[t].at = "loaded" /\ job[t].kind = "signup"
    /\ IF row = None
       THEN /\ row' = FreshRow(job[t].pw)
            /\ used' = used \cup {job[t].pw} /\ born' = born + 1
            /\ Answer(t, TRUE, Token(FreshRow(job[t].pw), 0, job[t].pw))
       ELSE Answer(t, FALSE, None) /\ UNCHANGED <<row, used, born>>
    /\ UNCHANGED <<banned, clock, spent, raced>>

\* Mutant: the token is signed for the epoch the row has by now.
LoginLate(t) ==
    LET j == job[t] IN
    /\ j.at = "loaded" /\ j.kind = "login"
    /\ Answer(t, TRUE, Token(j.seen, IF row = None THEN 0 ELSE row.epoch, j.pw))
    /\ UNCHANGED server

\* handleLogin after verifyPassword: the code is spent, the token is signed for the epoch
\* that was read with the verifier.
Login(t) ==
    LET j == job[t]
        second == j.seen.secret # None
    IN  /\ j.at = "loaded" /\ j.kind = "login"
        /\ row' = IF second /\ row # None THEN SpendCode(row, j.seen, j.code) ELSE row
        /\ IF second THEN Accepted(j.code) ELSE UNCHANGED spent
        /\ Answer(t, TRUE, Token(j.seen, j.seen.epoch, j.pw))
        /\ UNCHANGED <<banned, clock, used, born, raced>>

\* handleMe: one read, no write; the same sign-in slides on.
Me(t) ==
    /\ job[t].at = "sent" /\ job[t].kind = "me"
    /\ IF Authenticates(job[t].tok)
       THEN Answer(t, TRUE, [job[t].tok EXCEPT !.epoch = row.epoch])
       ELSE Answer(t, FALSE, None)
    /\ UNCHANGED server

\* updatePassword: verifier and epoch in one statement.
UpdatePassword(pw) ==
    IF row = None THEN row' = row ELSE row' = [row EXCEPT !.pw = pw, !.epoch = @ + 1]

\* handleChangePassword: the token is signed for the epoch after the one read.
ChangePassword(t) ==
    LET j == job[t] IN
    /\ j.at = "loaded" /\ j.kind = "change"
    /\ UpdatePassword(j.new)
    /\ used' = used \cup {j.new}
    /\ Answer(t, TRUE, Token(j.seen, j.seen.epoch + 1, j.new))
    /\ UNCHANGED <<banned, clock, born, spent, raced>>

\* handleRecoveryReset: no second factor; the reply carries the blob that was read.
RecoveryReset(t) ==
    LET j == job[t] IN
    /\ j.at = "loaded" /\ j.kind = "recover"
    /\ UpdatePassword(j.new)
    /\ used' = used \cup {j.new}
    /\ Answer(t, TRUE, Token(j.seen, j.seen.epoch + 1, j.new))
    /\ UNCHANGED <<banned, clock, born, spent, raced>>

\* handleLogoutAll, bumpTokenEpoch.
LogoutAll(t) ==
    /\ job[t].at = "loaded" /\ job[t].kind = "logoutAll"
    /\ row' = IF row = None THEN row ELSE [row EXCEPT !.epoch = @ + 1]
    /\ Answer(t, TRUE, None)
    /\ UNCHANGED <<banned, clock, used, born, spent, raced>>

\* handleTwoFactorEnable, setTotp: a replacement resets the mark with the secret.
TwoFactorEnable(t) ==
    LET j == job[t] IN
    /\ j.at = "loaded" /\ j.kind = "enable"
    /\ IF TotpOpens([secret |-> j.code.secret, last |-> 0], j.code)
       THEN /\ row' = IF row = None THEN row
                      ELSE [row EXCEPT !.secret = j.code.secret, !.last = 0,
                                       !.backup = {BackupCode(j.code.secret, b) : b \in BackupCodes}]
            /\ Answer(t, TRUE, j.tok)
       ELSE Answer(t, FALSE, None) /\ UNCHANGED row
    /\ UNCHANGED <<banned, clock, used, born, spent, raced>>

\* handleTwoFactorDisable: the spending of the code and clearTotp are one step here, the
\* second overwrites the first.
TwoFactorDisable(t) ==
    LET j == job[t]
        second == j.seen.secret # None
    IN  /\ j.at = "loaded" /\ j.kind = "disable"
        /\ IF second
           THEN /\ row' = IF row = None THEN row
                          ELSE [row EXCEPT !.secret = None, !.last = 0, !.backup = {}]
                /\ Accepted(j.code)
           ELSE UNCHANGED <<row, spent>>
        /\ Answer(t, TRUE, j.tok)
        /\ UNCHANGED <<banned, clock, used, born, raced>>

\* handleRecoveryEnroll, setRecovery: all four columns at once, the earlier code is gone.
RecoveryEnroll(t) ==
    /\ job[t].at = "loaded" /\ job[t].kind = "enroll"
    /\ row' = IF row = None THEN row ELSE [row EXCEPT !.recovery = job[t].code]
    /\ Answer(t, TRUE, job[t].tok)
    /\ UNCHANGED <<banned, clock, used, born, spent, raced>>

\* handleDeleteAccount, deleteUserData: every row of the name; the mailbox is Mailbox's.
DeleteAccount(t) ==
    /\ job[t].at = "loaded" /\ job[t].kind = "delete"
    /\ row' = None
    /\ Answer(t, TRUE, None)
    /\ UNCHANGED <<banned, clock, used, born, spent, raced>>

\* handleAcceptTerms, setTermsAccepted: the server's own revision.
AcceptTerms(t) ==
    /\ job[t].at = "authed" /\ job[t].kind = "terms"
    /\ row' = IF row = None THEN row ELSE [row EXCEPT !.terms = TRUE]
    /\ Answer(t, TRUE, job[t].tok)
    /\ UNCHANGED <<banned, clock, used, born, spent, raced>>

\* Mutant: only where none is published yet.
PublishKeysOnce(t) ==
    /\ job[t].at = "authed" /\ job[t].kind = "publish"
    /\ row' = IF row = None \/ row.identity # None THEN row ELSE [row EXCEPT !.identity = job[t].code]
    /\ Answer(t, TRUE, job[t].tok)
    /\ UNCHANGED <<banned, clock, used, born, spent, raced>>

\* handlePublishKeys, setUserKeys: identity and signed prekey replace what was there.
PublishKeys(t) ==
    /\ job[t].at = "authed" /\ job[t].kind = "publish"
    /\ row' = IF row = None THEN row ELSE [row EXCEPT !.identity = job[t].code]
    /\ Answer(t, TRUE, job[t].tok)
    /\ UNCHANGED <<banned, clock, used, born, spent, raced>>

\* A termination: disabled_at and the retired name, set by hand.
Terminate ==
    /\ row # None /\ ~ row.disabled
    /\ row' = [row EXCEPT !.disabled = TRUE]
    /\ banned' = TRUE
    /\ UNCHANGED <<clock, used, born, spent, raced, job>>

\* Thirty seconds pass.
Tick ==
    /\ clock < MaxClock
    /\ clock' = clock + 1
    /\ UNCHANGED <<row, banned, used, born, spent, raced, job>>

\* Whatever the Worker does next for the request of a tab.
Serve(t) ==
    \/ Authenticate(t) \/ Load(t) \/ Me(t)
    \/ Signup(t) \/ Login(t) \/ ChangePassword(t) \/ RecoveryReset(t) \/ LogoutAll(t)
    \/ TwoFactorEnable(t) \/ TwoFactorDisable(t) \/ RecoveryEnroll(t)
    \/ DeleteAccount(t) \/ AcceptTerms(t) \/ PublishKeys(t)

AccountRow ==
    [gen : Nat, pw : Passwords, epoch : Nat, secret : Nat \cup {None}, last : Nat,
     backup : SUBSET [secret : Nat, step : {0}, backup : BackupCodes],
     recovery : [code : Nat, identity : Nat] \cup {None}, identity : Nat \cup {None},
     terms : BOOLEAN, disabled : BOOLEAN]

ServerTypeOK ==
    /\ row \in AccountRow \cup {None}
    /\ banned \in BOOLEAN /\ raced \in BOOLEAN
    /\ clock \in 1 .. MaxClock
    /\ used \subseteq Passwords /\ born \in Nat
=============================================================================
