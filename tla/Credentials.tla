---------------------------- MODULE Credentials ----------------------------
(***************************************************************************)
(* The credentials of one user on their devices (AuthContext.tsx, the      *)
(* identity record of the keystore, the settings sections), with the       *)
(* account at the far end (Accounts.tla).  The keystore's master key is    *)
(* wrapped in the identity record under a password that the server knows   *)
(* only as a verifier: two stores nothing updates together.                *)
(*                                                                         *)
(* Tabs of one device share its IndexedDB, Keychain and session cookie;    *)
(* the unlocked key lives in a tab.  A get and a put of the record are     *)
(* separate steps where an Argon2id or the network lies between them.      *)
(***************************************************************************)
EXTENDS Accounts

CONSTANTS
    Devices,
    Modes     \* the cases explored: where each tab is, whether there is an account yet,
              \* what the user does and how often, crashes, lost replies, background saves

ASSUME CredentialsAssumption ==
    Modes \subseteq [home : [Tabs -> Devices], start : Passwords \cup {None}, kinds : SUBSET STRING,
                     ops : Nat, crashes : Nat, losses : Nat, saves : BOOLEAN]

VARIABLES
    mode,       \* which of them this is
    rec,        \* per device: the identity record
    enrolled,   \* per device and kind: the master key an OS-gated store releases, and under
                \* which enrollment
    cookie,     \* per device: the session token it presents
    user,       \* per tab: is somebody signed in
    cached,     \* per tab: the unlocked master key
    doc,        \* per tab: a load-modify-save of the identity document under way
    paper,      \* the recovery codes the user was shown
    minted,     \* identities, master keys and recovery codes made so far
    ops, crashes, losses,
    parted,     \* per device: what set its record and the account's password apart
    unlisted    \* per device: what set its identity and the published one apart

disk == <<rec, enrolled, cookie>>
tabs == <<user, cached, doc>>
limits == <<mode, ops, crashes, losses>>
causes == <<parted, unlisted>>
vars == <<server, job, disk, tabs, paper, minted, limits, causes>>

Unlocks == {"passkey", "biometric"}
TokenKinds == {"signup", "login", "me", "change", "recover", "logoutAll", "delete"}
Home(t) == mode.home[t]
Here(t) == rec[Home(t)]
TabsOf(d) == {t \in Tabs : Home(t) = d}

\* A change of password past its staging and not settled: from this device, by another tab.
ChangeInFlight(t) ==
    \E u \in TabsOf(Home(t)) \ {t} :
        job[u].kind = "change" /\ job[u].at \notin {"idle", "staging"}

\* An identity other than ident is on its way from this device to the server.
OtherPublished(t, ident) ==
    \E u \in TabsOf(Home(t)) \ {t} : job[u].kind = "publish" /\ job[u].code # ident

\* A write of the record crosses another: it is not made from what is there, or it meets a
\* wrap that another tab staged.
Crossed(t, base) == Here(t) # base \/ ChangeInFlight(t)

Init ==
    /\ mode \in Modes
    /\ InitServer(mode.start, IF mode.start = None THEN None ELSE 0)
    /\ job = [t \in Tabs |-> Idle]
    /\ rec = [d \in Devices |->
                IF mode.start # None /\ \E t \in Tabs : mode.home[t] = d
                THEN [wrap |-> mode.start, alt |-> None, key |-> 0, sealed |-> 0, ident |-> 0]
                ELSE None]
    /\ enrolled = [d \in Devices |-> [k \in Unlocks |-> None]]
    /\ cookie = [d \in Devices |-> IF rec[d] = None THEN None ELSE Token(row, 0, mode.start)]
    /\ user = [t \in Tabs |-> mode.start # None]
    /\ cached = [t \in Tabs |-> IF mode.start = None THEN None ELSE 0]
    /\ doc = [t \in Tabs |-> None]
    /\ paper = {}
    /\ minted = 1
    /\ ops = 0 /\ crashes = 0 /\ losses = 0
    /\ parted = [d \in Devices |-> {}]
    /\ unlisted = [d \in Devices |-> {}]

-----------------------------------------------------------------------------
(* The identity record.                                                    *)

\* tryUnwrap on the primary wrap, then on the staged one.
Opens(r, pw) == pw = r.wrap \/ (r.alt # None /\ pw = r.alt)

\* openIdentityRecord: the wrap, and then the document under its key.
OpensRecord(r, pw) == Opens(r, pw) /\ r.sealed = r.key

\* openIdentityRecord leaves the wrap that opened.
Collapse(r, pw) ==
    IF r.alt = None \/ pw = r.wrap THEN [r EXCEPT !.alt = None]
    ELSE [r EXCEPT !.wrap = r.alt, !.alt = None]

\* Mutant: the new wrap replaces the old one before the server has been asked.
StageRewrapOver(r, pw, new) == [Collapse(r, pw) EXCEPT !.wrap = new]

\* stageRewrap: a second wrap of the same key.
StageRewrap(r, pw, new) == [Collapse(r, pw) EXCEPT !.alt = new]

PromoteRewrap(r) == IF r.alt = None THEN r ELSE [r EXCEPT !.wrap = r.alt, !.alt = None]

AbortRewrap(r) == [r EXCEPT !.alt = None]

\* sealIdentityRecord.
SealRecord(pw, key, ident) == [wrap |-> pw, alt |-> None, key |-> key, sealed |-> key, ident |-> ident]

Mark(f, d, cause, set) == IF cause THEN [f EXCEPT ![d] = @ \cup {set}] ELSE f

-----------------------------------------------------------------------------
(* What a user starts.                                                     *)

Start(t, kind) ==
    /\ kind \in mode.kinds
    /\ job[t] = Idle
    /\ ops < mode.ops
    /\ ops' = ops + 1
    /\ UNCHANGED <<server, disk, user, doc, paper, causes, mode, crashes, losses>>

SignedIn(t) == user[t] /\ cached[t] # None

\* The code on the authenticator, or one of the backup codes.
CodesInHand ==
    IF row = None \/ row.secret = None THEN {None}
    ELSE {None, TotpCode(row.secret, clock)} \cup {BackupCode(row.secret, b) : b \in BackupCodes}

\* The Login page: it is left while somebody is signed in and unlocked.
StartSignup(t, pw) ==
    /\ ~ SignedIn(t) /\ pw \notin used
    /\ Start(t, "signup")
    /\ job' = [job EXCEPT ![t] = [Idle EXCEPT !.kind = "signup", !.at = "sent", !.pw = pw]]
    /\ UNCHANGED <<cached, minted>>

\* LoginForm: with the code once it was asked for.
StartLogin(t, pw, c) ==
    /\ ~ SignedIn(t)
    /\ Start(t, "login")
    /\ job' = [job EXCEPT ![t] = [Idle EXCEPT !.kind = "login", !.at = "sent", !.pw = pw, !.code = c]]
    /\ UNCHANGED <<cached, minted>>

\* KeystoreUnlockGate: a session without a key in this tab.
StartUnlock(t, pw) ==
    /\ user[t] /\ cached[t] = None
    /\ Start(t, "unlock")
    /\ job' = [job EXCEPT ![t] = [Idle EXCEPT !.kind = "unlock", !.at = "received", !.pw = pw]]
    /\ UNCHANGED <<cached, minted>>

\* The bootstrap of a page that was just loaded.
StartMe(t) ==
    /\ ~ user[t] /\ cookie[Home(t)] # None
    /\ Start(t, "me")
    /\ job' = [job EXCEPT ![t] = [Idle EXCEPT !.kind = "me", !.at = "sent", !.tok = cookie[Home(t)]]]
    /\ UNCHANGED <<cached, minted>>

\* stageChangePassword reads the record; the Argon2ids of both passwords follow.
StartChange(t, pw, new) ==
    /\ SignedIn(t) /\ Here(t) # None
    /\ new \notin used \cup {job[u].new : u \in Tabs}
    /\ Start(t, "change")
    /\ job' = [job EXCEPT ![t] = [Idle EXCEPT !.kind = "change", !.at = "staging", !.pw = pw,
                                              !.new = new, !.seen = Here(t)]]
    /\ UNCHANGED <<cached, minted>>

\* The settings that are one request under a password: sign out everywhere, two-factor off,
\* delete; and the terms, which need none.
StartRequest(t, kind, pw, c) ==
    /\ kind \in {"logoutAll", "disable", "delete", "terms"}
    /\ SignedIn(t)
    /\ Start(t, kind)
    /\ job' = [job EXCEPT ![t] = [Idle EXCEPT !.kind = kind, !.at = "sent", !.pw = pw, !.code = c,
                                              !.tok = cookie[Home(t)]]]
    /\ UNCHANGED <<cached, minted>>

\* TwoFactorSection: a fresh secret and its code of the moment.
StartEnable(t, pw) ==
    /\ SignedIn(t)
    /\ Start(t, "enable")
    /\ job' = [job EXCEPT ![t] = [Idle EXCEPT !.kind = "enable", !.at = "sent", !.pw = pw,
                                              !.code = TotpCode(minted, clock), !.tok = cookie[Home(t)]]]
    /\ minted' = minted + 1
    /\ UNCHANGED cached

\* keystore.enrollRecovery: a snapshot of the identity under a fresh code, then the server.
StartEnroll(t, pw) ==
    /\ SignedIn(t) /\ Here(t) # None /\ Here(t).sealed = cached[t]
    /\ Start(t, "enroll")
    /\ job' = [job EXCEPT ![t] = [Idle EXCEPT !.kind = "enroll", !.at = "sent", !.pw = pw,
                                              !.code = [code |-> minted, identity |-> Here(t).ident],
                                              !.tok = cookie[Home(t)]]]
    /\ minted' = minted + 1
    /\ UNCHANGED cached

\* recoverAccount: the salts, the authenticator of the code, then the reset.
StartRecover(t, c, new) ==
    /\ ~ SignedIn(t)
    /\ c \in paper
    /\ new \notin used \cup {job[u].new : u \in Tabs}
    /\ Start(t, "recover")
    /\ job' = [job EXCEPT ![t] = [Idle EXCEPT !.kind = "recover", !.at = "sent", !.code = c, !.new = new]]
    /\ UNCHANGED <<cached, minted>>

-----------------------------------------------------------------------------
(* The record and the server's answer.                                     *)

\* The staged record is put, durably, before the server is told.
Stage(t) ==
    LET j == job[t]
        d == Home(t)
        opens == OpensRecord(j.seen, j.pw)
        late == Crossed(t, j.seen) \/ (j.seen.alt # None /\ row # None /\ j.pw # row.pw)
    IN  /\ j.at = "staging"
        /\ rec' = IF opens THEN [rec EXCEPT ![d] = StageRewrap(j.seen, j.pw, j.new)] ELSE rec
        /\ job' = [job EXCEPT ![t] = IF opens THEN [j EXCEPT !.at = "sent", !.tok = cookie[d]] ELSE Idle]
        /\ parted' = Mark(parted, d, opens /\ late, "overwritten")
        /\ unlisted' = Mark(unlisted, d, opens /\ rec[d] # j.seen, "overwritten")
        /\ UNCHANGED <<server, enrolled, cookie, tabs, paper, minted, limits>>

\* What the account's own change does to the devices that hold a record of another one.
Elsewhere(t, hit, set, f) ==
    [d \in Devices |->
        IF hit /\ rec[d] # None /\ d # Home(t) THEN f[d] \cup {set} ELSE f[d]]

\* The Worker handles the request.
Work(t) ==
    /\ Serve(t)
    /\ LET moved == row' # None /\ (row = None \/ row.pw # row'.pw)
           listed == row' # None /\ (row = None \/ row.identity # row'.identity)
           cut == moved /\ job[t].kind \in {"recover", "signup"} /\ Here(t) # None
       IN  /\ parted' = Mark(Elsewhere(t, moved, "elsewhere", parted), Home(t), cut, "recovery")
           /\ unlisted' = Mark(Elsewhere(t, listed, "elsewhere", unlisted), Home(t),
                               row = None /\ row' # None /\ Here(t) # None, "account replaced")
    /\ UNCHANGED <<disk, tabs, paper, minted, limits>>

\* The reply is read: a token goes into the jar, or a 401 is one.
Receive(t) ==
    LET j == job[t] IN
    /\ j.at = "answered" /\ ~ j.orphan
    /\ job' = [job EXCEPT ![t].at = IF j.ok THEN "received" ELSE "refused"]
    /\ cookie' = IF j.ok /\ j.kind \in TokenKinds THEN [cookie EXCEPT ![Home(t)] = j.tok] ELSE cookie
    /\ UNCHANGED <<server, rec, enrolled, tabs, paper, minted, limits, causes>>

\* The network fails the request or the reply: the caller cannot tell which.
Lose(t) ==
    LET done == job[t].at = "answered" /\ job[t].ok
        d == Home(t)
    IN  /\ job[t].at \in {"sent", "answered"} /\ ~ job[t].orphan
        /\ losses < mode.losses
        /\ losses' = losses + 1
        /\ job' = [job EXCEPT ![t].at = "refused"]
        /\ parted' = Mark(parted, d, done /\ job[t].kind = "change", "reply lost")
        /\ UNCHANGED <<server, disk, tabs, paper, minted, mode, ops, crashes, unlisted>>

\* finalizeChangePassword, then each unlock enrollment is revoked as far as the OS lets it.
FinalizeChange(t) ==
    LET d == Home(t) IN
    /\ job[t].kind = "change" /\ job[t].at = "received"
    /\ rec' = IF rec[d] # None THEN [rec EXCEPT ![d] = PromoteRewrap(rec[d])] ELSE rec
    /\ \E gone \in SUBSET {k \in Unlocks : enrolled[d][k] # None} :
          enrolled' = [enrolled EXCEPT ![d] = [k \in Unlocks |-> IF k \in gone THEN None ELSE @[k]]]
    /\ job' = [job EXCEPT ![t] = Idle]
    /\ parted' = Mark(parted, d, Crossed(t, rec[d]), "overwritten")
    /\ UNCHANGED <<server, cookie, tabs, paper, minted, limits, unlisted>>

\* rollbackChangePassword, on any error of the call.
RollbackChange(t) ==
    LET d == Home(t) IN
    /\ job[t].kind = "change" /\ job[t].at = "refused"
    /\ rec' = IF rec[d] # None THEN [rec EXCEPT ![d] = AbortRewrap(rec[d])] ELSE rec
    /\ job' = [job EXCEPT ![t] = Idle]
    /\ parted' = Mark(parted, d, Crossed(t, rec[d]), "overwritten")
    /\ UNCHANGED <<server, enrolled, cookie, tabs, paper, minted, limits, unlisted>>

-----------------------------------------------------------------------------
(* Unlocking, or making an identity.                                       *)

\* keystore.unlock gets the record.
UnlockRead(t) ==
    /\ job[t].kind \in {"signup", "login", "unlock"} /\ job[t].at = "received"
    /\ job' = [job EXCEPT ![t].at = "opening", ![t].seen = Here(t)]
    /\ UNCHANGED <<server, disk, tabs, paper, minted, limits, causes>>

\* A record that opens: the key is cached, and one that was staged is put back collapsed.
Unlock(t) ==
    LET j == job[t]
        d == Home(t)
        opens == OpensRecord(j.seen, j.pw)
        put == opens /\ j.seen.alt # None
        late == Crossed(t, j.seen) \/ (row # None /\ j.pw # row.pw)
    IN  /\ j.at = "opening" /\ j.seen # None
        /\ rec' = IF put THEN [rec EXCEPT ![d] = Collapse(j.seen, j.pw)] ELSE rec
        /\ cached' = IF opens THEN [cached EXCEPT ![t] = j.seen.key] ELSE cached
        /\ user' = IF opens THEN [user EXCEPT ![t] = TRUE] ELSE user
        /\ job' = [job EXCEPT ![t] = Idle]
        /\ parted' = Mark(parted, d, put /\ late, "overwritten")
        /\ unlisted' = Mark(unlisted, d, put /\ rec[d] # j.seen, "overwritten")
        /\ UNCHANGED <<server, enrolled, cookie, doc, paper, minted, limits>>

\* establishLocalIdentity found none: createIdentity, and what it returns is published.
CreateIdentity(t) ==
    LET j == job[t]
        d == Home(t)
    IN  /\ j.at = "opening" /\ j.seen = None
        /\ rec' = [rec EXCEPT ![d] = SealRecord(j.pw, minted, minted)]
        /\ cached' = [cached EXCEPT ![t] = minted]
        /\ minted' = minted + 1
        /\ job' = [job EXCEPT ![t] = [Idle EXCEPT !.kind = "publish", !.at = "sent", !.code = minted,
                                                  !.tok = cookie[d]]]
        /\ parted' = [parted EXCEPT ![d] = IF row # None /\ row.pw = j.pw /\ ~ ChangeInFlight(t)
                                          THEN {} ELSE {"overwritten"}]
        /\ unlisted' = [unlisted EXCEPT ![d] = IF rec[d] = None /\ ~ OtherPublished(t, minted)
                                              THEN {} ELSE {"overwritten"}]
        /\ UNCHANGED <<server, enrolled, cookie, user, doc, paper, limits>>

\* restoreFromRecovery: the identity of the snapshot under a new master key.
RestoreFromRecovery(t) ==
    LET j == job[t]
        d == Home(t)
    IN  /\ j.kind = "recover" /\ j.at = "received"
        /\ rec' = [rec EXCEPT ![d] = SealRecord(j.new, minted, j.seen.recovery.identity)]
        /\ cached' = [cached EXCEPT ![t] = minted]
        /\ minted' = minted + 1
        /\ job' = [job EXCEPT ![t] = [Idle EXCEPT !.kind = "publish", !.at = "sent", !.tok = cookie[d],
                                                  !.code = j.seen.recovery.identity]]
        /\ parted' = [parted EXCEPT ![d] = IF row # None /\ row.pw = j.new /\ ~ ChangeInFlight(t)
                                          THEN {} ELSE {"overwritten"}]
        /\ unlisted' = [unlisted EXCEPT ![d] = IF OtherPublished(t, j.seen.recovery.identity)
                                              THEN {"overwritten"} ELSE {}]
        /\ UNCHANGED <<server, enrolled, cookie, user, doc, paper, limits>>

\* publishIdentityMaterial came back: signed in; or it failed, and nothing tries it again.
Published(t) ==
    LET j == job[t] IN
    /\ j.kind = "publish" /\ j.at \in {"received", "refused"}
    /\ user' = IF j.at = "received" THEN [user EXCEPT ![t] = TRUE] ELSE user
    /\ job' = [job EXCEPT ![t] = Idle]
    /\ unlisted' = Mark(unlisted, Home(t), j.at = "refused", "publish failed")
    /\ UNCHANGED <<server, disk, cached, doc, paper, minted, limits, parted>>

-----------------------------------------------------------------------------
(* The other replies.                                                      *)

\* A code is shown once, and only when the server has it.
Enrolled(t) ==
    /\ job[t].kind = "enroll" /\ job[t].at = "received"
    /\ paper' = paper \cup {job[t].code}
    /\ job' = [job EXCEPT ![t] = Idle]
    /\ UNCHANGED <<server, disk, tabs, minted, limits, causes>>

\* The bootstrap has its answer: 401 and no network are the same here.
Bootstrapped(t) ==
    /\ job[t].kind = "me" /\ job[t].at \in {"received", "refused"}
    /\ user' = [user EXCEPT ![t] = job[t].at = "received"]
    /\ job' = [job EXCEPT ![t] = Idle]
    /\ UNCHANGED <<server, disk, cached, doc, paper, minted, limits, causes>>

\* Signed out everywhere: this page is loaded anew, the keystore stays.
LeftEverywhere(t) ==
    /\ job[t].kind = "logoutAll" /\ job[t].at = "received"
    /\ user' = [user EXCEPT ![t] = FALSE]
    /\ cached' = [cached EXCEPT ![t] = None]
    /\ doc' = [doc EXCEPT ![t] = None]
    /\ job' = [job EXCEPT ![t] = Idle]
    /\ UNCHANGED <<server, disk, paper, minted, limits, causes>>

\* panicWipe: the keystore database goes, passkey wraps with it; the Keychain item stays.
Wiped(t) ==
    LET d == Home(t) IN
    /\ rec' = [rec EXCEPT ![d] = None]
    /\ enrolled' = [enrolled EXCEPT ![d] = [@ EXCEPT !["passkey"] = None]]
    /\ cached' = [cached EXCEPT ![t] = None]
    /\ user' = [user EXCEPT ![t] = FALSE]
    /\ doc' = [doc EXCEPT ![t] = None]
    /\ parted' = [parted EXCEPT ![d] = {}]
    /\ unlisted' = [unlisted EXCEPT ![d] = {}]

\* The account is gone: so is what this device keeps of it.
DeletedHere(t) ==
    /\ job[t].kind = "delete" /\ job[t].at = "received"
    /\ Wiped(t)
    /\ job' = [job EXCEPT ![t] = Idle]
    /\ UNCHANGED <<server, cookie, paper, minted, limits>>

\* What is left of the requests: an error is shown, or there is nothing to do.
Done(t) ==
    LET j == job[t] IN
    /\ \/ j.at = "refused" /\ j.kind \notin {"change", "publish", "me"}
       \/ j.at = "received" /\ j.kind \in {"enable", "disable", "terms"}
       \/ j.at = "answered" /\ j.orphan
    /\ job' = [job EXCEPT ![t] = Idle]
    /\ unlisted' = Mark(unlisted, Home(t), j.kind = "publish" /\ ~ j.ok, "publish failed")
    /\ UNCHANGED <<server, disk, tabs, paper, minted, limits, parted>>

-----------------------------------------------------------------------------
(* What needs no server.                                                   *)

\* logout: the key first, then the request, which may fail and leave the session.
Logout(t) ==
    /\ user[t] /\ job[t] = Idle /\ Start(t, "logout")
    /\ cached' = [cached EXCEPT ![t] = None]
    /\ UNCHANGED <<job, minted>>

LoggedOut(t) ==
    /\ user[t] /\ cached[t] = None /\ job[t] = Idle
    /\ "logout" \in mode.kinds
    /\ user' = [user EXCEPT ![t] = FALSE]
    /\ cookie' = [cookie EXCEPT ![Home(t)] = None]
    /\ UNCHANGED <<server, job, rec, enrolled, cached, doc, paper, minted, limits, causes>>

\* The panic wipe works locked and offline: its logout is best-effort.
PanicWipe(t) ==
    /\ "wipe" \in mode.kinds /\ job[t] = Idle /\ ops < mode.ops
    /\ ops' = ops + 1
    /\ Wiped(t)
    /\ \/ cookie' = [cookie EXCEPT ![Home(t)] = None]
       \/ UNCHANGED cookie
    /\ UNCHANGED <<server, job, paper, minted, mode, crashes, losses>>

\* biometricDeleteSecret is best-effort: the Keychain may keep the item.
Forgotten(d, k) == IF k = "biometric" THEN {None, enrolled[d][k]} ELSE {None}

\* The toggle of BiometricSection: it goes by what it read when it was mounted.
ToggleBiometric(t) ==
    /\ SignedIn(t) /\ "unlocks" \in mode.kinds /\ job[t] = Idle /\ ops < mode.ops
    /\ ops' = ops + 1
    /\ \E held \in Forgotten(Home(t), "biometric") \cup {[id |-> ops, key |-> cached[t]]} :
          enrolled' = [enrolled EXCEPT ![Home(t)]["biometric"] = held]
    /\ UNCHANGED <<server, job, rec, cookie, tabs, paper, minted, mode, crashes, losses, causes>>

\* The toggle of PasskeySection: off at once, on by a prompt for a new credential.
TogglePasskey(t) ==
    /\ SignedIn(t) /\ "unlocks" \in mode.kinds /\ job[t] = Idle /\ ops < mode.ops
    /\ ops' = ops + 1
    /\ \/ /\ enrolled' = [enrolled EXCEPT ![Home(t)]["passkey"] = None]
          /\ UNCHANGED job
       \/ /\ job' = [job EXCEPT ![t] = [Idle EXCEPT !.kind = "enrollPasskey", !.at = "prompt", !.seen = ops]]
          /\ UNCHANGED enrolled
    /\ UNCHANGED <<server, rec, cookie, tabs, paper, minted, mode, crashes, losses, causes>>

\* The enrollment of a passkey: the unlocked key under what its PRF yields.
PasskeyRecord(t) == [id |-> job[t].seen, key |-> cached[t]]

\* createPasskeyWrappingKey returned: the key of this moment is wrapped; or it was
\* cancelled, or timed out, or the authenticator has no PRF.
EnrollPasskeyUnlock(t) ==
    /\ job[t].kind = "enrollPasskey" /\ job[t].at = "prompt"
    /\ \/ enrolled' = [enrolled EXCEPT ![Home(t)]["passkey"] = PasskeyRecord(t)]
       \/ UNCHANGED enrolled
    /\ job' = [job EXCEPT ![t] = Idle]
    /\ UNCHANGED <<server, rec, cookie, tabs, paper, minted, limits, causes>>

\* The gate offers what is enrolled.
Offers(t, k) == user[t] /\ cached[t] = None /\ enrolled[Home(t)][k] # None

\* Before its prompt unlockWithPasskey has read the enrollment, unlockWithBiometric the
\* record.
UnlockPrompt(t, k) ==
    LET d == Home(t) IN
    /\ Offers(t, k) /\ job[t] = Idle
    /\ k = "biometric" => rec[d] # None
    /\ job' = [job EXCEPT ![t] = [Idle EXCEPT !.kind = k, !.at = "prompt",
                                              !.seen = IF k = "passkey" THEN enrolled[d][k].id ELSE rec[d]]]
    /\ UNCHANGED <<server, disk, tabs, paper, minted, limits, causes>>

\* The prompt was cancelled, or what it was for is gone.
UnlockCancelled(t) ==
    /\ job[t].kind \in Unlocks /\ job[t].at = "prompt"
    /\ job' = [job EXCEPT ![t] = Idle]
    /\ UNCHANGED <<server, disk, tabs, paper, minted, limits, causes>>

\* unlockWithPasskey, unlockWithBiometric with the gesture made: what does not open is
\* dropped, be it another enrollment than the one the gesture was for.
UnlockWith(t, k) ==
    LET d == Home(t)
        held == enrolled[d][k]
        opens == IF k = "passkey" THEN held.id = job[t].seen /\ rec[d].sealed = held.key
                 ELSE job[t].seen.sealed = held.key
    IN  /\ job[t].kind = k /\ job[t].at = "prompt"
        /\ held # None
        /\ k = "passkey" => rec[d] # None
        /\ cached' = IF opens THEN [cached EXCEPT ![t] = held.key] ELSE cached
        /\ \E left \in Forgotten(d, k) :
              enrolled' = IF opens THEN enrolled ELSE [enrolled EXCEPT ![d][k] = left]
        /\ job' = [job EXCEPT ![t] = Idle]
        /\ UNCHANGED <<server, rec, cookie, user, doc, paper, minted, limits, causes>>

\* Any operation on the identity document: loadDoc, ...
LoadDoc(t) ==
    /\ mode.saves
    /\ SignedIn(t) /\ doc[t] = None
    /\ Here(t) # None /\ Here(t).sealed = cached[t]
    /\ doc' = [doc EXCEPT ![t] = [key |-> cached[t], ident |-> Here(t).ident, envelope |-> None]]
    /\ UNCHANGED <<server, job, disk, user, cached, paper, minted, limits, causes>>

\* ... then saveDoc gets the record for its envelope ...
SaveDocRead(t) ==
    /\ doc[t] # None /\ doc[t].envelope = None
    /\ doc' = [doc EXCEPT ![t] = IF Here(t) = None THEN None ELSE [@ EXCEPT !.envelope = Here(t)]]
    /\ UNCHANGED <<server, job, disk, user, cached, paper, minted, limits, causes>>

\* ... and puts it back with the new document.
SaveDocPut(t) ==
    LET d == Home(t)
        late == Crossed(t, doc[t].envelope)
    IN  /\ doc[t] # None /\ doc[t].envelope # None
        /\ rec' = [rec EXCEPT ![d] = [doc[t].envelope EXCEPT !.sealed = doc[t].key, !.ident = doc[t].ident]]
        /\ doc' = [doc EXCEPT ![t] = None]
        /\ parted' = Mark(parted, d, late \/ doc[t].key # doc[t].envelope.key, "overwritten")
        /\ unlisted' = Mark(unlisted, d, late \/ doc[t].ident # rec[d].ident, "overwritten")
        /\ UNCHANGED <<server, job, enrolled, cookie, user, cached, paper, minted, limits>>

\* A reload, a closed tab or a kill: the heap is gone.  A request that left is handled.
Crash(t) ==
    LET j == job[t]
        left == j.at \in {"sent", "authed", "loaded", "answered"}
    IN  /\ crashes < mode.crashes
        /\ user[t] \/ j # Idle
        /\ crashes' = crashes + 1
        /\ cached' = [cached EXCEPT ![t] = None]
        /\ user' = [user EXCEPT ![t] = FALSE]
        /\ doc' = [doc EXCEPT ![t] = None]
        /\ \/ left /\ job' = [job EXCEPT ![t].orphan = TRUE] /\ UNCHANGED unlisted
           \/ /\ ~ left \/ j.at = "sent"
              /\ job' = [job EXCEPT ![t] = Idle]
              /\ unlisted' = Mark(unlisted, Home(t), j.kind = "publish" /\ j.at # "received", "publish failed")
        /\ UNCHANGED <<server, disk, paper, minted, mode, ops, losses, parted>>

-----------------------------------------------------------------------------
Next ==
    \/ \E t \in Tabs :
          \/ \E pw \in Passwords :
                \/ StartSignup(t, pw) \/ StartUnlock(t, pw) \/ StartEnable(t, pw) \/ StartEnroll(t, pw)
                \/ \E c \in CodesInHand : StartLogin(t, pw, c)
                \/ \E new \in Passwords : StartChange(t, pw, new)
                \/ \E c \in CodesInHand, k \in PasswordKinds \cup {"terms"} : StartRequest(t, k, pw, c)
                \/ \E c \in paper : StartRecover(t, c, pw)
          \/ StartMe(t)
          \/ Stage(t) \/ Work(t) \/ Receive(t) \/ Lose(t)
          \/ FinalizeChange(t) \/ RollbackChange(t)
          \/ UnlockRead(t) \/ Unlock(t) \/ CreateIdentity(t) \/ RestoreFromRecovery(t) \/ Published(t)
          \/ Enrolled(t) \/ Bootstrapped(t) \/ LeftEverywhere(t) \/ DeletedHere(t) \/ Done(t)
          \/ Logout(t) \/ LoggedOut(t) \/ PanicWipe(t)
          \/ ToggleBiometric(t) \/ TogglePasskey(t) \/ EnrollPasskeyUnlock(t) \/ UnlockCancelled(t)
          \/ \E k \in Unlocks : UnlockPrompt(t, k) \/ UnlockWith(t, k)
          \/ LoadDoc(t) \/ SaveDocRead(t) \/ SaveDocPut(t)
          \/ Crash(t)
    \/ /\ ("terminate" \in mode.kinds /\ Terminate) \/ ("tick" \in mode.kinds /\ Tick)
       /\ UNCHANGED <<disk, tabs, paper, minted, limits, causes>>

Spec == Init /\ [][Next]_vars

-----------------------------------------------------------------------------
KeystoreRecord ==
    [wrap : Passwords, alt : Passwords \cup {None}, key : Nat, sealed : Nat, ident : Nat]

CredentialsTypeOK ==
    /\ ServerTypeOK
    /\ mode \in Modes
    /\ rec \in [Devices -> KeystoreRecord \cup {None}]
    /\ enrolled \in [Devices -> [Unlocks -> [id : Nat, key : Nat] \cup {None}]]
    /\ user \in [Tabs -> BOOLEAN]
    /\ cached \in [Tabs -> Nat \cup {None}]
    /\ minted \in Nat /\ ops \in Nat /\ crashes \in Nat /\ losses \in Nat

\* The session tokens that devices have and requests and replies carry.
SessionTokens == {cookie[d] : d \in Devices} \cup {job[t].tok : t \in Tabs}

(* A token that the server accepts was obtained with the account's present *)
(* password: none signed from a row read before a change of password or a  *)
(* recovery outlives it, whichever of the two wrote first.  Or else it was *)
(* signed for an earlier account of the name, deleted since: the check of  *)
(* a token compares the name and the epoch alone, and every account begins *)
(* with epoch 0 (index.ts:125-126, 163; DeletedAccountFails).              *)
SessionProvesThePassword ==
    \A tok \in SessionTokens : Authenticates(tok) => tok.pw = row.pw \/ tok.gen < row.gen

(* index.ts:123-124 says that a deleted account's token fails the check of *)
(* readAuthenticatedUsername.  It does until the name is signed up again.  *)
DeletedAccountFails == \A tok \in SessionTokens : Authenticates(tok) => tok.gen = row.gen

(* The password that signs in also opens the keystore of a device, at      *)
(* every moment of a change of password and after a crash at any of them:  *)
(* unless the reply to the change was lost, the password was changed from  *)
(* elsewhere, a recovery or a new account has not reached this record, or  *)
(* the staged record was overwritten by another of its writers, which can  *)
(* also be an unlock with the old password: after a crash between the      *)
(* server's change and the finalizing it collapses the record to that one. *)
AccountPasswordOpens ==
    \A d \in Devices :
        (row # None /\ rec[d] # None /\ parted[d] = {}) => OpensRecord(rec[d], row.pw)

(* The identity others are served is the one the device holds, once its    *)
(* publication is not under way: unless that failed, another device        *)
(* published its own, or the record or the account was replaced.           *)
HeldIdentityIsPublished ==
    \A d \in Devices :
        (/\ row # None /\ rec[d] # None /\ unlisted[d] = {}
         /\ \A t \in TabsOf(d) : job[t].kind # "publish")
            => row.identity = rec[d].ident

(* A TOTP step and a backup code are accepted once: unless two             *)
(* verifications overlapped, which read the same mark and the same list.   *)
CodesAreSingleUse == raced \/ \A c \in DOMAIN spent : spent[c] <= 1
=============================================================================
