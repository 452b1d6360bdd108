-------------------------------- MODULE Push --------------------------------
(***************************************************************************)
(* Wake-ups for those who are away (worker/push.ts, lib/push.ts,           *)
(* lib/nativePush.ts): a device asks the push service for an address and   *)
(* registers it with the Worker under the account it is signed in to, and  *)
(* a mailbox that queues an envelope sends a wake-up to every address its  *)
(* owner has registered, browsers first, then native devices.              *)
(*                                                                         *)
(* An address is a browser's endpoint or a native device token; its number *)
(* is that of its issuing.  A token belongs to one of the two environments *)
(* of the native service, which the device does not know.  A D1 statement  *)
(* is atomic; the handlers' are one each.  In a wake-up the reply of the   *)
(* push service and the row write it leads to are one step: an address     *)
(* that was disowned stays so, and the environment of a token never        *)
(* changes.  That a wake-up tells nothing about the message is not         *)
(* modelled: there is nothing in it.                                       *)
(***************************************************************************)
EXTENDS Naturals, FiniteSets

CONSTANTS
    Devices,
    Users,
    Wakes,       \* calls of sendWakeupToUser that can be under way
    MaxAddress,  \* addresses the push services issue in a run
    Modes,       \* the situations of a run
    None

ASSUME PushAssumption == MaxAddress \in Nat

VARIABLES
    mode,     \* the situation, with its budgets
    users,    \* the accounts that exist
    row,      \* per address: its row of push_subscriptions or apns_subscriptions
    life,     \* per address: what the push service knows of it, or None
    device,   \* per device: its account, its address and its settings
    job,      \* per device: the toggle of the dialog and the reconciling at start
    wake      \* the wake-ups under way

vars == <<mode, users, row, life, device, job, wake>>

Addresses == 1 .. MaxAddress
Environments == {"production", "sandbox"}
Other(env) == IF env = "production" THEN "sandbox" ELSE "production"

Rows == [user : Users, env : Environments \cup {None}]
Lives == [env : Environments \cup {None}, alive : BOOLEAN]

\* None is nothing else.
ASSUME NoneAssumption ==
    /\ None \notin Addresses /\ None \notin Environments
    /\ None \notin Rows /\ None \notin Lives

Threads == {"toggle", "reconcile"}
NoJob == [op |-> "none", at |-> "none", addr |-> None, user |-> None]
NoWake == [at |-> "none", user |-> None, todo |-> {}, due |-> {}, fate |-> [a \in {} |-> "none"]]

Native(d) == device[d].kind = "native"
Present(d) == device[d].kind # "absent"  \* some situations have one device only
Alive(a) == life[a] # None /\ life[a].alive
Acts == {"leave", "toggle", "wake", "break", "expire", "permit", "sign", "delete"}
May(act) == mode.left[act] > 0
Spent(act) == mode' = [mode EXCEPT !.left[act] = @ - 1]

Init ==
    /\ mode \in Modes
    /\ users = Users
    /\ row = [a \in Addresses |-> None]
    /\ life = [a \in Addresses |-> None]
    /\ device = [d \in Devices |->
                    [kind |-> mode.kinds[d], user |-> mode.users[d], addr |-> None, granted |-> TRUE,
                     flag |-> FALSE, shows |-> FALSE, online |-> FALSE]]
    /\ job = [d \in Devices |-> [t \in Threads |-> NoJob]]
    /\ wake = [w \in Wakes |-> NoWake]

-----------------------------------------------------------------------------
(* The Worker's two tables.                                                *)

\* The environment a row starts with: a browser has none, a device is taken for production.
FirstEnvironment(d) == IF Native(d) THEN "production" ELSE None

\* handlePushSubscribe, handleApnsSubscribe: a new row, or its owner's again; the row of
\* somebody else stays as it is, and the reply is the same.
Subscribed(d, u, a) ==
    IF row[a] = None \/ row[a].user = u
    THEN [row EXCEPT ![a] = [user |-> u, env |-> FirstEnvironment(d)]]
    ELSE row

\* Mutant: whoever knows the address takes its row away.
UnsubscribedByAnyone(u, a) == [row EXCEPT ![a] = None]

\* handlePushUnsubscribe, handleApnsUnsubscribe.
Unsubscribed(u, a) == IF row[a] # None /\ row[a].user = u THEN [row EXCEPT ![a] = None] ELSE row

\* What the table holds for an account, of one of the two kinds.
RowsOf(u, native) ==
    {a \in Addresses : row[a] # None /\ row[a].user = u /\ ((row[a].env # None) <=> native)}

\* The wake-ups under way no longer owe anything to an address that left the table.
StillOwed(rows) == [w \in Wakes |-> [wake[w] EXCEPT !.due = {a \in @ : rows[a] # None}]]

\* The request of a job reaches the Worker, whose session is still good, and is done.
Serve(d, t) ==
    LET j == job[d][t]
        rows == IF j.op = "off" THEN Unsubscribed(j.user, j.addr) ELSE Subscribed(d, j.user, j.addr)
    IN  /\ j.at = "posted"
        /\ j.user \in users
        /\ row' = rows
        /\ wake' = StillOwed(rows)
        /\ job' = [job EXCEPT ![d][t].at = "served"]
        /\ UNCHANGED <<mode, users, life, device>>

\* No session, or no such account: 401.  The request is answered and nothing is done.
Refuse(d, t) ==
    /\ job[d][t].at = "posted"
    /\ job[d][t].user \notin users
    /\ job' = [job EXCEPT ![d][t].at = "refused"]
    /\ UNCHANGED <<mode, users, row, life, device, wake>>

\* The connection breaks before the request or before the reply.
Break(d, t) ==
    /\ May("break")
    /\ job[d][t].at \in {"posted", "served"}
    /\ Spent("break")
    /\ job' = [job EXCEPT ![d][t].at = "broken"]
    /\ UNCHANGED <<users, row, life, device, wake>>

-----------------------------------------------------------------------------
(* The device.                                                             *)

\* isSubscribedToPush: that there is a subscription, whoever registered it or nobody.
BrowserSubscribed(d) == device[d].addr # None

\* The dialog opens and reads whether notifications are on: on a native device a preference.
OpenSettings(d) ==
    /\ device[d].online
    /\ job[d]["toggle"] = NoJob
    /\ device' = [device EXCEPT ![d].shows = IF Native(d) THEN device[d].flag ELSE BrowserSubscribed(d)]
    /\ UNCHANGED <<mode, users, row, life, job, wake>>

\* toggleNotifications: busy until it is done.  Turning off clears the preference first.
Toggle(d) ==
    LET on == ~ device[d].shows
    IN  /\ May("toggle")
        /\ device[d].online
        /\ device[d].user # None
        /\ job[d]["toggle"] = NoJob
        /\ Spent("toggle")
        /\ device' = [device EXCEPT ![d].flag = @ /\ on]
        /\ job' = [job EXCEPT ![d]["toggle"] =
                      [NoJob EXCEPT !.op = IF on THEN "on" ELSE "off",
                                    !.at = IF on THEN "asking" ELSE "addressing"]]
        /\ UNCHANGED <<users, row, life, wake>>

\* requestPermissions, checkPermissions.
AskPermission(d, t) ==
    /\ job[d][t].at = "asking"
    /\ job' = [job EXCEPT ![d][t].at = IF device[d].granted THEN "addressing" ELSE "denied"]
    /\ UNCHANGED <<mode, users, row, life, device, wake>>

\* The address the device has, or else the next one.
NextAddress(d) ==
    IF device[d].addr # None THEN {device[d].addr}
    ELSE LET unborn == {a \in Addresses : life[a] = None}
         IN  {a \in unborn : \A b \in unborn : a <= b}

\* registerForApnsToken, pushManager.subscribe: the service issues an address and the
\* request is on its way.  A browser that turns off looks for the one it has and does not ask.
Address(d, t) ==
    /\ job[d][t].at = "addressing"
    /\ Native(d) \/ job[d][t].op # "off" \/ device[d].addr # None
    /\ \E a \in NextAddress(d), env \in IF Native(d) THEN Environments ELSE {None} :
          /\ life[a] # None => life[a].env = env
          /\ life' = [life EXCEPT ![a] = [env |-> env, alive |-> TRUE]]
          /\ device' = [device EXCEPT ![d].addr = a]
          /\ job' = [job EXCEPT ![d][t] = [@ EXCEPT !.at = "posted", !.addr = a, !.user = device[d].user]]
    /\ UNCHANGED <<mode, users, row, wake>>

\* The registration fails or times out; a browser has no subscription to end.
NoAddress(d, t) ==
    /\ job[d][t].at = "addressing"
    /\ \/ May("break") /\ Spent("break")
       \/ ~ Native(d) /\ job[d][t].op = "off" /\ device[d].addr = None /\ UNCHANGED mode
    /\ job' = [job EXCEPT ![d][t].at = "broken"]
    /\ UNCHANGED <<users, row, life, device, wake>>

Ends == {"served", "refused", "broken", "denied"}

\* The end of subscribeToApnsNative, subscribeToPush.  A native device takes only success
\* for success; a browser any answer.
TurnedOn(d) ==
    LET j == job[d]["toggle"]
        on == j.at = "served" \/ (~ Native(d) /\ j.at = "refused")
    IN  /\ j.op = "on" /\ j.at \in Ends
        /\ device' = [device EXCEPT ![d].flag = @ \/ (Native(d) /\ on), ![d].shows = on]
        /\ job' = [job EXCEPT ![d]["toggle"] = NoJob]
        /\ UNCHANGED <<mode, users, row, life, wake>>

\* The end of unsubscribeApnsNative, unsubscribeFromPush: whatever became of the request.  A
\* browser also ends its subscription, unless that fails.
TurnedOff(d) ==
    LET j == job[d]["toggle"]
    IN  /\ j.op = "off" /\ j.at \in Ends
        /\ \/ /\ ~ Native(d) /\ j.addr # None
              /\ life' = [life EXCEPT ![j.addr].alive = FALSE]
              /\ device' = [device EXCEPT ![d].shows = FALSE, ![d].addr = IF @ = j.addr THEN None ELSE @]
              /\ UNCHANGED mode
           \/ /\ Native(d) \/ j.addr = None
              /\ device' = [device EXCEPT ![d].shows = FALSE]
              /\ UNCHANGED <<mode, life>>
           \/ /\ ~ Native(d) /\ j.addr # None /\ May("break")
              /\ Spent("break")
              /\ device' = [device EXCEPT ![d].shows = FALSE]
              /\ UNCHANGED life
        /\ job' = [job EXCEPT ![d]["toggle"] = NoJob]
        /\ UNCHANGED <<users, row, wake>>

\* Mutant: a device that has registered before does not do so again.
StartsReconcileOnce(d) == Native(d) /\ device[d].flag /\ device[d].addr = None

\* reconcileApnsSubscription runs for a native device with the preference set.
StartsReconcile(d) == Native(d) /\ device[d].flag

\* The end of it: nobody looks.
Reconciled(d) ==
    /\ job[d]["reconcile"].at \in Ends
    /\ job' = [job EXCEPT ![d]["reconcile"] = NoJob]
    /\ UNCHANGED <<mode, users, row, life, device, wake>>

\* Coming and going.  A user who leaves so many times comes back as they like; one who
\* always returns starts the app anew, and cuts its reconciling short so many times.
Goes == IF mode.returns THEN UNCHANGED mode ELSE May("leave") /\ Spent("leave")
Hurries == IF mode.returns THEN May("leave") /\ Spent("leave") ELSE UNCHANGED mode

\* The app is started: what an earlier run of it was doing was cut off, unless the Worker
\* has served it, and a native device reconciles.
Start(d) ==
    /\ Present(d) /\ ~ device[d].online
    /\ IF job[d]["reconcile"] = NoJob THEN UNCHANGED mode ELSE Hurries
    /\ device' = [device EXCEPT ![d].online = TRUE, ![d].shows = FALSE]
    /\ job' = [job EXCEPT ![d] = [toggle |-> NoJob,
                   reconcile |-> IF StartsReconcile(d)
                                 THEN [NoJob EXCEPT !.op = "reconcile", !.at = "asking"] ELSE NoJob]]
    /\ UNCHANGED <<users, row, life, wake>>

\* The running app comes back to the front and reconnects.
Resume(d) ==
    /\ Present(d) /\ ~ device[d].online
    /\ Hurries
    /\ device' = [device EXCEPT ![d].online = TRUE, ![d].shows = FALSE]
    /\ UNCHANGED <<users, row, life, job, wake>>

\* To the background: the socket is closed at once, what runs goes on.
Background(d) ==
    /\ device[d].online
    /\ Goes
    /\ device' = [device EXCEPT ![d].online = FALSE, ![d].shows = FALSE]
    /\ UNCHANGED <<users, row, life, job, wake>>

\* The user of the device grants or takes back the permission, signs out or in; neither
\* touches the preference or the subscription.
Permit(d) ==
    /\ May("permit") /\ Present(d)
    /\ Spent("permit")
    /\ device' = [device EXCEPT ![d].granted = ~ @]
    /\ UNCHANGED <<users, row, life, job, wake>>

Sign(d, u) ==
    /\ May("sign") /\ Present(d)
    /\ u \in (users \cup {None}) \ {device[d].user}
    /\ Spent("sign")
    /\ device' = [device EXCEPT ![d].user = u]
    /\ UNCHANGED <<users, row, life, job, wake>>

\* The push service gives up an address: the device will get another.
Expire(d) ==
    /\ May("expire")
    /\ device[d].addr # None
    /\ Spent("expire")
    /\ life' = [life EXCEPT ![device[d].addr].alive = FALSE]
    /\ device' = [device EXCEPT ![d].addr = None]
    /\ UNCHANGED <<users, row, job, wake>>

\* deleteUserData: the rows of both tables go with the account, and its sessions with them.
DeleteAccount(u) ==
    LET rows == [a \in Addresses |-> IF row[a] # None /\ row[a].user = u THEN None ELSE row[a]]
    IN  /\ May("delete")
        /\ u \in users
        /\ Spent("delete")
        /\ users' = users \ {u}
        /\ row' = rows
        /\ wake' = StillOwed(rows)
        /\ UNCHANGED <<life, device, job>>

-----------------------------------------------------------------------------
(* sendWakeupToUser.                                                       *)

\* An envelope is queued for somebody with no socket: the first table is read.
Wake(w, u) ==
    /\ May("wake")
    /\ wake[w].at = "none"
    /\ u \in users
    /\ \A d \in Devices : device[d].user = u => ~ device[d].online
    /\ Spent("wake")
    /\ wake' = [wake EXCEPT ![w] =
                   [at |-> "web", user |-> u,
                    todo |-> {[addr |-> a, env |-> None, next |-> None] : a \in RowsOf(u, FALSE)},
                    due |-> {a \in Addresses : row[a] # None /\ row[a].user = u},
                    fate |-> [a \in Addresses |-> "none"]]]
    /\ UNCHANGED <<users, row, life, device, job>>

Leave(w, i, fate, rows) ==
    wake' = [StillOwed(rows) EXCEPT ![w].todo = @ \ {i}, ![w].fate[i.addr] = fate]

\* The service is out of reach: on to the next address.
Unreachable(w, i) ==
    /\ May("break")
    /\ wake[w].at \in {"web", "native"}
    /\ i \in wake[w].todo
    /\ Spent("break")
    /\ Leave(w, i, "unreachable", row)
    /\ UNCHANGED <<users, row, life, device, job>>

\* The push that reaches a browser's service worker is always shown; a dead endpoint has none.
Shown(a) == IF Alive(a) THEN "shown" ELSE "refused"

\* A browser's endpoint: a notification, or 404 or 410 and the row goes.
WakeBrowser(w, i) ==
    LET rows == IF Alive(i.addr) THEN row ELSE [row EXCEPT ![i.addr] = None]
    IN  /\ wake[w].at = "web"
        /\ i \in wake[w].todo
        /\ row' = rows
        /\ Leave(w, i, Shown(i.addr), rows)
        /\ UNCHANGED <<mode, users, life, device, job>>

\* The browsers are done: the second table is read.
ReadDevices(w) ==
    /\ wake[w].at = "web" /\ wake[w].todo = {}
    /\ wake' = [wake EXCEPT ![w].at = "native",
                            ![w].todo = {[addr |-> a, env |-> row[a].env, next |-> Other(row[a].env)] :
                                            a \in RowsOf(wake[w].user, TRUE)}]
    /\ UNCHANGED <<mode, users, row, life, device, job>>

\* What the native service says in one of its environments.
Status(a, env) ==
    IF life[a].env # env THEN 400 ELSE IF life[a].alive THEN 200 ELSE 410

\* Mutant: a refusal in the environment that was stored is final.
AfterRefusalFinal(i) == [i EXCEPT !.env = None]

\* What is tried after a refusal: the other environment, and then nothing.
AfterRefusal(i) == [i EXCEPT !.env = i.next, !.next = None]

\* A native device: the environment that worked is kept, a dead token goes, a wrong
\* environment is followed by the other.
WakeDevice(w, i) ==
    LET status == Status(i.addr, i.env)
        rows == IF status = 410 THEN [row EXCEPT ![i.addr] = None]
                ELSE IF status = 200 /\ i.next = None /\ row[i.addr] # None
                THEN [row EXCEPT ![i.addr].env = i.env]
                ELSE row
    IN  /\ wake[w].at = "native"
        /\ i \in wake[w].todo
        /\ row' = rows
        /\ IF status = 400 /\ AfterRefusal(i).env # None
           THEN wake' = [wake EXCEPT ![w].todo = (@ \ {i}) \cup {AfterRefusal(i)}]
           ELSE Leave(w, i, IF status = 200 THEN "shown" ELSE "refused", rows)
        /\ UNCHANGED <<mode, users, life, device, job>>

WakeEnds(w) ==
    /\ wake[w].at = "native" /\ wake[w].todo = {}
    /\ wake' = [wake EXCEPT ![w] = NoWake]
    /\ UNCHANGED <<mode, users, row, life, device, job>>

-----------------------------------------------------------------------------
Next ==
    \/ \E d \in Devices : \/ OpenSettings(d) \/ Toggle(d) \/ TurnedOn(d) \/ TurnedOff(d) \/ Reconciled(d)
                           \/ Start(d) \/ Resume(d) \/ Background(d) \/ Permit(d) \/ Expire(d)
    \/ \E d \in Devices, t \in Threads : \/ Serve(d, t) \/ Refuse(d, t) \/ Break(d, t)
                                          \/ AskPermission(d, t) \/ Address(d, t) \/ NoAddress(d, t)
    \/ \E d \in Devices, u \in Users \cup {None} : Sign(d, u)
    \/ \E u \in Users : DeleteAccount(u)
    \/ \E w \in Wakes, u \in Users : Wake(w, u)
    \/ \E w \in Wakes : ReadDevices(w) \/ WakeEnds(w)
    \/ \E w \in Wakes : \E i \in wake[w].todo : \/ Unreachable(w, i) \/ WakeBrowser(w, i) \/ WakeDevice(w, i)

\* The app is left and opened again, and what reconciling waits for happens: the system
\* and the Worker answer, and only so many connections break.
Fairness ==
    \A d \in Devices :
        /\ WF_vars(Background(d)) /\ WF_vars(Start(d))
        /\ WF_vars(AskPermission(d, "reconcile"))
        /\ WF_vars(Address(d, "reconcile"))
        /\ WF_vars(Serve(d, "reconcile")) /\ WF_vars(Refuse(d, "reconcile"))
        /\ WF_vars(Reconciled(d))

Spec == Init /\ [][Next]_vars /\ Fairness

PushTypeOK ==
    /\ users \subseteq Users
    /\ \A a \in Addresses : row[a] # None => row[a].user \in Users /\ row[a].env \in Environments \cup {None}
    /\ \A d \in Devices : device[d].addr \in Addresses \cup {None}
    /\ \A w \in Wakes : wake[w].at \in {"none", "web", "native"} /\ wake[w].due \subseteq Addresses

(* Whoever is registered when an envelope is queued is woken: a wake-up    *)
(* that has been through both tables has reached every address that was    *)
(* there and stayed, is alive and was not out of reach - also a token of   *)
(* the environment that was not stored for it, whatever is registered,     *)
(* pruned and corrected meanwhile (push.ts:198-279).                       *)
LiveIsWoken ==
    \A w \in Wakes :
        /\ \A a \in DOMAIN wake[w].fate : wake[w].fate[a] = "refused" => ~ Alive(a)
        /\ wake[w].at = "native" /\ wake[w].todo = {} =>
              \A a \in wake[w].due : Alive(a) => wake[w].fate[a] \in {"shown", "unreachable"}

\* A request to turn off is at the Worker, from the owner of the row.
Asked(a) ==
    \E d \in Devices, t \in Threads :
        LET j == job[d][t]
        IN  j.op = "off" /\ j.at = "posted" /\ j.addr = a /\ j.user = row[a].user

(* A row is lost only to its owner's request, with its owner's account, or *)
(* when the push service disowned the address, and it never changes hands: *)
(* one browser cannot register again by itself, so what is pruned wrongly  *)
(* stays silent (push.ts:213, 253, 293-300, 310, 350).                     *)
LiveIsKept ==
    [][\A a \in Addresses :
          row[a] # None /\ (row'[a] = None \/ row'[a].user # row[a].user) =>
              /\ row'[a] = None
              /\ ~ Alive(a) \/ row[a].user \notin users' \/ Asked(a)]_vars

\* The user wants notifications on a native device, can have them, and comes back.
Wanted(d) ==
    /\ mode.returns
    /\ Native(d) /\ device[d].flag /\ device[d].granted
    /\ device[d].user \in users
    /\ device[d].addr # None \/ NextAddress(d) # {}

(* A native device with the preference on is registered again after its    *)
(* token changed, its row was lost or its account went: at the next start  *)
(* that works (nativePush.ts:106-119).  On a device that accounts share    *)
(* the row may be the other one's.                                         *)
WantedIsRegistered ==
    \A d \in Devices : []<>(Wanted(d) => device[d].addr # None /\ row[device[d].addr] # None)
=============================================================================
