-------------------------------- MODULE Alerts --------------------------------
(***************************************************************************)
(* One device's match alerts: frontend/src/store/push.ts, the address kept *)
(* by localIdentity.ts, and the server's table of addresses               *)
(* (persistence/push.go behind server/push_routes.go).                     *)
(*                                                                         *)
(* Detecting, enabling and disabling are async functions that may be out   *)
(* together.  Each is a call in a slot: what it waits for is answered in   *)
(* one step, by the platform or by the server, and it runs on to its next  *)
(* await in another.  Requests and answers are lost; the player signs in   *)
(* and out, closes the app, and changes the permission in Settings; the    *)
(* platform changes the address.  The texts, the snoozing of the offer and *)
(* the keys of a subscription are left out, and a browser has one tab.     *)
(***************************************************************************)
EXTENDS Naturals

CONSTANTS
  Calls,       \* bound: slots for calls and requests that are out together
  Transports,  \* the builds looked at, of {"web-push", "apns", "fcm"}
  Members,     \* accounts a device can sign in to
  MaxGuest,    \* bound: guests the device is handed
  MaxAddress,  \* bound: addresses the platform issues to the device
  MaxChanges,  \* bound: changes of the world around the store
  MaxLost,     \* bound: requests, or answers, lost
  None

Guests == 1..MaxGuest
Addresses == 1..MaxAddress
Accounts == Guests \cup Members
Permissions == {"unasked", "granted", "denied"}

ASSUME AlertsAssumption ==
  /\ Transports \subseteq {"web-push", "apns", "fcm"}
  /\ MaxGuest \in Nat \ {0} /\ MaxAddress \in Nat \ {0}
  /\ MaxChanges \in Nat /\ MaxLost \in Nat
  /\ Members \cap Guests = {}
  /\ None \notin Accounts \cup Addresses

VARIABLES
  device,   \* what the platform knows: build, permission, live address
  who,      \* the guest of this device, and the account signed in to
  store,    \* status and endpoint of the push store
  known,    \* the address localStorage remembers
  calls,    \* the calls and requests that are out
  rows,     \* push_subscriptions: the account each address is held for
  consent,  \* (history) what the player last pressed
  spent     \* changes and losses so far

alertVars == <<device, who, store, known, calls, rows, consent, spent>>

-----------------------------------------------------------------------------
(* Calls.                                                                  *)

Idle == [kind |-> "none", at |-> "none", session |-> None, as |-> None,
         address |-> None, say |-> "none", clean |-> FALSE]

\* A call with the session it was made with.  It is clean while nothing else is
\* out and nothing around it changes or is lost.
Call(kind, at) ==
  [kind |-> kind, at |-> at, session |-> who.session, as |-> None,
   address |-> None, say |-> "none", clean |-> TRUE]

Out == {c \in Calls : calls[c] # Idle}

Begin(c, call) ==
  calls' = [d \in Calls |-> IF d = c THEN [call EXCEPT !.clean = Out = {}]
                            ELSE [calls[d] EXCEPT !.clean = FALSE]]

Goes(c, call) == calls' = [calls EXCEPT ![c] = call]
Waits(c, at) == calls' = [calls EXCEPT ![c].at = at]
Ends(c) == calls' = [calls EXCEPT ![c] = Idle]

Native == device.transport # "web-push"
Identity == IF who.session = None THEN who.guest ELSE who.session

\* identity(): the session the call was made with, or whichever guest this
\* device is by the time the request is made.
Requesting(call, at, address) ==
  [call EXCEPT !.at = at, !.address = address,
               !.as = IF call.session = None THEN who.guest ELSE call.session]

\* A request nothing waits for.
Detached(call) == [call EXCEPT !.kind = "late"]

Refusal(permission) == IF permission = "denied" THEN "denied" ELSE "unasked"
Shows(status, endpoint) == store' = [status |-> status, endpoint |-> endpoint]

-----------------------------------------------------------------------------
(* The three entries.                                                      *)

\* withdrawRegistration: give back the address remembered, and say `say` after.
Withdraws(call, say) == Requesting([call EXCEPT !.say = say], "delete", known)

\* detect: a build that cannot be reached says so, an enable in flight is left
\* to finish, and a browser reads its permission at once.
Look(c) ==
  /\ calls[c] = Idle
  /\ store.status # "enabling"
  /\ \/ /\ device.capability # "ready"
        /\ store' = [store EXCEPT !.status = device.capability]
        /\ UNCHANGED calls
     \/ /\ device.capability = "ready"
        /\ Native
        /\ Begin(c, Call("look", "permission"))
        /\ UNCHANGED store
     \/ /\ device.capability = "ready"
        /\ ~Native /\ device.permission = "granted"
        /\ Begin(c, Call("look", "subscription"))
        /\ UNCHANGED store
     \/ /\ device.capability = "ready"
        /\ ~Native /\ device.permission # "granted" /\ known # None
        /\ Begin(c, Withdraws(Call("look", "delete"), "as it stands"))
        /\ UNCHANGED store
     \/ /\ device.capability = "ready"
        /\ ~Native /\ device.permission # "granted" /\ known = None
        /\ Shows(Refusal(device.permission), None)
        /\ UNCHANGED calls
  /\ UNCHANGED <<device, who, known, rows, consent, spent>>

\* enable, where the panel offers it.  A phone shows "enabling" from the press,
\* a browser once it has its answer.
Enable(c) ==
  /\ calls[c] = Idle
  /\ store.status \in {"unasked", "error"}
  /\ Begin(c, Call("enable", "prompt"))
  /\ store' = IF Native THEN [store EXCEPT !.status = "enabling"] ELSE store
  /\ consent' = "given"
  /\ UNCHANGED <<device, who, known, rows, spent>>

\* disable, where the panel offers it: off here first, whatever comes of the rest.
Disable(c) ==
  LET address == IF store.endpoint # None THEN store.endpoint ELSE known
      call == Call("disable", "unsubscribe")
  IN  /\ calls[c] = Idle
      /\ store.status = "granted"
      /\ IF ~Native THEN Begin(c, [call EXCEPT !.address = address])
         ELSE IF address = None THEN UNCHANGED calls
         ELSE Begin(c, Requesting(call, "delete", address))
      /\ Shows("unasked", None)
      /\ known' = None
      /\ consent' = "withdrawn"
      /\ UNCHANGED <<device, who, rows, spent>>

-----------------------------------------------------------------------------
(* What the platform and the server answer.                                *)

\* getPermissionsAsync.
AnswerPermission(c) ==
  /\ calls[c].at = "permission"
  /\ Goes(c, [calls[c] EXCEPT !.at = "permission known", !.say = device.permission])
  /\ UNCHANGED <<device, who, store, known, rows, consent, spent>>

\* The prompt: a permission already given or refused is not asked for again.
AnswerPrompt(c, permission) ==
  /\ calls[c].at = "prompt"
  /\ device.permission \in {"unasked", permission}
  /\ device' = [device EXCEPT !.permission = permission]
  /\ Goes(c, [calls[c] EXCEPT !.at = "permission known", !.say = permission])
  /\ UNCHANGED <<who, store, known, rows, consent, spent>>

\* getDevicePushTokenAsync and getSubscription: the live address, or none.
AnswerAddress(c) ==
  /\ calls[c].at \in {"token", "subscription"}
  /\ Goes(c, [calls[c] EXCEPT !.at = "address known", !.address = device.address])
  /\ UNCHANGED <<device, who, store, known, rows, consent, spent>>

\* The device's next address.
Issued == [device EXCEPT !.address = device.issued + 1, !.issued = @ + 1]

\* register, fetchPushKey and subscribe, in one step.  A browser that has a
\* subscription hands back the same one.
AnswerSubscribe(c) ==
  /\ calls[c].at = "subscribe"
  /\ device.permission = "granted"
  /\ IF device.address # None THEN UNCHANGED device
     ELSE device.issued < MaxAddress /\ device' = Issued
  /\ Goes(c, [calls[c] EXCEPT !.at = "address known", !.address = device'.address])
  /\ UNCHANGED <<who, store, known, rows, consent, spent>>

AnswerUnsubscribe(c) ==
  /\ calls[c].at = "unsubscribe"
  /\ device' = [device EXCEPT !.address = None]
  /\ Waits(c, "unsubscribed")
  /\ UNCHANGED <<who, store, known, rows, consent, spent>>

\* subscribeToPush and registerPushDevice: the address moves to whoever posted.
Save(c) ==
  /\ calls[c].at = "post"
  /\ rows' = [rows EXCEPT ![calls[c].address] = calls[c].as]
  /\ Waits(c, "posted")
  /\ UNCHANGED <<device, who, store, known, consent, spent>>

\* forgetPushAddress reads the rows of the account asking, and answers 200
\* when the address is not among them.
FindOwn(c) ==
  /\ calls[c].at = "delete"
  /\ IF rows[calls[c].address] = calls[c].as THEN Waits(c, "own")
     ELSE Goes(c, [calls[c] EXCEPT !.at = "deleted", !.clean = FALSE])
  /\ UNCHANGED <<device, who, store, known, rows, consent, spent>>

\* DeletePushSubscription then deletes by the address alone.
Delete(c) ==
  /\ calls[c].at = "own"
  /\ rows' = [rows EXCEPT ![calls[c].address] = None]
  /\ Waits(c, "deleted")
  /\ UNCHANGED <<device, who, store, known, consent, spent>>

Withdrawing == {"delete", "own", "deleted"}
Failed(call) ==
  [call EXCEPT !.at = IF @ \in Withdrawing THEN "kept" ELSE "threw", !.clean = FALSE]

\* A platform call throws, a request is lost, or its answer is.
Lose(c) ==
  /\ calls[c].at \in {"token", "subscription", "subscribe", "unsubscribe", "post", "posted"}
                       \cup Withdrawing
  /\ spent.lost < MaxLost
  /\ spent' = [spent EXCEPT !.lost = @ + 1]
  /\ Goes(c, Failed(calls[c]))
  /\ UNCHANGED <<device, who, store, known, rows, consent>>

\* requireAnyIdentity refuses a session that has been signed out of.  The
\* sign-out is a request of its own, so one still on its way is not refused yet.
Refuse(c) ==
  /\ calls[c].at \in {"post", "delete"}
  /\ calls[c].session \notin {None, who.session}
  /\ Goes(c, Failed(calls[c]))
  /\ UNCHANGED <<device, who, store, known, rows, consent, spent>>

\* subscribe throws where the permission has gone, and here also where the
\* bound on addresses is met.
RefuseSubscribe(c) ==
  /\ calls[c].at = "subscribe"
  /\ \/ device.permission # "granted"
     \/ device.address = None /\ device.issued = MaxAddress
  /\ Goes(c, Failed(calls[c]))
  /\ UNCHANGED <<device, who, store, known, rows, consent, spent>>

-----------------------------------------------------------------------------
(* How a call runs on.                                                     *)

\* Mutant: a granted permission is enough.
LooksOn(c) == Waits(c, "token") /\ UNCHANGED <<store, known>>

\* detectDevice with a permission: a device that remembers no address was never
\* turned on, or was turned off.
LooksUp(c) ==
  IF known = None THEN Shows("unasked", None) /\ Ends(c) /\ UNCHANGED known
  ELSE Waits(c, "token") /\ UNCHANGED <<store, known>>

WithdrawsIfHeld(c, say) ==
  IF known = None THEN Shows(say, None) /\ Ends(c) /\ UNCHANGED known
  ELSE Goes(c, Withdraws(calls[c], say)) /\ UNCHANGED <<store, known>>

PermissionKnown(c) ==
  LET call == calls[c]
  IN  /\ call.at = "permission known"
      /\ CASE call.kind = "look" /\ call.say = "granted" -> LooksUp(c)
           [] call.kind = "look" /\ call.say # "granted" ->
                WithdrawsIfHeld(c, Refusal(call.say))
           [] call.kind = "enable" /\ call.say = "granted" ->
                /\ Waits(c, IF Native THEN "token" ELSE "subscribe")
                /\ store' = IF Native THEN store ELSE [store EXCEPT !.status = "enabling"]
                /\ UNCHANGED known
           [] call.kind = "enable" /\ call.say # "granted" ->
                /\ store' = [store EXCEPT !.status = Refusal(call.say)]
                /\ Ends(c)
                /\ UNCHANGED known
      /\ UNCHANGED <<device, who, rows, consent, spent>>

Posts(c) ==
  /\ Goes(c, Requesting(calls[c], "post", calls[c].address))
  /\ UNCHANGED <<store, known>>

\* Mutant: an address that has not changed is not posted again.
RefreshesWhenNew(c) ==
  IF calls[c].address # known THEN Posts(c)
  ELSE Ends(c) /\ Shows("granted", calls[c].address) /\ UNCHANGED known

\* refreshRegistration: a new address is posted and waited for, the one
\* remembered is posted in the background.
Refreshes(c) ==
  IF calls[c].address # known THEN Posts(c)
  ELSE /\ Goes(c, Detached(Requesting(calls[c], "post", calls[c].address)))
       /\ Shows("granted", calls[c].address)
       /\ UNCHANGED known

AddressKnown(c) ==
  LET call == calls[c]
  IN  /\ call.at = "address known"
      /\ CASE call.kind = "enable" -> Posts(c)
           [] call.kind = "look" /\ call.address # None -> Refreshes(c)
           [] call.kind = "look" /\ call.address = None -> WithdrawsIfHeld(c, "unasked")
      /\ UNCHANGED <<device, who, rows, consent, spent>>

Unsubscribed(c) ==
  /\ calls[c].at = "unsubscribed"
  /\ IF calls[c].address = None THEN Ends(c)
     ELSE Goes(c, Requesting(calls[c], "delete", calls[c].address))
  /\ UNCHANGED <<device, who, store, known, rows, consent, spent>>

Posted(c) ==
  /\ calls[c].at = "posted"
  /\ Ends(c)
  /\ IF calls[c].kind = "late" THEN UNCHANGED <<store, known>>
     ELSE known' = calls[c].address /\ Shows("granted", calls[c].address)
  /\ UNCHANGED <<device, who, rows, consent, spent>>

Verdict(call) ==
  IF call.say = "as it stands" THEN Refusal(device.permission) ELSE call.say

\* A withdrawal answered, or failed: the address is forgotten only if answered.
\* A disable has nothing more to do; one that ran by itself, against the live
\* address, was the player's last word.
Withdrawn(c) ==
  LET call == calls[c]
  IN  /\ call.at \in {"deleted", "kept"}
      /\ Ends(c)
      /\ IF call.kind = "look"
         THEN /\ known' = IF call.at = "deleted" THEN None ELSE known
              /\ Shows(Verdict(call), None)
         ELSE UNCHANGED <<store, known>>
      /\ consent' = IF /\ call.kind = "disable" /\ call.clean
                       /\ ~Native \/ call.address = device.address
                    THEN "off" ELSE consent
      /\ UNCHANGED <<device, who, rows, spent>>

\* Mutant: only a look that threw says so.
SaysWhatFailedToALook(call) ==
  IF call.kind = "look" THEN [store EXCEPT !.status = "unasked"] ELSE store

\* The catch of each entry.
SaysWhatFailed(call) ==
  CASE call.kind = "look" -> [store EXCEPT !.status = "unasked"]
    [] call.kind = "enable" -> [store EXCEPT !.status = "error"]
    [] call.kind \in {"disable", "late"} -> store

Threw(c) ==
  /\ calls[c].at = "threw"
  /\ store' = SaysWhatFailed(calls[c])
  /\ Ends(c)
  /\ UNCHANGED <<device, who, known, rows, consent, spent>>

-----------------------------------------------------------------------------
(* The world around the store.                                             *)

\* Nothing that is out is clean any more.
Disturbs ==
  /\ spent.changes < MaxChanges
  /\ spent' = [spent EXCEPT !.changes = @ + 1]

Unclean == [c \in Calls |-> [calls[c] EXCEPT !.clean = FALSE]]

\* The permission is changed in Settings; a browser may drop its subscription
\* with it.
ChangePermission(permission) ==
  /\ Disturbs
  /\ permission # device.permission
  /\ \E address \in IF Native \/ permission = "granted" THEN {device.address}
                     ELSE {device.address, None} :
       device' = [device EXCEPT !.permission = permission, !.address = address]
  /\ calls' = Unclean
  /\ UNCHANGED <<who, store, known, rows, consent>>

\* A restore from backup, FCM or Chrome rotating it: another live address.
Rotate ==
  /\ Disturbs
  /\ device.address # None /\ device.issued < MaxAddress
  /\ device' = Issued
  /\ calls' = Unclean
  /\ UNCHANGED <<who, store, known, rows, consent>>

\* adoptSession.  The guest is upgraded where it stands, or its rows move to
\* the account signed in to (MergeAccountHistory), or they are left behind.
SignIn(account) ==
  /\ Disturbs
  /\ who.session = None
  /\ who' = [who EXCEPT !.session = account]
  /\ \/ UNCHANGED rows
     \/ rows' = [a \in Addresses |-> IF rows[a] = who.guest THEN account ELSE rows[a]]
  /\ calls' = Unclean
  /\ UNCHANGED <<device, store, known, consent>>

\* clearSession: a guest of this device that was signed in to is replaced.
SignOut ==
  /\ Disturbs
  /\ who.session # None
  /\ who.session = who.guest => who.guest < MaxGuest
  /\ who' = [session |-> None,
             guest |-> IF who.session = who.guest THEN who.guest + 1 ELSE who.guest]
  /\ calls' = Unclean
  /\ UNCHANGED <<device, store, known, rows, consent>>

\* The page is closed or the app killed: what is on the wire stays on it.
Close ==
  /\ Disturbs
  /\ Shows("unsupported", None)
  /\ calls' = [c \in Calls |-> IF calls[c].at \in {"post", "delete", "own"}
                               THEN Detached(Unclean[c]) ELSE Idle]
  /\ UNCHANGED <<device, who, known, rows, consent>>

\* pushSender.forget: a summons the push service answered "gone".
Prune(address) ==
  /\ rows[address] # None /\ address # device.address
  /\ rows' = [rows EXCEPT ![address] = None]
  /\ UNCHANGED <<device, who, store, known, calls, consent, spent>>

-----------------------------------------------------------------------------
(* The specification.                                                      *)

\* A phone has an address from the start; a browser subscribes for one.
Init ==
  /\ device \in
       {[transport |-> t, capability |-> k, permission |-> "unasked",
         address |-> IF t = "web-push" THEN None ELSE 1,
         issued |-> IF t = "web-push" THEN 0 ELSE 1] :
          t \in Transports, k \in {"ready", "unsupported", "needs-home-screen"}}
  /\ device.capability = "needs-home-screen" => device.transport = "web-push"
  /\ who = [session |-> None, guest |-> 1]
  /\ store = [status |-> "unsupported", endpoint |-> None]
  /\ known = None
  /\ calls = [c \in Calls |-> Idle]
  /\ rows = [a \in Addresses |-> None]
  /\ consent = "none"
  /\ spent = [changes |-> 0, lost |-> 0]

\* The platform and the server answer.  The prompt is the player's to answer.
Answer(c) ==
  \/ AnswerPermission(c) \/ AnswerAddress(c) \/ AnswerSubscribe(c)
  \/ AnswerUnsubscribe(c) \/ Save(c) \/ FindOwn(c) \/ Delete(c)
  \/ Refuse(c) \/ RefuseSubscribe(c)

RunOn(c) ==
  \/ PermissionKnown(c) \/ AddressKnown(c) \/ Unsubscribed(c)
  \/ Posted(c) \/ Withdrawn(c) \/ Threw(c)

Press(c) == Look(c) \/ Enable(c) \/ Disable(c)

World ==
  \/ \E permission \in Permissions : ChangePermission(permission)
  \/ Rotate
  \/ \E account \in Members \cup {who.guest} : SignIn(account)
  \/ SignOut
  \/ Close
  \/ \E address \in Addresses : Prune(address)

Next ==
  \/ \E c \in Calls : Press(c) \/ Answer(c) \/ RunOn(c) \/ Lose(c)
  \/ \E c \in Calls, permission \in Permissions : AnswerPrompt(c, permission)
  \/ World

Spec == Init /\ [][Next]_alertVars

-----------------------------------------------------------------------------
(* Properties.                                                             *)

CallType ==
  [kind : {"none", "look", "enable", "disable", "late"},
   at : {"none", "permission", "prompt", "permission known", "token", "subscription",
         "subscribe", "address known", "unsubscribe", "unsubscribed",
         "post", "posted", "delete", "own", "deleted", "kept", "threw"},
   session : Accounts \cup {None}, as : Accounts \cup {None},
   address : Addresses \cup {None},
   say : {"none", "as it stands"} \cup Permissions, clean : BOOLEAN]

AlertsTypeOK ==
  /\ device \in [transport : Transports,
                 capability : {"ready", "unsupported", "needs-home-screen"},
                 permission : Permissions, address : Addresses \cup {None},
                 issued : 0..MaxAddress]
  /\ who \in [session : Accounts \cup {None}, guest : Guests]
  /\ store \in [status : {"unsupported", "needs-home-screen", "unasked", "enabling",
                          "granted", "denied", "error"},
                endpoint : Addresses \cup {None}]
  /\ known \in Addresses \cup {None}
  /\ calls \in [Calls -> CallType]
  /\ rows \in [Addresses -> Accounts \cup {None}]
  /\ consent \in {"none", "given", "withdrawn", "off"}
  /\ spent \in [changes : 0..MaxChanges, lost : 0..MaxLost]

Held(address) == address # None /\ rows[address] # None

\* A device nobody turned alerts on for, and one whose player turned them off
\* undisturbed, is not summoned and says it is not, whatever looks, sign-ins,
\* restarts and changes of permission or address come after, until somebody
\* presses the button again.  Every look posts an address without being asked
\* (push.ts:244-265, 374-443); what keeps a look off such a device is the address it
\* does not remember on a phone and the subscription it no longer has in a
\* browser.
OffStaysOff ==
  consent \in {"none", "off"} =>
    /\ ~Held(device.address) /\ known = None
    /\ store.status \notin {"granted", "enabling"}

\* What a look leaves when its last answer is in.
Settled ==
  IF store.status = "granted"
  THEN /\ device.permission = "granted"
       /\ device.address = known /\ store.endpoint = known
       /\ Held(known) /\ rows[known] = Identity
  ELSE known = None /\ store.endpoint = None

\* One look that nothing disturbs and no request fails of puts right whatever
\* went before it: races, lost answers, an address rotated, a sign-in that left
\* the row with the guest, a restart in the middle of turning alerts on.  The
\* store, the address remembered and the server's row then agree on the live
\* address and on who plays here (push.ts:294-322).
ALookSettles ==
  [][\A c \in Calls :
       (calls[c].clean /\ calls[c].kind \in {"look", "late"} /\ RunOn(c) /\ calls'[c] = Idle)
         => Settled']_alertVars

\* The store is never "enabling" with no enable out, which would shut out every
\* look and every press for good: whatever fails, is refused, is lost or is
\* overtaken on the way, an enable settles the status itself, as the guard at
\* push.ts:375-379 relies on.
EnablingIsUnderWay ==
  store.status = "enabling" => \E c \in Calls : calls[c].kind = "enable"

\* Not so: an address remembered is forgotten by a look only once the server has
\* let go of it (push.ts:334-336).
ForgottenOnceLetGo ==
  [][known # None /\ known' = None /\ consent' # "withdrawn" => rows'[known] = None]_alertVars

\* Not so: a player who turned alerts off is not left subscribed because a
\* network call failed (push.ts:507-509).
OffMeansOff ==
  consent = "withdrawn" /\ Out = {} => ~Held(device.address)

=============================================================================
