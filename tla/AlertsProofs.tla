----------------------------- MODULE AlertsProofs -----------------------------
(***************************************************************************)
(* That a device turned off stays off, and that "enabling" is never shown  *)
(* with nothing under way, for any number of calls out together and any    *)
(* number of changes, losses, guests, accounts and addresses.              *)
(***************************************************************************)
EXTENDS Alerts, TLAPS

\* Where each kind of call can be.  Only a browser is asked for a subscription.
Staged(call) ==
  /\ call.kind = "none" => call.at = "none"
  /\ call.kind = "look" =>
       call.at \in {"permission", "permission known", "token", "subscription",
                    "address known", "post", "posted", "delete", "own", "deleted",
                    "kept", "threw"}
  /\ call.kind = "enable" =>
       call.at \in {"prompt", "permission known", "token", "subscribe",
                    "address known", "post", "posted", "threw"}
  /\ call.kind = "disable" =>
       call.at \in {"unsubscribe", "unsubscribed", "delete", "own", "deleted", "kept", "threw"}
  /\ call.kind = "late" =>
       call.at \in {"post", "posted", "delete", "own", "deleted", "kept", "threw"}
  /\ call.at = "subscription" => ~Native
  /\ call.kind = "look" /\ call.at \in Withdrawing \cup {"kept"} =>
       call.say \in {"as it stands", "unasked", "denied"}

CallsAreStaged == \A c \in Calls : Staged(calls[c])

\* No address is used before it is issued.
Issuable == {None} \cup 1..device.issued

AddressesAreIssued ==
  /\ {device.address, store.endpoint, known} \subseteq Issuable
  /\ \A c \in Calls : calls[c].address \in Issuable
  /\ \A a \in Addresses : rows[a] # None => a <= device.issued

\* A disable that is still clean is alone, and nothing has undone what it has
\* done so far.
LastWord(c) ==
  calls[c].kind = "disable" /\ calls[c].clean =>
    /\ \A d \in Calls : d # c => calls[d].kind = "none"
    /\ known = None
    /\ store.status \notin {"granted", "enabling"}
    /\ calls[c].at \notin {"kept", "threw"}
    /\ calls[c].at = "deleted" => ~Held(calls[c].address)
    /\ calls[c].at # "unsubscribe" /\ ~Native => device.address = None

CleanDisableIsAlone == \A c \in Calls : LastWord(c)

\* A look at a device that is off finds nothing to do.
Idles(call) ==
  /\ call.kind \in {"none", "look"}
  /\ call.at \in {"none", "permission", "permission known", "subscription",
                  "address known", "threw"}
  /\ call.at = "address known" => call.address = None

OffIsQuiet ==
  consent \in {"none", "off"} =>
    /\ known = None
    /\ store.status \notin {"granted", "enabling"}
    /\ ~Native => device.address = None
    /\ ~Held(device.address)
    /\ \A c \in Calls : Idles(calls[c])

AlertsInv ==
  /\ AlertsTypeOK
  /\ CallsAreStaged
  /\ AddressesAreIssued
  /\ CleanDisableIsAlone
  /\ OffIsQuiet
  /\ EnablingIsUnderWay

-----------------------------------------------------------------------------
(* What the helpers that rewrite a call return.                            *)

Statuses == {"unsupported", "needs-home-screen", "unasked", "enabling",
             "granted", "denied", "error"}

StoreType == [status : Statuses, endpoint : Addresses \cup {None}]

DeviceType ==
  [transport : Transports, capability : {"ready", "unsupported", "needs-home-screen"},
   permission : Permissions, address : Addresses \cup {None}, issued : 0..MaxAddress]

LEMMA RequestingFields ==
  ASSUME AlertsTypeOK, NEW call \in CallType,
         NEW at \in {"post", "delete"}, NEW address \in Addresses \cup {None}
  PROVE  /\ Requesting(call, at, address) \in CallType
         /\ Requesting(call, at, address).kind = call.kind
         /\ Requesting(call, at, address).at = at
         /\ Requesting(call, at, address).address = address
         /\ Requesting(call, at, address).say = call.say
         /\ Requesting(call, at, address).clean = call.clean
<1>1. PICK as : as = IF call.session = None THEN who.guest ELSE call.session
  OBVIOUS
<1>2. who.guest \in Guests /\ call.session \in Accounts \cup {None}
  BY DEF AlertsTypeOK, CallType
<1>3. as \in Accounts \cup {None}
  BY <1>1, <1>2 DEF Accounts
<1>4. Requesting(call, at, address)
        = [call EXCEPT !.at = at, !.address = address, !.as = as]
  BY <1>1 DEF Requesting
<1>5. QED
  BY <1>3, <1>4 DEF CallType

LEMMA WithdrawsFields ==
  ASSUME AlertsTypeOK, NEW call \in CallType,
         NEW say \in {"as it stands"} \cup Permissions
  PROVE  /\ Withdraws(call, say) \in CallType
         /\ Withdraws(call, say).kind = call.kind
         /\ Withdraws(call, say).at = "delete"
         /\ Withdraws(call, say).address = known
         /\ Withdraws(call, say).say = say
         /\ Withdraws(call, say).clean = call.clean
<1>0. PICK said : said = [call EXCEPT !.say = say]
  OBVIOUS
<1>1. said \in CallType /\ said.kind = call.kind /\ said.say = say /\ said.clean = call.clean
  BY <1>0 DEF CallType
<1>2. known \in Addresses \cup {None}
  BY DEF AlertsTypeOK
<1>3. Withdraws(call, say) = Requesting(said, "delete", known)
  BY <1>0 DEF Withdraws
<1>4. PICK address \in Addresses \cup {None} : address = known
  BY <1>2
<1>5. /\ Requesting(said, "delete", address) \in CallType
      /\ Requesting(said, "delete", address).kind = said.kind
      /\ Requesting(said, "delete", address).at = "delete"
      /\ Requesting(said, "delete", address).address = address
      /\ Requesting(said, "delete", address).say = said.say
      /\ Requesting(said, "delete", address).clean = said.clean
  BY <1>1, RequestingFields
<1>6. QED
  BY <1>1, <1>3, <1>4, <1>5

LEMMA DetachedFields ==
  ASSUME NEW call \in CallType
  PROVE  /\ Detached(call) \in CallType
         /\ Detached(call).kind = "late"
         /\ Detached(call).at = call.at
         /\ Detached(call).address = call.address
         /\ Detached(call).clean = call.clean
  BY DEF CallType, Detached

LEMMA FailedFields ==
  ASSUME NEW call \in CallType
  PROVE  /\ Failed(call) \in CallType
         /\ Failed(call).kind = call.kind
         /\ Failed(call).at = IF call.at \in Withdrawing THEN "kept" ELSE "threw"
         /\ Failed(call).address = call.address
         /\ Failed(call).say = call.say /\ Failed(call).clean = FALSE
  BY DEF CallType, Failed, Withdrawing

LEMMA IdleFields ==
  ASSUME AlertsTypeOK
  PROVE  /\ Idle \in CallType
         /\ Idle.kind = "none" /\ Idle.at = "none" /\ Idle.address = None /\ Idle.clean = FALSE
  BY DEF CallType, Idle

LEMMA IssuableAddresses ==
  ASSUME AlertsTypeOK
  PROVE  Issuable \subseteq Addresses \cup {None}
<1>1. device.issued \in 0..MaxAddress
  BY DEF AlertsTypeOK
<1>2. QED
  BY <1>1, AlertsAssumption DEF Issuable, Addresses

\* A call that stays staged while the others stay where they are.
LEMMA OneIsStaged ==
  ASSUME CallsAreStaged, NEW c \in Calls, NEW n, Staged(n), calls'[c] = n,
         \A d \in Calls : d # c => calls'[d] = calls[d],
         device'.transport = device.transport
  PROVE  CallsAreStaged'
<1>1. Native' = Native
  BY DEF Native
<1>2. ASSUME NEW d \in Calls, NEW m, m = calls'[d], Staged(m) PROVE Staged(calls[d])'
  BY <1>1, <1>2 DEF Staged
<1>3. \A d \in Calls : Staged(calls'[d])
  BY DEF CallsAreStaged
<1>4. QED
  BY <1>2, <1>3 DEF CallsAreStaged

\* A call that moves: what it must bring for the invariant to stand, where the
\* device, the rows and the consent are left alone.
LEMMA CallMoves ==
  ASSUME AlertsInv, NEW c \in Calls, NEW n \in CallType,
         calls' = [calls EXCEPT ![c] = n],
         device' = device, who' = who, rows' = rows, consent' = consent,
         spent' \in [changes : 0..MaxChanges, lost : 0..MaxLost],
         store' \in StoreType, store'.endpoint \in Issuable, known' \in Issuable,
         Staged(n), n.address \in Issuable,
         calls[c].kind # "none",
         calls[c].kind = "disable" => store' = store /\ known' = known,
         n.kind = "disable" /\ n.clean =>
           /\ calls[c].kind = "disable" /\ calls[c].clean
           /\ n.at = "deleted" => ~Held(n.address)
           /\ n.at \notin {"unsubscribe", "kept", "threw"}
           /\ calls[c].at = "unsubscribe" => Native,
         consent \in {"none", "off"} =>
           /\ Idles(n) /\ known' = None
           /\ store'.status \notin {"granted", "enabling"},
         store'.status = "enabling" =>
           \/ n.kind = "enable"
           \/ (store.status = "enabling" /\ calls[c].kind # "enable")
  PROVE  AlertsInv'
<1>1. /\ calls \in [Calls -> CallType]
      /\ known' \in Addresses \cup {None}
  BY IssuableAddresses DEF AlertsInv, AlertsTypeOK
<1>2. /\ calls' \in [Calls -> CallType]
      /\ calls'[c] = n
      /\ \A d \in Calls : d # c => calls'[d] = calls[d]
  BY <1>1
<1>3. AlertsTypeOK'
  BY <1>1, <1>2 DEF AlertsInv, AlertsTypeOK, StoreType, Statuses
<1>4. CallsAreStaged'
  BY <1>2, OneIsStaged DEF AlertsInv
<1>5. AddressesAreIssued'
  BY <1>2 DEF AlertsInv, AddressesAreIssued, Issuable
<1>6. CleanDisableIsAlone'
  BY <1>2 DEF AlertsInv, CleanDisableIsAlone, LastWord, Native, Held
<1>7. OffIsQuiet'
  BY <1>2 DEF AlertsInv, OffIsQuiet, Idles, Native, Held
<1>8. EnablingIsUnderWay'
  BY <1>2 DEF AlertsInv, EnablingIsUnderWay
<1>9. QED
  BY <1>3, <1>4, <1>5, <1>6, <1>7, <1>8 DEF AlertsInv

-----------------------------------------------------------------------------
(* What the calls are told, and how they fail.                             *)

\* What the invariant says of one call and of what it may use.
LEMMA Bearings ==
  ASSUME AlertsInv, NEW c \in Calls
  PROVE  /\ calls \in [Calls -> CallType] /\ calls[c] \in CallType
         /\ calls[c].kind \in {"none", "look", "enable", "disable", "late"}
         /\ store \in StoreType /\ store.endpoint \in Issuable
         /\ known \in Issuable /\ known \in Addresses \cup {None}
         /\ device.address \in Issuable /\ device.permission \in Permissions
         /\ calls[c].address \in Issuable
         /\ spent \in [changes : 0..MaxChanges, lost : 0..MaxLost]
         /\ Staged(calls[c])
         /\ consent \in {"none", "off"} =>
              /\ Idles(calls[c]) /\ known = None
              /\ store.status \notin {"granted", "enabling"}
              /\ ~Native => device.address = None
  BY DEF AlertsInv, AlertsTypeOK, StoreType, Statuses, CallsAreStaged,
         AddressesAreIssued, OffIsQuiet, CallType

\* The same where the store and the address remembered are left alone too.
LEMMA OnlyACallMoves ==
  ASSUME AlertsInv, NEW c \in Calls, NEW n \in CallType,
         calls' = [calls EXCEPT ![c] = n],
         device' = device, who' = who, store' = store, known' = known,
         rows' = rows, consent' = consent,
         spent' \in [changes : 0..MaxChanges, lost : 0..MaxLost],
         Staged(n), n.address \in Issuable,
         n.kind = calls[c].kind, calls[c].kind # "none",
         n.clean => /\ calls[c].clean
                    /\ calls[c].at # "unsubscribe"
                    /\ n.at \notin {"unsubscribe", "deleted", "kept", "threw"},
         consent \in {"none", "off"} => Idles(n)
  PROVE  AlertsInv'
<1>1. /\ store' \in StoreType /\ store'.endpoint \in Issuable /\ known' \in Issuable
      /\ consent \in {"none", "off"} =>
           /\ known' = None
           /\ store'.status \notin {"granted", "enabling"}
  BY Bearings
<1>2. store'.status = store.status /\ (n.kind = "enable" \/ calls[c].kind # "enable")
  OBVIOUS
<1>3. QED
  BY <1>1, <1>2, CallMoves

LEMMA AnswerPermissionKeeps ==
  ASSUME AlertsInv, NEW c \in Calls, AnswerPermission(c)
  PROVE  AlertsInv'
<1>1. PICK n : n = [calls[c] EXCEPT !.at = "permission known", !.say = device.permission]
  OBVIOUS
<1>2. /\ n \in CallType /\ n.at = "permission known"
      /\ n.kind = calls[c].kind /\ n.address = calls[c].address /\ n.clean = calls[c].clean
  BY <1>1, Bearings DEF CallType
<1>3. /\ calls' = [calls EXCEPT ![c] = n] /\ calls[c].at = "permission"
      /\ UNCHANGED <<device, who, store, known, rows, consent, spent>>
  BY <1>1 DEF AnswerPermission, Goes
<1>4. Staged(n) /\ calls[c].kind = "look"
  BY <1>2, <1>3, Bearings DEF Staged, Withdrawing
<1>5. QED
  BY <1>2, <1>3, <1>4, OnlyACallMoves, Bearings DEF Idles

LEMMA AnswerAddressKeeps ==
  ASSUME AlertsInv, NEW c \in Calls, AnswerAddress(c)
  PROVE  AlertsInv'
<1>1. PICK n : n = [calls[c] EXCEPT !.at = "address known", !.address = device.address]
  OBVIOUS
<1>2. /\ n \in CallType /\ n.at = "address known"
      /\ n.kind = calls[c].kind /\ n.address = device.address /\ n.clean = calls[c].clean
  BY <1>1, Bearings, IssuableAddresses DEF CallType, AlertsInv
<1>3. /\ calls' = [calls EXCEPT ![c] = n] /\ calls[c].at \in {"token", "subscription"}
      /\ UNCHANGED <<device, who, store, known, rows, consent, spent>>
  BY <1>1 DEF AnswerAddress, Goes
<1>4. Staged(n) /\ calls[c].kind \in {"look", "enable"}
  BY <1>2, <1>3, Bearings DEF Staged, Withdrawing
<1>5. consent \in {"none", "off"} => Idles(n)
  BY <1>2, <1>3, Bearings DEF Idles, Staged, Withdrawing
<1>6. QED
  BY <1>2, <1>3, <1>4, <1>5, OnlyACallMoves, Bearings

LEMMA FindOwnKeeps ==
  ASSUME AlertsInv, NEW c \in Calls, FindOwn(c)
  PROVE  AlertsInv'
<1>1. PICK n : n = IF rows[calls[c].address] = calls[c].as
                   THEN [calls[c] EXCEPT !.at = "own"]
                   ELSE [calls[c] EXCEPT !.at = "deleted", !.clean = FALSE]
  OBVIOUS
<1>2. /\ n \in CallType /\ n.at \in {"own", "deleted"}
      /\ n.kind = calls[c].kind /\ n.address = calls[c].address /\ n.say = calls[c].say
      /\ n.clean => calls[c].clean /\ n.at = "own"
  BY <1>1, Bearings DEF CallType
<1>3. /\ calls' = [calls EXCEPT ![c] = n] /\ calls[c].at = "delete"
      /\ UNCHANGED <<device, who, store, known, rows, consent, spent>>
  BY <1>1, Bearings DEF FindOwn, Goes, Waits
<1>4. Staged(n) /\ calls[c].kind \in {"look", "disable", "late"}
  BY <1>2, <1>3, Bearings DEF Staged, Withdrawing
<1>5. consent \notin {"none", "off"}
  BY <1>3, Bearings DEF Idles
<1>6. QED
  BY <1>2, <1>3, <1>4, <1>5, OnlyACallMoves, Bearings

\* A call that fails is left with what it had.
LEMMA FailureKeeps ==
  ASSUME AlertsInv, NEW c \in Calls, Goes(c, Failed(calls[c])),
         calls[c].at \in {"token", "subscription", "subscribe", "unsubscribe", "post",
                          "posted", "delete", "own", "deleted"},
         device' = device, who' = who, store' = store, known' = known,
         rows' = rows, consent' = consent,
         spent' \in [changes : 0..MaxChanges, lost : 0..MaxLost]
  PROVE  AlertsInv'
<1>1. PICK n : n = Failed(calls[c])
  OBVIOUS
<1>2. /\ n \in CallType
      /\ n.at = IF calls[c].at \in Withdrawing THEN "kept" ELSE "threw"
      /\ n.kind = calls[c].kind /\ n.address = calls[c].address /\ n.say = calls[c].say
      /\ ~n.clean
  BY <1>1, Bearings, FailedFields
<1>3. calls' = [calls EXCEPT ![c] = n]
  BY <1>1 DEF Goes
<1>4. Staged(n) /\ calls[c].kind # "none"
  BY <1>2, Bearings DEF Staged, Withdrawing
<1>5. consent \in {"none", "off"} => Idles(n)
  BY <1>2, Bearings DEF Idles, Withdrawing
<1>6. QED
  BY <1>2, <1>3, <1>4, <1>5, OnlyACallMoves, Bearings

LEMMA LoseKeeps ==
  ASSUME AlertsInv, NEW c \in Calls, Lose(c)
  PROVE  AlertsInv'
<1>1. spent' \in [changes : 0..MaxChanges, lost : 0..MaxLost]
  BY Bearings, AlertsAssumption DEF Lose
<1>2. QED
  BY <1>1, FailureKeeps DEF Lose, Withdrawing

LEMMA RefuseKeeps ==
  ASSUME AlertsInv, NEW c \in Calls, Refuse(c) \/ RefuseSubscribe(c)
  PROVE  AlertsInv'
<1>1. Goes(c, Failed(calls[c])) /\ calls[c].at \in {"post", "delete", "subscribe"}
      /\ UNCHANGED <<device, who, store, known, rows, consent, spent>>
  BY DEF Refuse, RefuseSubscribe
<1>2. QED
  BY <1>1, Bearings, FailureKeeps

-----------------------------------------------------------------------------
(* How the calls run on.                                                   *)

\* A call that ends, in the terms of CallMoves.
LEMMA CallEnds ==
  ASSUME AlertsInv, NEW c \in Calls, Ends(c),
         device' = device, who' = who, rows' = rows, consent' = consent, spent' = spent,
         store' \in StoreType, store'.endpoint \in Issuable, known' \in Issuable,
         calls[c].kind # "none",
         calls[c].kind = "disable" => store' = store /\ known' = known,
         consent \in {"none", "off"} => known' = None,
         store'.status = "granted" => consent \notin {"none", "off"},
         store'.status = "enabling" =>
           (store.status = "enabling" /\ calls[c].kind # "enable")
  PROVE  AlertsInv'
<1>1. Staged(Idle) /\ Idles(Idle) /\ None \in Issuable
  BY IdleFields DEF AlertsInv, Staged, Withdrawing, Idles, Issuable
<1>2. consent \in {"none", "off"} => store'.status \notin {"granted", "enabling"}
  BY Bearings
<1>3. calls' = [calls EXCEPT ![c] = Idle]
  BY DEF Ends
<1>4. PICK n : n = Idle
  OBVIOUS
<1>5. n \in CallType /\ n.kind = "none" /\ n.address = None /\ ~n.clean
  BY <1>4, IdleFields DEF AlertsInv
<1>6. spent' \in [changes : 0..MaxChanges, lost : 0..MaxLost]
  BY Bearings
<1>7. QED
  BY <1>1, <1>2, <1>3, <1>4, <1>5, <1>6, CallMoves

\* withdrawRegistration from a look: nothing remembered ends it.
LEMMA WithdrawsIfHeldKeeps ==
  ASSUME AlertsInv, NEW c \in Calls, NEW say \in {"unasked", "denied"},
         WithdrawsIfHeld(c, say), calls[c].kind = "look",
         UNCHANGED <<device, who, rows, consent, spent>>
  PROVE  AlertsInv'
<1>1. CASE known = None
  <2>1. /\ Ends(c) /\ known' = known
        /\ store' = [status |-> say, endpoint |-> None]
    BY <1>1 DEF WithdrawsIfHeld, Shows
  <2>2. store' \in StoreType /\ store'.status = say /\ store'.endpoint \in Issuable
    BY <2>1 DEF StoreType, Statuses, Issuable
  <2>3. QED
    BY <2>1, <2>2, CallEnds, Bearings
<1>2. CASE known # None
  <2>1. PICK call \in CallType : call = calls[c]
    BY Bearings
  <2>2. PICK n : n = Withdraws(call, say)
    OBVIOUS
  <2>3. /\ n \in CallType /\ n.kind = "look" /\ n.at = "delete" /\ n.address = known
        /\ n.say = say /\ n.clean = calls[c].clean
    BY <2>1, <2>2, WithdrawsFields DEF AlertsInv, Permissions
  <2>4. calls' = [calls EXCEPT ![c] = n] /\ UNCHANGED <<store, known>>
    BY <1>2, <2>1, <2>2 DEF WithdrawsIfHeld, Goes
  <2>5. Staged(n) /\ consent \notin {"none", "off"}
    BY <1>2, <2>3, Bearings DEF Staged, Withdrawing
  <2>6. /\ store' \in StoreType /\ store'.endpoint \in Issuable /\ known' \in Issuable
        /\ n.address \in Issuable
    BY <2>3, <2>4, Bearings
  <2>7. QED
    BY <2>3, <2>4, <2>5, <2>6, CallMoves, Bearings
<1>3. QED
  BY <1>1, <1>2

\* A call that is only told to wait for something else.
LEMMA WaitsKeeps ==
  ASSUME AlertsInv, NEW c \in Calls,
         NEW at \in {"token", "subscribe", "unsubscribed"}, Waits(c, at),
         calls[c].kind \in {"look", "enable"}, calls[c].kind = "look" => at = "token",
         at # "unsubscribed",
         device' = device, who' = who, known' = known,
         rows' = rows, consent' = consent, spent' = spent,
         consent \notin {"none", "off"},
         store' \in StoreType, store'.endpoint = store.endpoint,
         store' = store \/ calls[c].kind = "enable"
  PROVE  AlertsInv'
<1>1. PICK n : n = [calls[c] EXCEPT !.at = at]
  OBVIOUS
<1>2. /\ n \in CallType /\ n.at = at
      /\ n.kind = calls[c].kind /\ n.address = calls[c].address /\ n.clean = calls[c].clean
  BY <1>1, Bearings DEF CallType
<1>3. calls' = [calls EXCEPT ![c] = n]
  BY <1>1, Bearings DEF Waits
<1>4. Staged(n)
  BY <1>2 DEF Staged, Withdrawing
<1>5. /\ n.address \in Issuable /\ known' \in Issuable /\ store'.endpoint \in Issuable
      /\ spent' \in [changes : 0..MaxChanges, lost : 0..MaxLost]
  BY <1>2, Bearings
<1>6. store'.status = "enabling" =>
        \/ n.kind = "enable"
        \/ (store.status = "enabling" /\ calls[c].kind # "enable")
  BY <1>2
<1>7. QED
  BY <1>2, <1>3, <1>4, <1>5, <1>6, CallMoves

LEMMA PermissionKnownKeeps ==
  ASSUME AlertsInv, NEW c \in Calls, PermissionKnown(c)
  PROVE  AlertsInv'
<1>1. /\ calls[c].at = "permission known" /\ calls[c].kind \in {"look", "enable"}
      /\ UNCHANGED <<device, who, rows, consent, spent>>
  BY Bearings DEF PermissionKnown, Staged
<1>2. CASE calls[c].kind = "look" /\ calls[c].say = "granted" /\ known = None
  <2>1. /\ Ends(c) /\ known' = known
        /\ store' = [status |-> "unasked", endpoint |-> None]
    BY <1>2 DEF PermissionKnown, LooksUp, Shows
  <2>2. store' \in StoreType /\ store'.status = "unasked" /\ store'.endpoint \in Issuable
    BY <2>1 DEF StoreType, Statuses, Issuable
  <2>3. QED
    BY <1>1, <1>2, <2>1, <2>2, CallEnds, Bearings
<1>3. CASE calls[c].kind = "look" /\ calls[c].say = "granted" /\ known # None
  <2>1. Waits(c, "token") /\ UNCHANGED <<store, known>>
    BY <1>3 DEF PermissionKnown, LooksUp
  <2>2. QED
    BY <1>1, <1>3, <2>1, WaitsKeeps, Bearings
<1>4. CASE calls[c].kind = "look" /\ calls[c].say # "granted"
  <2>1. WithdrawsIfHeld(c, Refusal(calls[c].say))
    BY <1>4 DEF PermissionKnown
  <2>2. Refusal(calls[c].say) \in {"unasked", "denied"}
    BY DEF Refusal
  <2>3. QED
    BY <1>1, <1>4, <2>1, <2>2, WithdrawsIfHeldKeeps
<1>5. CASE calls[c].kind = "enable" /\ calls[c].say = "granted"
  <2>1. /\ Waits(c, IF Native THEN "token" ELSE "subscribe") /\ known' = known
        /\ store' = IF Native THEN store ELSE [store EXCEPT !.status = "enabling"]
    BY <1>5 DEF PermissionKnown
  <2>2. store' \in StoreType /\ store'.endpoint = store.endpoint
    BY <2>1, Bearings DEF StoreType, Statuses
  <2>3. consent \notin {"none", "off"}
    BY <1>5, Bearings DEF Idles
  <2>4. QED
    BY <1>1, <1>5, <2>1, <2>2, <2>3, WaitsKeeps
<1>6. CASE calls[c].kind = "enable" /\ calls[c].say # "granted"
  <2>1. /\ Ends(c) /\ known' = known
        /\ store' = [store EXCEPT !.status = Refusal(calls[c].say)]
    BY <1>6 DEF PermissionKnown
  <2>2. /\ store' \in StoreType /\ store'.status \in {"unasked", "denied"}
        /\ store'.endpoint = store.endpoint
    BY <2>1, Bearings DEF StoreType, Statuses, Refusal
  <2>3. QED
    BY <1>1, <1>6, <2>1, <2>2, CallEnds, Bearings
<1>7. QED
  BY <1>1, <1>2, <1>3, <1>4, <1>5, <1>6

\* A request about the address a call already has.
LEMMA RequestsItsAddress ==
  ASSUME AlertsInv, NEW c \in Calls, NEW at \in {"post", "delete"},
         NEW n, n = Requesting(calls[c], at, calls[c].address)
  PROVE  /\ n \in CallType /\ n.at = at
         /\ n.kind = calls[c].kind /\ n.address = calls[c].address
         /\ n.clean = calls[c].clean
<1>1. PICK call \in CallType, address \in Addresses \cup {None} :
        call = calls[c] /\ address = calls[c].address
  BY Bearings, IssuableAddresses DEF AlertsInv
<1>2. n = Requesting(call, at, address)
  BY <1>1
<1>3. QED
  BY <1>1, <1>2, RequestingFields DEF AlertsInv

LEMMA PostsKeeps ==
  ASSUME AlertsInv, NEW c \in Calls, Posts(c),
         calls[c].at = "address known",
         calls[c].address # None \/ calls[c].kind = "enable",
         UNCHANGED <<device, who, rows, consent, spent>>
  PROVE  AlertsInv'
<1>1. PICK n : n = Requesting(calls[c], "post", calls[c].address)
  OBVIOUS
<1>2. /\ n \in CallType /\ n.at = "post"
      /\ n.kind = calls[c].kind /\ n.address = calls[c].address /\ n.clean = calls[c].clean
  BY <1>1, RequestsItsAddress
<1>3. calls' = [calls EXCEPT ![c] = n] /\ UNCHANGED <<store, known>>
  BY <1>1 DEF Posts, Goes
<1>4. Staged(n) /\ calls[c].kind # "none"
  BY <1>2, Bearings DEF Staged, Withdrawing
<1>5. consent \notin {"none", "off"}
  BY Bearings DEF Idles
<1>6. QED
  BY <1>2, <1>3, <1>4, <1>5, Bearings, OnlyACallMoves

LEMMA AddressKnownKeeps ==
  ASSUME AlertsInv, NEW c \in Calls, AddressKnown(c)
  PROVE  AlertsInv'
<1>1. /\ calls[c].at = "address known" /\ calls[c].kind \in {"look", "enable"}
      /\ UNCHANGED <<device, who, rows, consent, spent>>
  BY Bearings DEF AddressKnown, Staged
<1>2. CASE calls[c].kind = "look" /\ calls[c].address = None
  BY <1>1, <1>2, WithdrawsIfHeldKeeps DEF AddressKnown
<1>3. CASE (calls[c].address # None \/ calls[c].kind = "enable") /\ Posts(c)
  BY <1>1, <1>3, PostsKeeps
<1>4. CASE calls[c].kind = "look" /\ calls[c].address # None /\ calls[c].address = known
  <2>1. PICK m : m = Requesting(calls[c], "post", calls[c].address)
    OBVIOUS
  <2>2. PICK n : n = Detached(m)
    OBVIOUS
  <2>3. /\ m \in CallType /\ m.at = "post" /\ m.address = known /\ m.clean = calls[c].clean
    BY <1>4, <2>1, Bearings, RequestingFields DEF AlertsInv
  <2>4. /\ n \in CallType /\ n.at = "post" /\ n.kind = "late" /\ n.address = known
    BY <2>2, <2>3, DetachedFields
  <2>5. /\ calls' = [calls EXCEPT ![c] = n] /\ known' = known
        /\ store' = [status |-> "granted", endpoint |-> known]
    BY <1>4, <2>1, <2>2 DEF AddressKnown, Refreshes, Goes, Shows
  <2>6. /\ store' \in StoreType /\ store'.status = "granted" /\ store'.endpoint \in Issuable
    BY <2>5, Bearings DEF StoreType, Statuses
  <2>7. Staged(n) /\ consent \notin {"none", "off"}
    BY <1>1, <1>4, <2>4, Bearings DEF Staged, Withdrawing, Idles
  <2>8. n.address \in Issuable /\ known' \in Issuable
    BY <2>4, <2>5, Bearings
  <2>9. QED
    BY <1>1, <1>4, <2>4, <2>5, <2>6, <2>7, <2>8, Bearings, CallMoves
<1>5. QED
  BY <1>1, <1>2, <1>3, <1>4 DEF AddressKnown, Refreshes

LEMMA PostedKeeps ==
  ASSUME AlertsInv, NEW c \in Calls, Posted(c)
  PROVE  AlertsInv'
<1>1. /\ calls[c].at = "posted" /\ Ends(c)
      /\ UNCHANGED <<device, who, rows, consent, spent>>
  BY DEF Posted
<1>2. consent \notin {"none", "off"} /\ calls[c].kind \in {"look", "enable", "late"}
  BY <1>1, Bearings DEF Idles, Staged
<1>3. CASE calls[c].kind = "late"
  <2>1. store' = store /\ known' = known
    BY <1>3 DEF Posted
  <2>2. QED
    BY <1>1, <1>2, <1>3, <2>1, Bearings, CallEnds
<1>4. CASE calls[c].kind # "late"
  <2>1. /\ known' = calls[c].address
        /\ store' = [status |-> "granted", endpoint |-> calls[c].address]
    BY <1>4 DEF Posted, Shows
  <2>2. calls[c].address \in Issuable /\ calls[c].address \in Addresses \cup {None}
    BY Bearings, IssuableAddresses DEF AlertsInv
  <2>3. store' \in StoreType /\ store'.status = "granted" /\ store'.endpoint \in Issuable
    BY <2>1, <2>2 DEF StoreType, Statuses
  <2>4. QED
    BY <1>1, <1>2, <1>4, <2>1, <2>2, <2>3, CallEnds
<1>5. QED
  BY <1>3, <1>4

LEMMA ThrewKeeps ==
  ASSUME AlertsInv, NEW c \in Calls, Threw(c)
  PROVE  AlertsInv'
<1>1. /\ calls[c].at = "threw" /\ Ends(c) /\ store' = SaysWhatFailed(calls[c])
      /\ UNCHANGED <<device, who, known, rows, consent, spent>>
  BY DEF Threw
<1>2. calls[c].kind \in {"look", "enable", "disable", "late"}
  BY <1>1, Bearings DEF Staged, Withdrawing
<1>3. /\ store' \in StoreType /\ store'.endpoint = store.endpoint
      /\ calls[c].kind = "disable" => store' = store
      /\ store' = store \/ store'.status \in {"unasked", "error"}
      /\ store' = store =>
           calls[c].kind \in {"disable", "late"} \/ store.status \in {"unasked", "error"}
  BY <1>1, <1>2, Bearings DEF SaysWhatFailed, StoreType, Statuses
<1>4. QED
  BY <1>1, <1>2, <1>3, Bearings, CallEnds

LEMMA UnsubscribedKeeps ==
  ASSUME AlertsInv, NEW c \in Calls, Unsubscribed(c)
  PROVE  AlertsInv'
<1>1. /\ calls[c].at = "unsubscribed"
      /\ UNCHANGED <<device, who, store, known, rows, consent, spent>>
  BY DEF Unsubscribed
<1>2. calls[c].kind = "disable" /\ consent \notin {"none", "off"}
  BY <1>1, Bearings DEF Staged, Withdrawing, Idles
<1>3. CASE calls[c].address = None
  BY <1>1, <1>2, <1>3, Bearings, CallEnds DEF Unsubscribed
<1>4. CASE calls[c].address # None
  <2>1. PICK n : n = Requesting(calls[c], "delete", calls[c].address)
    OBVIOUS
  <2>2. /\ n \in CallType /\ n.at = "delete"
        /\ n.kind = calls[c].kind /\ n.address = calls[c].address /\ n.clean = calls[c].clean
    BY <2>1, RequestsItsAddress
  <2>3. calls' = [calls EXCEPT ![c] = n] /\ Staged(n)
    BY <1>2, <1>4, <2>1, <2>2 DEF Unsubscribed, Goes, Staged, Withdrawing
  <2>4. QED
    BY <1>1, <1>2, <2>2, <2>3, Bearings, OnlyACallMoves
<1>5. QED
  BY <1>3, <1>4

-----------------------------------------------------------------------------
(* The server's rows, and withdrawals answered.                            *)

\* While a request or an enable is out no device is off, and no disable is the
\* last word: what such a call does next owes those two conjuncts nothing.
LEMMA BusyIsNotOff ==
  ASSUME AlertsInv, NEW c \in Calls,
         calls[c].at \in {"prompt", "subscribe", "unsubscribe", "unsubscribed", "post",
                          "posted", "delete", "own", "deleted", "kept"}
  PROVE  /\ consent \in {"given", "withdrawn"}
         /\ \A d \in Calls : d # c => ~(calls[d].kind = "disable" /\ calls[d].clean)
<1>1. consent \in {"given", "withdrawn"}
  BY Bearings DEF Idles, AlertsInv, AlertsTypeOK
<1>2. calls[c].kind # "none"
  BY Bearings DEF Staged, Withdrawing
<1>3. QED
  BY <1>1, <1>2 DEF AlertsInv, CleanDisableIsAlone, LastWord

LEMMA SaveKeeps ==
  ASSUME AlertsInv, NEW c \in Calls, Save(c)
  PROVE  AlertsInv'
<1>1. PICK n : n = [calls[c] EXCEPT !.at = "posted"]
  OBVIOUS
<1>2. /\ n \in CallType /\ n.at = "posted" /\ calls[c].as \in Accounts \cup {None}
      /\ n.kind = calls[c].kind /\ n.address = calls[c].address /\ n.say = calls[c].say
      /\ n.clean = calls[c].clean
  BY <1>1, Bearings DEF CallType
<1>3. /\ calls' = [calls EXCEPT ![c] = n] /\ calls[c].at = "post"
      /\ rows' = [rows EXCEPT ![calls[c].address] = calls[c].as]
      /\ device' = device /\ who' = who /\ store' = store /\ known' = known
      /\ consent' = consent /\ spent' = spent
  BY <1>1, Bearings DEF Save, Waits
<1>4. /\ calls' \in [Calls -> CallType] /\ calls'[c] = n
      /\ \A d \in Calls : d # c => calls'[d] = calls[d]
  BY <1>2, <1>3, Bearings
<1>5. rows \in [Addresses -> Accounts \cup {None}]
  BY DEF AlertsInv, AlertsTypeOK
<1>6. Staged(n) /\ n.kind # "disable"
  BY <1>2, <1>3, Bearings DEF Staged, Withdrawing
<1>7. AlertsTypeOK'
  BY <1>2, <1>3, <1>4, <1>5 DEF AlertsInv, AlertsTypeOK
<1>8. CallsAreStaged'
  BY <1>3, <1>4, <1>6, OneIsStaged DEF AlertsInv
<1>9. AddressesAreIssued'
  <2>1. device.issued \in Nat /\ None \notin Addresses
    BY AlertsAssumption DEF AlertsInv, AlertsTypeOK
  <2>2. \A a \in Addresses : rows'[a] # None => a <= device.issued
    BY <1>3, <1>5, <2>1, Bearings DEF AlertsInv, AddressesAreIssued, Issuable
  <2>3. QED
    BY <1>2, <1>3, <1>4, <2>2 DEF AlertsInv, AddressesAreIssued, Issuable
<1>10. CleanDisableIsAlone' /\ OffIsQuiet'
  BY <1>3, <1>4, <1>6, BusyIsNotOff DEF CleanDisableIsAlone, LastWord, OffIsQuiet
<1>11. EnablingIsUnderWay'
  BY <1>2, <1>3, <1>4 DEF AlertsInv, EnablingIsUnderWay
<1>12. QED
  BY <1>7, <1>8, <1>9, <1>10, <1>11 DEF AlertsInv

LEMMA DeleteKeeps ==
  ASSUME AlertsInv, NEW c \in Calls, Delete(c)
  PROVE  AlertsInv'
<1>1. PICK n : n = [calls[c] EXCEPT !.at = "deleted"]
  OBVIOUS
<1>2. /\ n \in CallType /\ n.at = "deleted"
      /\ n.kind = calls[c].kind /\ n.address = calls[c].address /\ n.say = calls[c].say
      /\ n.clean = calls[c].clean
  BY <1>1, Bearings DEF CallType
<1>3. /\ calls' = [calls EXCEPT ![c] = n] /\ calls[c].at = "own"
      /\ rows' = [rows EXCEPT ![calls[c].address] = None]
      /\ device' = device /\ who' = who /\ store' = store /\ known' = known
      /\ consent' = consent /\ spent' = spent
  BY <1>1, Bearings DEF Delete, Waits
<1>4. /\ calls' \in [Calls -> CallType] /\ calls'[c] = n
      /\ \A d \in Calls : d # c => calls'[d] = calls[d]
  BY <1>2, <1>3, Bearings
<1>5. rows \in [Addresses -> Accounts \cup {None}]
  BY DEF AlertsInv, AlertsTypeOK
<1>6. Staged(n)
  BY <1>2, <1>3, Bearings DEF Staged, Withdrawing
<1>7. AlertsTypeOK'
  BY <1>3, <1>4, <1>5 DEF AlertsInv, AlertsTypeOK
<1>8. CallsAreStaged'
  BY <1>3, <1>4, <1>6, OneIsStaged DEF AlertsInv
<1>9. AddressesAreIssued'
  BY <1>2, <1>3, <1>4, <1>5 DEF AlertsInv, AddressesAreIssued, Issuable
<1>10. LastWord(c)'
  <2>1. n.address \in Addresses \cup {None}
    BY <1>2 DEF CallType
  <2>2. ~Held(n.address)'
    BY <1>2, <1>3, <1>5, <2>1 DEF Held
  <2>3. LastWord(c)
    BY DEF AlertsInv, CleanDisableIsAlone
  <2>4. QED
    BY <1>2, <1>3, <1>4, <2>2, <2>3 DEF LastWord, Native, Held
<1>11. CleanDisableIsAlone' /\ OffIsQuiet'
  BY <1>3, <1>4, <1>10, BusyIsNotOff DEF CleanDisableIsAlone, LastWord, OffIsQuiet
<1>12. EnablingIsUnderWay'
  BY <1>2, <1>3, <1>4 DEF AlertsInv, EnablingIsUnderWay
<1>13. QED
  BY <1>7, <1>8, <1>9, <1>11, <1>12 DEF AlertsInv

LEMMA WithdrawnKeeps ==
  ASSUME AlertsInv, NEW c \in Calls, Withdrawn(c)
  PROVE  AlertsInv'
<1>1. /\ calls[c].at \in {"deleted", "kept"} /\ Ends(c)
      /\ device' = device /\ who' = who /\ rows' = rows /\ spent' = spent
  BY DEF Withdrawn
<1>2. calls[c].kind \in {"look", "disable", "late"}
  BY <1>1, Bearings DEF Staged, Withdrawing
<1>3. consent \in {"given", "withdrawn"}
  BY <1>1, BusyIsNotOff
<1>4. CASE calls[c].kind = "look"
  <2>1. Verdict(calls[c]) \in {"unasked", "denied"}
    BY <1>1, <1>4, Bearings DEF Verdict, Refusal, Staged, Withdrawing
  <2>2. /\ known' \in {None, known} /\ consent' = consent
        /\ store' = [status |-> Verdict(calls[c]), endpoint |-> None]
    BY <1>1, <1>4 DEF Withdrawn, Shows
  <2>3. /\ store' \in StoreType /\ store'.status \in {"unasked", "denied"}
        /\ store'.endpoint \in Issuable /\ known' \in Issuable
    BY <2>1, <2>2, Bearings DEF StoreType, Statuses, Issuable
  <2>4. QED
    BY <1>1, <1>3, <1>4, <2>2, <2>3, CallEnds
<1>5. CASE calls[c].kind # "look" /\ consent' = consent
  <2>1. store' = store /\ known' = known
    BY <1>5 DEF Withdrawn
  <2>2. QED
    BY <1>1, <1>2, <1>3, <1>5, <2>1, Bearings, CallEnds
<1>6. CASE calls[c].kind # "look" /\ consent' # consent
  <2>1. /\ calls[c].kind = "disable" /\ calls[c].clean /\ consent' = "off"
        /\ ~Native \/ calls[c].address = device.address
        /\ store' = store /\ known' = known
    BY <1>6 DEF Withdrawn
  <2>2. /\ \A d \in Calls : d # c => calls[d].kind = "none"
        /\ known = None /\ store.status \notin {"granted", "enabling"}
        /\ calls[c].at = "deleted" /\ ~Held(calls[c].address)
        /\ ~Native => device.address = None
    BY <1>1, <2>1 DEF AlertsInv, CleanDisableIsAlone, LastWord
  <2>3. ~Held(device.address)
    BY <2>1, <2>2 DEF Held
  <2>4. /\ calls' \in [Calls -> CallType] /\ calls'[c] = Idle
        /\ \A d \in Calls : d # c => calls'[d] = calls[d]
    BY <1>1, Bearings, IdleFields DEF Ends, AlertsInv
  <2>5. AlertsTypeOK'
    BY <1>1, <2>1, <2>4 DEF AlertsInv, AlertsTypeOK
  <2>6. \A d \in Calls : calls'[d].kind = "none" /\ calls'[d].at = "none"
    BY <2>2, <2>4, IdleFields DEF AlertsInv, CallsAreStaged, Staged
  <2>7. CallsAreStaged' /\ CleanDisableIsAlone' /\ EnablingIsUnderWay'
    BY <2>1, <2>2, <2>6
       DEF CallsAreStaged, Staged, CleanDisableIsAlone, LastWord, EnablingIsUnderWay
  <2>8. AddressesAreIssued'
    BY <1>1, <2>1, <2>4, IdleFields DEF AlertsInv, AddressesAreIssued, Issuable
  <2>9. OffIsQuiet'
    BY <1>1, <2>1, <2>2, <2>3, <2>6 DEF OffIsQuiet, Idles, Native, Held
  <2>10. QED
    BY <2>5, <2>7, <2>8, <2>9 DEF AlertsInv
<1>7. QED
  BY <1>4, <1>5, <1>6

-----------------------------------------------------------------------------
(* The answers that change the device.                                     *)

LEMMA AnswerPromptKeeps ==
  ASSUME AlertsInv, NEW c \in Calls, NEW permission \in Permissions,
         AnswerPrompt(c, permission)
  PROVE  AlertsInv'
<1>1. PICK n : n = [calls[c] EXCEPT !.at = "permission known", !.say = permission]
  OBVIOUS
<1>2. /\ n \in CallType /\ n.at = "permission known"
      /\ n.kind = calls[c].kind /\ n.address = calls[c].address
  BY <1>1, Bearings DEF CallType
<1>3. /\ calls' = [calls EXCEPT ![c] = n] /\ calls[c].at = "prompt"
      /\ device' = [device EXCEPT !.permission = permission]
      /\ who' = who /\ store' = store /\ known' = known
      /\ rows' = rows /\ consent' = consent /\ spent' = spent
  BY <1>1 DEF AnswerPrompt, Goes
<1>4. /\ calls' \in [Calls -> CallType] /\ calls'[c] = n
      /\ \A d \in Calls : d # c => calls'[d] = calls[d]
  BY <1>2, <1>3, Bearings
<1>5. /\ device'.transport = device.transport /\ device'.address = device.address
      /\ device'.issued = device.issued
  BY <1>3 DEF AlertsInv, AlertsTypeOK
<1>6. Staged(n) /\ calls[c].kind = "enable"
  BY <1>2, <1>3, Bearings DEF Staged, Withdrawing
<1>7. AlertsTypeOK'
  BY <1>3, <1>4 DEF AlertsInv, AlertsTypeOK
<1>8. CallsAreStaged'
  BY <1>4, <1>5, <1>6, OneIsStaged DEF AlertsInv
<1>9. AddressesAreIssued'
  BY <1>2, <1>3, <1>4, <1>5 DEF AlertsInv, AddressesAreIssued, Issuable
<1>10. CleanDisableIsAlone' /\ OffIsQuiet'
  BY <1>2, <1>3, <1>4, <1>6, BusyIsNotOff DEF CleanDisableIsAlone, LastWord, OffIsQuiet
<1>11. EnablingIsUnderWay'
  BY <1>2, <1>3, <1>4 DEF AlertsInv, EnablingIsUnderWay
<1>12. QED
  BY <1>7, <1>8, <1>9, <1>10, <1>11 DEF AlertsInv

\* The next address is one nothing has used.
LEMMA IssuedFields ==
  ASSUME AlertsTypeOK, device.issued < MaxAddress
  PROVE  /\ Issued \in DeviceType
         /\ Issued.transport = device.transport
         /\ Issued.issued = device.issued + 1
         /\ Issued.address = device.issued + 1
<1>1. /\ device \in DeviceType /\ device.issued \in 0..MaxAddress /\ MaxAddress \in Nat
  BY AlertsAssumption DEF AlertsTypeOK, DeviceType
<1>2. PICK k : k = device.issued + 1
  OBVIOUS
<1>3. k \in 0..MaxAddress /\ k \in Addresses \cup {None}
  BY <1>1, <1>2 DEF Addresses
<1>4. Issued = [device EXCEPT !.address = k, !.issued = k]
  BY <1>2 DEF Issued
<1>5. QED
  BY <1>1, <1>2, <1>3, <1>4 DEF DeviceType

LEMMA AnswerSubscribeKeeps ==
  ASSUME AlertsInv, NEW c \in Calls, AnswerSubscribe(c)
  PROVE  AlertsInv'
<1>1. PICK n : n = [calls[c] EXCEPT !.at = "address known", !.address = device'.address]
  OBVIOUS
<1>2. /\ calls' = [calls EXCEPT ![c] = n] /\ calls[c].at = "subscribe"
      /\ who' = who /\ store' = store /\ known' = known
      /\ rows' = rows /\ consent' = consent /\ spent' = spent
  BY <1>1 DEF AnswerSubscribe, Goes
<1>3. device.issued \in 0..MaxAddress /\ MaxAddress \in Nat
  BY AlertsAssumption DEF AlertsInv, AlertsTypeOK
<1>4. /\ device' \in DeviceType
      /\ device'.transport = device.transport
      /\ device'.issued \in {device.issued, device.issued + 1}
      /\ device'.address \in {device.address} \cup 1..device'.issued
  <2>1. CASE device' = device
    BY <2>1 DEF AlertsInv, AlertsTypeOK, DeviceType
  <2>2. CASE device.issued < MaxAddress /\ device' = Issued
    BY <1>3, <2>2, IssuedFields DEF AlertsInv
  <2>3. QED
    BY <2>1, <2>2 DEF AnswerSubscribe
<1>5. Issuable \subseteq Issuable' /\ device'.address \in Issuable'
  BY <1>3, <1>4, Bearings DEF Issuable
<1>6. /\ n \in CallType /\ n.at = "address known"
      /\ n.kind = calls[c].kind /\ n.address = device'.address
  <2>1. PICK address \in Addresses \cup {None} : address = device'.address
    BY <1>4 DEF DeviceType
  <2>2. n = [calls[c] EXCEPT !.at = "address known", !.address = address]
    BY <1>1, <2>1
  <2>3. QED
    BY <2>1, <2>2, Bearings DEF CallType
<1>7. /\ calls' \in [Calls -> CallType] /\ calls'[c] = n
      /\ \A d \in Calls : d # c => calls'[d] = calls[d]
  BY <1>2, <1>6, Bearings
<1>8. Staged(n) /\ calls[c].kind = "enable"
  BY <1>2, <1>6, Bearings DEF Staged, Withdrawing
<1>9. AlertsTypeOK'
  BY <1>2, <1>4, <1>7 DEF AlertsInv, AlertsTypeOK, DeviceType
<1>10. CallsAreStaged'
  BY <1>4, <1>7, <1>8, OneIsStaged DEF AlertsInv
<1>11. AddressesAreIssued'
  <2>1. \A a \in Addresses : rows'[a] # None => a <= device'.issued
    BY <1>2, <1>3, <1>4 DEF AlertsInv, AddressesAreIssued, Addresses
  <2>2. \A d \in Calls : calls'[d].address \in Issuable'
    BY <1>5, <1>6, <1>7 DEF AlertsInv, AddressesAreIssued
  <2>3. QED
    BY <1>2, <1>5, <2>1, <2>2 DEF AlertsInv, AddressesAreIssued
<1>12. CleanDisableIsAlone' /\ OffIsQuiet'
  BY <1>2, <1>6, <1>7, <1>8, BusyIsNotOff DEF CleanDisableIsAlone, LastWord, OffIsQuiet
<1>13. EnablingIsUnderWay'
  BY <1>2, <1>6, <1>7 DEF AlertsInv, EnablingIsUnderWay
<1>14. QED
  BY <1>9, <1>10, <1>11, <1>12, <1>13 DEF AlertsInv

LEMMA AnswerUnsubscribeKeeps ==
  ASSUME AlertsInv, NEW c \in Calls, AnswerUnsubscribe(c)
  PROVE  AlertsInv'
<1>1. PICK n : n = [calls[c] EXCEPT !.at = "unsubscribed"]
  OBVIOUS
<1>2. /\ n \in CallType /\ n.at = "unsubscribed"
      /\ n.kind = calls[c].kind /\ n.address = calls[c].address /\ n.clean = calls[c].clean
  BY <1>1, Bearings DEF CallType
<1>3. /\ calls' = [calls EXCEPT ![c] = n] /\ calls[c].at = "unsubscribe"
      /\ device' = [device EXCEPT !.address = None]
      /\ who' = who /\ store' = store /\ known' = known
      /\ rows' = rows /\ consent' = consent /\ spent' = spent
  BY <1>1, Bearings DEF AnswerUnsubscribe, Waits
<1>4. /\ calls' \in [Calls -> CallType] /\ calls'[c] = n
      /\ \A d \in Calls : d # c => calls'[d] = calls[d]
  BY <1>2, <1>3, Bearings
<1>5. /\ device'.transport = device.transport /\ device'.address = None
      /\ device'.issued = device.issued
  BY <1>3 DEF AlertsInv, AlertsTypeOK
<1>6. Staged(n) /\ calls[c].kind = "disable"
  BY <1>2, <1>3, Bearings DEF Staged, Withdrawing
<1>7. AlertsTypeOK'
  BY <1>3, <1>4 DEF AlertsInv, AlertsTypeOK
<1>8. CallsAreStaged'
  BY <1>4, <1>5, <1>6, OneIsStaged DEF AlertsInv
<1>9. AddressesAreIssued'
  BY <1>2, <1>3, <1>4, <1>5 DEF AlertsInv, AddressesAreIssued, Issuable
<1>10. LastWord(c)'
  BY <1>2, <1>3, <1>4, <1>5, <1>6 DEF AlertsInv, CleanDisableIsAlone, LastWord
<1>11. CleanDisableIsAlone' /\ OffIsQuiet'
  BY <1>3, <1>4, <1>10, BusyIsNotOff DEF CleanDisableIsAlone, LastWord, OffIsQuiet
<1>12. EnablingIsUnderWay'
  BY <1>2, <1>3, <1>4 DEF AlertsInv, EnablingIsUnderWay
<1>13. QED
  BY <1>7, <1>8, <1>9, <1>11, <1>12 DEF AlertsInv

-----------------------------------------------------------------------------
(* The world around the store.                                             *)

LEMMA UncleanFields ==
  ASSUME AlertsInv
  PROVE  /\ Unclean \in [Calls -> CallType]
         /\ \A c \in Calls :
              /\ Unclean[c].kind = calls[c].kind /\ Unclean[c].at = calls[c].at
              /\ Unclean[c].address = calls[c].address /\ Unclean[c].say = calls[c].say
              /\ Unclean[c].clean = FALSE
<1>1. ASSUME NEW c \in Calls
      PROVE  /\ Unclean[c] \in CallType
             /\ Unclean[c].kind = calls[c].kind /\ Unclean[c].at = calls[c].at
             /\ Unclean[c].address = calls[c].address /\ Unclean[c].say = calls[c].say
             /\ Unclean[c].clean = FALSE
  <2>1. PICK call \in CallType : call = calls[c]
    BY Bearings
  <2>. DEFINE n == [call EXCEPT !.clean = FALSE]
  <2>2. Unclean[c] = n
    BY <2>1 DEF Unclean
  <2>3. /\ n \in CallType /\ n.kind = call.kind /\ n.at = call.at
        /\ n.address = call.address /\ n.say = call.say /\ n.clean = FALSE
    BY DEF CallType
  <2>4. QED
    BY <2>1, <2>2, <2>3
<1>2. QED
  BY <1>1 DEF Unclean

LEMMA DisturbsType ==
  ASSUME AlertsInv, Disturbs
  PROVE  spent' \in [changes : 0..MaxChanges, lost : 0..MaxLost]
  BY AlertsAssumption DEF Disturbs, AlertsInv, AlertsTypeOK

\* A change that moves no call: what the device and the rows must still have.
LEMMA ChangeKeeps ==
  ASSUME AlertsInv, calls' = Unclean,
         store' = store, known' = known, consent' = consent,
         spent' \in [changes : 0..MaxChanges, lost : 0..MaxLost],
         device' \in DeviceType, device'.transport = device.transport,
         who' \in [session : Accounts \cup {None}, guest : Guests],
         rows' \in [Addresses -> Accounts \cup {None}],
         device'.issued >= device.issued, device'.address \in Issuable',
         \A a \in Addresses : rows'[a] # None => rows[a] # None,
         consent \in {"none", "off"} =>
           /\ ~Held(device.address)'
           /\ ~Native => device'.address = None
  PROVE  AlertsInv'
<1>1. /\ calls' \in [Calls -> CallType]
      /\ \A c \in Calls :
           /\ calls'[c].kind = calls[c].kind /\ calls'[c].at = calls[c].at
           /\ calls'[c].address = calls[c].address /\ calls'[c].say = calls[c].say
           /\ calls'[c].clean = FALSE
  BY UncleanFields
<1>2. Native' = Native
  BY DEF Native
<1>3. AlertsTypeOK'
  BY <1>1 DEF AlertsInv, AlertsTypeOK, DeviceType
<1>4. CallsAreStaged'
  <2>1. ASSUME NEW c \in Calls PROVE Staged(calls[c])'
    <3>1. Staged(calls[c])
      BY DEF AlertsInv, CallsAreStaged
    <3>2. /\ calls'[c].kind = calls[c].kind /\ calls'[c].at = calls[c].at
          /\ calls'[c].say = calls[c].say
      BY <1>1
    <3>3. QED
      BY <1>2, <3>1, <3>2 DEF Staged
  <2>2. QED
    BY <2>1 DEF CallsAreStaged
<1>5. AddressesAreIssued'
  <2>1. device.issued \in Nat /\ device'.issued \in Nat
    BY AlertsAssumption DEF AlertsInv, AlertsTypeOK, DeviceType
  <2>2. Issuable \subseteq Issuable'
    BY <2>1 DEF Issuable
  <2>3. \A a \in Addresses : rows'[a] # None => a <= device'.issued
    BY <2>1 DEF AlertsInv, AddressesAreIssued, Addresses
  <2>4. QED
    BY <1>1, <2>2, <2>3 DEF AlertsInv, AddressesAreIssued
<1>6. CleanDisableIsAlone'
  BY <1>1 DEF CleanDisableIsAlone, LastWord
<1>7. OffIsQuiet'
  BY <1>1, <1>2 DEF AlertsInv, OffIsQuiet, Idles
<1>8. EnablingIsUnderWay'
  BY <1>1 DEF AlertsInv, EnablingIsUnderWay
<1>9. QED
  BY <1>3, <1>4, <1>5, <1>6, <1>7, <1>8 DEF AlertsInv

\* The device, the guest and the rows as they stand.
LEMMA Standing ==
  ASSUME AlertsInv
  PROVE  /\ device \in DeviceType /\ device.issued \in Nat /\ MaxAddress \in Nat
         /\ who \in [session : Accounts \cup {None}, guest : Guests]
         /\ rows \in [Addresses -> Accounts \cup {None}]
         /\ device.address \in Issuable /\ device.address \in Addresses \cup {None}
         /\ consent \in {"none", "off"} =>
              /\ ~Held(device.address)
              /\ ~Native => device.address = None
  BY AlertsAssumption
     DEF AlertsInv, AlertsTypeOK, DeviceType, AddressesAreIssued, OffIsQuiet

LEMMA ChangePermissionKeeps ==
  ASSUME AlertsInv, NEW permission \in Permissions, ChangePermission(permission)
  PROVE  AlertsInv'
<1>1. PICK address \in {device.address, None} :
        device' = [device EXCEPT !.permission = permission, !.address = address]
  BY DEF ChangePermission
<1>2. /\ device' \in DeviceType /\ device'.transport = device.transport
      /\ device'.issued = device.issued /\ device'.address = address
  BY <1>1, Standing DEF DeviceType
<1>3. /\ calls' = Unclean
      /\ who' = who /\ store' = store /\ known' = known /\ rows' = rows /\ consent' = consent
  BY DEF ChangePermission
<1>4. device'.address \in Issuable'
  BY <1>1, <1>2, Standing DEF Issuable
<1>5. consent \in {"none", "off"} =>
        /\ ~Held(device.address)'
        /\ ~Native => device'.address = None
  BY <1>1, <1>2, <1>3, Standing DEF Held
<1>6. spent' \in [changes : 0..MaxChanges, lost : 0..MaxLost] /\ device'.issued >= device.issued
  BY <1>2, Standing, DisturbsType DEF ChangePermission
<1>7. QED
  BY <1>2, <1>3, <1>4, <1>5, <1>6, Standing, ChangeKeeps

LEMMA RotateKeeps ==
  ASSUME AlertsInv, Rotate
  PROVE  AlertsInv'
<1>1. /\ calls' = Unclean /\ device' = Issued
      /\ device.address # None /\ device.issued < MaxAddress
      /\ who' = who /\ store' = store /\ known' = known /\ rows' = rows /\ consent' = consent
  BY DEF Rotate
<1>2. /\ device' \in DeviceType /\ device'.transport = device.transport
      /\ device'.issued = device.issued + 1 /\ device'.address = device.issued + 1
  BY <1>1, IssuedFields DEF AlertsInv
<1>3. device'.issued >= device.issued /\ device'.address \in Issuable'
  BY <1>2, Standing DEF Issuable
<1>4. ~Held(device.address)'
  <2>1. device.issued + 1 \in Addresses /\ ~(device.issued + 1 <= device.issued)
    BY <1>1, Standing DEF Addresses
  <2>2. rows[device.issued + 1] = None
    BY <2>1 DEF AlertsInv, AddressesAreIssued
  <2>3. QED
    BY <1>1, <1>2, <2>2 DEF Held
<1>5. spent' \in [changes : 0..MaxChanges, lost : 0..MaxLost]
  BY DisturbsType DEF Rotate
<1>6. consent \in {"none", "off"} => Native
  BY <1>1, Standing
<1>7. QED
  BY <1>1, <1>2, <1>3, <1>4, <1>5, <1>6, Standing, ChangeKeeps

LEMMA SignInKeeps ==
  ASSUME AlertsInv, NEW account \in Members \cup {who.guest}, SignIn(account)
  PROVE  AlertsInv'
<1>1. /\ calls' = Unclean
      /\ who' = [who EXCEPT !.session = account]
      /\ device' = device /\ store' = store /\ known' = known /\ consent' = consent
      /\ \/ rows' = rows
         \/ rows' = [a \in Addresses |-> IF rows[a] = who.guest THEN account ELSE rows[a]]
  BY DEF SignIn
<1>2. account \in Accounts /\ who.guest # None
  BY Standing, AlertsAssumption DEF Accounts
<1>3. who' \in [session : Accounts \cup {None}, guest : Guests]
  BY <1>1, <1>2, Standing
<1>4. /\ rows' \in [Addresses -> Accounts \cup {None}]
      /\ \A a \in Addresses : rows'[a] # None => rows[a] # None
  BY <1>1, <1>2, Standing
<1>5. consent \in {"none", "off"} =>
        /\ ~Held(device.address)'
        /\ ~Native => device'.address = None
  BY <1>1, <1>4, Standing DEF Held
<1>6. /\ spent' \in [changes : 0..MaxChanges, lost : 0..MaxLost]
      /\ device'.issued >= device.issued /\ device'.address \in Issuable'
  BY <1>1, Standing, DisturbsType DEF SignIn, Issuable
<1>7. QED
  BY <1>1, <1>3, <1>4, <1>5, <1>6, Standing, ChangeKeeps

LEMMA SignOutKeeps ==
  ASSUME AlertsInv, SignOut
  PROVE  AlertsInv'
<1>1. /\ calls' = Unclean /\ rows' = rows
      /\ device' = device /\ store' = store /\ known' = known /\ consent' = consent
  BY DEF SignOut
<1>2. who' \in [session : Accounts \cup {None}, guest : Guests]
  <2>1. /\ who' = [session |-> None,
                   guest |-> IF who.session = who.guest THEN who.guest + 1 ELSE who.guest]
        /\ who.session = who.guest => who.guest < MaxGuest
    BY DEF SignOut
  <2>2. who.guest \in 1..MaxGuest /\ MaxGuest \in Nat
    BY Standing, AlertsAssumption DEF Guests
  <2>3. (IF who.session = who.guest THEN who.guest + 1 ELSE who.guest) \in Guests
    BY <2>1, <2>2 DEF Guests
  <2>4. QED
    BY <2>1, <2>3
<1>3. /\ spent' \in [changes : 0..MaxChanges, lost : 0..MaxLost]
      /\ device'.issued >= device.issued /\ device'.address \in Issuable'
      /\ Held(device.address)' = Held(device.address)
  BY <1>1, Standing, DisturbsType DEF SignOut, Issuable, Held
<1>4. QED
  BY <1>1, <1>2, <1>3, Standing, ChangeKeeps

LEMMA CloseKeeps ==
  ASSUME AlertsInv, Close
  PROVE  AlertsInv'
<1>1. /\ store' = [status |-> "unsupported", endpoint |-> None]
      /\ device' = device /\ who' = who /\ known' = known /\ rows' = rows /\ consent' = consent
      /\ spent' \in [changes : 0..MaxChanges, lost : 0..MaxLost]
  BY DisturbsType DEF Close, Shows
<1>2. store' \in StoreType /\ store'.status = "unsupported" /\ store'.endpoint = None
  BY <1>1 DEF StoreType, Statuses
<1>3. ASSUME NEW c \in Calls
      PROVE  /\ calls'[c] \in CallType /\ ~calls'[c].clean
             /\ \/ calls'[c] = Idle
                \/ /\ calls'[c].kind = "late" /\ calls'[c].at = calls[c].at
                   /\ calls[c].at \in {"post", "delete", "own"}
                   /\ calls'[c].address = calls[c].address
  <2>1. PICK call \in CallType : /\ call = Unclean[c] /\ call.address = calls[c].address
                                 /\ call.at = calls[c].at /\ ~call.clean
    BY UncleanFields
  <2>2. calls'[c] = IF calls[c].at \in {"post", "delete", "own"} THEN Detached(call) ELSE Idle
    BY <2>1 DEF Close
  <2>3. QED
    BY <2>1, <2>2, DetachedFields, IdleFields DEF AlertsInv
<1>4. AlertsTypeOK'
  <2>1. calls' \in [Calls -> CallType]
    BY <1>3 DEF Close
  <2>2. QED
    BY <1>1, <1>2, <2>1 DEF AlertsInv, AlertsTypeOK, StoreType, Statuses
<1>5. CallsAreStaged'
  BY <1>3, IdleFields DEF AlertsInv, CallsAreStaged, Staged
<1>6. AddressesAreIssued'
  BY <1>1, <1>2, <1>3, IdleFields DEF AlertsInv, AddressesAreIssued, Issuable
<1>7. CleanDisableIsAlone' /\ EnablingIsUnderWay'
  BY <1>2, <1>3 DEF CleanDisableIsAlone, LastWord, EnablingIsUnderWay
<1>8. OffIsQuiet'
  BY <1>1, <1>2, <1>3, IdleFields DEF AlertsInv, OffIsQuiet, Idles, Native, Held
<1>9. QED
  BY <1>4, <1>5, <1>6, <1>7, <1>8 DEF AlertsInv

LEMMA PruneKeeps ==
  ASSUME AlertsInv, NEW address \in Addresses, Prune(address)
  PROVE  AlertsInv'
<1>1. /\ rows' = [rows EXCEPT ![address] = None]
      /\ device' = device /\ who' = who /\ store' = store /\ known' = known
      /\ calls' = calls /\ consent' = consent /\ spent' = spent
  BY DEF Prune
<1>2. /\ rows' \in [Addresses -> Accounts \cup {None}]
      /\ \A a \in Addresses : rows'[a] # None => rows[a] # None
  BY <1>1, Standing
<1>3. AlertsTypeOK'
  BY <1>1, <1>2 DEF AlertsInv, AlertsTypeOK
<1>4. CallsAreStaged' /\ EnablingIsUnderWay'
  BY <1>1 DEF AlertsInv, CallsAreStaged, Staged, Native, EnablingIsUnderWay
<1>5. AddressesAreIssued'
  BY <1>1, <1>2 DEF AlertsInv, AddressesAreIssued, Issuable
<1>6. \A a \in Addresses \cup {None} : ~Held(a) => ~Held(a)'
  BY <1>2 DEF Held
<1>7. CleanDisableIsAlone'
  <2>1. \A c \in Calls : calls[c].address \in Addresses \cup {None}
    BY Bearings, IssuableAddresses DEF AlertsInv
  <2>2. QED
    BY <1>1, <1>6, <2>1 DEF AlertsInv, CleanDisableIsAlone, LastWord, Native
<1>8. OffIsQuiet'
  BY <1>1, <1>6, Standing DEF AlertsInv, OffIsQuiet, Idles, Native
<1>9. QED
  BY <1>3, <1>4, <1>5, <1>7, <1>8 DEF AlertsInv

-----------------------------------------------------------------------------
(* The three entries.                                                      *)

LEMMA BeginFields ==
  ASSUME AlertsInv, NEW c \in Calls, NEW call \in CallType, Begin(c, call)
  PROVE  /\ calls' \in [Calls -> CallType]
         /\ calls'[c].kind = call.kind /\ calls'[c].at = call.at
         /\ calls'[c].address = call.address /\ calls'[c].say = call.say
         /\ calls'[c].clean => \A d \in Calls : calls[d].kind = "none"
         /\ \A d \in Calls : d # c =>
              /\ calls'[d].kind = calls[d].kind /\ calls'[d].at = calls[d].at
              /\ calls'[d].address = calls[d].address /\ calls'[d].say = calls[d].say
              /\ calls'[d].clean = FALSE
<1>1. PICK alone \in BOOLEAN : alone = (Out = {})
  OBVIOUS
<1>2. alone => \A d \in Calls : calls[d].kind = "none"
  BY <1>1, IdleFields DEF Out, AlertsInv
<1>3. PICK n : n = [call EXCEPT !.clean = alone]
  OBVIOUS
<1>4. /\ n \in CallType /\ n.kind = call.kind /\ n.at = call.at
      /\ n.address = call.address /\ n.say = call.say /\ n.clean = alone
  BY <1>3 DEF CallType
<1>5. calls' = [d \in Calls |-> IF d = c THEN n ELSE Unclean[d]]
  BY <1>1, <1>3 DEF Begin, Unclean
<1>6. QED
  BY <1>2, <1>4, <1>5, UncleanFields

\* A call that is made, with nothing on the wire yet.
LEMMA BeginKeeps ==
  ASSUME AlertsInv, NEW c \in Calls, NEW call \in CallType, Begin(c, call),
         device' = device, who' = who, rows' = rows, spent' = spent,
         store' \in StoreType, store'.endpoint \in Issuable, known' \in Issuable,
         consent' \in {"none", "given", "withdrawn", "off"},
         Staged(call), call.kind # "none", call.address \in Issuable,
         calls[c].kind = "none",
         call.kind = "disable" =>
           /\ known' = None /\ store'.status \notin {"granted", "enabling"}
           /\ call.at \notin {"deleted", "kept", "threw"}
           /\ call.at # "unsubscribe" => Native,
         consent' \in {"none", "off"} =>
           /\ consent \in {"none", "off"} /\ Idles(call)
           /\ known' = known /\ store' = store,
         store'.status = "enabling" => call.kind = "enable" \/ store.status = "enabling"
  PROVE  AlertsInv'
<1>1. /\ calls' \in [Calls -> CallType]
      /\ calls'[c].kind = call.kind /\ calls'[c].at = call.at
      /\ calls'[c].address = call.address /\ calls'[c].say = call.say
      /\ calls'[c].clean => \A d \in Calls : calls[d].kind = "none"
      /\ \A d \in Calls : d # c =>
           /\ calls'[d].kind = calls[d].kind /\ calls'[d].at = calls[d].at
           /\ calls'[d].address = calls[d].address /\ calls'[d].say = calls[d].say
           /\ calls'[d].clean = FALSE
  BY BeginFields
<1>2. Native' = Native
  BY DEF Native
<1>3. AlertsTypeOK'
  <2>1. known' \in Addresses \cup {None}
    BY IssuableAddresses DEF AlertsInv
  <2>2. QED
    BY <1>1, <2>1 DEF AlertsInv, AlertsTypeOK, StoreType, Statuses
<1>4. CallsAreStaged'
  <2>1. ASSUME NEW d \in Calls, d # c PROVE Staged(calls[d])'
    <3>1. Staged(calls[d])
      BY DEF AlertsInv, CallsAreStaged
    <3>2. /\ calls'[d].kind = calls[d].kind /\ calls'[d].at = calls[d].at
          /\ calls'[d].say = calls[d].say
      BY <1>1, <2>1
    <3>3. QED
      BY <1>2, <3>1, <3>2 DEF Staged
  <2>2. Staged(calls[c])'
    BY <1>1, <1>2 DEF Staged
  <2>3. QED
    BY <2>1, <2>2 DEF CallsAreStaged
<1>5. AddressesAreIssued'
  BY <1>1 DEF AlertsInv, AddressesAreIssued, Issuable
<1>6. CleanDisableIsAlone'
  BY <1>1, <1>2 DEF CleanDisableIsAlone, LastWord
<1>7. OffIsQuiet'
  <2>1. ASSUME consent' \in {"none", "off"}, NEW d \in Calls PROVE Idles(calls[d])'
    BY <1>1, <2>1, Bearings DEF Idles
  <2>2. consent' \in {"none", "off"} =>
          /\ known' = None /\ store'.status \notin {"granted", "enabling"}
          /\ ~Native => device'.address = None
          /\ ~Held(device.address)'
    BY DEF AlertsInv, OffIsQuiet, Held
  <2>3. QED
    BY <1>2, <2>1, <2>2 DEF OffIsQuiet
<1>8. EnablingIsUnderWay'
  BY <1>1 DEF AlertsInv, EnablingIsUnderWay
<1>9. QED
  BY <1>3, <1>4, <1>5, <1>6, <1>7, <1>8 DEF AlertsInv

\* Only the store is settled at once, with no call made.
LEMMA StoreKeeps ==
  ASSUME AlertsInv, calls' = calls, device' = device, who' = who, rows' = rows,
         known' \in {None, known}, spent' = spent,
         consent' = consent \/ consent' = "withdrawn",
         store' \in StoreType, store'.endpoint \in Issuable,
         store'.status \notin {"granted", "enabling"}
  PROVE  AlertsInv'
<1>1. known' \in Addresses \cup {None} /\ known' \in Issuable
  BY DEF AlertsInv, AlertsTypeOK, AddressesAreIssued, Issuable
<1>2. AlertsTypeOK'
  BY <1>1 DEF AlertsInv, AlertsTypeOK, StoreType, Statuses
<1>3. CallsAreStaged' /\ EnablingIsUnderWay'
  BY DEF AlertsInv, CallsAreStaged, Staged, Native, EnablingIsUnderWay
<1>4. AddressesAreIssued'
  BY <1>1 DEF AlertsInv, AddressesAreIssued, Issuable
<1>5. CleanDisableIsAlone'
  BY DEF AlertsInv, CleanDisableIsAlone, LastWord, Native, Held
<1>6. OffIsQuiet'
  BY DEF AlertsInv, OffIsQuiet, Idles, Native, Held
<1>7. QED
  BY <1>2, <1>3, <1>4, <1>5, <1>6 DEF AlertsInv

LEMMA CallFields ==
  ASSUME AlertsTypeOK, NEW kind \in {"look", "enable", "disable"},
         NEW at \in {"permission", "prompt", "subscription", "unsubscribe", "delete"},
         NEW call, call = Call(kind, at)
  PROVE  /\ call \in CallType /\ call.kind = kind /\ call.at = at
         /\ call.address = None /\ call.say = "none"
<1>1. who.session \in Accounts \cup {None}
  BY DEF AlertsTypeOK
<1>2. /\ call.kind = kind /\ call.at = at /\ call.address = None /\ call.say = "none"
      /\ call.session = who.session /\ call.as = None /\ call.clean = TRUE
  BY DEF Call
<1>3. call \in CallType
  BY <1>1 DEF Call, CallType
<1>4. QED
  BY <1>2, <1>3

LEMMA LookKeeps ==
  ASSUME AlertsInv, NEW c \in Calls, Look(c)
  PROVE  AlertsInv'
<1>1. /\ calls[c].kind = "none" /\ store.status # "enabling"
      /\ device' = device /\ who' = who /\ known' = known /\ rows' = rows
      /\ consent' = consent /\ spent' = spent
  BY IdleFields DEF Look, AlertsInv
<1>2. /\ store \in StoreType /\ store.endpoint \in Issuable /\ known \in Issuable
      /\ consent \in {"none", "given", "withdrawn", "off"}
  BY Bearings DEF AlertsInv, AlertsTypeOK
<1>3. CASE device.capability # "ready"
  <2>1. calls' = calls /\ store' = [store EXCEPT !.status = device.capability]
    BY <1>3 DEF Look
  <2>2. device.capability \in {"unsupported", "needs-home-screen"}
    BY <1>3 DEF AlertsInv, AlertsTypeOK
  <2>3. /\ store' \in StoreType /\ store'.endpoint \in Issuable
        /\ store'.status \notin {"granted", "enabling"}
    BY <1>2, <2>1, <2>2 DEF StoreType, Statuses
  <2>4. QED
    BY <1>1, <2>1, <2>3, StoreKeeps
<1>4. CASE store' = store /\ \/ Native /\ Begin(c, Call("look", "permission"))
                             \/ ~Native /\ Begin(c, Call("look", "subscription"))
  <2>1. PICK call : /\ Begin(c, call)
                    /\ \/ call = Call("look", "permission")
                       \/ ~Native /\ call = Call("look", "subscription")
    BY <1>4
  <2>2. /\ call \in CallType /\ call.kind = "look" /\ call.address = None
        /\ call.at \in {"permission", "subscription"}
        /\ call.at = "subscription" => ~Native
    BY <2>1, CallFields DEF AlertsInv
  <2>3. Staged(call) /\ Idles(call) /\ call.address \in Issuable
    BY <2>2 DEF Staged, Withdrawing, Idles, Issuable
  <2>4. QED
    BY <1>1, <1>2, <1>4, <2>1, <2>2, <2>3, BeginKeeps
<1>5. CASE /\ store' = store /\ known # None
           /\ Begin(c, Withdraws(Call("look", "delete"), "as it stands"))
  <2>1. PICK asked : asked = Call("look", "delete")
    OBVIOUS
  <2>2. PICK call : call = Withdraws(asked, "as it stands")
    OBVIOUS
  <2>3. asked \in CallType /\ asked.kind = "look"
    BY <2>1, CallFields DEF AlertsInv
  <2>4. /\ call \in CallType /\ call.kind = "look" /\ call.at = "delete"
        /\ call.say = "as it stands" /\ call.address = known
    BY <2>2, <2>3, WithdrawsFields DEF AlertsInv
  <2>5. Staged(call) /\ consent \notin {"none", "off"}
    BY <1>5, <2>4, Bearings DEF Staged, Withdrawing
  <2>6. Begin(c, call)
    BY <1>5, <2>1, <2>2
  <2>7. QED
    BY <1>1, <1>2, <1>5, <2>4, <2>5, <2>6, BeginKeeps
<1>6. CASE calls' = calls /\ Shows(Refusal(device.permission), None)
  <2>1. Refusal(device.permission) \in {"unasked", "denied"}
    BY DEF Refusal
  <2>2. store' = [status |-> Refusal(device.permission), endpoint |-> None]
    BY <1>6 DEF Shows
  <2>3. /\ store' \in StoreType /\ store'.endpoint \in Issuable
        /\ store'.status \notin {"granted", "enabling"}
    BY <2>1, <2>2 DEF StoreType, Statuses, Issuable
  <2>4. QED
    BY <1>1, <1>6, <2>3, StoreKeeps
<1>7. QED
  BY <1>3, <1>4, <1>5, <1>6 DEF Look

LEMMA EnableKeeps ==
  ASSUME AlertsInv, NEW c \in Calls, Enable(c)
  PROVE  AlertsInv'
<1>1. PICK call : call = Call("enable", "prompt")
  OBVIOUS
<1>2. /\ Begin(c, call) /\ calls[c].kind = "none"
      /\ device' = device /\ who' = who /\ known' = known /\ rows' = rows
      /\ consent' = "given" /\ spent' = spent
      /\ store' = IF Native THEN [store EXCEPT !.status = "enabling"] ELSE store
  BY <1>1, IdleFields DEF Enable, AlertsInv
<1>3. /\ call \in CallType /\ call.kind = "enable" /\ call.at = "prompt"
      /\ call.address = None
  BY <1>1, CallFields DEF AlertsInv
<1>4. /\ store' \in StoreType /\ store'.endpoint = store.endpoint
      /\ store'.endpoint \in Issuable /\ known' \in Issuable
  BY <1>2, Bearings DEF StoreType, Statuses
<1>5. Staged(call) /\ call.address \in Issuable
  BY <1>3 DEF Staged, Issuable
<1>6. QED
  BY <1>2, <1>3, <1>4, <1>5, BeginKeeps

LEMMA DisableKeeps ==
  ASSUME AlertsInv, NEW c \in Calls, Disable(c)
  PROVE  AlertsInv'
<1>1. PICK address : address = IF store.endpoint # None THEN store.endpoint ELSE known
  OBVIOUS
<1>2. address \in Issuable /\ address \in Addresses \cup {None}
  BY <1>1, Bearings, IssuableAddresses DEF AlertsInv
<1>3. PICK call : call = Call("disable", "unsubscribe")
  OBVIOUS
<1>4. /\ call \in CallType /\ call.kind = "disable" /\ call.at = "unsubscribe"
  BY <1>3, CallFields DEF AlertsInv
<1>5. /\ calls[c].kind = "none"
      /\ device' = device /\ who' = who /\ known' = None /\ rows' = rows
      /\ consent' = "withdrawn" /\ spent' = spent
      /\ store' = [status |-> "unasked", endpoint |-> None]
  BY IdleFields DEF Disable, AlertsInv, Shows
<1>6. /\ store' \in StoreType /\ store'.status = "unasked"
      /\ store'.endpoint \in Issuable /\ known' \in Issuable
  BY <1>5 DEF StoreType, Statuses, Issuable
<1>7. CASE ~Native
  <2>1. PICK n : n = [call EXCEPT !.address = address]
    OBVIOUS
  <2>2. Begin(c, n)
    BY <1>1, <1>3, <1>7, <2>1 DEF Disable
  <2>3. /\ n \in CallType /\ n.kind = "disable" /\ n.at = "unsubscribe"
        /\ n.address = address
    BY <1>2, <1>4, <2>1 DEF CallType
  <2>4. Staged(n)
    BY <2>3 DEF Staged
  <2>5. QED
    BY <1>2, <1>5, <1>6, <1>7, <2>2, <2>3, <2>4, BeginKeeps
<1>8. CASE Native /\ address = None
  <2>1. calls' = calls
    BY <1>1, <1>8 DEF Disable
  <2>2. QED
    BY <1>5, <1>6, <2>1, StoreKeeps
<1>9. CASE Native /\ address # None
  <2>1. PICK n : n = Requesting(call, "delete", address)
    OBVIOUS
  <2>2. Begin(c, n)
    BY <1>1, <1>3, <1>9, <2>1 DEF Disable
  <2>3. /\ n \in CallType /\ n.kind = "disable" /\ n.at = "delete"
        /\ n.address = address
    BY <1>2, <1>4, <2>1, RequestingFields DEF AlertsInv
  <2>4. Staged(n)
    BY <2>3 DEF Staged
  <2>5. QED
    BY <1>2, <1>5, <1>6, <1>9, <2>2, <2>3, <2>4, BeginKeeps
<1>10. QED
  BY <1>7, <1>8, <1>9

-----------------------------------------------------------------------------
(* The invariant of the specification.                                     *)

LEMMA InitHas == Init => AlertsInv
<1> SUFFICES ASSUME Init PROVE AlertsInv
  OBVIOUS
<1>1. PICK t \in Transports, k \in {"ready", "unsupported", "needs-home-screen"} :
        device = [transport |-> t, capability |-> k, permission |-> "unasked",
                  address |-> IF t = "web-push" THEN None ELSE 1,
                  issued |-> IF t = "web-push" THEN 0 ELSE 1]
  BY DEF Init
<1>2. /\ device \in DeviceType /\ device.transport = t
      /\ device.address \in {None} \cup 1..device.issued
      /\ t # "web-push" \/ device.address = None
  BY <1>1, AlertsAssumption DEF DeviceType, Addresses, Permissions
<1>3. /\ who = [session |-> None, guest |-> 1]
      /\ store = [status |-> "unsupported", endpoint |-> None] /\ known = None
      /\ calls = [c \in Calls |-> Idle] /\ rows = [a \in Addresses |-> None]
      /\ consent = "none" /\ spent = [changes |-> 0, lost |-> 0]
  BY DEF Init
<1>4. 1 \in Guests /\ 0 \in 0..MaxChanges /\ 0 \in 0..MaxLost
  BY AlertsAssumption DEF Guests
<1>5. Idle \in CallType /\ Idle.kind = "none" /\ Idle.at = "none" /\ Idle.address = None
  BY DEF CallType, Idle
<1>6. AlertsTypeOK
  BY <1>2, <1>3, <1>4, <1>5 DEF AlertsTypeOK, DeviceType
<1>7. CallsAreStaged /\ CleanDisableIsAlone /\ EnablingIsUnderWay
  BY <1>3, <1>5 DEF CallsAreStaged, Staged, CleanDisableIsAlone, LastWord, EnablingIsUnderWay
<1>8. AddressesAreIssued
  BY <1>2, <1>3, <1>5 DEF AddressesAreIssued, Issuable
<1>9. OffIsQuiet
  <2>1. ~Held(device.address)
    BY <1>2, <1>3, <1>6 DEF Held, AlertsTypeOK
  <2>2. QED
    BY <1>2, <1>3, <1>5, <2>1 DEF OffIsQuiet, Idles, Native
<1>10. QED
  BY <1>6, <1>7, <1>8, <1>9 DEF AlertsInv

\* Every step keeps the invariant, one action at a time.
LEMMA NextKeeps == AlertsInv /\ [Next]_alertVars => AlertsInv'
<1> SUFFICES ASSUME AlertsInv, [Next]_alertVars PROVE AlertsInv'
  OBVIOUS
<1>1. ASSUME NEW c \in Calls, Press(c) PROVE AlertsInv'
  BY <1>1, LookKeeps, EnableKeeps, DisableKeeps DEF Press
<1>2. ASSUME NEW c \in Calls, Answer(c) PROVE AlertsInv'
  BY <1>2, AnswerPermissionKeeps, AnswerAddressKeeps, AnswerSubscribeKeeps,
     AnswerUnsubscribeKeeps, SaveKeeps, FindOwnKeeps, DeleteKeeps, RefuseKeeps
     DEF Answer
<1>3. ASSUME NEW c \in Calls, RunOn(c) PROVE AlertsInv'
  BY <1>3, PermissionKnownKeeps, AddressKnownKeeps, UnsubscribedKeeps, PostedKeeps,
     WithdrawnKeeps, ThrewKeeps DEF RunOn
<1>4. ASSUME NEW c \in Calls, Lose(c) PROVE AlertsInv'
  BY <1>4, LoseKeeps
<1>5. ASSUME NEW c \in Calls, NEW permission \in Permissions, AnswerPrompt(c, permission)
      PROVE  AlertsInv'
  BY <1>5, AnswerPromptKeeps
<1>6. ASSUME World PROVE AlertsInv'
  BY <1>6, ChangePermissionKeeps, RotateKeeps, SignInKeeps, SignOutKeeps, CloseKeeps,
     PruneKeeps DEF World
<1>7. CASE UNCHANGED alertVars
  <2>1. /\ device' = device /\ who' = who /\ store' = store /\ known' = known
        /\ calls' = calls /\ rows' = rows /\ consent' = consent /\ spent' = spent
    BY <1>7 DEF alertVars
  <2>2. AlertsTypeOK'
    BY <2>1 DEF AlertsInv, AlertsTypeOK
  <2>3. CallsAreStaged' /\ AddressesAreIssued' /\ EnablingIsUnderWay'
    BY <2>1 DEF AlertsInv, CallsAreStaged, Staged, Native, AddressesAreIssued, Issuable,
                EnablingIsUnderWay
  <2>4. CleanDisableIsAlone' /\ OffIsQuiet'
    BY <2>1 DEF AlertsInv, CleanDisableIsAlone, LastWord, OffIsQuiet, Idles, Native, Held
  <2>5. QED
    BY <2>2, <2>3, <2>4 DEF AlertsInv
<1>8. QED
  BY <1>1, <1>2, <1>3, <1>4, <1>5, <1>6, <1>7 DEF Next

-----------------------------------------------------------------------------
(* What follows from it.                                                   *)

\* The invariant holds of every behaviour of the store, the platform and the
\* server together.
THEOREM AlertsInvariant == Spec => []AlertsInv
  BY InitHas, NextKeeps, PTL DEF Spec

\* The variables keep their types, whatever is out together.
THEOREM AlertsKeepTheirTypes == Spec => []AlertsTypeOK
<1>1. AlertsInv => AlertsTypeOK
  BY DEF AlertsInv
<1>2. QED
  BY <1>1, AlertsInvariant, PTL

\* A device nobody turned alerts on for, and one whose player turned them off
\* undisturbed, is not summoned and says it is not, however many looks, sign-ins,
\* lost requests, restarts and changes of address come after (push.ts:259, 505-529).
THEOREM OffDevicesStayOff == Spec => []OffStaysOff
<1>1. AlertsInv => OffStaysOff
  BY DEF AlertsInv, OffIsQuiet, OffStaysOff
<1>2. QED
  BY <1>1, AlertsInvariant, PTL

\* The store never says "enabling" with no enable out, so no look is shut out for
\* good by the guard of detect (push.ts:379).
THEOREM EnablingEnds == Spec => []EnablingIsUnderWay
<1>1. AlertsInv => EnablingIsUnderWay
  BY DEF AlertsInv
<1>2. QED
  BY <1>1, AlertsInvariant, PTL

=============================================================================
