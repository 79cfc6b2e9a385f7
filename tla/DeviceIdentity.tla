--------------------------- MODULE DeviceIdentity ---------------------------
(***************************************************************************)
(* How a paired phone stays known to the backend: DeviceStore and          *)
(* MoniiRepository (claim, withReauth, syncFcmToken) of the device;        *)
(* DeviceAuthGuard, DevicesService and TokenService of the backend.        *)
(* Claims as the backend decides them are in Pairing.                      *)
(*                                                                         *)
(* A device token is the device it names and whether it has expired; a     *)
(* secret is the device it belongs to.  A push token (FCM) is a number,    *)
(* newer tokens being greater; 0 is none.                                  *)
(***************************************************************************)
EXTENDS Naturals, FiniteSets

CONSTANTS
    Phones,
    Devices,        \* rows the backend may create
    Calls,          \* authenticated requests at a time
    None,
    MaxFcm,         \* bound on push tokens
    MaxLate         \* bound on handlers of selfUpdate without a client

ASSUME NoneIsNew == None \notin Devices \cup Phones
ASSUME MaxFcmIsNat == MaxFcm \in Nat

VARIABLES
    row,                    \* Device rows
    rowFcm,                 \* Device.fcmToken
    claim,                  \* the claim of a phone
    call,
    late,                   \* updates of handlers whose client has gone
    id, token, live,        \* DeviceStore: device_id and device_secret, device_token
    fcm, needsSync,         \* DeviceStore: fcm_token, fcm_needs_sync
    \* what happened, for the properties only
    crossed,                \* phones unpaired while a renewal was under way
    raced                   \* phones whose push token changed under its report

deviceVars == <<row, rowFcm>>
identityVars == <<id, token, live, crossed>>
fcmVars == <<fcm, needsSync, raced>>
vars == <<deviceVars, claim, call, late, identityVars, fcmVars>>

Device == Devices \cup {None}
Fcm == 0..MaxFcm

Claim == [pc: {"idle", "sent", "answered"}, fcm: Fcm, dev: Device]
NoClaim == [pc |-> "idle", fcm |-> 0, dev |-> None]

Call == [pc: {"idle", "send", "wire", "renew", "renewed", "answered"},
         ph: Phones \cup {None}, fcm: Fcm,      \* 0 in requests other than selfUpdate
         as: Device, fresh: BOOLEAN,            \* the token in the header
         cred: Device, retried: BOOLEAN]
NoCall == [pc |-> "idle", ph |-> None, fcm |-> 0, as |-> None, fresh |-> FALSE,
           cred |-> None, retried |-> FALSE]

TypeOK ==
    /\ row \in [Devices -> {"none", "present", "removed"}]
    /\ rowFcm \in [Devices -> Fcm]
    /\ claim \in [Phones -> Claim]
    /\ call \in [Calls -> Call]
    /\ late \in SUBSET (Devices \X Fcm)
    /\ id \in [Phones -> Device]
    /\ token \in [Phones -> Device]
    /\ live \in [Phones -> BOOLEAN]
    /\ fcm \in [Phones -> Fcm]
    /\ needsSync \in [Phones -> BOOLEAN]
    /\ crossed \in [Phones -> BOOLEAN]
    /\ raced \in [Phones -> BOOLEAN]

Init ==
    /\ row = [d \in Devices |-> "none"]
    /\ rowFcm = [d \in Devices |-> 0]
    /\ claim = [p \in Phones |-> NoClaim]
    /\ call = [k \in Calls |-> NoCall]
    /\ late = {}
    /\ id = [p \in Phones |-> None]
    /\ token = [p \in Phones |-> None]
    /\ live = [p \in Phones |-> FALSE]
    /\ fcm = [p \in Phones |-> 0]
    /\ needsSync = [p \in Phones |-> FALSE]
    /\ crossed = [p \in Phones |-> FALSE]
    /\ raced = [p \in Phones |-> FALSE]

Renewing(p) == \E k \in Calls : call[k].ph = p /\ call[k].pc \in {"renew", "renewed"}

isPaired(p) == token[p] # None /\ id[p] # None

ClaimTo(p, r) == claim' = [claim EXCEPT ![p] = r]
CallTo(k, r) == call' = [call EXCEPT ![k] = r]

-----------------------------------------------------------------------------
(* MoniiRepository.claim *)

\* MainActivity.pair: the form is shown to an unpaired phone, and its button is
\* disabled while a claim has not ended.  The request carries the push token.
StartClaim(p) ==
    /\ claim[p].pc = "idle"
    /\ ~isPaired(p)
    /\ ClaimTo(p, [NoClaim EXCEPT !.pc = "sent", !.fcm = fcm[p]])
    /\ UNCHANGED <<deviceVars, call, late, identityVars, fcmVars>>

\* DevicesService.createForPairing.
CreateForPairing(p, d) ==
    /\ claim[p].pc = "sent"
    /\ row[d] = "none"
    /\ row' = [row EXCEPT ![d] = "present"]
    /\ rowFcm' = [rowFcm EXCEPT ![d] = claim[p].fcm]
    /\ ClaimTo(p, [claim[p] EXCEPT !.pc = "answered", !.dev = d])
    /\ UNCHANGED <<call, late, identityVars, fcmVars>>

\* DeviceStore.savePairing.
SavePairing(p) ==
    LET d == claim[p].dev
    IN  /\ claim[p].pc = "answered"
        /\ id' = [id EXCEPT ![p] = d]
        /\ token' = [token EXCEPT ![p] = d]
        /\ live' = [live EXCEPT ![p] = TRUE]
        /\ crossed' = [crossed EXCEPT ![p] = Renewing(p)]
        /\ ClaimTo(p, NoClaim)
        /\ UNCHANGED <<deviceVars, call, late, fcmVars>>

\* Refused, lost or given up; a device it made is nobody's.
ClaimFails(p) ==
    /\ claim[p].pc # "idle"
    /\ ClaimTo(p, NoClaim)
    /\ UNCHANGED <<deviceVars, call, late, identityVars, fcmVars>>

-----------------------------------------------------------------------------
(* Authenticated requests: withReauth and DeviceAuthGuard *)

\* syncFcmToken, or any other request (with 0 for its token).
StartCall(k, p, f) ==
    /\ call[k].pc = "idle"
    /\ isPaired(p)
    /\ f = 0 \/ (f = fcm[p] /\ needsSync[p])
    /\ CallTo(k, [NoCall EXCEPT !.pc = "send", !.ph = p, !.fcm = f])
    /\ UNCHANGED <<deviceVars, claim, late, identityVars, fcmVars>>

\* AuthInterceptor.
Send(k) ==
    LET p == call[k].ph
    IN  /\ call[k].pc = "send"
        /\ CallTo(k, [call[k] EXCEPT !.pc = "wire", !.as = token[p],
                                     !.fresh = token[p] # None /\ live[p]])
        /\ UNCHANGED <<deviceVars, claim, late, identityVars, fcmVars>>

\* A value that is not the newest token of its phone reaches the row.
Overtaken(d, f) ==
    raced' = [p \in Phones |-> raced[p] \/ (id[p] = d /\ f # 0 /\ f # fcm[p])]

\* The guard looks at the token alone: the row may have been removed.
SelfUpdate(d, f) == rowFcm' = IF f = 0 THEN rowFcm ELSE [rowFcm EXCEPT ![d] = f]

ServeCall(k) ==
    LET d == call[k].as
    IN  /\ call[k].pc = "wire" /\ call[k].fresh
        /\ row[d] = "present"
        /\ SelfUpdate(d, call[k].fcm)
        /\ Overtaken(d, call[k].fcm)
        /\ CallTo(k, [call[k] EXCEPT !.pc = "answered"])
        /\ UNCHANGED <<row, claim, late, identityVars, fcm, needsSync>>

\* The client gives up, the handler goes on.
CallLate(k) ==
    /\ call[k].pc = "wire" /\ call[k].fresh /\ call[k].fcm # 0
    /\ Cardinality(late) < MaxLate
    /\ late' = late \cup {<<call[k].as, call[k].fcm>>}
    /\ CallTo(k, NoCall)
    /\ UNCHANGED <<deviceVars, claim, identityVars, fcmVars>>

LateUpdate(d, f) ==
    /\ <<d, f>> \in late
    /\ late' = late \ {<<d, f>>}
    /\ IF row[d] = "present" THEN SelfUpdate(d, f) /\ Overtaken(d, f)
       ELSE UNCHANGED <<rowFcm, raced>>
    /\ UNCHANGED <<row, claim, call, identityVars, fcm, needsSync>>

\* Mutant: no renewal.
HopelessAtOnce(k) == TRUE
Hopeless(k) == call[k].retried \/ id[call[k].ph] = None

\* Mutant: the device that the header named, if any.
HeaderDevice(k) == IF call[k].as # None THEN call[k].as ELSE id[call[k].ph]
StoredDevice(k) == id[call[k].ph]

\* 401: the first time, the token is renewed with what the store holds by then.
DenyCall(k) ==
    /\ call[k].pc = "wire" /\ ~call[k].fresh
    /\ CallTo(k, IF Hopeless(k) THEN NoCall
                 ELSE [call[k] EXCEPT !.pc = "renew", !.as = None, !.cred = StoredDevice(k)])
    /\ UNCHANGED <<deviceVars, claim, late, identityVars, fcmVars>>

\* DevicesService.reauth.
Reauth(k) ==
    /\ call[k].pc = "renew"
    /\ CallTo(k, IF row[call[k].cred] = "present" THEN [call[k] EXCEPT !.pc = "renewed"]
                 ELSE NoCall)
    /\ UNCHANGED <<deviceVars, claim, late, identityVars, fcmVars>>

\* Mutant: the phone.
RenewsPhone(k) == call[k].ph
Renews(k) == call[k].cred

\* DeviceStore.setToken, and the one retry.
SetToken(k) ==
    LET p == call[k].ph
    IN  /\ call[k].pc = "renewed"
        /\ token' = [token EXCEPT ![p] = Renews(k)]
        /\ live' = [live EXCEPT ![p] = TRUE]
        /\ CallTo(k, [call[k] EXCEPT !.pc = "send", !.cred = None, !.fresh = FALSE, !.retried = TRUE])
        /\ UNCHANGED <<deviceVars, claim, late, id, crossed, fcmVars>>

\* Back in syncFcmToken: markFcmSynced clears the flag whatever was sent.
FinishCall(k) ==
    LET p == call[k].ph
        sync == call[k].fcm # 0
    IN  /\ call[k].pc = "answered"
        /\ needsSync' = [needsSync EXCEPT ![p] = @ /\ ~sync]
        /\ raced' = [raced EXCEPT ![p] = @ \/ (sync /\ (call[k].fcm # fcm[p] \/ call[k].as # id[p]))]
        /\ CallTo(k, NoCall)
        /\ UNCHANGED <<deviceVars, claim, late, identityVars, fcm>>

\* Lost, timed out, answered with another error, or the process ends: between two
\* requests it may as well have ended before the answer to the first.
CallFails(k) ==
    /\ call[k].pc \in {"wire", "renew", "answered"}
    /\ CallTo(k, NoCall)
    /\ UNCHANGED <<deviceVars, claim, late, identityVars, fcmVars>>

-----------------------------------------------------------------------------
(* The phone and the parent *)

\* Mutant: only the first token is flagged.
FlagFirst(p) == needsSync' = [needsSync EXCEPT ![p] = @ \/ fcm[p] = 0]
FlagSync(p) == needsSync' = [needsSync EXCEPT ![p] = TRUE]

\* MoniiFcmService.onNewToken, DeviceStore.setFcmToken.
OnNewToken(p) ==
    /\ fcm[p] < MaxFcm
    /\ fcm' = [fcm EXCEPT ![p] = @ + 1]
    /\ FlagSync(p)
    /\ raced' = [raced EXCEPT ![p] = FALSE]
    /\ UNCHANGED <<deviceVars, claim, call, late, identityVars>>

\* DeviceStore.clearPairing, from MainActivity.
ClearPairing(p) ==
    /\ isPaired(p)
    /\ id' = [id EXCEPT ![p] = None]
    /\ token' = [token EXCEPT ![p] = None]
    /\ crossed' = [crossed EXCEPT ![p] = @ \/ Renewing(p)]
    /\ UNCHANGED <<deviceVars, claim, call, late, live, fcmVars>>

\* A token lives for a year: it does not expire under the call that renewed it.
TokenExpires(p) ==
    /\ live[p]
    /\ \A k \in Calls : ~(call[k].ph = p /\ call[k].retried)
    /\ live' = [live EXCEPT ![p] = FALSE]
    /\ UNCHANGED <<deviceVars, claim, call, late, id, token, crossed, fcmVars>>

\* DevicesService.remove.
Remove(d) ==
    /\ row[d] = "present"
    /\ row' = [row EXCEPT ![d] = "removed"]
    /\ UNCHANGED <<rowFcm, claim, call, late, identityVars, fcmVars>>

CallStep(k) ==
    \/ \E p \in Phones, f \in Fcm : StartCall(k, p, f)
    \/ Send(k) \/ ServeCall(k) \/ DenyCall(k) \/ Reauth(k) \/ SetToken(k)
    \/ FinishCall(k) \/ CallLate(k) \/ CallFails(k)

Next ==
    \/ \E k \in Calls : CallStep(k)
    \/ \E d \in Devices : Remove(d) \/ \E f \in Fcm : LateUpdate(d, f)
    \/ \E p \in Phones :
          \/ StartClaim(p) \/ SavePairing(p) \/ ClaimFails(p)
          \/ \E d \in Devices : CreateForPairing(p, d)
          \/ OnNewToken(p) \/ ClearPairing(p) \/ TokenExpires(p)

Spec == Init /\ [][Next]_vars

Syncs(k) == call[k].fcm # 0

\* The supervisor reaches syncFcmToken again and again, and the network lets
\* through what is sent again and again.
FairSpec ==
    /\ Spec
    /\ \A k \in Calls :
         /\ SF_vars(\E p \in Phones, f \in Fcm \ {0} : StartCall(k, p, f))
         /\ WF_vars(CallStep(k) /\ call[k].pc # "idle")
         /\ SF_vars(ServeCall(k) /\ Syncs(k)) /\ SF_vars(DenyCall(k) /\ Syncs(k))
         /\ SF_vars(Reauth(k) /\ Syncs(k)) /\ SF_vars(FinishCall(k) /\ Syncs(k))

-----------------------------------------------------------------------------
(* Properties *)

\* A paired phone speaks for the device it is paired as, whatever requests of an
\* earlier identity are still under way; the exception is a renewal of the old
\* token, stored over the new one.
OwnToken == \A p \in Phones : isPaired(p) /\ ~crossed[p] => token[p] = id[p]

\* A phone that has nothing to report has its push token in its device's row:
\* else commands never wake it.  Excepted are a token that changed while an
\* older one was being reported (markFcmSynced clears the flag of both), and
\* updates that reach the backend out of order.
FcmSynced ==
    \A p \in Phones :
        isPaired(p) /\ ~needsSync[p] /\ ~raced[p] /\ row[id[p]] = "present"
            => rowFcm[id[p]] = fcm[p]

\* A new push token is reported in the end, through lost requests and expired
\* device tokens, unless the phone is unpaired or removed, or speaks for another device.
FcmReported ==
    \A p \in Phones :
        isPaired(p) /\ needsSync[p] ~>
            (~needsSync[p] \/ ~isPaired(p) \/ row[id[p]] # "present" \/ token[p] # id[p])
=============================================================================
