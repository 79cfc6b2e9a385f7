------------------------ MODULE DeviceIdentityProofs ------------------------
(***************************************************************************)
(* What holds of paired phones for any number of phones, devices, requests *)
(* and push tokens.  The invariant says of what a device may be named by:  *)
(* a device that is nobody's yet (Unborn) is named by nothing but the one  *)
(* claim that made it; a renewal under way names the identity of its phone *)
(* unless it crossed a re-pairing; a push token that the row does not have *)
(* is still flagged, or was raced.                                         *)
(***************************************************************************)
EXTENDS DeviceIdentity, TLAPS

\* What a request holds at each of its statements.
CallShape ==
    \A k \in Calls :
      /\ call[k].pc = "idle" => call[k].as = None /\ call[k].cred = None
      /\ call[k].pc # "idle" => call[k].ph \in Phones /\ call[k].fcm <= fcm[call[k].ph]
      /\ call[k].pc = "answered" \/ (call[k].pc = "wire" /\ call[k].fresh) => call[k].as \in Devices
      /\ call[k].pc \in {"renew", "renewed"} => call[k].cred \in Devices

\* A renewal is for the identity the phone has.
OwnCred ==
    \A k \in Calls :
      call[k].pc \in {"renew", "renewed"} /\ ~crossed[call[k].ph] /\ id[call[k].ph] # None
        => call[k].cred = id[call[k].ph]

\* A device that has no row, or whose phone has not been told of it.
Unborn(d) == row[d] = "none" \/ \E p \in Phones : claim[p].dev = d

Unnamed ==
    \A d \in Devices : Unborn(d) =>
      /\ \A p \in Phones : id[p] # d /\ token[p] # d
      /\ \A k \in Calls : call[k].as # d /\ call[k].cred # d
      /\ \A f \in Fcm : <<d, f>> \notin late

\* A claim is for an unpaired phone, and brings its push token to the new row.
ClaimInv ==
    \A p \in Phones :
      /\ id[p] # None => token[p] # None
      /\ claim[p].pc # "idle" =>
            /\ id[p] = None
            /\ claim[p].fcm = fcm[p] \/ needsSync[p] \/ raced[p]
      /\ claim[p].dev # None => /\ row[claim[p].dev] # "none"
                                /\ rowFcm[claim[p].dev] = claim[p].fcm
                                /\ \A r \in Phones : claim[r].dev = claim[p].dev => r = p
      /\ claim[p].pc = "answered" <=> claim[p].dev # None

\* A report of the phone's newest token that was answered is in the row.
Reported ==
    \A k \in Calls :
      LET p == call[k].ph
      IN  call[k].pc = "answered" /\ call[k].fcm # 0 /\ call[k].fcm = fcm[p] /\ call[k].as = id[p]
            => raced[p] \/ rowFcm[id[p]] = fcm[p]

\* What keeps the push tokens right: the state of the row does not matter.
Synced ==
    \A p \in Phones : id[p] # None /\ ~needsSync[p] /\ ~raced[p] => rowFcm[id[p]] = fcm[p]

IInv == TypeOK /\ CallShape /\ OwnCred /\ OwnToken /\ Unnamed /\ ClaimInv /\ Reported /\ Synced

-----------------------------------------------------------------------------

\* A step of a request changes that request alone.
LEMMA OneCall ==
    ASSUME TypeOK, NEW k \in Calls, NEW r \in Call, CallTo(k, r)
    PROVE  /\ call' \in [Calls -> Call]
           /\ call'[k] = r
           /\ \A o \in Calls : o # k => call'[o] = call[o]
BY DEF TypeOK, CallTo

LEMMA OneClaim ==
    ASSUME TypeOK, NEW p \in Phones, NEW r \in Claim, ClaimTo(p, r)
    PROVE  /\ claim' \in [Phones -> Claim]
           /\ claim'[p] = r
           /\ \A o \in Phones : o # p => claim'[o] = claim[o]
BY DEF TypeOK, ClaimTo

LEMMA Nothing ==
    /\ NoCall \in Call /\ NoCall.pc = "idle" /\ NoCall.as = None /\ NoCall.cred = None /\ NoCall.fcm = 0
    /\ NoClaim \in Claim /\ NoClaim.pc = "idle" /\ NoClaim.dev = None
<1>1. 0 \in Fcm
    BY MaxFcmIsNat DEF Fcm
<1> QED BY <1>1 DEF NoCall, Call, NoClaim, Claim, Device

-----------------------------------------------------------------------------

\* Every step keeps the invariant.
LEMMA Step ==
    ASSUME IInv, [Next]_vars
    PROVE  IInv'
<1>0. /\ TypeOK /\ CallShape /\ OwnCred /\ OwnToken /\ Unnamed /\ ClaimInv /\ Reported /\ Synced
      /\ Fcm \subseteq Nat /\ 0 \in Fcm /\ None \in Device /\ Devices \subseteq Device
      /\ \A k \in Calls : call[k] \in Call
      /\ \A p \in Phones : claim[p] \in Claim
    BY MaxFcmIsNat DEF IInv, TypeOK, Fcm, Device
<1>1. ASSUME NEW p \in Phones, StartClaim(p)
      PROVE  IInv'
  <2> DEFINE r == [NoClaim EXCEPT !.pc = "sent", !.fcm = fcm[p]]
  <2>1. r \in Claim /\ r.pc = "sent" /\ r.fcm = fcm[p] /\ r.dev = None
      BY <1>0 DEF TypeOK, NoClaim, Claim
  <2>2. /\ ClaimTo(p, r) /\ claim[p].pc = "idle" /\ ~isPaired(p)
        /\ UNCHANGED <<row, rowFcm, call, late, id, token, live, crossed, fcm, needsSync, raced>>
      BY <1>1 DEF StartClaim, deviceVars, identityVars, fcmVars
  <2> HIDE DEF r
  <2>3. /\ claim' \in [Phones -> Claim] /\ claim'[p] = r /\ claim[p].dev = None /\ id[p] = None
        /\ \A o \in Phones : o # p => claim'[o] = claim[o]
      BY <1>0, <2>1, <2>2, OneClaim DEF ClaimInv, isPaired
  <2>4. TypeOK'
      BY <1>0, <2>2, <2>3 DEF TypeOK, Call, Claim
  <2>5. CallShape'
      BY <1>0, <2>2 DEF CallShape, TypeOK
  <2>6. OwnCred'
      BY <1>0, <2>2 DEF OwnCred, CallShape
  <2>7. OwnToken'
      BY <1>0, <2>2 DEF OwnToken, OwnCred, isPaired
  <2>8. Unnamed'
      BY <1>0, <2>1, <2>2, <2>3 DEF Unnamed, Unborn, CallShape
  <2>9. ClaimInv'
      BY <1>0, <2>1, <2>2, <2>3 DEF ClaimInv
  <2>10. Reported'
      BY <1>0, <2>2 DEF Reported, CallShape
  <2>11. Synced'
      BY <1>0, <2>2 DEF Synced
  <2> QED BY <2>4, <2>5, <2>6, <2>7, <2>8, <2>9, <2>10, <2>11 DEF IInv
<1>2. ASSUME NEW p \in Phones, NEW d \in Devices, CreateForPairing(p, d)
      PROVE  IInv'
  <2> DEFINE r == [claim[p] EXCEPT !.pc = "answered", !.dev = d]
  <2>1. r \in Claim /\ r.pc = "answered" /\ r.fcm = claim[p].fcm /\ r.dev = d
      BY <1>0 DEF Claim
  <2>2. /\ ClaimTo(p, r) /\ claim[p].pc = "sent" /\ row[d] = "none"
        /\ row' = [row EXCEPT ![d] = "present"] /\ rowFcm' = [rowFcm EXCEPT ![d] = claim[p].fcm]
        /\ UNCHANGED <<call, late, id, token, live, crossed, fcm, needsSync, raced>>
      BY <1>2 DEF CreateForPairing, identityVars, fcmVars
  <2> HIDE DEF r
  <2>3. /\ claim' \in [Phones -> Claim] /\ claim'[p] = r
        /\ \A o \in Phones : o # p => claim'[o] = claim[o]
      BY <1>0, <2>1, <2>2, OneClaim
  <2>4. /\ row'[d] = "present" /\ rowFcm'[d] = claim[p].fcm
        /\ \A e \in Devices : e # d => row'[e] = row[e] /\ rowFcm'[e] = rowFcm[e]
        /\ \A o \in Phones : claim[o].dev # d /\ id[o] # d /\ token[o] # d
        /\ \A o \in Phones : claim[o].dev \in Devices \cup {None} /\ id[o] \in Devices \cup {None}
        /\ claim[p].fcm \in Fcm /\ d # None
      BY <1>0, <2>2, NoneIsNew DEF TypeOK, Claim, Device, ClaimInv, Unnamed, Unborn
  <2>5. TypeOK'
      BY <1>0, <2>2, <2>3 DEF TypeOK, Call, Claim
  <2>6. CallShape'
      BY <1>0, <2>2 DEF CallShape, TypeOK
  <2>7. OwnCred'
      BY <1>0, <2>2 DEF OwnCred, CallShape
  <2>8. OwnToken'
      BY <1>0, <2>2 DEF OwnToken, OwnCred, isPaired
  <2>9. Unnamed'
      BY <1>0, <2>1, <2>2, <2>3 DEF Unnamed, Unborn, CallShape
  <2>10. ClaimInv'
      BY <1>0, <2>1, <2>2, <2>3, <2>4 DEF ClaimInv
  <2>11. Reported'
      BY <1>0, <2>2, <2>4 DEF Reported, CallShape
  <2>12. Synced'
      BY <1>0, <2>2, <2>4 DEF Synced
  <2> QED BY <2>5, <2>6, <2>7, <2>8, <2>9, <2>10, <2>11, <2>12 DEF IInv
<1>3. ASSUME NEW p \in Phones, SavePairing(p)
      PROVE  IInv'
  <2>1. PICK d \in Devices : d = claim[p].dev
      BY <1>0, <1>3 DEF SavePairing, ClaimInv, Claim, Device
  <2>2. /\ ClaimTo(p, NoClaim) /\ claim[p].pc = "answered"
        /\ id' = [id EXCEPT ![p] = d] /\ token' = [token EXCEPT ![p] = d]
        /\ live' = [live EXCEPT ![p] = TRUE] /\ crossed' = [crossed EXCEPT ![p] = Renewing(p)]
        /\ UNCHANGED <<row, rowFcm, call, late, fcm, needsSync, raced>>
      BY <1>3, <2>1 DEF SavePairing, deviceVars, fcmVars
  <2>3. /\ claim' \in [Phones -> Claim] /\ claim'[p] = NoClaim
        /\ \A o \in Phones : o # p => claim'[o] = claim[o]
      BY <1>0, <2>2, Nothing, OneClaim
  <2>4. /\ id'[p] = d /\ token'[p] = d /\ (crossed'[p] <=> Renewing(p))
        /\ Renewing(p) \in BOOLEAN /\ d # None
        /\ \A o \in Phones : o # p => id'[o] = id[o] /\ token'[o] = token[o] /\ crossed'[o] = crossed[o]
      BY <1>0, <2>2, NoneIsNew DEF TypeOK, Renewing
  <2>5. /\ row[d] # "none" /\ rowFcm[d] = claim[p].fcm
        /\ claim[p].fcm = fcm[p] \/ needsSync[p] \/ raced[p]
        /\ \A o \in Phones : o # p => claim[o].dev # d
        /\ \A k \in Calls : call[k].as # d /\ call[k].cred # d
      BY <1>0, <2>1, <2>2, NoneIsNew DEF ClaimInv, Unnamed, Unborn
  <2>6. TypeOK'
      BY <1>0, <2>2, <2>3, <2>4 DEF TypeOK, Call, Claim
  <2>7. CallShape'
      BY <1>0, <2>2 DEF CallShape, TypeOK
  <2>8. OwnCred'
      BY <1>0, <2>2, <2>4 DEF OwnCred, CallShape, Renewing
  <2>9. OwnToken'
      BY <1>0, <2>4 DEF OwnToken, OwnCred, isPaired
  <2>10. Unnamed'
      BY <1>0, <2>2, <2>3, <2>5, Nothing, NoneIsNew DEF Unnamed, Unborn, CallShape
  <2>11. ClaimInv'
      BY <1>0, <2>2, <2>3, <2>4, Nothing DEF ClaimInv
  <2>12. Reported'
      BY <1>0, <2>2, <2>5 DEF Reported, CallShape
  <2>13. Synced'
      BY <1>0, <2>2, <2>5 DEF Synced
  <2> QED BY <2>6, <2>7, <2>8, <2>9, <2>10, <2>11, <2>12, <2>13 DEF IInv
<1>4. ASSUME NEW p \in Phones, ClaimFails(p)
      PROVE  IInv'
  <2>1. /\ ClaimTo(p, NoClaim)
        /\ UNCHANGED <<row, rowFcm, call, late, id, token, live, crossed, fcm, needsSync, raced>>
      BY <1>4 DEF ClaimFails, deviceVars, identityVars, fcmVars
  <2>2. /\ claim' \in [Phones -> Claim] /\ claim'[p] = NoClaim
        /\ \A o \in Phones : o # p => claim'[o] = claim[o]
      BY <1>0, <2>1, Nothing, OneClaim
  <2>3. TypeOK'
      BY <1>0, <2>1, <2>2 DEF TypeOK, Call, Claim
  <2>4. CallShape'
      BY <1>0, <2>1 DEF CallShape, TypeOK
  <2>5. OwnCred'
      BY <1>0, <2>1 DEF OwnCred, CallShape
  <2>6. OwnToken'
      BY <1>0, <2>1 DEF OwnToken, OwnCred, isPaired
  <2>7. Unnamed'
      BY <1>0, <2>1, <2>2, Nothing, NoneIsNew DEF Unnamed, Unborn, CallShape
  <2>8. ClaimInv'
      BY <1>0, <2>1, <2>2, Nothing DEF ClaimInv
  <2>9. Reported'
      BY <1>0, <2>1 DEF Reported, CallShape
  <2>10. Synced'
      BY <1>0, <2>1 DEF Synced
  <2> QED BY <2>3, <2>4, <2>5, <2>6, <2>7, <2>8, <2>9, <2>10 DEF IInv
<1>5. ASSUME NEW k \in Calls, NEW p \in Phones, NEW f \in Fcm, StartCall(k, p, f)
      PROVE  IInv'
  <2> DEFINE r == [NoCall EXCEPT !.pc = "send", !.ph = p, !.fcm = f]
  <2>1. r \in Call /\ r.pc = "send" /\ r.ph = p /\ r.fcm = f /\ r.as = None /\ r.cred = None
      BY Nothing DEF Call
  <2>2. CallTo(k, r) /\ (f = 0 \/ f = fcm[p]) /\ fcm[p] \in Nat /\ UNCHANGED <<row, rowFcm, claim, late, id, token, live, crossed, fcm, needsSync, raced>>
      BY <1>0, <1>5 DEF StartCall, deviceVars, identityVars, fcmVars, TypeOK
  <2> HIDE DEF r
  <2>3. /\ call' \in [Calls -> Call] /\ call'[k] = r
        /\ \A o \in Calls : o # k => call'[o] = call[o]
      BY <1>0, <2>1, <2>2, OneCall
  <2>4. TypeOK'
      BY <1>0, <2>2, <2>3 DEF TypeOK, Call, Claim
  <2>5. CallShape'
      BY <1>0, <2>1, <2>2, <2>3 DEF CallShape, TypeOK
  <2>6. OwnCred'
      BY <1>0, <2>1, <2>2, <2>3 DEF OwnCred, CallShape
  <2>7. OwnToken'
      BY <1>0, <2>2 DEF OwnToken, OwnCred, isPaired
  <2>8. Unnamed'
      BY <1>0, <2>1, <2>2, <2>3, NoneIsNew DEF Unnamed, Unborn, CallShape
  <2>9. ClaimInv'
      BY <1>0, <2>2 DEF ClaimInv
  <2>10. Reported'
      BY <1>0, <2>1, <2>2, <2>3 DEF Reported, CallShape
  <2>11. Synced'
      BY <1>0, <2>2 DEF Synced
  <2> QED BY <2>4, <2>5, <2>6, <2>7, <2>8, <2>9, <2>10, <2>11 DEF IInv
<1>6. ASSUME NEW k \in Calls, Send(k)
      PROVE  IInv'
  <2>0. call[k].pc = "send" /\ call[k].ph \in Phones /\ token[call[k].ph] \in Device
      BY <1>0, <1>6 DEF Send, CallShape, TypeOK
  <2> DEFINE r == [call[k] EXCEPT !.pc = "wire", !.as = token[call[k].ph],
                                  !.fresh = token[call[k].ph] # None /\ live[call[k].ph]]
  <2>1. r \in Call /\ r.ph = call[k].ph /\ r.fcm = call[k].fcm /\ r.cred = call[k].cred
        /\ r.pc = "wire" /\ r.as = token[call[k].ph] /\ (r.fresh => r.as \in Devices)
    <3>1. call[k] \in Call
        BY <1>0 DEF TypeOK
    <3>2. token[call[k].ph] # None => token[call[k].ph] \in Devices
        BY <2>0 DEF Device
    <3>3. (token[call[k].ph] # None /\ live[call[k].ph]) \in BOOLEAN
        BY <1>0, <2>0 DEF TypeOK
    <3> QED BY <2>0, <3>1, <3>2, <3>3 DEF Call
  <2>2. CallTo(k, r) /\ call[k].pc = "send" /\ call[k].ph \in Phones
        /\ UNCHANGED <<row, rowFcm, claim, late, id, token, live, crossed, fcm, needsSync, raced>>
      BY <1>0, <1>6, <2>0 DEF Send, deviceVars, identityVars, fcmVars, TypeOK
  <2> HIDE DEF r
  <2>3. /\ call' \in [Calls -> Call] /\ call'[k] = r
        /\ \A o \in Calls : o # k => call'[o] = call[o]
      BY <1>0, <2>1, <2>2, OneCall
  <2>4. TypeOK'
      BY <1>0, <2>2, <2>3 DEF TypeOK, Call, Claim
  <2>5. CallShape'
      BY <1>0, <2>1, <2>2, <2>3 DEF CallShape, TypeOK
  <2>6. OwnCred'
      BY <1>0, <2>1, <2>2, <2>3 DEF OwnCred, CallShape
  <2>7. OwnToken'
      BY <1>0, <2>2 DEF OwnToken, OwnCred, isPaired
  <2>8. Unnamed'
      BY <1>0, <2>1, <2>2, <2>3 DEF Unnamed, Unborn, CallShape
  <2>9. ClaimInv'
      BY <1>0, <2>2 DEF ClaimInv
  <2>10. Reported'
      BY <1>0, <2>1, <2>2, <2>3 DEF Reported, CallShape
  <2>11. Synced'
      BY <1>0, <2>2 DEF Synced
  <2> QED BY <2>4, <2>5, <2>6, <2>7, <2>8, <2>9, <2>10, <2>11 DEF IInv
<1>7. ASSUME NEW k \in Calls, ServeCall(k)
      PROVE  IInv'
  <2>1. PICK d \in Devices, f \in Fcm : d = call[k].as /\ f = call[k].fcm
      BY <1>0, <1>7 DEF ServeCall, CallShape, Call
  <2>2. /\ call[k].pc = "wire" /\ call[k].fresh
        /\ CallTo(k, [call[k] EXCEPT !.pc = "answered"])
        /\ SelfUpdate(d, f) /\ Overtaken(d, f)
        /\ UNCHANGED <<row, claim, late, id, token, live, crossed, fcm, needsSync>>
      BY <1>7, <2>1 DEF ServeCall, identityVars
  <2> DEFINE r == [call[k] EXCEPT !.pc = "answered"]
  <2>3. r \in Call /\ r.pc = "answered" /\ r.ph = call[k].ph /\ r.fcm = f /\ r.as = d
        /\ r.cred = call[k].cred /\ call[k].ph \in Phones
      BY <1>0, <2>1, <2>2 DEF Call, CallShape
  <2>4. /\ call' \in [Calls -> Call] /\ call'[k] = r
        /\ \A o \in Calls : o # k => call'[o] = call[o]
      BY <1>0, <2>2, <2>3, OneCall DEF r
  <2> HIDE DEF r
  <2>5. /\ rowFcm' \in [Devices -> Fcm] /\ raced' \in [Phones -> BOOLEAN]
        /\ \A e \in Devices : e # d => rowFcm'[e] = rowFcm[e]
        /\ f # 0 => rowFcm'[d] = f
        /\ f = 0 => rowFcm' = rowFcm
        /\ \A p \in Phones : raced'[p] <=> (raced[p] \/ (id[p] = d /\ f # 0 /\ f # fcm[p]))
      BY <1>0, <2>1, <2>2 DEF TypeOK, SelfUpdate, Overtaken
  <2>6. \A p \in Phones : claim[p].dev # d /\ claim[p].dev \in Device
      BY <1>0, <2>1 DEF Unnamed, Unborn, Claim
  <2>7. \A p \in Phones : id[p] \in Device /\ raced[p] \in BOOLEAN
      BY <1>0 DEF TypeOK
  <2>8. TypeOK'
      BY <1>0, <2>2, <2>4, <2>5, <2>6, <2>7 DEF TypeOK, Call, Claim
  <2>9. CallShape'
      BY <1>0, <2>1, <2>2, <2>3, <2>4, <2>6, <2>7 DEF CallShape, TypeOK
  <2>10. OwnCred'
      BY <1>0, <2>2, <2>3, <2>4, <2>6, <2>7 DEF OwnCred, CallShape
  <2>11. OwnToken'
      BY <1>0, <2>2, <2>6, <2>7 DEF OwnToken, OwnCred, isPaired
  <2>12. Unnamed'
      BY <1>0, <2>1, <2>2, <2>3, <2>4, <2>6, <2>7 DEF Unnamed, Unborn, CallShape
  <2>13. ClaimInv'
      BY <1>0, <2>2, <2>5, <2>6 DEF ClaimInv, Device
  <2>14. Reported'
      BY <1>0, <2>2, <2>3, <2>4, <2>5, <2>7 DEF Reported, CallShape, Device
  <2>15. Synced'
      BY <1>0, <2>2, <2>5, <2>7 DEF Synced, Device
  <2> QED BY <2>8, <2>9, <2>10, <2>11, <2>12, <2>13, <2>14, <2>15 DEF IInv
<1>8. ASSUME NEW k \in Calls, CallLate(k)
      PROVE  IInv'
  <2>1. /\ CallTo(k, NoCall) /\ call[k].as \in Devices /\ call[k].fcm \in Fcm
        /\ late' = late \cup {<<call[k].as, call[k].fcm>>}
        /\ UNCHANGED <<row, rowFcm, claim, id, token, live, crossed, fcm, needsSync, raced>>
      BY <1>0, <1>8 DEF CallLate, CallShape, Call, deviceVars, identityVars, fcmVars
  <2>2. /\ call' \in [Calls -> Call] /\ call'[k] = NoCall
        /\ \A o \in Calls : o # k => call'[o] = call[o]
      BY <1>0, <2>1, Nothing, OneCall
  <2>3. TypeOK'
      BY <1>0, <2>1, <2>2 DEF TypeOK, Call, Claim
  <2>4. CallShape'
      BY <1>0, <2>1, <2>2, Nothing DEF CallShape, TypeOK
  <2>5. OwnCred'
      BY <1>0, <2>1, <2>2, Nothing DEF OwnCred, CallShape
  <2>6. OwnToken'
      BY <1>0, <2>1 DEF OwnToken, OwnCred, isPaired
  <2>7. Unnamed'
      BY <1>0, <2>1, <2>2, Nothing, NoneIsNew DEF Unnamed, Unborn, CallShape
  <2>8. ClaimInv'
      BY <1>0, <2>1 DEF ClaimInv
  <2>9. Reported'
      BY <1>0, <2>1, <2>2, Nothing DEF Reported, CallShape
  <2>10. Synced'
      BY <1>0, <2>1 DEF Synced
  <2> QED BY <2>3, <2>4, <2>5, <2>6, <2>7, <2>8, <2>9, <2>10 DEF IInv
<1>9. ASSUME NEW d \in Devices, NEW f \in Fcm, LateUpdate(d, f)
      PROVE  IInv'
  <2>1. /\ <<d, f>> \in late /\ late' = late \ {<<d, f>>}
        /\ UNCHANGED <<row, claim, call, id, token, live, crossed, fcm, needsSync>>
        /\ (SelfUpdate(d, f) /\ Overtaken(d, f)) \/ UNCHANGED <<rowFcm, raced>>
      BY <1>9 DEF LateUpdate, identityVars
  <2>2. \A p \in Phones : /\ claim[p].dev # d /\ claim[p].dev \in Device /\ id[p] \in Device
                             /\ raced[p] \in BOOLEAN
      BY <1>0, <2>1 DEF Unnamed, Unborn, Claim, TypeOK
  <2>3. /\ rowFcm' \in [Devices -> Fcm] /\ raced' \in [Phones -> BOOLEAN]
        /\ \A e \in Devices : e # d => rowFcm'[e] = rowFcm[e]
        /\ rowFcm'[d] = rowFcm[d] \/ rowFcm'[d] = f
        /\ \A p \in Phones : raced[p] => raced'[p]
        /\ \A p \in Phones : id[p] = d /\ rowFcm'[d] # rowFcm[d] => raced'[p] \/ rowFcm'[d] = fcm[p]
      BY <1>0, <2>1 DEF TypeOK, SelfUpdate, Overtaken
  <2>4. TypeOK'
      BY <1>0, <2>1, <2>3 DEF TypeOK, Call, Claim
  <2>5. CallShape'
      BY <1>0, <2>1 DEF CallShape, TypeOK
  <2>6. OwnCred'
      BY <1>0, <2>1 DEF OwnCred, CallShape
  <2>7. OwnToken'
      BY <1>0, <2>1 DEF OwnToken, OwnCred, isPaired
  <2>8. Unnamed'
      BY <1>0, <2>1 DEF Unnamed, Unborn, CallShape
  <2>9. ClaimInv'
      BY <1>0, <2>1, <2>2, <2>3 DEF ClaimInv, Device
  <2>10. Reported'
      BY <1>0, <2>1, <2>2, <2>3 DEF Reported, CallShape, Device
  <2>11. Synced'
      BY <1>0, <2>1, <2>2, <2>3 DEF Synced, Device
  <2> QED BY <2>4, <2>5, <2>6, <2>7, <2>8, <2>9, <2>10, <2>11 DEF IInv
<1>10. ASSUME NEW k \in Calls, CallFails(k)
      PROVE  IInv'
  <2>1. /\ CallTo(k, NoCall)
        /\ UNCHANGED <<row, rowFcm, claim, late, id, token, live, crossed, fcm, needsSync, raced>>
      BY <1>10 DEF CallFails, deviceVars, identityVars, fcmVars
  <2>2. /\ call' \in [Calls -> Call] /\ call'[k] = NoCall
        /\ \A o \in Calls : o # k => call'[o] = call[o]
      BY <1>0, <2>1, Nothing, OneCall
  <2>3. TypeOK'
      BY <1>0, <2>1, <2>2 DEF TypeOK, Call, Claim
  <2>4. CallShape'
      BY <1>0, <2>1, <2>2, Nothing DEF CallShape, TypeOK
  <2>5. OwnCred'
      BY <1>0, <2>1, <2>2, Nothing DEF OwnCred, CallShape
  <2>6. OwnToken'
      BY <1>0, <2>1 DEF OwnToken, OwnCred, isPaired
  <2>7. Unnamed'
      BY <1>0, <2>1, <2>2, Nothing, NoneIsNew DEF Unnamed, Unborn, CallShape
  <2>8. ClaimInv'
      BY <1>0, <2>1 DEF ClaimInv
  <2>9. Reported'
      BY <1>0, <2>1, <2>2, Nothing DEF Reported, CallShape
  <2>10. Synced'
      BY <1>0, <2>1 DEF Synced
  <2> QED BY <2>3, <2>4, <2>5, <2>6, <2>7, <2>8, <2>9, <2>10 DEF IInv
<1>11. ASSUME NEW k \in Calls, DenyCall(k), Hopeless(k)
      PROVE  IInv'
  <2>1. /\ CallTo(k, NoCall)
        /\ UNCHANGED <<row, rowFcm, claim, late, id, token, live, crossed, fcm, needsSync, raced>>
      BY <1>11 DEF DenyCall, deviceVars, identityVars, fcmVars
  <2>2. /\ call' \in [Calls -> Call] /\ call'[k] = NoCall
        /\ \A o \in Calls : o # k => call'[o] = call[o]
      BY <1>0, <2>1, Nothing, OneCall
  <2>3. TypeOK'
      BY <1>0, <2>1, <2>2 DEF TypeOK, Call, Claim
  <2>4. CallShape'
      BY <1>0, <2>1, <2>2, Nothing DEF CallShape, TypeOK
  <2>5. OwnCred'
      BY <1>0, <2>1, <2>2, Nothing DEF OwnCred, CallShape
  <2>6. OwnToken'
      BY <1>0, <2>1 DEF OwnToken, OwnCred, isPaired
  <2>7. Unnamed'
      BY <1>0, <2>1, <2>2, Nothing, NoneIsNew DEF Unnamed, Unborn, CallShape
  <2>8. ClaimInv'
      BY <1>0, <2>1 DEF ClaimInv
  <2>9. Reported'
      BY <1>0, <2>1, <2>2, Nothing DEF Reported, CallShape
  <2>10. Synced'
      BY <1>0, <2>1 DEF Synced
  <2> QED BY <2>3, <2>4, <2>5, <2>6, <2>7, <2>8, <2>9, <2>10 DEF IInv
<1>12. ASSUME NEW k \in Calls, DenyCall(k), ~Hopeless(k)
      PROVE  IInv'
  <2>0. call[k].pc = "wire" /\ call[k].ph \in Phones /\ id[call[k].ph] \in Devices
      BY <1>0, <1>12 DEF DenyCall, Hopeless, CallShape, TypeOK, Device
  <2> DEFINE r == [call[k] EXCEPT !.pc = "renew", !.as = None, !.cred = id[call[k].ph]]
  <2>1. r \in Call /\ r.ph = call[k].ph /\ r.fcm = call[k].fcm /\ r.pc = "renew" /\ r.as = None
        /\ r.cred = id[call[k].ph] /\ r.cred \in Devices
    <3>1. call[k] \in Call
        BY <1>0 DEF TypeOK
    <3> QED BY <2>0, <3>1 DEF Call, Device
  <2>2. CallTo(k, r) /\ call[k].pc = "wire" /\ call[k].ph \in Phones
        /\ UNCHANGED <<row, rowFcm, claim, late, id, token, live, crossed, fcm, needsSync, raced>>
      BY <1>0, <1>12, <2>0 DEF DenyCall, Hopeless, StoredDevice, deviceVars, identityVars, fcmVars, TypeOK
  <2> HIDE DEF r
  <2>3. /\ call' \in [Calls -> Call] /\ call'[k] = r
        /\ \A o \in Calls : o # k => call'[o] = call[o]
      BY <1>0, <2>1, <2>2, OneCall
  <2>4. TypeOK'
      BY <1>0, <2>2, <2>3 DEF TypeOK, Call, Claim
  <2>5. CallShape'
      BY <1>0, <2>1, <2>2, <2>3 DEF CallShape, TypeOK
  <2>6. OwnCred'
      BY <1>0, <2>1, <2>2, <2>3 DEF OwnCred, CallShape
  <2>7. OwnToken'
      BY <1>0, <2>2 DEF OwnToken, OwnCred, isPaired
  <2>8. Unnamed'
      BY <1>0, <2>1, <2>2, <2>3, NoneIsNew DEF Unnamed, Unborn, CallShape
  <2>9. ClaimInv'
      BY <1>0, <2>2 DEF ClaimInv
  <2>10. Reported'
      BY <1>0, <2>1, <2>2, <2>3 DEF Reported, CallShape
  <2>11. Synced'
      BY <1>0, <2>2 DEF Synced
  <2> QED BY <2>4, <2>5, <2>6, <2>7, <2>8, <2>9, <2>10, <2>11 DEF IInv
<1>13. ASSUME NEW k \in Calls, Reauth(k), row[call[k].cred] # "present"
      PROVE  IInv'
  <2>1. /\ CallTo(k, NoCall)
        /\ UNCHANGED <<row, rowFcm, claim, late, id, token, live, crossed, fcm, needsSync, raced>>
      BY <1>13 DEF Reauth, deviceVars, identityVars, fcmVars
  <2>2. /\ call' \in [Calls -> Call] /\ call'[k] = NoCall
        /\ \A o \in Calls : o # k => call'[o] = call[o]
      BY <1>0, <2>1, Nothing, OneCall
  <2>3. TypeOK'
      BY <1>0, <2>1, <2>2 DEF TypeOK, Call, Claim
  <2>4. CallShape'
      BY <1>0, <2>1, <2>2, Nothing DEF CallShape, TypeOK
  <2>5. OwnCred'
      BY <1>0, <2>1, <2>2, Nothing DEF OwnCred, CallShape
  <2>6. OwnToken'
      BY <1>0, <2>1 DEF OwnToken, OwnCred, isPaired
  <2>7. Unnamed'
      BY <1>0, <2>1, <2>2, Nothing, NoneIsNew DEF Unnamed, Unborn, CallShape
  <2>8. ClaimInv'
      BY <1>0, <2>1 DEF ClaimInv
  <2>9. Reported'
      BY <1>0, <2>1, <2>2, Nothing DEF Reported, CallShape
  <2>10. Synced'
      BY <1>0, <2>1 DEF Synced
  <2> QED BY <2>3, <2>4, <2>5, <2>6, <2>7, <2>8, <2>9, <2>10 DEF IInv
<1>14. ASSUME NEW k \in Calls, Reauth(k), row[call[k].cred] = "present"
      PROVE  IInv'
  <2>0. call[k].pc = "renew" /\ call[k].ph \in Phones
      BY <1>0, <1>14 DEF Reauth, CallShape
  <2> DEFINE r == [call[k] EXCEPT !.pc = "renewed"]
  <2>1. r \in Call /\ r.ph = call[k].ph /\ r.fcm = call[k].fcm /\ r.pc = "renewed" /\ r.as = call[k].as /\ r.cred = call[k].cred
      BY <1>0, <1>14, Nothing DEF Reauth, Call, CallShape, TypeOK, NoCall, Device
  <2>2. CallTo(k, r) /\ call[k].pc = "renew" /\ call[k].ph \in Phones
        /\ UNCHANGED <<row, rowFcm, claim, late, id, token, live, crossed, fcm, needsSync, raced>>
      BY <1>0, <1>14, <2>0 DEF Reauth, deviceVars, identityVars, fcmVars, TypeOK
  <2> HIDE DEF r
  <2>3. /\ call' \in [Calls -> Call] /\ call'[k] = r
        /\ \A o \in Calls : o # k => call'[o] = call[o]
      BY <1>0, <2>1, <2>2, OneCall
  <2>4. TypeOK'
      BY <1>0, <2>2, <2>3 DEF TypeOK, Call, Claim
  <2>5. CallShape'
      BY <1>0, <2>1, <2>2, <2>3 DEF CallShape, TypeOK
  <2>6. OwnCred'
      BY <1>0, <2>1, <2>2, <2>3 DEF OwnCred, CallShape
  <2>7. OwnToken'
      BY <1>0, <2>2 DEF OwnToken, OwnCred, isPaired
  <2>8. Unnamed'
      BY <1>0, <2>1, <2>2, <2>3 DEF Unnamed, Unborn, CallShape
  <2>9. ClaimInv'
      BY <1>0, <2>2 DEF ClaimInv
  <2>10. Reported'
      BY <1>0, <2>1, <2>2, <2>3 DEF Reported, CallShape
  <2>11. Synced'
      BY <1>0, <2>2 DEF Synced
  <2> QED BY <2>4, <2>5, <2>6, <2>7, <2>8, <2>9, <2>10, <2>11 DEF IInv
<1>15. ASSUME NEW k \in Calls, SetToken(k)
      PROVE  IInv'
  <2>1. PICK p \in Phones, d \in Devices : p = call[k].ph /\ d = call[k].cred
      BY <1>0, <1>15 DEF SetToken, CallShape
  <2>2. /\ call[k].pc = "renewed"
        /\ token' = [token EXCEPT ![p] = d] /\ live' = [live EXCEPT ![p] = TRUE]
        /\ CallTo(k, [call[k] EXCEPT !.pc = "send", !.cred = None, !.fresh = FALSE, !.retried = TRUE])
        /\ UNCHANGED <<row, rowFcm, claim, late, id, crossed, fcm, needsSync, raced>>
      BY <1>15, <2>1 DEF SetToken, Renews, deviceVars, fcmVars
  <2> DEFINE r == [call[k] EXCEPT !.pc = "send", !.cred = None, !.fresh = FALSE, !.retried = TRUE]
  <2>3. r \in Call /\ r.pc = "send" /\ r.ph = p /\ r.fcm = call[k].fcm /\ r.as = call[k].as /\ r.cred = None
      BY <1>0, <2>1 DEF Call
  <2>4. /\ call' \in [Calls -> Call] /\ call'[k] = r
        /\ \A o \in Calls : o # k => call'[o] = call[o]
      BY <1>0, <2>2, <2>3, OneCall
  <2> HIDE DEF r
  <2>5. /\ token'[p] = d /\ \A o \in Phones : o # p => token'[o] = token[o]
        /\ token' \in [Phones -> Device] /\ live' \in [Phones -> BOOLEAN]
      BY <1>0, <2>2 DEF TypeOK
  <2>6. /\ ~crossed[p] /\ id[p] # None => d = id[p]
        /\ ~Unborn(d) /\ d # None
      BY <1>0, <2>1, <2>2, NoneIsNew DEF OwnCred, Unnamed
  <2>7. TypeOK'
      BY <1>0, <2>2, <2>4, <2>6 DEF TypeOK, Call, Claim
  <2>8. CallShape'
      BY <1>0, <2>1, <2>2, <2>3, <2>4, <2>6 DEF CallShape, TypeOK
  <2>9. OwnCred'
      BY <1>0, <2>2, <2>3, <2>4, <2>6 DEF OwnCred, CallShape
  <2>10. OwnToken'
      BY <1>0, <2>2, <2>6 DEF OwnToken, OwnCred, isPaired
  <2>11. Unnamed'
      BY <1>0, <2>2, <2>3, <2>4, <2>6, NoneIsNew DEF Unnamed, Unborn, CallShape
  <2>12. ClaimInv'
      BY <1>0, <2>2, <2>6 DEF ClaimInv
  <2>13. Reported'
      BY <1>0, <2>2, <2>3, <2>4, <2>6 DEF Reported, CallShape
  <2>14. Synced'
      BY <1>0, <2>2, <2>6 DEF Synced
  <2> QED BY <2>7, <2>8, <2>9, <2>10, <2>11, <2>12, <2>13, <2>14 DEF IInv
<1>16. ASSUME NEW k \in Calls, FinishCall(k)
      PROVE  IInv'
  <2>1. PICK p \in Phones : p = call[k].ph
      BY <1>0, <1>16 DEF FinishCall, CallShape
  <2>2. /\ call[k].pc = "answered" /\ CallTo(k, NoCall)
        /\ needsSync' = [needsSync EXCEPT ![p] = @ /\ ~(call[k].fcm # 0)]
        /\ raced' = [raced EXCEPT ![p] = @ \/ (call[k].fcm # 0 /\ (call[k].fcm # fcm[p] \/ call[k].as # id[p]))]
        /\ UNCHANGED <<row, rowFcm, claim, late, id, token, live, crossed, fcm>>
      BY <1>16, <2>1 DEF FinishCall, deviceVars, identityVars
  <2>3. /\ call' \in [Calls -> Call] /\ call'[k] = NoCall
        /\ \A o \in Calls : o # k => call'[o] = call[o]
      BY <1>0, <2>2, Nothing, OneCall
  <2>4. /\ needsSync' \in [Phones -> BOOLEAN] /\ raced' \in [Phones -> BOOLEAN]
        /\ \A o \in Phones : o # p => needsSync'[o] = needsSync[o] /\ raced'[o] = raced[o]
        /\ needsSync'[p] <=> needsSync[p] /\ call[k].fcm = 0
        /\ raced'[p] <=> raced[p] \/ (call[k].fcm # 0 /\ (call[k].fcm # fcm[p] \/ call[k].as # id[p]))
      BY <1>0, <2>2 DEF TypeOK
  <2>5. /\ call[k].as \in Devices /\ call[k].as # None
        /\ call[k].fcm # 0 /\ ~raced'[p] => rowFcm[id[p]] = fcm[p]
      BY <1>0, <2>1, <2>2, <2>4, NoneIsNew DEF CallShape, Reported
  <2>6. TypeOK'
      BY <1>0, <2>2, <2>3 DEF TypeOK, Call, Claim
  <2>7. CallShape'
      BY <1>0, <2>2, <2>3, Nothing DEF CallShape, TypeOK
  <2>8. OwnCred'
      BY <1>0, <2>2, <2>3, Nothing DEF OwnCred, CallShape
  <2>9. OwnToken'
      BY <1>0, <2>2 DEF OwnToken, OwnCred, isPaired
  <2>10. Unnamed'
      BY <1>0, <2>2, <2>3, Nothing, NoneIsNew DEF Unnamed, Unborn, CallShape
  <2>11. ClaimInv'
      BY <1>0, <2>2, <2>4, <2>5 DEF ClaimInv
  <2>12. Reported'
      BY <1>0, <2>2, <2>3, <2>4, Nothing DEF Reported, CallShape
  <2>13. Synced'
      BY <1>0, <2>2, <2>4, <2>5 DEF Synced
  <2> QED BY <2>6, <2>7, <2>8, <2>9, <2>10, <2>11, <2>12, <2>13 DEF IInv
<1>17. ASSUME NEW p \in Phones, OnNewToken(p)
      PROVE  IInv'
  <2>1. /\ fcm' = [fcm EXCEPT ![p] = @ + 1] /\ needsSync' = [needsSync EXCEPT ![p] = TRUE]
        /\ raced' = [raced EXCEPT ![p] = FALSE] /\ fcm[p] < MaxFcm
        /\ UNCHANGED <<row, rowFcm, claim, call, late, id, token, live, crossed>>
      BY <1>17 DEF OnNewToken, FlagSync, deviceVars, identityVars
  <2>2. /\ fcm'[p] = fcm[p] + 1 /\ fcm[p] \in Nat /\ fcm'[p] \in Fcm /\ needsSync'[p]
        /\ \A o \in Phones : o # p => /\ fcm'[o] = fcm[o] /\ raced'[o] = raced[o]
                                        /\ needsSync'[o] = needsSync[o]
      BY <1>0, <2>1, MaxFcmIsNat DEF TypeOK, Fcm
  <2>3. \A k \in Calls : call[k].fcm \in Nat
      BY <1>0 DEF Call
  <2>4. TypeOK'
      BY <1>0, <2>1, <2>2 DEF TypeOK, Call, Claim
  <2>5. CallShape'
      BY <1>0, <2>1, <2>2, <2>3 DEF CallShape, TypeOK
  <2>6. OwnCred'
      BY <1>0, <2>1 DEF OwnCred, CallShape
  <2>7. OwnToken'
      BY <1>0, <2>1 DEF OwnToken, OwnCred, isPaired
  <2>8. Unnamed'
      BY <1>0, <2>1 DEF Unnamed, Unborn, CallShape
  <2>9. ClaimInv'
      BY <1>0, <2>1, <2>2 DEF ClaimInv
  <2>10. Reported'
      BY <1>0, <2>1, <2>2 DEF Reported, CallShape
  <2>11. Synced'
      BY <1>0, <2>1, <2>2 DEF Synced
  <2> QED BY <2>4, <2>5, <2>6, <2>7, <2>8, <2>9, <2>10, <2>11 DEF IInv
<1>18. ASSUME NEW p \in Phones, ClearPairing(p)
      PROVE  IInv'
  <2>1. /\ id' = [id EXCEPT ![p] = None] /\ token' = [token EXCEPT ![p] = None]
        /\ crossed' = [crossed EXCEPT ![p] = @ \/ Renewing(p)]
        /\ id[p] # None
        /\ UNCHANGED <<row, rowFcm, claim, call, late, live, fcm, needsSync, raced>>
      BY <1>18 DEF ClearPairing, isPaired, deviceVars, fcmVars
  <2>2. /\ id'[p] = None /\ token'[p] = None
        /\ \A o \in Phones : o # p => id'[o] = id[o] /\ token'[o] = token[o] /\ crossed'[o] = crossed[o]
        /\ crossed' \in [Phones -> BOOLEAN]
      BY <1>0, <2>1 DEF TypeOK
  <2>3. TypeOK'
      BY <1>0, <2>1 DEF TypeOK, Call, Claim
  <2>4. CallShape'
      BY <1>0, <2>1 DEF CallShape, TypeOK
  <2>5. OwnCred'
      BY <1>0, <2>1, <2>2 DEF OwnCred, CallShape
  <2>6. OwnToken'
      BY <1>0, <2>2 DEF OwnToken, OwnCred, isPaired
  <2>7. Unnamed'
      BY <1>0, <2>1, NoneIsNew DEF Unnamed, Unborn, CallShape
  <2>8. ClaimInv'
      BY <1>0, <2>1, <2>2 DEF ClaimInv
  <2>9. Reported'
      BY <1>0, <2>1, NoneIsNew DEF Reported, CallShape
  <2>10. Synced'
      BY <1>0, <2>1 DEF Synced
  <2> QED BY <2>3, <2>4, <2>5, <2>6, <2>7, <2>8, <2>9, <2>10 DEF IInv
<1>19. ASSUME NEW p \in Phones, TokenExpires(p)
      PROVE  IInv'
  <2>1. /\ live' = [live EXCEPT ![p] = FALSE]
        /\ UNCHANGED <<row, rowFcm, claim, call, late, id, token, crossed, fcm, needsSync, raced>>
      BY <1>19 DEF TokenExpires, deviceVars, fcmVars
  <2>2. TypeOK'
      BY <1>0, <2>1 DEF TypeOK, Call, Claim
  <2>3. CallShape'
      BY <1>0, <2>1 DEF CallShape, TypeOK
  <2>4. OwnCred'
      BY <1>0, <2>1 DEF OwnCred, CallShape
  <2>5. OwnToken'
      BY <1>0, <2>1 DEF OwnToken, OwnCred, isPaired
  <2>6. Unnamed'
      BY <1>0, <2>1 DEF Unnamed, Unborn, CallShape
  <2>7. ClaimInv'
      BY <1>0, <2>1 DEF ClaimInv
  <2>8. Reported'
      BY <1>0, <2>1 DEF Reported, CallShape
  <2>9. Synced'
      BY <1>0, <2>1 DEF Synced
  <2> QED BY <2>2, <2>3, <2>4, <2>5, <2>6, <2>7, <2>8, <2>9 DEF IInv
<1>20. ASSUME NEW d \in Devices, Remove(d)
      PROVE  IInv'
  <2>1. /\ row[d] = "present" /\ row' = [row EXCEPT ![d] = "removed"]
        /\ UNCHANGED <<rowFcm, claim, call, late, id, token, live, crossed, fcm, needsSync, raced>>
      BY <1>20 DEF Remove, identityVars, fcmVars
  <2>2. /\ row' \in [Devices -> {"none", "present", "removed"}]
        /\ \A e \in Devices : row'[e] = "none" <=> row[e] = "none"
        /\ \A p \in Phones : claim[p].dev \in Devices \cup {None}
      BY <1>0, <2>1 DEF TypeOK, Claim, Device
  <2>3. TypeOK'
      BY <1>0, <2>1 DEF TypeOK, Call, Claim
  <2>4. CallShape'
      BY <1>0, <2>1 DEF CallShape, TypeOK
  <2>5. OwnCred'
      BY <1>0, <2>1 DEF OwnCred, CallShape
  <2>6. OwnToken'
      BY <1>0, <2>1 DEF OwnToken, OwnCred, isPaired
  <2>7. Unnamed'
      BY <1>0, <2>1 DEF Unnamed, Unborn, CallShape
  <2>8. ClaimInv'
      BY <1>0, <2>1 DEF ClaimInv
  <2>9. Reported'
      BY <1>0, <2>1 DEF Reported, CallShape
  <2>10. Synced'
      BY <1>0, <2>1 DEF Synced
  <2> QED BY <2>3, <2>4, <2>5, <2>6, <2>7, <2>8, <2>9, <2>10 DEF IInv
<1>21. CASE UNCHANGED vars
  <2>1. UNCHANGED <<row, rowFcm, claim, call, late, id, token, live, crossed, fcm, needsSync, raced>>
      BY <1>21 DEF vars, deviceVars, identityVars, fcmVars
  <2> QED BY <1>0, <2>1 DEF IInv, TypeOK, CallShape, OwnCred, OwnToken, isPaired, Unnamed, Unborn,
                            ClaimInv, Reported, Synced
<1> QED BY <1>1, <1>2, <1>3, <1>4, <1>5, <1>6, <1>7, <1>8, <1>9, <1>10, <1>11, <1>12,
           <1>13, <1>14, <1>15, <1>16, <1>17, <1>18, <1>19, <1>20, <1>21 DEF Next, CallStep

-----------------------------------------------------------------------------

THEOREM Invariance == Spec => []IInv
<1>1. Init => IInv
  <2> SUFFICES ASSUME Init PROVE IInv
      OBVIOUS
  <2>1. 0 \in Fcm
      BY MaxFcmIsNat DEF Fcm
  <2>2. /\ \A k \in Calls : call[k] = NoCall
        /\ \A p \in Phones : claim[p] = NoClaim /\ id[p] = None /\ token[p] = None
        /\ late = {}
      BY DEF Init
  <2>3. TypeOK
      BY <2>1, Nothing DEF Init, TypeOK, Device
  <2>4. CallShape /\ OwnCred /\ Reported
      BY <2>2, Nothing DEF CallShape, OwnCred, Reported
  <2>5. OwnToken /\ Synced
      BY <2>2 DEF OwnToken, isPaired, Synced
  <2>6. Unnamed /\ ClaimInv
      BY <2>2, Nothing, NoneIsNew DEF Unnamed, ClaimInv
  <2> QED BY <2>3, <2>4, <2>5, <2>6 DEF IInv
<1>2. IInv /\ [Next]_vars => IInv'
    BY Step
<1> QED BY <1>1, <1>2, PTL DEF Spec

\* The model of the device's identity is well typed.
THEOREM TypeCorrect == Spec => []TypeOK
BY Invariance, PTL DEF IInv

\* A paired phone has the token of the device it is paired as, unless a renewal for
\* the old identity crossed the re-pairing.
THEOREM OwnTokens == Spec => []OwnToken
BY Invariance, PTL DEF IInv

\* A phone without the sync flag has its push token in its row, unless reports raced.
THEOREM FcmTokensSynced == Spec => []FcmSynced
<1>1. IInv => FcmSynced
    BY DEF IInv, Synced, FcmSynced, isPaired
<1> QED BY Invariance, <1>1, PTL

=============================================================================
