--------------------------- MODULE PairingProofs ---------------------------
(***************************************************************************)
(* What holds of pairings for any number of phones, devices, pairings and  *)
(* overlapping claims.  Two invariants: ClaimsInv follows a new device     *)
(* from its row to the one phone that becomes it, whatever overlaps;       *)
(* PairingsInv adds what a pairing that was not disturbed says of it.      *)
(***************************************************************************)
EXTENDS Pairing, TLAPS

\* What a claim holds at each of its statements.
ClaimShape ==
    \A c \in Claims :
      /\ claim[c].pc = "idle" <=> claim[c] = NoClaim
      /\ claim[c].pc # "idle" => claim[c].of \in Pairings /\ claim[c].ph \in Phones
      /\ claim[c].pc \in {"sent", "expire", "create"} => claim[c].dev = None
      /\ claim[c].pc \in {"mark", "answered"} => claim[c].dev \in Devices
      /\ claim[c].pc = "mark" => madeOf[claim[c].dev] = claim[c].of
      /\ claim[c].pc = "answered" => claim[c].client

\* A phone that waits for an answer is unpaired, and waits for one only.
Waiting ==
    /\ \A c \in Claims : claim[c].client => id[claim[c].ph] = None
    /\ \A c, o \in Claims : claim[c].client /\ claim[o].client /\ claim[c].ph = claim[o].ph => c = o

\* A device has a row before a claim or a phone has its name, and one of them only.
Held ==
    /\ \A d \in Devices : row[d] = "none" => madeOf[d] = None
    /\ \A c \in Claims : claim[c].dev # None => row[claim[c].dev] # "none"
    /\ \A p \in Phones : id[p] # None => row[id[p]] # "none"
    /\ \A c, o \in Claims : claim[c].dev = claim[o].dev /\ claim[c].dev # None => c = o
    /\ \A c \in Claims, p \in Phones : claim[c].dev # None => id[p] # claim[c].dev

ClaimsInv == ClaimShape /\ Waiting /\ Held /\ HeldOnce

\* A pairing with one claim at a time: it is pending while that is decided, and
\* has made no device, or the one the claim is to mark it with.
PairingsInv ==
    \A q \in Pairings \ disturbed :
      /\ \A c, o \in Claims : Deciding(c, q) /\ Deciding(o, q) => c = o
      /\ \A c \in Claims : Deciding(c, q) =>
            /\ status[q] = "PENDING"
            /\ MadeOf(q) = IF claim[c].pc = "mark" THEN {claim[c].dev} ELSE {}

IInv == TypeOK /\ ClaimsInv /\ PairingsInv /\ PairingTruthful

-----------------------------------------------------------------------------

\* A step of a claim changes that claim alone.
LEMMA OneClaim ==
    ASSUME TypeOK, NEW c \in Claims, NEW r \in Claim, ClaimTo(c, r)
    PROVE  /\ claim' \in [Claims -> Claim]
           /\ claim'[c] = r
           /\ \A o \in Claims : o # c => claim'[o] = claim[o]
BY DEF TypeOK, ClaimTo

\* The records the actions build are claims, with the fields they do not name kept.
LEMMA Records ==
    ASSUME TypeOK, NEW c \in Claims
    PROVE  /\ NoClaim \in Claim
           /\ claim[c] \in Claim
           /\ \A p \in Phones, q \in Pairings :
                LET r == [NoClaim EXCEPT !.pc = "sent", !.ph = p, !.of = q, !.client = TRUE]
                IN  r \in Claim /\ r.pc = "sent" /\ r.ph = p /\ r.of = q /\ r.client /\ r.dev = None
           /\ \A l \in {"expire", "create", "answered"} :
                LET r == [claim[c] EXCEPT !.pc = l]
                IN  /\ r \in Claim /\ r.pc = l /\ r.ph = claim[c].ph /\ r.of = claim[c].of
                    /\ r.client = claim[c].client /\ r.dev = claim[c].dev
           /\ \A d \in Devices :
                LET r == [claim[c] EXCEPT !.pc = "mark", !.dev = d]
                IN  /\ r \in Claim /\ r.pc = "mark" /\ r.ph = claim[c].ph /\ r.of = claim[c].of
                    /\ r.client = claim[c].client /\ r.dev = d
           /\ LET r == [claim[c] EXCEPT !.client = FALSE]
              IN  /\ r \in Claim /\ r.pc = claim[c].pc /\ r.ph = claim[c].ph /\ r.of = claim[c].of
                  /\ r.client = FALSE /\ r.dev = claim[c].dev
<1>1. NoClaim \in Claim
    BY DEF NoClaim, Claim, Device
<1>2. claim[c] \in Claim
    BY DEF TypeOK
<1>3. \A p \in Phones, q \in Pairings :
        LET r == [NoClaim EXCEPT !.pc = "sent", !.ph = p, !.of = q, !.client = TRUE]
        IN  r \in Claim /\ r.pc = "sent" /\ r.ph = p /\ r.of = q /\ r.client /\ r.dev = None
    BY DEF NoClaim, Claim, Device
<1>4. \A l \in {"expire", "create", "answered"} :
        LET r == [claim[c] EXCEPT !.pc = l]
        IN  /\ r \in Claim /\ r.pc = l /\ r.ph = claim[c].ph /\ r.of = claim[c].of
            /\ r.client = claim[c].client /\ r.dev = claim[c].dev
    BY <1>2 DEF Claim, Device
<1>5. \A d \in Devices :
        LET r == [claim[c] EXCEPT !.pc = "mark", !.dev = d]
        IN  /\ r \in Claim /\ r.pc = "mark" /\ r.ph = claim[c].ph /\ r.of = claim[c].of
            /\ r.client = claim[c].client /\ r.dev = d
    BY <1>2 DEF Claim, Device
<1>6. LET r == [claim[c] EXCEPT !.client = FALSE]
      IN  /\ r \in Claim /\ r.pc = claim[c].pc /\ r.ph = claim[c].ph /\ r.of = claim[c].of
          /\ r.client = FALSE /\ r.dev = claim[c].dev
    BY <1>2 DEF Claim, Device
<1> QED BY <1>1, <1>2, <1>3, <1>4, <1>5, <1>6

NoClaimFields == NoClaim.pc = "idle" /\ NoClaim.ph = None /\ NoClaim.of = None
                   /\ NoClaim.dev = None /\ ~NoClaim.client

LEMMA NothingClaimed == NoClaimFields /\ NoClaim \in Claim
BY DEF NoClaimFields, NoClaim, Claim, Device

-----------------------------------------------------------------------------

\* The types are kept by every step.
LEMMA TypeStep ==
    ASSUME TypeOK, ClaimsInv, [Next]_vars
    PROVE  TypeOK'
<1> USE DEF TypeOK
<1>1. ASSUME NEW q \in Pairings, Create(q) \/ Expires(q)
      PROVE  TypeOK'
    BY <1>1 DEF Create, Expires, historyVars
<1>2. ASSUME NEW c \in Claims, NEW p \in Phones, NEW q \in Pairings, StartClaim(c, p, q)
      PROVE  TypeOK'
  <2>1. claim' \in [Claims -> Claim]
      BY <1>2, Records, OneClaim DEF StartClaim
  <2> QED BY <1>2, <2>1 DEF StartClaim, pairingVars, historyVars
<1>3. ASSUME NEW c \in Claims, ClaimRead(c)
      PROVE  TypeOK'
  <2>1. claim[c].of \in Pairings
      BY <1>3 DEF ClaimRead, ClaimsInv, ClaimShape
  <2>2. claim' \in [Claims -> Claim]
      BY <1>3, Records, OneClaim DEF ClaimRead
  <2>3. disturbed' \in SUBSET Pairings
      BY <1>3, <2>1 DEF ClaimRead
  <2> QED BY <1>3, <2>2, <2>3 DEF ClaimRead, pairingVars
<1>4. ASSUME NEW c \in Claims, ClaimExpire(c)
      PROVE  TypeOK'
  <2>1. claim' \in [Claims -> Claim]
      BY <1>4, Records, OneClaim DEF ClaimExpire
  <2> QED BY <1>4, <2>1 DEF ClaimExpire, historyVars
<1>5. ASSUME NEW c \in Claims, NEW d \in Devices, CreateForPairing(c, d)
      PROVE  TypeOK'
  <2>1. claim' \in [Claims -> Claim] /\ claim[c].of \in Pairings \cup {None}
      BY <1>5, Records, OneClaim DEF CreateForPairing, Claim
  <2> QED BY <1>5, <2>1 DEF CreateForPairing, pairingVars
<1>6. ASSUME NEW c \in Claims, ClaimMark(c)
      PROVE  TypeOK'
  <2>1. claim[c].dev \in Devices
      BY <1>6 DEF ClaimMark, ClaimsInv, ClaimShape
  <2>2. claim' \in [Claims -> Claim]
      BY <1>6, Records, OneClaim DEF ClaimMark
  <2>3. status' \in [Pairings -> {"none", "PENDING", "CLAIMED", "EXPIRED"}]
        /\ claimedBy' \in [Pairings -> Device]
      BY <1>6, <2>1 DEF ClaimMark, Mark, Device
  <2>4. stranded' \in SUBSET Devices
      BY <1>6, <2>1 DEF ClaimMark
  <2> QED BY <1>6, <2>2, <2>3, <2>4 DEF ClaimMark
<1>7. ASSUME NEW c \in Claims, SavePairing(c)
      PROVE  TypeOK'
  <2>1. claim' \in [Claims -> Claim] /\ claim[c].dev \in Device
      BY <1>7, Records, OneClaim DEF SavePairing, Claim
  <2> QED BY <1>7, <2>1 DEF SavePairing, pairingVars, historyVars
<1>8. ASSUME NEW c \in Claims, ClaimFails(c)
      PROVE  TypeOK'
  <2>1. claim' \in [Claims -> Claim] /\ claim[c].dev \in Device /\ claim[c].of \in Pairings
      BY <1>8, Records, OneClaim DEF ClaimFails, Claim, ClaimsInv, ClaimShape
  <2>2. stranded' \in SUBSET Devices /\ disturbed' \in SUBSET Pairings
      BY <1>8, <2>1 DEF ClaimFails, Device
  <2> QED BY <1>8, <2>1, <2>2 DEF ClaimFails, pairingVars
<1>9. ASSUME NEW c \in Claims, ClaimAbandoned(c)
      PROVE  TypeOK'
  <2>1. claim' \in [Claims -> Claim]
      BY <1>9, Records, OneClaim DEF ClaimAbandoned
  <2> QED BY <1>9, <2>1 DEF ClaimAbandoned, pairingVars, historyVars
<1>10. ASSUME NEW p \in Phones, ClearPairing(p)
       PROVE  TypeOK'
    BY <1>10 DEF ClearPairing, pairingVars, Device
<1>11. ASSUME NEW d \in Devices, Remove(d)
       PROVE  TypeOK'
    BY <1>11 DEF Remove, pairingVars, historyVars
<1>12. CASE UNCHANGED vars
    BY <1>12 DEF vars, pairingVars, historyVars
<1> QED BY <1>1, <1>2, <1>3, <1>4, <1>5, <1>6, <1>7, <1>8, <1>9, <1>10, <1>11, <1>12 DEF Next

-----------------------------------------------------------------------------

\* A claim that ends is no claim any more, and the others are what they were.
LEMMA ClaimEnds ==
    ASSUME TypeOK, ClaimsInv, NEW c \in Claims, ClaimTo(c, NoClaim),
           \A o \in Claims : o # c => madeOf'[claim[o].dev] = madeOf[claim[o].dev]
    PROVE  ClaimShape'
<1>1. claim'[c] = NoClaim /\ \A o \in Claims : o # c => claim'[o] = claim[o]
    BY NothingClaimed, OneClaim
<1> QED BY <1>1, NothingClaimed DEF NoClaimFields, ClaimsInv, ClaimShape

\* Devices go from the backend to one claim and from the claim to one phone.
LEMMA ClaimsStep ==
    ASSUME TypeOK, ClaimsInv, [Next]_vars, TypeOK'
    PROVE  ClaimsInv'
<1> USE DEF ClaimsInv
<1>0. \A c \in Claims : claim[c] \in Claim
    BY DEF TypeOK
<1>1. ASSUME UNCHANGED <<claim, row, id, madeOf, stranded>>
      PROVE  ClaimsInv'
    BY <1>1 DEF ClaimShape, Waiting, Held, HeldOnce
<1>2. ASSUME NEW q \in Pairings, Create(q) \/ Expires(q)
      PROVE  ClaimsInv'
    BY <1>1, <1>2 DEF Create, Expires, historyVars
<1>3. ASSUME NEW c \in Claims, NEW p \in Phones, NEW q \in Pairings, StartClaim(c, p, q)
      PROVE  ClaimsInv'
  <2> DEFINE r == [NoClaim EXCEPT !.pc = "sent", !.ph = p, !.of = q, !.client = TRUE]
  <2>1. /\ claim'[c] = r /\ r.pc = "sent" /\ r.ph = p /\ r.of = q /\ r.client /\ r.dev = None
        /\ \A o \in Claims : o # c => claim'[o] = claim[o]
    <3>1. r \in Claim /\ r.pc = "sent" /\ r.ph = p /\ r.of = q /\ r.client /\ r.dev = None
        BY DEF NoClaim, Claim, Device
    <3>2. ClaimTo(c, r)
        BY <1>3 DEF StartClaim
    <3> HIDE DEF r
    <3> QED BY <3>1, <3>2, OneClaim
  <2>2. UNCHANGED <<row, id, madeOf, stranded>> /\ claim[c] = NoClaim /\ id[p] = None
        /\ \A o \in Claims : ~(claim[o].client /\ claim[o].ph = p)
      BY <1>3 DEF StartClaim, ClaimShape, historyVars
  <2> HIDE DEF r
  <2>3. ClaimShape'
      BY <2>1, <2>2, NothingClaimed DEF ClaimShape, NoClaimFields
  <2>4. Waiting'
      BY <2>1, <2>2 DEF Waiting
  <2>5. Held'
      BY <2>1, <2>2 DEF Held
  <2>6. HeldOnce'
      BY <2>1, <2>2, NothingClaimed, NoneIsNew DEF HeldOnce, NoClaimFields
  <2> QED BY <2>3, <2>4, <2>5, <2>6
<1>4. ASSUME NEW c \in Claims, NEW l \in {"expire", "create", "answered"},
             ClaimTo(c, [claim[c] EXCEPT !.pc = l]),
             claim[c].pc # "idle",
             \/ claim[c].pc = "sent" /\ l # "answered"
             \/ claim[c].pc = "mark" /\ l = "answered" /\ claim[c].client,
             UNCHANGED <<row, id, madeOf, stranded>>
      PROVE  ClaimsInv'
  <2> DEFINE r == [claim[c] EXCEPT !.pc = l]
  <2>1. /\ claim'[c] = r /\ r.pc = l /\ r.ph = claim[c].ph /\ r.of = claim[c].of
        /\ r.client = claim[c].client /\ r.dev = claim[c].dev
        /\ \A o \in Claims : o # c => claim'[o] = claim[o]
    <3>1. /\ r \in Claim /\ r.pc = l /\ r.ph = claim[c].ph /\ r.of = claim[c].of
          /\ r.client = claim[c].client /\ r.dev = claim[c].dev
        BY Records
    <3>2. ClaimTo(c, r)
        BY <1>4
    <3> HIDE DEF r
    <3> QED BY <3>1, <3>2, OneClaim
  <2> HIDE DEF r
  <2>3. ClaimShape'
      BY <1>4, <2>1, NothingClaimed DEF ClaimShape, NoClaimFields
  <2>4. Waiting'
      BY <1>4, <2>1 DEF Waiting
  <2>5. Held'
      BY <1>4, <2>1 DEF Held
  <2>6. HeldOnce'
      BY <1>4, <2>1 DEF HeldOnce
  <2> QED BY <2>3, <2>4, <2>5, <2>6
<1>5. ASSUME NEW c \in Claims, ClaimTo(c, NoClaim), UNCHANGED <<row, id, madeOf>>,
             stranded \subseteq stranded',
             claim[c].dev # None => claim[c].dev \in stranded'
      PROVE  ClaimsInv'
  <2>1. claim'[c] = NoClaim /\ \A o \in Claims : o # c => claim'[o] = claim[o]
      BY <1>5, NothingClaimed, OneClaim
  <2>2. ClaimShape'
      BY <1>5, ClaimEnds
  <2>3. Waiting'
      BY <1>5, <2>1, NothingClaimed DEF Waiting, NoClaimFields
  <2>4. Held'
      BY <1>5, <2>1, NothingClaimed DEF Held, NoClaimFields
  <2>5. HeldOnce'
      BY <1>5, <2>1, NoneIsNew DEF HeldOnce
  <2> QED BY <2>2, <2>3, <2>4, <2>5
<1>6. ASSUME NEW c \in Claims, ClaimRead(c)
      PROVE  ClaimsInv'
  <2>1. claim[c].pc = "sent" /\ claim[c].dev = None /\ UNCHANGED <<row, id, madeOf, stranded>>
      BY <1>6 DEF ClaimRead, ClaimShape
  <2>2. CASE ~Claimable(claim[c].of)
      BY <1>5, <1>6, <2>1, <2>2 DEF ClaimRead
  <2>3. CASE Claimable(claim[c].of)
    <3>1. CASE claim[c].of \in aged
      <4>1. ClaimTo(c, [claim[c] EXCEPT !.pc = "expire"])
          BY <1>6, <2>3, <3>1 DEF ClaimRead
      <4> QED BY <1>4, <2>1, <4>1
    <3>2. CASE claim[c].of \notin aged
      <4>1. ClaimTo(c, [claim[c] EXCEPT !.pc = "create"])
          BY <1>6, <2>3, <3>2 DEF ClaimRead
      <4> QED BY <1>4, <2>1, <4>1
    <3> QED BY <3>1, <3>2
  <2> QED BY <2>2, <2>3
<1>7. ASSUME NEW c \in Claims, ClaimExpire(c)
      PROVE  ClaimsInv'
  <2>1. claim[c].dev = None
      BY <1>7 DEF ClaimExpire, ClaimShape
  <2> QED BY <1>5, <1>7, <2>1 DEF ClaimExpire, historyVars
<1>8. ASSUME NEW c \in Claims, NEW d \in Devices, CreateForPairing(c, d)
      PROVE  ClaimsInv'
  <2> DEFINE r == [claim[c] EXCEPT !.pc = "mark", !.dev = d]
  <2>1. /\ claim'[c] = r /\ r.pc = "mark" /\ r.ph = claim[c].ph /\ r.of = claim[c].of
        /\ r.client = claim[c].client /\ r.dev = d
        /\ \A o \in Claims : o # c => claim'[o] = claim[o]
    <3>1. /\ r \in Claim /\ r.pc = "mark" /\ r.ph = claim[c].ph /\ r.of = claim[c].of
          /\ r.client = claim[c].client /\ r.dev = d
        BY Records
    <3>2. ClaimTo(c, r)
        BY <1>8 DEF CreateForPairing
    <3> HIDE DEF r
    <3> QED BY <3>1, <3>2, OneClaim
  <2> HIDE DEF r
  <2>2. /\ claim[c].pc = "create" /\ row[d] = "none"
        /\ row' = [row EXCEPT ![d] = "present"]
        /\ madeOf' = [madeOf EXCEPT ![d] = claim[c].of]
        /\ UNCHANGED <<id, stranded>>
      BY <1>8 DEF CreateForPairing, Fresh
  <2>3. /\ row'[d] = "present" /\ \A e \in Devices \ {d} : row'[e] = row[e] /\ madeOf'[e] = madeOf[e]
        /\ madeOf'[d] = claim[c].of
      BY <2>2 DEF TypeOK
  <2>4. /\ \A o \in Claims : claim[o].dev # d
        /\ \A p \in Phones : id[p] # d
        /\ \A o \in Claims : claim[o].dev # None => claim[o].dev \in Devices \ {d}
        /\ \A p \in Phones : id[p] # None => id[p] \in Devices \ {d}
        /\ d # None
      BY <1>0, <2>2, NoneIsNew DEF Held, TypeOK, Claim, Device
  <2>5. ClaimShape'
      BY <1>0, <2>1, <2>2, <2>3, <2>4, NothingClaimed, NoneIsNew DEF ClaimShape, NoClaimFields
  <2>6. Waiting'
      BY <2>1, <2>2 DEF Waiting
  <2>7. Held'
      BY <2>1, <2>2, <2>3, <2>4 DEF Held
  <2>8. HeldOnce'
    <3>1. claim[c].dev = None
        BY <2>2 DEF ClaimShape
    <3>2. ASSUME NEW e \in Devices, row'[e] # "none", e \notin stranded'
          PROVE  (\E p \in Phones : id'[p] = e) \/ \E o \in Claims : claim'[o].dev = e
      <4>1. CASE e = d
          BY <2>1, <4>1
      <4>2. CASE e # d
          BY <2>1, <2>2, <2>3, <3>1, <3>2, <4>2, NoneIsNew DEF HeldOnce
      <4> QED BY <4>1, <4>2
    <3> QED BY <2>2, <3>2 DEF HeldOnce
  <2> QED BY <2>5, <2>6, <2>7, <2>8
<1>9. ASSUME NEW c \in Claims, ClaimMark(c)
      PROVE  ClaimsInv'
  <2>1. claim[c].pc = "mark" /\ UNCHANGED <<row, id, madeOf>> /\ claim[c].of \in Pairings
      BY <1>9 DEF ClaimMark, ClaimShape
  <2>2. CASE claim[c].client
    <3>1. ClaimTo(c, [claim[c] EXCEPT !.pc = "answered"]) /\ UNCHANGED stranded
        BY <1>9, <2>2 DEF ClaimMark
    <3> QED BY <1>4, <2>1, <2>2, <3>1
  <2>3. CASE ~claim[c].client
    <3>1. ClaimTo(c, NoClaim) /\ stranded' = stranded \cup {claim[c].dev}
        BY <1>9, <2>3 DEF ClaimMark
    <3> QED BY <1>5, <2>1, <3>1
  <2> QED BY <2>2, <2>3
<1>10. ASSUME NEW c \in Claims, SavePairing(c)
       PROVE  ClaimsInv'
  <2> DEFINE p == claim[c].ph
  <2>1. /\ claim[c].pc = "answered" /\ claim[c].client /\ claim[c].dev \in Devices
        /\ claim[c].dev # None /\ p \in Phones /\ id[p] = None
        /\ id' = [id EXCEPT ![p] = claim[c].dev]
        /\ ClaimTo(c, NoClaim)
        /\ UNCHANGED <<row, madeOf, stranded>>
      BY <1>10, NoneIsNew DEF SavePairing, ClaimShape, Waiting, historyVars
  <2> HIDE DEF p
  <2>2. claim'[c] = NoClaim /\ \A o \in Claims : o # c => claim'[o] = claim[o]
      BY <2>1, NothingClaimed, OneClaim
  <2>3. id'[p] = claim[c].dev /\ \A s \in Phones : s # p => id'[s] = id[s]
      BY <2>1 DEF TypeOK
  <2>4. ClaimShape'
      BY <2>1, ClaimEnds
  <2>5. Waiting'
    <3>1. \A o \in Claims : o # c /\ claim[o].client => claim[o].ph # p
        BY <2>1 DEF Waiting, p
    <3>2. \A o \in Claims : o # c /\ claim[o].client => claim[o].ph \in Phones
        BY NothingClaimed DEF ClaimShape, NoClaimFields
    <3> QED BY <2>2, <2>3, <3>1, <3>2, NothingClaimed DEF Waiting, NoClaimFields
  <2>6. Held'
      BY <2>1, <2>2, <2>3, NothingClaimed DEF Held, NoClaimFields
  <2>7. HeldOnce'
    <3>1. ASSUME NEW e \in Devices, row'[e] # "none", e \notin stranded'
          PROVE  (\E s \in Phones : id'[s] = e) \/ \E o \in Claims : claim'[o].dev = e
      <4>1. CASE e = claim[c].dev
          BY <2>1, <2>3, <4>1
      <4>2. CASE e # claim[c].dev
        <5>1. (\E s \in Phones : id[s] = e) \/ \E o \in Claims : claim[o].dev = e
            BY <2>1, <3>1 DEF HeldOnce
        <5> QED BY <2>1, <2>2, <2>3, <4>2, <5>1, NoneIsNew
      <4> QED BY <4>1, <4>2
    <3>2. ASSUME NEW s \in Phones, NEW t \in Phones, id'[s] = id'[t], id'[s] # None
          PROVE  s = t
        BY <2>1, <2>3, <3>2 DEF Held, HeldOnce
    <3> QED BY <3>1, <3>2 DEF HeldOnce
  <2> QED BY <2>4, <2>5, <2>6, <2>7
<1>11. ASSUME NEW c \in Claims, ClaimFails(c)
       PROVE  ClaimsInv'
    BY <1>5, <1>11 DEF ClaimFails, pairingVars
<1>12. ASSUME NEW c \in Claims, ClaimAbandoned(c)
       PROVE  ClaimsInv'
  <2> DEFINE r == [claim[c] EXCEPT !.client = FALSE]
  <2>1. /\ claim'[c] = r /\ r.pc = claim[c].pc /\ r.ph = claim[c].ph /\ r.of = claim[c].of
        /\ r.client = FALSE /\ r.dev = claim[c].dev
        /\ \A o \in Claims : o # c => claim'[o] = claim[o]
    <3>1. /\ r \in Claim /\ r.pc = claim[c].pc /\ r.ph = claim[c].ph /\ r.of = claim[c].of
          /\ r.client = FALSE /\ r.dev = claim[c].dev
        BY Records
    <3>2. ClaimTo(c, r)
        BY <1>12 DEF ClaimAbandoned
    <3> HIDE DEF r
    <3> QED BY <3>1, <3>2, OneClaim
  <2>2. UNCHANGED <<row, id, madeOf, stranded>> /\ claim[c].pc # "answered" /\ claim[c].pc # "idle"
      BY <1>12, NothingClaimed DEF ClaimAbandoned, historyVars, ClaimShape, NoClaimFields
  <2> HIDE DEF r
  <2>3. ClaimShape'
      BY <2>1, <2>2, NothingClaimed DEF ClaimShape, NoClaimFields
  <2>4. Waiting'
      BY <2>1, <2>2 DEF Waiting
  <2>5. Held'
      BY <2>1, <2>2 DEF Held
  <2>6. HeldOnce'
      BY <2>1, <2>2 DEF HeldOnce
  <2> QED BY <2>3, <2>4, <2>5, <2>6
<1>13. ASSUME NEW p \in Phones, ClearPairing(p)
       PROVE  ClaimsInv'
  <2>1. /\ id[p] # None /\ id' = [id EXCEPT ![p] = None] /\ stranded' = stranded \cup {id[p]}
        /\ UNCHANGED <<row, claim, madeOf>>
      BY <1>13 DEF ClearPairing
  <2>2. id'[p] = None /\ \A s \in Phones : s # p => id'[s] = id[s]
      BY <2>1 DEF TypeOK
  <2>3. ClaimShape'
      BY <2>1 DEF ClaimShape
  <2>4. Waiting'
    <3>1. \A c \in Claims : claim[c].client => claim[c].ph \in Phones
        BY NothingClaimed DEF ClaimShape, NoClaimFields
    <3> QED BY <2>1, <2>2, <3>1 DEF Waiting
  <2>5. Held'
      BY <2>1, <2>2 DEF Held
  <2>6. HeldOnce'
      BY <2>1, <2>2 DEF HeldOnce
  <2> QED BY <2>3, <2>4, <2>5, <2>6
<1>14. ASSUME NEW d \in Devices, Remove(d)
       PROVE  ClaimsInv'
  <2>1. /\ row[d] = "present" /\ row' = [row EXCEPT ![d] = "removed"]
        /\ UNCHANGED <<claim, id, madeOf, stranded>>
      BY <1>14 DEF Remove, historyVars
  <2>2. \A e \in Devices : row'[e] = "none" <=> row[e] = "none"
      BY <2>1 DEF TypeOK
  <2>3. ClaimShape' /\ Waiting'
      BY <2>1 DEF ClaimShape, Waiting
  <2>4. Held'
    <3>1. \A c \in Claims : claim[c].dev # None => claim[c].dev \in Devices
        BY <1>0 DEF Claim, Device
    <3>2. \A p \in Phones : id[p] # None => id[p] \in Devices
        BY DEF TypeOK, Device
    <3> QED BY <2>1, <2>2, <3>1, <3>2 DEF Held
  <2>5. HeldOnce'
      BY <2>1, <2>2 DEF HeldOnce
  <2> QED BY <2>3, <2>4, <2>5
<1>15. CASE UNCHANGED vars
    BY <1>1, <1>15 DEF vars, historyVars
<1> QED BY <1>2, <1>3, <1>6, <1>7, <1>8, <1>9, <1>10, <1>11, <1>12, <1>13, <1>14, <1>15 DEF Next

-----------------------------------------------------------------------------

\* A pairing that was not disturbed names the device it made.
LEMMA PairingsStep ==
    ASSUME TypeOK, ClaimsInv, PairingsInv, PairingTruthful, [Next]_vars, TypeOK'
    PROVE  PairingsInv' /\ PairingTruthful'
<1>0. \A c \in Claims : claim[c] \in Claim
    BY DEF TypeOK
<1>1. ASSUME disturbed \subseteq disturbed',
             NEW r \in Pairings,
             \A q \in Pairings \ disturbed' : q # r =>
                /\ \A o \in Claims : Deciding(o, q)' => Deciding(o, q) /\ claim'[o] = claim[o]
                /\ \A o \in Claims : Deciding(o, q) => Deciding(o, q)'
                /\ status'[q] = status[q] /\ claimedBy'[q] = claimedBy[q] /\ MadeOf(q)' = MadeOf(q),
             r \notin disturbed' =>
                /\ \A c, o \in Claims : Deciding(c, r)' /\ Deciding(o, r)' => c = o
                /\ \A c \in Claims : Deciding(c, r)' =>
                      /\ status'[r] = "PENDING"
                      /\ MadeOf(r)' = IF claim'[c].pc = "mark" THEN {claim'[c].dev} ELSE {}
                /\ (\A c \in Claims : ~Deciding(c, r)') =>
                      MadeOf(r)' = IF status'[r] = "CLAIMED" THEN {claimedBy'[r]} ELSE {}
      PROVE  PairingsInv' /\ PairingTruthful'
  <2>1. ASSUME NEW q \in Pairings \ disturbed', q # r
        PROVE  /\ \A c, o \in Claims : Deciding(c, q)' /\ Deciding(o, q)' => c = o
               /\ \A c \in Claims : Deciding(c, q)' =>
                     /\ status'[q] = "PENDING"
                     /\ MadeOf(q)' = IF claim'[c].pc = "mark" THEN {claim'[c].dev} ELSE {}
               /\ (\A c \in Claims : ~Deciding(c, q)') =>
                     MadeOf(q)' = IF status'[q] = "CLAIMED" THEN {claimedBy'[q]} ELSE {}
    <3>1. q \in Pairings \ disturbed
        BY <1>1, <2>1
    <3>2. /\ \A o \in Claims : Deciding(o, q)' => Deciding(o, q) /\ claim'[o] = claim[o]
          /\ \A o \in Claims : Deciding(o, q) => Deciding(o, q)'
          /\ status'[q] = status[q] /\ claimedBy'[q] = claimedBy[q] /\ MadeOf(q)' = MadeOf(q)
        BY <1>1, <2>1
    <3>3. \A c, o \in Claims : Deciding(c, q)' /\ Deciding(o, q)' => c = o
        BY <3>1, <3>2 DEF PairingsInv
    <3>4. \A c \in Claims : Deciding(c, q)' =>
             /\ status'[q] = "PENDING"
             /\ MadeOf(q)' = IF claim'[c].pc = "mark" THEN {claim'[c].dev} ELSE {}
        BY <3>1, <3>2 DEF PairingsInv
    <3>5. (\A c \in Claims : ~Deciding(c, q)') =>
             MadeOf(q)' = IF status'[q] = "CLAIMED" THEN {claimedBy'[q]} ELSE {}
        BY <3>1, <3>2 DEF PairingTruthful, getStatus
    <3> QED BY <3>3, <3>4, <3>5
  <2>2. PairingsInv'
      BY <1>1, <2>1 DEF PairingsInv
  <2>3. PairingTruthful'
      BY <1>1, <2>1 DEF PairingTruthful, getStatus
  <2> QED BY <2>2, <2>3
<1>2. ASSUME UNCHANGED <<status, claimedBy, madeOf, disturbed>>,
             \A q \in Pairings, o \in Claims :
                /\ Deciding(o, q)' <=> Deciding(o, q)
                /\ Deciding(o, q) => claim'[o].pc = claim[o].pc /\ claim'[o].dev = claim[o].dev
      PROVE  PairingsInv' /\ PairingTruthful'
  <2>1. \A q \in Pairings : MadeOf(q)' = MadeOf(q)
      BY <1>2 DEF MadeOf
  <2>2. PairingsInv'
      BY <1>2, <2>1 DEF PairingsInv
  <2>3. PairingTruthful'
      BY <1>2, <2>1 DEF PairingTruthful, getStatus
  <2> QED BY <2>2, <2>3
<1>3. ASSUME UNCHANGED <<status, claimedBy, madeOf, disturbed, claim>>
      PROVE  PairingsInv' /\ PairingTruthful'
    BY <1>2, <1>3 DEF Deciding
<1>4. ASSUME NEW q \in Pairings, Create(q)
      PROVE  PairingsInv' /\ PairingTruthful'
  <2>1. /\ status[q] = "none" /\ status' = [status EXCEPT ![q] = "PENDING"]
        /\ UNCHANGED <<claimedBy, claim, madeOf, disturbed>>
      BY <1>4 DEF Create, historyVars
  <2>2. \A o \in Claims, r \in Pairings : Deciding(o, r)' <=> Deciding(o, r)
      BY <2>1 DEF Deciding
  <2>3. \A r \in Pairings : MadeOf(r)' = MadeOf(r)
      BY <2>1 DEF MadeOf
  <2>4. status'[q] = "PENDING" /\ \A r \in Pairings : r # q => status'[r] = status[r]
      BY <2>1 DEF TypeOK
  <2>5. q \notin disturbed => MadeOf(q) = {} /\ \A o \in Claims : ~Deciding(o, q)
      BY <2>1 DEF PairingsInv, PairingTruthful, getStatus
  <2> QED BY <1>1, <2>1, <2>2, <2>3, <2>4, <2>5
<1>5. ASSUME NEW q \in Pairings, Expires(q)
      PROVE  PairingsInv' /\ PairingTruthful'
    BY <1>3, <1>5 DEF Expires, historyVars
<1>6. ASSUME NEW c \in Claims, NEW p \in Phones, NEW q \in Pairings, StartClaim(c, p, q)
      PROVE  PairingsInv' /\ PairingTruthful'
  <2> DEFINE r == [NoClaim EXCEPT !.pc = "sent", !.ph = p, !.of = q, !.client = TRUE]
  <2>1. r \in Claim /\ r.pc = "sent"
      BY DEF NoClaim, Claim, Device
  <2>2. ClaimTo(c, r) /\ claim[c].pc = "idle" /\ UNCHANGED <<status, claimedBy, madeOf, disturbed>>
      BY <1>6 DEF StartClaim, pairingVars, historyVars
  <2> HIDE DEF r
  <2>3. claim'[c] = r /\ \A o \in Claims : o # c => claim'[o] = claim[o]
      BY <2>1, <2>2, OneClaim
  <2> QED BY <1>2, <2>1, <2>2, <2>3 DEF Deciding
<1>7. ASSUME NEW c \in Claims, ClaimRead(c)
      PROVE  PairingsInv' /\ PairingTruthful'
  <2>0. PICK q \in Pairings : q = claim[c].of
      BY <1>7, NothingClaimed DEF ClaimRead, NoClaimFields, ClaimsInv, ClaimShape
  <2>1. claim[c].pc = "sent" /\ UNCHANGED <<status, claimedBy, madeOf>> /\ q \in Pairings
      BY <1>7 DEF ClaimRead, pairingVars, ClaimsInv, ClaimShape
  <2>2. CASE ~Claimable(q)
    <3>1. ClaimTo(c, NoClaim) /\ UNCHANGED disturbed
        BY <2>0, <1>7, <2>2 DEF ClaimRead
    <3>2. claim'[c] = NoClaim /\ \A o \in Claims : o # c => claim'[o] = claim[o]
        BY <3>1, NothingClaimed, OneClaim
    <3> QED BY <1>2, <2>1, <3>1, <3>2, NothingClaimed DEF Deciding, NoClaimFields
  <2>3. CASE Claimable(q)
    <3> DEFINE l == IF q \in aged THEN "expire" ELSE "create"
    <3> DEFINE r == [claim[c] EXCEPT !.pc = l]
    <3>1. ClaimTo(c, r) /\ disturbed' = disturbed \cup {s \in {q} : \E o \in Claims \ {c} : Deciding(o, s)}
        BY <2>0, <1>7, <2>3 DEF ClaimRead
    <3>2. l \in {"expire", "create"}
        OBVIOUS
    <3> HIDE DEF l
    <3>3. r \in Claim /\ r.pc = l /\ r.of = q
        BY <2>0, <3>2, <1>0 DEF Claim
    <3> HIDE DEF r
    <3>4. claim'[c] = r /\ \A o \in Claims : o # c => claim'[o] = claim[o]
        BY <3>1, <3>3, OneClaim
    <3>5. \A s \in Pairings : MadeOf(s)' = MadeOf(s)
        BY <2>1 DEF MadeOf
    <3>6. \A s \in Pairings, o \in Claims :
             s # q => (Deciding(o, s)' <=> Deciding(o, s)) /\ (Deciding(o, s) => claim'[o] = claim[o])
        BY <2>0, <3>3, <3>4 DEF Deciding
    <3>7. disturbed \subseteq disturbed'
        BY <3>1
    <3>8. ASSUME q \notin disturbed'
          PROVE  /\ \A d, o \in Claims : Deciding(d, q)' /\ Deciding(o, q)' => d = o
                 /\ \A d \in Claims : Deciding(d, q)' =>
                       /\ status'[q] = "PENDING"
                       /\ MadeOf(q)' = IF claim'[d].pc = "mark" THEN {claim'[d].dev} ELSE {}
                 /\ (\A d \in Claims : ~Deciding(d, q)') =>
                       MadeOf(q)' = IF status'[q] = "CLAIMED" THEN {claimedBy'[q]} ELSE {}
      <4>1. q \notin disturbed /\ \A o \in Claims \ {c} : ~Deciding(o, q)
          BY <3>1, <3>8
      <4>2. \A o \in Claims : ~Deciding(o, q)
          BY <2>1, <4>1 DEF Deciding
      <4>3. status[q] = "PENDING"
          BY <2>3 DEF Claimable
      <4>4. MadeOf(q) = {}
          BY <2>1, <4>1, <4>2, <4>3 DEF PairingTruthful, getStatus
      <4>5. \A o \in Claims : Deciding(o, q)' => o = c
          BY <3>4, <4>1 DEF Deciding
      <4>6. Deciding(c, q)'
          BY <3>2, <3>3, <3>4 DEF Deciding
      <4> QED BY <2>1, <3>2, <3>3, <3>4, <3>5, <4>3, <4>4, <4>5, <4>6
    <3> QED BY <1>1, <2>1, <3>5, <3>6, <3>7, <3>8
  <2> QED BY <2>2, <2>3
<1>8. ASSUME NEW c \in Claims, ClaimExpire(c)
      PROVE  PairingsInv' /\ PairingTruthful'
  <2>0. PICK q \in Pairings : q = claim[c].of
      BY <1>8, NothingClaimed DEF ClaimExpire, NoClaimFields, ClaimsInv, ClaimShape
  <2>1. /\ claim[c].pc = "expire" /\ status' = [status EXCEPT ![q] = "EXPIRED"]
        /\ ClaimTo(c, NoClaim) /\ UNCHANGED <<claimedBy, madeOf, disturbed>> /\ q \in Pairings
      BY <2>0, <1>8 DEF ClaimExpire, historyVars, ClaimsInv, ClaimShape
  <2>2. claim'[c] = NoClaim /\ \A o \in Claims : o # c => claim'[o] = claim[o]
      BY <2>1, NothingClaimed, OneClaim
  <2>3. status'[q] = "EXPIRED" /\ \A s \in Pairings : s # q => status'[s] = status[s]
      BY <2>1 DEF TypeOK
  <2>4. \A s \in Pairings : MadeOf(s)' = MadeOf(s)
      BY <2>1 DEF MadeOf
  <2>5. ~Deciding(c, q)' /\ \A s \in Pairings, o \in Claims :
           s # q => (Deciding(o, s)' <=> Deciding(o, s)) /\ (Deciding(o, s) => claim'[o] = claim[o])
      BY <2>0, <2>1, <2>2, NothingClaimed DEF Deciding, NoClaimFields
  <2>6. q \notin disturbed => MadeOf(q) = {} /\ \A o \in Claims : ~Deciding(o, q)'
      BY <2>0, <2>1, <2>2, <2>5 DEF PairingsInv, Deciding
  <2> QED BY <1>1, <2>1, <2>3, <2>4, <2>5, <2>6
<1>9. ASSUME NEW c \in Claims, NEW d \in Devices, CreateForPairing(c, d)
      PROVE  PairingsInv' /\ PairingTruthful'
  <2>0. PICK q \in Pairings : q = claim[c].of
      BY <1>9, NothingClaimed DEF CreateForPairing, NoClaimFields, ClaimsInv, ClaimShape
  <2> DEFINE r == [claim[c] EXCEPT !.pc = "mark", !.dev = d]
  <2>1. /\ claim[c].pc = "create" /\ row[d] = "none" /\ madeOf' = [madeOf EXCEPT ![d] = q]
        /\ ClaimTo(c, r) /\ UNCHANGED <<status, claimedBy, disturbed>> /\ q \in Pairings
      BY <2>0, <1>9 DEF CreateForPairing, Fresh, pairingVars, ClaimsInv, ClaimShape
  <2>2. r \in Claim /\ r.pc = "mark" /\ r.of = q /\ r.dev = d
    <3>1. claim[c] \in Claim
        BY DEF TypeOK
    <3> QED BY <2>0, <3>1 DEF Claim, Device
  <2> HIDE DEF r
  <2>3. claim'[c] = r /\ \A o \in Claims : o # c => claim'[o] = claim[o]
      BY <2>1, <2>2, OneClaim
  <2>4. madeOf[d] = None /\ madeOf'[d] = q /\ \A e \in Devices : e # d => madeOf'[e] = madeOf[e]
      BY <2>1 DEF ClaimsInv, Held, TypeOK
  <2>5. MadeOf(q)' = MadeOf(q) \cup {d} /\ \A s \in Pairings : s # q => MadeOf(s)' = MadeOf(s)
      BY <2>4, NoneIsNew DEF MadeOf
  <2>6. /\ Deciding(c, q) /\ Deciding(c, q)'
        /\ \A o \in Claims : o # c => (Deciding(o, q)' <=> Deciding(o, q))
        /\ \A s \in Pairings, o \in Claims :
              s # q => (Deciding(o, s)' <=> Deciding(o, s)) /\ (Deciding(o, s) => claim'[o] = claim[o])
      BY <2>0, <2>1, <2>2, <2>3 DEF Deciding
  <2>7. q \notin disturbed =>
          /\ MadeOf(q) = {} /\ status[q] = "PENDING" /\ \A o \in Claims : Deciding(o, q)' => o = c
      BY <2>1, <2>6 DEF PairingsInv
  <2> QED BY <1>1, <2>1, <2>2, <2>3, <2>5, <2>6, <2>7
<1>10. ASSUME NEW c \in Claims, ClaimMark(c)
       PROVE  PairingsInv' /\ PairingTruthful'
  <2>0. PICK q \in Pairings : q = claim[c].of
      BY <1>10, NothingClaimed DEF ClaimMark, NoClaimFields, ClaimsInv, ClaimShape
  <2>1. /\ claim[c].pc = "mark" /\ q \in Pairings /\ claim[c].dev \in Devices
        /\ status' = [status EXCEPT ![q] = "CLAIMED"]
        /\ claimedBy' = [claimedBy EXCEPT ![q] = claim[c].dev]
        /\ UNCHANGED <<madeOf, disturbed>>
      BY <2>0, <1>10 DEF ClaimMark, Mark, ClaimsInv, ClaimShape
  <2>2. claim'[c].pc \in {"answered", "idle"} /\ \A o \in Claims : o # c => claim'[o] = claim[o]
    <3>1. CASE claim[c].client
      <4>1. ClaimTo(c, [claim[c] EXCEPT !.pc = "answered"])
          BY <1>10, <3>1 DEF ClaimMark
      <4>2. [claim[c] EXCEPT !.pc = "answered"] \in Claim
          BY Records
      <4>3. [claim[c] EXCEPT !.pc = "answered"].pc = "answered"
          BY <1>0 DEF Claim
      <4> QED BY <4>1, <4>2, <4>3, OneClaim
    <3>2. CASE ~claim[c].client
      <4>1. ClaimTo(c, NoClaim)
          BY <1>10, <3>2 DEF ClaimMark
      <4> QED BY <4>1, NothingClaimed, OneClaim DEF NoClaimFields
    <3> QED BY <3>1, <3>2
  <2>3. /\ status'[q] = "CLAIMED" /\ \A s \in Pairings : s # q => status'[s] = status[s]
        /\ claimedBy'[q] = claim[c].dev /\ \A s \in Pairings : s # q => claimedBy'[s] = claimedBy[s]
      BY <2>1 DEF TypeOK
  <2>4. \A s \in Pairings : MadeOf(s)' = MadeOf(s)
      BY <2>1 DEF MadeOf
  <2>5. /\ Deciding(c, q) /\ ~Deciding(c, q)'
        /\ \A o \in Claims : o # c => (Deciding(o, q)' <=> Deciding(o, q))
        /\ \A s \in Pairings, o \in Claims :
              s # q => (Deciding(o, s)' <=> Deciding(o, s)) /\ (Deciding(o, s) => claim'[o] = claim[o])
      BY <2>0, <2>1, <2>2 DEF Deciding
  <2>6. q \notin disturbed =>
          MadeOf(q) = {claim[c].dev} /\ \A o \in Claims : ~Deciding(o, q)'
      BY <2>1, <2>5 DEF PairingsInv
  <2> QED BY <1>1, <2>1, <2>3, <2>4, <2>5, <2>6
<1>11. ASSUME NEW c \in Claims, SavePairing(c)
       PROVE  PairingsInv' /\ PairingTruthful'
  <2>1. /\ claim[c].pc = "answered" /\ ClaimTo(c, NoClaim)
        /\ UNCHANGED <<status, claimedBy, madeOf, disturbed>>
      BY <1>11 DEF SavePairing, pairingVars, historyVars
  <2>2. claim'[c] = NoClaim /\ \A o \in Claims : o # c => claim'[o] = claim[o]
      BY <2>1, NothingClaimed, OneClaim
  <2> QED BY <1>2, <2>1, <2>2, NothingClaimed DEF Deciding, NoClaimFields
<1>12. ASSUME NEW c \in Claims, ClaimFails(c)
       PROVE  PairingsInv' /\ PairingTruthful'
  <2>0. PICK q \in Pairings : q = claim[c].of
      BY <1>12, NothingClaimed DEF ClaimFails, NoClaimFields, ClaimsInv, ClaimShape
  <2>1. /\ claim[c].pc # "idle" /\ ClaimTo(c, NoClaim) /\ q \in Pairings
        /\ disturbed' = disturbed \cup {s \in {q} : claim[c].pc = "mark"}
        /\ UNCHANGED <<status, claimedBy, madeOf>>
      BY <2>0, <1>12 DEF ClaimFails, pairingVars, ClaimsInv, ClaimShape
  <2>2. claim'[c] = NoClaim /\ \A o \in Claims : o # c => claim'[o] = claim[o]
      BY <2>1, NothingClaimed, OneClaim
  <2>3. \A s \in Pairings : MadeOf(s)' = MadeOf(s)
      BY <2>1 DEF MadeOf
  <2>4. /\ ~Deciding(c, q)'
        /\ \A o \in Claims : o # c => (Deciding(o, q)' <=> Deciding(o, q)) /\ claim'[o] = claim[o]
        /\ \A s \in Pairings, o \in Claims :
              s # q => (Deciding(o, s)' <=> Deciding(o, s)) /\ (Deciding(o, s) => claim'[o] = claim[o])
      BY <2>0, <2>1, <2>2, NothingClaimed DEF Deciding, NoClaimFields
  <2>5. ASSUME q \notin disturbed'
        PROVE  /\ \A d, o \in Claims : Deciding(d, q)' /\ Deciding(o, q)' => d = o
               /\ \A d \in Claims : Deciding(d, q)' =>
                     /\ status'[q] = "PENDING"
                     /\ MadeOf(q)' = IF claim'[d].pc = "mark" THEN {claim'[d].dev} ELSE {}
               /\ (\A d \in Claims : ~Deciding(d, q)') =>
                     MadeOf(q)' = IF status'[q] = "CLAIMED" THEN {claimedBy'[q]} ELSE {}
    <3>1. q \notin disturbed /\ claim[c].pc # "mark"
        BY <2>1, <2>5
    <3>2. CASE Deciding(c, q)
      <4>1. MadeOf(q) = {} /\ status[q] = "PENDING" /\ \A o \in Claims : Deciding(o, q) => o = c
          BY <2>1, <3>1, <3>2 DEF PairingsInv
      <4> QED BY <2>1, <2>3, <2>4, <4>1
    <3>3. CASE ~Deciding(c, q)
      <4>1. \A o \in Claims : (Deciding(o, q)' <=> Deciding(o, q))
              /\ (Deciding(o, q) => claim'[o] = claim[o])
          BY <2>4, <3>3
      <4>2. \A d, o \in Claims : Deciding(d, q)' /\ Deciding(o, q)' => d = o
          BY <3>1, <4>1 DEF PairingsInv
      <4>3. \A d \in Claims : Deciding(d, q)' =>
              /\ status'[q] = "PENDING"
              /\ MadeOf(q)' = IF claim'[d].pc = "mark" THEN {claim'[d].dev} ELSE {}
          BY <2>1, <2>3, <3>1, <4>1 DEF PairingsInv
      <4>4. (\A d \in Claims : ~Deciding(d, q)') =>
              MadeOf(q)' = IF status'[q] = "CLAIMED" THEN {claimedBy'[q]} ELSE {}
          BY <2>1, <2>3, <3>1, <4>1 DEF PairingTruthful, getStatus
      <4> QED BY <4>2, <4>3, <4>4
    <3> QED BY <3>2, <3>3
  <2>6. disturbed \subseteq disturbed'
      BY <2>1
  <2> QED BY <1>1, <2>1, <2>3, <2>4, <2>5, <2>6
<1>13. ASSUME NEW c \in Claims, ClaimAbandoned(c)
       PROVE  PairingsInv' /\ PairingTruthful'
  <2> DEFINE r == [claim[c] EXCEPT !.client = FALSE]
  <2>1. r \in Claim /\ r.pc = claim[c].pc /\ r.of = claim[c].of /\ r.dev = claim[c].dev
      BY Records
  <2>2. ClaimTo(c, r) /\ UNCHANGED <<status, claimedBy, madeOf, disturbed>>
      BY <1>13 DEF ClaimAbandoned, pairingVars, historyVars
  <2> HIDE DEF r
  <2>3. claim'[c] = r /\ \A o \in Claims : o # c => claim'[o] = claim[o]
      BY <2>1, <2>2, OneClaim
  <2> QED BY <1>2, <2>1, <2>2, <2>3 DEF Deciding
<1>14. ASSUME NEW p \in Phones, ClearPairing(p)
       PROVE  PairingsInv' /\ PairingTruthful'
    BY <1>3, <1>14 DEF ClearPairing, pairingVars
<1>15. ASSUME NEW d \in Devices, Remove(d)
       PROVE  PairingsInv' /\ PairingTruthful'
    BY <1>3, <1>15 DEF Remove, pairingVars, historyVars
<1>16. CASE UNCHANGED vars
    BY <1>3, <1>16 DEF vars, pairingVars, historyVars
<1> QED BY <1>4, <1>5, <1>6, <1>7, <1>8, <1>9, <1>10, <1>11, <1>12, <1>13, <1>14, <1>15,
           <1>16 DEF Next

-----------------------------------------------------------------------------

THEOREM Invariance == Spec => []IInv
<1>1. Init => IInv
  <2> SUFFICES ASSUME Init PROVE IInv
      OBVIOUS
  <2>1. /\ \A c \in Claims : claim[c] = NoClaim
        /\ \A d \in Devices : madeOf[d] = None /\ row[d] = "none"
        /\ \A p \in Phones : id[p] = None
        /\ \A q \in Pairings : status[q] = "none"
      BY DEF Init
  <2>2. TypeOK
      BY NothingClaimed DEF Init, TypeOK, Device
  <2>3. ClaimShape
      BY <2>1, NothingClaimed DEF ClaimShape, NoClaimFields
  <2>4. Waiting /\ Held
      BY <2>1, NothingClaimed DEF Waiting, Held, NoClaimFields
  <2>5. HeldOnce
      BY <2>1 DEF HeldOnce
  <2>6. PairingsInv
      BY <2>1, NothingClaimed DEF PairingsInv, Deciding, NoClaimFields
  <2>7. PairingTruthful
      BY <2>1, NoneIsNew DEF PairingTruthful, getStatus, MadeOf
  <2> QED BY <2>2, <2>3, <2>4, <2>5, <2>6, <2>7 DEF IInv, ClaimsInv
<1>2. IInv /\ [Next]_vars => IInv'
    BY TypeStep, ClaimsStep, PairingsStep DEF IInv
<1> QED BY <1>1, <1>2, PTL DEF Spec

\* The model of pairing is well typed.
THEOREM TypeCorrect == Spec => []TypeOK
BY Invariance, PTL DEF IInv

\* No two phones are one device, and no device is left without a phone except for
\* a claim that was lost, whatever claims overlap.
THEOREM DevicesHeldOnce == Spec => []HeldOnce
BY Invariance, PTL DEF IInv, ClaimsInv

\* A pairing whose claims did not overlap names the one device it made.
THEOREM PairingsTruthful == Spec => []PairingTruthful
BY Invariance, PTL DEF IInv

\* What the parent stopped polling at stays: the update of a claim finds its pairing
\* pending, unless claims overlapped.
THEOREM FinalStatuses == Spec => FinalStatusKept
<1>1. IInv /\ [Next]_vars =>
        [\A q \in Pairings : status[q] \in {"CLAIMED", "EXPIRED"} /\ q \notin disturbed
           => status'[q] = status[q]]_vars
  <2> SUFFICES ASSUME IInv, Next, NEW q \in Pairings,
                      status[q] \in {"CLAIMED", "EXPIRED"}, q \notin disturbed
               PROVE  status'[q] = status[q]
      BY DEF vars, pairingVars
  <2>1. \A c \in Claims : ~Deciding(c, q)
      BY DEF IInv, PairingsInv
  <2>2. ASSUME NEW r \in Pairings, Create(r) \/ Expires(r)
        PROVE  status'[q] = status[q]
      BY <2>2 DEF Create, Expires, IInv, TypeOK
  <2>3. ASSUME NEW c \in Claims, ClaimExpire(c)
        PROVE  status'[q] = status[q]
      BY <2>1, <2>3 DEF ClaimExpire, Deciding, IInv, TypeOK
  <2>4. ASSUME NEW c \in Claims, ClaimMark(c)
        PROVE  status'[q] = status[q]
      BY <2>1, <2>4 DEF ClaimMark, Mark, Deciding, IInv, TypeOK
  <2>5. ASSUME NEW c \in Claims,
               \/ \E p \in Phones, r \in Pairings : StartClaim(c, p, r)
               \/ ClaimRead(c) \/ SavePairing(c) \/ ClaimFails(c) \/ ClaimAbandoned(c)
               \/ \E d \in Devices : CreateForPairing(c, d)
        PROVE  status'[q] = status[q]
      BY <2>5 DEF StartClaim, ClaimRead, SavePairing, ClaimFails, ClaimAbandoned,
                  CreateForPairing, pairingVars
  <2>6. ASSUME (\E p \in Phones : ClearPairing(p)) \/ \E d \in Devices : Remove(d)
        PROVE  status'[q] = status[q]
      BY <2>6 DEF ClearPairing, Remove, pairingVars
  <2> QED BY <2>2, <2>3, <2>4, <2>5, <2>6 DEF Next
<1> QED BY <1>1, Invariance, PTL DEF Spec, FinalStatusKept

=============================================================================
