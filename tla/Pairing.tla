------------------------------ MODULE Pairing -------------------------------
(***************************************************************************)
(* How a child phone becomes a device of the family: PairingService, with  *)
(* DevicesService.createForPairing and remove, and the phones that claim   *)
(* (MoniiRepository.claim, DeviceStore, MainActivity).                     *)
(*                                                                         *)
(* A claim is a read, a create and an unconditional update, without a      *)
(* transaction: claims of one code overlap, and stop between two steps.    *)
(***************************************************************************)
EXTENDS Naturals

CONSTANTS
    Phones,
    Devices,        \* rows the backend may create
    Pairings,
    Claims,         \* POST /pairings/claim at a time
    None

ASSUME NoneIsNew == None \notin Devices \cup Phones \cup Pairings

VARIABLES
    status, claimedBy,      \* of the Pairing rows; "none" before there is a row
    aged,                   \* pairings past their expiresAt
    row,                    \* Device rows
    claim,
    id,                     \* DeviceStore of each phone: the device it is
    \* what happened, for the properties only
    madeOf,                 \* the pairing a device was made of
    disturbed,              \* pairings with overlapping claims, or a claim cut off
    stranded                \* devices whose phone was not told, or has left them

pairingVars == <<status, claimedBy, aged>>
historyVars == <<madeOf, disturbed, stranded>>
vars == <<pairingVars, row, claim, id, historyVars>>

Device == Devices \cup {None}

Claim == [pc: {"idle", "sent", "expire", "create", "mark", "answered"},
          ph: Phones \cup {None}, of: Pairings \cup {None}, dev: Device, client: BOOLEAN]
NoClaim == [pc |-> "idle", ph |-> None, of |-> None, dev |-> None, client |-> FALSE]

TypeOK ==
    /\ status \in [Pairings -> {"none", "PENDING", "CLAIMED", "EXPIRED"}]
    /\ claimedBy \in [Pairings -> Device]
    /\ aged \in SUBSET Pairings
    /\ row \in [Devices -> {"none", "present", "removed"}]
    /\ claim \in [Claims -> Claim]
    /\ id \in [Phones -> Device]
    /\ madeOf \in [Devices -> Pairings \cup {None}]
    /\ disturbed \in SUBSET Pairings
    /\ stranded \in SUBSET Devices

Init ==
    /\ status = [q \in Pairings |-> "none"]
    /\ claimedBy = [q \in Pairings |-> None]
    /\ aged = {}
    /\ row = [d \in Devices |-> "none"]
    /\ claim = [c \in Claims |-> NoClaim]
    /\ id = [p \in Phones |-> None]
    /\ madeOf = [d \in Devices |-> None]
    /\ disturbed = {}
    /\ stranded = {}

ClaimTo(c, r) == claim' = [claim EXCEPT ![c] = r]

-----------------------------------------------------------------------------
(* PairingService.  claim is one action for each awaited statement. *)

Create(q) ==
    /\ status[q] = "none"
    /\ status' = [status EXCEPT ![q] = "PENDING"]
    /\ UNCHANGED <<claimedBy, aged, row, claim, id, historyVars>>

Expires(q) ==
    /\ status[q] # "none" /\ q \notin aged
    /\ aged' = aged \cup {q}
    /\ UNCHANGED <<status, claimedBy, row, claim, id, historyVars>>

\* MainActivity.pair: the form is shown to an unpaired phone, and its button is
\* disabled while a claim has not ended.
StartClaim(c, p, q) ==
    /\ claim[c].pc = "idle"
    /\ id[p] = None
    /\ \A o \in Claims : ~(claim[o].client /\ claim[o].ph = p)
    /\ status[q] # "none"
    /\ ClaimTo(c, [NoClaim EXCEPT !.pc = "sent", !.ph = p, !.of = q, !.client = TRUE])
    /\ UNCHANGED <<pairingVars, row, id, historyVars>>

\* The claim is between its read of the pairing and its update of it.
Deciding(c, q) == claim[c].of = q /\ claim[c].pc \in {"expire", "create", "mark"}

\* Mutant: any pairing that exists.
ClaimableAny(q) == status[q] # "none"
Claimable(q) == status[q] = "PENDING"

ClaimRead(c) ==
    LET q == claim[c].of
    IN  /\ claim[c].pc = "sent"
        /\ IF ~Claimable(q) THEN ClaimTo(c, NoClaim) /\ UNCHANGED disturbed
           ELSE /\ ClaimTo(c, [claim[c] EXCEPT !.pc = IF q \in aged THEN "expire" ELSE "create"])
                /\ disturbed' = disturbed \cup {r \in {q} : \E o \in Claims \ {c} : Deciding(o, r)}
        /\ UNCHANGED <<pairingVars, row, id, madeOf, stranded>>

ClaimExpire(c) ==
    /\ claim[c].pc = "expire"
    /\ status' = [status EXCEPT ![claim[c].of] = "EXPIRED"]
    /\ ClaimTo(c, NoClaim)
    /\ UNCHANGED <<claimedBy, aged, row, id, historyVars>>

\* Mutant: a device of the pairing will do.
FreshOrMade(c, d) == row[d] = "none" \/ madeOf[d] = claim[c].of
Fresh(c, d) == row[d] = "none"

\* DevicesService.createForPairing, and the token, which is not stored.
CreateForPairing(c, d) ==
    /\ claim[c].pc = "create"
    /\ Fresh(c, d)
    /\ row' = [row EXCEPT ![d] = "present"]
    /\ madeOf' = [madeOf EXCEPT ![d] = claim[c].of]
    /\ ClaimTo(c, [claim[c] EXCEPT !.pc = "mark", !.dev = d])
    /\ UNCHANGED <<pairingVars, id, disturbed, stranded>>

\* Mutants: the phone is stored with the pairing; no device is.
MarkPhone(c) ==
    /\ status' = [status EXCEPT ![claim[c].of] = "CLAIMED"]
    /\ claimedBy' = [claimedBy EXCEPT ![claim[c].of] = claim[c].ph]
MarkStatus(c) == status' = [status EXCEPT ![claim[c].of] = "CLAIMED"] /\ UNCHANGED claimedBy
Mark(c) ==
    /\ status' = [status EXCEPT ![claim[c].of] = "CLAIMED"]
    /\ claimedBy' = [claimedBy EXCEPT ![claim[c].of] = claim[c].dev]

\* The row in the audit log and the response follow, whatever becomes of the pairing.
ClaimMark(c) ==
    /\ claim[c].pc = "mark"
    /\ Mark(c)
    /\ IF claim[c].client
       THEN ClaimTo(c, [claim[c] EXCEPT !.pc = "answered"]) /\ UNCHANGED stranded
       ELSE ClaimTo(c, NoClaim) /\ stranded' = stranded \cup {claim[c].dev}
    /\ UNCHANGED <<aged, row, id, madeOf, disturbed>>

\* DeviceStore.savePairing, whatever was stored.
SavePairing(c) ==
    LET p == claim[c].ph
    IN  /\ claim[c].pc = "answered"
        /\ id' = [id EXCEPT ![p] = claim[c].dev]
        /\ ClaimTo(c, NoClaim)
        /\ UNCHANGED <<pairingVars, row, historyVars>>

\* The request or the answer is lost, or the handler stops with the backend.
ClaimFails(c) ==
    /\ claim[c].pc # "idle"
    /\ ClaimTo(c, NoClaim)
    /\ disturbed' = disturbed \cup {q \in {claim[c].of} : claim[c].pc = "mark"}
    /\ stranded' = stranded \cup ({claim[c].dev} \ {None})
    /\ UNCHANGED <<pairingVars, row, id, madeOf>>

\* A timeout of the HTTP client, or the end of the activity: the handler goes on.
ClaimAbandoned(c) ==
    /\ claim[c].client /\ claim[c].pc # "answered"
    /\ ClaimTo(c, [claim[c] EXCEPT !.client = FALSE])
    /\ UNCHANGED <<pairingVars, row, id, historyVars>>

\* DeviceStore.clearPairing, from MainActivity.
ClearPairing(p) ==
    /\ id[p] # None
    /\ id' = [id EXCEPT ![p] = None]
    /\ stranded' = stranded \cup {id[p]}
    /\ UNCHANGED <<pairingVars, row, claim, madeOf, disturbed>>

\* DevicesService.remove: the pairing keeps the name of the device.
Remove(d) ==
    /\ row[d] = "present"
    /\ row' = [row EXCEPT ![d] = "removed"]
    /\ UNCHANGED <<pairingVars, claim, id, historyVars>>

\* What the parent's screen polls.
getStatus(q) == [status |-> status[q], claimedDeviceId |-> claimedBy[q]]

Next ==
    \/ \E q \in Pairings : Create(q) \/ Expires(q)
    \/ \E c \in Claims :
          \/ \E p \in Phones, q \in Pairings : StartClaim(c, p, q)
          \/ ClaimRead(c) \/ ClaimExpire(c) \/ ClaimMark(c) \/ SavePairing(c)
          \/ ClaimFails(c) \/ ClaimAbandoned(c)
          \/ \E d \in Devices : CreateForPairing(c, d)
    \/ \E p \in Phones : ClearPairing(p)
    \/ \E d \in Devices : Remove(d)

Spec == Init /\ [][Next]_vars

-----------------------------------------------------------------------------
(* Properties *)

MadeOf(q) == {d \in Devices : madeOf[d] = q}

\* What the parent polls (getStatus) is true, once no claim of the pairing is
\* being decided: a CLAIMED pairing made the one device it names, and another
\* one made none.  Claims that overlap, and a claim cut off between the device
\* and the pairing, are the only exceptions.
PairingTruthful ==
    \A q \in Pairings \ disturbed : (\A c \in Claims : ~Deciding(c, q)) =>
        MadeOf(q) = IF getStatus(q).status = "CLAIMED" THEN {getStatus(q).claimedDeviceId} ELSE {}

\* The parent's screen stops polling at CLAIMED and at EXPIRED: neither changes
\* again, unless claims overlap.
FinalStatusKept ==
    [][\A q \in Pairings : status[q] \in {"CLAIMED", "EXPIRED"} /\ q \notin disturbed
         => status'[q] = status[q]]_vars

\* A device of the family is held by one phone, or its claim is under way; it
\* is stranded only if its claim or the answer was lost or given up, or its
\* phone was unpaired.  In particular no two phones ever are one device,
\* whatever claims overlap.
HeldOnce ==
    /\ \A d \in Devices : row[d] # "none" /\ d \notin stranded =>
         \/ \E p \in Phones : id[p] = d
         \/ \E c \in Claims : claim[c].dev = d
    /\ \A p, r \in Phones : id[p] = id[r] /\ id[p] # None => p = r
=============================================================================
