------------------------------- MODULE Reports -------------------------------
(***************************************************************************)
(* What devices report and what becomes of it: the ingest handlers of      *)
(* events, locations, content, photo flags, tamper reports and requests to *)
(* unblock; AlertsService, with the push to the parents; the parents'      *)
(* queries.  None of the handlers runs in a transaction: each action is    *)
(* one awaited statement.                                                  *)
(*                                                                         *)
(* A request is an attempt of its own; a device that repeats a report      *)
(* makes another.  Of a batch the model keeps whether it calls for an      *)
(* alert.  createdAt is a number, and two alerts of one millisecond have   *)
(* the same.  touchDevice, the refresh of lastSeenAt whose errors are      *)
(* caught, has no state here: it is Touch of Presence.                     *)
(***************************************************************************)
EXTENDS Naturals, FiniteSets

CONSTANTS
    Families,
    Devices,
    Users,
    FamilyOf,       \* of devices and users
    Attempts,       \* requests that devices make
    Take,           \* alerts in a list (100)
    None

ASSUME FamilyOfIsTotal == FamilyOf \in [Devices \cup Users -> Families]
ASSUME TakeIsPositive == Take \in Nat \ {0}
ASSUME NoneIsNew == None \notin Devices

VARIABLES
    present,        \* devices that were not removed
    req,            \* the handler of each attempt
    stored,         \* attempts with rows in the table of their kind
    created,        \* createdAt of the alert of an attempt; 0 for no alert
    clock,
    read,           \* alerts with readAt
    fcm,            \* users with an fcmToken
    pushed,         \* users a push about the alert was handed to FCM for
    audited,
    query,          \* the device a user's query is about, once it passed the check
    got,            \* the attempts whose rows or alerts the user's last query returned
    \* what happened, for the properties only
    audience        \* users with a token when the alert was stored

tables == <<present, stored, created, clock, read, fcm, audited>>
vars == <<tables, req, pushed, query, got, audience>>

Kinds == {"event", "location", "content", "photo", "tamper", "unblock"}

\* Tables whose rows refer to the device and are deleted with it.
Referring == {"event", "location", "tamper"}
Audited == {"tamper", "unblock"}

Request == [pc: {"idle", "store", "touch", "find", "alert", "tokens", "push",
                 "audit", "done", "cut"},
            kind: Kinds, dev: Devices \cup {None}, notable: BOOLEAN, to: SUBSET Users]
NoRequest == [pc |-> "idle", kind |-> "event", dev |-> None, notable |-> FALSE, to |-> {}]

TypeOK ==
    /\ present \in SUBSET Devices
    /\ req \in [Attempts -> Request]
    /\ stored \in SUBSET Attempts
    /\ created \in [Attempts -> Nat]
    /\ clock \in Nat
    /\ read \in SUBSET Attempts
    /\ fcm \in SUBSET Users
    /\ pushed \in [Attempts -> SUBSET Users]
    /\ audited \in SUBSET Attempts
    /\ query \in [Users -> Devices \cup {None}]
    /\ got \in [Users -> SUBSET Attempts]
    /\ audience \in [Attempts -> SUBSET Users]

Init ==
    /\ present = Devices
    /\ req = [a \in Attempts |-> NoRequest]
    /\ stored = {}
    /\ created = [a \in Attempts |-> 0]
    /\ clock = 0
    /\ read = {}
    /\ fcm = {}
    /\ pushed = [a \in Attempts |-> {}]
    /\ audited = {}
    /\ query = [u \in Users |-> None]
    /\ got = [u \in Users |-> {}]
    /\ audience = [a \in Attempts |-> {}]

Family(a) == FamilyOf[req[a].dev]
Raised(a) == created[a] # 0
ParentsOf(f) == {u \in Users : FamilyOf[u] = f}

Step(a, from, to) == req[a].pc = from /\ req' = [req EXCEPT ![a].pc = to]

-----------------------------------------------------------------------------
(* What calls for an alert *)

Flags == [category: {"explicit", "Explicit", "landscape"}, confidence: {7, 8}]    \* in tenths
ALERT_THRESHOLD == 8
ALERTABLE == {"explicit", "nudity", "sexual"}

\* What a device sends of each kind: content with and without a matched watch-word,
\* classified images, a layer that goes off and a return.
IngestEventsDto == {{}, {"usage"}}
ReportLocationDto == {{"fix"}}
IngestContentDto == SUBSET {"plain", "matched"}
IngestPhotoFlagsDto == SUBSET Flags
ReportTamperDto == {{"VPN_OFF"}, {"RECOVERED"}}
RequestUnblockDto == {{"app"}}

Batches(k) ==
    CASE k = "event" -> IngestEventsDto
      [] k = "location" -> ReportLocationDto
      [] k = "content" -> IngestContentDto
      [] k = "photo" -> IngestPhotoFlagsDto
      [] k = "tamper" -> ReportTamperDto
      [] k = "unblock" -> RequestUnblockDto

toLowerCase(c) == IF c = "Explicit" THEN "explicit" ELSE c
Serious(i) == i.confidence >= ALERT_THRESHOLD /\ toLowerCase(i.category) \in ALERTABLE

Notable(k, batch) ==
    CASE k = "content" -> "matched" \in batch
      [] k = "photo" -> \E i \in batch : Serious(i)
      [] k = "tamper" -> "RECOVERED" \notin batch
      [] k = "unblock" -> TRUE
      [] OTHER -> FALSE

-----------------------------------------------------------------------------
(* The handlers.  DeviceAuthGuard asks the token alone, so that a device that *)
(* was removed is still heard.                                              *)

\* A request to unblock has no row of its own.  Mutant: so has a tamper report.
AlertFirst(k) == IF k \in Audited THEN "alert" ELSE "store"
Begins(k) == IF k = "unblock" THEN "alert" ELSE "store"

\* An empty batch is answered at once.
Post(a, d, k) ==
    \E batch \in Batches(k) :
        /\ req[a].pc = "idle"
        /\ req' = [req EXCEPT ![a] =
              [NoRequest EXCEPT !.pc = IF batch = {} THEN "done" ELSE Begins(k),
                                !.kind = k, !.dev = d, !.notable = Notable(k, batch)]]
        /\ UNCHANGED <<tables, pushed, query, got, audience>>

\* The first statement of a handler.
StoreRows(a, k, next) ==
    /\ req[a].kind = k
    /\ Step(a, "store", next)
    /\ stored' = stored \cup {a}
    /\ UNCHANGED <<present, created, clock, read, fcm, audited, pushed, query, got, audience>>

\* Rows that refer to the device cannot be without it ...
EventsIngest(a) == req[a].dev \in present /\ StoreRows(a, "event", "touch")
LocationsIngest(a) == req[a].dev \in present /\ StoreRows(a, "location", "touch")

\* ... those of the archives can.
ContentIngest(a) == StoreRows(a, "content", "touch")
PhotosIngest(a) == StoreRows(a, "photo", "touch")

\* TamperService.report.
TamperReport(a) ==
    /\ req[a].dev \in present
    /\ StoreRows(a, "tamper", IF req[a].notable THEN "alert" ELSE "done")

Store(a) ==
    \/ EventsIngest(a) \/ LocationsIngest(a) \/ ContentIngest(a) \/ PhotosIngest(a)
    \/ TamperReport(a)

\* touchDevice.  Only content and photo flags go on to an alert.
Touch(a) ==
    /\ Step(a, "touch", IF req[a].notable THEN "find" ELSE "done")
    /\ UNCHANGED <<tables, pushed, query, got, audience>>

\* findUnique: a device that has been removed has no family to alert.
FindDevice(a) ==
    /\ Step(a, "find", IF req[a].dev \in present THEN "alert" ELSE "done")
    /\ UNCHANGED <<tables, pushed, query, got, audience>>

\* AlertsService.create, whose row refers to the device.
CreateAlert(a) ==
    /\ req[a].dev \in present
    /\ Step(a, "alert", "tokens")
    /\ clock' \in {clock, clock + 1} \ {0}
    /\ created' = [created EXCEPT ![a] = clock']
    /\ audience' = [audience EXCEPT ![a] = fcm \cap ParentsOf(Family(a))]
    /\ UNCHANGED <<present, stored, read, fcm, audited, pushed, query, got>>

\* pushToParents reads the tokens ...
ReadTokens(a) ==
    /\ req[a].pc = "tokens"
    /\ req' = [req EXCEPT ![a].pc = "push", ![a].to = fcm \cap ParentsOf(Family(a))]
    /\ UNCHANGED <<tables, pushed, query, got, audience>>

\* ... and calls sendData for all at once; whether FCM takes it changes nothing.
Push(a, u) ==
    /\ req[a].pc = "push" /\ u \in req[a].to
    /\ req' = [req EXCEPT ![a].to = @ \ {u}]
    /\ pushed' = [pushed EXCEPT ![a] = @ \cup {u}]
    /\ UNCHANGED <<tables, query, got, audience>>

\* Mutant: the pushes are not awaited.
PushedUnawaited(a) ==
    /\ Step(a, "push", IF req[a].kind \in Audited THEN "audit" ELSE "done")
    /\ UNCHANGED <<tables, pushed, query, got, audience>>

Pushed(a) ==
    /\ req[a].to = {}
    /\ Step(a, "push", IF req[a].kind \in Audited THEN "audit" ELSE "done")
    /\ UNCHANGED <<tables, pushed, query, got, audience>>

\* Mutant: the log keeps the actor only.
AuditActor(a) == audited \cup {req[a].dev}
AuditRow(a) == audited \cup {a}

Audit(a) ==
    /\ Step(a, "audit", "done")
    /\ audited' = AuditRow(a)
    /\ UNCHANGED <<present, stored, created, clock, read, fcm, pushed, query, got, audience>>

\* A statement fails (a reference to a removed device among others), or the
\* backend stops: what was done stays, the device sees an error.
Cut(a) ==
    /\ req[a].pc \notin {"idle", "done", "cut"}
    /\ req' = [req EXCEPT ![a].pc = "cut", ![a].to = {}]
    /\ UNCHANGED <<tables, pushed, query, got, audience>>

-----------------------------------------------------------------------------
(* The parents *)

\* AuthService.setFcmToken; nothing in the code clears a token.
SetFcmToken(u) ==
    /\ u \notin fcm
    /\ fcm' = fcm \cup {u}
    /\ UNCHANGED <<present, stored, created, clock, read, audited, req, pushed, query, got, audience>>

\* Alerts stay, without their device.  Mutant: they are deleted with it.
Cascades(d) == created' = [a \in Attempts |-> IF req[a].dev = d THEN 0 ELSE created[a]]
SetsNull(d) == UNCHANGED created

\* DevicesService.remove.
Remove(d) ==
    /\ d \in present
    /\ present' = present \ {d}
    /\ stored' = {a \in stored : ~(req[a].dev = d /\ req[a].kind \in Referring)}
    /\ SetsNull(d)
    /\ UNCHANGED <<clock, read, fcm, audited, req, pushed, query, got, audience>>

Feed(f) == {a \in Attempts : Raised(a) /\ Family(a) = f}

\* orderBy createdAt desc, take: among alerts of one time the database chooses.
Newest(alerts) ==
    {page \in SUBSET alerts :
        /\ Cardinality(page) <= Take
        /\ page # alerts => Cardinality(page) = Take
        /\ \A a \in page, b \in alerts \ page : created[b] <= created[a]}

\* AlertsService.listForFamily, of all alerts or with unreadOnly.
ListForFamily(u) ==
    /\ query[u] = None
    /\ \E page \in Newest(Feed(FamilyOf[u])) \cup Newest(Feed(FamilyOf[u]) \ read) :
          got' = [got EXCEPT ![u] = page]
    /\ UNCHANGED <<tables, req, pushed, query, audience>>

MarkRead(u, a) ==
    /\ a \in Feed(FamilyOf[u])
    /\ read' = read \cup {a}
    /\ UNCHANGED <<present, stored, created, clock, fcm, audited, req, pushed, query, got, audience>>

\* Mutant: the device exists.
Exists(u, d) == d \in present
Owns(u, d) == d \in present /\ FamilyOf[d] = FamilyOf[u]

\* Queries check that the device is of the family, and read afterwards.
GetForFamily(u, d) ==
    /\ query[u] = None
    /\ Owns(u, d)
    /\ query' = [query EXCEPT ![u] = d]
    /\ got' = [got EXCEPT ![u] = {}]
    /\ UNCHANGED <<tables, req, pushed, audience>>

RowsOf(u, k) == {a \in stored : req[a].dev = query[u] /\ req[a].kind = k}

Answer(u, rows) ==
    /\ query[u] # None
    /\ got' = [got EXCEPT ![u] = rows]
    /\ query' = [query EXCEPT ![u] = None]
    /\ UNCHANGED <<tables, req, pushed, audience>>

ListEvents(u) == Answer(u, RowsOf(u, "event"))
LocationHistory(u) == Answer(u, RowsOf(u, "location"))
ListContent(u) == Answer(u, RowsOf(u, "content"))
ListFlags(u) == Answer(u, RowsOf(u, "photo"))
ListTamper(u) == Answer(u, RowsOf(u, "tamper"))

\* The devices say when their fixes occurred: any of them may be the latest.
LatestLocation(u) ==
    \E rows \in SUBSET RowsOf(u, "location") :
        /\ rows = {} <=> RowsOf(u, "location") = {}
        /\ \A a, b \in rows : a = b
        /\ Answer(u, rows)

ListForDevice(u) ==
    \/ ListEvents(u) \/ LatestLocation(u) \/ LocationHistory(u) \/ ListContent(u)
    \/ ListFlags(u) \/ ListTamper(u)

-----------------------------------------------------------------------------
Serve(a) ==
    \/ Store(a) \/ Touch(a) \/ FindDevice(a) \/ CreateAlert(a)
    \/ ReadTokens(a) \/ Pushed(a) \/ Audit(a) \/ Cut(a)
    \/ \E u \in Users : Push(a, u)

Next ==
    \/ \E a \in Attempts : Serve(a) \/ \E d \in Devices, k \in Kinds : Post(a, d, k)
    \/ \E d \in Devices : Remove(d)
    \/ \E u \in Users :
          \/ SetFcmToken(u)
          \/ \E a \in Attempts : MarkRead(u, a)
          \/ \E d \in Devices : GetForFamily(u, d)
          \/ ListForDevice(u) \/ ListForFamily(u)

Spec == Init /\ [][Next]_vars

\* Every statement of a handler ends or throws.
FairSpec == Spec /\ \A a \in Attempts : WF_vars(Serve(a))

-----------------------------------------------------------------------------
(* Properties *)

\* Of a report that calls for an alert, the device is told of success only after
\* everything is done: rows stored, the alert in the feed, handed to FCM for every
\* parent who had a token by then, and audited.  Only a device that was removed
\* gets a success without.
AnsweredIsComplete ==
    \A a \in Attempts : req[a].pc = "done" /\ req[a].dev \in present /\ req[a].notable =>
        /\ Raised(a)
        /\ req[a].kind # "unblock" => a \in stored
        /\ audience[a] \subseteq pushed[a]
        /\ req[a].kind \in Audited => a \in audited

\* An alert about a report is backed by its rows at any time, wherever the handler
\* stops, unless they were deleted with the device.
AlertBacked ==
    \A a \in Attempts : Raised(a) /\ req[a].kind # "unblock" =>
        a \in stored \/ (req[a].kind \in Referring /\ req[a].dev \notin present)

\* A parent gets rows, alerts and pushes of the own family's devices only, though the
\* check of a query and its read are two statements, with the removal of the device
\* between them, and the tokens are read after the alert was stored.
OwnRowsOnly ==
    \A u \in Users : \A a \in got[u] \cup {b \in Attempts : u \in pushed[b]} :
        Family(a) = FamilyOf[u]

\* Reports implements ParentFeed: a notable report is owed from its arrival until
\* its alert or the end of its handler.
phase ==
    [a \in Attempts |->
        IF Raised(a) THEN "raised"
        ELSE IF ~req[a].notable THEN "new"
        ELSE IF req[a].pc \in {"done", "cut"} THEN "dropped" ELSE "owed"]

ToParents == INSTANCE ParentFeed WITH Notices <- Attempts, at <- created

FeedIsKept == ToParents!Spec
=============================================================================
