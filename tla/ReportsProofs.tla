--------------------------- MODULE ReportsProofs ---------------------------
(***************************************************************************)
(* What holds of reports and alerts for any number of families, devices,   *)
(* parents and requests, and that the handlers implement the safety part   *)
(* of ParentFeed.  The invariant follows one request at a time: Placed,    *)
(* Backed, Addressed and Complete say what has been done by the time its   *)
(* handler is at a statement.                                              *)
(***************************************************************************)
EXTENDS Reports, TLAPS

\* The alert is stored by the statement "alert", for notable requests only.
Placed(a) ==
    /\ req[a].pc = "idle" => ~Raised(a) /\ a \notin stored /\ ~req[a].notable
    /\ req[a].pc # "idle" => req[a].dev \in Devices
    /\ req[a].pc = "store" => req[a].kind # "unblock"
    /\ req[a].pc \in {"find", "alert"} => req[a].notable
    /\ req[a].pc \in {"store", "touch", "find", "alert"} => ~Raised(a)
    /\ req[a].pc \in {"tokens", "push", "audit"} => Raised(a)
    /\ created[a] <= clock

\* The rows are stored before the alert.
Backed(a) ==
    req[a].kind # "unblock" /\ (req[a].pc \in {"touch", "find", "alert"} \/ Raised(a)) =>
        a \in stored \/ (req[a].kind \in Referring /\ req[a].dev \notin present)

\* Pushes are about alerts and go to parents of the device's family.
Addressed(a) ==
    /\ pushed[a] \subseteq ParentsOf(Family(a))
    /\ pushed[a] # {} => Raised(a)
    /\ req[a].pc = "push" => req[a].to \subseteq ParentsOf(Family(a))

\* Where the handler stands, its earlier statements have been executed.
Complete(a) ==
    /\ req[a].pc = "tokens" => audience[a] \subseteq fcm \cap ParentsOf(Family(a))
    /\ req[a].pc = "push" => audience[a] \subseteq pushed[a] \cup req[a].to
    /\ req[a].pc \in {"audit", "done"} /\ Raised(a) => audience[a] \subseteq pushed[a]
    /\ req[a].pc = "done" /\ Raised(a) /\ req[a].kind \in Audited => a \in audited
    /\ req[a].pc = "done" /\ req[a].notable => Raised(a) \/ req[a].dev \notin present

\* A query is about a device of the family, and so is what it returned.
Asked(u) ==
    /\ query[u] # None => FamilyOf[query[u]] = FamilyOf[u]
    /\ \A a \in got[u] : req[a].pc # "idle" /\ Family(a) = FamilyOf[u]

IInv ==
    /\ TypeOK
    /\ \A a \in Attempts : Placed(a) /\ Backed(a) /\ Addressed(a) /\ Complete(a)
    /\ \A u \in Users : Asked(u)

-----------------------------------------------------------------------------

\* What the first statements of the handlers have in common.
AfterStore(a) ==
    IF req[a].kind # "tamper" THEN "touch"
    ELSE IF req[a].notable THEN "alert" ELSE "done"

Stores(a) ==
    /\ req[a].kind \in Referring => req[a].dev \in present
    /\ Step(a, "store", AfterStore(a))
    /\ stored' = stored \cup {a}
    /\ UNCHANGED <<present, created, clock, read, fcm, audited, pushed, query, got, audience>>

LEMMA StoreForm == ASSUME NEW a \in Attempts, Store(a) PROVE Stores(a)
<1>1. CASE EventsIngest(a)
    BY <1>1 DEF EventsIngest, StoreRows, Stores, AfterStore
<1>2. CASE LocationsIngest(a)
    BY <1>2 DEF LocationsIngest, StoreRows, Stores, AfterStore
<1>3. CASE ContentIngest(a)
    BY <1>3 DEF ContentIngest, StoreRows, Stores, AfterStore, Referring
<1>4. CASE PhotosIngest(a)
    BY <1>4 DEF PhotosIngest, StoreRows, Stores, AfterStore, Referring
<1>5. CASE TamperReport(a)
    BY <1>5 DEF TamperReport, StoreRows, Stores, AfterStore
<1> QED BY <1>1, <1>2, <1>3, <1>4, <1>5 DEF Store

\* A parent's read returns rows of the device that was asked for.
LEMMA ListForm ==
    ASSUME NEW u \in Users, ListForDevice(u)
    PROVE  \E rows \in SUBSET {a \in stored : req[a].dev = query[u]} : Answer(u, rows)
<1>1. \A k \in Kinds : RowsOf(u, k) \subseteq {a \in stored : req[a].dev = query[u]}
    BY DEF RowsOf
<1>2. CASE LatestLocation(u)
    BY <1>1, <1>2 DEF LatestLocation, Kinds
<1> QED BY <1>1, <1>2 DEF ListForDevice, ListEvents, LocationHistory, ListContent, ListFlags,
                          ListTamper, Kinds


\* An empty batch, where a handler takes one, calls for no alert.
LEMMA EmptyIsNotNotable ==
    \A k \in Kinds : /\ \A batch \in Batches(k) : Notable(k, batch) \in BOOLEAN
                     /\ {} \in Batches(k) => ~Notable(k, {})
<1> TAKE k \in Kinds
<1>1. CASE k = "event"
    BY <1>1 DEF Notable
<1>2. CASE k = "location"
    BY <1>2 DEF Notable
<1>3. CASE k = "content"
    BY <1>3 DEF Notable
<1>4. CASE k = "photo"
    BY <1>4 DEF Notable, Serious
<1>5. CASE k = "tamper"
    BY <1>5 DEF Notable, Batches, ReportTamperDto, RequestUnblockDto
<1>6. CASE k = "unblock"
    BY <1>6 DEF Notable, Batches, ReportTamperDto, RequestUnblockDto
<1> QED BY <1>1, <1>2, <1>3, <1>4, <1>5, <1>6 DEF Kinds

\* The records the actions build are requests.
LEMMA Handled ==
    ASSUME TypeOK, NEW a \in Attempts, NEW l \in {"store", "touch", "find", "alert", "tokens",
                                                  "push", "audit", "done", "cut"}
    PROVE  /\ [req[a] EXCEPT !.pc = l] \in Request
           /\ \A to \in SUBSET Users : /\ [req[a] EXCEPT !.to = to] \in Request
                                       /\ [req[a] EXCEPT !.pc = l, !.to = to] \in Request
           /\ \A k \in Kinds, d \in Devices, b \in BOOLEAN :
                [NoRequest EXCEPT !.pc = l, !.kind = k, !.dev = d, !.notable = b] \in Request
<1>1. req[a] \in Request
    BY DEF TypeOK
<1>2. /\ [req[a] EXCEPT !.pc = l] \in Request
      /\ \A to \in SUBSET Users : /\ [req[a] EXCEPT !.to = to] \in Request
                                  /\ [req[a] EXCEPT !.pc = l, !.to = to] \in Request
    BY <1>1 DEF Request
<1>3. NoRequest \in Request
    BY DEF NoRequest, Request, Kinds
<1> QED BY <1>2, <1>3 DEF Request

\* A step changes one request's place and nothing else of it.
LEMMA Moves ==
    ASSUME TypeOK, NEW a \in Attempts, NEW from,
           NEW to \in {"store", "touch", "find", "alert", "tokens", "push", "audit", "done", "cut"},
           Step(a, from, to)
    PROVE  /\ req' \in [Attempts -> Request]
           /\ req[a].pc = from /\ req'[a].pc = to
           /\ req'[a].kind = req[a].kind /\ req'[a].dev = req[a].dev
           /\ req'[a].notable = req[a].notable /\ req'[a].to = req[a].to
           /\ \A b \in Attempts \ {a} : req'[b] = req[b]
<1>1. req \in [Attempts -> Request] /\ req[a] \in Request
    BY DEF TypeOK
<1>2. [req[a] EXCEPT !.pc = to] \in Request
    BY Handled
<1> QED BY <1>1, <1>2 DEF Step, Request

\* What the device's report becomes.
LEMMA Arrives ==
    ASSUME TypeOK, NEW a \in Attempts, NEW d \in Devices, NEW k \in Kinds, Post(a, d, k)
    PROVE  /\ req' \in [Attempts -> Request]
           /\ req[a].pc = "idle"
           /\ req'[a].pc \in {"store", "alert", "done"}
           /\ req'[a].pc = "store" => k # "unblock"
           /\ req'[a].pc = "alert" => k = "unblock" /\ req'[a].notable
           /\ req'[a].pc = "done" => ~req'[a].notable
           /\ req'[a].kind = k /\ req'[a].dev = d
           /\ \A b \in Attempts \ {a} : req'[b] = req[b]
<1>1. PICK batch \in Batches(k) :
          /\ req[a].pc = "idle"
          /\ req' = [req EXCEPT ![a] =
                [NoRequest EXCEPT !.pc = IF batch = {} THEN "done" ELSE Begins(k),
                                  !.kind = k, !.dev = d, !.notable = Notable(k, batch)]]
    BY DEF Post
<1> DEFINE l == IF batch = {} THEN "done" ELSE Begins(k)
<1> DEFINE r == [NoRequest EXCEPT !.pc = l, !.kind = k, !.dev = d, !.notable = Notable(k, batch)]
<1>2. l \in {"store", "alert", "done"} /\ Notable(k, batch) \in BOOLEAN
    BY EmptyIsNotNotable DEF Begins
<1>3. r \in Request
    BY <1>2, Handled
<1>4. r.pc = l /\ r.kind = k /\ r.dev = d /\ r.notable = Notable(k, batch)
    BY DEF NoRequest
<1>5. /\ l = "store" => k # "unblock"
      /\ l = "alert" => k = "unblock" /\ Notable(k, batch)
      /\ l = "done" => ~Notable(k, batch)
    BY EmptyIsNotNotable DEF Begins, Notable
<1>6. req \in [Attempts -> Request]
    BY DEF TypeOK
<1>7. req' \in [Attempts -> Request] /\ req'[a] = r /\ \A b \in Attempts \ {a} : req'[b] = req[b]
    BY <1>1, <1>3, <1>6
<1> QED BY <1>1, <1>2, <1>4, <1>5, <1>7

-----------------------------------------------------------------------------

\* The types are kept by every step.
LEMMA TypeStep ==
    ASSUME TypeOK, [Next]_vars
    PROVE  TypeOK'
<1> USE DEF TypeOK
<1>1. ASSUME NEW a \in Attempts, NEW d \in Devices, NEW k \in Kinds, Post(a, d, k)
      PROVE  TypeOK'
  <2>1. req' \in [Attempts -> Request]
      BY <1>1, Arrives
  <2> QED BY <1>1, <2>1 DEF Post, tables
<1>2. ASSUME NEW a \in Attempts, Store(a)
      PROVE  TypeOK'
  <2>1. req' \in [Attempts -> Request]
    <3>1. AfterStore(a) \in {"touch", "alert", "done"}
        BY DEF AfterStore
    <3>2. AfterStore(a) \in {"store", "touch", "find", "alert", "tokens", "push", "audit", "done", "cut"}
        BY <3>1
    <3> QED BY <1>2, <3>2, Moves, StoreForm DEF Stores
  <2> QED BY <1>2, <2>1, StoreForm DEF Stores
<1>3. ASSUME NEW a \in Attempts, Touch(a)
      PROVE  TypeOK'
  <2>1. req' \in [Attempts -> Request]
    <3> DEFINE l == IF req[a].notable THEN "find" ELSE "done"
    <3>1. l \in {"store", "touch", "find", "alert", "tokens", "push", "audit", "done", "cut"}
        OBVIOUS
    <3>2. Step(a, "touch", l)
        BY <1>3 DEF Touch
    <3> HIDE DEF l
    <3> QED BY <3>1, <3>2, Moves
  <2> QED BY <1>3, <2>1 DEF Touch, tables
<1>4. ASSUME NEW a \in Attempts, FindDevice(a)
      PROVE  TypeOK'
  <2>1. req' \in [Attempts -> Request]
    <3> DEFINE l == IF req[a].dev \in present THEN "alert" ELSE "done"
    <3>1. l \in {"store", "touch", "find", "alert", "tokens", "push", "audit", "done", "cut"}
        OBVIOUS
    <3>2. Step(a, "find", l)
        BY <1>4 DEF FindDevice
    <3> HIDE DEF l
    <3> QED BY <3>1, <3>2, Moves
  <2> QED BY <1>4, <2>1 DEF FindDevice, tables
<1>5. ASSUME NEW a \in Attempts, CreateAlert(a)
      PROVE  TypeOK'
  <2>1. req' \in [Attempts -> Request]
      BY <1>5, Moves DEF CreateAlert
  <2>2. clock' \in Nat /\ created' \in [Attempts -> Nat]
      BY <1>5 DEF CreateAlert
  <2> QED BY <1>5, <2>1, <2>2 DEF CreateAlert
<1>6. ASSUME NEW a \in Attempts, ReadTokens(a)
      PROVE  TypeOK'
  <2>1. fcm \cap ParentsOf(Family(a)) \in SUBSET Users
      OBVIOUS
  <2>2. req' \in [Attempts -> Request]
      BY <1>6, <2>1, Handled DEF ReadTokens
  <2> QED BY <1>6, <2>2 DEF ReadTokens, tables
<1>7. ASSUME NEW a \in Attempts, NEW u \in Users, Push(a, u)
      PROVE  TypeOK'
  <2>1. req[a].to \ {u} \in SUBSET Users
      BY DEF Request
  <2>2. [req[a] EXCEPT !.to = req[a].to \ {u}] \in Request
      BY <2>1, Handled
  <2>3. req' \in [Attempts -> Request]
      BY <1>7, <2>2 DEF Push
  <2> QED BY <1>7, <2>3 DEF Push, tables
<1>8. ASSUME NEW a \in Attempts, Pushed(a)
      PROVE  TypeOK'
  <2>1. req' \in [Attempts -> Request]
    <3> DEFINE l == IF req[a].kind \in Audited THEN "audit" ELSE "done"
    <3>1. l \in {"store", "touch", "find", "alert", "tokens", "push", "audit", "done", "cut"}
        OBVIOUS
    <3>2. Step(a, "push", l)
        BY <1>8 DEF Pushed
    <3> HIDE DEF l
    <3> QED BY <3>1, <3>2, Moves
  <2> QED BY <1>8, <2>1 DEF Pushed, tables
<1>9. ASSUME NEW a \in Attempts, Audit(a)
      PROVE  TypeOK'
  <2>1. req' \in [Attempts -> Request]
      BY <1>9, Moves DEF Audit
  <2> QED BY <1>9, <2>1 DEF Audit, AuditRow
<1>10. ASSUME NEW a \in Attempts, Cut(a)
       PROVE  TypeOK'
  <2>1. req' \in [Attempts -> Request]
      BY <1>10, Handled DEF Cut
  <2> QED BY <1>10, <2>1 DEF Cut, tables
<1>11. ASSUME NEW d \in Devices, Remove(d)
       PROVE  TypeOK'
    BY <1>11 DEF Remove, SetsNull
<1>12. ASSUME NEW u \in Users, SetFcmToken(u)
       PROVE  TypeOK'
    BY <1>12 DEF SetFcmToken
<1>13. ASSUME NEW u \in Users, NEW a \in Attempts, MarkRead(u, a)
       PROVE  TypeOK'
    BY <1>13 DEF MarkRead
<1>14. ASSUME NEW u \in Users, NEW d \in Devices, GetForFamily(u, d)
       PROVE  TypeOK'
    BY <1>14 DEF GetForFamily, tables
<1>15. ASSUME NEW u \in Users, ListForDevice(u)
       PROVE  TypeOK'
    BY <1>15, ListForm DEF Answer, tables
<1>16. ASSUME NEW u \in Users, ListForFamily(u)
       PROVE  TypeOK'
    BY <1>16 DEF ListForFamily, Newest, Feed, tables
<1>17. CASE UNCHANGED vars
    BY <1>17 DEF vars, tables
<1> QED BY <1>1, <1>2, <1>3, <1>4, <1>5, <1>6, <1>7, <1>8, <1>9, <1>10, <1>11, <1>12, <1>13,
           <1>14, <1>15, <1>16, <1>17 DEF Next, Serve

-----------------------------------------------------------------------------

Followed(a) == Placed(a) /\ Backed(a) /\ Addressed(a) /\ Complete(a)

\* A request is not disturbed by what happens to others.
LEMMA Undisturbed ==
    ASSUME TypeOK, TypeOK', NEW a \in Attempts, Followed(a),
           req'[a] = req[a], created'[a] = created[a], clock' >= clock,
           a \in stored' <=> a \in stored, present' = present, fcm \subseteq fcm',
           pushed'[a] = pushed[a], audience'[a] = audience[a], audited \subseteq audited'
    PROVE  Followed(a)'
<1>1. Raised(a)' <=> Raised(a)
    BY DEF Raised
<1>2. Family(a)' = Family(a)
    BY DEF Family
<1>3. Placed(a)'
    BY <1>1 DEF Followed, Placed, TypeOK
<1>4. Backed(a)'
    BY <1>1 DEF Followed, Backed
<1>5. Addressed(a)'
    BY <1>1, <1>2 DEF Followed, Addressed, ParentsOf
<1>6. Complete(a)'
    BY <1>1, <1>2 DEF Followed, Complete, ParentsOf
<1> QED BY <1>3, <1>4, <1>5, <1>6 DEF Followed

\* The statements that write nothing a request is judged by: the next one only has
\* to be right.
LEMMA NextStatement ==
    ASSUME TypeOK, TypeOK', NEW a \in Attempts, NEW b \in Attempts, Followed(a), Followed(b),
           NEW from, NEW to \in {"store", "touch", "find", "alert", "tokens", "push", "audit",
                                 "done", "cut"},
           Step(b, from, to),
           UNCHANGED <<present, stored, created, clock, fcm, pushed, audited, audience>>,
           from \in {"touch", "find", "push"},
           from = "touch" => to = IF req[b].notable THEN "find" ELSE "done",
           from = "find" => to = IF req[b].dev \in present THEN "alert" ELSE "done",
           from = "push" => req[b].to = {} /\ to = IF req[b].kind \in Audited THEN "audit" ELSE "done"
    PROVE  Followed(a)'
<1>1. CASE a # b
  <2>1. req'[a] = req[a]
      BY <1>1, Moves
  <2> QED BY <2>1, Undisturbed DEF TypeOK
<1>2. CASE a = b
  <2>1. /\ req[a].pc = from /\ req'[a].pc = to
        /\ req'[a].kind = req[a].kind /\ req'[a].dev = req[a].dev
        /\ req'[a].notable = req[a].notable /\ req'[a].to = req[a].to
      BY <1>2, Moves
  <2>2. Family(a)' = Family(a) /\ (Raised(a)' <=> Raised(a))
      BY <2>1 DEF Family, Raised
  <2>3. Placed(a)'
      BY <1>2, <2>1, <2>2 DEF Followed, Placed
  <2>4. Backed(a)'
      BY <1>2, <2>1, <2>2 DEF Followed, Backed
  <2>5. Addressed(a)'
      BY <1>2, <2>1, <2>2 DEF Followed, Addressed, ParentsOf
  <2>6. Complete(a)'
    <3>1. CASE from \in {"touch", "find"}
      <4>1. ~Raised(a)
          BY <2>1, <3>1 DEF Followed, Placed
      <4> QED BY <1>2, <2>1, <2>2, <3>1, <4>1 DEF Followed, Complete, Placed
    <3>2. CASE from = "push"
      <4>1. Raised(a) /\ audience[a] \subseteq pushed[a]
          BY <1>2, <2>1, <3>2 DEF Followed, Placed, Complete
      <4> QED BY <1>2, <2>1, <2>2, <3>2, <4>1 DEF Complete
    <3> QED BY <3>1, <3>2
  <2> QED BY <2>3, <2>4, <2>5, <2>6 DEF Followed
<1> QED BY <1>1, <1>2

\* Every step of the handlers, of the parents and of the devices keeps what is said
\* of a request.
LEMMA RequestStep ==
    ASSUME IInv, TypeOK', [Next]_vars, NEW a \in Attempts
    PROVE  Followed(a)'
<1>0. TypeOK /\ \A b \in Attempts : Followed(b)
    BY DEF IInv, Followed
<1>1. ASSUME NEW b \in Attempts, NEW d \in Devices, NEW k \in Kinds, Post(b, d, k)
      PROVE  Followed(a)'
  <2>1. UNCHANGED <<tables, pushed, query, got, audience>>
      BY <1>1 DEF Post
  <2>2. CASE a # b
    <3>1. req'[a] = req[a]
        BY <1>0, <1>1, <2>2, Arrives
    <3> QED BY <1>0, <2>1, <3>1, Undisturbed DEF tables, TypeOK
  <2>3. CASE a = b
    <3>1. /\ req[a].pc = "idle"
          /\ req'[a].pc \in {"store", "alert", "done"}
          /\ req'[a].pc = "store" => k # "unblock"
          /\ req'[a].pc = "alert" => k = "unblock" /\ req'[a].notable
          /\ req'[a].pc = "done" => ~req'[a].notable
          /\ req'[a].kind = k /\ req'[a].dev = d
        BY <1>0, <1>1, <2>3, Arrives
    <3>2. ~Raised(a) /\ a \notin stored /\ pushed[a] = {} /\ ~Raised(a)' /\ created[a] <= clock
        BY <1>0, <2>1, <3>1 DEF Followed, Placed, Addressed, Raised, tables
    <3>3. Placed(a)'
        BY <2>1, <3>1, <3>2 DEF Placed, tables
    <3>4. Backed(a)'
        BY <3>1, <3>2 DEF Backed
    <3>5. Addressed(a)'
        BY <2>1, <3>1, <3>2 DEF Addressed
    <3>6. Complete(a)'
        BY <3>1, <3>2 DEF Complete
    <3> QED BY <3>3, <3>4, <3>5, <3>6 DEF Followed
  <2> QED BY <2>2, <2>3
<1>2. ASSUME NEW b \in Attempts, Store(b)
      PROVE  Followed(a)'
  <2>1. /\ stored' = stored \cup {b}
        /\ UNCHANGED <<present, created, clock, read, fcm, audited, pushed, query, got, audience>>
      BY <1>2, StoreForm DEF Stores
  <2>2. AfterStore(b) \in {"store", "touch", "find", "alert", "tokens", "push", "audit", "done", "cut"}
      BY DEF AfterStore
  <2>3. CASE a # b
    <3>1. req'[a] = req[a]
        BY <1>0, <1>2, <2>2, <2>3, Moves, StoreForm DEF Stores
    <3> QED BY <1>0, <2>1, <2>3, <3>1, Undisturbed DEF TypeOK
  <2>4. CASE a = b
    <3>1. /\ req[a].pc = "store" /\ req'[a].pc = AfterStore(a)
          /\ req'[a].kind = req[a].kind /\ req'[a].dev = req[a].dev
          /\ req'[a].notable = req[a].notable
        BY <1>0, <1>2, <2>2, <2>4, Moves, StoreForm DEF Stores
    <3>2. ~Raised(a) /\ ~Raised(a)' /\ req[a].dev \in Devices /\ created[a] <= clock /\ pushed[a] = {}
        BY <1>0, <2>1, <3>1 DEF Followed, Placed, Addressed, Raised
    <3>3. AfterStore(a) \in {"touch", "alert", "done"} /\ (AfterStore(a) \in {"alert"} => req[a].notable)
          /\ (AfterStore(a) = "done" => ~req[a].notable)
        BY DEF AfterStore
    <3>4. Placed(a)'
        BY <2>1, <3>1, <3>2, <3>3 DEF Placed
    <3>5. Backed(a)'
        BY <2>1, <2>4 DEF Backed
    <3>6. Addressed(a)'
        BY <2>1, <3>1, <3>2, <3>3 DEF Addressed
    <3>7. Complete(a)'
        BY <3>1, <3>2, <3>3 DEF Complete
    <3> QED BY <3>4, <3>5, <3>6, <3>7 DEF Followed
  <2> QED BY <2>3, <2>4
<1>3. ASSUME NEW b \in Attempts, Touch(b)
      PROVE  Followed(a)'
  <2> DEFINE l == IF req[b].notable THEN "find" ELSE "done"
  <2>1. /\ l \in {"store", "touch", "find", "alert", "tokens", "push", "audit", "done", "cut"}
        /\ Step(b, "touch", l) /\ l = IF req[b].notable THEN "find" ELSE "done"
        /\ UNCHANGED <<present, stored, created, clock, fcm, pushed, audited, audience>>
      BY <1>3 DEF Touch, tables
  <2> HIDE DEF l
  <2> QED BY <1>0, <2>1, NextStatement
<1>4. ASSUME NEW b \in Attempts, FindDevice(b)
      PROVE  Followed(a)'
  <2> DEFINE l == IF req[b].dev \in present THEN "alert" ELSE "done"
  <2>1. /\ l \in {"store", "touch", "find", "alert", "tokens", "push", "audit", "done", "cut"}
        /\ Step(b, "find", l) /\ l = IF req[b].dev \in present THEN "alert" ELSE "done"
        /\ UNCHANGED <<present, stored, created, clock, fcm, pushed, audited, audience>>
      BY <1>4 DEF FindDevice, tables
  <2> HIDE DEF l
  <2> QED BY <1>0, <2>1, NextStatement
<1>5. ASSUME NEW b \in Attempts, CreateAlert(b)
      PROVE  Followed(a)'
  <2>1. /\ clock' \in {clock, clock + 1} \ {0}
        /\ created' = [created EXCEPT ![b] = clock']
        /\ audience' = [audience EXCEPT ![b] = fcm \cap ParentsOf(Family(b))]
        /\ UNCHANGED <<present, stored, read, fcm, audited, pushed, query, got>>
      BY <1>5 DEF CreateAlert
  <2>2. clock' >= clock /\ clock' # 0
      BY <1>0, <2>1 DEF TypeOK
  <2>3. CASE a # b
    <3>1. req'[a] = req[a] /\ created'[a] = created[a] /\ audience'[a] = audience[a]
        BY <1>0, <1>5, <2>1, <2>3, Moves DEF CreateAlert, TypeOK
    <3> QED BY <1>0, <2>1, <2>2, <3>1, Undisturbed
  <2>4. CASE a = b
    <3>1. /\ req[a].pc = "alert" /\ req'[a].pc = "tokens"
          /\ req'[a].kind = req[a].kind /\ req'[a].dev = req[a].dev
        BY <1>0, <1>5, <2>4, Moves DEF CreateAlert
    <3>2. created'[a] = clock' /\ audience'[a] = fcm \cap ParentsOf(Family(a)) /\ Raised(a)'
        BY <1>0, <2>1, <2>2, <2>4 DEF TypeOK, Raised
    <3>3. Family(a)' = Family(a)
        BY <3>1 DEF Family
    <3>4. Placed(a)'
        BY <1>0, <3>1, <3>2, <1>5 DEF Followed, Placed, TypeOK
    <3>5. Backed(a)'
        BY <1>0, <2>1, <3>1 DEF Followed, Backed
    <3>6. Addressed(a)'
        BY <1>0, <2>1, <3>1, <3>2, <3>3 DEF Followed, Addressed, ParentsOf
    <3>7. Complete(a)'
        BY <2>1, <3>1, <3>2, <3>3 DEF Complete, ParentsOf
    <3> QED BY <3>4, <3>5, <3>6, <3>7 DEF Followed
  <2> QED BY <2>3, <2>4
<1>6. ASSUME NEW b \in Attempts, ReadTokens(b)
      PROVE  Followed(a)'
  <2> DEFINE to == fcm \cap ParentsOf(Family(b))
  <2>1. /\ req[b].pc = "tokens"
        /\ req' = [req EXCEPT ![b].pc = "push", ![b].to = to]
        /\ UNCHANGED <<tables, pushed, query, got, audience>>
      BY <1>6 DEF ReadTokens
  <2>2. CASE a # b
    <3>1. req'[a] = req[a]
        BY <1>0, <2>1, <2>2 DEF TypeOK
    <3> QED BY <1>0, <2>1, <3>1, Undisturbed DEF tables, TypeOK
  <2>3. CASE a = b
    <3>1. /\ req[a].pc = "tokens" /\ req'[a].pc = "push" /\ req'[a].to = to
          /\ req'[a].kind = req[a].kind /\ req'[a].dev = req[a].dev
          /\ req'[a].notable = req[a].notable
        BY <1>0, <2>1, <2>3 DEF TypeOK, Request
    <3>2. Family(a)' = Family(a) /\ (Raised(a)' <=> Raised(a))
        BY <2>1, <3>1 DEF Family, Raised, tables
    <3>3. Placed(a)'
        BY <1>0, <2>1, <3>1, <3>2 DEF Followed, Placed, tables
    <3>4. Backed(a)'
        BY <1>0, <2>1, <3>1, <3>2 DEF Followed, Backed, tables
    <3>5. Addressed(a)'
        BY <1>0, <2>1, <2>3, <3>1, <3>2 DEF Followed, Addressed, ParentsOf
    <3>6. Complete(a)'
        BY <1>0, <2>1, <2>3, <3>1, <3>2 DEF Followed, Complete, ParentsOf
    <3> QED BY <3>3, <3>4, <3>5, <3>6 DEF Followed
  <2> QED BY <2>2, <2>3
<1>7. ASSUME NEW b \in Attempts, NEW u \in Users, Push(b, u)
      PROVE  Followed(a)'
  <2>1. /\ req[b].pc = "push" /\ u \in req[b].to
        /\ req' = [req EXCEPT ![b].to = @ \ {u}]
        /\ pushed' = [pushed EXCEPT ![b] = @ \cup {u}]
        /\ UNCHANGED <<tables, query, got, audience>>
      BY <1>7 DEF Push
  <2>2. CASE a # b
    <3>1. req'[a] = req[a] /\ pushed'[a] = pushed[a]
        BY <1>0, <2>1, <2>2 DEF TypeOK
    <3> QED BY <1>0, <2>1, <3>1, Undisturbed DEF tables, TypeOK
  <2>3. CASE a = b
    <3>1. /\ req[a].pc = "push" /\ req'[a].pc = "push" /\ req'[a].to = req[a].to \ {u}
          /\ req'[a].kind = req[a].kind /\ req'[a].dev = req[a].dev
          /\ req'[a].notable = req[a].notable
          /\ pushed'[a] = pushed[a] \cup {u}
        BY <1>0, <2>1, <2>3 DEF TypeOK, Request
    <3>2. Family(a)' = Family(a) /\ (Raised(a)' <=> Raised(a))
        BY <2>1, <3>1 DEF Family, Raised, tables
    <3>3. Placed(a)'
        BY <1>0, <2>1, <3>1, <3>2 DEF Followed, Placed, tables
    <3>4. Backed(a)'
        BY <1>0, <2>1, <3>1, <3>2 DEF Followed, Backed, tables
    <3>5. Addressed(a)'
      <4>1. Raised(a) /\ u \in ParentsOf(Family(a))
          BY <1>0, <2>1, <2>3, <3>1 DEF Followed, Addressed, Placed
      <4> QED BY <1>0, <3>1, <3>2, <4>1 DEF Followed, Addressed, ParentsOf
    <3>6. Complete(a)'
        BY <1>0, <2>1, <3>1, <3>2 DEF Followed, Complete, ParentsOf
    <3> QED BY <3>3, <3>4, <3>5, <3>6 DEF Followed
  <2> QED BY <2>2, <2>3
<1>8. ASSUME NEW b \in Attempts, Pushed(b)
      PROVE  Followed(a)'
  <2> DEFINE l == IF req[b].kind \in Audited THEN "audit" ELSE "done"
  <2>1. /\ l \in {"store", "touch", "find", "alert", "tokens", "push", "audit", "done", "cut"}
        /\ Step(b, "push", l) /\ l = IF req[b].kind \in Audited THEN "audit" ELSE "done"
        /\ UNCHANGED <<present, stored, created, clock, fcm, pushed, audited, audience>>
        /\ req[b].to = {}
      BY <1>8 DEF Pushed, tables
  <2> HIDE DEF l
  <2> QED BY <1>0, <2>1, NextStatement
<1>9. ASSUME NEW b \in Attempts, Audit(b)
      PROVE  Followed(a)'
  <2>1. /\ audited' = audited \cup {b}
        /\ UNCHANGED <<present, stored, created, clock, read, fcm, pushed, query, got, audience>>
      BY <1>9 DEF Audit, AuditRow
  <2>2. CASE a # b
    <3>1. req'[a] = req[a]
        BY <1>0, <1>9, <2>2, Moves DEF Audit
    <3> QED BY <1>0, <2>1, <3>1, Undisturbed DEF TypeOK
  <2>3. CASE a = b
    <3>1. /\ req[a].pc = "audit" /\ req'[a].pc = "done"
          /\ req'[a].kind = req[a].kind /\ req'[a].dev = req[a].dev
          /\ req'[a].notable = req[a].notable
        BY <1>0, <1>9, <2>3, Moves DEF Audit
    <3>2. Family(a)' = Family(a) /\ (Raised(a)' <=> Raised(a)) /\ Raised(a)
        BY <1>0, <2>1, <3>1 DEF Family, Raised, Followed, Placed
    <3>3. Placed(a)'
        BY <1>0, <2>1, <3>1, <3>2 DEF Followed, Placed
    <3>4. Backed(a)'
        BY <1>0, <2>1, <3>1, <3>2 DEF Followed, Backed
    <3>5. Addressed(a)'
        BY <1>0, <2>1, <3>1, <3>2 DEF Followed, Addressed, ParentsOf
    <3>6. Complete(a)'
        BY <1>0, <2>1, <2>3, <3>1, <3>2 DEF Followed, Complete
    <3> QED BY <3>3, <3>4, <3>5, <3>6 DEF Followed
  <2> QED BY <2>2, <2>3
<1>10. ASSUME NEW b \in Attempts, Cut(b)
       PROVE  Followed(a)'
  <2>1. /\ req[b].pc \notin {"idle", "done", "cut"}
        /\ req' = [req EXCEPT ![b].pc = "cut", ![b].to = {}]
        /\ UNCHANGED <<tables, pushed, query, got, audience>>
      BY <1>10 DEF Cut
  <2>2. CASE a # b
    <3>1. req'[a] = req[a]
        BY <1>0, <2>1, <2>2 DEF TypeOK
    <3> QED BY <1>0, <2>1, <3>1, Undisturbed DEF tables, TypeOK
  <2>3. CASE a = b
    <3>1. /\ req[a].pc # "idle" /\ req'[a].pc = "cut"
          /\ req'[a].kind = req[a].kind /\ req'[a].dev = req[a].dev
        BY <1>0, <2>1, <2>3 DEF TypeOK, Request
    <3>2. Family(a)' = Family(a) /\ (Raised(a)' <=> Raised(a))
        BY <2>1, <3>1 DEF Family, Raised, tables
    <3>3. Placed(a)'
        BY <1>0, <2>1, <3>1, <3>2 DEF Followed, Placed, tables
    <3>4. Backed(a)'
        BY <1>0, <2>1, <3>1, <3>2 DEF Followed, Backed, tables
    <3>5. Addressed(a)'
        BY <1>0, <2>1, <3>1, <3>2 DEF Followed, Addressed, ParentsOf
    <3>6. Complete(a)'
        BY <3>1 DEF Complete
    <3> QED BY <3>3, <3>4, <3>5, <3>6 DEF Followed
  <2> QED BY <2>2, <2>3
<1>11. ASSUME NEW d \in Devices, Remove(d)
       PROVE  Followed(a)'
  <2>1. /\ present' = present \ {d}
        /\ stored' = {b \in stored : ~(req[b].dev = d /\ req[b].kind \in Referring)}
        /\ UNCHANGED <<created, clock, read, fcm, audited, req, pushed, query, got, audience>>
      BY <1>11 DEF Remove, SetsNull
  <2>2. Family(a)' = Family(a) /\ (Raised(a)' <=> Raised(a))
      BY <2>1 DEF Family, Raised
  <2>3. Placed(a)'
      BY <1>0, <2>1, <2>2 DEF Followed, Placed
  <2>4. Backed(a)'
      BY <1>0, <2>1, <2>2 DEF Followed, Backed
  <2>5. Addressed(a)'
      BY <1>0, <2>1, <2>2 DEF Followed, Addressed, ParentsOf
  <2>6. Complete(a)'
      BY <1>0, <2>1, <2>2 DEF Followed, Complete, ParentsOf
  <2> QED BY <2>3, <2>4, <2>5, <2>6 DEF Followed
<1>12. ASSUME NEW u \in Users, SetFcmToken(u)
       PROVE  Followed(a)'
    BY <1>0, <1>12, Undisturbed DEF SetFcmToken, TypeOK
<1>13. ASSUME NEW u \in Users, NEW b \in Attempts, MarkRead(u, b)
       PROVE  Followed(a)'
    BY <1>0, <1>13, Undisturbed DEF MarkRead, TypeOK
<1>14. ASSUME NEW u \in Users, NEW d \in Devices, GetForFamily(u, d)
       PROVE  Followed(a)'
    BY <1>0, <1>14, Undisturbed DEF GetForFamily, tables, TypeOK
<1>15. ASSUME NEW u \in Users, ListForDevice(u)
       PROVE  Followed(a)'
    BY <1>0, <1>15, Undisturbed, ListForm DEF Answer, tables, TypeOK
<1>16. ASSUME NEW u \in Users, ListForFamily(u)
       PROVE  Followed(a)'
    BY <1>0, <1>16, Undisturbed DEF ListForFamily, tables, TypeOK
<1>17. CASE UNCHANGED vars
    BY <1>0, <1>17, Undisturbed DEF vars, tables, TypeOK
<1> QED BY <1>1, <1>2, <1>3, <1>4, <1>5, <1>6, <1>7, <1>8, <1>9, <1>10, <1>11, <1>12, <1>13,
           <1>14, <1>15, <1>16, <1>17 DEF Next, Serve

\* A query asks the family first, and what it read stays the family's: requests
\* do not change their device once it is known.
LEMMA QueryStep ==
    ASSUME IInv, TypeOK', [Next]_vars, NEW u \in Users
    PROVE  Asked(u)'
<1>0. TypeOK /\ Asked(u) /\ \A b \in Attempts : Placed(b)
    BY DEF IInv
<1>1. ASSUME query'[u] = query[u], got'[u] = got[u],
             \A a \in got[u] : req[a].pc # "idle" => req'[a].dev = req[a].dev /\ req'[a].pc # "idle"
      PROVE  Asked(u)'
    BY <1>0, <1>1 DEF Asked, Family
<1>2. ASSUME NEW b \in Attempts, NEW d \in Devices, NEW k \in Kinds, Post(b, d, k)
      PROVE  Asked(u)'
  <2>1. UNCHANGED <<query, got>> /\ got[u] \subseteq Attempts
      BY <1>0, <1>2 DEF Post, TypeOK
  <2>2. \A a \in Attempts : req[a].pc # "idle" => req'[a] = req[a]
      BY <1>0, <1>2, Arrives
  <2> QED BY <1>1, <2>1, <2>2
<1>3. ASSUME NEW b \in Attempts, Serve(b)
      PROVE  Asked(u)'
  <2>1. UNCHANGED <<query, got>> /\ got[u] \subseteq Attempts
      BY <1>0, <1>3, StoreForm DEF Serve, TypeOK, Stores, Touch, FindDevice, CreateAlert, ReadTokens, Push,
                        Pushed, Audit, Cut
  <2>2. \E r : req' = [req EXCEPT ![b] = r] /\ r.dev = req[b].dev /\ r.pc # "idle"
    <3>1. ASSUME NEW l, NEW m, m # "idle", Step(b, l, m)
          PROVE  \E r : req' = [req EXCEPT ![b] = r] /\ r.dev = req[b].dev /\ r.pc # "idle"
      <4> DEFINE r == [req[b] EXCEPT !.pc = m]
      <4>1. req' = [req EXCEPT ![b] = r]
          BY <3>1 DEF Step
      <4>2. r.dev = req[b].dev /\ r.pc # "idle"
          BY <1>0, <3>1 DEF TypeOK, Request
      <4> QED BY <4>1, <4>2
    <3>2. CASE Store(b)
        BY <3>1, <3>2, StoreForm DEF Stores, AfterStore
    <3>3. CASE Touch(b)
        BY <3>1, <3>3 DEF Touch
    <3>4. CASE FindDevice(b)
        BY <3>1, <3>4 DEF FindDevice
    <3>5. CASE CreateAlert(b)
        BY <3>1, <3>5 DEF CreateAlert
    <3>6. CASE ReadTokens(b)
      <4> DEFINE r == [req[b] EXCEPT !.pc = "push", !.to = fcm \cap ParentsOf(Family(b))]
      <4>1. req' = [req EXCEPT ![b] = r]
          BY <1>0, <3>6 DEF ReadTokens, TypeOK
      <4>2. r.dev = req[b].dev /\ r.pc # "idle"
          BY <1>0 DEF TypeOK, Request
      <4> QED BY <4>1, <4>2
    <3>7. CASE Pushed(b)
        BY <3>1, <3>7 DEF Pushed
    <3>8. CASE Audit(b)
        BY <3>1, <3>8 DEF Audit
    <3>9. CASE Cut(b)
      <4> DEFINE r == [req[b] EXCEPT !.pc = "cut", !.to = {}]
      <4>1. req' = [req EXCEPT ![b] = r]
          BY <1>0, <3>9 DEF Cut, TypeOK
      <4>2. r.dev = req[b].dev /\ r.pc # "idle"
          BY <1>0 DEF TypeOK, Request
      <4> QED BY <4>1, <4>2
    <3>10. ASSUME NEW v \in Users, Push(b, v)
           PROVE  \E r : req' = [req EXCEPT ![b] = r] /\ r.dev = req[b].dev /\ r.pc # "idle"
      <4> DEFINE r == [req[b] EXCEPT !.to = req[b].to \ {v}]
      <4>1. req' = [req EXCEPT ![b] = r]
          BY <1>0, <3>10 DEF Push, TypeOK
      <4>2. r.dev = req[b].dev /\ r.pc # "idle"
          BY <1>0, <3>10 DEF TypeOK, Request, Push
      <4> QED BY <4>1, <4>2
    <3> QED BY <1>3, <3>2, <3>3, <3>4, <3>5, <3>6, <3>7, <3>8, <3>9, <3>10 DEF Serve
  <2>3. PICK r : req' = [req EXCEPT ![b] = r] /\ r.dev = req[b].dev /\ r.pc # "idle"
      BY <2>2
  <2>4. \A a \in Attempts : req[a].pc # "idle" => req'[a].dev = req[a].dev /\ req'[a].pc # "idle"
      BY <1>0, <2>3 DEF TypeOK
  <2> QED BY <1>1, <2>1, <2>4
<1>4. ASSUME NEW v \in Users, NEW d \in Devices, GetForFamily(v, d)
      PROVE  Asked(u)'
    BY <1>0, <1>4 DEF GetForFamily, Asked, Owns, TypeOK, Family
<1>5. ASSUME NEW v \in Users, ListForDevice(v)
      PROVE  Asked(u)'
  <2>0. PICK rows \in SUBSET {a \in stored : req[a].dev = query[v]} : Answer(v, rows)
      BY <1>5, ListForm
  <2>1. /\ query[v] # None /\ UNCHANGED <<tables, req>>
        /\ got' = [got EXCEPT ![v] = rows]
        /\ query' = [query EXCEPT ![v] = None]
      BY <2>0 DEF Answer
  <2>2. \A a \in stored : req[a].pc # "idle"
      BY <1>0 DEF Placed, TypeOK
  <2>3. CASE u = v
      BY <1>0, <2>1, <2>2, <2>3 DEF Asked, TypeOK, Family
  <2>4. CASE u # v
      BY <1>0, <2>1, <2>4 DEF Asked, TypeOK, Family
  <2> QED BY <2>3, <2>4
<1>6. ASSUME NEW d \in Devices, Remove(d)
      PROVE  Asked(u)'
    BY <1>1, <1>6 DEF Remove
<1>7. ASSUME NEW v \in Users, SetFcmToken(v)
      PROVE  Asked(u)'
    BY <1>1, <1>7 DEF SetFcmToken
<1>8. ASSUME NEW v \in Users, NEW a \in Attempts, MarkRead(v, a)
      PROVE  Asked(u)'
    BY <1>1, <1>8 DEF MarkRead
<1>9. CASE UNCHANGED vars
    BY <1>1, <1>9 DEF vars
<1>10. ASSUME NEW v \in Users, ListForFamily(v)
       PROVE  Asked(u)'
  <2>1. PICK page \in SUBSET Feed(FamilyOf[v]) :
            got' = [got EXCEPT ![v] = page] /\ UNCHANGED <<query, req>>
      BY <1>10 DEF ListForFamily, Newest
  <2>2. \A a \in page : req[a].pc # "idle" /\ Family(a) = FamilyOf[v]
      BY <1>0 DEF Placed, Feed
  <2>3. CASE u = v
      BY <1>0, <2>1, <2>2, <2>3 DEF Asked, TypeOK, Family
  <2>4. CASE u # v
      BY <1>0, <2>1, <2>4 DEF Asked, TypeOK, Family
  <2> QED BY <2>3, <2>4
<1> QED BY <1>2, <1>3, <1>4, <1>5, <1>6, <1>7, <1>8, <1>9, <1>10 DEF Next

-----------------------------------------------------------------------------

THEOREM Invariance == Spec => []IInv
<1>1. Init => IInv
  <2> SUFFICES ASSUME Init PROVE IInv
      OBVIOUS
  <2>1. NoRequest \in Request
      BY DEF NoRequest, Request, Kinds
  <2>2. TypeOK
      BY <2>1 DEF Init, TypeOK
  <2>3. \A a \in Attempts : req[a] = NoRequest /\ created[a] = 0 /\ pushed[a] = {}
      BY DEF Init
  <2>4. \A a \in Attempts : Placed(a) /\ Backed(a) /\ Addressed(a) /\ Complete(a)
      BY <2>3 DEF Init, Placed, Backed, Addressed, Complete, Raised, NoRequest
  <2>5. \A u \in Users : Asked(u)
      BY DEF Init, Asked
  <2> QED BY <2>2, <2>4, <2>5 DEF IInv
<1>2. IInv /\ [Next]_vars => IInv'
  <2> SUFFICES ASSUME IInv, [Next]_vars PROVE IInv'
      OBVIOUS
  <2>1. TypeOK'
      BY TypeStep DEF IInv
  <2>2. \A a \in Attempts : Followed(a)'
      BY <2>1, RequestStep
  <2>3. \A u \in Users : Asked(u)'
      BY <2>1, QueryStep
  <2> QED BY <2>1, <2>2, <2>3 DEF IInv, Followed
<1> QED BY <1>1, <1>2, PTL DEF Spec

\* The model of the reporting handlers and of the alerts is well typed.
THEOREM TypeCorrect == Spec => []TypeOK
BY Invariance, PTL DEF IInv

\* A handler that answers has stored the rows, raised the alert, tried the push of
\* every parent with a token and written the audit row.
THEOREM NothingSkipped == Spec => []AnsweredIsComplete
<1>1. IInv => AnsweredIsComplete
  <2> SUFFICES ASSUME IInv, NEW a \in Attempts,
                      req[a].pc = "done", req[a].dev \in present, req[a].notable
               PROVE  /\ Raised(a)
                      /\ req[a].kind # "unblock" => a \in stored
                      /\ audience[a] \subseteq pushed[a]
                      /\ req[a].kind \in Audited => a \in audited
      BY DEF AnsweredIsComplete
  <2> QED BY DEF IInv, Backed, Complete
<1> QED BY Invariance, <1>1, PTL

\* No alert is about rows that were never stored, wherever a handler was cut off.
THEOREM AlertsAreBacked == Spec => []AlertBacked
<1>1. IInv => AlertBacked
    BY DEF IInv, Backed, AlertBacked
<1> QED BY Invariance, <1>1, PTL

\* The check of a query covers what it reads afterwards, and lists and pushes stay
\* within the family.
THEOREM FamiliesApart == Spec => []OwnRowsOnly
<1>1. IInv => OwnRowsOnly
  <2> SUFFICES ASSUME IInv, NEW u \in Users
               PROVE  /\ \A a \in got[u] : Family(a) = FamilyOf[u]
                      /\ \A a \in Attempts : u \in pushed[a] => Family(a) = FamilyOf[u]
      BY DEF OwnRowsOnly
  <2>1. \A a \in got[u] : Family(a) = FamilyOf[u]
      BY DEF IInv, Asked
  <2>2. \A a \in Attempts : u \in pushed[a] => Family(a) = FamilyOf[u]
      BY DEF IInv, Addressed, ParentsOf
  <2> QED BY <2>1, <2>2
<1> QED BY Invariance, <1>1, PTL

-----------------------------------------------------------------------------

\* Where every request stays in its phase and no alert is new, the feed is as it was.
LEMMA Stutters ==
    ASSUME UNCHANGED <<created, read>>,
           \A a \in Attempts : req'[a].notable = req[a].notable,
           \A a \in Attempts : ~Raised(a) /\ req[a].notable =>
               (req'[a].pc \in {"done", "cut"} <=> req[a].pc \in {"done", "cut"})
    PROVE  UNCHANGED ToParents!vars
<1>1. \A a \in Attempts : Raised(a)' <=> Raised(a)
    BY DEF Raised
<1>2. phase' = phase
    BY <1>1 DEF phase
<1> QED BY <1>2 DEF ToParents!vars

\* Every step of the backend is one of the feed, or leaves the feed alone.
LEMMA FeedStep ==
    ASSUME IInv, [Next]_vars
    PROVE  [ToParents!Next]_ToParents!vars
<1>0. TypeOK /\ TypeOK' /\ \A b \in Attempts : Placed(b)
    BY TypeStep DEF IInv
<1>1. ASSUME NEW a \in Attempts, UNCHANGED <<created, read>>, ~Raised(a),
             \A b \in Attempts \ {a} : req'[b] = req[b],
             req[a].notable, req[a].pc \notin {"done", "cut"},
             req'[a].notable, req'[a].pc \in {"done", "cut"}
      PROVE  ToParents!Drop(a)
  <2>1. \A b \in Attempts : Raised(b)' <=> Raised(b)
      BY <1>1 DEF Raised
  <2>2. phase[a] = "owed" /\ phase'[a] = "dropped"
      BY <1>1, <2>1 DEF phase
  <2>3. \A b \in Attempts \ {a} : phase'[b] = phase[b]
      BY <1>1, <2>1 DEF phase
  <2>4. phase' = [phase EXCEPT ![a] = "dropped"]
      BY <2>2, <2>3 DEF phase
  <2> QED BY <1>1, <2>2, <2>4 DEF ToParents!Drop, ToParents!Moves
<1>2. ASSUME NEW a \in Attempts, NEW d \in Devices, NEW k \in Kinds, Post(a, d, k)
      PROVE  ToParents!Accept(a) \/ UNCHANGED ToParents!vars
  <2>1. /\ req[a].pc = "idle"
        /\ req'[a].pc \in {"store", "alert", "done"}
        /\ req'[a].pc = "done" => ~req'[a].notable
        /\ \A b \in Attempts \ {a} : req'[b] = req[b]
      BY <1>0, <1>2, Arrives
  <2>2. UNCHANGED <<created, read>> /\ ~Raised(a) /\ ~req[a].notable
      BY <1>0, <1>2, <2>1 DEF Post, tables, Placed
  <2>3. \A b \in Attempts : Raised(b)' <=> Raised(b)
      BY <2>2 DEF Raised
  <2>4. \A b \in Attempts \ {a} : phase'[b] = phase[b]
      BY <2>1, <2>3 DEF phase
  <2>5. phase[a] = "new"
      BY <2>2 DEF phase
  <2>6. CASE req'[a].notable
    <3>1. phase'[a] = "owed"
        BY <2>1, <2>2, <2>3, <2>6 DEF phase
    <3>2. phase' = [phase EXCEPT ![a] = "owed"]
        BY <2>4, <3>1 DEF phase
    <3> QED BY <2>2, <2>5, <3>2 DEF ToParents!Accept, ToParents!Moves
  <2>7. CASE ~req'[a].notable
    <3>1. phase'[a] = "new"
        BY <2>2, <2>3, <2>7 DEF phase
    <3>2. phase' = phase
        BY <2>4, <2>5, <3>1 DEF phase
    <3> QED BY <2>2, <3>2 DEF ToParents!vars
  <2> QED BY <2>6, <2>7
<1>3. ASSUME NEW a \in Attempts, NEW from, NEW to \in {"touch", "find", "alert", "audit", "done"},
             Step(a, from, to), UNCHANGED <<created, read>>,
             from # "done" /\ from # "cut",
             to = "done" => ~req[a].notable \/ Raised(a)
      PROVE  UNCHANGED ToParents!vars
  <2>1. /\ req[a].pc = from /\ req'[a].pc = to /\ req'[a].notable = req[a].notable
        /\ \A b \in Attempts \ {a} : req'[b] = req[b]
      BY <1>0, <1>3, Moves
  <2> QED BY <1>3, <2>1, Stutters
<1>4. ASSUME NEW a \in Attempts, Store(a)
      PROVE  UNCHANGED ToParents!vars
  <2>1. /\ AfterStore(a) \in {"touch", "find", "alert", "audit", "done"}
        /\ AfterStore(a) = "done" => ~req[a].notable
      BY DEF AfterStore
  <2> QED BY <1>3, <1>4, <2>1, StoreForm DEF Stores
<1>5. ASSUME NEW a \in Attempts, Touch(a)
      PROVE  UNCHANGED ToParents!vars
  <2> DEFINE l == IF req[a].notable THEN "find" ELSE "done"
  <2>1. /\ l \in {"touch", "find", "alert", "audit", "done"} /\ (l = "done" => ~req[a].notable)
        /\ Step(a, "touch", l) /\ UNCHANGED <<created, read>>
      BY <1>0, <1>5 DEF Touch, tables, TypeOK, Request
  <2> HIDE DEF l
  <2> QED BY <1>3, <2>1
<1>6. ASSUME NEW a \in Attempts, FindDevice(a)
      PROVE  ToParents!Drop(a) \/ UNCHANGED ToParents!vars
  <2>1. req[a].pc = "find" /\ UNCHANGED <<created, read>> /\ req[a].notable /\ ~Raised(a)
      BY <1>0, <1>6 DEF FindDevice, Step, tables, Placed
  <2>2. CASE req[a].dev \in present
      BY <1>3, <1>6, <2>1, <2>2 DEF FindDevice
  <2>3. CASE req[a].dev \notin present
    <3>1. Step(a, "find", "done")
        BY <1>6, <2>3 DEF FindDevice
    <3>2. /\ req'[a].pc = "done" /\ req'[a].notable
          /\ \A b \in Attempts \ {a} : req'[b] = req[b]
        BY <1>0, <2>1, <3>1, Moves
    <3> QED BY <1>1, <2>1, <3>2
  <2> QED BY <2>2, <2>3
<1>7. ASSUME NEW a \in Attempts, CreateAlert(a)
      PROVE  ToParents!Raise(a)
  <2>1. /\ req[a].pc = "alert" /\ req'[a].notable = req[a].notable
        /\ \A b \in Attempts \ {a} : req'[b] = req[b]
      BY <1>0, <1>7, Moves DEF CreateAlert
  <2>2. /\ created' = [created EXCEPT ![a] = clock']
        /\ UNCHANGED read /\ clock \in Nat /\ clock' \in Nat \ {0} /\ clock <= clock'
        /\ \A b \in Attempts : created[b] \in Nat /\ created[b] <= clock
      BY <1>0, <1>7 DEF CreateAlert, TypeOK, Placed
  <2>3. created'[a] = clock' /\ \A b \in Attempts \ {a} : created'[b] = created[b]
      BY <1>0, <2>2 DEF TypeOK
  <2>4. phase[a] = "owed"
      BY <1>0, <2>1 DEF phase, Placed
  <2>5. phase'[a] = "raised"
      BY <2>2, <2>3 DEF phase, Raised
  <2>6. \A b \in Attempts \ {a} : phase'[b] = phase[b]
      BY <2>1, <2>3 DEF phase, Raised
  <2>7. phase' = [phase EXCEPT ![a] = "raised"]
      BY <2>5, <2>6 DEF phase
  <2>8. created'[a] # 0 /\ \A b \in Attempts : created[b] <= created'[a]
      BY <2>2, <2>3
  <2> QED BY <2>2, <2>3, <2>4, <2>7, <2>8 DEF ToParents!Raise, ToParents!Moves
<1>8. ASSUME NEW a \in Attempts, ReadTokens(a) \/ \E u \in Users : Push(a, u)
      PROVE  UNCHANGED ToParents!vars
  <2>1. Raised(a) /\ UNCHANGED <<created, read>>
      BY <1>0, <1>8 DEF ReadTokens, Push, tables, Placed
  <2>2. \A b \in Attempts : req'[b].notable = req[b].notable /\ (b # a => req'[b] = req[b])
      BY <1>0, <1>8 DEF ReadTokens, Push, TypeOK, Request
  <2> QED BY <2>1, <2>2, Stutters
<1>9. ASSUME NEW a \in Attempts, Pushed(a)
      PROVE  UNCHANGED ToParents!vars
  <2> DEFINE l == IF req[a].kind \in Audited THEN "audit" ELSE "done"
  <2>1. /\ l \in {"touch", "find", "alert", "audit", "done"} /\ Raised(a)
        /\ Step(a, "push", l) /\ UNCHANGED <<created, read>>
      BY <1>0, <1>9 DEF Pushed, Step, tables, Placed
  <2> HIDE DEF l
  <2> QED BY <1>3, <2>1
<1>10. ASSUME NEW a \in Attempts, Audit(a)
       PROVE  UNCHANGED ToParents!vars
  <2>1. Raised(a) /\ Step(a, "audit", "done") /\ UNCHANGED <<created, read>>
      BY <1>0, <1>10 DEF Audit, Step, Placed
  <2> QED BY <1>3, <2>1
<1>11. ASSUME NEW a \in Attempts, Cut(a)
       PROVE  ToParents!Drop(a) \/ UNCHANGED ToParents!vars
  <2>1. /\ req[a].pc \notin {"done", "cut"} /\ UNCHANGED <<created, read>>
        /\ req'[a].pc = "cut" /\ req'[a].notable = req[a].notable
        /\ \A b \in Attempts \ {a} : req'[b] = req[b]
      BY <1>0, <1>11 DEF Cut, tables, TypeOK, Request
  <2>2. CASE req[a].notable /\ ~Raised(a)
      BY <1>1, <2>1, <2>2
  <2>3. CASE ~req[a].notable \/ Raised(a)
      BY <2>1, <2>3, Stutters
  <2> QED BY <2>2, <2>3
<1>12. ASSUME NEW d \in Devices, Remove(d)
       PROVE  UNCHANGED ToParents!vars
    BY <1>12, Stutters DEF Remove, SetsNull
<1>13. ASSUME NEW u \in Users, SetFcmToken(u)
       PROVE  UNCHANGED ToParents!vars
    BY <1>13, Stutters DEF SetFcmToken
<1>14. ASSUME NEW u \in Users, NEW a \in Attempts, MarkRead(u, a)
       PROVE  ToParents!Read(a)
  <2>1. UNCHANGED <<created, req>> /\ read' = read \cup {a} /\ Raised(a)
      BY <1>14 DEF MarkRead, Feed
  <2>2. phase' = phase /\ phase[a] = "raised"
      BY <2>1 DEF phase, Raised
  <2> QED BY <2>1, <2>2 DEF ToParents!Read
<1>15. ASSUME NEW u \in Users, NEW d \in Devices, GetForFamily(u, d)
       PROVE  UNCHANGED ToParents!vars
    BY <1>15, Stutters DEF GetForFamily, tables
<1>16. ASSUME NEW u \in Users, ListForDevice(u)
       PROVE  UNCHANGED ToParents!vars
    BY <1>16, Stutters, ListForm DEF Answer, tables
<1>17. ASSUME NEW u \in Users, ListForFamily(u)
       PROVE  UNCHANGED ToParents!vars
    BY <1>17, Stutters DEF ListForFamily, tables
<1>18. CASE UNCHANGED vars
    BY <1>18, Stutters DEF vars, tables
<1> QED BY <1>2, <1>4, <1>5, <1>6, <1>7, <1>8, <1>9, <1>10, <1>11, <1>12, <1>13, <1>14, <1>15,
           <1>16, <1>17, <1>18 DEF Next, Serve, ToParents!Next

\* The handlers, interleaved and cut off anywhere, implement the feed that keeps its
\* alerts in the order they were raised: the safety part of FeedIsKept.
THEOREM FeedRefinement == Spec => ToParents!Safe
<1>1. Init => ToParents!Init
    BY DEF Init, ToParents!Init, phase, Raised, NoRequest
<1>2. IInv /\ [Next]_vars => [ToParents!Next]_ToParents!vars
    BY FeedStep
<1> QED BY <1>1, <1>2, Invariance, PTL DEF Spec, ToParents!Safe

=============================================================================
