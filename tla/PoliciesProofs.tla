--------------------------- MODULE PoliciesProofs ---------------------------
(***************************************************************************)
(* What holds of a family's policy for every number of concurrent updates, *)
(* devices, syncs and versions. The invariant IInv of Policies is          *)
(* inductive: one lemma for each of its conjuncts, with a step for each    *)
(* action or, where most actions do the same to a conjunct, for each kind  *)
(* of step. OrderInv adds what holds while updates have not overlapped.    *)
(* NeverOlderPolicy, NewestIsComing and DevicesFollow follow from the two. *)
(***************************************************************************)
EXTENDS Policies, FiniteSetTheorems, TLAPS

\* Turns are numbers.
LEMMA TurnsAreNat ==
    ASSUME TypeOK, NEW p \in Devices
    PROVE  /\ IsFiniteSet(Made(p))
           /\ Cardinality(Made(p)) \in Nat
           /\ NextTurn(p) \in Nat \ {0}
<1>1. IsFiniteSet(Versions)
    BY FS_Interval, MaxVersionIsNat DEF Versions
<1>2. IsFiniteSet(Made(p))
    BY <1>1, FS_Subset DEF Made
<1> QED
    BY <1>2, FS_CardinalityType DEF NextTurn

\* The version of an update in progress.
LEMMA TypesOfVersions ==
    ASSUME TypeOK, UpdatesLinked, NEW u \in Updates, upc[u] # "idle"
    PROVE  ver[u] \in Versions
BY DEF UpdatesLinked

-----------------------------------------------------------------------------
(* Types *)

\* Every step of an update keeps the types.
LEMMA UpdateTypes ==
    ASSUME TypeOK, UpdatesLinked, SendersLinked, NEW u \in Updates, Update(u)
    PROVE  TypeOK'
<1> USE MaxVersionIsNat DEF TypeOK, Versions, updateVars, commandVars, deviceVars, historyVars
<1>1. ASSUME ReadLatest(u)
      PROVE  TypeOK'
    BY <1>1 DEF ReadLatest, Following
<1>2. ASSUME Deactivate(u)
      PROVE  TypeOK'
    BY <1>2 DEF Deactivate, Deactivated
<1>3. ASSUME Create(u)
      PROVE  TypeOK'
    BY <1>3 DEF Create, NewRow
<1>4. ASSUME CreateRejected(u)
      PROVE  TypeOK'
  <2>1. upc' \in [Updates -> {"idle", "deactivate", "create", "list", "push"}]
      BY <1>4 DEF CreateRejected
  <2>2. ver' \in [Updates -> 0..MaxVersion]
      BY <1>4 DEF CreateRejected
  <2> QED
      BY <1>4, <2>1, <2>2 DEF CreateRejected
<1>5. ASSUME ListDevices(u)
      PROVE  TypeOK'
    BY <1>5 DEF ListDevices, Recipients
<1>6. ASSUME NEW p \in Devices, PushTo(u, p)
      PROVE  TypeOK'
  <2>1. ver[u] \in Versions /\ NextTurn(p) \in Nat
      BY <1>6, TypesOfVersions, TurnsAreNat DEF PushTo
  <2> QED
      BY <1>6, <2>1 DEF PushTo
<1>7. ASSUME NEW p \in Devices, PushFails(u, p)
      PROVE  TypeOK'
  <2>1. ver[u] \in Versions
      BY <1>7, TypesOfVersions DEF PushFails
  <2> QED
      BY <1>7, <2>1 DEF PushFails
<1>8. ASSUME NEW p \in Devices, Mark(u, p)
      PROVE  TypeOK'
  <2>1. ver[u] \in Versions
      BY <1>8, TypesOfVersions DEF Mark, SendersLinked
  <2> QED
      BY <1>8, <2>1 DEF Mark
<1>9. ASSUME NEW p \in Devices, MarkFails(u, p)
      PROVE  TypeOK'
    BY <1>9 DEF MarkFails
<1>10. ASSUME Finish(u)
      PROVE  TypeOK'
  <2>1. ver[u] \in Versions
      BY <1>10, TypesOfVersions DEF Finish
  <2>2. trail' \in SUBSET Versions
      BY <1>10, <2>1 DEF Finish
  <2>3. ver' \in [Updates -> 0..MaxVersion]
      BY <1>10 DEF Finish
  <2>4. upc' \in [Updates -> {"idle", "deactivate", "create", "list", "push"}]
      BY <1>10 DEF Finish
  <2> QED
      BY <1>10, <2>2, <2>3, <2>4 DEF Finish
<1> QED
    BY <1>1, <1>2, <1>3, <1>4, <1>5, <1>6, <1>7, <1>8, <1>9, <1>10 DEF Update

\* Syncs that end keep the types.
LEMMA EndTypes ==
    ASSUME TypeOK, \A s \in Syncs : SyncLinked(s), NEW p \in Devices,
           NEW ss, ss \subseteq Syncs, End(p, ss)
    PROVE  /\ late' \in [Devices -> SUBSET Versions]
           /\ pc' \in [Syncs -> {"idle", "finding", "next", "execute", "posting"}]
           /\ todo' \in [Syncs -> SUBSET Versions]
           /\ cur' \in [Syncs -> 0..MaxVersion]
<1> USE MaxVersionIsNat, OnIsMap DEF TypeOK
<1>1. ASSUME NEW s \in Syncs
      PROVE  InFlight(s) \subseteq Versions
    BY <1>1 DEF InFlight, SyncLinked
<1>2. UNION {InFlight(s) : s \in ss} \subseteq Versions
    BY <1>1
<1>3. late' \in [Devices -> SUBSET Versions]
  <2>1. PICK vs \in SUBSET UNION {InFlight(s) : s \in ss} :
          late' = [late EXCEPT ![p] = @ \cup vs]
      BY DEF End
  <2>2. vs \subseteq Versions
      BY <1>2, <2>1
  <2> QED
      BY <2>1, <2>2
<1>4. pc' \in [Syncs -> {"idle", "finding", "next", "execute", "posting"}]
    BY DEF End
<1>5. todo' \in [Syncs -> SUBSET Versions]
    BY DEF End
<1>6. cur' \in [Syncs -> 0..MaxVersion]
    BY DEF End
<1> QED
    BY <1>3, <1>4, <1>5, <1>6

\* Every step of a sync keeps the types.
LEMMA SyncTypes ==
    ASSUME TypeOK, \A t \in Syncs : SyncLinked(t), NEW s \in Syncs, Sync(s)
    PROVE  TypeOK'
<1> USE MaxVersionIsNat, OnIsMap DEF TypeOK, Versions, updateVars, commandVars, deviceVars, historyVars
<1>p. On[s] \in Devices
    OBVIOUS
<1>1. ASSUME PullExpire(s)
      PROVE  TypeOK'
  <2> DEFINE p == On[s]
  <2>1. PICK n \in overdue[p]..Cardinality(Made(p)) :
          /\ overdue' = [overdue EXCEPT ![p] = n]
          /\ out' = [out EXCEPT ![p] = @ \ Stale(p, n)]
          /\ lost' = [lost EXCEPT ![p] = @ \cup (Stale(p, n) \ (Held(p) \cup ran[p]))]
      BY <1>1 DEF PullExpire
  <2>2. n \in Nat /\ Stale(p, n) \subseteq Versions
      BY <1>p, <2>1, TurnsAreNat DEF Stale
  <2>3. overdue' \in [Devices -> Nat] /\ out' \in [Devices -> SUBSET Versions]
      BY <1>p, <2>1, <2>2
  <2>4. lost' \in [Devices -> SUBSET Versions]
      BY <1>p, <2>1, <2>2
  <2>5. pc' \in [Syncs -> {"idle", "finding", "next", "execute", "posting"}]
      BY <1>1 DEF PullExpire
  <2> QED
      BY <1>1, <2>3, <2>4, <2>5 DEF PullExpire
<1>2. ASSUME PullFind(s)
      PROVE  TypeOK'
  <2>1. disturbed' \in [Devices -> SUBSET Versions]
      BY <1>2 DEF PullFind, Held, InHand
  <2> QED
      BY <1>2, <2>1 DEF PullFind
<1>3. ASSUME Ack(s)
      PROVE  TypeOK'
  <2>1. cur' \in [Syncs -> 0..MaxVersion] /\ out' \in [Devices -> SUBSET Versions]
      BY <1>3, <1>p DEF Ack
  <2>2. pc' \in [Syncs -> {"idle", "finding", "next", "execute", "posting"}]
      BY <1>3 DEF Ack
  <2> QED
      BY <1>3, <2>1, <2>2 DEF Ack
<1>4. ASSUME AckLost(s)
      PROVE  TypeOK'
  <2>1. cur' \in [Syncs -> 0..MaxVersion] /\ late' \in [Devices -> SUBSET Versions]
      BY <1>4, <1>p DEF AckLost
  <2>2. disturbed' \in [Devices -> SUBSET Versions]
      BY <1>4, <1>p DEF AckLost
  <2>3. pc' \in [Syncs -> {"idle", "finding", "next", "execute", "posting"}]
      BY <1>4 DEF AckLost
  <2> QED
      BY <1>4, <2>1, <2>2, <2>3 DEF AckLost
<1>5. ASSUME Execute(s)
      PROVE  TypeOK'
  <2>1. cur[s] \in Versions
      BY <1>5 DEF Execute, SyncLinked, Oldest
  <2>2. /\ applied' \in [Devices -> 0..MaxVersion]
        /\ ran' \in [Devices -> SUBSET Versions]
        /\ unsaved' \in [Devices -> SUBSET Versions]
      BY <1>5, <1>p, <2>1 DEF Execute
  <2>3. /\ lost' \in [Devices -> SUBSET Versions]
        /\ todo' \in [Syncs -> SUBSET Versions]
        /\ pc' \in [Syncs -> {"idle", "finding", "next", "execute", "posting"}]
      BY <1>5, <1>p, <2>1 DEF Execute
  <2> QED
      BY <1>5, <2>2, <2>3 DEF Execute
<1>6. ASSUME Post(s)
      PROVE  TypeOK'
  <2>1. out' \in [Devices -> SUBSET Versions] /\ cur' \in [Syncs -> 0..MaxVersion]
      BY <1>6, <1>p DEF Post
  <2>2. pc' \in [Syncs -> {"idle", "finding", "next", "execute", "posting"}]
      BY <1>6 DEF Post
  <2> QED
      BY <1>6, <2>1, <2>2 DEF Post
<1>7. ASSUME Stop(s)
      PROVE  TypeOK'
  <2>1. lost' \in [Devices -> SUBSET Versions]
      BY <1>7, <1>p DEF Stop, Dropped, InHand
  <2>2. End(On[s], {s}) /\ {s} \subseteq Syncs
      BY <1>7 DEF Stop
  <2>3. /\ late' \in [Devices -> SUBSET Versions]
        /\ pc' \in [Syncs -> {"idle", "finding", "next", "execute", "posting"}]
        /\ todo' \in [Syncs -> SUBSET Versions]
        /\ cur' \in [Syncs -> 0..MaxVersion]
    <3> HIDE DEF TypeOK, Versions
    <3> QED
        BY <1>p, <2>2, EndTypes
  <2> QED
      BY <1>7, <2>1, <2>3 DEF Stop
<1> QED
    BY <1>1, <1>2, <1>3, <1>4, <1>5, <1>6, <1>7 DEF Sync

\* Every other step keeps the types.
LEMMA OtherTypes ==
    ASSUME TypeOK, \A s \in Syncs : SyncLinked(s),
           \/ Crash
           \/ UNCHANGED vars
           \/ \E p \in Devices : Pair(p) \/ App(p)
    PROVE  TypeOK'
<1> USE MaxVersionIsNat DEF TypeOK, Versions, updateVars, commandVars, deviceVars, historyVars
<1>1. CASE Crash
  <2>1. lost' \in [Devices -> SUBSET Versions] /\ late' \in [Devices -> SUBSET Versions]
      BY <1>1 DEF Crash
  <2>2. /\ upc' \in [Updates -> {"idle", "deactivate", "create", "list", "push"}]
        /\ ver' \in [Updates -> 0..MaxVersion]
      BY <1>1 DEF Crash
  <2>3. /\ pending' \in [Updates -> SUBSET Devices]
        /\ marking' \in [Updates -> SUBSET Devices]
        /\ alone' \in BOOLEAN
      BY <1>1 DEF Crash
  <2> QED
      BY <1>1, <2>1, <2>2, <2>3 DEF Crash
<1>2. CASE UNCHANGED vars
    BY <1>2 DEF vars
<1>3. ASSUME NEW p \in Devices, Pair(p)
      PROVE  TypeOK'
    BY <1>3 DEF Pair
<1>4. ASSUME NEW p \in Devices, Flush(p)
      PROVE  TypeOK'
    BY <1>4 DEF Flush
<1>5. ASSUME NEW p \in Devices, Kill(p)
      PROVE  TypeOK'
  <2>1. lost' \in [Devices -> SUBSET Versions]
      BY <1>5 DEF Kill, Dropped, InHand
  <2>2. End(p, {s \in Syncs : On[s] = p})
      BY <1>5 DEF Kill
  <2>3. /\ late' \in [Devices -> SUBSET Versions]
        /\ pc' \in [Syncs -> {"idle", "finding", "next", "execute", "posting"}]
        /\ todo' \in [Syncs -> SUBSET Versions]
        /\ cur' \in [Syncs -> 0..MaxVersion]
      BY <2>2, EndTypes
  <2>4. applied' \in [Devices -> 0..MaxVersion] /\ unsaved' \in [Devices -> SUBSET Versions]
      BY <1>5 DEF Kill
  <2> QED
      BY <1>5, <2>1, <2>3, <2>4 DEF Kill
<1>6. ASSUME NEW p \in Devices, NEW v \in Versions, Land(p, v)
      PROVE  TypeOK'
    BY <1>6 DEF Land
<1> QED
    BY <1>1, <1>2, <1>3, <1>4, <1>5, <1>6 DEF App

-----------------------------------------------------------------------------
(* The rows *)

\* The steps that leave the rows and the updates' way to them alone.
Aside == UNCHANGED <<row, upc, ver, alone, overlapped>>

LEMMA StepsAside ==
    ASSUME [Next]_vars
    PROVE  \/ \E u \in Updates :
                \/ ReadLatest(u) \/ Deactivate(u) \/ Create(u) \/ CreateRejected(u)
                \/ ListDevices(u) \/ Finish(u)
           \/ Crash
           \/ Aside
<1> USE DEF Aside, updateVars, historyVars
<1>1. ASSUME NEW u \in Updates, NEW p \in Devices,
             PushTo(u, p) \/ PushFails(u, p) \/ Mark(u, p) \/ MarkFails(u, p)
      PROVE  Aside
    BY <1>1 DEF PushTo, PushFails, Mark, MarkFails
<1>2. ASSUME NEW s \in Syncs, Sync(s)
      PROVE  Aside
    BY <1>2 DEF Sync, PullExpire, PullFind, Ack, AckLost, Execute, Post, Stop
<1>3. ASSUME NEW p \in Devices, Pair(p) \/ App(p)
      PROVE  Aside
    BY <1>3 DEF Pair, App, Flush, Kill, Land
<1>4. CASE UNCHANGED vars
    BY <1>4 DEF vars
<1> QED
    BY <1>1, <1>2, <1>3, <1>4 DEF Next, Update

\* Every step keeps the versions without gaps.
LEMMA GapsStep == IInv /\ [Next]_vars => NoGaps'
<1> SUFFICES ASSUME IInv, [Next]_vars
             PROVE  NoGaps'
    OBVIOUS
<1> USE MaxVersionIsNat DEF IInv, TypeOK, NoGaps, UpdatesLinked, Writing, Versions
<1>1. ASSUME NEW u \in Updates, ReadLatest(u)
      PROVE  NoGaps'
    BY <1>1 DEF ReadLatest
<1>2. ASSUME NEW u \in Updates, Deactivate(u)
      PROVE  NoGaps'
    BY <1>2 DEF Deactivate, Deactivated
<1>3. ASSUME NEW u \in Updates, Create(u)
      PROVE  NoGaps'
    BY <1>3 DEF Create, NewRow
<1>4. ASSUME NEW u \in Updates, CreateRejected(u)
      PROVE  NoGaps'
    BY <1>4 DEF CreateRejected
<1>5. ASSUME NEW u \in Updates, ListDevices(u)
      PROVE  NoGaps'
    BY <1>5 DEF ListDevices
<1>6. ASSUME NEW u \in Updates, Finish(u)
      PROVE  NoGaps'
    BY <1>6 DEF Finish
<1>7. ASSUME Crash
      PROVE  NoGaps'
    BY <1>7 DEF Crash
<1>8. ASSUME Aside
      PROVE  NoGaps'
    BY <1>8 DEF Aside
<1> QED
    BY <1>1, <1>2, <1>3, <1>4, <1>5, <1>6, <1>7, <1>8, StepsAside

\* Every step keeps what an update knows about the rows.
LEMMA UpdatesStep == IInv /\ [Next]_vars => UpdatesLinked'
<1> SUFFICES ASSUME IInv, [Next]_vars
             PROVE  UpdatesLinked'
    OBVIOUS
<1> USE MaxVersionIsNat DEF IInv, TypeOK, NoGaps, UpdatesLinked, Writing, Versions
<1>1. ASSUME NEW u \in Updates, ReadLatest(u)
      PROVE  UpdatesLinked'
    BY <1>1 DEF ReadLatest, Following, IsLatest
<1>2. ASSUME NEW u \in Updates, Deactivate(u)
      PROVE  UpdatesLinked'
    BY <1>2 DEF Deactivate, Deactivated
<1>3. ASSUME NEW u \in Updates, Create(u)
      PROVE  UpdatesLinked'
    BY <1>3 DEF Create, NewRow
<1>4. ASSUME NEW u \in Updates, CreateRejected(u)
      PROVE  UpdatesLinked'
    BY <1>4 DEF CreateRejected
<1>5. ASSUME NEW u \in Updates, ListDevices(u)
      PROVE  UpdatesLinked'
    BY <1>5 DEF ListDevices
<1>6. ASSUME NEW u \in Updates, Finish(u)
      PROVE  UpdatesLinked'
    BY <1>6 DEF Finish
<1>7. ASSUME Crash
      PROVE  UpdatesLinked'
    BY <1>7 DEF Crash
<1>8. ASSUME Aside
      PROVE  UpdatesLinked'
    BY <1>8 DEF Aside
<1> QED
    BY <1>1, <1>2, <1>3, <1>4, <1>5, <1>6, <1>7, <1>8, StepsAside

\* Every step keeps what alone promises.
LEMMA AloneStep == IInv /\ [Next]_vars => AloneLinked'
<1> SUFFICES ASSUME IInv, [Next]_vars
             PROVE  AloneLinked'
    OBVIOUS
<1> USE MaxVersionIsNat DEF IInv, TypeOK, AloneLinked, Writing, UpdatesLinked,
    Versions, historyVars
<1>1. ASSUME NEW u \in Updates, ReadLatest(u)
      PROVE  AloneLinked'
  <2>1. PICK n \in 0..MaxVersion :
          IsLatest(n) /\ n < MaxVersion /\ ver' = [ver EXCEPT ![u] = n + 1]
      BY <1>1 DEF ReadLatest, Following
  <2>2. row[n + 1] = "none" /\ n + 1 \in Versions
      BY <2>1 DEF IsLatest
  <2>3. ver'[u] = n + 1 /\ row' = row /\ upc' = [upc EXCEPT ![u] = "deactivate"]
      BY <1>1, <2>1 DEF ReadLatest
  <2>4. alone' => \A t \in Updates : ~Writing(t)
      BY <1>1 DEF ReadLatest
  <2> QED
      BY <2>2, <2>3, <2>4
<1>2. ASSUME NEW u \in Updates, Deactivate(u)
      PROVE  AloneLinked'
    BY <1>2 DEF Deactivate, Deactivated
<1>3. ASSUME NEW u \in Updates, Create(u)
      PROVE  AloneLinked'
    BY <1>3 DEF Create, NewRow
<1>4. ASSUME NEW u \in Updates, CreateRejected(u)
      PROVE  AloneLinked'
    BY <1>4 DEF CreateRejected
<1>5. ASSUME NEW u \in Updates, ListDevices(u)
      PROVE  AloneLinked'
    BY <1>5 DEF ListDevices
<1>6. ASSUME NEW u \in Updates, Finish(u)
      PROVE  AloneLinked'
    BY <1>6 DEF Finish
<1>7. ASSUME Crash
      PROVE  AloneLinked'
    BY <1>7 DEF Crash
<1>8. ASSUME Aside
      PROVE  AloneLinked'
    BY <1>8 DEF Aside
<1> QED
    BY <1>1, <1>2, <1>3, <1>4, <1>5, <1>6, <1>7, <1>8, StepsAside

\* Every step keeps the active version the newest.
LEMMA NewestStep == IInv /\ [Next]_vars => ActiveIsNewest'
<1> SUFFICES ASSUME IInv, [Next]_vars
             PROVE  ActiveIsNewest'
    OBVIOUS
<1> USE MaxVersionIsNat DEF IInv, TypeOK, NoGaps, UpdatesLinked, Writing,
    ActiveIsNewest, Versions
<1>1. ASSUME NEW u \in Updates, ReadLatest(u)
      PROVE  ActiveIsNewest'
    BY <1>1 DEF ReadLatest
<1>2. ASSUME NEW u \in Updates, Deactivate(u)
      PROVE  ActiveIsNewest'
    BY <1>2 DEF Deactivate, Deactivated
<1>3. ASSUME NEW u \in Updates, Create(u)
      PROVE  ActiveIsNewest'
  <2>1. /\ ver[u] \in Versions /\ row[ver[u]] = "none"
        /\ row' = [row EXCEPT ![ver[u]] = "active"]
        /\ \A w \in Versions : w < ver[u] => row[w] = "inactive"
      BY <1>3 DEF Create, NewRow
  <2>2. \A w \in Versions : row[w] # "none" => w < ver[u]
      BY <2>1
  <2>3. \A w \in Versions : (row'[w] # "none" => w <= ver[u]) /\ (row'[w] = "active" => w = ver[u])
      BY <2>1, <2>2
  <2> QED
      BY <2>1, <2>3
<1>4. ASSUME NEW u \in Updates, CreateRejected(u)
      PROVE  ActiveIsNewest'
    BY <1>4 DEF CreateRejected
<1>5. ASSUME NEW u \in Updates, ListDevices(u)
      PROVE  ActiveIsNewest'
    BY <1>5 DEF ListDevices
<1>6. ASSUME NEW u \in Updates, Finish(u)
      PROVE  ActiveIsNewest'
    BY <1>6 DEF Finish
<1>7. ASSUME Crash
      PROVE  ActiveIsNewest'
    BY <1>7 DEF Crash
<1>8. ASSUME Aside
      PROVE  ActiveIsNewest'
    BY <1>8 DEF Aside
<1> QED
    BY <1>1, <1>2, <1>3, <1>4, <1>5, <1>6, <1>7, <1>8, StepsAside

-----------------------------------------------------------------------------
(* Updates and their commands *)

\* Rows are not deleted.
LEMMA RowsStay ==
    ASSUME TypeOK, [Next]_vars, NEW v \in Versions, row[v] # "none"
    PROVE  row'[v] # "none"
<1>t. row \in [Versions -> {"none", "active", "inactive"}]
    BY DEF TypeOK
<1>1. ASSUME NEW u \in Updates,
             \/ ReadLatest(u) \/ Deactivate(u) \/ Create(u) \/ CreateRejected(u)
             \/ ListDevices(u) \/ Finish(u)
      PROVE  row'[v] # "none"
  <2>1. CASE Deactivate(u)
      BY <1>t, <2>1 DEF Deactivate, Deactivated
  <2>2. CASE Create(u)
      BY <1>t, <2>2 DEF Create, NewRow
  <2>3. CASE ReadLatest(u) \/ CreateRejected(u) \/ ListDevices(u) \/ Finish(u)
      BY <2>3 DEF ReadLatest, CreateRejected, ListDevices, Finish
  <2> QED
      BY <1>1, <2>1, <2>2, <2>3
<1>2. Crash \/ Aside => row' = row
    BY DEF Crash, Aside
<1> QED
    BY <1>1, <1>2, StepsAside

\* Every step keeps what an update knows about the commands.
LEMMA SendersStep ==
    ASSUME TypeOK, UpdatesLinked, SendersLinked, [Next]_vars,
           \A p \in Devices : TurnsLinked(p)
    PROVE  SendersLinked'
<1> USE DEF SendersLinked, Sending, Exists
<1>t. /\ row \in [Versions -> {"none", "active", "inactive"}]
      /\ upc \in [Updates -> {"idle", "deactivate", "create", "list", "push"}]
      /\ ver \in [Updates -> 0..MaxVersion]
      /\ pending \in [Updates -> SUBSET Devices]
      /\ marking \in [Updates -> SUBSET Devices]
      /\ turn \in [Devices -> [Versions -> Nat]]
    BY DEF TypeOK
<1>1. ASSUME NEW u \in Updates, ReadLatest(u)
      PROVE  SendersLinked'
  <2>1. /\ upc' = [upc EXCEPT ![u] = "deactivate"]
        /\ \A t \in Updates \ {u} : ver'[t] = ver[t]
        /\ upc[u] = "idle"
        /\ UNCHANGED <<row, pending, marking, turn>>
      BY <1>t, <1>1 DEF ReadLatest, commandVars
  <2> QED
      BY <1>t, <2>1
<1>2. ASSUME NEW u \in Updates, Deactivate(u)
      PROVE  SendersLinked'
    BY <1>t, <1>2 DEF Deactivate, Deactivated, commandVars
<1>3. ASSUME NEW u \in Updates, Create(u)
      PROVE  SendersLinked'
  <2>1. /\ ver[u] \in Versions /\ row[ver[u]] = "none"
        /\ row' = [row EXCEPT ![ver[u]] = "active"]
        /\ upc' = [upc EXCEPT ![u] = "list"]
        /\ UNCHANGED <<ver, pending, marking, turn>>
        /\ upc[u] = "create"
      BY <1>3 DEF Create, NewRow, UpdatesLinked, commandVars
  <2>2. \A p \in Devices : turn[p][ver[u]] = 0
      BY <2>1 DEF TurnsLinked
  <2>3. \A t \in Updates : Sending(t) => ver[t] # ver[u]
      BY <2>1
  <2>4. pending[u] = {} /\ marking[u] = {}
      BY <2>1
  <2> QED
      BY <1>t, <2>1, <2>2, <2>3, <2>4
<1>4. ASSUME NEW u \in Updates, CreateRejected(u)
      PROVE  SendersLinked'
    BY <1>t, <1>4 DEF CreateRejected, commandVars
<1>5. ASSUME NEW u \in Updates, ListDevices(u)
      PROVE  SendersLinked'
    BY <1>t, <1>5 DEF ListDevices, Recipients, commandVars
<1>6. ASSUME NEW u \in Updates, NEW p \in Devices, PushTo(u, p)
      PROVE  SendersLinked'
  <2> DEFINE v == ver[u]
             n == NextTurn(p)
  <2>1. /\ upc[u] = "push" /\ p \in pending[u]
        /\ turn' = [turn EXCEPT ![p] = [@ EXCEPT ![v] = n]]
        /\ pending' = [pending EXCEPT ![u] = @ \ {p}]
        /\ marking' = [marking EXCEPT ![u] = @ \cup {p}]
        /\ UNCHANGED <<row, upc, ver>>
      BY <1>6 DEF PushTo
  <2>2. n \in Nat \ {0} /\ v \in Versions
      BY <2>1, TurnsAreNat
  <2> HIDE DEF n
  <2>3. ASSUME NEW q \in Devices, NEW w \in Versions
        PROVE  turn'[q][w] = IF q = p /\ w = v THEN n ELSE turn[q][w]
      BY <1>t, <2>1, <2>2
  <2>4. \A t \in Updates : Sending(t) => ver[t] \in Versions
      OBVIOUS
  <2>5. ASSUME NEW t \in Updates, NEW q \in Devices, upc'[t] = "list" \/ q \in pending'[t]
        PROVE  turn'[q][ver'[t]] = 0
    <3>1. Sending(t) /\ turn[q][ver[t]] = 0
        BY <1>t, <2>1, <2>5
    <3>2. ~(q = p /\ ver[t] = v)
      <4>1. CASE t = u
          BY <1>t, <2>1, <2>5, <4>1
      <4>2. CASE t # u
          BY <2>1, <3>1, <4>2
      <4> QED
          BY <4>1, <4>2
    <3> QED
        BY <2>1, <2>3, <2>4, <3>1, <3>2
  <2>6. ASSUME NEW t \in Updates, NEW q \in marking'[t]
        PROVE  turn'[q][ver'[t]] # 0
    <3>0. q \in marking[t] \/ (q = p /\ t = u)
        BY <1>t, <2>1, <2>6
    <3>1. q \in Devices /\ Sending(t)
        BY <1>t, <2>1, <3>0
    <3>2. turn'[q][ver'[t]] = IF q = p /\ ver[t] = v THEN n ELSE turn[q][ver[t]]
        BY <2>1, <2>3, <2>4, <3>1
    <3>3. (q = p /\ ver[t] = v) \/ turn[q][ver[t]] # 0
        BY <3>0
    <3> QED
        BY <2>2, <3>2, <3>3
  <2>7. \A t \in Updates : upc'[t] # "push" => pending'[t] = {} /\ marking'[t] = {}
      BY <1>t, <2>1
  <2> QED
      BY <2>1, <2>5, <2>6, <2>7
<1>7. ASSUME NEW u \in Updates, NEW p \in Devices,
             PushFails(u, p) \/ Mark(u, p) \/ MarkFails(u, p)
      PROVE  SendersLinked'
  <2>1. /\ UNCHANGED <<row, upc, ver, turn>>
        /\ \A t \in Updates : pending'[t] \subseteq pending[t] /\ marking'[t] \subseteq marking[t]
      BY <1>t, <1>7 DEF PushFails, Mark, MarkFails, commandVars
  <2> QED
      BY <2>1
<1>8. ASSUME NEW u \in Updates, Finish(u)
      PROVE  SendersLinked'
    BY <1>t, <1>8 DEF Finish, commandVars
<1>9. CASE Crash
    BY <1>t, <1>9 DEF Crash
<1>10. ASSUME \/ \E s \in Syncs : Sync(s)
              \/ \E p \in Devices : Pair(p) \/ App(p)
              \/ UNCHANGED vars
       PROVE  SendersLinked'
  <2>1. UNCHANGED <<row, upc, ver, pending, marking, turn>>
      BY <1>10 DEF Sync, PullExpire, PullFind, Ack, AckLost, Execute, Post, Stop,
           Pair, App, Flush, Kill, Land, vars, updateVars, commandVars
  <2> QED
      BY <2>1
<1> QED
    BY <1>1, <1>2, <1>3, <1>4, <1>5, <1>6, <1>7, <1>8, <1>9, <1>10 DEF Next, Update

-----------------------------------------------------------------------------
(* The steps as one device sees them *)

\* Nothing of p changes.
Alike(p) ==
    /\ UNCHANGED <<out[p], turn[p], applied[p], disk[p], ran[p], unsaved[p], lost[p],
                   disturbed[p]>>
    /\ \A s \in Syncs : On[s] = p => UNCHANGED <<pc[s], todo[s], cur[s]>>

\* An update's steps towards p.
Towards(u, p) == PushTo(u, p) \/ PushFails(u, p) \/ Mark(u, p)

LEMMA UpdateAlike ==
    ASSUME TypeOK, NEW p \in Devices, NEW u \in Updates, Update(u), ~Towards(u, p)
    PROVE  Alike(p)
<1> USE DEF TypeOK, Alike, commandVars, deviceVars, historyVars
<1>1. CASE \/ ReadLatest(u) \/ Deactivate(u) \/ Create(u) \/ CreateRejected(u)
           \/ ListDevices(u) \/ Finish(u)
    BY <1>1 DEF ReadLatest, Deactivate, Create, CreateRejected, ListDevices, Finish
<1>2. ASSUME NEW q \in Devices, PushTo(u, q), q # p
      PROVE  Alike(p)
    BY <1>2 DEF PushTo
<1>3. ASSUME NEW q \in Devices, PushFails(u, q), q # p
      PROVE  Alike(p)
    BY <1>3 DEF PushFails
<1>4. ASSUME NEW q \in Devices, Mark(u, q), q # p
      PROVE  Alike(p)
    BY <1>4 DEF Mark
<1>5. ASSUME NEW q \in Devices, MarkFails(u, q)
      PROVE  Alike(p)
    BY <1>5 DEF MarkFails
<1> QED
    BY <1>1, <1>2, <1>3, <1>4, <1>5 DEF Update, Towards

LEMMA SyncAlike ==
    ASSUME TypeOK, NEW p \in Devices, NEW s \in Syncs, Sync(s), On[s] # p
    PROVE  Alike(p)
<1> USE OnIsMap DEF TypeOK, Alike, commandVars, historyVars
<1>1. CASE PullExpire(s)
    BY <1>1 DEF PullExpire
<1>2. CASE PullFind(s)
    BY <1>2 DEF PullFind
<1>3. CASE Ack(s)
    BY <1>3 DEF Ack
<1>4. CASE AckLost(s)
    BY <1>4 DEF AckLost
<1>5. CASE Execute(s)
    BY <1>5 DEF Execute
<1>6. CASE Post(s)
    BY <1>6 DEF Post
<1>7. CASE Stop(s)
    BY <1>7 DEF Stop, End
<1> QED
    BY <1>1, <1>2, <1>3, <1>4, <1>5, <1>6, <1>7 DEF Sync

LEMMA AppAlike ==
    ASSUME TypeOK, NEW p \in Devices, NEW q \in Devices,
           \/ App(q) /\ q # p
           \/ Pair(q) /\ q # p
    PROVE  Alike(p)
<1> USE DEF TypeOK, Alike, commandVars, deviceVars
<1>1. CASE Flush(q) /\ q # p
    BY <1>1 DEF Flush
<1>2. CASE Kill(q) /\ q # p
  <2>1. \A s \in Syncs : On[s] = p => UNCHANGED <<pc[s], todo[s], cur[s]>>
      BY <1>2 DEF Kill, End
  <2> QED
      BY <1>2, <2>1 DEF Kill
<1>3. ASSUME NEW v \in Versions, Land(q, v), q # p
      PROVE  Alike(p)
    BY <1>3 DEF Land
<1>4. CASE Pair(q) /\ q # p
    BY <1>4 DEF Pair
<1> QED
    BY <1>1, <1>2, <1>3, <1>4 DEF App

\* Every step, as p sees it.
LEMMA StepsOn ==
    ASSUME TypeOK, NEW p \in Devices, [Next]_vars
    PROVE  \/ Alike(p)
           \/ \E u \in Updates : Towards(u, p)
           \/ \E s \in Syncs : On[s] = p /\ Sync(s)
           \/ Pair(p) \/ App(p)
           \/ Crash
<1>1. UNCHANGED vars => Alike(p)
    BY DEF vars, Alike, commandVars, deviceVars, historyVars
<1> QED
    BY <1>1, UpdateAlike, SyncAlike, AppAlike DEF Next

\* Commands only sink: nothing comes out to the device again, and no sync gets any.
Sinks(p) ==
    /\ turn'[p] = turn[p] /\ ran'[p] = ran[p]
    /\ out'[p] \subseteq out[p]
    /\ disturbed[p] \subseteq disturbed'[p]
    /\ \A s \in Syncs : On[s] = p => todo'[s] = todo[s] \/ todo'[s] = {}

LEMMA StepKinds ==
    ASSUME TypeOK, NEW p \in Devices, [Next]_vars
    PROVE  \/ Sinks(p)
           \/ \E u \in Updates : PushTo(u, p) \/ Mark(u, p)
           \/ \E s \in Syncs : On[s] = p /\ (PullFind(s) \/ Execute(s))
<1> USE DEF TypeOK, Sinks, updateVars, commandVars, deviceVars, historyVars
<1>1. Alike(p) => Sinks(p)
    BY DEF Alike
<1>2. ASSUME NEW u \in Updates, PushFails(u, p)
      PROVE  Sinks(p)
    BY <1>2 DEF PushFails
<1>3. Pair(p) \/ Crash => Sinks(p)
    BY DEF Pair, Crash
<1>4. Flush(p) => Sinks(p)
    BY DEF Flush
<1>5. Kill(p) => Sinks(p)
    BY DEF Kill, End
<1>6. ASSUME NEW v \in Versions, Land(p, v)
      PROVE  Sinks(p)
    BY <1>6 DEF Land
<1>7. ASSUME NEW s \in Syncs, On[s] = p, PullExpire(s)
      PROVE  Sinks(p)
    BY <1>7 DEF PullExpire
<1>8. ASSUME NEW s \in Syncs, On[s] = p, Ack(s) \/ AckLost(s)
      PROVE  Sinks(p)
    BY <1>8 DEF Ack, AckLost
<1>9. ASSUME NEW s \in Syncs, On[s] = p, Post(s)
      PROVE  Sinks(p)
    BY <1>9 DEF Post
<1>10. ASSUME NEW s \in Syncs, On[s] = p, Stop(s)
       PROVE  Sinks(p)
    BY <1>10 DEF Stop, End
<1> QED
    BY <1>1, <1>2, <1>3, <1>4, <1>5, <1>6, <1>7, <1>8, <1>9, <1>10, StepsOn
    DEF App, Sync, Towards

-----------------------------------------------------------------------------
(* The two steps of a sync that carry commands, one variable at a time *)

\* What findMany finds comes into hand; what was in hand is disturbed by it.
LEMMA FindMoves ==
    ASSUME TypeOK, NEW s \in Syncs, NEW p \in Devices, On[s] = p, PullFind(s)
    PROVE  /\ UNCHANGED <<out, turn, ran>>
           /\ todo'[s] = out[p]
           /\ \A t \in Syncs \ {s} : todo'[t] = todo[t]
           /\ Held(p)' \subseteq Held(p) \cup out[p]
           /\ disturbed[p] \subseteq disturbed'[p]
           /\ \A v \in Held(p) : v \in out[p] => v \in disturbed'[p]
           /\ \A v \in Held(p), w \in out[p] : turn[p][v] < turn[p][w] => v \in disturbed'[p]
<1>1. UNCHANGED <<out, turn, ran>> /\ todo' = [todo EXCEPT ![s] = out[p]]
    BY DEF PullFind, commandVars
<1>2. todo'[s] = out[p] /\ \A t \in Syncs \ {s} : todo'[t] = todo[t]
    BY <1>1 DEF TypeOK
<1>3. Held(p)' \subseteq Held(p) \cup out[p]
    BY <1>1, <1>2 DEF Held, InHand
<1>4. disturbed'[p] = disturbed[p] \cup
        {v \in Held(p) : v \in out[p] \/ \E w \in out[p] : turn[p][v] < turn[p][w]}
    BY DEF PullFind, TypeOK
<1> QED
    BY <1>1, <1>2, <1>3, <1>4

LEMMA ExecuteMoves ==
    ASSUME TypeOK, NEW s \in Syncs, NEW p \in Devices, On[s] = p, Execute(s), SyncLinked(s)
    PROVE  /\ UNCHANGED <<out, turn, disturbed>>
           /\ Oldest(p, cur[s], todo[s]) /\ cur[s] \in Held(p)
           /\ cur[s] \in out[p] => cur[s] \in disturbed[p]
           /\ ran'[p] = ran[p] \cup {cur[s]}
           /\ todo'[s] = todo[s] \ {cur[s]}
           /\ \A t \in Syncs \ {s} : todo'[t] = todo[t]
           /\ Held(p)' \subseteq Held(p)
<1>1. /\ UNCHANGED <<out, turn, disturbed>>
      /\ ran' = [ran EXCEPT ![p] = @ \cup {cur[s]}]
      /\ todo' = [todo EXCEPT ![s] = @ \ {cur[s]}]
    BY DEF Execute, commandVars
<1>2. /\ ran'[p] = ran[p] \cup {cur[s]}
      /\ todo'[s] = todo[s] \ {cur[s]}
      /\ \A t \in Syncs \ {s} : todo'[t] = todo[t]
    BY <1>1 DEF TypeOK
<1>3. Held(p)' \subseteq Held(p)
    BY <1>1, <1>2 DEF Held, InHand
<1>4. Oldest(p, cur[s], todo[s]) /\ (cur[s] \in out[p] => cur[s] \in disturbed[p])
    BY DEF Execute, SyncLinked
<1>5. cur[s] \in Held(p)
    BY <1>4 DEF Oldest, Held, InHand, TypeOK
<1> QED
    BY <1>1, <1>2, <1>3, <1>4, <1>5

\* What a push does to the turns of its device.
LEMMA PushTurns ==
    ASSUME TypeOK, SendersLinked, NEW p \in Devices, TurnsLinked(p), NEW u \in Updates,
           PushTo(u, p)
    PROVE  /\ ver[u] \in Versions /\ row[ver[u]] # "none" /\ turn[p][ver[u]] = 0
           /\ turn'[p][ver[u]] = Cardinality(Made(p)) + 1
           /\ \A v \in Versions \ {ver[u]} : turn'[p][v] = turn[p][v]
           /\ Made(p)' = Made(p) \cup {ver[u]}
           /\ Cardinality(Made(p))' = Cardinality(Made(p)) + 1
           /\ Cardinality(Made(p)) \in Nat
<1> DEFINE v == ver[u]
<1>1. v \in Versions /\ row[v] # "none" /\ turn[p][v] = 0
    BY DEF PushTo, SendersLinked, Sending, Exists
<1>2. IsFiniteSet(Made(p)) /\ Cardinality(Made(p)) \in Nat
    BY TurnsAreNat
<1>3. turn' = [turn EXCEPT ![p] = [@ EXCEPT ![v] = NextTurn(p)]]
    BY DEF PushTo
<1>4. turn'[p] = [turn[p] EXCEPT ![v] = NextTurn(p)] /\ NextTurn(p) = Cardinality(Made(p)) + 1
    BY <1>2, <1>3 DEF TypeOK, NextTurn
<1>5. turn'[p][v] = Cardinality(Made(p)) + 1
    BY <1>1, <1>4 DEF TypeOK
<1>6. \A w \in Versions \ {v} : turn'[p][w] = turn[p][w]
    BY <1>4 DEF TypeOK
<1>7. Made(p)' = Made(p) \cup {v}
    BY <1>1, <1>2, <1>5, <1>6 DEF Made
<1>8. v \notin Made(p)
    BY <1>1 DEF Made
<1> QED
    BY <1>1, <1>2, <1>5, <1>6, <1>7, <1>8, FS_AddElement

\* Every step keeps the turns of a device's commands.
LEMMA TurnsStep ==
    ASSUME TypeOK, SendersLinked, [Next]_vars, NEW p \in Devices, TurnsLinked(p),
           \A s \in Syncs : SyncLinked(s)
    PROVE  TurnsLinked(p)'
<1>r. \A v \in Versions : row'[v] = "none" => row[v] = "none"
    BY RowsStay
<1>1. CASE Sinks(p)
  <2>1. Made(p)' = Made(p) /\ Held(p)' \subseteq Held(p)
      BY <1>1 DEF Sinks, Made, Held, InHand
  <2> QED
      BY <1>r, <1>1, <2>1 DEF Sinks, TurnsLinked
<1>2. ASSUME NEW u \in Updates, PushTo(u, p)
      PROVE  TurnsLinked(p)'
  <2>1. /\ ver[u] \in Versions /\ row[ver[u]] # "none" /\ turn[p][ver[u]] = 0
        /\ turn'[p][ver[u]] = Cardinality(Made(p)) + 1
        /\ \A v \in Versions \ {ver[u]} : turn'[p][v] = turn[p][v]
        /\ Made(p)' = Made(p) \cup {ver[u]}
        /\ Cardinality(Made(p))' = Cardinality(Made(p)) + 1
        /\ Cardinality(Made(p)) \in Nat
      BY <1>2, PushTurns
  <2>2. /\ out'[p] = out[p] \cup {ver[u]} /\ UNCHANGED <<row, ran>> /\ Held(p)' = Held(p)
      BY <1>2 DEF PushTo, TypeOK, deviceVars, Held, InHand
  <2>3. \A v \in Versions : row'[v] = "none" => turn'[p][v] = 0
      BY <2>1, <2>2 DEF TurnsLinked
  <2>4. \A v \in Versions : turn'[p][v] <= Cardinality(Made(p))'
    <3>1. \A v \in Versions : turn[p][v] <= Cardinality(Made(p)) /\ turn[p][v] \in Nat
        BY DEF TurnsLinked, TypeOK
    <3> QED
        BY <2>1, <3>1
  <2>5. \A v, w \in Made(p)' : turn'[p][v] = turn'[p][w] => v = w
    <3>1. \A v \in Made(p) : v \in Versions \ {ver[u]} /\ turn[p][v] <= Cardinality(Made(p))
        BY <2>1 DEF TurnsLinked, Made
    <3>2. \A v \in Made(p) : turn[p][v] \in Nat
        BY <3>1 DEF TypeOK
    <3> QED
        BY <2>1, <3>1, <3>2 DEF TurnsLinked
  <2>6. (out[p] \cup ran[p] \cup Held(p))' \subseteq Made(p)'
      BY <2>1, <2>2 DEF TurnsLinked
  <2> QED
      BY <2>3, <2>4, <2>5, <2>6 DEF TurnsLinked
<1>3. ASSUME NEW u \in Updates, Mark(u, p)
      PROVE  TurnsLinked(p)'
  <2>1. ver[u] \in Made(p)
      BY <1>3 DEF Mark, SendersLinked, Sending, Exists, Made
  <2>2. /\ out'[p] = out[p] \cup {ver[u]} /\ UNCHANGED <<turn, ran>> /\ Held(p)' = Held(p)
      BY <1>3 DEF Mark, TypeOK, deviceVars, Held, InHand
  <2>3. Made(p)' = Made(p)
      BY <2>2 DEF Made
  <2> QED
      BY <1>r, <2>1, <2>2, <2>3 DEF TurnsLinked
<1>4. ASSUME NEW s \in Syncs, On[s] = p, PullFind(s)
      PROVE  TurnsLinked(p)'
  <2>1. UNCHANGED <<out, turn, ran>> /\ Held(p)' \subseteq Held(p) \cup out[p]
      BY <1>4, FindMoves
  <2>2. Made(p)' = Made(p)
      BY <2>1 DEF Made
  <2> QED
      BY <1>r, <2>1, <2>2 DEF TurnsLinked
<1>5. ASSUME NEW s \in Syncs, On[s] = p, Execute(s)
      PROVE  TurnsLinked(p)'
  <2>1. /\ UNCHANGED <<out, turn>> /\ Held(p)' \subseteq Held(p)
        /\ cur[s] \in Held(p) /\ ran'[p] = ran[p] \cup {cur[s]}
      BY <1>5, ExecuteMoves
  <2>2. Made(p)' = Made(p)
      BY <2>1 DEF Made
  <2> QED
      BY <1>r, <2>1, <2>2 DEF TurnsLinked
<1> QED
    BY <1>1, <1>2, <1>3, <1>4, <1>5, StepKinds

\* Every step leaves one holder of a version that nothing disturbed.
LEMMA HeldOnceStep ==
    ASSUME TypeOK, [Next]_vars, NEW p \in Devices, HeldOnce(p)
    PROVE  HeldOnce(p)'
<1>1. CASE Sinks(p)
    BY <1>1 DEF Sinks, HeldOnce
<1>2. ASSUME NEW u \in Updates, PushTo(u, p) \/ Mark(u, p)
      PROVE  HeldOnce(p)'
  <2>1. todo' = todo /\ disturbed[p] \subseteq disturbed'[p]
      BY <1>2 DEF PushTo, Mark, TypeOK, deviceVars
  <2> QED
      BY <2>1 DEF HeldOnce
<1>3. ASSUME NEW s \in Syncs, On[s] = p, PullFind(s)
      PROVE  HeldOnce(p)'
  <2>1. /\ \A t \in Syncs : todo'[t] = IF t = s THEN out[p] ELSE todo[t]
        /\ disturbed[p] \cup (Held(p) \cap out[p]) \subseteq disturbed'[p]
      BY <1>3 DEF PullFind, TypeOK
  <2>2. \A v \in Versions, t \in Syncs : On[t] = p /\ v \in todo[t] => v \in Held(p)
      BY DEF Held, InHand
  <2> QED
      BY <2>1, <2>2 DEF HeldOnce
<1>4. ASSUME NEW s \in Syncs, On[s] = p, Execute(s)
      PROVE  HeldOnce(p)'
  <2>1. (\A t \in Syncs : todo'[t] \subseteq todo[t]) /\ disturbed' = disturbed
      BY <1>4 DEF Execute, TypeOK
  <2> QED
      BY <2>1 DEF HeldOnce
<1> QED
    BY <1>1, <1>2, <1>3, <1>4, StepKinds

\* Every step keeps the older command before the younger.
LEMMA OlderStep ==
    ASSUME TypeOK, SendersLinked, \A s \in Syncs : SyncLinked(s), [Next]_vars,
           NEW p \in Devices, TurnsLinked(p), HeldOnce(p), OlderGoFirst(p)
    PROVE  OlderGoFirst(p)'
<1> USE DEF OlderGoFirst, Settled
<1>1. CASE Sinks(p)
  <2>1. Made(p)' = Made(p) /\ Held(p)' \subseteq Held(p)
      BY <1>1 DEF Sinks, Made, Held, InHand
  <2>2. \A v : Settled(p, v) => Settled(p, v)'
      BY <1>1, <2>1 DEF Sinks
  <2> HIDE DEF Settled
  <2> QED
      BY <1>1, <2>1, <2>2 DEF Sinks
<1>2. ASSUME NEW u \in Updates, PushTo(u, p)
      PROVE  OlderGoFirst(p)'
  <2> DEFINE x == ver[u]
  <2>1. /\ x \in Versions /\ x \notin Made(p)
        /\ turn'[p][x] = Cardinality(Made(p)) + 1
        /\ \A v \in Versions \ {x} : turn'[p][v] = turn[p][v]
        /\ Made(p)' = Made(p) \cup {x}
        /\ Cardinality(Made(p)) \in Nat
      BY <1>2, PushTurns DEF Made
  <2>2. /\ out'[p] = out[p] \cup {x} /\ UNCHANGED <<ran, todo, disturbed>>
        /\ Held(p)' = Held(p)
      BY <1>2 DEF PushTo, TypeOK, deviceVars, Held, InHand
  <2> HIDE DEF x
  <2> SUFFICES ASSUME NEW v \in (Made(p) \ disturbed[p])', NEW w \in Made(p)',
                      turn'[p][v] < turn'[p][w]
               PROVE  /\ w \in ran[p] => Settled(p, v)'
                      /\ \A s \in Syncs : On[s] = p /\ w \in todo[s]
                           => v \in todo[s] \/ Settled(p, v)'
      BY <2>2
  <2>3. \A y \in Made(p) : y \in Versions /\ turn[p][y] <= Cardinality(Made(p)) /\ turn[p][y] \in Nat
      BY DEF TurnsLinked, Made, TypeOK
  <2>4. v # x /\ v \in Made(p) \ disturbed[p]
      BY <2>1, <2>2, <2>3
  <2>5. Settled(p, v) => Settled(p, v)'
      BY <2>2, <2>4
  <2>6. CASE w = x
    <3>1. w \notin ran[p] /\ w \notin Held(p)
        BY <2>1, <2>6 DEF TurnsLinked
    <3> QED
        BY <2>1, <2>6, <3>1 DEF Held, InHand
  <2>7. CASE w # x
    <3>1. w \in Made(p) /\ turn[p][v] < turn[p][w]
        BY <2>1, <2>3, <2>4, <2>7
    <3> QED
        BY <2>4, <2>5, <3>1
  <2> QED
      BY <2>6, <2>7
<1>3. ASSUME NEW u \in Updates, Mark(u, p)
      PROVE  OlderGoFirst(p)'
  <2>1. /\ UNCHANGED <<turn, ran, todo>>
        /\ out'[p] = out[p] \cup {ver[u]}
        /\ disturbed'[p] = disturbed[p] \cup ({ver[u]} \ out[p])
        /\ Held(p)' = Held(p)
      BY <1>3 DEF Mark, TypeOK, deviceVars, Held, InHand
  <2>2. Made(p)' = Made(p)
      BY <2>1 DEF Made
  <2>3. \A v \in Made(p) \ disturbed'[p] : v \in Made(p) \ disturbed[p] /\ (Settled(p, v) => Settled(p, v)')
      BY <2>1
  <2> HIDE DEF Settled
  <2> QED
      BY <2>1, <2>2, <2>3
<1>4. ASSUME NEW s \in Syncs, On[s] = p, PullFind(s)
      PROVE  OlderGoFirst(p)'
  <2>1. /\ UNCHANGED <<out, turn, ran>>
        /\ todo'[s] = out[p]
        /\ \A t \in Syncs \ {s} : todo'[t] = todo[t]
        /\ Held(p)' \subseteq Held(p) \cup out[p]
        /\ disturbed[p] \subseteq disturbed'[p]
        /\ \A v \in Held(p), w \in out[p] : turn[p][v] < turn[p][w] => v \in disturbed'[p]
      BY <1>4, FindMoves
  <2>2. Made(p)' = Made(p)
      BY <2>1 DEF Made
  <2>3. \A v \in Made(p) \ disturbed'[p] : v \in Made(p) \ disturbed[p] /\ (Settled(p, v) => Settled(p, v)')
      BY <2>1
  <2>4. ASSUME NEW v \in Made(p) \ disturbed'[p], NEW w \in out[p], turn[p][v] < turn[p][w]
        PROVE  v \in out[p] \/ Settled(p, v)'
      BY <2>1, <2>4
  <2> HIDE DEF Settled
  <2>5. ASSUME NEW v \in Made(p) \ disturbed'[p], NEW w \in Made(p), turn[p][v] < turn[p][w]
        PROVE  /\ w \in ran[p] => Settled(p, v)'
               /\ \A t \in Syncs : On[t] = p /\ w \in todo'[t] => v \in todo'[t] \/ Settled(p, v)'
    <3>1. w \in ran[p] => Settled(p, v)'
        BY <2>3, <2>5
    <3>2. \A t \in Syncs \ {s} : On[t] = p /\ w \in todo'[t] => v \in todo'[t] \/ Settled(p, v)'
        BY <2>1, <2>3, <2>5
    <3>3. w \in todo'[s] => v \in todo'[s] \/ Settled(p, v)'
        BY <2>1, <2>4, <2>5
    <3> QED
        BY <3>1, <3>2, <3>3
  <2> QED
      BY <2>1, <2>2, <2>5
<1>5. ASSUME NEW s \in Syncs, On[s] = p, Execute(s)
      PROVE  OlderGoFirst(p)'
  <2> DEFINE c == cur[s]
  <2>1. /\ UNCHANGED <<out, turn, disturbed>>
        /\ Oldest(p, c, todo[s]) /\ c \in Held(p)
        /\ c \in out[p] => c \in disturbed[p]
        /\ ran'[p] = ran[p] \cup {c}
        /\ todo'[s] = todo[s] \ {c}
        /\ \A t \in Syncs \ {s} : todo'[t] = todo[t]
        /\ Held(p)' \subseteq Held(p)
      BY <1>5, ExecuteMoves
  <2>2. Made(p)' = Made(p) /\ \A v : Settled(p, v) => Settled(p, v)'
      BY <2>1 DEF Made
  <2>c. c \in Versions /\ c \in todo[s]
      BY <2>1 DEF Oldest, Held, InHand
  <2>3. \A v \in Made(p) : v = c /\ v \notin disturbed[p] => Settled(p, v)'
    <3>1. ASSUME NEW v, v = c, c \notin disturbed[p], NEW t \in Syncs, On[t] = p
          PROVE  v \notin todo'[t]
        BY <1>5, <2>1, <2>c, <3>1 DEF HeldOnce
    <3> QED
        BY <2>1, <3>1 DEF Held, InHand
  <2> HIDE DEF Settled, c
  <2>4. ASSUME NEW v \in Made(p) \ disturbed[p], NEW w \in Made(p), turn[p][v] < turn[p][w]
        PROVE  /\ w \in ran'[p] => Settled(p, v)'
               /\ \A t \in Syncs : On[t] = p /\ w \in todo'[t] => v \in todo'[t] \/ Settled(p, v)'
    <3>1. w = c => v \notin todo[s]
        BY <2>1, <2>4 DEF Oldest, Made, TypeOK
    <3>2. w \in ran'[p] => Settled(p, v)'
        BY <1>5, <2>1, <2>2, <2>4, <2>c, <3>1
    <3>3. ASSUME NEW t \in Syncs, On[t] = p, w \in todo'[t]
          PROVE  v \in todo'[t] \/ Settled(p, v)'
      <4>1. v \in todo[t] \/ Settled(p, v)
          BY <2>1, <2>4, <3>3
      <4>2. v # c => v \in todo'[t] \/ Settled(p, v)'
          BY <2>1, <2>2, <4>1
      <4> QED
          BY <2>3, <2>4, <4>2
    <3> QED
        BY <3>2, <3>3
  <2> QED
      BY <2>1, <2>2, <2>4
<1> QED
    BY <1>1, <1>2, <1>3, <1>4, <1>5, StepKinds

\* What a sync knows is not touched by what others do.
Others(s) ==
    /\ UNCHANGED <<pc[s], todo[s], cur[s]>>
    /\ \A v \in Made(On[s]) :
         /\ turn'[On[s]][v] = turn[On[s]][v]
         /\ v \in out'[On[s]] => v \in out[On[s]] \cup disturbed'[On[s]]
    /\ disturbed[On[s]] \subseteq disturbed'[On[s]]
    /\ ran[On[s]] \subseteq ran'[On[s]]

LEMMA OthersStep ==
    ASSUME TypeOK, SendersLinked, \A t \in Syncs : SyncLinked(t), [Next]_vars, NEW s \in Syncs,
           TurnsLinked(On[s])
    PROVE  Others(s) \/ Sync(s) \/ Kill(On[s])
<1> DEFINE p == On[s]
<1>p. p \in Devices
    BY OnIsMap
<1> USE DEF Others
<1>1. CASE Alike(p)
    BY <1>p, <1>1 DEF Alike
<1>2. ASSUME NEW u \in Updates, PushTo(u, p)
      PROVE  Others(s)
  <2>1. ver[u] \notin Made(p) /\ \A v \in Versions \ {ver[u]} : turn'[p][v] = turn[p][v]
      BY <1>p, <1>2, PushTurns DEF Made
  <2>2. out'[p] = out[p] \cup {ver[u]} /\ UNCHANGED <<ran, pc, todo, cur, disturbed>>
      BY <1>p, <1>2 DEF PushTo, TypeOK, deviceVars
  <2>3. \A v \in Made(p) : v \in Versions \ {ver[u]}
      BY <2>1 DEF Made
  <2> QED
      BY <2>1, <2>2, <2>3
<1>3. ASSUME NEW u \in Updates, PushFails(u, p) \/ Mark(u, p)
      PROVE  Others(s)
  <2>1. /\ UNCHANGED <<turn, ran, pc, todo, cur>>
        /\ out'[p] \subseteq out[p] \cup disturbed'[p]
        /\ disturbed[p] \subseteq disturbed'[p]
      BY <1>p, <1>3 DEF PushFails, Mark, TypeOK, commandVars, deviceVars
  <2> QED
      BY <2>1
<1>4. CASE Pair(p) \/ Crash
    BY <1>p, <1>4 DEF Pair, Crash, commandVars, deviceVars
<1>5. CASE App(p) /\ ~Kill(p)
  <2>1. UNCHANGED <<turn, ran, pc, todo, cur, disturbed>> /\ out'[p] \subseteq out[p]
      BY <1>p, <1>5 DEF App, Flush, Land, TypeOK, commandVars, deviceVars
  <2> QED
      BY <2>1
<1>6. ASSUME NEW t \in Syncs, t # s, On[t] = p, Sync(t)
      PROVE  Others(s)
  <2>1. CASE PullExpire(t) \/ Ack(t) \/ AckLost(t) \/ Post(t)
    <3>1. UNCHANGED <<turn, ran, pc[s], todo[s], cur[s]>> /\ out'[p] \subseteq out[p]
          /\ disturbed[p] \subseteq disturbed'[p]
        BY <1>p, <1>6, <2>1 DEF PullExpire, Ack, AckLost, Post, TypeOK, historyVars
    <3> QED
        BY <3>1
  <2>2. CASE PullFind(t)
    <3>1. UNCHANGED <<out, turn, ran, todo[s]>> /\ disturbed[p] \subseteq disturbed'[p]
        BY <1>p, <1>6, <2>2, FindMoves
    <3>2. UNCHANGED <<pc[s], cur[s]>>
        BY <1>6, <2>2 DEF PullFind, TypeOK
    <3> QED
        BY <3>1, <3>2
  <2>3. CASE Execute(t)
    <3>1. UNCHANGED <<out, turn, disturbed, todo[s]>> /\ ran[p] \subseteq ran'[p]
        BY <1>p, <1>6, <2>3, ExecuteMoves
    <3>2. UNCHANGED <<pc[s], cur[s]>>
        BY <1>6, <2>3 DEF Execute, TypeOK
    <3> QED
        BY <3>1, <3>2
  <2>4. CASE Stop(t)
    <3>1. UNCHANGED <<pc[s], todo[s], cur[s]>>
        BY <1>6, <2>4 DEF Stop, End
    <3>2. UNCHANGED <<out, turn, disturbed, ran>>
        BY <2>4 DEF Stop
    <3> QED
        BY <3>1, <3>2
  <2> QED
      BY <1>6, <2>1, <2>2, <2>3, <2>4 DEF Sync
<1> QED
    BY <1>p, <1>1, <1>2, <1>3, <1>4, <1>5, <1>6, StepsOn DEF Towards

\* Every step keeps what a sync knows of its commands.
LEMMA SyncLinkedStep ==
    ASSUME TypeOK, SendersLinked, \A t \in Syncs : SyncLinked(t), [Next]_vars, NEW s \in Syncs,
           TurnsLinked(On[s])
    PROVE  SyncLinked(s)'
<1> DEFINE p == On[s]
<1>p. p \in Devices /\ SyncLinked(s)
    BY OnIsMap
<1>1. CASE Others(s)
  <2>1. todo[s] \subseteq Held(p) /\ Held(p) \subseteq Made(p)
      BY DEF Held, InHand, TurnsLinked, TypeOK
  <2>2. \A v \in Made(p) :
          /\ turn'[p][v] = turn[p][v]
          /\ v \in out'[p] => v \in out[p] \cup disturbed'[p]
      BY <1>1 DEF Others
  <2>3. UNCHANGED <<pc[s], todo[s], cur[s]>> /\ disturbed[p] \subseteq disturbed'[p]
        /\ ran[p] \subseteq ran'[p]
      BY <1>1 DEF Others
  <2>4. ASSUME pc[s] = "execute"
        PROVE  Oldest(p, cur[s], todo[s])' /\ (cur[s] \in out'[p] => cur[s] \in disturbed'[p])
    <3>1. Oldest(p, cur[s], todo[s]) /\ (cur[s] \in out[p] => cur[s] \in disturbed[p])
        BY <1>p, <2>4 DEF SyncLinked
    <3>2. cur[s] \in Made(p)
        BY <2>1, <3>1 DEF Oldest
    <3> QED
        BY <2>1, <2>2, <2>3, <3>1, <3>2 DEF Oldest
  <2> QED
      BY <1>p, <2>3, <2>4 DEF SyncLinked
<1>2. CASE PullExpire(s)
    BY <1>p, <1>2 DEF PullExpire, SyncLinked, TypeOK
<1>3. CASE PullFind(s)
    BY <1>p, <1>3 DEF PullFind, SyncLinked, TypeOK
<1>4. CASE Ack(s)
  <2>1. PICK v \in Versions :
          Oldest(p, v, todo[s]) /\ cur'[s] = v /\ out'[p] = out[p] \ {v}
      BY <1>p, <1>4 DEF Ack, TypeOK
  <2>2. pc'[s] = "execute" /\ UNCHANGED <<todo, turn>>
      BY <1>4 DEF Ack, TypeOK
  <2> QED
      BY <2>1, <2>2 DEF SyncLinked, Oldest
<1>5. CASE AckLost(s)
  <2>1. PICK v \in Versions :
          Oldest(p, v, todo[s]) /\ cur'[s] = v /\ disturbed'[p] = disturbed[p] \cup {v}
      BY <1>p, <1>5 DEF AckLost, TypeOK
  <2>2. pc'[s] = "execute" /\ UNCHANGED <<todo, turn>>
      BY <1>5 DEF AckLost, TypeOK
  <2> QED
      BY <2>1, <2>2 DEF SyncLinked, Oldest
<1>6. CASE Execute(s)
  <2>1. ran'[p] = ran[p] \cup {cur[s]}
      BY <1>p, <1>6, ExecuteMoves
  <2>2. pc'[s] = "posting" /\ cur' = cur
      BY <1>6 DEF Execute, TypeOK
  <2> QED
      BY <2>1, <2>2 DEF SyncLinked
<1>7. CASE Post(s)
    BY <1>p, <1>7 DEF Post, SyncLinked, TypeOK
<1>8. CASE Stop(s)
    BY <1>8 DEF Stop, End, SyncLinked
<1>9. CASE Kill(p)
    BY <1>9 DEF Kill, End, SyncLinked
<1> QED
    BY <1>1, <1>2, <1>3, <1>4, <1>5, <1>6, <1>7, <1>8, <1>9, OthersStep DEF Sync

\* Nothing happens to memory and file of p.
Keeps(p) ==
    /\ UNCHANGED <<turn[p], ran[p], applied[p], disk[p], unsaved[p]>>
    /\ lost[p] \subseteq lost'[p]
    /\ disturbed[p] \subseteq disturbed'[p]

LEMMA KeepsStep ==
    ASSUME TypeOK, NEW p \in Devices, [Next]_vars
    PROVE  \/ Keeps(p) \/ Flush(p) \/ Kill(p)
           \/ \E u \in Updates : PushTo(u, p)
           \/ \E s \in Syncs : On[s] = p /\ Execute(s)
<1> USE DEF TypeOK, Keeps, updateVars, commandVars, deviceVars, historyVars
<1>1. Alike(p) => Keeps(p)
    BY DEF Alike
<1>2. ASSUME NEW u \in Updates, PushFails(u, p) \/ Mark(u, p)
      PROVE  Keeps(p)
    BY <1>2 DEF PushFails, Mark
<1>3. Pair(p) \/ Crash => Keeps(p)
    BY DEF Pair, Crash
<1>4. ASSUME NEW v \in Versions, Land(p, v)
      PROVE  Keeps(p)
    BY <1>4 DEF Land
<1>5. ASSUME NEW s \in Syncs, On[s] = p, PullExpire(s) \/ PullFind(s)
      PROVE  Keeps(p)
    BY <1>5 DEF PullExpire, PullFind
<1>6. ASSUME NEW s \in Syncs, On[s] = p, Ack(s) \/ AckLost(s)
      PROVE  Keeps(p)
    BY <1>6 DEF Ack, AckLost
<1>7. ASSUME NEW s \in Syncs, On[s] = p, Post(s) \/ Stop(s)
      PROVE  Keeps(p)
    BY <1>7 DEF Post, Stop
<1> QED
    BY <1>1, <1>2, <1>3, <1>4, <1>5, <1>6, <1>7, StepsOn DEF App, Sync, Towards

\* Every step keeps memory and file in order.
LEMMA StoreStep ==
    ASSUME TypeOK, SendersLinked, \A s \in Syncs : SyncLinked(s), [Next]_vars,
           NEW p \in Devices, TurnsLinked(p), OlderGoFirst(p), StoreLinked(p)
    PROVE  StoreLinked(p)'
<1>t. /\ lost[p] \subseteq Versions /\ ran[p] \subseteq Versions
      /\ \A v \in Versions : turn[p][v] \in Nat
    BY DEF TypeOK
<1>1. CASE Keeps(p)
    BY <1>1 DEF Keeps, StoreLinked, NotBefore
<1>2. CASE Flush(p)
  <2>1. /\ disk'[p] = applied[p] /\ unsaved'[p] = {}
        /\ UNCHANGED <<turn, ran, applied, lost, disturbed>>
      BY <1>2 DEF Flush, TypeOK, commandVars
  <2> QED
      BY <2>1 DEF StoreLinked, NotBefore
<1>3. CASE Kill(p)
  <2>1. /\ applied'[p] = disk[p] /\ unsaved'[p] = {}
        /\ lost[p] \cup (unsaved[p] \ {disk[p]}) \subseteq lost'[p]
        /\ UNCHANGED <<turn, ran, disk, disturbed>>
      BY <1>3 DEF Kill, TypeOK
  <2>2. \A v \in ran[p] \ lost'[p] : v = disk[p] \/ v \in ran[p] \ (lost[p] \cup unsaved[p])
      BY <2>1
  <2>3. \A v \in ran[p] \ lost'[p] : NotBefore(p, disk[p], v)
      BY <2>2 DEF StoreLinked, NotBefore
  <2> QED
      BY <2>1, <2>3 DEF StoreLinked, NotBefore
<1>4. ASSUME NEW u \in Updates, PushTo(u, p)
      PROVE  StoreLinked(p)'
  <2> DEFINE x == ver[u]
  <2>1. /\ x \notin Made(p) /\ turn[p][x] = 0
        /\ \A v \in Versions \ {x} : turn'[p][v] = turn[p][v]
      BY <1>4, PushTurns DEF Made
  <2>2. /\ UNCHANGED <<ran, applied, disk, unsaved, disturbed>>
        /\ lost'[p] = lost[p] \ {x}
      BY <1>4 DEF PushTo, TypeOK, deviceVars
  <2> HIDE DEF x
  <2>3. ran[p] \subseteq Versions \ {x} /\ ran[p] \ lost'[p] = ran[p] \ lost[p]
      BY <1>t, <2>1, <2>2 DEF TurnsLinked
  <2>4. ASSUME NEW v \in ran[p], NEW w, NotBefore(p, w, v)
        PROVE  NotBefore(p, w, v)'
    <3>1. v \in Versions \ {x} /\ turn'[p][v] = turn[p][v]
        BY <2>1, <2>3
    <3>2. ASSUME w \in Versions, turn[p][w] > turn[p][v]
          PROVE  turn'[p][w] > turn'[p][v]
      <4>1. w # x
          BY <1>t, <2>1, <3>1, <3>2
      <4> QED
          BY <2>1, <3>1, <3>2, <4>1
    <3> QED
        BY <2>2, <2>4, <3>2 DEF NotBefore
  <2>5. \A v \in ran[p] \ lost[p] : NotBefore(p, applied[p], v)'
      BY <2>2, <2>4 DEF StoreLinked, NotBefore
  <2>6. \A v \in ran[p] \ (lost[p] \cup unsaved[p]) : NotBefore(p, disk[p], v)'
      BY <2>2, <2>4 DEF StoreLinked, NotBefore
  <2> QED
      BY <2>2, <2>3, <2>5, <2>6 DEF StoreLinked
<1>5. ASSUME NEW s \in Syncs, On[s] = p, Execute(s)
      PROVE  StoreLinked(p)'
  <2> DEFINE c == cur[s]
  <2>1. /\ UNCHANGED <<turn, disturbed>>
        /\ c \in Held(p) /\ ran'[p] = ran[p] \cup {c}
      BY <1>5, ExecuteMoves
  <2>2. /\ applied'[p] = c /\ disk' = disk /\ unsaved'[p] = unsaved[p] \cup {c}
        /\ lost'[p] = lost[p] \ {c}
      BY <1>5 DEF Execute, TypeOK
  <2>c. c \in Versions
      BY <2>1 DEF Held, InHand
  <2> HIDE DEF c
  <2>3. ASSUME NEW v \in ran[p]
        PROVE  c \in {v} \cup disturbed[p] \cup {y \in Versions : turn[p][y] > turn[p][v]}
    <3>1. c \in Made(p) /\ v \in Made(p)
        BY <2>1 DEF TurnsLinked
    <3>2. turn[p][c] = turn[p][v] => c = v
        BY <3>1 DEF TurnsLinked
    <3>3. turn[p][c] < turn[p][v] => c \in disturbed[p]
        BY <2>1, <3>1 DEF OlderGoFirst, Settled
    <3> QED
        BY <1>t, <2>c, <3>2, <3>3
  <2>4. \A v \in ran'[p] : c \in {v} \cup disturbed[p] \cup {y \in Versions : turn[p][y] > turn[p][v]}
      BY <2>1, <2>3
  <2>5. \A v \in ran'[p] : NotBefore(p, applied[p], v)'
      BY <2>1, <2>2, <2>4 DEF NotBefore
  <2>6. \A v \in (ran[p] \ (lost[p] \cup unsaved[p]))' : v \in ran[p] \ (lost[p] \cup unsaved[p])
      BY <2>1, <2>2
  <2>7. \A v \in (ran[p] \ (lost[p] \cup unsaved[p]))' : NotBefore(p, disk[p], v)'
      BY <2>1, <2>2, <2>6 DEF StoreLinked, NotBefore
  <2>8. ({applied[p], disk[p]} \subseteq {0} \cup ran[p])'
      BY <2>1, <2>2 DEF StoreLinked
  <2> QED
      BY <2>2, <2>5, <2>7, <2>8 DEF StoreLinked
<1> QED
    BY <1>1, <1>2, <1>3, <1>4, <1>5, KeepsStep

\* The command of v exists at p, or is known not to come.
Has(p, v) == v \in out[p] \cup Held(p) \cup lost[p] \cup ran[p]

\* No step loses a command that it does not count as lost.
LEMMA HasStays ==
    ASSUME TypeOK, \A s \in Syncs : SyncLinked(s), [Next]_vars, NEW p \in Devices,
           NEW v \in Versions, Has(p, v)
    PROVE  Has(p, v)'
<1> USE DEF Has
<1>t. /\ out \in [Devices -> SUBSET Versions] /\ lost \in [Devices -> SUBSET Versions]
      /\ todo \in [Syncs -> SUBSET Versions] /\ ran \in [Devices -> SUBSET Versions]
      /\ cur \in [Syncs -> 0..MaxVersion]
      /\ pc \in [Syncs -> {"idle", "finding", "next", "execute", "posting"}]
    BY DEF TypeOK
<1>1. CASE Alike(p)
  <2>1. Held(p)' = Held(p)
      BY <1>1 DEF Alike, Held, InHand
  <2> QED
      BY <1>1, <2>1 DEF Alike
<1>2. ASSUME NEW u \in Updates, Towards(u, p)
      PROVE  Has(p, v)'
  <2>1. todo' = todo /\ ran' = ran /\ out[p] \subseteq out'[p]
        /\ lost[p] \subseteq lost'[p] \cup out'[p]
      BY <1>t, <1>2 DEF Towards, PushTo, PushFails, Mark, commandVars, deviceVars
  <2>2. Held(p)' = Held(p)
      BY <2>1 DEF Held, InHand
  <2> QED
      BY <2>1, <2>2
<1>3. CASE Pair(p) \/ Crash \/ Flush(p) \/ (\E w \in Versions : Land(p, w))
  <2>1. /\ todo' = todo /\ ran' = ran /\ lost[p] \subseteq lost'[p]
        /\ out[p] \subseteq out'[p] \cup lost'[p] \cup Held(p) \cup ran[p]
      BY <1>t, <1>3 DEF Pair, Crash, Flush, Land, commandVars, deviceVars
  <2>2. Held(p)' = Held(p)
      BY <2>1 DEF Held, InHand
  <2> QED
      BY <2>1, <2>2
<1>4. CASE Kill(p)
  <2>1. /\ out' = out /\ ran' = ran
        /\ lost[p] \cup Dropped(p, Syncs) \subseteq lost'[p]
      BY <1>t, <1>4 DEF Kill
  <2>2. Held(p) \subseteq Dropped(p, Syncs) \cup out[p] \cup ran[p]
      BY DEF Dropped, Held, InHand
  <2> QED
      BY <2>1, <2>2
<1>5. ASSUME NEW s \in Syncs, On[s] = p, Sync(s)
      PROVE  Has(p, v)'
  <2>h. \A w \in todo[s] : w \in Held(p)
      BY <1>t, <1>5 DEF Held, InHand
  <2>1. CASE PullExpire(s)
    <3>1. PICK n \in overdue[p]..Cardinality(Made(p)) :
            /\ out' = [out EXCEPT ![p] = @ \ Stale(p, n)]
            /\ lost' = [lost EXCEPT ![p] = @ \cup (Stale(p, n) \ (Held(p) \cup ran[p]))]
        BY <1>5, <2>1 DEF PullExpire
    <3>2. UNCHANGED <<todo, ran>> /\ Held(p)' = Held(p)
        BY <2>1 DEF PullExpire, Held, InHand
    <3> QED
        BY <1>t, <3>1, <3>2
  <2>2. CASE PullFind(s)
    <3>1. UNCHANGED <<out, lost, ran>> /\ todo[s] = {}
        BY <2>2 DEF PullFind, SyncLinked, commandVars
    <3>2. \A t \in Syncs : todo[t] \subseteq todo'[t]
        BY <1>t, <2>2, <3>1 DEF PullFind
    <3>3. Held(p) \subseteq Held(p)'
        BY <3>2 DEF Held, InHand
    <3> QED
        BY <3>1, <3>3
  <2>3. CASE Ack(s)
    <3>1. PICK w \in Versions : Oldest(p, w, todo[s]) /\ out' = [out EXCEPT ![p] = @ \ {w}]
        BY <1>5, <2>3 DEF Ack
    <3>2. UNCHANGED <<todo, ran, lost>> /\ Held(p)' = Held(p)
        BY <2>3 DEF Ack, historyVars, Held, InHand
    <3> QED
        BY <1>t, <2>h, <3>1, <3>2 DEF Oldest
  <2>4. CASE AckLost(s)
    <3>1. UNCHANGED <<todo, ran, lost, out>> /\ Held(p)' = Held(p)
        BY <2>4 DEF AckLost, Held, InHand
    <3> QED
        BY <3>1
  <2>5. CASE Execute(s)
    <3>1. /\ out' = out /\ ran'[p] = ran[p] \cup {cur[s]}
          /\ todo'[s] = todo[s] \ {cur[s]}
          /\ \A t \in Syncs \ {s} : todo'[t] = todo[t]
        BY <1>5, <2>5, ExecuteMoves
    <3>2. lost'[p] = lost[p] \ {cur[s]}
        BY <1>t, <1>5, <2>5 DEF Execute
    <3>3. Held(p) \subseteq Held(p)' \cup {cur[s]}
        BY <3>1 DEF Held, InHand
    <3> QED
        BY <3>1, <3>2, <3>3
  <2>6. CASE Post(s)
    <3>1. UNCHANGED <<todo, ran, lost>> /\ out'[p] = out[p] \ {cur[s]}
        BY <1>t, <1>5, <2>6 DEF Post, historyVars
    <3>2. cur[s] \in ran[p] /\ Held(p)' = Held(p)
        BY <1>5, <2>6, <3>1 DEF Post, SyncLinked, Held, InHand
    <3> QED
        BY <3>1, <3>2
  <2>7. CASE Stop(s)
    <3>1. UNCHANGED <<out, ran>> /\ lost[p] \cup Dropped(p, {s}) \subseteq lost'[p]
        BY <1>t, <1>5, <2>7 DEF Stop
    <3>2. \A t \in Syncs \ {s} : todo'[t] = todo[t]
        BY <2>7 DEF Stop, End
    <3>3. InHand(p, Syncs \ {s}) \subseteq Held(p)'
        BY <3>2 DEF Held, InHand
    <3>4. Held(p) \subseteq InHand(p, {s}) \cup InHand(p, Syncs \ {s})
        BY DEF Held, InHand
    <3> QED
        BY <3>1, <3>3, <3>4 DEF Dropped
  <2> QED
      BY <1>5, <2>1, <2>2, <2>3, <2>4, <2>5, <2>6, <2>7 DEF Sync
<1> QED
    BY <1>1, <1>2, <1>3, <1>4, <1>5, StepsOn DEF App

\* What an update owes a device it goes on owing until it sends it or it is lost.
LEMMA OwesStays ==
    ASSUME TypeOK, [Next]_vars, NEW p \in Devices, NEW v \in Versions,
           NEW u \in Updates, Owes(u, v, p)
    PROVE  Owes(u, v, p)' \/ v \in out'[p] \cup lost'[p]
<1> USE DEF Owes
<1>t. /\ out \in [Devices -> SUBSET Versions] /\ lost \in [Devices -> SUBSET Versions]
      /\ upc \in [Updates -> {"idle", "deactivate", "create", "list", "push"}]
      /\ ver \in [Updates -> 0..MaxVersion]
      /\ pending \in [Updates -> SUBSET Devices]
    BY DEF TypeOK
<1>1. ASSUME NEW t \in Updates, ReadLatest(t) \/ Deactivate(t) \/ Create(t) \/ CreateRejected(t)
      PROVE  Owes(u, v, p)'
  <2>1. t # u /\ upc'[u] = upc[u] /\ ver'[u] = ver[u] /\ UNCHANGED <<paired, pending>>
      BY <1>t, <1>1 DEF ReadLatest, Deactivate, Create, CreateRejected
  <2> QED
      BY <2>1
<1>2. ASSUME NEW t \in Updates, ListDevices(t)
      PROVE  Owes(u, v, p)'
    BY <1>t, <1>2 DEF ListDevices, Recipients
<1>3. ASSUME NEW t \in Updates, NEW q \in Devices, PushTo(t, q)
      PROVE  Owes(u, v, p)' \/ v \in out'[p]
  <2>1. /\ UNCHANGED <<paired, upc, ver>> /\ out'[q] = out[q] \cup {ver[t]}
        /\ pending' = [pending EXCEPT ![t] = @ \ {q}]
      BY <1>t, <1>3 DEF PushTo
  <2> QED
      BY <1>t, <2>1
<1>4. ASSUME NEW t \in Updates, NEW q \in Devices, PushFails(t, q)
      PROVE  Owes(u, v, p)' \/ v \in lost'[p]
  <2>1. /\ UNCHANGED <<paired, upc, ver>> /\ lost'[q] = lost[q] \cup {ver[t]}
        /\ pending' = [pending EXCEPT ![t] = @ \ {q}]
      BY <1>t, <1>4 DEF PushFails
  <2> QED
      BY <1>t, <2>1
<1>5. ASSUME NEW t \in Updates, Finish(t)
      PROVE  Owes(u, v, p)'
  <2>1. t # u /\ upc'[u] = upc[u] /\ ver'[u] = ver[u] /\ UNCHANGED <<paired, pending>>
      BY <1>t, <1>5 DEF Finish
  <2> QED
      BY <2>1
<1>6. CASE Crash
  <2>1. v \in lost'[p]
      BY <1>6 DEF Crash
  <2> QED
      BY <2>1
<1>7. ASSUME \/ \E t \in Updates, q \in Devices : Mark(t, q) \/ MarkFails(t, q)
             \/ \E s \in Syncs : Sync(s)
             \/ \E q \in Devices : Pair(q) \/ App(q)
             \/ UNCHANGED vars
      PROVE  Owes(u, v, p)'
  <2>1. UNCHANGED <<upc, ver, pending>> /\ paired \subseteq paired'
      BY <1>7 DEF Mark, MarkFails, Sync, PullExpire, PullFind, Ack, AckLost, Execute, Post, Stop,
           Pair, App, Flush, Kill, Land, vars, updateVars
  <2> QED
      BY <2>1
<1> QED
    BY <1>1, <1>2, <1>3, <1>4, <1>5, <1>6, <1>7 DEF Next, Update

\* A version made is owed to every device of the family.
LEMMA MadeIsOwed ==
    ASSUME TypeOK, [Next]_vars, NEW p \in paired, NEW v \in Versions, ~Exists(v), Exists(v)'
    PROVE  p \in paired' /\ \E u \in Updates : Owes(u, v, p)'
<1>t. row \in [Versions -> {"none", "active", "inactive"}]
      /\ upc \in [Updates -> {"idle", "deactivate", "create", "list", "push"}]
    BY DEF TypeOK
<1>1. row[v] = "none" /\ row'[v] # "none"
    BY DEF Exists
<1>2. ASSUME NEW u \in Updates,
             \/ ReadLatest(u) \/ Deactivate(u) \/ CreateRejected(u)
             \/ ListDevices(u) \/ Finish(u)
      PROVE  row'[v] = row[v]
    BY <1>1, <1>2 DEF ReadLatest, Deactivate, Deactivated, CreateRejected, ListDevices, Finish
<1>3. Crash \/ Aside => row' = row
    BY DEF Crash, Aside
<1>4. PICK u \in Updates : Create(u)
    BY <1>1, <1>2, <1>3, StepsAside
<1>5. ver[u] = v /\ ver' = ver /\ paired' = paired /\ upc'[u] = "list"
    BY <1>t, <1>1, <1>4 DEF Create
<1> QED
    BY <1>5 DEF Owes

\* Every step keeps account of every version at every device of the family.
LEMMA AccountedStep ==
    ASSUME TypeOK, \A s \in Syncs : SyncLinked(s), [Next]_vars, NEW p \in Devices, Accounted(p)
    PROVE  Accounted(p)'
<1> SUFFICES ASSUME p \in paired', NEW v \in Versions, Exists(v)'
             PROVE  Has(p, v)' \/ \E u \in Updates : Owes(u, v, p)'
    BY DEF Accounted, Coming, Has
<1>1. CASE p \notin paired
  <2>u. ASSUME NEW u \in Updates, Update(u)
        PROVE  paired' = paired
      BY <2>u DEF Update, ReadLatest, Deactivate, Create, CreateRejected, ListDevices, Finish,
           PushTo, PushFails, Mark, MarkFails
  <2>s. ASSUME NEW s \in Syncs, Sync(s)
        PROVE  paired' = paired
      BY <2>s DEF Sync, PullExpire, PullFind, Ack, AckLost, Execute, Post, Stop
  <2>a. ASSUME NEW q \in Devices, App(q)
        PROVE  paired' = paired
      BY <2>a DEF App, Flush, Kill, Land
  <2>1. Pair(p)
      BY <1>1, <2>u, <2>s, <2>a DEF Next, Pair, Crash, vars
  <2>2. v \in lost'[p]
      BY <2>1 DEF Pair, Exists, TypeOK
  <2> QED
      BY <2>2 DEF Has
<1>2. CASE p \in paired /\ Exists(v)
  <2>1. Has(p, v) \/ \E u \in Updates : Owes(u, v, p)
      BY <1>2 DEF Accounted, Coming, Has
  <2>2. Has(p, v) => Has(p, v)'
      BY HasStays
  <2>3. \A u \in Updates : Owes(u, v, p) => Owes(u, v, p)' \/ Has(p, v)'
      BY OwesStays DEF Has
  <2> QED
      BY <2>1, <2>2, <2>3
<1>3. CASE p \in paired /\ ~Exists(v)
    BY <1>3, MadeIsOwed
<1> QED
    BY <1>1, <1>2, <1>3

-----------------------------------------------------------------------------
(* The invariant *)

LEMMA InvariantInit == Init => IInv
<1> SUFFICES ASSUME Init
             PROVE  IInv
    OBVIOUS
<1>1. TypeOK
  <2>1. /\ 0 \in 0..MaxVersion
        /\ \A p \in Devices : turn[p] \in [Versions -> Nat]
      BY MaxVersionIsNat DEF Init
  <2>2. turn \in [Devices -> [Versions -> Nat]]
      BY <2>1 DEF Init
  <2>3. row \in [Versions -> {"none", "active", "inactive"}]
      BY DEF Init
  <2>4. /\ upc \in [Updates -> {"idle", "deactivate", "create", "list", "push"}]
        /\ ver \in [Updates -> 0..MaxVersion]
        /\ pending \in [Updates -> SUBSET Devices]
        /\ marking \in [Updates -> SUBSET Devices]
      BY <2>1 DEF Init
  <2>5. /\ pc \in [Syncs -> {"idle", "finding", "next", "execute", "posting"}]
        /\ todo \in [Syncs -> SUBSET Versions]
        /\ cur \in [Syncs -> 0..MaxVersion]
      BY <2>1 DEF Init
  <2>6. /\ out \in [Devices -> SUBSET Versions] /\ late \in [Devices -> SUBSET Versions]
        /\ ran \in [Devices -> SUBSET Versions] /\ unsaved \in [Devices -> SUBSET Versions]
        /\ lost \in [Devices -> SUBSET Versions] /\ disturbed \in [Devices -> SUBSET Versions]
      BY DEF Init
  <2>7. /\ applied \in [Devices -> 0..MaxVersion] /\ disk \in [Devices -> 0..MaxVersion]
        /\ overdue \in [Devices -> Nat]
      BY <2>1 DEF Init
  <2>8. /\ paired \in SUBSET Devices /\ trail \in SUBSET Versions
        /\ alone \in BOOLEAN /\ overlapped \in BOOLEAN
      BY DEF Init
  <2> QED
      BY <2>2, <2>3, <2>4, <2>5, <2>6, <2>7, <2>8 DEF TypeOK
<1>2. NoGaps /\ UpdatesLinked /\ AloneLinked /\ ActiveIsNewest
    BY DEF Init, NoGaps, UpdatesLinked, AloneLinked, ActiveIsNewest, Writing
<1>3. SendersLinked /\ \A s \in Syncs : SyncLinked(s)
    BY DEF Init, SendersLinked, Sending, SyncLinked
<1>4. ASSUME NEW p \in Devices
      PROVE  TurnsLinked(p) /\ HeldOnce(p) /\ OlderGoFirst(p) /\ StoreLinked(p) /\ Accounted(p)
  <2>1. Made(p) = {} /\ Held(p) = {}
      BY <1>4 DEF Init, Made, Held, InHand
  <2>2. TurnsLinked(p)
    <3>1. Cardinality(Made(p)) \in Nat
        BY <1>1, TurnsAreNat
    <3> QED
        BY <2>1, <3>1 DEF Init, TurnsLinked
  <2>3. HeldOnce(p) /\ OlderGoFirst(p)
      BY <2>1 DEF Init, HeldOnce, OlderGoFirst
  <2>4. StoreLinked(p) /\ Accounted(p)
      BY DEF Init, StoreLinked, Accounted
  <2> QED
      BY <2>2, <2>3, <2>4
<1> QED
    BY <1>1, <1>2, <1>3, <1>4 DEF IInv, DeliveryInv

\* Every step keeps the types.
LEMMA TypeStep == IInv /\ [Next]_vars => TypeOK'
BY UpdateTypes, SyncTypes, OtherTypes DEF IInv, DeliveryInv, Next

\* Every step keeps what is known of the way to the devices.
LEMMA DeliveryStep == IInv /\ [Next]_vars => DeliveryInv'
<1> SUFFICES ASSUME IInv, [Next]_vars
             PROVE  DeliveryInv'
    OBVIOUS
<1>0. /\ TypeOK /\ UpdatesLinked /\ SendersLinked
      /\ \A s \in Syncs : SyncLinked(s) /\ TurnsLinked(On[s])
      /\ \A p \in Devices :
           TurnsLinked(p) /\ HeldOnce(p) /\ OlderGoFirst(p) /\ StoreLinked(p) /\ Accounted(p)
    BY OnIsMap DEF IInv, DeliveryInv
<1>1. SendersLinked'
    BY <1>0, SendersStep
<1>2. \A s \in Syncs : SyncLinked(s)'
    BY <1>0, SyncLinkedStep
<1>3. ASSUME NEW p \in Devices
      PROVE  TurnsLinked(p)' /\ HeldOnce(p)' /\ OlderGoFirst(p)'
    BY <1>0, TurnsStep, HeldOnceStep, OlderStep
<1>4. ASSUME NEW p \in Devices
      PROVE  StoreLinked(p)' /\ Accounted(p)'
    BY <1>0, StoreStep, AccountedStep
<1> QED
    BY <1>1, <1>2, <1>3, <1>4 DEF DeliveryInv

\* The invariant always holds.
THEOREM Invariance == Spec => []IInv
<1>1. IInv /\ [Next]_vars => IInv'
    BY TypeStep, GapsStep, UpdatesStep, AloneStep, NewestStep, DeliveryStep DEF IInv
<1> QED
    BY InvariantInit, <1>1, PTL DEF Spec

\* Every variable keeps its type.
THEOREM TypeCorrect == Spec => []TypeOK
<1>1. IInv => TypeOK
    BY DEF IInv
<1> QED
    BY <1>1, Invariance, PTL

\* For any number of concurrent updates and through crashes between any two of
\* their statements, the active version is the newest.
THEOREM NewestIsActive == Spec => []ActiveIsNewest
<1>1. IInv => ActiveIsNewest
    BY DEF IInv
<1> QED
    BY <1>1, Invariance, PTL

\* An update that nothing interfered with leaves an active version.
THEOREM AloneActivates == Spec => []UpdateAloneActivates
<1>1. IInv => UpdateAloneActivates
    BY DEF IInv, AloneLinked, UpdateAloneActivates, Quiet, Writing
<1> QED
    BY <1>1, Invariance, PTL

-----------------------------------------------------------------------------
(***************************************************************************)
(* While no two updates have overlapped, commands are created in the order *)
(* of their versions: OrderInv, inductive given IInv.                      *)
(***************************************************************************)

\* Every step leaves one update at work, with the newest version.
LEMMA OneUpdateStep ==
    ASSUME IInv, OneUpdate, [Next]_vars, ~overlapped'
    PROVE  OneUpdate'
<1> USE MaxVersionIsNat DEF OneUpdate, InProgress, Exists, Writing, Versions
<1>a. /\ row \in [Versions -> {"none", "active", "inactive"}]
      /\ upc \in [Updates -> {"idle", "deactivate", "create", "list", "push"}]
      /\ ver \in [Updates -> 0..MaxVersion]
      /\ overlapped \in BOOLEAN
    BY DEF IInv, TypeOK
<1>1. ASSUME NEW u \in Updates, ReadLatest(u)
      PROVE  OneUpdate'
  <2>1. PICK n \in 0..MaxVersion : IsLatest(n) /\ n < MaxVersion /\ ver' = [ver EXCEPT ![u] = n + 1]
      BY <1>a, <1>1 DEF ReadLatest, Following
  <2>2. \A t \in Updates : ~InProgress(t)
      BY <1>a, <1>1 DEF ReadLatest
  <2>3. upc' = [upc EXCEPT ![u] = "deactivate"] /\ row' = row
      BY <1>a, <1>1 DEF ReadLatest
  <2>4. \A v \in Versions : row[v] # "none" => v < n + 1
      BY <2>1 DEF IsLatest
  <2> QED
      BY <1>a, <2>1, <2>2, <2>3, <2>4
<1>2. ASSUME NEW u \in Updates, Deactivate(u)
      PROVE  OneUpdate'
    BY <1>a, <1>2 DEF Deactivate, Deactivated
<1>3. ASSUME NEW u \in Updates, Create(u)
      PROVE  OneUpdate'
  <2>1. /\ upc[u] = "create" /\ row' = [row EXCEPT ![ver[u]] = "active"]
        /\ upc' = [upc EXCEPT ![u] = "list"] /\ ver' = ver
      BY <1>3 DEF Create, NewRow
  <2>2. ver[u] \in Versions
      BY <2>1 DEF IInv, UpdatesLinked
  <2>3. \A t \in Updates : InProgress(t)' => t = u
      BY <1>a, <2>1
  <2>4. \A v \in Versions : row'[v] # "none" => v <= ver[u]
      BY <1>a, <2>1, <2>2
  <2>5. row'[ver[u]] # "none" /\ ~Writing(u)'
      BY <1>a, <2>1, <2>2
  <2> QED
      BY <1>a, <2>1, <2>2, <2>3, <2>4, <2>5
<1>4. ASSUME NEW u \in Updates, CreateRejected(u) \/ ListDevices(u) \/ Finish(u)
      PROVE  OneUpdate'
  <2>1. row' = row /\ \A t \in Updates \ {u} : upc'[t] = upc[t] /\ ver'[t] = ver[t]
      BY <1>a, <1>4 DEF CreateRejected, ListDevices, Finish
  <2>2. \/ upc'[u] = "idle"
        \/ InProgress(u) /\ ~Writing(u) /\ ~Writing(u)' /\ ver'[u] = ver[u]
      BY <1>a, <1>4 DEF CreateRejected, ListDevices, Finish
  <2>3. ASSUME NEW t \in Updates, InProgress(t)'
        PROVE  InProgress(t) /\ ver'[t] = ver[t] /\ Writing(t)' = Writing(t)
      BY <2>1, <2>2, <2>3
  <2>4. ASSUME NEW t \in Updates, NEW s \in Updates, InProgress(t)', InProgress(s)'
        PROVE  t = s
    <3>1. InProgress(t) /\ InProgress(s)
        BY <2>3, <2>4
    <3> QED
        BY <3>1
  <2>5. ASSUME NEW t \in Updates, NEW v \in Versions, row'[v] # "none"
        PROVE  (Writing(t)' => v < ver'[t]) /\ (InProgress(t)' => v <= ver'[t])
    <3>1. Writing(t)' => InProgress(t)'
        OBVIOUS
    <3> QED
        BY <2>1, <2>3, <2>5, <3>1
  <2>6. ASSUME NEW t \in Updates, InProgress(t)'
        PROVE  Writing(t)' \/ Exists(ver[t])'
    <3>1. InProgress(t) /\ ver'[t] = ver[t] /\ Writing(t)' = Writing(t)
        BY <2>3, <2>6
    <3> QED
        BY <2>1, <3>1
  <2> QED
      BY <2>4, <2>5, <2>6
<1>5. CASE Crash
    BY <1>a, <1>5 DEF Crash
<1>6. CASE Aside
    BY <1>a, <1>6 DEF Aside
<1> QED
    BY <1>1, <1>2, <1>3, <1>4, <1>5, <1>6, StepsAside

\* Every step keeps the commands of a device in the order of their versions.
LEMMA TurnsInOrderStep ==
    ASSUME IInv, OneUpdate, [Next]_vars, NEW p \in Devices, TurnsInOrder(p)
    PROVE  TurnsInOrder(p)'
<1>0. TypeOK /\ SendersLinked /\ TurnsLinked(p)
    BY DEF IInv, DeliveryInv
<1>1. CASE turn'[p] = turn[p]
    BY <1>1 DEF TurnsInOrder, Made
<1>2. ASSUME NEW u \in Updates, PushTo(u, p)
      PROVE  TurnsInOrder(p)'
  <2> DEFINE x == ver[u]
  <2>1. /\ x \in Versions /\ turn[p][x] = 0
        /\ turn'[p][x] = Cardinality(Made(p)) + 1
        /\ \A v \in Versions \ {x} : turn'[p][v] = turn[p][v]
        /\ Made(p)' = Made(p) \cup {x}
        /\ Cardinality(Made(p)) \in Nat
      BY <1>0, <1>2, PushTurns
  <2>2. ASSUME NEW v \in Made(p)
        PROVE  v \in Versions \ {x} /\ turn[p][v] <= Cardinality(Made(p)) /\ v <= x
               /\ turn[p][v] \in Nat
    <3>1. v \in Versions \ {x} /\ row[v] # "none"
        BY <1>0, <2>1 DEF TurnsLinked, Made
    <3>2. v <= x
        BY <1>2, <3>1 DEF OneUpdate, InProgress, PushTo
    <3> QED
        BY <1>0, <3>1, <3>2 DEF TurnsLinked, TypeOK
  <2> HIDE DEF x
  <2>3. \A v \in Made(p), w \in Made(p) : v < w => turn'[p][v] < turn'[p][w]
      BY <2>1, <2>2 DEF TurnsInOrder
  <2>4. \A v \in Made(p) : turn'[p][v] < turn'[p][x] /\ ~(x < v)
      BY <2>1, <2>2, MaxVersionIsNat DEF Versions
  <2>5. ~(x < x)
      BY <2>1, MaxVersionIsNat DEF Versions
  <2> QED
      BY <2>1, <2>3, <2>4, <2>5 DEF TurnsInOrder
<1>3. Keeps(p) => turn'[p] = turn[p]
    BY DEF Keeps
<1>4. Flush(p) \/ Kill(p) \/ (\E s \in Syncs : Execute(s)) => turn'[p] = turn[p]
    BY DEF Flush, Kill, Execute, commandVars
<1> QED
    BY <1>0, <1>1, <1>2, <1>3, <1>4, KeepsStep

\* Overlaps are not forgotten.
LEMMA OverlappedStays ==
    ASSUME TypeOK, [Next]_vars, overlapped
    PROVE  overlapped'
<1>1. ASSUME NEW u \in Updates,
             \/ ReadLatest(u) \/ Deactivate(u) \/ Create(u) \/ CreateRejected(u)
             \/ ListDevices(u) \/ Finish(u)
      PROVE  overlapped'
    BY <1>1 DEF ReadLatest, Deactivate, Create, CreateRejected, ListDevices, Finish,
                historyVars, TypeOK
<1> QED
    BY <1>1, StepsAside DEF Aside, Crash

\* The order invariant always holds.
LEMMA OrderInvariance == Spec => []OrderInv
<1>1. Init => OrderInv
    BY DEF Init, OrderInv, OneUpdate, InProgress, TurnsInOrder, Made
<1>2. IInv /\ OrderInv /\ [Next]_vars => OrderInv'
  <2> SUFFICES ASSUME IInv, OrderInv, [Next]_vars, ~overlapped'
               PROVE  OneUpdate' /\ \A p \in Devices : TurnsInOrder(p)'
      BY DEF OrderInv
  <2>1. ~overlapped
      BY OverlappedStays DEF IInv
  <2>2. OneUpdate /\ \A p \in Devices : TurnsInOrder(p)
      BY <2>1 DEF OrderInv
  <2> QED
      BY <2>2, OneUpdateStep, TurnsInOrderStep
<1> QED
    BY <1>1, <1>2, Invariance, PTL DEF Spec

\* An older version that NotBefore admits has an excuse to be kept instead.
LEMMA NotBeforeIsExcused ==
    ASSUME IInv, OrderInv, NEW p \in Devices, NEW v \in Made(p), NEW w \in Made(p),
           w < v, NotBefore(p, w, v)
    PROVE  Excused(p, w, v)
<1>1. v \in Versions /\ w \in Versions /\ v # w
    BY MaxVersionIsNat DEF Made, Versions
<1>2. ASSUME turn[p][w] > turn[p][v], ~overlapped
      PROVE  FALSE
  <2>1. turn[p][w] < turn[p][v]
      BY <1>2 DEF OrderInv, TurnsInOrder
  <2> QED
      BY <1>1, <1>2, <2>1 DEF IInv, TypeOK
<1> QED
    BY <1>1, <1>2 DEF NotBefore, Excused, Crossed

\* A device goes back to an older policy for the reasons NoneGoesBack names only.
THEOREM NeverOlder == Spec => NeverOlderPolicy
<1>1. ASSUME IInv, OrderInv, [Next]_vars, NEW p \in Devices, applied'[p] < applied[p]
      PROVE  applied[p] \in lost'[p] \/ Excused(p, applied'[p], applied[p])
  <2> DEFINE a == applied[p]
  <2>t. TypeOK /\ a \in 0..MaxVersion
      BY <1>1 DEF IInv, TypeOK
  <2>0. /\ SendersLinked /\ \A s \in Syncs : SyncLinked(s)
        /\ TurnsLinked(p) /\ OlderGoFirst(p) /\ StoreLinked(p)
      BY <1>1 DEF IInv, DeliveryInv
  <2>1. ~Keeps(p) /\ ~Flush(p) /\ ~\E u \in Updates : PushTo(u, p)
    <3>1. ~UNCHANGED applied[p]
        BY <1>1, <2>t, MaxVersionIsNat
    <3> QED
        BY <3>1 DEF Keeps, Flush, PushTo, deviceVars
  <2>2. CASE Kill(p)
    <3>1. applied'[p] = disk[p] /\ unsaved[p] \ {disk[p]} \subseteq lost'[p]
        BY <2>2, <2>t DEF Kill, TypeOK
    <3>2. a # disk[p]
        BY <1>1, <2>t, <3>1, MaxVersionIsNat
    <3> QED
        BY <2>0, <3>1, <3>2 DEF StoreLinked
  <2>3. ASSUME NEW s \in Syncs, On[s] = p, Execute(s)
        PROVE  Excused(p, applied'[p], a)
    <3> DEFINE c == cur[s]
    <3>1. c \in Held(p) /\ applied'[p] = c
        BY <2>3, <2>t, <2>0, ExecuteMoves DEF Execute, TypeOK
    <3>2. a # 0
        BY <1>1, <2>t, <3>1, MaxVersionIsNat DEF Held, InHand, Versions
    <3>3. a \in ran[p] /\ a \in Made(p) /\ c \in Made(p)
        BY <2>0, <3>1, <3>2 DEF StoreLinked, TurnsLinked
    <3>4. c # a /\ c < a /\ c \in Versions /\ a \in Versions
        BY <1>1, <2>t, <3>1, <3>3, MaxVersionIsNat DEF Made, Versions
    <3>5. turn[p][c] < turn[p][a] => c \in disturbed[p]
        BY <2>0, <3>1, <3>3 DEF OlderGoFirst, Settled
    <3>6. turn[p][c] # turn[p][a] /\ turn[p][c] \in Nat /\ turn[p][a] \in Nat
        BY <2>t, <2>0, <3>3, <3>4 DEF TurnsLinked, TypeOK
    <3>7. NotBefore(p, c, a)
        BY <3>4, <3>5, <3>6 DEF NotBefore
    <3> QED
        BY <1>1, <3>1, <3>3, <3>4, <3>7, NotBeforeIsExcused
  <2> QED
      BY <1>1, <2>t, <2>1, <2>2, <2>3, KeepsStep
<1>2. IInv /\ OrderInv /\ [Next]_vars => [NoneGoesBack]_vars
    BY <1>1 DEF NoneGoesBack
<1> QED
    BY <1>2, Invariance, OrderInvariance, PTL DEF Spec, NeverOlderPolicy

\* A device of the family has the newest policy, or it is on its way, or the
\* device keeps another for the reasons NewestIsComing names only.
THEOREM NewestComes == Spec => []NewestIsComing
<1>1. ASSUME IInv, OrderInv, NEW p \in paired, NEW v \in Versions, Exists(v),
             \A w \in Versions : Exists(w) => w <= v, ~Coming(p, v), v \notin lost[p],
             applied[p] # v
      PROVE  v \in ran[p] /\ Excused(p, applied[p], v)
  <2> DEFINE a == applied[p]
  <2>0. /\ TypeOK /\ p \in Devices
        /\ TurnsLinked(p) /\ StoreLinked(p) /\ Accounted(p)
      BY <1>1 DEF IInv, DeliveryInv, TypeOK
  <2>1. v \in ran[p] \ lost[p] /\ v \in Made(p)
      BY <1>1, <2>0 DEF Accounted, TurnsLinked
  <2>2. NotBefore(p, a, v)
      BY <2>0, <2>1 DEF StoreLinked
  <2>3. a \in Made(p)
    <3>1. a # 0 \/ 0 \in disturbed[p] \/ 0 \in Versions
        BY <1>1, <2>2 DEF NotBefore
    <3>2. a # 0
        BY <2>0, <3>1, MaxVersionIsNat DEF TypeOK, Versions
    <3> QED
        BY <2>0, <3>2 DEF StoreLinked, TurnsLinked
  <2>4. a < v
    <3>1. a \in Versions /\ Exists(a)
        BY <2>0, <2>3 DEF TurnsLinked, Made, Exists
    <3> QED
        BY <1>1, <3>1, MaxVersionIsNat DEF Versions
  <2> QED
      BY <1>1, <2>0, <2>1, <2>2, <2>3, <2>4, NotBeforeIsExcused
<1>2. IInv /\ OrderInv => NewestIsComing
    BY <1>1 DEF NewestIsComing
<1> QED
    BY <1>2, Invariance, OrderInvariance, PTL

\* Devices follow the family's policy, forward only and up to the newest, but for
\* the reasons named.
THEOREM DevicesKeepUp == Spec => DevicesFollow
<1>1. [NoneGoesBack]_vars /\ NewestIsComing' => [NoneGoesBack /\ NewestIsComing']_vars
    OBVIOUS
<1> QED
    BY <1>1, NeverOlder, NewestComes, PTL DEF DevicesFollow, NeverOlderPolicy
=============================================================================
