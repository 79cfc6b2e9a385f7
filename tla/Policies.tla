------------------------------ MODULE Policies ------------------------------
(***************************************************************************)
(* The policy of one family: PoliciesService.update, the rows it versions, *)
(* and the way of each version to the family's devices.                    *)
(*                                                                         *)
(* An update is four awaited steps on Postgres without a transaction (read *)
(* the latest version, deactivate, create the next version, list the       *)
(* devices), then one SET_POLICY command for each device, enqueued         *)
(* concurrently. Two updates of the family interleave at every step.       *)
(*                                                                         *)
(* The commands travel as in module CommandSpine, with everything that can *)
(* lose, repeat or reorder them there: syncs of a device that overlap,     *)
(* acks that are not confirmed or land late, enqueue's last update, expiry,*)
(* dropped lists, crashes of either side. Of a command's state only        *)
(* outstanding or not is kept, and an ack or a result takes effect in one  *)
(* step: a late one is a step of its own. A SET_POLICY command is named by *)
(* its version. Rules are left out: a policy is its version.               *)
(***************************************************************************)
EXTENDS Naturals, FiniteSets

CONSTANTS
    Updates,        \* concurrent requests to PUT family/policy
    Devices,
    Syncs,          \* concurrent runs of syncAndExecute
    On,             \* the device a sync runs on
    MaxVersion      \* bound on the versions a behaviour creates

ASSUME MaxVersionIsNat == MaxVersion \in Nat
ASSUME OnIsMap == On \in [Syncs -> Devices]

VARIABLES
    row,            \* the Policy table, by version
    paired,         \* the family's rows of the Device table
    upc, ver,       \* where an update is, and the version it will create
    pending,        \* devices an update has still to create a command for
    marking,        \* devices whose call to enqueue has its last update to make
    trail,          \* versions with a policy_updated row in the audit log
    \* the SET_POLICY commands of a device
    out,            \* those QUEUED or SENT
    turn,           \* their order of creation, 0 for a version without one
    overdue,        \* the turn up to which expiresAt has passed
    late,           \* acks and results given up that the backend may yet serve
    \* the devices
    pc, todo, cur,  \* where a sync is, what it has in hand, what it works on
    applied,        \* the version in PolicyStore's preferences, 0 for none
    disk,           \* the version in their file
    \* what happened, for the properties only
    alone,          \* nothing interfered with the last update to read a version
    overlapped,     \* two updates were in progress at once
    ran,            \* versions a device executed
    unsaved,        \* those among them that came after its file was written
    lost,           \* versions lost on their way to a device or in it
    disturbed       \* versions handed out twice or overtaken on their way

updateVars == <<upc, ver, pending, marking>>
commandVars == <<out, turn, overdue, late>>
deviceVars == <<pc, todo, cur, applied, disk>>
historyVars == <<alone, overlapped, ran, unsaved, lost, disturbed>>
vars == <<row, paired, updateVars, trail, commandVars, deviceVars, historyVars>>

Versions == 1..MaxVersion

TypeOK ==
    /\ row \in [Versions -> {"none", "active", "inactive"}]
    /\ paired \in SUBSET Devices
    /\ upc \in [Updates -> {"idle", "deactivate", "create", "list", "push"}]
    /\ ver \in [Updates -> 0..MaxVersion]
    /\ pending \in [Updates -> SUBSET Devices]
    /\ marking \in [Updates -> SUBSET Devices]
    /\ trail \in SUBSET Versions
    /\ out \in [Devices -> SUBSET Versions]
    /\ turn \in [Devices -> [Versions -> Nat]]
    /\ overdue \in [Devices -> Nat]
    /\ late \in [Devices -> SUBSET Versions]
    /\ pc \in [Syncs -> {"idle", "finding", "next", "execute", "posting"}]
    /\ todo \in [Syncs -> SUBSET Versions]
    /\ cur \in [Syncs -> 0..MaxVersion]
    /\ applied \in [Devices -> 0..MaxVersion]
    /\ disk \in [Devices -> 0..MaxVersion]
    /\ alone \in BOOLEAN
    /\ overlapped \in BOOLEAN
    /\ ran \in [Devices -> SUBSET Versions]
    /\ unsaved \in [Devices -> SUBSET Versions]
    /\ lost \in [Devices -> SUBSET Versions]
    /\ disturbed \in [Devices -> SUBSET Versions]

Init ==
    /\ row = [v \in Versions |-> "none"]
    /\ paired = {}
    /\ upc = [u \in Updates |-> "idle"]
    /\ ver = [u \in Updates |-> 0]
    /\ pending = [u \in Updates |-> {}]
    /\ marking = [u \in Updates |-> {}]
    /\ trail = {}
    /\ out = [p \in Devices |-> {}]
    /\ turn = [p \in Devices |-> [v \in Versions |-> 0]]
    /\ overdue = [p \in Devices |-> 0]
    /\ late = [p \in Devices |-> {}]
    /\ pc = [s \in Syncs |-> "idle"]
    /\ todo = [s \in Syncs |-> {}]
    /\ cur = [s \in Syncs |-> 0]
    /\ applied = [p \in Devices |-> 0]
    /\ disk = [p \in Devices |-> 0]
    /\ alone = TRUE
    /\ overlapped = FALSE
    /\ ran = [p \in Devices |-> {}]
    /\ unsaved = [p \in Devices |-> {}]
    /\ lost = [p \in Devices |-> {}]
    /\ disturbed = [p \in Devices |-> {}]

-----------------------------------------------------------------------------
(* PoliciesService.update *)

Exists(v) == v \in Versions /\ row[v] # "none"

\* n is what findFirst orderBy version desc finds, 0 for no row.
IsLatest(n) ==
    /\ n # 0 => row[n] # "none"
    /\ \A v \in Versions : row[v] # "none" => v <= n

SkipsOne(n) == IF n = 0 THEN 1 ELSE n + 2               \* mutant: off by one
Following(n) == n + 1

Writing(u) == upc[u] \in {"deactivate", "create"}

ReadLatest(u) ==
    /\ upc[u] = "idle"
    /\ \E n \in 0..MaxVersion :
         /\ IsLatest(n)
         /\ n < MaxVersion
         /\ ver' = [ver EXCEPT ![u] = Following(n)]
    /\ upc' = [upc EXCEPT ![u] = "deactivate"]
    /\ alone' = \A t \in Updates : ~Writing(t)
    /\ overlapped' = (overlapped \/ \E t \in Updates : upc[t] # "idle")
    /\ UNCHANGED <<row, paired, pending, marking, trail, commandVars, deviceVars,
                   ran, unsaved, lost, disturbed>>

\* updateMany where active, at the time of this statement.
DeactivatesNone == row                                  \* mutant: statement left out
Deactivated ==
    [v \in Versions |-> IF row[v] = "active" THEN "inactive" ELSE row[v]]

Deactivate(u) ==
    /\ upc[u] = "deactivate"
    /\ row' = Deactivated
    /\ upc' = [upc EXCEPT ![u] = "create"]
    /\ UNCHANGED <<paired, ver, pending, marking, trail, commandVars, deviceVars, historyVars>>

NewInactive == "inactive"                               \* mutant: active not set
NewRow == "active"

Create(u) ==
    /\ upc[u] = "create"
    /\ row[ver[u]] = "none"
    /\ row' = [row EXCEPT ![ver[u]] = NewRow]
    /\ upc' = [upc EXCEPT ![u] = "list"]
    /\ UNCHANGED <<paired, ver, pending, marking, trail, commandVars, deviceVars, historyVars>>

\* The unique index (familyId, version): another update created this version.
\* The request fails; the deactivation stays.
CreateRejected(u) ==
    /\ upc[u] = "create"
    /\ row[ver[u]] # "none"
    /\ upc' = [upc EXCEPT ![u] = "idle"]
    /\ ver' = [ver EXCEPT ![u] = 0]
    /\ UNCHANGED <<row, paired, pending, marking, trail, commandVars, deviceVars, historyVars>>

\* pushToDevices: findMany of the family's devices.
WithoutCommands == {p \in paired : out[p] = {}}         \* mutant: the others are skipped
Recipients == paired

ListDevices(u) ==
    /\ upc[u] = "list"
    /\ pending' = [pending EXCEPT ![u] = Recipients]
    /\ upc' = [upc EXCEPT ![u] = "push"]
    /\ UNCHANGED <<row, paired, ver, marking, trail, commandVars, deviceVars, historyVars>>

\* One of the concurrent calls to enqueue creates its command.
Made(p) == {v \in Versions : turn[p][v] # 0}
NextTurn(p) == 1 + Cardinality(Made(p))

PushTo(u, p) ==
    /\ upc[u] = "push"
    /\ p \in pending[u]
    /\ out' = [out EXCEPT ![p] = @ \cup {ver[u]}]
    /\ turn' = [turn EXCEPT ![p] = [@ EXCEPT ![ver[u]] = NextTurn(p)]]
    /\ pending' = [pending EXCEPT ![u] = @ \ {p}]
    /\ marking' = [marking EXCEPT ![u] = @ \cup {p}]
    /\ lost' = [lost EXCEPT ![p] = @ \ {ver[u]}]
    /\ UNCHANGED <<row, paired, upc, ver, trail, overdue, late, deviceVars,
                   alone, overlapped, ran, unsaved, disturbed>>

\* A call that fails before: its error is swallowed.
PushFails(u, p) ==
    /\ upc[u] = "push"
    /\ p \in pending[u]
    /\ pending' = [pending EXCEPT ![u] = @ \ {p}]
    /\ lost' = [lost EXCEPT ![p] = @ \cup {ver[u]}]
    /\ UNCHANGED <<row, paired, upc, ver, marking, trail, commandVars, deviceVars,
                   alone, overlapped, ran, unsaved, disturbed>>

\* enqueue's update to SENT or QUEUED after the push to FCM, whatever the
\* state of the command is by now.
Mark(u, p) ==
    /\ p \in marking[u]
    /\ out' = [out EXCEPT ![p] = @ \cup {ver[u]}]
    /\ disturbed' = [disturbed EXCEPT ![p] = @ \cup ({ver[u]} \ out[p])]
    /\ marking' = [marking EXCEPT ![u] = @ \ {p}]
    /\ UNCHANGED <<row, paired, upc, ver, pending, trail, turn, overdue, late, deviceVars,
                   alone, overlapped, ran, unsaved, lost>>

\* It fails, swallowed as well.
MarkFails(u, p) ==
    /\ p \in marking[u]
    /\ marking' = [marking EXCEPT ![u] = @ \ {p}]
    /\ UNCHANGED <<row, paired, upc, ver, pending, trail, commandVars, deviceVars, historyVars>>

\* All calls have settled: audit.log, and the request returns.
Finish(u) ==
    /\ upc[u] = "push"
    /\ pending[u] = {}
    /\ marking[u] = {}
    /\ trail' = trail \cup {ver[u]}
    /\ upc' = [upc EXCEPT ![u] = "idle"]
    /\ ver' = [ver EXCEPT ![u] = 0]
    /\ UNCHANGED <<row, paired, pending, marking, commandVars, deviceVars, historyVars>>

-----------------------------------------------------------------------------
(* The backend's process, and who belongs to the family *)

\* An update has still to create the command that takes v to p.
Owes(u, v, p) ==
    /\ ver[u] = v
    /\ \/ upc[u] = "list" /\ p \in paired
       \/ upc[u] = "push" /\ p \in pending[u]

\* The backend stops: its requests are cut off, those given up among them. A
\* sync that waits for an answer does not get it (AckLost, Stop).
Crash ==
    /\ \/ \E u \in Updates : upc[u] # "idle"
       \/ \E p \in Devices : late[p] # {}
    /\ alone' = (alone /\ \A u \in Updates : ~Writing(u))
    /\ lost' = [p \in Devices |->
                  lost[p] \cup {v \in Versions : \E u \in Updates : Owes(u, v, p)}]
    /\ upc' = [u \in Updates |-> "idle"]
    /\ ver' = [u \in Updates |-> 0]
    /\ pending' = [u \in Updates |-> {}]
    /\ marking' = [u \in Updates |-> {}]
    /\ late' = [p \in Devices |-> {}]
    /\ UNCHANGED <<row, paired, trail, out, turn, overdue, deviceVars,
                   overlapped, ran, unsaved, disturbed>>

\* A device is paired with the family. It is not sent the versions there are.
Pair(p) ==
    /\ p \notin paired
    /\ paired' = paired \cup {p}
    /\ lost' = [lost EXCEPT ![p] = @ \cup {v \in Versions : row[v] # "none"}]
    /\ UNCHANGED <<row, updateVars, trail, commandVars, deviceVars,
                   alone, overlapped, ran, unsaved, disturbed>>

-----------------------------------------------------------------------------
(* CommandDispatcher.syncAndExecute on the device of sync s *)

InHand(p, ss) == {v \in Versions : \E s \in ss : On[s] = p /\ v \in todo[s]}
Held(p) == InHand(p, Syncs)

\* pullPending: expireStale. The TTL is the same for all commands, so that the
\* older ones are overdue first.
Stale(p, n) == {v \in out[p] : turn[p][v] <= n}
PullExpire(s) ==
    LET p == On[s]
    IN  /\ pc[s] = "idle"
        /\ \E n \in overdue[p]..Cardinality(Made(p)) :
             /\ overdue' = [overdue EXCEPT ![p] = n]
             /\ out' = [out EXCEPT ![p] = @ \ Stale(p, n)]
             /\ lost' = [lost EXCEPT ![p] = @ \cup (Stale(p, n) \ (Held(p) \cup ran[p]))]
        /\ pc' = [pc EXCEPT ![s] = "finding"]
        /\ UNCHANGED <<row, paired, updateVars, trail, turn, late, todo, cur, applied, disk,
                       alone, overlapped, ran, unsaved, disturbed>>

\* ... and findMany. Another sync may have some of these in hand, or older ones.
PullFind(s) ==
    LET p == On[s]
        Passed(v) == \E w \in out[p] : turn[p][v] < turn[p][w]
    IN  /\ pc[s] = "finding"
        /\ todo' = [todo EXCEPT ![s] = out[p]]
        /\ pc' = [pc EXCEPT ![s] = IF out[p] = {} THEN "idle" ELSE "next"]
        /\ disturbed' = [disturbed EXCEPT ![p] =
             @ \cup {v \in Held(p) : v \in out[p] \/ Passed(v)}]
        /\ UNCHANGED <<row, paired, updateVars, trail, commandVars, cur, applied, disk,
                       alone, overlapped, ran, unsaved, lost>>

\* orderBy createdAt asc
Newest(p, v, vs) == v \in vs /\ \A w \in vs : turn[p][v] >= turn[p][w]  \* mutant: desc
Oldest(p, v, vs) == v \in vs /\ \A w \in vs : turn[p][v] <= turn[p][w]

\* The ack of the next command of the list, confirmed.
Ack(s) ==
    /\ pc[s] = "next"
    /\ \E v \in Versions :
         /\ Oldest(On[s], v, todo[s])
         /\ cur' = [cur EXCEPT ![s] = v]
         /\ out' = [out EXCEPT ![On[s]] = @ \ {v}]
    /\ pc' = [pc EXCEPT ![s] = "execute"]
    /\ UNCHANGED <<row, paired, updateVars, trail, turn, overdue, late, todo, applied, disk,
                   historyVars>>

\* The ack fails or times out: runCatching, and the command is executed anyway.
AckLost(s) ==
    /\ pc[s] = "next"
    /\ \E v \in Versions :
         /\ Oldest(On[s], v, todo[s])
         /\ cur' = [cur EXCEPT ![s] = v]
         /\ late' = [late EXCEPT ![On[s]] = @ \cup {v}]
         /\ disturbed' = [disturbed EXCEPT ![On[s]] = @ \cup {v}]
    /\ pc' = [pc EXCEPT ![s] = "execute"]
    /\ UNCHANGED <<row, paired, updateVars, trail, out, turn, overdue, todo, applied, disk,
                   alone, overlapped, ran, unsaved, lost>>

\* PolicyStore.save: it overwrites whatever policy there is, in memory.
Execute(s) ==
    LET p == On[s]
    IN  /\ pc[s] = "execute"
        /\ applied' = [applied EXCEPT ![p] = cur[s]]
        /\ ran' = [ran EXCEPT ![p] = @ \cup {cur[s]}]
        /\ unsaved' = [unsaved EXCEPT ![p] = @ \cup {cur[s]}]
        /\ lost' = [lost EXCEPT ![p] = @ \ {cur[s]}]
        /\ todo' = [todo EXCEPT ![s] = @ \ {cur[s]}]
        /\ pc' = [pc EXCEPT ![s] = "posting"]
        /\ UNCHANGED <<row, paired, updateVars, trail, commandVars, cur, disk,
                       alone, overlapped, disturbed>>

\* The result is stored and its answer arrives.
Post(s) ==
    /\ pc[s] = "posting"
    /\ out' = [out EXCEPT ![On[s]] = @ \ {cur[s]}]
    /\ pc' = [pc EXCEPT ![s] = IF todo[s] = {} THEN "idle" ELSE "next"]
    /\ cur' = [cur EXCEPT ![s] = 0]
    /\ UNCHANGED <<row, paired, updateVars, trail, turn, overdue, late, todo, applied, disk,
                   historyVars>>

\* Syncs of p that end early: nobody will execute what only they had in hand, if
\* it is not outstanding any more. The request one waits for may still be served.
Dropped(p, ss) == InHand(p, ss) \ (InHand(p, Syncs \ ss) \cup out[p] \cup ran[p])
InFlight(s) ==
    CASE pc[s] = "posting" -> {cur[s]}
      [] pc[s] = "next" -> {v \in Versions : Oldest(On[s], v, todo[s])}
      [] OTHER -> {}
End(p, ss) ==
    /\ \E vs \in SUBSET UNION {InFlight(s) : s \in ss} :
         late' = [late EXCEPT ![p] = @ \cup vs]
    /\ pc' = [s \in Syncs |-> IF s \in ss THEN "idle" ELSE pc[s]]
    /\ todo' = [s \in Syncs |-> IF s \in ss THEN {} ELSE todo[s]]
    /\ cur' = [s \in Syncs |-> IF s \in ss THEN 0 ELSE cur[s]]

\* The pull or posting the result fails, times out or is cancelled, and the
\* exception leaves the loop. (That of an ack does not: AckLost.)
Stop(s) ==
    /\ pc[s] \in {"finding", "posting"}
    /\ End(On[s], {s})
    /\ lost' = [lost EXCEPT ![On[s]] = @ \cup Dropped(On[s], {s})]
    /\ UNCHANGED <<row, paired, updateVars, trail, out, turn, overdue, applied, disk,
                   alone, overlapped, ran, unsaved, disturbed>>

\* A request given up reaches the backend late. Its sync may have repeated it, so
\* that it is not used up.
Land(p, v) ==
    /\ v \in late[p]
    /\ v \in out[p]
    /\ out' = [out EXCEPT ![p] = @ \ {v}]
    /\ lost' = [lost EXCEPT ![p] = @ \cup ({v} \ (Held(p) \cup ran[p]))]
    /\ UNCHANGED <<row, paired, updateVars, trail, turn, overdue, late, deviceVars,
                   alone, overlapped, ran, unsaved, disturbed>>

-----------------------------------------------------------------------------
(* The process of the app on a device *)

\* SharedPreferences.apply: the file is written some time after the memory.
Flush(p) ==
    /\ unsaved[p] # {}
    /\ disk' = [disk EXCEPT ![p] = applied[p]]
    /\ unsaved' = [unsaved EXCEPT ![p] = {}]
    /\ UNCHANGED <<row, paired, updateVars, trail, commandVars, pc, todo, cur, applied,
                   alone, overlapped, ran, lost, disturbed>>

\* The process is killed with all its syncs, and comes back with its file.
Kill(p) ==
    /\ End(p, {s \in Syncs : On[s] = p})
    /\ applied' = [applied EXCEPT ![p] = disk[p]]
    /\ unsaved' = [unsaved EXCEPT ![p] = {}]
    /\ lost' = [lost EXCEPT ![p] = @ \cup Dropped(p, Syncs) \cup (unsaved[p] \ {disk[p]})]
    /\ UNCHANGED <<row, paired, updateVars, trail, out, turn, overdue, disk,
                   alone, overlapped, ran, disturbed>>

-----------------------------------------------------------------------------

Update(u) ==
    \/ ReadLatest(u) \/ Deactivate(u) \/ Create(u) \/ CreateRejected(u)
    \/ ListDevices(u) \/ Finish(u)
    \/ \E p \in Devices :
         PushTo(u, p) \/ PushFails(u, p) \/ Mark(u, p) \/ MarkFails(u, p)

Sync(s) ==
    \/ PullExpire(s) \/ PullFind(s) \/ Ack(s) \/ AckLost(s) \/ Execute(s) \/ Post(s)
    \/ Stop(s)

App(p) == Flush(p) \/ Kill(p) \/ \E v \in Versions : Land(p, v)

Next ==
    \/ \E u \in Updates : Update(u)
    \/ \E s \in Syncs : Sync(s)
    \/ \E p \in Devices : Pair(p) \/ App(p)
    \/ Crash

Spec == Init /\ [][Next]_vars

-----------------------------------------------------------------------------
(* Properties *)

Quiet == \A u \in Updates : upc[u] = "idle"

\* However updates interleave and wherever the backend crashes between their
\* statements, the active version is the newest one there is: in particular no
\* two versions are active, and getActive never returns an outdated policy.
ActiveIsNewest ==
    \A v, w \in Versions : row[v] = "active" /\ row[w] # "none" => w <= v

\* An update that no other update and no crash interrupted between its read
\* and its create leaves an active version behind, and so heals a family that
\* earlier overlapping updates left without one.
UpdateAloneActivates ==
    Quiet /\ alone /\ (\E v \in Versions : row[v] # "none")
      => \E v \in Versions : row[v] = "active"

\* v came to p although w was sent after it, for a reason the code has: v was
\* handed out twice or overtaken, or the pushes of two updates crossed, so that
\* the older version is the younger command.
Crossed(p, v, w) == overlapped /\ turn[p][v] > turn[p][w]
Excused(p, v, w) == (v \in disturbed[p]) \/ Crossed(p, v, w)

\* PolicyStore.save overwrites without looking at versions. Why a device goes
\* back to an older policy, completely: the newer one was not in the file yet when
\* the process was killed, or the older one was excused.
NoneGoesBack ==
    \A p \in Devices :
      applied'[p] < applied[p] =>
        (applied[p] \in lost'[p]) \/ Excused(p, applied'[p], applied[p])
NeverOlderPolicy == [][NoneGoesBack]_vars

\* v is on its way to p.
Coming(p, v) == (v \in out[p] \cup Held(p)) \/ (\E u \in Updates : Owes(u, v, p))

\* Pushes are fire and forget (their errors are swallowed, policies.service.ts:78),
\* and nothing compares what a device has with the newest version. Why a device
\* of the family keeps an older one, completely: the newest version was lost to
\* it (its push failed, its command expired, a crash cut it off, its sync died
\* between ack and save, the process died before its file was written, or the
\* device was paired after it was made), or an excused version ran after it.
NewestIsComing ==
    \A p \in paired : \A v \in Versions :
      Exists(v) /\ (\A w \in Versions : Exists(w) => w <= v) =>
        \/ applied[p] = v
        \/ Coming(p, v)
        \/ v \in lost[p]
        \/ v \in ran[p] /\ Excused(p, applied[p], v)

\* Devices follow the family's policy: forward only, and up to the newest
\* version, but for the reasons named. (There is no version at first, so that
\* what holds after every step holds always.)
DevicesFollow == [][NoneGoesBack /\ NewestIsComing']_vars

-----------------------------------------------------------------------------
(***************************************************************************)
(* The inductive invariant, first the rows: versions have no gaps; an      *)
(* update knows that every version below its own exists, and after its     *)
(* deactivation that all of them are inactive; and what "alone" promises   *)
(* in the middle of an update.                                             *)
(***************************************************************************)
NoGaps == \A v, w \in Versions : row[v] # "none" /\ w <= v => row[w] # "none"

UpdatesLinked ==
    \A u \in Updates :
      /\ upc[u] # "idle" => ver[u] \in Versions
      /\ \A w \in Versions : Writing(u) /\ w < ver[u] => row[w] # "none"
      /\ \A w \in Versions : upc[u] = "create" /\ w < ver[u] => row[w] = "inactive"

AloneLinked ==
    alone =>
      /\ \A u \in Updates : Writing(u) =>
           row[ver[u]] = "none" /\ \A t \in Updates : Writing(t) => t = u
      /\ (\A u \in Updates : ~Writing(u)) /\ (\E v \in Versions : row[v] # "none")
           => \E v \in Versions : row[v] = "active"

(***************************************************************************)
(* What NeverOlderPolicy and NewestIsComing need besides: a version is     *)
(* sent to a device once, by its own update; the commands of a device have *)
(* turns of their own; syncs work on what was made; and as in CommandSpine *)
(* whoever has a younger command in hand has the older ones too, or they   *)
(* are settled.                                                            *)
(***************************************************************************)
Sending(u) == upc[u] \in {"list", "push"}
SendersLinked ==
    /\ \A u \in Updates :
         /\ Sending(u) => Exists(ver[u])
         /\ upc[u] # "push" => pending[u] = {} /\ marking[u] = {}
         /\ \A p \in Devices : upc[u] = "list" \/ p \in pending[u] => turn[p][ver[u]] = 0
         /\ \A p \in marking[u] : turn[p][ver[u]] # 0
    /\ \A t, u \in Updates : Sending(t) /\ Sending(u) /\ ver[t] = ver[u] => t = u

TurnsLinked(p) ==
    /\ \A v \in Versions : row[v] = "none" => turn[p][v] = 0
    /\ \A v \in Versions : turn[p][v] <= Cardinality(Made(p))
    /\ \A v, w \in Made(p) : turn[p][v] = turn[p][w] => v = w
    /\ (out[p] \cup ran[p] \cup Held(p)) \subseteq Made(p)

SyncLinked(s) ==
    /\ pc[s] \in {"idle", "finding"} => todo[s] = {}
    /\ pc[s] = "execute" =>
         /\ Oldest(On[s], cur[s], todo[s])
         /\ cur[s] \in out[On[s]] => cur[s] \in disturbed[On[s]]
    /\ pc[s] = "posting" => cur[s] \in ran[On[s]]

HeldOnce(p) ==
    \A v \in Versions \ disturbed[p] : \A s, t \in Syncs :
      On[s] = p /\ On[t] = p /\ v \in todo[s] /\ v \in todo[t] => s = t

Settled(p, v) == v \notin out[p] \cup Held(p)
OlderGoFirst(p) ==
    \A v \in Made(p) \ disturbed[p] : \A w \in Made(p) : turn[p][v] < turn[p][w] =>
      /\ w \in ran[p] => Settled(p, v)
      /\ \A s \in Syncs : On[s] = p /\ w \in todo[s] => v \in todo[s] \/ Settled(p, v)

\* What memory and file may have after v ran and was not lost since.
NotBefore(p, w, v) ==
    w \in {v} \cup disturbed[p] \cup {x \in Versions : turn[p][x] > turn[p][v]}
StoreLinked(p) ==
    /\ {applied[p], disk[p]} \subseteq {0} \cup ran[p]
    /\ applied[p] # disk[p] => applied[p] \in unsaved[p]
    /\ \A v \in ran[p] \ lost[p] : NotBefore(p, applied[p], v)
    /\ \A v \in ran[p] \ (lost[p] \cup unsaved[p]) : NotBefore(p, disk[p], v)

Accounted(p) ==
    p \in paired => \A v \in Versions : Exists(v) => Coming(p, v) \/ v \in lost[p] \cup ran[p]

DeliveryInv ==
    /\ SendersLinked
    /\ \A s \in Syncs : SyncLinked(s)
    /\ \A p \in Devices :
         TurnsLinked(p) /\ HeldOnce(p) /\ OlderGoFirst(p) /\ StoreLinked(p) /\ Accounted(p)

IInv ==
    /\ TypeOK
    /\ NoGaps /\ UpdatesLinked /\ AloneLinked /\ ActiveIsNewest
    /\ DeliveryInv

\* Without overlaps the one update at work makes, or has made, the newest
\* version, and commands are created in the order of the versions.
InProgress(u) == upc[u] # "idle"
OneUpdate ==
    /\ \A t, u \in Updates : InProgress(t) /\ InProgress(u) => t = u
    /\ \A u \in Updates : \A v \in Versions : row[v] # "none" =>
         /\ Writing(u) => v < ver[u]
         /\ InProgress(u) => v <= ver[u]
    /\ \A u \in Updates : InProgress(u) => Writing(u) \/ Exists(ver[u])
TurnsInOrder(p) == \A v, w \in Made(p) : v < w => turn[p][v] < turn[p][w]
OrderInv == ~overlapped => OneUpdate /\ \A p \in Devices : TurnsInOrder(p)

(* What a comment of the code says, and the code does not do *)

\* "a concurrent double-update is benign - both produce a valid newer active
\* version" (policies.service.ts:41-42): once updates that nothing cut off have
\* returned, some version is active. No crash occurs in the run (its MC module
\* leaves it out of the next-state relation).
DoubleUpdateIsBenign ==
    Quiet /\ (\E v \in Versions : row[v] # "none")
      => \E v \in Versions : row[v] = "active"
=============================================================================
