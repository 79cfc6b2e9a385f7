# Verification of OpenParental

TLA+ specifications of the parts of OpenParental whose correctness depends on
interleaving, failure and ordering, with the TLC configurations that check them
and TLAPS proofs of what matters most. The reference is the code itself. Where a
comment promises more than the code does, `policies_double` and `sessions_retries`
show the behaviour that differs; three more such comments are pointed out where
their properties are described, since the exceptions of those properties are the
difference (commands.service.ts:22-23 and CommandDispatcher.kt:10-12 in section 3,
heartbeat.service.ts:42 in section 5).

| Module | Models | Checked by | Proofs |
|---|---|---|---|
| `CommandSpine` | `CommandsService`, `CommandDispatcher` and the requests between them | `MCCommandSpine` | `CommandSpineProofs` |
| `CommandLife` | the life cycle the backend promises of a command; implemented by `CommandSpine` | through `MCCommandSpine` | `CommandSpineProofs` |
| `Policies` | `PoliciesService.update`, the versions it makes, their way to `PolicyStore` | `MCPolicies` | `PoliciesProofs` |
| `Presence` | `HeartbeatService.beat` and its reconciler, `TamperService.report` | `MCPresence` | `PresenceProofs` |
| `Pairing` | `PairingService`, `createForPairing`, the phones that claim | `MCPairing` | `PairingProofs` |
| `DeviceIdentity` | `DeviceStore`, `MoniiRepository.withReauth` and `syncFcmToken`, `DeviceAuthGuard`, `reauth`, `selfUpdate` | `MCDeviceIdentity` | `DeviceIdentityProofs` |
| `Sessions` | `AuthService`, `TokenService`, `JwtAuthGuard`; `ApiClient` and `AuthNotifier` of the parent app | `MCSessions` | `SessionsProofs` |
| `Reports` | the ingest handlers, `AlertsService`, the parents' queries | `MCReports` | `ReportsProofs` |
| `ParentFeed` | what the backend promises the parent; implemented by `Reports` | through `MCReports` | `ReportsProofs` |
| `SyncLoop` | the cycles of `SupervisorService` and `SyncWorker`, `EventBuffer`, `flushEvents`, `TamperWatchdog` | `MCSyncLoop` | `SyncLoopProofs` |

`PROJECT.json` maps every definition to the lines it models and lists runs,
mutants, findings, hazards and theorems.

## 1. The system

OpenParental has a NestJS backend (Postgres through Prisma, Redis, FCM), a managed
Android app on the child's device (Kotlin) and a Flutter app for the parent.

| Component | State | Operations | Interacts with |
|---|---|---|---|
| Commands (backend) | `Command` rows: state, key, expiry | `enqueue`, `pullPending`, `ack`, `complete` | FCM, audit log, dispatcher, policies |
| Command dispatcher (device) | the pulled list, in memory | `syncAndExecute` | commands over HTTP; policy store, device admin |
| Policies (backend) | `Policy` rows: version, active | `update`, `getActive`, `history` | commands (SET_POLICY to each device), audit log |
| Policy store, rules, enforcement (device) | the last policy, in preferences | `save`, `shouldBlock`, DNS block list | dispatcher, accessibility service, DNS filter |
| Presence (backend) | `Device.status`, `lastSeenAt`; Redis keys | `beat`, `reconcileDarkDevices` (timer) | Redis, tamper reports |
| Tamper reports, alerts (backend) | `TamperEvent`, `Alert` rows | `report`, `create`, `markRead`, `requestUnblock` | FCM to parents, audit log |
| Tamper watchdog (device) | last value of each layer, in preferences | `check`, each cycle | tamper reports over HTTP |
| Events, locations, content, photo flags (backend) | their rows; `lastSeenAt` | ingest of batches, queries | presence, alerts |
| Event buffer, repository (device) | a file of events; token and secret | `add`, `flushEvents`, `withReauth` | events over HTTP |
| Pairing, devices (backend) | `Pairing`, `Device` rows | `create`, `claim`, `getStatus`, `remove`, `reauth`, `selfUpdate` | tokens, audit log |
| Device identity (device) | id, secret and token; push token and its flag | `savePairing`, `clearPairing`, `setToken`, `onNewToken` | every request of the device |
| Auth (backend), API client (parent) | refresh-token hash; stored tokens | `login`, `refresh`, `logout`; retry on 401 | each other |
| Supervisor, watchdog, workers (device) | running services and jobs | sync loop (60 s), worker (15 min), one-shot worker per push, boot, watchdog | everything on the device |
| DNS filter (device) | the tunnel, one upstream socket | relay loop, start, stop | policy store |
| Screens (both apps), configuration, guards | none that lasts | | |

What makes these parts hard:

* No handler of the backend runs in a transaction. Each is a sequence of awaited
  statements, and any other handler, or a crash, can come between two of them.
* A device runs several syncs at once: the supervisor's loop, the periodic worker,
  one worker for every push, and nothing excludes one from another.
* Every request may be lost, late, or answered after its client gave up; clients
  swallow some errors (an ack) and abort on others (a result).
* Android kills processes at any point; the timers behind reconciliation and
  watchdogs do not wait for the work of the previous round.

What makes each part correct:

* Commands: one command for one idempotency key; results that are true; no second
  execution without an identifiable cause; no command lost between ack and result
  without one; execution in the order sent; nothing waits for ever.
* Policies: at most one active version, the newest; an update that returns leaves
  an active version; devices do not fall back to an older one, nor stay behind the
  newest, without an identifiable cause.
* Presence: a device is found stale only if it was silent; no dark device without
  an alert; every silence ends in an alert; recovery is reported.
* Tamper: each layer that goes off is reported, once, whatever the network does.
* Event buffer: no event lost or duplicated except where a process dies or an
  answer is lost; the buffer drains in the end.
* Pairing: one device for one pairing, one phone for one device; the parent's view
  agrees with what claims did.
* Device identity: a phone speaks for the device it is paired as; its newest push
  token reaches the backend.
* Reports: success means that everything was done; no alert without its rows; no
  alert, and no row, of another family.
* Auth: a session does not end without a cause; a logout ends every session.
* DNS filter: an answer goes to the query it belongs to; a blocked domain and its
  subdomains never reach the upstream.

## 2. Plan

Most important behaviour first. Done, each with its runs and its proofs:

1. `CommandSpine`: the path on which everything the parent does travels, and
   `CommandLife` as its abstract specification.
2. `Policies`: versions and their delivery, with every fault the spine has.
3. `Presence`: the promise that going dark is never silent.
4. `Pairing` and `DeviceIdentity`: how a phone becomes a device and stays one.
5. `Sessions`: rotation of refresh tokens against the API client's interceptor.
6. `Reports`, and `ParentFeed` as its abstract specification.
7. `SyncLoop`: event buffer and tamper watchdog in the cycle that drives them.

The modules meet at these points. `SyncLoop` makes the calls whose handlers are in
`Presence` (heartbeat), `DeviceIdentity` (push token), `Reports` (events, tamper) and
`CommandSpine`. Wherever a handler of `Reports` refreshes lastSeenAt, `Presence` has
`Touch`. `TamperService.report` is in `Presence` as the reconciler calls it, for a
single device and with time, and in `Reports` as devices call it, with the parents. A
claim is in `Pairing` as the backend decides it and in `DeviceIdentity` as the phone
lives through it. Each pair shares only rows that one of the two writes.

Left: the DNS relay.

## 3. CommandSpine and CommandLife

State: the columns of `Command` that matter (`state`, `key`, `target`, creation
order `born`, `overdue` for expiresAt), the audit rows (`trail`); a record for each
request to `enqueue` (`caller`) and to `ack`/`complete` (`calls`); for each run of
`syncAndExecute` where it is (`pc`), its list (`todo`) and current command (`cur`).
`runs`, `seen` and `fault` are history for the properties.

| Code | Actions |
|---|---|
| `enqueue` | `Lookup`, `Create` or `CreateRejected` (unique index), `Push`, `Mark`, `Audit` |
| `pullPending` | `PullExpire` (`expireStale`), `PullFind` |
| `syncAndExecute` | `BeginAck`, `Execute`, `Reply`, `GiveUpAck`, `GiveUpResult`, `Die` |
| `ack`, `complete` | `ReadIgnored` (early return), `Read`, `Write` |
| network, time, processes | `Lose`, `Lapse`, `BackendCrash` |

A hit of `findUnique` in `enqueue` returns at once and changes nothing, so `Lookup`
is the miss. The ownership check before it is a read of a row that the module does
not delete; removal of a device, which cascades to its commands, is left out. A push
has no state: it only starts a dispatcher, and `PullExpire` may start one at any
time. Payloads and results are left out; an execution ends "ok" or "err". The
refresh of the device token by `withReauth` (a request rejected before it reaches
the handler, then repeated) is a late request.

Bounds: two commands, two dispatchers of one device, two requests to `enqueue`, two
slots for requests being served (a request of a dispatcher and one that outlived its
client), executions counted up to `RunCap` = 2. The constraint `Small` of
`MCCommandSpine` makes two cases of one run: one command, for whose key two requests
may race, with any number of faults; and two commands, sent one after the other, with
at most one recorded fault in all (`FewFaults`), since `ExecutedInOrder` is about
commands whose order no fault disturbed, and one fault is enough to try that it is
excused for the right command only. `commands_end` has one command, one request and
`RunCap` = 1 (no guard and not its property looks at the count). Two dispatchers are
enough for every overlap the properties speak of, since those relate a command to one
or two dispatchers. Devices share nothing but keys; the proofs cover any number of
them, and any number of faults.

Fairness (`FairSpec`): a request the backend serves goes on (`WF` on `Serve`, and on
`Enqueue` once begun); a dispatcher goes on, and one is started again and again (`WF`
on `Dispatch`): OkHttp's time-outs bound every wait, and the 60 s loop and the 15 min
worker start syncs; time passes (`WF` on `Lapse`). Crashes, deaths and new commands
are not fair. Fairness of `Dispatch` presumes that the calls which precede it in a
cycle do not fail for ever: `flushEvents` does, while the event buffer holds more
than a batch takes (section 10), and `EveryCommandEnds` says nothing of such a device.

What the runs show:

* `commands_safety`: `OneCommandPerKey`, `ResultMeansEffect`, `DuplicateExplained`
  (a second execution needs an unconfirmed ack, overlapping syncs or a late update
  by `enqueue`), `AckedIsWorkedOn`, `LivesAsPromised`, `ExecutedInOrder`.
* `commands_end`: `EveryCommandEnds`.

`LivesAsPromised` is the refinement of `CommandLife`, which makes a specification of
the diagram at the head of the service (commands.service.ts:20-24): a command waits,
is delivered, carried out and completed, or expires, and each of these once. The
mapping takes `state` to `stage` (to a parent QUEUED and SENT are both waiting),
`runs` to `effects`, and marks as `astray` the commands around which one of four
things went wrong: an unconfirmed ack, an abandoned one or result, an overlap of
syncs, a late update of `enqueue`. Only an astray command may be carried out,
delivered or completed again, and only the late update puts a command back, once. The
diagram lacks one thing that needs no fault: a command may expire while a dispatcher
has it in hand, and is then delivered and completed from EXPIRED.

`ExecutedInOrder` excuses an older command of which the ack was not confirmed, that
`enqueue` put back, or that a second sync was handed too, or passed: while the first
sync is between its ack and its execute, the older command is on nobody's list any
more, and the second sync may be handed, and execute, a younger one (`overtaken`).

The exceptions in these properties are behaviours of the code, and comments promise
more. Two overlapping syncs both get a command, and execute it twice without any
failure ("a duplicate FCM delivery produces exactly one effect", commands.service.ts:23).
`complete` only tests for DONE and FAILED, and both calls update by id alone: a late
one moves a command out of a terminal state ("no-ops once terminal", :22). A process
that dies between ack and execute leaves an ACKED command that no later pull returns
("re-running after a crash or duplicate wake is safe", CommandDispatcher.kt:11).

## 4. Policies

State: the `Policy` table of one family by version (`row`), the family's devices
(`paired`), where each update is (`upc`, `ver`, `pending`, `marking`), audit rows
(`trail`); of each device's SET_POLICY commands those outstanding (`out`), their order
of creation (`turn`), how far they have expired (`overdue`) and the acks and results
given up that the backend may yet serve (`late`); each sync (`pc`, `todo`, `cur`); what
`PolicyStore` holds in memory (`applied`) and in its file (`disk`). `alone`,
`overlapped`, `ran`, `unsaved`, `lost` and `disturbed` are history.

| Code | Actions |
|---|---|
| `update` | `ReadLatest`, `Deactivate`, `Create` or `CreateRejected` (unique index), `ListDevices`, `Finish` |
| `pushToDevices`, `enqueue` | `PushTo` or `PushFails` for each device in any order, `Mark` or `MarkFails` |
| `pullPending` | `PullExpire`, `PullFind` |
| `syncAndExecute` | `Ack` or `AckLost`, `Execute` (`PolicyStore.save`), `Post`, `Stop` |
| `createForPairing` | `Pair` |
| network, processes | `Land`, `Crash` (backend), `Flush` and `Kill` (device) |

Delivery is that of `CommandSpine` on a smaller state: of a command only whether it is
QUEUED or SENT is kept, and an ack or a result reads and writes in one step. All that
repeats, reorders or loses a command there does so here: overlapping syncs, acks that
are executed on without confirmation and land late or never, `enqueue`'s update after
an ack, expiry, lists dropped by an error or a killed process, a crash of the backend.
`PolicyStore.save` is `SharedPreferences.apply`: memory at once (`Execute`), the file
some time later (`Flush`), and a killed process comes back with the file (`Kill`).

`policies_safety`: `ActiveIsNewest` (hence at most one active version),
`UpdateAloneActivates`, `DevicesFollow`. The last says of every device, whatever
updates and syncs overlap:

* it goes back to an older policy (`NoneGoesBack`) only when the newer one had not
  reached the file before the process was killed; or when the older one had been
  `disturbed`, that is, handed out twice or overtaken on its way (an unconfirmed ack,
  a late update by `enqueue`, overlapping syncs); or when two updates overlapped and
  their pushes `Crossed`, the older version's command being made last;
* it has the newest version, or that is on its way (`NewestIsComing`), unless it was
  lost to the device (`lost`: a swallowed push, expiry, a crash, a sync that died
  between ack and save, a process killed before the file was written, a pairing after
  the version was made), or a version that is excused as above ran after it.

These causes are complete, and all of them are behaviours of the code: `save` does not
compare versions, and nothing compares what a device has with the newest version.
What brings such a device up to date is the next update.

`policies_double`: an update that loses the race for a version number has already
deactivated the winner's version. It runs `NoCrashSpec`, the specification without
crashes of the backend, since the comment it examines is about concurrency alone.

Bounds: two concurrent updates and two overlapping syncs (the races are between two),
two versions, one phone: devices share the family's updates and nothing else, and
each step and each property of delivery is about one of them. The proofs cover any
number of each. `MaxVersion` stops the creation of versions, so the system comes to
rest and deadlock is not checked. States that differ only in the audit log, which no
step reads, are taken for one (`VIEW ButAudit`).

## 5. Presence

State: of each device `status`, `age` (ticks since lastSeenAt), the last tamper event
(`last`) and whether it will ever call again (`dead`); the progress of each `beat` and
of each reconciliation (`rec`); whether Redis answers. `heard`, `told`, `cut`,
`dropped` and `crossed` are history.

`beat` is `BeatArrives`, `BeatPresence` (the Redis `SET`), `BeatRead` (`findUnique` and
the heartbeat row), `BeatWrite`, `BeatReport`; `BeatThrows` ends it. A reconciliation
is `Scan`, then for each device of its list `Darken`, `Event`, `Alert`;
`ReconcileThrows` ends it. `Touch` is the refresh of lastSeenAt by events, locations,
content, photos and `PATCH devices/me`. `Remove` deletes the device.

Time: ticks up to one past `Grace` (interval times misses). A tick waits for beats at
work, whose handlers take milliseconds against minutes, but not for beats that wait
for Redis: the client is made with `maxRetriesPerRequest: null`, so such a call waits
without bound. Reconciliations may take any number of ticks.

Bounds: `presence` has one device with two beats and two overlapping
reconciliations, `Grace` = 1. Devices meet only in the list of a reconciliation, which
is the matter of `presence_two`: two devices, one beat, one reconciliation, in which
either device may be removed, or its report fail, before or after the other's turn.
Only one of the two calls (`OneCallsSpec`); each goes silent, goes dark and is removed.
What longer lists and more overlaps could do to safety is covered by the proofs; what
they could do to liveness is not.

Fairness: `SF(Tick)`, since beats come and go; `WF` of the steps of handlers and of
`Scan`, for the timer of `onModuleInit`; `SF(Darken)`: crashes and errors do not
always strike before the same device's turn.

`presence`: `StatusIsTold`, `ScanFindsSilent`, `SilenceIsAlerted`; `presence_two`:
`SilenceIsAlerted`, whichever devices are removed or reported beside the silent one
and wherever its list is cut off. The first joins two:
no dark device without an alert (`DarkIsTold`), and none back online after a WENT_DARK
without a RECOVERED (`RecoveryIsTold`). What these and the second except does happen.
The status is written before the alert and only ONLINE devices are scanned, so an
error between the two silences the device for good. A check-in that read the row before
the reconciler set it to DARK writes ONLINE over it and reports nothing ("surface a
RECOVERED if dark", heartbeat.service.ts:42); one that comes between the status and the
event has its RECOVERED stored before the WENT_DARK. A beat waits for Redis before it
reaches Postgres, so an outage of Redis makes a device that calls regularly look dark,
though not by an expired key.

## 6. Pairing

State: of each pairing its row (`status`, `claimedBy`) and whether it is past its
expiresAt (`aged`); the `Device` rows; the handler of each `POST /pairings/claim`
(`claim`, whose `client` says that its phone still waits); the device each phone is
(`id`). `madeOf`, `disturbed` and `stranded` are history.

`claim` of the backend is `ClaimRead` (with its early returns), `ClaimExpire`,
`CreateForPairing`, `ClaimMark`; the answer is stored by `SavePairing`. `ClaimFails` is
a lost request or answer or a crash, `ClaimAbandoned` a client that gives up while
the handler goes on. `ClearPairing` and `Remove` are the two ends of a pairing. Codes
are the pairings they belong to; a collision of codes, on which the unique index makes
`create` throw, is left out.

Bounds: two phones, two pairings, two claims at a time, three devices: enough for two
claims of one code, two codes for one phone, and a third device after both.

`pairing`: `PairingTruthful`, `HeldOnce`, `FinalStatusKept`. The exceptions happen:
two claims of one code make two devices, of which the pairing names one; a claim that
read PENDING before the expiry writes EXPIRED over the CLAIMED of another; a claim cut
off after its create leaves a device in the parent's list that no phone is.

## 7. DeviceIdentity

State: `row` and `rowFcm` of the backend; the claim and the authenticated requests
(`call`) of the phones, with the token in the header and the secret of a renewal;
updates whose client has gone (`late`); and `DeviceStore`. A secret is the device it
belongs to, a device token that device and whether it has expired.

`withReauth` is `Send`, `ServeCall` or `DenyCall`, `Reauth`, `SetToken`, and `Send`
again; `FinishCall` is what `syncFcmToken` does with the answer. The guard looks at the
token alone, so that a removed device gets as far as its missing row.

Bounds: one phone, two devices (so that it pairs twice), one request and one late
update, two push tokens. Requests of one phone meet through its store and row only, and
a late update is the second request that matters; phones share nothing.

Fairness: the supervisor starts `syncFcmToken` again and again (`SF` on `StartCall`),
a request under way goes on (`WF`), and the network does not lose every one of them
(`SF` on its steps): the last is an assumption about the network, without which
nothing would be reported.

`device_identity`: `OwnToken`, `FcmSynced`, `FcmReported`. Excepted are a renewal that
crosses a new pairing (its token is stored over the new one, and the phone speaks for
the device it was), and a push token that changes while its predecessor is reported
(`markFcmSynced` clears the flag of both). The store is durable at once: that
`SharedPreferences.apply` may lose a pairing or a token with a killed process is not
modelled here (it is in `Policies` and `SyncLoop`, for their preferences).

## 8. Sessions

State: the account's row (`exists`, `hash`), the clock, the secure storage of each
phone (`access`, `refresh`), `signedIn`, and the operations under way. An operation
(`flow`) is a stack, because `ApiClient` sends its own refreshes through the same
interceptor: `refs` holds the bodies of the refresh requests above the request the
operation is for. Tokens are known by the second they were signed in: a JWT has no
other claim that changes, so two issues in one second give the same pair. The code
does not bound the stack. A refresh of one token on top of two of the same stands for
any number of them (`Twice`): a push leaves such a stack as it is, a pop may leave it
or shorten it. A chain of rejected refreshes is so a cycle of states, and no operation
ends for lack of room.

`onRequest` is `Send`; `onError` is `Denied`, then `GiveUp` or `TryRefresh`; `_persist`
is `Answer` and `Persist`, one for each write. `issue` is split at its awaited
update (`Issue`, `WriteHash`). `Timeout` and `AppRestarts` leave handlers without a
client behind, whose write is a `LateWrite`.

Bounds: one phone, two at work at a time, be it two operations or an operation and a
late handler (`TwoSpec`: an operation starts beside one other at most), two ticks, access
tokens of one tick and refresh tokens of two. `sessions_retries` needs one operation
and three ticks. A second phone of the account is another source of issues, like the
second operation; the proofs cover any number of each.

Fairness (`WF` on `Progress(f) \/ Fail(f)` for each operation): both programs are event
loops that take each step that can be taken, and every wait of the client ends after
ten seconds (`receiveTimeout`).

`sessions`: `SessionKept`, `LogoutHolds`, `EndsUnlessRejected`.
`sessions_retries`: the backend serves a refresh, whose answer is lost with a restart
of the app, so that the stored refresh token is a replaced one. The next operation is
denied and sends it (`TryRefresh`); the refresh is rejected (`Denied`), and its 401 goes
through `onError` to the next refresh with the same stored token, without end. Only a
phone without a stored refresh token gives up (`GiveUp`). A login with a wrong password
on a phone that still has one starts refreshes in the same way.

## 9. Reports and ParentFeed

State: for each attempt (a request of a device) its handler (`req`), whether its rows
are stored, when its alert was created (`created`; as timestamps do, two may tie), who
it was pushed to and whether it was audited; the devices that are present; the parents'
tokens (`fcm`), what they have read, and their query under way. `audience` is history:
who had a token when the alert was stored.

Each handler starts with its own statement (`EventsIngest`, `LocationsIngest`,
`ContentIngest`, `PhotosIngest`, `TamperReport`; `requestUnblock` starts with the
alert), then `Touch`, `FindDevice`, `CreateAlert`, `ReadTokens`, `Push` for each parent
in any order, `Pushed`, `Audit`. `Cut` is an exception or a crash at any of them. Of a
batch the model keeps what decides on an alert: a matched watch-word, a flag of an
alertable category and enough confidence, a tamper kind other than RECOVERED. Queries
are the ownership check (`GetForFamily`) and the read, as two steps; `ListForFamily` is
the list of alerts, all or unread only: a page of the newest, of which the database
chooses among ties (`Newest`).

Bounds: two attempts, two devices in two families, one parent, lists of one alert
(`Take` = 1 for 100), so that a page holds one of two alerts.
The device of the family without a parent is not removed (`KeptSpec`): nobody asks for
its rows, and the other device is removed at any time.
Attempts are finite and the system comes to rest when all are over, so deadlock is
not checked. Fairness: every statement of a handler ends or throws (`WF` on `Serve`).

`reports`: `AnsweredIsComplete` (of reports that call for an alert), `AlertBacked`,
`OwnRowsOnly` (rows, alerts and pushes of the own family only), and `FeedIsKept`: under the mapping `phase` (an attempt is owed from the arrival of a
notable report, then raised or dropped) `Reports` implements `ParentFeed`, in which
alerts are only appended, stay, and nothing is owed for ever. Dropped notices are
real: rows are stored without a transaction with their alert, and a stop in between
leaves flagged content that no parent is told of unless the device repeats it.

## 10. SyncLoop

State: the buffer's `file`; each sync (the supervisor and the runs of `SyncWorker`)
with its place in the cycle and the events in its memory; how often each event is in
the backend's table; a protection layer, the watchdog's value of it (`stored`) and
that value on disk, which `SharedPreferences.apply` writes later.

`Wake`, `Heartbeat`, `SyncFcmToken`, `DrainRead`, `DrainClear`, `Upload` and its two
failures, `ReaddRead`, `ReaddWrite`, `SyncAndExecute`, `Check`, `Report`, `StoreOff`,
`Collect` follow a cycle call by call; any call that throws ends it (`runCatching`).
Every repository has its own `EventBuffer` and lock on the one file, so a drain or a
re-add is a read and a write. `Kill` ends the process with all memory; `Restart` stands
for START_STICKY, the boot receiver and the watchdog's jobs. `readd` empties the file
and writes it anew, so that a `Kill` in its midst leaves the first lines of it (`Torn`),
and the rest is lost. The tear of a line by two
writers at once is left out: an operation that overlaps another is taken to leave
whole lines.

Bounds: the supervisor and one worker, two events, batches of one event (`MaxBatch`
stands for what the backend refuses first, 501 events or a body over the default
limit of the JSON parser, main.ts:8), so that two events fill the buffer past what the
backend takes; one
overlap of file operations (`MaxRaces`) and one fault (`MaxFaults`: a failed call, a
lost answer or the death of the process). `MaxFaults` also says that faults come to an
end. Fairness is `SF` for each sync since `MaxRaces` makes syncs wait for each other,
which the code does not.

`sync_loop`: `EventKept`, `StoredOnce`, `DropTold`, `EventUploaded`, `DropNoticed`.
What they except is real: a process that dies with drained events loses them; a lost
answer stores them twice; a report that fails is swallowed and not repeated; and a
buffer that has outgrown the backend's batches is refused and put back on every cycle,
which ends the cycle before commands and watchdog.

## 11. Proofs

TLAPS proves the following for every value of the constants: any number of devices,
dispatchers, requests, updates, beats, reconciliations, phones, pairings, operations,
families, workers and events. The assumptions are the named ones of the modules: null values are no
members of the sets they extend, `DeviceOf`, `On`, `Owner` and `FamilyOf` are functions,
`Commands` is finite (a creation order exists), bounds and lifetimes are natural
numbers.

* `CommandSpineProofs`: `TypeCorrect`, `UniqueKeys`, `TruthfulResults`,
  `EffectsExplained`, `NoOrphanedAck`, `DeliveredForGood`, `RunInOrder`,
  `LifeRefinement`. The invariant `IInv` adds to the properties how the pieces of state
  refer to one another (`Linked`): a request's owner waits for it with that command in
  hand, a request without owner means a recorded fault, no dispatcher has two
  requests. `OneEffect` says what keeps a command from a second execution (one holder; a
  confirmed ack or a run took it out of QUEUED and SENT), `AckedIsCurrent` who works on
  an acked one. `DeliveredForGood` proves `NoRedelivery`: after `enqueue` has returned,
  nothing brings a delivered command back. No run checks that by itself: in
  `LivesAsPromised` too, only the late update puts a command back.
  `RunInOrder` needs `OrderInv` besides: a new row is the youngest, a dispatcher takes
  the oldest of its list, and (`OlderGoFirst`) whoever has a younger command in hand
  has the older one too, or the older one is settled, that is, over and in nobody's
  hands; it is settled once a younger one ran.
  `LifeRefinement` needs `LifeInv`: one request makes a command and marks it once
  (`MarkedOnce`), results come from runs (`RunsCounted`), and of a command that is not
  astray one dispatcher posts the result, whose request is over when the row has it
  (`OnePoster`, `PostedOnce`). Every step is then a step of `CommandLife` or a stutter,
  shown for each action and each command.
* `PoliciesProofs`: `TypeCorrect`, `NewestIsActive`, `AloneActivates`, `NeverOlder`,
  `NewestComes`, `DevicesKeepUp`.
  `IInv` adds that versions have no gaps, and that an update past its deactivation has
  made every version below its own inactive: this is why an update that is overtaken
  can leave no active version, but never an outdated one. `DeliveryInv` adds how versions
  travel: one update sends a version, once to a device (`SendersLinked`); commands of a
  device have turns of their own (`TurnsLinked`); a version that was not disturbed is in
  one sync's hands (`HeldOnce`), and whoever has a younger one has it too, or it is
  settled (`OlderGoFirst`, as in `CommandSpineProofs`); memory and file are not behind a
  version that ran and was not lost, but for excused ones (`StoreLinked`); and every
  version a device of the family lacks is coming, lost, or ran (`Accounted`). The
  theorems hold for overlapping updates. `OrderInv`, on top of it, says that turns
  follow versions while updates do not overlap (`OneUpdate`, `TurnsInOrder`), so that
  only overlapping updates can have `Crossed` pushes.
* `PresenceProofs`: `TypeCorrect`, `NoSilentDark`, `StatusTold`, `NoFalseAlarm`. `IInv`
  adds that a reconciliation has a current device exactly while it reports, and that
  lastSeenAt is older than the last request only where a beat is on its way or was lost;
  the latter rests on ticks waiting for beats at work. `RecoveryOwed` says that a
  check-in about to write ONLINE over a DARK it did not see was crossed, already while
  the WENT_DARK is still to be stored.
* `PairingProofs`: `TypeCorrect`, `DevicesHeldOnce`, `PairingsTruthful`,
  `FinalStatuses`. `ClaimsInv` follows a new device from its row to the one phone that
  becomes it: only one claim or phone has its name. `PairingsInv` says that a pairing
  claimed once at a time is PENDING as long as its claim is decided.
* `DeviceIdentityProofs`: `TypeCorrect`, `OwnTokens`, `FcmTokensSynced`. A device that
  its phone has not been told of is named by nothing but its claim (`Unnamed`): so no
  request of an earlier identity can touch the new row. `OwnCred` ties a renewal to the
  identity of its phone, `Reported` and `Synced` the row to the newest push token.
* `SessionsProofs`: `TypeCorrect`, `KeptSessions`, `LogoutEndsAuthority`. `SessionInv`
  follows a pair of tokens from the row to the storage: the token the backend holds is
  in the storage, or in an answer that has arrived. `LogoutInv` says that after a logout
  no pair is on its way that was signed later.
* `ReportsProofs`: `TypeCorrect`, `NothingSkipped`, `AlertsAreBacked`,
  `FamiliesApart`, and `FeedRefinement`: initial states map to
  initial states of `ParentFeed` and steps to steps or stutters. `IInv` says for each
  statement of a handler what must have been done before it.
* `SyncLoopProofs`: `TypeCorrect`, `EventsKept`, `EventsStoredOnce`, `DropsTold`.
  `EventInv` follows an event that no overlap touched: it is in one place at a time
  (`OnePlace`), what a buffer operation has read is still in the file (`Views`), and a
  stored event is nowhere else (`Once`), and a torn file holds no other lines than the
  whole one (`LeftForm`). `DropInv` says that the supervisor alone runs
  the watchdog, which stores a drop after its report.

Each conjunct of an invariant has a lemma that every step preserves it, with a proof
step for each action; the theorems follow by temporal reasoning.

Only model-checked: everything under fairness (`EveryCommandEnds`,
`SilenceIsAlerted`, `EndsUnlessRejected`, `FcmReported`, `EventUploaded`, `DropNoticed`
and the liveness part of `FeedIsKept`), which is out of the prover's reach. Every
other property of the runs is a theorem.

## 12. Not modelled

* Screens and themes of both apps (but for pairing and unpairing), the Android
  framework behind permissions and device admin, the survival log, configuration: no
  state the properties are about.
* Policy rules and enforcement: decisions made anew from the clock, the usage
  statistics and the stored policy at every accessibility event.
* The DNS filter: packets and a socket whose answers are up to the network.
* Limit, order and source filter of the queries of a device's rows; renaming a device.
* The loss of `SharedPreferences.apply` with a killed process in `DeviceStore`.
* Removal of a device while commands are under way, in `CommandSpine`.

## Running

    tlc -config CommandSpine_safety.cfg MCCommandSpine.tla
    tlapm CommandSpineProofs.tla

`PROJECT.json` lists the module and the configuration of every run, and whether TLC is
to finish without an error or to find its one property violated.
