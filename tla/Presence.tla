------------------------------ MODULE Presence ------------------------------
(***************************************************************************)
(* Presence of the devices: HeartbeatService.beat, the reconciler that     *)
(* finds devices gone dark, and TamperService.report that tells the        *)
(* parent.                                                                 *)
(*                                                                         *)
(* A beat and a reconciliation are handlers of several awaited calls on    *)
(* Redis and Postgres, without a transaction; they interleave with one     *)
(* another, and the backend may crash between any two calls. setInterval   *)
(* does not wait for the last reconciliation, so several may overlap.      *)
(*                                                                         *)
(* Time is counted in ticks since lastSeenAt, up to one past Grace (the    *)
(* interval times the misses allowed). A beat takes no time on this scale, *)
(* unless Redis is down: the client is made with maxRetriesPerRequest      *)
(* null, so a SET waits until Redis is back.                               *)
(***************************************************************************)
EXTENDS Naturals

CONSTANTS
    Devices,
    Beats,          \* requests to POST heartbeat served at a time
    Reconciles,     \* runs of reconcileDarkDevices at a time
    NoDevice,
    Grace           \* ticks without a sign of life that are allowed

ASSUME GraceIsNat == Grace \in Nat
ASSUME NoDeviceIsNew == NoDevice \notin Devices

VARIABLES
    status,         \* of the Device row; "GONE" when the row is deleted
    age,            \* ticks since lastSeenAt
    redisUp,
    beat,           \* one record for each request
    rec,            \* one record for each reconciliation
    last,           \* the last TamperEvent of the device
    dead,           \* the device will never call again
    \* what happened, for the properties only
    heard,          \* ticks since a request of the device reached the backend
    told,           \* the parent has an alert newer than the last check-in
    cut,            \* reporting the device was cut off by a crash or an error
    dropped,        \* a crash or an error ended a beat, and none came through since
    crossed         \* a WENT_DARK that no RECOVERED may follow: see RecoveryIsTold

rowVars == <<status, age, last>>
historyVars == <<heard, told, cut, dropped, crossed>>
vars == <<rowVars, redisUp, beat, rec, dead, historyVars>>

Beat == [pc: {"idle", "redis", "read", "write", "report"},
         dev: Devices \cup {NoDevice}, wasDark: BOOLEAN]
NoBeat == [pc |-> "idle", dev |-> NoDevice, wasDark |-> FALSE]

Reconcile == [pc: {"idle", "loop", "event", "alert"}, todo: SUBSET Devices,
              cur: Devices \cup {NoDevice}]
NoReconcile == [pc |-> "idle", todo |-> {}, cur |-> NoDevice]

TypeOK ==
    /\ status \in [Devices -> {"ONLINE", "DARK", "GONE"}]
    /\ age \in [Devices -> 0..Grace + 1]
    /\ redisUp \in BOOLEAN
    /\ beat \in [Beats -> Beat]
    /\ rec \in [Reconciles -> Reconcile]
    /\ last \in [Devices -> {"none", "WENT_DARK", "RECOVERED"}]
    /\ dead \in SUBSET Devices
    /\ heard \in [Devices -> 0..Grace + 1]
    /\ told \in [Devices -> BOOLEAN]
    /\ cut \in [Devices -> BOOLEAN]
    /\ dropped \in [Devices -> BOOLEAN]
    /\ crossed \in [Devices -> BOOLEAN]

\* Devices as createForPairing makes them: ONLINE, seen just now.
Init ==
    /\ status = [d \in Devices |-> "ONLINE"]
    /\ age = [d \in Devices |-> 0]
    /\ redisUp = TRUE
    /\ beat = [b \in Beats |-> NoBeat]
    /\ rec = [r \in Reconciles |-> NoReconcile]
    /\ last = [d \in Devices |-> "none"]
    /\ dead = {}
    /\ heard = [d \in Devices |-> 0]
    /\ told = [d \in Devices |-> FALSE]
    /\ cut = [d \in Devices |-> FALSE]
    /\ dropped = [d \in Devices |-> FALSE]
    /\ crossed = [d \in Devices |-> FALSE]

-----------------------------------------------------------------------------
(* HeartbeatService.beat *)

BeatArrives(b, d) ==
    /\ beat[b].pc = "idle"
    /\ d \notin dead
    /\ beat' = [beat EXCEPT ![b] = [NoBeat EXCEPT !.pc = "redis", !.dev = d]]
    /\ heard' = [heard EXCEPT ![d] = 0]
    /\ UNCHANGED <<rowVars, redisUp, rec, dead, told, cut, dropped, crossed>>

\* setPresence: the key is written and never read again.
BeatPresence(b) ==
    /\ beat[b].pc = "redis"
    /\ redisUp
    /\ beat' = [beat EXCEPT ![b] = [@ EXCEPT !.pc = "read"]]
    /\ UNCHANGED <<rowVars, redisUp, rec, dead, historyVars>>

WasOffline(d) == status[d] = "OFFLINE"                  \* mutant: wrong status
WasDark(d) == status[d] = "DARK"

\* findUnique, and the row in the heartbeat history.
BeatRead(b) ==
    /\ beat[b].pc = "read"
    /\ beat' = [beat EXCEPT ![b] = [@ EXCEPT !.pc = "write",
                                             !.wasDark = WasDark(beat[b].dev)]]
    /\ UNCHANGED <<rowVars, redisUp, rec, dead, historyVars>>

CheckedInOffline == "OFFLINE"                           \* mutant: wrong status
CheckedIn == "ONLINE"

BeatWrite(b) ==
    LET d == beat[b].dev
    IN  /\ beat[b].pc = "write"
        /\ status[d] # "GONE"
        /\ status' = [status EXCEPT ![d] = CheckedIn]
        /\ age' = [age EXCEPT ![d] = 0]
        /\ told' = [told EXCEPT ![d] = FALSE]
        /\ dropped' = [dropped EXCEPT ![d] = FALSE]
        /\ beat' = [beat EXCEPT ![b] = IF @.wasDark THEN [@ EXCEPT !.pc = "report"]
                                       ELSE NoBeat]
        /\ UNCHANGED <<last, redisUp, rec, dead, heard, cut, crossed>>

\* A reconciliation has set d to DARK and has not stored its event yet.
Darkening(d) == \E r \in Reconciles : rec[r].pc = "event" /\ rec[r].cur = d

\* tamper.report RECOVERED: an event, no alert.
BeatReport(b) ==
    /\ beat[b].pc = "report"
    /\ status[beat[b].dev] # "GONE"
    /\ last' = [last EXCEPT ![beat[b].dev] = "RECOVERED"]
    /\ crossed' = [crossed EXCEPT ![beat[b].dev] = Darkening(beat[b].dev)]
    /\ beat' = [beat EXCEPT ![b] = NoBeat]
    /\ UNCHANGED <<status, age, redisUp, rec, dead, heard, told, cut, dropped>>

\* A call throws, because the device was removed or the database failed.
BeatThrows(b) ==
    /\ beat[b].pc \in {"read", "write", "report"}
    /\ dropped' = [dropped EXCEPT ![beat[b].dev] = TRUE]
    /\ crossed' = [crossed EXCEPT ![beat[b].dev] = @ \/ beat[b].pc = "report"]
    /\ beat' = [beat EXCEPT ![b] = NoBeat]
    /\ UNCHANGED <<rowVars, redisUp, rec, dead, heard, told, cut>>

\* Events, locations, screen content, photos and PATCH devices/me refresh
\* lastSeenAt and leave the status alone.
Touch(d) ==
    /\ d \notin dead
    /\ status[d] # "GONE"
    /\ age' = [age EXCEPT ![d] = 0]
    /\ heard' = [heard EXCEPT ![d] = 0]
    /\ UNCHANGED <<status, last, redisUp, beat, rec, dead, told, cut, dropped, crossed>>

-----------------------------------------------------------------------------
(* HeartbeatService.reconcileDarkDevices and TamperService.report *)

StaleTooEarly ==                                        \* mutant: lte for lt
    {d \in Devices : status[d] = "ONLINE" /\ age[d] >= Grace}
StaleNotTwice ==                                        \* mutant: no second alert in a row
    {d \in Devices : status[d] = "ONLINE" /\ age[d] > Grace /\ last[d] # "WENT_DARK"}
Stale == {d \in Devices : status[d] = "ONLINE" /\ age[d] > Grace}

Scan(r) ==
    /\ rec[r].pc = "idle"
    /\ Stale # {}
    /\ rec' = [rec EXCEPT ![r] = [NoReconcile EXCEPT !.pc = "loop", !.todo = Stale]]
    /\ UNCHANGED <<rowVars, redisUp, beat, dead, historyVars>>

\* The next device of the list is set to DARK, whatever happened since the scan.
Darken(r, d) ==
    /\ rec[r].pc = "loop"
    /\ d \in rec[r].todo
    /\ status[d] # "GONE"
    /\ status' = [status EXCEPT ![d] = "DARK"]
    /\ cut' = [cut EXCEPT ![d] = FALSE]
    /\ crossed' = [crossed EXCEPT ![d] =
                     @ \/ \E b \in Beats : beat[b].pc = "write" /\ beat[b].dev = d]
    /\ rec' = [rec EXCEPT ![r] = [pc |-> "event", todo |-> rec[r].todo \ {d}, cur |-> d]]
    /\ UNCHANGED <<age, last, redisUp, beat, dead, heard, told, dropped>>

NextDevice(r) ==
    IF rec[r].todo = {} THEN NoReconcile
    ELSE [rec[r] EXCEPT !.pc = "loop", !.cur = NoDevice]

ForgetAlert(r) == NextDevice(r)                         \* mutant: no alert is raised
RaiseAlert(r) == [rec[r] EXCEPT !.pc = "alert"]

\* tamperEvent.create
Event(r) ==
    /\ rec[r].pc = "event"
    /\ status[rec[r].cur] # "GONE"
    /\ last' = [last EXCEPT ![rec[r].cur] = "WENT_DARK"]
    /\ rec' = [rec EXCEPT ![r] = RaiseAlert(r)]
    /\ UNCHANGED <<status, age, redisUp, beat, dead, historyVars>>

\* alerts.create with its push to the parents, and the audit row.
Alert(r) ==
    /\ rec[r].pc = "alert"
    /\ status[rec[r].cur] # "GONE"
    /\ told' = [told EXCEPT ![rec[r].cur] = TRUE]
    /\ rec' = [rec EXCEPT ![r] = NextDevice(r)]
    /\ UNCHANGED <<rowVars, redisUp, beat, dead, heard, cut, dropped, crossed>>

\* A call throws, because the device was removed or the database failed. The
\* exception leaves the loop: the rest of the list waits for the next scan.
ReconcileThrows(r) ==
    /\ rec[r].pc # "idle"
    /\ cut' = [d \in Devices |-> cut[d] \/ d = rec[r].cur]
    /\ rec' = [rec EXCEPT ![r] = NoReconcile]
    /\ UNCHANGED <<rowVars, redisUp, beat, dead, heard, told, dropped, crossed>>

-----------------------------------------------------------------------------
(* The environment *)

Older(n) == IF n > Grace THEN n ELSE n + 1

\* Time passes. A beat is over within a tick, unless it waits for Redis.
Tick ==
    /\ \A b \in Beats : beat[b].pc = "idle" \/ (beat[b].pc = "redis" /\ ~redisUp)
    /\ age' = [d \in Devices |-> Older(age[d])]
    /\ heard' = [d \in Devices |-> Older(heard[d])]
    /\ UNCHANGED <<status, last, redisUp, beat, rec, dead, told, cut, dropped, crossed>>

RedisToggles ==
    /\ redisUp' = ~redisUp
    /\ UNCHANGED <<rowVars, beat, rec, dead, historyVars>>

\* The device is switched off, or its app stopped or uninstalled, for good.
GoesSilent(d) ==
    /\ d \notin dead
    /\ dead' = dead \cup {d}
    /\ UNCHANGED <<rowVars, redisUp, beat, rec, historyVars>>

\* DevicesService.remove
Remove(d) ==
    /\ status[d] # "GONE"
    /\ status' = [status EXCEPT ![d] = "GONE"]
    /\ UNCHANGED <<age, last, redisUp, beat, rec, dead, historyVars>>

Reporting(d) == \E b \in Beats : beat[b].pc = "report" /\ beat[b].dev = d

Crash ==
    /\ \/ \E b \in Beats : beat[b].pc # "idle"
       \/ \E r \in Reconciles : rec[r].pc # "idle"
    /\ cut' = [d \in Devices |-> cut[d] \/ \E r \in Reconciles : rec[r].cur = d]
    /\ dropped' = [d \in Devices |-> dropped[d] \/ \E b \in Beats : beat[b].dev = d]
    /\ crossed' = [d \in Devices |-> crossed[d] \/ Reporting(d)]
    /\ beat' = [b \in Beats |-> NoBeat]
    /\ rec' = [r \in Reconciles |-> NoReconcile]
    /\ UNCHANGED <<rowVars, redisUp, dead, heard, told>>

-----------------------------------------------------------------------------

BeatStep(b) ==
    BeatPresence(b) \/ BeatRead(b) \/ BeatWrite(b) \/ BeatReport(b) \/ BeatThrows(b)
Report(r) == Event(r) \/ Alert(r) \/ ReconcileThrows(r)

Next ==
    \/ \E b \in Beats : BeatStep(b) \/ \E d \in Devices : BeatArrives(b, d)
    \/ \E r \in Reconciles : Scan(r) \/ Report(r) \/ \E d \in Devices : Darken(r, d)
    \/ \E d \in Devices : Touch(d) \/ GoesSilent(d) \/ Remove(d)
    \/ Tick \/ RedisToggles \/ Crash

Spec == Init /\ [][Next]_vars

(***************************************************************************)
(* Fairness: time does not stop; handlers run on; the timer of onModuleInit *)
(* starts a reconciliation again and again; and crashes are not so timed   *)
(* that they keep it from reaching one device for ever.                    *)
(***************************************************************************)
Fairness ==
    /\ SF_vars(Tick)
    /\ \A b \in Beats : WF_vars(BeatStep(b))
    /\ \A r \in Reconciles : WF_vars(Scan(r)) /\ WF_vars(Report(r))
    /\ \A r \in Reconciles, d \in Devices : SF_vars(Darken(r, d))

FairSpec == Spec /\ Fairness

-----------------------------------------------------------------------------
(* Properties *)

\* The parent has been alerted of every device whose status is DARK, or a
\* reconciliation is about to do it, unless a crash or an error came between
\* the status and the alert. Check-ins and overlapping reconciliations in
\* between make no difference.
DarkIsTold ==
    \A d \in Devices : status[d] = "DARK" =>
      told[d] \/ cut[d] \/ \E r \in Reconciles : rec[r].cur = d

\* "mark ONLINE, surface a RECOVERED if dark" (heartbeat.service.ts:42): a device
\* that is ONLINE again after a WENT_DARK has a RECOVERED on its way. Why it may
\* lack one, completely: the device was set to DARK between the read and the
\* write of a check-in, so that wasDark was stale; or its RECOVERED was stored
\* before the WENT_DARK it answers; or the check-in was cut off in between.
RecoveryIsTold ==
    \A d \in Devices :
      status[d] = "ONLINE" /\ last[d] = "WENT_DARK" => crossed[d] \/ Reporting(d)

\* The parent can tell from alerts and events what the status of a device is,
\* whichever check-ins and reconciliations cross.
StatusIsTold == DarkIsTold /\ RecoveryIsTold

\* The reconciler only picks devices from which no request has reached the
\* backend for more than the grace period: Grace is neither shortened by a
\* boundary nor by a race with a beat. The exceptions are beats in flight, those
\* that wait for Redis among them, and beats that a crash or an error ended.
ScanFindsSilent ==
    [][\A r \in Reconciles : rec[r].pc = "idle" /\ rec'[r].pc = "loop" =>
         \A d \in rec'[r].todo :
           heard[d] > Grace \/ dropped[d] \/ \E b \in Beats : beat[b].dev = d]_vars

\* A device that falls silent is brought to the parent's attention: whatever
\* beats were still in flight, whichever devices are removed or reported beside
\* it, the parent ends up with an alert newer than its last check-in, unless
\* the report itself was cut off.
SilenceIsAlerted ==
    \A d \in Devices :
      d \in dead ~> told[d] \/ cut[d] \/ status[d] = "GONE"

-----------------------------------------------------------------------------
(***************************************************************************)
(* The inductive invariant: a beat at work has a device, and time has      *)
(* stood still since it wrote lastSeenAt; a reconciliation has a current   *)
(* device exactly while it reports; and lastSeenAt is only older than the  *)
(* last request where a beat is still on its way or was lost.              *)
(***************************************************************************)
BeatsLinked ==
    \A b \in Beats :
      /\ beat[b].pc # "idle" <=> beat[b].dev \in Devices
      /\ beat[b].pc = "report" => age[beat[b].dev] = 0

ReconcilesLinked ==
    \A r \in Reconciles : rec[r].pc \in {"event", "alert"} <=> rec[r].cur \in Devices

SeenWhenHeard ==
    \A d \in Devices :
      age[d] <= heard[d] \/ dropped[d] \/ \E b \in Beats : beat[b].dev = d

\* A WENT_DARK stored, or about to be: a check-in that did not see the DARK it
\* answers was crossed.
WentDark(d) == last[d] = "WENT_DARK" \/ Darkening(d)
RecoveryOwed ==
    /\ \A d \in Devices :
         status[d] = "ONLINE" /\ WentDark(d) => crossed[d] \/ Reporting(d)
    /\ \A b \in Beats :
         LET d == beat[b].dev
         IN  beat[b].pc = "write" /\ ~beat[b].wasDark /\ status[d] = "DARK" /\ WentDark(d)
               => crossed[d]

IInv ==
    TypeOK /\ BeatsLinked /\ ReconcilesLinked /\ SeenWhenHeard /\ DarkIsTold /\ RecoveryOwed
=============================================================================
