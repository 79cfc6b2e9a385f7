------------------------------ MODULE SyncLoop ------------------------------
(***************************************************************************)
(* What a device does without being asked: the cycle of SupervisorService  *)
(* and of SyncWorker, the event buffer they flush, and the tamper watchdog *)
(* at the cycle's end.                                                     *)
(*                                                                         *)
(* Every repository has a buffer object of its own on the one file, and    *)
(* the lock of a buffer is the object's: drainAndClear and readd are a     *)
(* read and a write, which those of another object may come between.       *)
(*                                                                         *)
(* Of the three layers of the watchdog there is one here: their checks do  *)
(* not depend on each other.  What the commands of a cycle do is in        *)
(* CommandSpine, and heartbeats and push tokens are in Presence and        *)
(* DeviceIdentity: here they are calls that end the cycle when they fail.  *)
(***************************************************************************)
EXTENDS Naturals, Sequences, FiniteSets

CONSTANTS
    Supervisor,     \* its sync loop
    Workers,        \* runs of SyncWorker at a time
    Events,
    None,
    MaxBatch,       \* events the backend takes in a batch: 500, or as many as make up
                    \* the JSON body it parses
    MaxRaces,       \* bound on overlapping file operations
    MaxFaults       \* bound on calls that fail and deaths of the process

ASSUME BoundsAreNat == MaxBatch \in Nat /\ MaxRaces \in Nat /\ MaxFaults \in Nat
ASSUME SyncsDiffer == Supervisor \notin Workers /\ None \notin Workers \cup {Supervisor}

VARIABLES
    file,           \* event_buffer.jsonl
    sync,           \* each sync: where it is and what it holds in memory
    rows,           \* how often each event is in the Event table, up to 2
    layer,          \* the protection layer: "on" or "off"
    stored, disk,   \* its last value in the watchdog's preferences, and on disk
    faults,
    \* what happened, for the properties only
    buffered,       \* events that were added
    again,          \* events of a batch whose answer was lost
    raced, races,   \* events the overlapping file operations touched
    dead,           \* events that were in memory, or in a file being rewritten, when the
                    \* process died, and are not in what it left
    told,           \* the layer's drop was stored by the backend
    missed          \* a report, or a value not yet on disk, was lost

fileVars == <<file, buffered, raced, races>>
tamperVars == <<layer, stored, disk, told, missed>>
vars == <<fileVars, sync, rows, tamperVars, faults, again, dead>>

Syncs == {Supervisor} \cup Workers

Sync == [pc: {"off", "rest", "heartbeat", "fcm", "drain", "clear", "upload", "readd",
              "rewrite", "commands", "check", "report", "store", "collect"},
         hand: Seq(Events),      \* drained
         old: Seq(Events)]       \* what readd found in the file
Resting == [pc |-> "rest", hand |-> <<>>, old |-> <<>>]

TypeOK ==
    /\ file \in Seq(Events)
    /\ sync \in [Syncs -> Sync]
    /\ rows \in [Events -> 0..2]
    /\ layer \in {"on", "off"}
    /\ {stored, disk} \subseteq {"unset", "on", "off"}
    /\ {buffered, again, raced, dead} \subseteq SUBSET Events
    /\ races \in 0..MaxRaces
    /\ told \in BOOLEAN /\ missed \in BOOLEAN
    /\ faults \in 0..MaxFaults

Init ==
    /\ file = <<>>
    /\ sync = [i \in Syncs |-> Resting]
    /\ rows = [e \in Events |-> 0]
    /\ layer \in {"on", "off"}
    /\ stored = "unset" /\ disk = "unset"
    /\ buffered = {} /\ again = {} /\ raced = {} /\ races = 0 /\ dead = {}
    /\ told = FALSE /\ missed = FALSE
    /\ faults = 0

In(s) == {s[n] : n \in DOMAIN s}
At(i, l) == sync[i].pc = l
Become(i, r) == sync' = [sync EXCEPT ![i] = r]
Goto(i, l) == sync' = [sync EXCEPT ![i].pc = l]
Fault == faults < MaxFaults /\ faults' = faults + 1

-----------------------------------------------------------------------------
(* The buffer's file *)

\* Between the read and the write of drainAndClear or readd.
Between(i) == sync[i].pc \in {"clear", "rewrite"}

\* An operation on the file, by i or by a receiver, between those of another.
Touches(i, es) ==
    LET others == {j \in Syncs \ {i} : Between(j)}
    IN  IF others = {} THEN UNCHANGED <<raced, races>>
        ELSE /\ races < MaxRaces
             /\ races' = races + 1
             /\ raced' = raced \cup es \cup In(file) \cup UNION {In(sync[j].hand) : j \in others}

\* EventBuffer.add.
Append1(e) ==
    /\ e \notin buffered
    /\ buffered' = buffered \cup {e}
    /\ file' = Append(file, e)

\* PackageEventReceiver: its repository is a new one.
Receive(e) ==
    /\ Append1(e)
    /\ Touches(None, {e})
    /\ UNCHANGED <<sync, rows, tamperVars, faults, again, dead>>

DrainRead(i) ==
    /\ At(i, "drain")
    /\ Become(i, [Resting EXCEPT !.pc = "clear", !.hand = file])
    /\ Touches(i, {})
    /\ UNCHANGED <<file, buffered, rows, tamperVars, faults, again, dead>>

\* Mutant: what was read stays.
Kept == file
Cleared == <<>>

\* The batch is uploaded unless it is empty.
DrainClear(i) ==
    /\ At(i, "clear")
    /\ file' = Cleared
    /\ Goto(i, IF sync[i].hand = <<>> THEN "commands" ELSE "upload")
    /\ UNCHANGED <<buffered, raced, races, rows, tamperVars, faults, again, dead>>

ReaddRead(i) ==
    /\ At(i, "readd")
    /\ Become(i, [sync[i] EXCEPT !.pc = "rewrite", !.old = file])
    /\ Touches(i, In(sync[i].hand))
    /\ UNCHANGED <<file, buffered, rows, tamperVars, faults, again, dead>>

\* Mutants: events buffered since are overwritten; the batch becomes one line.
RequeuedAlone(i) == sync[i].hand
RequeuedInOne(i) == <<sync[i].hand>> \o sync[i].old
Requeued(i) == sync[i].hand \o sync[i].old

\* The exception is thrown on: the cycle is over.
ReaddWrite(i) ==
    /\ At(i, "rewrite")
    /\ file' = Requeued(i)
    /\ Become(i, Resting)
    /\ UNCHANGED <<buffered, raced, races, rows, tamperVars, faults, again, dead>>

-----------------------------------------------------------------------------
(* The calls of a cycle *)

Wake(i) ==
    /\ At(i, "rest")
    /\ Goto(i, "heartbeat")
    /\ UNCHANGED <<fileVars, rows, tamperVars, faults, again, dead>>

\* Only the supervisor reports push tokens, and checks and collects at the end.
\* Mutant: it does not.
Finished(i) == "rest"
AfterCommands(i) == IF i = Supervisor THEN "check" ELSE "rest"

\* heartbeat, syncFcmToken, syncAndExecute
Call(i, from, to) ==
    /\ At(i, from)
    /\ Goto(i, to)
    /\ UNCHANGED <<fileVars, rows, tamperVars, again, dead>>

Heartbeat(i) == Call(i, "heartbeat", IF i = Supervisor THEN "fcm" ELSE "drain") /\ UNCHANGED faults
SyncFcmToken(i) == Call(i, "fcm", "drain") /\ UNCHANGED faults
SyncAndExecute(i) == Call(i, "commands", AfterCommands(i)) /\ UNCHANGED faults

CallFails(i) == \E l \in {"heartbeat", "fcm", "commands"} : Call(i, l, "rest") /\ Fault

\* IngestEventsDto.  Mutant: one less.
TakesFewer(batch) == Len(batch) < MaxBatch
Takes(batch) == Len(batch) <= MaxBatch

\* EventsService.ingestBatch: a batch is one createMany.
Ingest(batch) == rows' = [e \in Events |-> IF e \in In(batch) /\ rows[e] < 2 THEN rows[e] + 1 ELSE rows[e]]

Upload(i) ==
    /\ At(i, "upload")
    /\ Takes(sync[i].hand)
    /\ Ingest(sync[i].hand)
    /\ Become(i, [Resting EXCEPT !.pc = "commands"])
    /\ UNCHANGED <<fileVars, tamperVars, faults, again, dead>>

UploadAnswerLost(i) ==
    /\ At(i, "upload")
    /\ Takes(sync[i].hand)
    /\ Ingest(sync[i].hand)
    /\ again' = again \cup In(sync[i].hand)
    /\ Goto(i, "readd")
    /\ Fault
    /\ UNCHANGED <<fileVars, tamperVars, dead>>

\* The request is lost, or refused: whatever the error, the batch is kept.
UploadFails(i) ==
    /\ At(i, "upload")
    /\ Goto(i, "readd")
    /\ IF Takes(sync[i].hand) THEN Fault ELSE UNCHANGED faults
    /\ UNCHANGED <<fileVars, rows, tamperVars, again, dead>>

-----------------------------------------------------------------------------
(* TamperWatchdog.check and VisibilityCollector.collect *)

Store(v) ==
    /\ stored' = v
    /\ told' = (told /\ v = "off")
    /\ missed' = (missed /\ v = "off")

Seeded == stored # "unset"

\* Mutant: the value is stored before the drop is reported.
EvaluateAhead(i) ==
    /\ Goto(i, IF stored = "on" /\ layer = "off" THEN "report" ELSE "collect")
    /\ Store(layer)
Evaluate(i) ==
    IF stored = "on" /\ layer = "off" THEN Goto(i, "report") /\ UNCHANGED <<stored, told, missed>>
    ELSE Goto(i, "collect") /\ Store(layer)

\* A layer that is off at the first check is not a drop.
Check(i) ==
    /\ At(i, "check")
    /\ IF Seeded THEN Evaluate(i)
       ELSE Goto(i, "collect") /\ stored' = layer /\ missed' = (layer = "off") /\ UNCHANGED told
    /\ UNCHANGED <<fileVars, rows, layer, disk, faults, again, dead>>

\* The report is stored, or not; the device does not care.
Report(i) ==
    /\ At(i, "report")
    /\ Goto(i, "store")
    /\ \/ told' = TRUE /\ UNCHANGED missed
       \/ missed' = TRUE /\ UNCHANGED told
    /\ UNCHANGED <<fileVars, rows, layer, stored, disk, faults, again, dead>>

StoreOff(i) ==
    /\ At(i, "store")
    /\ Goto(i, "collect")
    /\ Store("off")
    /\ UNCHANGED <<fileVars, rows, layer, disk, faults, again, dead>>

\* A location report, whose errors are swallowed; a usage summary when one is due.
Collect(i) ==
    /\ At(i, "collect")
    /\ Goto(i, "rest")
    /\ \/ \E e \in Events : Append1(e) /\ Touches(i, {e})
       \/ UNCHANGED fileVars
    /\ UNCHANGED <<rows, tamperVars, faults, again, dead>>

-----------------------------------------------------------------------------
(* The child, Android and the disk *)

Toggle ==
    /\ layer' = IF layer = "on" THEN "off" ELSE "on"
    /\ UNCHANGED <<fileVars, sync, rows, stored, disk, told, missed, faults, again, dead>>

\* SharedPreferences.apply writes in the background.
Persist ==
    /\ disk # stored
    /\ disk' = stored
    /\ UNCHANGED <<fileVars, sync, rows, layer, stored, told, missed, faults, again, dead>>

\* readd empties the file and writes it anew: what is left of it in the middle of that.
Torn(i) == {SubSeq(Requeued(i), 1, n) : n \in 0..Len(Requeued(i))}
Left == {file} \cup UNION {Torn(i) : i \in {j \in Syncs : At(j, "rewrite")}}

\* The process dies with all that is in memory.
Kill ==
    /\ \E i \in Syncs : ~At(i, "off")
    /\ sync' = [i \in Syncs |-> [Resting EXCEPT !.pc = "off"]]
    /\ file' \in Left
    /\ dead' = dead \cup ((In(file) \cup UNION {In(sync[i].hand) : i \in Syncs}) \ In(file'))
    /\ stored' = disk
    /\ missed' = (missed \/ stored # disk)
    /\ Fault
    /\ UNCHANGED <<buffered, raced, races, rows, layer, disk, told, again>>

\* START_STICKY, BootReceiver and WatchdogWorker; WorkManager for the workers.
Restart(i) ==
    /\ At(i, "off")
    /\ Goto(i, "rest")
    /\ UNCHANGED <<fileVars, rows, tamperVars, faults, again, dead>>

\* A step of a cycle that gets through, and one that does not.
Advance(i) ==
    \/ Wake(i) \/ Heartbeat(i) \/ SyncFcmToken(i) \/ SyncAndExecute(i)
    \/ DrainRead(i) \/ DrainClear(i) \/ Upload(i)
    \/ Check(i) \/ Report(i) \/ StoreOff(i) \/ Collect(i)

Recover(i) ==
    \/ Restart(i) \/ CallFails(i) \/ UploadAnswerLost(i) \/ UploadFails(i)
    \/ ReaddRead(i) \/ ReaddWrite(i)

Next ==
    \/ \E i \in Syncs : Advance(i) \/ Recover(i)
    \/ \E e \in Events : Receive(e)
    \/ Toggle \/ Persist \/ Kill

Spec == Init /\ [][Next]_vars

\* Every sync goes on, and is started again; faults come to an end (MaxFaults).
\* Strongly fair, for the bound MaxRaces makes a sync wait which the code does not.
FairSpec == Spec /\ \A i \in Syncs : SF_vars(Advance(i) \/ Recover(i))

-----------------------------------------------------------------------------
(* Properties *)

InHand(e) == \E i \in Syncs : e \in In(sync[i].hand)

\* No event is lost on its way from the file to the backend and back: it is in
\* the file, in the memory of a sync or in the table.  Excepted are events in
\* memory, or in a file that is being rewritten, when the process dies, and
\* overlapping operations of two buffers.
EventKept ==
    \A e \in buffered \ (raced \cup dead) : e \in In(file) \/ InHand(e) \/ rows[e] > 0

\* The table has an event twice only if an answer to its upload was lost, or two
\* buffers' operations overlapped.
StoredOnce == \A e \in Events : rows[e] > 1 => e \in again \cup raced

\* A layer the watchdog takes for off has been reported, whenever the process
\* dies; excepted are a report or a preference that was lost, and a layer that was
\* off from the first.
DropTold == stored = "off" => told \/ missed

\* What no batch can hold any more.
Overfull == \E n \in {Len(file)} \cup {Len(sync[i].hand) : i \in Syncs} : n > MaxBatch

\* An event in the file is uploaded in the end, unless it is lost as above or the
\* buffer has outgrown the batches the backend takes.
EventUploaded ==
    \A e \in Events : e \in In(file) ~> (rows[e] > 0 \/ e \in raced \cup dead \/ Overfull)

\* A layer that stays off is noticed, however often the process dies or a call
\* fails before, unless an overfull buffer ends every cycle before the watchdog's
\* turn.
DropNoticed == (layer = "off" /\ stored # "off") ~> (layer = "on" \/ stored = "off" \/ Overfull)
=============================================================================
