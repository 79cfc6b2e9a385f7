---------------------------- MODULE CommandSpine ----------------------------
(***************************************************************************)
(* The command spine: how a command of the parent reaches a device and how *)
(* its result comes back.                                                  *)
(*                                                                         *)
(* Three kinds of process meet at the Command table of Postgres:           *)
(*   - callers, requests to CommandsService.enqueue (POST                  *)
(*     devices/:id/commands, and PoliciesService for SET_POLICY);          *)
(*   - dispatchers, runs of CommandDispatcher.syncAndExecute on a device.  *)
(*     The supervisor's 60 s loop, the periodic worker, every one-shot     *)
(*     worker started by a push and the "sync now" button each run their   *)
(*     own, and nothing excludes one from another;                         *)
(*   - calls, executions of CommandsService.ack and .complete in the       *)
(*     backend: two statements each, a read and a conditional update,      *)
(*     outside any transaction. A call outlives the dispatcher that made   *)
(*     it when the client times out.                                       *)
(*                                                                         *)
(* A push only starts a dispatcher, and a dispatcher may start at any      *)
(* time, so a lost, duplicated or delayed push needs no state here.        *)
(* Payloads, command types and result bodies are left out: a run of        *)
(* execute() is an effect, and its outcome is "ok" or "err".               *)
(***************************************************************************)
EXTENDS Naturals, FiniteSets

CONSTANTS
    Commands,       \* identities of rows of the Command table
    Keys,           \* idempotency keys
    Devices,
    Dispatchers,    \* concurrent runs of syncAndExecute
    DeviceOf,       \* the device a dispatcher runs on
    Callers,        \* concurrent requests to enqueue
    Slots,          \* ack and result requests the backend serves at a time
    RunCap,         \* bound: executions of a command are counted up to it
    NoKey, NoDevice, NoCommand, NoDispatcher

ASSUME CommandsAreFinite == IsFiniteSet(Commands)
ASSUME DeviceOfIsMap == DeviceOf \in [Dispatchers -> Devices]
ASSUME RunCapIsPositive == RunCap \in Nat \ {0}
ASSUME NullsAreNew ==
    /\ NoKey \notin Keys
    /\ NoDevice \notin Devices
    /\ NoCommand \notin Commands
    /\ NoDispatcher \notin Dispatchers

VARIABLES
    \* the Command table
    state,          \* "NONE" until the row exists
    key,
    target,         \* deviceId
    born,           \* creation order, 0 until the row exists
    overdue,        \* expiresAt has passed
    trail,          \* commands with a command_enqueued row in the audit log
    \* the backend's requests and the devices
    caller,         \* one record for each request to enqueue
    calls,          \* one record for each request to ack or complete
    pc,             \* where a dispatcher is
    todo,           \* pulled commands the dispatcher has not executed yet
    cur,            \* the command the dispatcher is acking, executing, posting
    \* what happened, for the properties only
    runs,           \* executions of the command, counted up to RunCap
    seen,           \* outcomes of those executions
    fault           \* what went wrong around the command

rowVars == <<state, key, target, born, overdue, trail>>
deviceVars == <<pc, todo, cur>>
historyVars == <<runs, seen, fault>>
vars == <<rowVars, caller, calls, deviceVars, historyVars>>

-----------------------------------------------------------------------------
(* Types *)

Outstanding == {"QUEUED", "SENT"}
Completed == {"DONE", "FAILED"}
States == {"NONE", "ACKED", "EXPIRED"} \cup Outstanding \cup Completed
Outcomes == {"ok", "err"}
FaultKinds == {"ack_unconfirmed", "abandoned", "late_mark", "overlap", "overtaken"}

PcValues == {"idle", "finding", "next", "acking", "execute", "posting"}

Caller == [pc: {"idle", "create", "push", "mark", "audit"},
           key: Keys \cup {NoKey}, dev: Devices \cup {NoDevice},
           cmd: Commands \cup {NoCommand}, sent: BOOLEAN]
IdleCaller == [pc |-> "idle", key |-> NoKey, dev |-> NoDevice,
               cmd |-> NoCommand, sent |-> FALSE]

Call == [kind: {"free", "ack", "result"}, owner: Dispatchers \cup {NoDispatcher},
         cmd: Commands \cup {NoCommand}, out: Outcomes,
         phase: {"sent", "read", "replied"}]
FreeSlot == [kind |-> "free", owner |-> NoDispatcher, cmd |-> NoCommand,
             out |-> "ok", phase |-> "sent"]

TypeOK ==
    /\ state \in [Commands -> States]
    /\ key \in [Commands -> Keys \cup {NoKey}]
    /\ target \in [Commands -> Devices \cup {NoDevice}]
    /\ born \in [Commands -> Nat]
    /\ overdue \in [Commands -> BOOLEAN]
    /\ trail \in SUBSET Commands
    /\ caller \in [Callers -> Caller]
    /\ calls \in [Slots -> Call]
    /\ pc \in [Dispatchers -> PcValues]
    /\ todo \in [Dispatchers -> SUBSET Commands]
    /\ cur \in [Dispatchers -> Commands \cup {NoCommand}]
    /\ runs \in [Commands -> 0..RunCap]
    /\ seen \in [Commands -> SUBSET Outcomes]
    /\ fault \in [Commands -> SUBSET FaultKinds]

Init ==
    /\ state = [c \in Commands |-> "NONE"]
    /\ key = [c \in Commands |-> NoKey]
    /\ target = [c \in Commands |-> NoDevice]
    /\ born = [c \in Commands |-> 0]
    /\ overdue = [c \in Commands |-> FALSE]
    /\ trail = {}
    /\ caller = [r \in Callers |-> IdleCaller]
    /\ calls = [s \in Slots |-> FreeSlot]
    /\ pc = [d \in Dispatchers |-> "idle"]
    /\ todo = [d \in Dispatchers |-> {}]
    /\ cur = [d \in Dispatchers |-> NoCommand]
    /\ runs = [c \in Commands |-> 0]
    /\ seen = [c \in Commands |-> {}]
    /\ fault = [c \in Commands |-> {}]

BeingCreated(c) == \E r \in Callers : caller[r].cmd = c
KeyTaken(k) == \E c \in Commands : key[c] = k

\* The unique index of the column idempotencyKey lets a new row in.
IndexAdmitsAny(k) == TRUE                               \* mutant: no index
IndexAdmits(k) == ~KeyTaken(k)

Blame(cs, f) == [c \in Commands |-> IF c \in cs THEN fault[c] \cup {f} ELSE fault[c]]

-----------------------------------------------------------------------------
(* CommandsService.enqueue, one action for each awaited call *)

\* findUnique by idempotency key. A hit is the answer and the request is over.
Lookup(r, k, dev) ==
    /\ caller[r].pc = "idle"
    /\ ~KeyTaken(k)
    /\ caller' = [caller EXCEPT ![r] = [IdleCaller EXCEPT !.pc = "create",
                                                          !.key = k, !.dev = dev]]
    /\ UNCHANGED <<rowVars, calls, deviceVars, historyVars>>

\* create: the unique index on idempotencyKey rejects a second row, and the
\* request fails.
CreateRejected(r) ==
    /\ caller[r].pc = "create"
    /\ ~IndexAdmits(caller[r].key)
    /\ caller' = [caller EXCEPT ![r] = IdleCaller]
    /\ UNCHANGED <<rowVars, calls, deviceVars, historyVars>>

Create(r, c) ==
    /\ caller[r].pc = "create"
    /\ IndexAdmits(caller[r].key)
    /\ state[c] = "NONE"
    /\ state' = [state EXCEPT ![c] = "QUEUED"]
    /\ key' = [key EXCEPT ![c] = caller[r].key]
    /\ target' = [target EXCEPT ![c] = caller[r].dev]
    /\ born' = [born EXCEPT ![c] =
                  1 + Cardinality({e \in Commands : state[e] # "NONE"})]
    /\ caller' = [caller EXCEPT ![r] = [@ EXCEPT !.pc = "push", !.cmd = c]]
    /\ UNCHANGED <<overdue, trail, calls, deviceVars, historyVars>>

\* FcmService.sendData: FALSE without a token, in stub mode and on any error.
Push(r) ==
    /\ caller[r].pc = "push"
    /\ \E sent \in BOOLEAN :
         caller' = [caller EXCEPT ![r] = [@ EXCEPT !.pc = "mark", !.sent = sent]]
    /\ UNCHANGED <<rowVars, calls, deviceVars, historyVars>>

\* update where id: no condition on the state the row has by now.
Mark(r) ==
    /\ caller[r].pc = "mark"
    /\ state' = [state EXCEPT ![caller[r].cmd] =
                   IF caller[r].sent THEN "SENT" ELSE "QUEUED"]
    /\ fault' = IF state[caller[r].cmd] \in Outstanding
                  THEN fault ELSE Blame({caller[r].cmd}, "late_mark")
    /\ caller' = [caller EXCEPT ![r] = [@ EXCEPT !.pc = "audit"]]
    /\ UNCHANGED <<key, target, born, overdue, trail, calls, deviceVars, runs, seen>>

Audit(r) ==
    /\ caller[r].pc = "audit"
    /\ trail' = trail \cup {caller[r].cmd}
    /\ caller' = [caller EXCEPT ![r] = IdleCaller]
    /\ UNCHANGED <<state, key, target, born, overdue, calls, deviceVars, historyVars>>

-----------------------------------------------------------------------------
(* CommandsService.pullPending: expireStale, then findMany *)

\* What expireStale expires, and what findMany returns.
Stale(dev) ==
    {c \in Commands : target[c] = dev /\ state[c] \in Outstanding /\ overdue[c]}

PendingOrAcked(dev) ==                                  \* mutant: also ACKED
    {c \in Commands : target[c] = dev /\ state[c] \in Outstanding \cup {"ACKED"}}
Pending(dev) == {c \in Commands : target[c] = dev /\ state[c] \in Outstanding}

\* A dispatcher starts: its GET commands/pending first expires what is stale.
PullExpire(d) ==
    /\ pc[d] = "idle"
    /\ state' = [c \in Commands |->
                   IF c \in Stale(DeviceOf[d]) THEN "EXPIRED" ELSE state[c]]
    /\ pc' = [pc EXCEPT ![d] = "finding"]
    /\ UNCHANGED <<key, target, born, overdue, trail, caller, calls, todo, cur,
                   historyVars>>

\* ... and then reads the rows that are outstanding now. Another dispatcher
\* may already be working on some of them, or on an older one.
PullFind(d) ==
    LET found == Pending(DeviceOf[d])
        held == {c \in Commands : \E e \in Dispatchers : c \in todo[e]}
        Passed(b) == \E c \in found : target[b] = target[c] /\ born[b] < born[c]
    IN  /\ pc[d] = "finding"
        /\ todo' = [todo EXCEPT ![d] = found]
        /\ pc' = [pc EXCEPT ![d] = IF found = {} THEN "idle" ELSE "next"]
        /\ fault' = [c \in Commands |->
             IF c \in held \cap found THEN fault[c] \cup {"overlap"}
             ELSE IF c \in held /\ Passed(c) THEN fault[c] \cup {"overtaken"}
             ELSE fault[c]]
        /\ UNCHANGED <<rowVars, caller, calls, cur, runs, seen>>

-----------------------------------------------------------------------------
(* CommandDispatcher.syncAndExecute: the loop over the pulled commands *)

\* orderBy createdAt asc
Newest(c, cs) == c \in cs /\ \A e \in cs : born[c] >= born[e]   \* mutant: desc
Oldest(c, cs) == c \in cs /\ \A e \in cs : born[c] <= born[e]

\* The next command of the list: send its ack.
BeginAck(d, s, c) ==
    /\ pc[d] = "next"
    /\ Oldest(c, todo[d])
    /\ calls[s].kind = "free"
    /\ calls' = [calls EXCEPT ![s] = [FreeSlot EXCEPT !.kind = "ack", !.owner = d,
                                                      !.cmd = c]]
    /\ cur' = [cur EXCEPT ![d] = c]
    /\ pc' = [pc EXCEPT ![d] = "acking"]
    /\ UNCHANGED <<rowVars, caller, todo, historyVars>>

\* execute(command) and the request that posts its outcome. The process may
\* die in between: Die followed by Lose.
Execute(d, s, out) ==
    /\ pc[d] = "execute"
    /\ calls[s].kind = "free"
    /\ runs' = [runs EXCEPT ![cur[d]] = IF @ < RunCap THEN @ + 1 ELSE @]
    /\ seen' = [seen EXCEPT ![cur[d]] = @ \cup {out}]
    /\ calls' = [calls EXCEPT ![s] = [kind |-> "result", owner |-> d, cmd |-> cur[d],
                                      out |-> out, phase |-> "sent"]]
    /\ todo' = [todo EXCEPT ![d] = @ \ {cur[d]}]
    /\ pc' = [pc EXCEPT ![d] = "posting"]
    /\ UNCHANGED <<rowVars, caller, cur, fault>>

\* The answer to an ack or a result arrives.
Reply(s) ==
    LET d == calls[s].owner
    IN  /\ calls[s].kind # "free"
        /\ calls[s].phase = "replied"
        /\ calls' = [calls EXCEPT ![s] = FreeSlot]
        /\ \/ /\ calls[s].kind = "ack"
              /\ pc' = [pc EXCEPT ![d] = "execute"]
              /\ UNCHANGED cur
           \/ /\ calls[s].kind = "result"
              /\ pc' = [pc EXCEPT ![d] = IF todo[d] = {} THEN "idle" ELSE "next"]
              /\ cur' = [cur EXCEPT ![d] = NoCommand]
        /\ UNCHANGED <<rowVars, caller, todo, historyVars>>

\* What the backend still holds of a client that is gone: a request being
\* served goes on without an owner, an answer is dropped.
Disowned(d) ==
    [s \in Slots |->
       IF calls[s].owner # d THEN calls[s]
       ELSE IF calls[s].phase = "replied" THEN FreeSlot
       ELSE [calls[s] EXCEPT !.owner = NoDispatcher]]

\* Time-out, lost request or lost answer of an ack: runCatching swallows the
\* error and the command is executed all the same.
GiveUpAck(d) ==
    /\ pc[d] = "acking"
    /\ calls' = Disowned(d)
    /\ fault' = Blame({cur[d]}, "ack_unconfirmed")
    /\ pc' = [pc EXCEPT ![d] = "execute"]
    /\ UNCHANGED <<rowVars, caller, todo, cur, runs, seen>>

\* The same of a result: the exception leaves the loop and the rest of the
\* list is dropped.
GiveUpResult(d) ==
    /\ pc[d] = "posting"
    /\ calls' = Disowned(d)
    /\ fault' = Blame({cur[d]}, "abandoned")
    /\ pc' = [pc EXCEPT ![d] = "idle"]
    /\ todo' = [todo EXCEPT ![d] = {}]
    /\ cur' = [cur EXCEPT ![d] = NoCommand]
    /\ UNCHANGED <<rowVars, caller, runs, seen>>

\* A dispatcher is killed with its process, or its coroutine is cancelled.
Die(d) ==
    /\ pc[d] # "idle"
    /\ calls' = Disowned(d)
    /\ fault' = Blame({cur[d]}, "abandoned")
    /\ pc' = [pc EXCEPT ![d] = "idle"]
    /\ todo' = [todo EXCEPT ![d] = {}]
    /\ cur' = [cur EXCEPT ![d] = NoCommand]
    /\ UNCHANGED <<rowVars, caller, runs, seen>>

-----------------------------------------------------------------------------
(* CommandsService.ack and .complete *)

\* The early return of the handler on the state that ownedCommand read.
IgnoresAcked(s) ==                                      \* mutant: ACKED is final
    LET st == state[calls[s].cmd]
    IN  st \notin Outstanding
Ignores(s) ==
    LET st == state[calls[s].cmd]
    IN  IF calls[s].kind = "ack" THEN st \notin Outstanding ELSE st \in Completed

\* The state that complete stores for the posted outcome.
StoresUnknown(out) == IF out = "err" THEN "ERROR" ELSE "DONE"    \* mutant: not in the enum
StoresSwapped(out) == IF out = "err" THEN "DONE" ELSE "FAILED"   \* mutant: swapped
StoresRetry(out) == IF out = "err" THEN "QUEUED" ELSE "DONE"     \* mutant: retries
Stores(out) == IF out = "err" THEN "FAILED" ELSE "DONE"

\* The handler is done: its client gets the answer, if there still is one.
Answer(s) ==
    calls' = [calls EXCEPT ![s] = IF @.owner = NoDispatcher THEN FreeSlot
                                  ELSE [@ EXCEPT !.phase = "replied"]]

ReadIgnored(s) ==
    /\ calls[s].kind # "free"
    /\ calls[s].phase = "sent"
    /\ Ignores(s)
    /\ Answer(s)
    /\ UNCHANGED <<rowVars, caller, deviceVars, historyVars>>

Read(s) ==
    /\ calls[s].kind # "free"
    /\ calls[s].phase = "sent"
    /\ ~Ignores(s)
    /\ calls' = [calls EXCEPT ![s] = [@ EXCEPT !.phase = "read"]]
    /\ UNCHANGED <<rowVars, caller, deviceVars, historyVars>>

\* update where id: unconditional again.
Write(s) ==
    /\ calls[s].phase = "read"
    /\ state' = [state EXCEPT ![calls[s].cmd] =
                   IF calls[s].kind = "ack" THEN "ACKED" ELSE Stores(calls[s].out)]
    /\ Answer(s)
    /\ UNCHANGED <<key, target, born, overdue, trail, caller, deviceVars, historyVars>>

\* A request nobody waits for never reaches the backend.
Lose(s) ==
    /\ calls[s].kind # "free"
    /\ calls[s].owner = NoDispatcher
    /\ calls[s].phase = "sent"
    /\ calls' = [calls EXCEPT ![s] = FreeSlot]
    /\ UNCHANGED <<rowVars, caller, deviceVars, historyVars>>

-----------------------------------------------------------------------------
(* Time and the backend's process *)

\* expiresAt of c passes, and with it that of every older command: the TTL is
\* the same for all. It matters only while c is, or may be put back, outstanding.
Lapse(c) ==
    /\ state[c] \in Outstanding \/ BeingCreated(c)
    /\ ~overdue[c]
    /\ overdue' = [e \in Commands |->
                     overdue[e] \/ (state[e] # "NONE" /\ born[e] <= born[c])]
    /\ UNCHANGED <<state, key, target, born, trail, caller, calls, deviceVars, historyVars>>

\* The backend restarts: every request it was serving is gone. A dispatcher
\* that waits for an answer finds out by GiveUpAck or GiveUpResult.
BackendCrash ==
    /\ \/ \E r \in Callers : caller[r].pc # "idle"
       \/ \E s \in Slots : calls[s].kind # "free"
       \/ \E d \in Dispatchers : pc[d] = "finding"
    /\ caller' = [r \in Callers |-> IdleCaller]
    /\ calls' = [s \in Slots |-> FreeSlot]
    /\ pc' = [d \in Dispatchers |-> IF pc[d] = "finding" THEN "idle" ELSE pc[d]]
    /\ UNCHANGED <<rowVars, todo, cur, historyVars>>

-----------------------------------------------------------------------------

Enqueue(r) ==
    \/ \E k \in Keys, dev \in Devices : Lookup(r, k, dev)
    \/ CreateRejected(r)
    \/ \E c \in Commands : Create(r, c)
    \/ Push(r)
    \/ Mark(r)
    \/ Audit(r)

Dispatch(d) ==
    \/ PullExpire(d)
    \/ PullFind(d)
    \/ \E s \in Slots, c \in Commands : BeginAck(d, s, c)
    \/ \E s \in Slots, out \in Outcomes : Execute(d, s, out)
    \/ GiveUpAck(d)
    \/ GiveUpResult(d)

Serve(s) == ReadIgnored(s) \/ Read(s) \/ Write(s) \/ Reply(s) \/ Lose(s)

Next ==
    \/ \E r \in Callers : Enqueue(r)
    \/ \E d \in Dispatchers : Dispatch(d) \/ Die(d)
    \/ \E s \in Slots : Serve(s)
    \/ \E c \in Commands : Lapse(c)
    \/ BackendCrash

Spec == Init /\ [][Next]_vars

(***************************************************************************)
(* Fairness. A request the backend has started runs to its end or is cut   *)
(* off by a crash; time passes; and the device syncs again and again (the  *)
(* 60 s loop, the 15 min worker), taking every step of a sync it has begun *)
(* because the HTTP client's time-outs bound each wait. Nothing makes a    *)
(* parent send a command, a process die or the backend crash.              *)
(***************************************************************************)
Fairness ==
    /\ \A r \in Callers : WF_vars(Enqueue(r) /\ caller[r].pc # "idle")
    /\ \A d \in Dispatchers : WF_vars(Dispatch(d))
    /\ \A s \in Slots : WF_vars(Serve(s))
    /\ \A c \in Commands : WF_vars(Lapse(c))

FairSpec == Spec /\ Fairness

-----------------------------------------------------------------------------
(* Properties *)

Holds(d, c) == c \in todo[d]
Posting(d, c) == pc[d] = "posting" /\ cur[d] = c

\* Requests that carry the same idempotency key and race past each other's
\* findUnique make one command between them, never two (enqueue's
\* check-then-create, commands.service.ts:47-61).
OneCommandPerKey ==
    \A b, c \in Commands : key[b] = key[c] /\ key[b] # NoKey => b = c

\* The parent is never told a result that did not happen: DONE means that some
\* run of execute() succeeded on the device, FAILED that some run threw, however
\* calls of several dispatchers overwrite one another.
ResultMeansEffect ==
    \A c \in Commands :
      /\ state[c] = "DONE" => "ok" \in seen[c]
      /\ state[c] = "FAILED" => "err" \in seen[c]

\* Why a command can be executed twice, completely: the ack of a run was not
\* confirmed, two syncs of the device had the command in hand at once, or
\* enqueue's last update came after the device's ack. Without one of the three
\* every command is executed at most once, through crashes of either side,
\* expiry, lost results and late calls.
DuplicateExplained ==
    \A c \in Commands :
      fault[c] \cap {"ack_unconfirmed", "overlap", "late_mark"} = {} => runs[c] <= 1

\* An ACKED command is never handed out again, so somebody has to be working
\* on it: while nothing failed around it, some dispatcher will still execute
\* it or is posting its result.
AckedIsWorkedOn ==
    \A c \in Commands :
      /\ state[c] = "ACKED"
      /\ fault[c] \cap {"ack_unconfirmed", "abandoned"} = {}
      => \E d \in Dispatchers : Holds(d, c) \/ Posting(d, c)

\* Once the request that made a command has returned, a command that has left
\* QUEUED and SENT never returns there: no late ack, result or expiry of any
\* dispatcher brings it back to the device.
NoRedelivery ==
    [][\A c \in Commands :
         state[c] \notin Outstanding \cup {"NONE"} /\ ~BeingCreated(c)
           => state'[c] \notin Outstanding]_vars

\* The life of a command to the parent, and what went wrong around it.
StageOf(st) ==
    CASE st = "NONE" -> "none"
      [] st \in Outstanding -> "waiting"
      [] st = "ACKED" -> "delivered"
      [] st = "EXPIRED" -> "expired"
      [] st = "DONE" -> "done"
      [] st = "FAILED" -> "failed"
stage == [c \in Commands |-> StageOf(state[c])]
Astray(c) == fault[c] \cap {"ack_unconfirmed", "abandoned", "late_mark", "overlap"} # {}
Life == INSTANCE CommandLife WITH
    effects <- runs,
    astray <- {c \in Commands : Astray(c)},
    reopened <- {c \in Commands : "late_mark" \in fault[c]}

\* Whatever handlers and syncs do to the row between their reads and their
\* updates, a command around which nothing went wrong goes through the states
\* of the diagram (commands.service.ts:20-24) one way and is carried out once;
\* its result is final. A command that enqueue's late update put back is put
\* back once, and no other is handed out again after it left QUEUED and SENT.
LivesAsPromised == Life!Spec

\* Every command comes to an end, whatever crashes and however often: with the
\* device syncing, it is completed or expires for good. It may end as ACKED only
\* if an ack was not confirmed or its dispatcher abandoned it (it died, or
\* posting the result failed).
EveryCommandEnds ==
    \A c \in Commands :
      <>[](\/ state[c] \in {"NONE", "EXPIRED"} \cup Completed
           \/ state[c] = "ACKED" /\ fault[c] \cap {"ack_unconfirmed", "abandoned"} # {})

\* The device executes commands in the order the parent sent them (LOCK then
\* UNLOCK, not UNLOCK then LOCK): once a command ran, no older command of the
\* same device runs any more, through crashes, expiry, lost results and dropped
\* lists. It takes a confirmed ack of the older one, no late update by enqueue,
\* and no second sync that got it too, or got younger ones while the first sync
\* was between its ack and its execute.
ExecutedInOrder ==
    [][\A b, c \in Commands :
         /\ born[b] < born[c]
         /\ target[b] = target[c]
         /\ runs[c] > 0
         /\ fault[b] \cap {"ack_unconfirmed", "late_mark", "overlap", "overtaken"} = {}
         => runs'[b] = runs[b]]_vars

-----------------------------------------------------------------------------
(***************************************************************************)
(* The inductive invariant behind the properties: how the pieces of state  *)
(* refer to one another, and what the properties need to be preserved.     *)
(***************************************************************************)
Excused(c) == fault[c] \cap {"ack_unconfirmed", "overlap", "late_mark"} # {}
Failed(c) == fault[c] \cap {"ack_unconfirmed", "abandoned"} # {}

CallersLinked ==
    \A r \in Callers :
      /\ caller[r].pc # "idle" => caller[r].key # NoKey
      /\ caller[r].pc \in {"push", "mark", "audit"} =>
           caller[r].cmd \in Commands /\ state[caller[r].cmd] # "NONE"

DispatchersLinked ==
    \A d \in Dispatchers :
      /\ pc[d] \in {"idle", "finding"} => todo[d] = {}
      /\ pc[d] \in {"acking", "execute"} => cur[d] \in todo[d]
      /\ pc[d] = "posting" => cur[d] \in Commands
      /\ \A c \in todo[d] : state[c] # "NONE"

CallLinked(s) ==
    /\ calls[s].kind = "free" =>
         calls[s].phase = "sent" /\ calls[s].owner = NoDispatcher
    /\ calls[s].kind # "free" =>
         /\ calls[s].cmd \in Commands
         /\ state[calls[s].cmd] # "NONE"
         /\ calls[s].phase = "replied" => calls[s].owner # NoDispatcher
         /\ calls[s].owner # NoDispatcher =>
              /\ cur[calls[s].owner] = calls[s].cmd
              /\ pc[calls[s].owner] =
                   IF calls[s].kind = "ack" THEN "acking" ELSE "posting"
    /\ calls[s].kind = "ack" /\ calls[s].owner = NoDispatcher => Failed(calls[s].cmd)
    /\ calls[s].kind = "result" => calls[s].out \in seen[calls[s].cmd]
CallsLinked == \A s \in Slots : CallLinked(s)

OneCallEach ==
    \A s, t \in Slots :
      calls[s].owner = calls[t].owner /\ calls[s].owner # NoDispatcher => s = t

RowsLinked == \A c \in Commands : state[c] = "NONE" => runs[c] = 0 /\ key[c] = NoKey

Linked ==
    CallersLinked /\ DispatchersLinked /\ CallsLinked /\ OneCallEach /\ RowsLinked

\* One dispatcher at a time has the command; a confirmed ack and a run of
\* execute() have both taken it out of QUEUED and SENT.
AtMostOneEffect(c) ==
    /\ runs[c] <= 1
    /\ runs[c] > 0 => state[c] \notin Outstanding /\ \A d \in Dispatchers : ~Holds(d, c)
    /\ \A d, e \in Dispatchers : Holds(d, c) /\ Holds(e, c) => d = e
    /\ \A d \in Dispatchers :
         pc[d] = "execute" /\ cur[d] = c => state[c] \notin Outstanding
    /\ \A s \in Slots :
         calls[s].kind = "ack" /\ calls[s].cmd = c /\ calls[s].phase = "replied"
           => state[c] \notin Outstanding
OneEffect == \A c \in Commands : ~Excused(c) => AtMostOneEffect(c)

\* An ACKED command is the current one of a dispatcher whose result is still
\* to be written.
WorksOn(d, c) ==
    /\ cur[d] = c
    /\ \/ pc[d] \in {"acking", "execute"}
       \/ /\ pc[d] = "posting"
          /\ \A s \in Slots : calls[s].owner = d => calls[s].phase # "replied"
AckedIsCurrent ==
    \A c \in Commands :
      state[c] = "ACKED" /\ ~Failed(c) => \E d \in Dispatchers : WorksOn(d, c)

IInv ==
    TypeOK /\ Linked /\ OneCommandPerKey /\ ResultMeansEffect /\ OneEffect /\ AckedIsCurrent

(***************************************************************************)
(* What ExecutedInOrder needs besides.                                     *)
(***************************************************************************)
Rows == {c \in Commands : state[c] # "NONE"}

\* A new row is the youngest, and a dispatcher works on its own device's
\* commands, the oldest first.
BornInOrder == \A c \in Commands : born[c] <= Cardinality(Rows)
OwnCommands ==
    /\ \A c \in Commands : state[c] = "NONE" => target[c] = NoDevice
    /\ \A d \in Dispatchers : \A c \in todo[d] : target[c] = DeviceOf[d]
OldestFirst ==
    \A d \in Dispatchers : pc[d] \in {"acking", "execute"} => Oldest(cur[d], todo[d])

\* Nobody has the command in hand, and nobody will be given it.
Settled(c) ==
    state[c] \notin Outstanding \cup {"NONE"} /\ \A d \in Dispatchers : ~Holds(d, c)

\* Who has a younger command in hand has the older one too, or the older one is
\* over; it is over once a younger one ran.
Unordered(c) ==
    fault[c] \cap {"ack_unconfirmed", "late_mark", "overlap", "overtaken"} # {}
Older(b, c) == born[b] < born[c] /\ target[b] = target[c]
OlderGoFirst ==
    \A b, c \in Commands :
      Older(b, c) /\ ~Unordered(b) =>
        /\ runs[c] > 0 => Settled(b)
        /\ \A d \in Dispatchers : Holds(d, c) => Holds(d, b) \/ Settled(b)

OrderInv == BornInOrder /\ OwnCommands /\ OldestFirst /\ OlderGoFirst

(***************************************************************************)
(* What LivesAsPromised needs besides.                                     *)
(***************************************************************************)
\* One request makes a command, and its last update is the only late one.
MarkedOnce ==
    /\ \A r \in Callers :
         caller[r].pc \in {"push", "mark"} => "late_mark" \notin fault[caller[r].cmd]
    /\ \A q, r \in Callers :
         /\ caller[q].pc \in {"push", "mark", "audit"}
         /\ caller[r].pc \in {"push", "mark", "audit"}
         /\ caller[q].cmd = caller[r].cmd
         => q = r
    /\ \A c \in Commands : state[c] = "NONE" => "late_mark" \notin fault[c]

\* Results come from runs.
RunsCounted ==
    /\ \A c \in Commands : seen[c] # {} => runs[c] > 0
    /\ \A d \in Dispatchers : pc[d] = "posting" => runs[cur[d]] > 0

\* A result without a client was abandoned. Of a command around which nothing
\* went wrong one dispatcher posts the result, and the row has it at the end.
LateResults ==
    \A s \in Slots :
      calls[s].kind = "result" /\ calls[s].owner = NoDispatcher
        => "abandoned" \in fault[calls[s].cmd]
OnePoster ==
    \A c \in Commands : ~Astray(c) =>
      \A d, e \in Dispatchers : Posting(d, c) /\ Posting(e, c) => d = e
PostedOnce ==
    \A c \in Commands : ~Astray(c) /\ state[c] \in Completed =>
      \A s \in Slots :
        calls[s].kind = "result" /\ calls[s].cmd = c => calls[s].phase = "replied"

LifeInv == MarkedOnce /\ RunsCounted /\ LateResults /\ OnePoster /\ PostedOnce
=============================================================================
