------------------------- MODULE CommandSpineProofs -------------------------
(***************************************************************************)
(* What holds of the command spine for every number of devices, concurrent *)
(* dispatchers, requests and commands. The invariant IInv of CommandSpine  *)
(* is inductive: InvariantInit, InvariantStep; its conjuncts are preserved *)
(* one lemma each, and each lemma has one step for each action. On IInv    *)
(* rest two more: OrderInv, for the order in which commands run            *)
(* (RunInOrder), and LifeInv, for the life of a command (LifeRefinement).  *)
(***************************************************************************)
EXTENDS CommandSpine, FiniteSetTheorems, TLAPS

\* The records the actions build are callers and calls.
LEMMA RecordTypes ==
    /\ IdleCaller \in Caller
    /\ FreeSlot \in Call
    /\ \A x \in Caller, p \in {"idle", "create", "push", "mark", "audit"} :
         [x EXCEPT !.pc = p] \in Caller
    /\ \A k \in Keys, dev \in Devices :
         [IdleCaller EXCEPT !.pc = "create", !.key = k, !.dev = dev] \in Caller
    /\ \A x \in Caller, c \in Commands : [x EXCEPT !.pc = "push", !.cmd = c] \in Caller
    /\ \A x \in Caller, b \in BOOLEAN : [x EXCEPT !.pc = "mark", !.sent = b] \in Caller
    /\ \A x \in Call, p \in {"sent", "read", "replied"} : [x EXCEPT !.phase = p] \in Call
    /\ \A x \in Call : [x EXCEPT !.owner = NoDispatcher] \in Call
    /\ \A d \in Dispatchers, c \in Commands :
         [FreeSlot EXCEPT !.kind = "ack", !.owner = d, !.cmd = c] \in Call
    /\ \A d \in Dispatchers, c \in Commands, out \in Outcomes :
         [kind |-> "result", owner |-> d, cmd |-> c, out |-> out, phase |-> "sent"] \in Call
BY DEF Caller, IdleCaller, Call, FreeSlot, Outcomes

\* Answering a call leaves a call in every slot.
LEMMA AnswerType ==
    ASSUME calls \in [Slots -> Call], NEW s \in Slots, Answer(s)
    PROVE  calls' \in [Slots -> Call]
BY RecordTypes DEF Answer

\* Disowning a dispatcher's calls leaves a call in every slot.
LEMMA DisownedType ==
    ASSUME calls \in [Slots -> Call], NEW d
    PROVE  Disowned(d) \in [Slots -> Call]
BY RecordTypes DEF Disowned

\* Blaming keeps the type of fault.
LEMMA BlameType ==
    ASSUME fault \in [Commands -> SUBSET FaultKinds], NEW cs, NEW f \in FaultKinds
    PROVE  Blame(cs, f) \in [Commands -> SUBSET FaultKinds]
BY DEF Blame

\* The type invariant holds initially.
LEMMA TypeInit == Init => TypeOK
<1> SUFFICES ASSUME Init PROVE TypeOK
    OBVIOUS
<1> USE DEF Init
<1>1. state \in [Commands -> States] BY DEF States
<1>2. runs \in [Commands -> 0..RunCap] BY RunCapIsPositive
<1>3. caller \in [Callers -> Caller] BY RecordTypes
<1>4. calls \in [Slots -> Call] BY RecordTypes
<1>5. fault \in [Commands -> SUBSET FaultKinds] OBVIOUS
<1>6. key \in [Commands -> Keys \cup {NoKey}] OBVIOUS
<1>7. target \in [Commands -> Devices \cup {NoDevice}] OBVIOUS
<1>8. born \in [Commands -> Nat] OBVIOUS
<1>9. overdue \in [Commands -> BOOLEAN] OBVIOUS
<1>10. cur \in [Dispatchers -> Commands \cup {NoCommand}] OBVIOUS
<1>11. todo \in [Dispatchers -> SUBSET Commands] OBVIOUS
<1>12. seen \in [Commands -> SUBSET Outcomes] OBVIOUS
<1>13. pc \in [Dispatchers -> PcValues] BY DEF PcValues
<1> QED BY <1>1, <1>2, <1>3, <1>4, <1>5, <1>6, <1>7, <1>8, <1>9, <1>10, <1>11, <1>12,
      <1>13 DEF TypeOK

\* The place of a new row in the creation order is a natural number.
LEMMA CreatedCount ==
    1 + Cardinality({e \in Commands : state[e] # "NONE"}) \in Nat
BY CommandsAreFinite, FS_Subset, FS_CardinalityType

\* Every step keeps the types.
LEMMA TypeStep == TypeOK /\ Linked /\ [Next]_vars => TypeOK'
<1> SUFFICES ASSUME TypeOK, Linked, [Next]_vars
             PROVE  TypeOK'
    OBVIOUS
<1> USE DEF TypeOK
<1>1. ASSUME NEW r \in Callers, NEW k \in Keys, NEW dev \in Devices, Lookup(r, k, dev)
      PROVE  TypeOK'
  <2>1. caller' \in [Callers -> Caller]
      BY <1>1, RecordTypes DEF Lookup
  <2> QED
      BY <1>1, <2>1 DEF Lookup, rowVars, deviceVars, historyVars
<1>2. ASSUME NEW r \in Callers, CreateRejected(r)
      PROVE  TypeOK'
  <2>1. caller' \in [Callers -> Caller]
      BY <1>2, RecordTypes DEF CreateRejected
  <2> QED
      BY <1>2, <2>1 DEF CreateRejected, rowVars, deviceVars, historyVars
<1>3. ASSUME NEW r \in Callers, NEW b \in Commands, Create(r, b)
      PROVE  TypeOK'
  <2>1. state' \in [Commands -> States]
      BY <1>3 DEF Create, States, Outstanding
  <2>2. key' \in [Commands -> Keys \cup {NoKey}]
      BY <1>3 DEF Create, Caller
  <2>3. target' \in [Commands -> Devices \cup {NoDevice}]
      BY <1>3 DEF Create, Caller
  <2>4. born' \in [Commands -> Nat]
      BY <1>3, CreatedCount DEF Create
  <2>5. caller' \in [Callers -> Caller]
      BY <1>3, RecordTypes DEF Create
  <2> QED
      BY <1>3, <2>1, <2>2, <2>3, <2>4, <2>5 DEF Create, rowVars, deviceVars, historyVars
<1>4. ASSUME NEW r \in Callers, Push(r)
      PROVE  TypeOK'
  <2>1. caller' \in [Callers -> Caller]
    <3>1. PICK sent \in BOOLEAN :
            caller' = [caller EXCEPT ![r] = [@ EXCEPT !.pc = "mark", !.sent = sent]]
        BY <1>4 DEF Push
    <3> QED
        BY <3>1, RecordTypes
  <2> QED
      BY <1>4, <2>1 DEF Push, rowVars, deviceVars, historyVars
<1>5. ASSUME NEW r \in Callers, Mark(r)
      PROVE  TypeOK'
  <2>1. state' \in [Commands -> States]
      BY <1>5 DEF Mark, States, Outstanding
  <2>2. fault' \in [Commands -> SUBSET FaultKinds]
      BY <1>5, BlameType DEF Mark, FaultKinds
  <2>3. caller' \in [Callers -> Caller]
      BY <1>5, RecordTypes DEF Mark
  <2> QED
      BY <1>5, <2>1, <2>2, <2>3 DEF Mark, rowVars, deviceVars, historyVars
<1>6. ASSUME NEW r \in Callers, Audit(r)
      PROVE  TypeOK'
  <2>1. trail' \in SUBSET Commands
      BY <1>6 DEF Audit, Linked, CallersLinked
  <2>2. caller' \in [Callers -> Caller]
      BY <1>6, RecordTypes DEF Audit
  <2> QED
      BY <1>6, <2>1, <2>2 DEF Audit, rowVars, deviceVars, historyVars
<1>7. ASSUME NEW d \in Dispatchers, PullExpire(d)
      PROVE  TypeOK'
  <2>1. state' \in [Commands -> States]
      BY <1>7 DEF PullExpire, States
  <2>2. pc' \in [Dispatchers -> PcValues]
      BY <1>7 DEF PullExpire, PcValues
  <2> QED
      BY <1>7, <2>1, <2>2 DEF PullExpire, rowVars, deviceVars, historyVars
<1>8. ASSUME NEW d \in Dispatchers, PullFind(d)
      PROVE  TypeOK'
  <2>1. todo' \in [Dispatchers -> SUBSET Commands]
      BY <1>8 DEF PullFind, Pending
  <2>2. pc' \in [Dispatchers -> PcValues]
      BY <1>8 DEF PullFind, PcValues
  <2>3. fault' \in [Commands -> SUBSET FaultKinds]
      BY <1>8, BlameType DEF PullFind, FaultKinds
  <2> QED
      BY <1>8, <2>1, <2>2, <2>3 DEF PullFind, rowVars, deviceVars, historyVars
<1>9. ASSUME NEW d \in Dispatchers, NEW s \in Slots, NEW b \in Commands, BeginAck(d, s, b)
      PROVE  TypeOK'
  <2>1. calls' \in [Slots -> Call]
      BY <1>9, RecordTypes DEF BeginAck
  <2>2. cur' \in [Dispatchers -> Commands \cup {NoCommand}]
      BY <1>9 DEF BeginAck
  <2>3. pc' \in [Dispatchers -> PcValues]
      BY <1>9 DEF BeginAck, PcValues
  <2> QED
      BY <1>9, <2>1, <2>2, <2>3 DEF BeginAck, rowVars, deviceVars, historyVars
<1>10. ASSUME NEW d \in Dispatchers, NEW s \in Slots, NEW out \in Outcomes, Execute(d, s,
      out)
      PROVE  TypeOK'
  <2>1. runs' \in [Commands -> 0..RunCap]
    <3>1. cur[d] \in Commands
        BY <1>10 DEF Execute, Linked, DispatchersLinked
    <3>2. runs' = [runs EXCEPT ![cur[d]] =
                     IF runs[cur[d]] < RunCap THEN runs[cur[d]] + 1 ELSE runs[cur[d]]]
        BY <1>10, RunCapIsPositive DEF Execute
    <3> QED
        BY <3>1, <3>2, RunCapIsPositive
  <2>2. seen' \in [Commands -> SUBSET Outcomes]
      BY <1>10 DEF Execute
  <2>3. calls' \in [Slots -> Call]
      BY <1>10, RecordTypes DEF Execute, Linked, DispatchersLinked
  <2>4. todo' \in [Dispatchers -> SUBSET Commands]
      BY <1>10 DEF Execute
  <2>5. pc' \in [Dispatchers -> PcValues]
      BY <1>10 DEF Execute, PcValues
  <2> QED
      BY <1>10, <2>1, <2>2, <2>3, <2>4, <2>5 DEF Execute, rowVars, deviceVars, historyVars
<1>11. ASSUME NEW d \in Dispatchers, GiveUpAck(d)
      PROVE  TypeOK'
  <2>1. calls' \in [Slots -> Call]
      BY <1>11, DisownedType DEF GiveUpAck
  <2>2. fault' \in [Commands -> SUBSET FaultKinds]
      BY <1>11, BlameType DEF GiveUpAck, FaultKinds
  <2>3. pc' \in [Dispatchers -> PcValues]
      BY <1>11 DEF GiveUpAck, PcValues
  <2> QED
      BY <1>11, <2>1, <2>2, <2>3 DEF GiveUpAck, rowVars, deviceVars, historyVars
<1>12. ASSUME NEW d \in Dispatchers, GiveUpResult(d)
      PROVE  TypeOK'
  <2>1. calls' \in [Slots -> Call]
      BY <1>12, DisownedType DEF GiveUpResult
  <2>2. fault' \in [Commands -> SUBSET FaultKinds]
      BY <1>12, BlameType DEF GiveUpResult, FaultKinds
  <2>3. pc' \in [Dispatchers -> PcValues]
      BY <1>12 DEF GiveUpResult, PcValues
  <2>4. todo' \in [Dispatchers -> SUBSET Commands]
      BY <1>12 DEF GiveUpResult
  <2>5. cur' \in [Dispatchers -> Commands \cup {NoCommand}]
      BY <1>12 DEF GiveUpResult
  <2> QED
      BY <1>12, <2>1, <2>2, <2>3, <2>4, <2>5 DEF GiveUpResult, rowVars, deviceVars,
         historyVars
<1>13. ASSUME NEW d \in Dispatchers, Die(d)
      PROVE  TypeOK'
  <2>1. calls' \in [Slots -> Call]
      BY <1>13, DisownedType DEF Die
  <2>2. fault' \in [Commands -> SUBSET FaultKinds]
      BY <1>13, BlameType DEF Die, FaultKinds
  <2>3. pc' \in [Dispatchers -> PcValues]
      BY <1>13 DEF Die, PcValues
  <2>4. todo' \in [Dispatchers -> SUBSET Commands]
      BY <1>13 DEF Die
  <2>5. cur' \in [Dispatchers -> Commands \cup {NoCommand}]
      BY <1>13 DEF Die
  <2> QED
      BY <1>13, <2>1, <2>2, <2>3, <2>4, <2>5 DEF Die, rowVars, deviceVars, historyVars
<1>14. ASSUME NEW s \in Slots, ReadIgnored(s)
      PROVE  TypeOK'
  <2>1. calls' \in [Slots -> Call]
      BY <1>14, AnswerType DEF ReadIgnored
  <2> QED
      BY <1>14, <2>1 DEF ReadIgnored, rowVars, deviceVars, historyVars
<1>15. ASSUME NEW s \in Slots, Read(s)
      PROVE  TypeOK'
  <2>1. calls' \in [Slots -> Call]
      BY <1>15, RecordTypes DEF Read
  <2> QED
      BY <1>15, <2>1 DEF Read, rowVars, deviceVars, historyVars
<1>16. ASSUME NEW s \in Slots, Write(s)
      PROVE  TypeOK'
  <2>1. state' \in [Commands -> States]
      BY <1>16 DEF Write, States, Stores, Completed
  <2>2. calls' \in [Slots -> Call]
      BY <1>16, AnswerType DEF Write
  <2> QED
      BY <1>16, <2>1, <2>2 DEF Write, rowVars, deviceVars, historyVars
<1>17. ASSUME NEW s \in Slots, Reply(s)
      PROVE  TypeOK'
  <2>1. calls' \in [Slots -> Call]
      BY <1>17, RecordTypes DEF Reply
  <2>2. pc' \in [Dispatchers -> PcValues]
      BY <1>17 DEF Reply, PcValues
  <2>3. cur' \in [Dispatchers -> Commands \cup {NoCommand}]
      BY <1>17 DEF Reply
  <2> QED
      BY <1>17, <2>1, <2>2, <2>3 DEF Reply, rowVars, deviceVars, historyVars
<1>18. ASSUME NEW s \in Slots, Lose(s)
      PROVE  TypeOK'
  <2>1. calls' \in [Slots -> Call]
      BY <1>18, RecordTypes DEF Lose
  <2> QED
      BY <1>18, <2>1 DEF Lose, rowVars, deviceVars, historyVars
<1>19. ASSUME NEW b \in Commands, Lapse(b)
      PROVE  TypeOK'
  <2>1. overdue' \in [Commands -> BOOLEAN]
      BY <1>19 DEF Lapse
  <2> QED
      BY <1>19, <2>1 DEF Lapse, rowVars, deviceVars, historyVars
<1>20. ASSUME BackendCrash
      PROVE  TypeOK'
  <2>1. caller' \in [Callers -> Caller]
      BY <1>20, RecordTypes DEF BackendCrash
  <2>2. calls' \in [Slots -> Call]
      BY <1>20, RecordTypes DEF BackendCrash
  <2>3. pc' \in [Dispatchers -> PcValues]
      BY <1>20 DEF BackendCrash, PcValues
  <2> QED
      BY <1>20, <2>1, <2>2, <2>3 DEF BackendCrash, rowVars, deviceVars, historyVars
<1>21. CASE UNCHANGED vars
    BY <1>21 DEF vars, rowVars, deviceVars, historyVars
<1> QED
    BY <1>1, <1>2, <1>3, <1>4, <1>5, <1>6, <1>7, <1>8, <1>9, <1>10, <1>11, <1>12, <1>13,
       <1>14, <1>15, <1>16, <1>17, <1>18, <1>19, <1>20, <1>21 DEF Next, Enqueue,
             Dispatch, Serve

\* No step deletes a row.
LEMMA RowsStay ==
    TypeOK /\ Linked /\ [Next]_vars
      => \A c \in Commands : state[c] # "NONE" => state'[c] # "NONE"
<1> SUFFICES ASSUME TypeOK, Linked, [Next]_vars
             PROVE  \A c \in Commands : state[c] # "NONE" => state'[c] # "NONE"
    OBVIOUS
<1> USE DEF TypeOK, rowVars, deviceVars, historyVars
<1>1. ASSUME NEW r \in Callers, NEW k \in Keys, NEW dev \in Devices, Lookup(r, k, dev)
      PROVE  \A c \in Commands : state[c] # "NONE" => state'[c] # "NONE"
    BY <1>1 DEF Lookup
<1>2. ASSUME NEW r \in Callers, CreateRejected(r)
      PROVE  \A c \in Commands : state[c] # "NONE" => state'[c] # "NONE"
    BY <1>2 DEF CreateRejected
<1>3. ASSUME NEW r \in Callers, NEW b \in Commands, Create(r, b)
      PROVE  \A c \in Commands : state[c] # "NONE" => state'[c] # "NONE"
    BY <1>3 DEF Create
<1>4. ASSUME NEW r \in Callers, Push(r)
      PROVE  \A c \in Commands : state[c] # "NONE" => state'[c] # "NONE"
    BY <1>4 DEF Push
<1>5. ASSUME NEW r \in Callers, Mark(r)
      PROVE  \A c \in Commands : state[c] # "NONE" => state'[c] # "NONE"
    BY <1>5 DEF Mark, Linked, CallersLinked
<1>6. ASSUME NEW r \in Callers, Audit(r)
      PROVE  \A c \in Commands : state[c] # "NONE" => state'[c] # "NONE"
    BY <1>6 DEF Audit
<1>7. ASSUME NEW d \in Dispatchers, PullExpire(d)
      PROVE  \A c \in Commands : state[c] # "NONE" => state'[c] # "NONE"
    BY <1>7 DEF PullExpire, Stale
<1>8. ASSUME NEW d \in Dispatchers, PullFind(d)
      PROVE  \A c \in Commands : state[c] # "NONE" => state'[c] # "NONE"
    BY <1>8 DEF PullFind
<1>9. ASSUME NEW d \in Dispatchers, NEW s \in Slots, NEW b \in Commands, BeginAck(d, s, b)
      PROVE  \A c \in Commands : state[c] # "NONE" => state'[c] # "NONE"
    BY <1>9 DEF BeginAck
<1>10. ASSUME NEW d \in Dispatchers, NEW s \in Slots, NEW out \in Outcomes, Execute(d, s,
      out)
      PROVE  \A c \in Commands : state[c] # "NONE" => state'[c] # "NONE"
    BY <1>10 DEF Execute
<1>11. ASSUME NEW d \in Dispatchers, GiveUpAck(d)
      PROVE  \A c \in Commands : state[c] # "NONE" => state'[c] # "NONE"
    BY <1>11 DEF GiveUpAck
<1>12. ASSUME NEW d \in Dispatchers, GiveUpResult(d)
      PROVE  \A c \in Commands : state[c] # "NONE" => state'[c] # "NONE"
    BY <1>12 DEF GiveUpResult
<1>13. ASSUME NEW d \in Dispatchers, Die(d)
      PROVE  \A c \in Commands : state[c] # "NONE" => state'[c] # "NONE"
    BY <1>13 DEF Die
<1>14. ASSUME NEW s \in Slots, ReadIgnored(s)
      PROVE  \A c \in Commands : state[c] # "NONE" => state'[c] # "NONE"
    BY <1>14 DEF ReadIgnored
<1>15. ASSUME NEW s \in Slots, Read(s)
      PROVE  \A c \in Commands : state[c] # "NONE" => state'[c] # "NONE"
    BY <1>15 DEF Read
<1>16. ASSUME NEW s \in Slots, Write(s)
      PROVE  \A c \in Commands : state[c] # "NONE" => state'[c] # "NONE"
    BY <1>16 DEF Write, Linked, CallsLinked, CallLinked, Stores
<1>17. ASSUME NEW s \in Slots, Reply(s)
      PROVE  \A c \in Commands : state[c] # "NONE" => state'[c] # "NONE"
    BY <1>17 DEF Reply
<1>18. ASSUME NEW s \in Slots, Lose(s)
      PROVE  \A c \in Commands : state[c] # "NONE" => state'[c] # "NONE"
    BY <1>18 DEF Lose
<1>19. ASSUME NEW b \in Commands, Lapse(b)
      PROVE  \A c \in Commands : state[c] # "NONE" => state'[c] # "NONE"
    BY <1>19 DEF Lapse
<1>20. ASSUME BackendCrash
      PROVE  \A c \in Commands : state[c] # "NONE" => state'[c] # "NONE"
    BY <1>20 DEF BackendCrash
<1>21. CASE UNCHANGED vars
    BY <1>21 DEF vars, rowVars, deviceVars, historyVars
<1> QED
    BY <1>1, <1>2, <1>3, <1>4, <1>5, <1>6, <1>7, <1>8, <1>9, <1>10, <1>11, <1>12, <1>13,
       <1>14, <1>15, <1>16, <1>17, <1>18, <1>19, <1>20, <1>21 DEF Next, Enqueue,
             Dispatch, Serve

\* Every step keeps the requests to enqueue linked to their rows.
LEMMA CallersStep == TypeOK /\ Linked /\ [Next]_vars => CallersLinked'
<1> SUFFICES ASSUME TypeOK, Linked, [Next]_vars
             PROVE  CallersLinked'
    OBVIOUS
<1> USE DEF TypeOK, CallersLinked, rowVars, deviceVars, historyVars
<1>rows. \A c \in Commands : state[c] # "NONE" => state'[c] # "NONE"
    BY RowsStay
<1>old. CallersLinked
    BY DEF Linked
<1>1. ASSUME NEW r \in Callers, NEW k \in Keys, NEW dev \in Devices, Lookup(r, k, dev)
      PROVE  CallersLinked'
    BY <1>1, <1>rows, <1>old, NullsAreNew DEF Lookup, IdleCaller
<1>2. ASSUME NEW r \in Callers, CreateRejected(r)
      PROVE  CallersLinked'
    BY <1>2, <1>rows, <1>old DEF CreateRejected, IdleCaller
<1>3. ASSUME NEW r \in Callers, NEW b \in Commands, Create(r, b)
      PROVE  CallersLinked'
    BY <1>3, <1>rows, <1>old DEF Create, IdleCaller
<1>4. ASSUME NEW r \in Callers, Push(r)
      PROVE  CallersLinked'
    BY <1>4, <1>rows, <1>old DEF Push, IdleCaller
<1>5. ASSUME NEW r \in Callers, Mark(r)
      PROVE  CallersLinked'
    BY <1>5, <1>rows, <1>old DEF Mark, IdleCaller
<1>6. ASSUME NEW r \in Callers, Audit(r)
      PROVE  CallersLinked'
    BY <1>6, <1>rows, <1>old DEF Audit, IdleCaller
<1>7. ASSUME NEW d \in Dispatchers, PullExpire(d)
      PROVE  CallersLinked'
    BY <1>7, <1>rows, <1>old DEF PullExpire, IdleCaller
<1>8. ASSUME NEW d \in Dispatchers, PullFind(d)
      PROVE  CallersLinked'
    BY <1>8, <1>rows, <1>old DEF PullFind, IdleCaller
<1>9. ASSUME NEW d \in Dispatchers, NEW s \in Slots, NEW b \in Commands, BeginAck(d, s, b)
      PROVE  CallersLinked'
    BY <1>9, <1>rows, <1>old DEF BeginAck, IdleCaller
<1>10. ASSUME NEW d \in Dispatchers, NEW s \in Slots, NEW out \in Outcomes, Execute(d, s,
      out)
      PROVE  CallersLinked'
    BY <1>10, <1>rows, <1>old DEF Execute, IdleCaller
<1>11. ASSUME NEW d \in Dispatchers, GiveUpAck(d)
      PROVE  CallersLinked'
    BY <1>11, <1>rows, <1>old DEF GiveUpAck, IdleCaller
<1>12. ASSUME NEW d \in Dispatchers, GiveUpResult(d)
      PROVE  CallersLinked'
    BY <1>12, <1>rows, <1>old DEF GiveUpResult, IdleCaller
<1>13. ASSUME NEW d \in Dispatchers, Die(d)
      PROVE  CallersLinked'
    BY <1>13, <1>rows, <1>old DEF Die, IdleCaller
<1>14. ASSUME NEW s \in Slots, ReadIgnored(s)
      PROVE  CallersLinked'
    BY <1>14, <1>rows, <1>old DEF ReadIgnored, IdleCaller
<1>15. ASSUME NEW s \in Slots, Read(s)
      PROVE  CallersLinked'
    BY <1>15, <1>rows, <1>old DEF Read, IdleCaller
<1>16. ASSUME NEW s \in Slots, Write(s)
      PROVE  CallersLinked'
    BY <1>16, <1>rows, <1>old DEF Write, IdleCaller
<1>17. ASSUME NEW s \in Slots, Reply(s)
      PROVE  CallersLinked'
    BY <1>17, <1>rows, <1>old DEF Reply, IdleCaller
<1>18. ASSUME NEW s \in Slots, Lose(s)
      PROVE  CallersLinked'
    BY <1>18, <1>rows, <1>old DEF Lose, IdleCaller
<1>19. ASSUME NEW b \in Commands, Lapse(b)
      PROVE  CallersLinked'
    BY <1>19, <1>rows, <1>old DEF Lapse, IdleCaller
<1>20. ASSUME BackendCrash
      PROVE  CallersLinked'
    BY <1>20, <1>rows, <1>old DEF BackendCrash, IdleCaller
<1>21. CASE UNCHANGED vars
    BY <1>21, <1>old DEF vars, rowVars, deviceVars, historyVars
<1> QED
    BY <1>1, <1>2, <1>3, <1>4, <1>5, <1>6, <1>7, <1>8, <1>9, <1>10, <1>11, <1>12, <1>13,
       <1>14, <1>15, <1>16, <1>17, <1>18, <1>19, <1>20, <1>21 DEF Next, Enqueue,
             Dispatch, Serve

\* Every step keeps a dispatcher's list and current command linked to where it is.
LEMMA DispatchersStep == TypeOK /\ Linked /\ [Next]_vars => DispatchersLinked'
<1> SUFFICES ASSUME TypeOK, Linked, [Next]_vars
             PROVE  DispatchersLinked'
    OBVIOUS
<1> USE DEF TypeOK, DispatchersLinked, rowVars, deviceVars, historyVars
<1>rows. \A c \in Commands : state[c] # "NONE" => state'[c] # "NONE"
    BY RowsStay
<1>old. DispatchersLinked
    BY DEF Linked
<1>calls. CallsLinked
    BY DEF Linked
<1>1. ASSUME NEW r \in Callers, NEW k \in Keys, NEW dev \in Devices, Lookup(r, k, dev)
      PROVE  DispatchersLinked'
    BY <1>1, <1>rows, <1>old DEF Lookup
<1>2. ASSUME NEW r \in Callers, CreateRejected(r)
      PROVE  DispatchersLinked'
    BY <1>2, <1>rows, <1>old DEF CreateRejected
<1>3. ASSUME NEW r \in Callers, NEW b \in Commands, Create(r, b)
      PROVE  DispatchersLinked'
    BY <1>3, <1>rows, <1>old DEF Create
<1>4. ASSUME NEW r \in Callers, Push(r)
      PROVE  DispatchersLinked'
    BY <1>4, <1>rows, <1>old DEF Push
<1>5. ASSUME NEW r \in Callers, Mark(r)
      PROVE  DispatchersLinked'
    BY <1>5, <1>rows, <1>old DEF Mark
<1>6. ASSUME NEW r \in Callers, Audit(r)
      PROVE  DispatchersLinked'
    BY <1>6, <1>rows, <1>old DEF Audit
<1>7. ASSUME NEW d \in Dispatchers, PullExpire(d)
      PROVE  DispatchersLinked'
    BY <1>7, <1>rows, <1>old DEF PullExpire
<1>8. ASSUME NEW d \in Dispatchers, PullFind(d)
      PROVE  DispatchersLinked'
    BY <1>8, <1>rows, <1>old DEF PullFind, Pending, Outstanding
<1>9. ASSUME NEW d \in Dispatchers, NEW s \in Slots, NEW b \in Commands, BeginAck(d, s, b)
      PROVE  DispatchersLinked'
    BY <1>9, <1>rows, <1>old DEF BeginAck, Oldest
<1>10. ASSUME NEW d \in Dispatchers, NEW s \in Slots, NEW out \in Outcomes, Execute(d, s,
      out)
      PROVE  DispatchersLinked'
    BY <1>10, <1>rows, <1>old DEF Execute
<1>11. ASSUME NEW d \in Dispatchers, GiveUpAck(d)
      PROVE  DispatchersLinked'
    BY <1>11, <1>rows, <1>old DEF GiveUpAck
<1>12. ASSUME NEW d \in Dispatchers, GiveUpResult(d)
      PROVE  DispatchersLinked'
    BY <1>12, <1>rows, <1>old DEF GiveUpResult
<1>13. ASSUME NEW d \in Dispatchers, Die(d)
      PROVE  DispatchersLinked'
    BY <1>13, <1>rows, <1>old DEF Die
<1>14. ASSUME NEW s \in Slots, ReadIgnored(s)
      PROVE  DispatchersLinked'
    BY <1>14, <1>rows, <1>old DEF ReadIgnored
<1>15. ASSUME NEW s \in Slots, Read(s)
      PROVE  DispatchersLinked'
    BY <1>15, <1>rows, <1>old DEF Read
<1>16. ASSUME NEW s \in Slots, Write(s)
      PROVE  DispatchersLinked'
    BY <1>16, <1>rows, <1>old DEF Write
<1>17. ASSUME NEW s \in Slots, Reply(s)
      PROVE  DispatchersLinked'
    BY <1>17, <1>rows, <1>old, <1>calls DEF Reply, CallsLinked, CallLinked
<1>18. ASSUME NEW s \in Slots, Lose(s)
      PROVE  DispatchersLinked'
    BY <1>18, <1>rows, <1>old DEF Lose
<1>19. ASSUME NEW b \in Commands, Lapse(b)
      PROVE  DispatchersLinked'
    BY <1>19, <1>rows, <1>old DEF Lapse
<1>20. ASSUME BackendCrash
      PROVE  DispatchersLinked'
    BY <1>20, <1>rows, <1>old DEF BackendCrash
<1>21. CASE UNCHANGED vars
    BY <1>21, <1>old DEF vars, rowVars, deviceVars, historyVars
<1> QED
    BY <1>1, <1>2, <1>3, <1>4, <1>5, <1>6, <1>7, <1>8, <1>9, <1>10, <1>11, <1>12, <1>13,
       <1>14, <1>15, <1>16, <1>17, <1>18, <1>19, <1>20, <1>21 DEF Next, Enqueue,
             Dispatch, Serve

\* Every step keeps each ack and result request linked to its command and its owner.
LEMMA CallsStep == TypeOK /\ Linked /\ [Next]_vars => CallsLinked'
<1> SUFFICES ASSUME TypeOK, Linked, [Next]_vars
             PROVE  CallsLinked'
    OBVIOUS
<1> USE DEF TypeOK, CallsLinked, CallLinked, Failed, rowVars, deviceVars, historyVars
<1>rows. \A c \in Commands : state[c] # "NONE" => state'[c] # "NONE"
    BY RowsStay
<1>old. CallsLinked /\ OneCallEach /\ DispatchersLinked
    BY DEF Linked
<1>1. ASSUME NEW r \in Callers, NEW k \in Keys, NEW dev \in Devices, Lookup(r, k, dev)
      PROVE  CallsLinked'
    BY <1>1, <1>rows, <1>old DEF Lookup, FreeSlot
<1>2. ASSUME NEW r \in Callers, CreateRejected(r)
      PROVE  CallsLinked'
    BY <1>2, <1>rows, <1>old DEF CreateRejected, FreeSlot
<1>3. ASSUME NEW r \in Callers, NEW b \in Commands, Create(r, b)
      PROVE  CallsLinked'
    BY <1>3, <1>rows, <1>old DEF Create, FreeSlot
<1>4. ASSUME NEW r \in Callers, Push(r)
      PROVE  CallsLinked'
    BY <1>4, <1>rows, <1>old DEF Push, FreeSlot
<1>5. ASSUME NEW r \in Callers, Mark(r)
      PROVE  CallsLinked'
    BY <1>5, <1>rows, <1>old DEF Mark, Blame
<1>6. ASSUME NEW r \in Callers, Audit(r)
      PROVE  CallsLinked'
    BY <1>6, <1>rows, <1>old DEF Audit, FreeSlot
<1>7. ASSUME NEW d \in Dispatchers, PullExpire(d)
      PROVE  CallsLinked'
    BY <1>7, <1>rows, <1>old DEF PullExpire, FreeSlot
<1>8. ASSUME NEW d \in Dispatchers, PullFind(d)
      PROVE  CallsLinked'
    BY <1>8, <1>rows, <1>old DEF PullFind, Blame, DispatchersLinked
<1>9. ASSUME NEW d \in Dispatchers, NEW s \in Slots, NEW b \in Commands, BeginAck(d, s, b)
      PROVE  CallsLinked'
    BY <1>9, <1>rows, <1>old, NullsAreNew DEF BeginAck, FreeSlot, Oldest, DispatchersLinked
<1>10. ASSUME NEW d \in Dispatchers, NEW s \in Slots, NEW out \in Outcomes, Execute(d, s,
      out)
      PROVE  CallsLinked'
    BY <1>10, <1>rows, <1>old, NullsAreNew DEF Execute, FreeSlot, DispatchersLinked
<1>11. ASSUME NEW d \in Dispatchers, GiveUpAck(d)
      PROVE  CallsLinked'
  <2> SUFFICES ASSUME NEW s \in Slots
               PROVE  CallLinked(s)'
      BY DEF CallsLinked
  <2>0. CallLinked(s)
      BY <1>old
  <2>1. CASE calls[s].owner # d
    <3>1. calls'[s] = calls[s] /\ calls[s].owner # NoDispatcher =>
            pc'[calls[s].owner] = pc[calls[s].owner] /\ cur'[calls[s].owner] = cur[calls[s].owner]
        BY <1>11, <2>1 DEF GiveUpAck, Disowned, Call
    <3>2. \A c \in Commands : Failed(c) => Failed(c)'
        BY <1>11 DEF GiveUpAck, Blame
    <3>3. calls'[s] = calls[s] /\ seen' = seen
        BY <1>11, <2>1 DEF GiveUpAck, Disowned
    <3> QED
        BY <3>1, <3>2, <3>3, <2>0, <1>rows DEF CallLinked, Call
  <2>2. CASE calls[s].owner = d /\ calls[s].phase = "replied"
      BY <1>11, <2>2, NullsAreNew DEF GiveUpAck, Disowned, CallLinked, FreeSlot
  <2>3. CASE calls[s].owner = d /\ calls[s].phase # "replied"
    <3>1. calls'[s] = [calls[s] EXCEPT !.owner = NoDispatcher] /\ seen' = seen
        BY <1>11, <2>3 DEF GiveUpAck, Disowned
    <3>2. PICK c \in Commands : c = cur[d] /\ calls[s].cmd = c /\ calls[s].kind # "free"
        BY <2>0, <2>3, NullsAreNew DEF CallLinked
    <3>3. Failed(c)'
        BY <1>11, <3>2 DEF GiveUpAck, Blame, Failed
    <3>4. /\ calls'[s].kind = calls[s].kind /\ calls'[s].cmd = c
          /\ calls'[s].out = calls[s].out /\ calls'[s].phase # "replied"
          /\ calls'[s].owner = NoDispatcher
        BY <3>1, <3>2, <2>3 DEF Call
    <3>5. state'[c] # "NONE" /\ (calls[s].kind = "result" => calls[s].out \in seen[c])
        BY <3>2, <2>0, <1>rows DEF CallLinked
    <3> QED
        BY <3>1, <3>2, <3>3, <3>4, <3>5 DEF CallLinked
  <2> QED
      BY <2>1, <2>2, <2>3
<1>12. ASSUME NEW d \in Dispatchers, GiveUpResult(d)
      PROVE  CallsLinked'
  <2> SUFFICES ASSUME NEW s \in Slots
               PROVE  CallLinked(s)'
      BY DEF CallsLinked
  <2>0. CallLinked(s)
      BY <1>old
  <2>1. CASE calls[s].owner # d
    <3>1. calls'[s] = calls[s] /\ calls[s].owner # NoDispatcher =>
            pc'[calls[s].owner] = pc[calls[s].owner] /\ cur'[calls[s].owner] = cur[calls[s].owner]
        BY <1>12, <2>1 DEF GiveUpResult, Disowned, Call
    <3>2. \A c \in Commands : Failed(c) => Failed(c)'
        BY <1>12 DEF GiveUpResult, Blame
    <3>3. calls'[s] = calls[s] /\ seen' = seen
        BY <1>12, <2>1 DEF GiveUpResult, Disowned
    <3> QED
        BY <3>1, <3>2, <3>3, <2>0, <1>rows DEF CallLinked, Call
  <2>2. CASE calls[s].owner = d /\ calls[s].phase = "replied"
      BY <1>12, <2>2, NullsAreNew DEF GiveUpResult, Disowned, CallLinked, FreeSlot
  <2>3. CASE calls[s].owner = d /\ calls[s].phase # "replied"
    <3>1. calls'[s] = [calls[s] EXCEPT !.owner = NoDispatcher] /\ seen' = seen
        BY <1>12, <2>3 DEF GiveUpResult, Disowned
    <3>2. PICK c \in Commands : c = cur[d] /\ calls[s].cmd = c /\ calls[s].kind # "free"
        BY <2>0, <2>3, NullsAreNew DEF CallLinked
    <3>3. Failed(c)'
        BY <1>12, <3>2 DEF GiveUpResult, Blame, Failed
    <3>4. /\ calls'[s].kind = calls[s].kind /\ calls'[s].cmd = c
          /\ calls'[s].out = calls[s].out /\ calls'[s].phase # "replied"
          /\ calls'[s].owner = NoDispatcher
        BY <3>1, <3>2, <2>3 DEF Call
    <3>5. state'[c] # "NONE" /\ (calls[s].kind = "result" => calls[s].out \in seen[c])
        BY <3>2, <2>0, <1>rows DEF CallLinked
    <3> QED
        BY <3>1, <3>2, <3>3, <3>4, <3>5 DEF CallLinked
  <2> QED
      BY <2>1, <2>2, <2>3
<1>13. ASSUME NEW d \in Dispatchers, Die(d)
      PROVE  CallsLinked'
  <2> SUFFICES ASSUME NEW s \in Slots
               PROVE  CallLinked(s)'
      BY DEF CallsLinked
  <2>0. CallLinked(s)
      BY <1>old
  <2>1. CASE calls[s].owner # d
    <3>1. calls'[s] = calls[s] /\ calls[s].owner # NoDispatcher =>
            pc'[calls[s].owner] = pc[calls[s].owner] /\ cur'[calls[s].owner] = cur[calls[s].owner]
        BY <1>13, <2>1 DEF Die, Disowned, Call
    <3>2. \A c \in Commands : Failed(c) => Failed(c)'
        BY <1>13 DEF Die, Blame
    <3>3. calls'[s] = calls[s] /\ seen' = seen
        BY <1>13, <2>1 DEF Die, Disowned
    <3> QED
        BY <3>1, <3>2, <3>3, <2>0, <1>rows DEF CallLinked, Call
  <2>2. CASE calls[s].owner = d /\ calls[s].phase = "replied"
      BY <1>13, <2>2, NullsAreNew DEF Die, Disowned, CallLinked, FreeSlot
  <2>3. CASE calls[s].owner = d /\ calls[s].phase # "replied"
    <3>1. calls'[s] = [calls[s] EXCEPT !.owner = NoDispatcher] /\ seen' = seen
        BY <1>13, <2>3 DEF Die, Disowned
    <3>2. PICK c \in Commands : c = cur[d] /\ calls[s].cmd = c /\ calls[s].kind # "free"
        BY <2>0, <2>3, NullsAreNew DEF CallLinked
    <3>3. Failed(c)'
        BY <1>13, <3>2 DEF Die, Blame, Failed
    <3>4. /\ calls'[s].kind = calls[s].kind /\ calls'[s].cmd = c
          /\ calls'[s].out = calls[s].out /\ calls'[s].phase # "replied"
          /\ calls'[s].owner = NoDispatcher
        BY <3>1, <3>2, <2>3 DEF Call
    <3>5. state'[c] # "NONE" /\ (calls[s].kind = "result" => calls[s].out \in seen[c])
        BY <3>2, <2>0, <1>rows DEF CallLinked
    <3> QED
        BY <3>1, <3>2, <3>3, <3>4, <3>5 DEF CallLinked
  <2> QED
      BY <2>1, <2>2, <2>3
<1>14. ASSUME NEW s \in Slots, ReadIgnored(s)
      PROVE  CallsLinked'
    BY <1>14, <1>rows, <1>old DEF ReadIgnored, FreeSlot, Answer
<1>15. ASSUME NEW s \in Slots, Read(s)
      PROVE  CallsLinked'
    BY <1>15, <1>rows, <1>old DEF Read, FreeSlot
<1>16. ASSUME NEW s \in Slots, Write(s)
      PROVE  CallsLinked'
    BY <1>16, <1>rows, <1>old DEF Write, FreeSlot, Answer
<1>17. ASSUME NEW s \in Slots, Reply(s)
      PROVE  CallsLinked'
  <2> SUFFICES ASSUME NEW t \in Slots
               PROVE  CallLinked(t)'
      BY DEF CallsLinked
  <2>0. CallLinked(t) /\ CallLinked(s)
      BY <1>old
  <2>1. CASE t = s
      BY <1>17, <2>1 DEF Reply, CallLinked, FreeSlot
  <2>2. CASE t # s
    <3>1. calls'[t] = calls[t] /\ seen' = seen /\ fault' = fault /\ state' = state
        BY <1>17, <2>2 DEF Reply
    <3>2. calls[t].owner # NoDispatcher => calls[t].owner # calls[s].owner
        BY <2>2, <1>old DEF OneCallEach
    <3>3. calls[t].owner # NoDispatcher =>
            pc'[calls[t].owner] = pc[calls[t].owner] /\ cur'[calls[t].owner] = cur[calls[t].owner]
        BY <1>17, <3>2 DEF Reply, Call
    <3> QED
        BY <3>1, <3>3, <2>0 DEF CallLinked
  <2> QED
      BY <2>1, <2>2
<1>18. ASSUME NEW s \in Slots, Lose(s)
      PROVE  CallsLinked'
    BY <1>18, <1>rows, <1>old DEF Lose, FreeSlot
<1>19. ASSUME NEW b \in Commands, Lapse(b)
      PROVE  CallsLinked'
    BY <1>19, <1>rows, <1>old DEF Lapse, FreeSlot
<1>20. ASSUME BackendCrash
      PROVE  CallsLinked'
    BY <1>20, <1>rows, <1>old DEF BackendCrash, FreeSlot
<1>21. CASE UNCHANGED vars
    BY <1>21, <1>old DEF vars, rowVars, deviceVars, historyVars
<1> QED
    BY <1>1, <1>2, <1>3, <1>4, <1>5, <1>6, <1>7, <1>8, <1>9, <1>10, <1>11, <1>12, <1>13,
       <1>14, <1>15, <1>16, <1>17, <1>18, <1>19, <1>20, <1>21 DEF Next, Enqueue,
             Dispatch, Serve

\* No step gives a dispatcher a second call.
LEMMA OneCallStep == TypeOK /\ Linked /\ [Next]_vars => OneCallEach'
<1> SUFFICES ASSUME TypeOK, Linked, [Next]_vars
             PROVE  OneCallEach'
    OBVIOUS
<1> USE DEF TypeOK, OneCallEach, rowVars, deviceVars, historyVars
<1>old. CallsLinked /\ OneCallEach /\ DispatchersLinked
    BY DEF Linked
<1>1. ASSUME NEW r \in Callers, NEW k \in Keys, NEW dev \in Devices, Lookup(r, k, dev)
      PROVE  OneCallEach'
    BY <1>1, <1>old DEF Lookup, FreeSlot
<1>2. ASSUME NEW r \in Callers, CreateRejected(r)
      PROVE  OneCallEach'
    BY <1>2, <1>old DEF CreateRejected, FreeSlot
<1>3. ASSUME NEW r \in Callers, NEW b \in Commands, Create(r, b)
      PROVE  OneCallEach'
    BY <1>3, <1>old DEF Create, FreeSlot
<1>4. ASSUME NEW r \in Callers, Push(r)
      PROVE  OneCallEach'
    BY <1>4, <1>old DEF Push, FreeSlot
<1>5. ASSUME NEW r \in Callers, Mark(r)
      PROVE  OneCallEach'
    BY <1>5, <1>old DEF Mark, FreeSlot
<1>6. ASSUME NEW r \in Callers, Audit(r)
      PROVE  OneCallEach'
    BY <1>6, <1>old DEF Audit, FreeSlot
<1>7. ASSUME NEW d \in Dispatchers, PullExpire(d)
      PROVE  OneCallEach'
    BY <1>7, <1>old DEF PullExpire, FreeSlot
<1>8. ASSUME NEW d \in Dispatchers, PullFind(d)
      PROVE  OneCallEach'
    BY <1>8, <1>old DEF PullFind, FreeSlot
<1>9. ASSUME NEW d \in Dispatchers, NEW s \in Slots, NEW b \in Commands, BeginAck(d, s, b)
      PROVE  OneCallEach'
    BY <1>9, <1>old DEF BeginAck, FreeSlot, CallsLinked, CallLinked
<1>10. ASSUME NEW d \in Dispatchers, NEW s \in Slots, NEW out \in Outcomes, Execute(d, s,
      out)
      PROVE  OneCallEach'
    BY <1>10, <1>old DEF Execute, FreeSlot, CallsLinked, CallLinked
<1>11. ASSUME NEW d \in Dispatchers, GiveUpAck(d)
      PROVE  OneCallEach'
    BY <1>11, <1>old DEF GiveUpAck, FreeSlot, Disowned
<1>12. ASSUME NEW d \in Dispatchers, GiveUpResult(d)
      PROVE  OneCallEach'
    BY <1>12, <1>old DEF GiveUpResult, FreeSlot, Disowned
<1>13. ASSUME NEW d \in Dispatchers, Die(d)
      PROVE  OneCallEach'
    BY <1>13, <1>old DEF Die, FreeSlot, Disowned
<1>14. ASSUME NEW s \in Slots, ReadIgnored(s)
      PROVE  OneCallEach'
    BY <1>14, <1>old DEF ReadIgnored, FreeSlot, Answer
<1>15. ASSUME NEW s \in Slots, Read(s)
      PROVE  OneCallEach'
    BY <1>15, <1>old DEF Read, FreeSlot
<1>16. ASSUME NEW s \in Slots, Write(s)
      PROVE  OneCallEach'
    BY <1>16, <1>old DEF Write, FreeSlot, Answer
<1>17. ASSUME NEW s \in Slots, Reply(s)
      PROVE  OneCallEach'
    BY <1>17, <1>old DEF Reply, FreeSlot
<1>18. ASSUME NEW s \in Slots, Lose(s)
      PROVE  OneCallEach'
    BY <1>18, <1>old DEF Lose, FreeSlot
<1>19. ASSUME NEW b \in Commands, Lapse(b)
      PROVE  OneCallEach'
    BY <1>19, <1>old DEF Lapse, FreeSlot
<1>20. ASSUME BackendCrash
      PROVE  OneCallEach'
    BY <1>20, <1>old DEF BackendCrash, FreeSlot
<1>21. CASE UNCHANGED vars
    BY <1>21, <1>old DEF vars, rowVars, deviceVars, historyVars
<1> QED
    BY <1>1, <1>2, <1>3, <1>4, <1>5, <1>6, <1>7, <1>8, <1>9, <1>10, <1>11, <1>12, <1>13,
       <1>14, <1>15, <1>16, <1>17, <1>18, <1>19, <1>20, <1>21 DEF Next, Enqueue,
             Dispatch, Serve

\* A row that does not exist yet has neither key nor runs.
LEMMA RowsStep == TypeOK /\ Linked /\ [Next]_vars => RowsLinked'
<1> SUFFICES ASSUME TypeOK, Linked, [Next]_vars
             PROVE  RowsLinked'
    OBVIOUS
<1> USE DEF TypeOK, RowsLinked, rowVars, deviceVars, historyVars
<1>old. RowsLinked /\ DispatchersLinked
    BY DEF Linked
<1>rows. \A c \in Commands : state[c] # "NONE" => state'[c] # "NONE"
    BY RowsStay
<1>1. ASSUME NEW r \in Callers, NEW k \in Keys, NEW dev \in Devices, Lookup(r, k, dev)
      PROVE  RowsLinked'
    BY <1>1, <1>rows, <1>old DEF Lookup
<1>2. ASSUME NEW r \in Callers, CreateRejected(r)
      PROVE  RowsLinked'
    BY <1>2, <1>rows, <1>old DEF CreateRejected
<1>3. ASSUME NEW r \in Callers, NEW b \in Commands, Create(r, b)
      PROVE  RowsLinked'
    BY <1>3, <1>rows, <1>old DEF Create
<1>4. ASSUME NEW r \in Callers, Push(r)
      PROVE  RowsLinked'
    BY <1>4, <1>rows, <1>old DEF Push
<1>5. ASSUME NEW r \in Callers, Mark(r)
      PROVE  RowsLinked'
    BY <1>5, <1>old DEF Mark, Linked, CallersLinked
<1>6. ASSUME NEW r \in Callers, Audit(r)
      PROVE  RowsLinked'
    BY <1>6, <1>rows, <1>old DEF Audit
<1>7. ASSUME NEW d \in Dispatchers, PullExpire(d)
      PROVE  RowsLinked'
    BY <1>7, <1>old DEF PullExpire, Stale, Outstanding
<1>8. ASSUME NEW d \in Dispatchers, PullFind(d)
      PROVE  RowsLinked'
    BY <1>8, <1>rows, <1>old DEF PullFind
<1>9. ASSUME NEW d \in Dispatchers, NEW s \in Slots, NEW b \in Commands, BeginAck(d, s, b)
      PROVE  RowsLinked'
    BY <1>9, <1>rows, <1>old DEF BeginAck
<1>10. ASSUME NEW d \in Dispatchers, NEW s \in Slots, NEW out \in Outcomes, Execute(d, s,
      out)
      PROVE  RowsLinked'
    BY <1>10, <1>rows, <1>old DEF Execute, DispatchersLinked
<1>11. ASSUME NEW d \in Dispatchers, GiveUpAck(d)
      PROVE  RowsLinked'
    BY <1>11, <1>rows, <1>old DEF GiveUpAck
<1>12. ASSUME NEW d \in Dispatchers, GiveUpResult(d)
      PROVE  RowsLinked'
    BY <1>12, <1>rows, <1>old DEF GiveUpResult
<1>13. ASSUME NEW d \in Dispatchers, Die(d)
      PROVE  RowsLinked'
    BY <1>13, <1>rows, <1>old DEF Die
<1>14. ASSUME NEW s \in Slots, ReadIgnored(s)
      PROVE  RowsLinked'
    BY <1>14, <1>rows, <1>old DEF ReadIgnored
<1>15. ASSUME NEW s \in Slots, Read(s)
      PROVE  RowsLinked'
    BY <1>15, <1>rows, <1>old DEF Read
<1>16. ASSUME NEW s \in Slots, Write(s)
      PROVE  RowsLinked'
    BY <1>16, <1>old DEF Write, Linked, CallsLinked, CallLinked, Stores
<1>17. ASSUME NEW s \in Slots, Reply(s)
      PROVE  RowsLinked'
    BY <1>17, <1>rows, <1>old DEF Reply
<1>18. ASSUME NEW s \in Slots, Lose(s)
      PROVE  RowsLinked'
    BY <1>18, <1>rows, <1>old DEF Lose
<1>19. ASSUME NEW b \in Commands, Lapse(b)
      PROVE  RowsLinked'
    BY <1>19, <1>rows, <1>old DEF Lapse
<1>20. ASSUME BackendCrash
      PROVE  RowsLinked'
    BY <1>20, <1>rows, <1>old DEF BackendCrash
<1>21. CASE UNCHANGED vars
    BY <1>21, <1>old DEF vars, rowVars, deviceVars, historyVars
<1> QED
    BY <1>1, <1>2, <1>3, <1>4, <1>5, <1>6, <1>7, <1>8, <1>9, <1>10, <1>11, <1>12, <1>13,
       <1>14, <1>15, <1>16, <1>17, <1>18, <1>19, <1>20, <1>21 DEF Next, Enqueue,
             Dispatch, Serve

\* The unique index keeps keys apart.
LEMMA KeyStep == TypeOK /\ Linked /\ OneCommandPerKey /\ [Next]_vars => OneCommandPerKey'
<1> SUFFICES ASSUME TypeOK, Linked, OneCommandPerKey, [Next]_vars
             PROVE  OneCommandPerKey'
    OBVIOUS
<1> USE DEF TypeOK, OneCommandPerKey, rowVars, deviceVars, historyVars
<1>1. ASSUME NEW r \in Callers, NEW k \in Keys, NEW dev \in Devices, Lookup(r, k, dev)
      PROVE  OneCommandPerKey'
    BY <1>1 DEF Lookup
<1>2. ASSUME NEW r \in Callers, CreateRejected(r)
      PROVE  OneCommandPerKey'
    BY <1>2 DEF CreateRejected
<1>3. ASSUME NEW r \in Callers, NEW b \in Commands, Create(r, b)
      PROVE  OneCommandPerKey'
    BY <1>3, NullsAreNew DEF Create, IndexAdmits, KeyTaken, Caller
<1>4. ASSUME NEW r \in Callers, Push(r)
      PROVE  OneCommandPerKey'
    BY <1>4 DEF Push
<1>5. ASSUME NEW r \in Callers, Mark(r)
      PROVE  OneCommandPerKey'
    BY <1>5 DEF Mark
<1>6. ASSUME NEW r \in Callers, Audit(r)
      PROVE  OneCommandPerKey'
    BY <1>6 DEF Audit
<1>7. ASSUME NEW d \in Dispatchers, PullExpire(d)
      PROVE  OneCommandPerKey'
    BY <1>7 DEF PullExpire
<1>8. ASSUME NEW d \in Dispatchers, PullFind(d)
      PROVE  OneCommandPerKey'
    BY <1>8 DEF PullFind
<1>9. ASSUME NEW d \in Dispatchers, NEW s \in Slots, NEW b \in Commands, BeginAck(d, s, b)
      PROVE  OneCommandPerKey'
    BY <1>9 DEF BeginAck
<1>10. ASSUME NEW d \in Dispatchers, NEW s \in Slots, NEW out \in Outcomes, Execute(d, s,
      out)
      PROVE  OneCommandPerKey'
    BY <1>10 DEF Execute
<1>11. ASSUME NEW d \in Dispatchers, GiveUpAck(d)
      PROVE  OneCommandPerKey'
    BY <1>11 DEF GiveUpAck
<1>12. ASSUME NEW d \in Dispatchers, GiveUpResult(d)
      PROVE  OneCommandPerKey'
    BY <1>12 DEF GiveUpResult
<1>13. ASSUME NEW d \in Dispatchers, Die(d)
      PROVE  OneCommandPerKey'
    BY <1>13 DEF Die
<1>14. ASSUME NEW s \in Slots, ReadIgnored(s)
      PROVE  OneCommandPerKey'
    BY <1>14 DEF ReadIgnored
<1>15. ASSUME NEW s \in Slots, Read(s)
      PROVE  OneCommandPerKey'
    BY <1>15 DEF Read
<1>16. ASSUME NEW s \in Slots, Write(s)
      PROVE  OneCommandPerKey'
    BY <1>16 DEF Write
<1>17. ASSUME NEW s \in Slots, Reply(s)
      PROVE  OneCommandPerKey'
    BY <1>17 DEF Reply
<1>18. ASSUME NEW s \in Slots, Lose(s)
      PROVE  OneCommandPerKey'
    BY <1>18 DEF Lose
<1>19. ASSUME NEW b \in Commands, Lapse(b)
      PROVE  OneCommandPerKey'
    BY <1>19 DEF Lapse
<1>20. ASSUME BackendCrash
      PROVE  OneCommandPerKey'
    BY <1>20 DEF BackendCrash
<1>21. CASE UNCHANGED vars
    BY <1>21 DEF vars, rowVars, deviceVars, historyVars
<1> QED
    BY <1>1, <1>2, <1>3, <1>4, <1>5, <1>6, <1>7, <1>8, <1>9, <1>10, <1>11, <1>12, <1>13,
       <1>14, <1>15, <1>16, <1>17, <1>18, <1>19, <1>20, <1>21 DEF Next, Enqueue,
             Dispatch, Serve

\* No step stores a result that did not happen.
LEMMA ResultStep == TypeOK /\ Linked /\ ResultMeansEffect /\ [Next]_vars => ResultMeansEffect'
<1> SUFFICES ASSUME TypeOK, Linked, ResultMeansEffect, [Next]_vars
             PROVE  ResultMeansEffect'
    OBVIOUS
<1> USE DEF TypeOK, ResultMeansEffect, rowVars, deviceVars, historyVars
<1>1. ASSUME NEW r \in Callers, NEW k \in Keys, NEW dev \in Devices, Lookup(r, k, dev)
      PROVE  ResultMeansEffect'
    BY <1>1 DEF Lookup
<1>2. ASSUME NEW r \in Callers, CreateRejected(r)
      PROVE  ResultMeansEffect'
    BY <1>2 DEF CreateRejected
<1>3. ASSUME NEW r \in Callers, NEW b \in Commands, Create(r, b)
      PROVE  ResultMeansEffect'
    BY <1>3 DEF Create
<1>4. ASSUME NEW r \in Callers, Push(r)
      PROVE  ResultMeansEffect'
    BY <1>4 DEF Push
<1>5. ASSUME NEW r \in Callers, Mark(r)
      PROVE  ResultMeansEffect'
    BY <1>5 DEF Mark
<1>6. ASSUME NEW r \in Callers, Audit(r)
      PROVE  ResultMeansEffect'
    BY <1>6 DEF Audit
<1>7. ASSUME NEW d \in Dispatchers, PullExpire(d)
      PROVE  ResultMeansEffect'
    BY <1>7 DEF PullExpire
<1>8. ASSUME NEW d \in Dispatchers, PullFind(d)
      PROVE  ResultMeansEffect'
    BY <1>8 DEF PullFind
<1>9. ASSUME NEW d \in Dispatchers, NEW s \in Slots, NEW b \in Commands, BeginAck(d, s, b)
      PROVE  ResultMeansEffect'
    BY <1>9 DEF BeginAck
<1>10. ASSUME NEW d \in Dispatchers, NEW s \in Slots, NEW out \in Outcomes, Execute(d, s,
      out)
      PROVE  ResultMeansEffect'
    BY <1>10 DEF Execute
<1>11. ASSUME NEW d \in Dispatchers, GiveUpAck(d)
      PROVE  ResultMeansEffect'
    BY <1>11 DEF GiveUpAck
<1>12. ASSUME NEW d \in Dispatchers, GiveUpResult(d)
      PROVE  ResultMeansEffect'
    BY <1>12 DEF GiveUpResult
<1>13. ASSUME NEW d \in Dispatchers, Die(d)
      PROVE  ResultMeansEffect'
    BY <1>13 DEF Die
<1>14. ASSUME NEW s \in Slots, ReadIgnored(s)
      PROVE  ResultMeansEffect'
    BY <1>14 DEF ReadIgnored
<1>15. ASSUME NEW s \in Slots, Read(s)
      PROVE  ResultMeansEffect'
    BY <1>15 DEF Read
<1>16. ASSUME NEW s \in Slots, Write(s)
      PROVE  ResultMeansEffect'
    BY <1>16 DEF Write, Linked, CallsLinked, CallLinked, Stores, Call, Outcomes
<1>17. ASSUME NEW s \in Slots, Reply(s)
      PROVE  ResultMeansEffect'
    BY <1>17 DEF Reply
<1>18. ASSUME NEW s \in Slots, Lose(s)
      PROVE  ResultMeansEffect'
    BY <1>18 DEF Lose
<1>19. ASSUME NEW b \in Commands, Lapse(b)
      PROVE  ResultMeansEffect'
    BY <1>19 DEF Lapse
<1>20. ASSUME BackendCrash
      PROVE  ResultMeansEffect'
    BY <1>20 DEF BackendCrash
<1>21. CASE UNCHANGED vars
    BY <1>21 DEF vars, rowVars, deviceVars, historyVars
<1> QED
    BY <1>1, <1>2, <1>3, <1>4, <1>5, <1>6, <1>7, <1>8, <1>9, <1>10, <1>11, <1>12, <1>13,
       <1>14, <1>15, <1>16, <1>17, <1>18, <1>19, <1>20, <1>21 DEF Next, Enqueue,
             Dispatch, Serve

\* What keeps a command from being executed twice is preserved.
LEMMA OneEffectStep == TypeOK /\ Linked /\ OneEffect /\ [Next]_vars => OneEffect'
<1> SUFFICES ASSUME TypeOK, Linked, OneEffect, [Next]_vars
             PROVE  OneEffect'
    OBVIOUS
<1> USE DEF TypeOK, OneEffect, AtMostOneEffect, Excused, Holds, rowVars, deviceVars,
      historyVars
<1>1. ASSUME NEW r \in Callers, NEW k \in Keys, NEW dev \in Devices, Lookup(r, k, dev)
      PROVE  OneEffect'
    BY <1>1 DEF Lookup, FreeSlot
<1>2. ASSUME NEW r \in Callers, CreateRejected(r)
      PROVE  OneEffect'
    BY <1>2 DEF CreateRejected, FreeSlot
<1>3. ASSUME NEW r \in Callers, NEW b \in Commands, Create(r, b)
      PROVE  OneEffect'
    BY <1>3 DEF Create, Linked, RowsLinked, DispatchersLinked, CallsLinked, CallLinked,
       FreeSlot
<1>4. ASSUME NEW r \in Callers, Push(r)
      PROVE  OneEffect'
    BY <1>4 DEF Push, FreeSlot
<1>5. ASSUME NEW r \in Callers, Mark(r)
      PROVE  OneEffect'
    BY <1>5 DEF Mark, Blame
<1>6. ASSUME NEW r \in Callers, Audit(r)
      PROVE  OneEffect'
    BY <1>6 DEF Audit, FreeSlot
<1>7. ASSUME NEW d \in Dispatchers, PullExpire(d)
      PROVE  OneEffect'
    BY <1>7 DEF PullExpire, Stale, Outstanding
<1>8. ASSUME NEW d \in Dispatchers, PullFind(d)
      PROVE  OneEffect'
  <2>1. \A c \in Commands : ~Excused(c)' => ~Excused(c)
      BY <1>8 DEF PullFind
  <2>2. ASSUME NEW c \in Commands, ~Excused(c)', c \in Pending(DeviceOf[d]),
               NEW e \in Dispatchers
        PROVE  c \notin todo[e]
      BY <1>8, <2>2 DEF PullFind
  <2>3. ASSUME NEW c \in Commands, NEW e \in Dispatchers, c \in todo'[e], c \notin todo[e]
        PROVE  e = d /\ c \in Pending(DeviceOf[d])
      BY <1>8, <2>3 DEF PullFind
  <2>4. ASSUME NEW c \in Commands, ~Excused(c)'
        PROVE  AtMostOneEffect(c)'
    <3>1. AtMostOneEffect(c)
        BY <2>1, <2>4
    <3>2. /\ UNCHANGED <<runs, state, calls, cur>>
          /\ \A e \in Dispatchers : pc'[e] = "execute" => pc[e] = "execute"
        BY <1>8 DEF PullFind
    <3>3. runs[c] > 0 => \A e \in Dispatchers : c \notin todo'[e]
        BY <2>3, <3>1 DEF Pending
    <3>4. \A e, f \in Dispatchers : c \in todo'[e] /\ c \in todo'[f] => e = f
        BY <2>2, <2>3, <2>4, <3>1
    <3> QED
        BY <3>1, <3>2, <3>3, <3>4
  <2> QED
      BY <2>4
<1>9. ASSUME NEW d \in Dispatchers, NEW s \in Slots, NEW b \in Commands, BeginAck(d, s, b)
      PROVE  OneEffect'
    BY <1>9 DEF BeginAck, FreeSlot
<1>10. ASSUME NEW d \in Dispatchers, NEW s \in Slots, NEW out \in Outcomes, Execute(d, s,
      out)
      PROVE  OneEffect'
    BY <1>10 DEF Execute, Linked, DispatchersLinked
<1>11. ASSUME NEW d \in Dispatchers, GiveUpAck(d)
      PROVE  OneEffect'
  <2> SUFFICES ASSUME NEW c \in Commands, ~Excused(c)'
               PROVE  AtMostOneEffect(c)'
      BY <1>11
  <2>1. ~Excused(c) /\ c # cur[d]
      BY <1>11 DEF GiveUpAck, Blame
  <2>2. AtMostOneEffect(c)
      BY <2>1
  <2>3. \A t \in Slots : calls'[t].phase = "replied" => calls'[t] = calls[t]
      BY <1>11 DEF GiveUpAck, Disowned, FreeSlot, Call
  <2> QED
      BY <1>11, <2>1, <2>2, <2>3 DEF GiveUpAck
<1>12. ASSUME NEW d \in Dispatchers, GiveUpResult(d)
      PROVE  OneEffect'
    BY <1>12 DEF GiveUpResult, Blame, Disowned, FreeSlot
<1>13. ASSUME NEW d \in Dispatchers, Die(d)
      PROVE  OneEffect'
    BY <1>13 DEF Die, Blame, Disowned, FreeSlot
<1>14. ASSUME NEW s \in Slots, ReadIgnored(s)
      PROVE  OneEffect'
  <2> SUFFICES ASSUME NEW c \in Commands, ~Excused(c)
               PROVE  AtMostOneEffect(c)'
      BY <1>14 DEF ReadIgnored
  <2>0. AtMostOneEffect(c)
      OBVIOUS
  <2>1. \A t \in Slots : calls'[t].kind = "ack" /\ calls'[t].phase = "replied" =>
           /\ calls'[t].cmd = calls[t].cmd
           /\ t # s => calls'[t] = calls[t]
           /\ t = s => calls[s].kind = "ack"
      BY <1>14 DEF ReadIgnored, Answer, FreeSlot, Call
  <2>2. calls[s].kind = "ack" /\ calls[s].cmd = c => state[c] \notin Outstanding
      BY <1>14 DEF ReadIgnored, Ignores
  <2> QED
      BY <1>14, <2>0, <2>1, <2>2 DEF ReadIgnored
<1>15. ASSUME NEW s \in Slots, Read(s)
      PROVE  OneEffect'
    BY <1>15 DEF Read, FreeSlot
<1>16. ASSUME NEW s \in Slots, Write(s)
      PROVE  OneEffect'
  <2> SUFFICES ASSUME NEW c \in Commands, ~Excused(c)
               PROVE  AtMostOneEffect(c)'
      BY <1>16 DEF Write
  <2>0. AtMostOneEffect(c)
      OBVIOUS
  <2>1. state'[c] = state[c] \/ state'[c] \notin Outstanding
      BY <1>16 DEF Write, Stores, Outstanding
  <2>2. \A t \in Slots : calls'[t].kind = "ack" /\ calls'[t].phase = "replied" =>
           calls'[t].cmd = calls[t].cmd /\ (t # s => calls'[t] = calls[t])
      BY <1>16 DEF Write, Answer, FreeSlot, Call
  <2>3. calls[s].cmd = c => state'[c] \notin Outstanding
      BY <1>16 DEF Write, Stores, Outstanding
  <2> QED
      BY <1>16, <2>0, <2>1, <2>2, <2>3 DEF Write
<1>17. ASSUME NEW s \in Slots, Reply(s)
      PROVE  OneEffect'
    BY <1>17 DEF Reply, Linked, CallsLinked, CallLinked, FreeSlot
<1>18. ASSUME NEW s \in Slots, Lose(s)
      PROVE  OneEffect'
    BY <1>18 DEF Lose, FreeSlot
<1>19. ASSUME NEW b \in Commands, Lapse(b)
      PROVE  OneEffect'
    BY <1>19 DEF Lapse, FreeSlot
<1>20. ASSUME BackendCrash
      PROVE  OneEffect'
    BY <1>20 DEF BackendCrash, FreeSlot
<1>21. CASE UNCHANGED vars
    BY <1>21 DEF vars, rowVars, deviceVars, historyVars
<1> QED
    BY <1>1, <1>2, <1>3, <1>4, <1>5, <1>6, <1>7, <1>8, <1>9, <1>10, <1>11, <1>12, <1>13,
       <1>14, <1>15, <1>16, <1>17, <1>18, <1>19, <1>20, <1>21 DEF Next, Enqueue,
             Dispatch, Serve

\* An ACKED command stays the current command of a dispatcher.
LEMMA CurrentStep == TypeOK /\ Linked /\ AckedIsCurrent /\ [Next]_vars => AckedIsCurrent'
<1> SUFFICES ASSUME TypeOK, Linked, AckedIsCurrent, [Next]_vars
             PROVE  AckedIsCurrent'
    OBVIOUS
<1> USE DEF TypeOK, AckedIsCurrent, WorksOn, Failed, rowVars, deviceVars, historyVars
<1>old. CallsLinked /\ OneCallEach /\ DispatchersLinked
    BY DEF Linked
<1>1. ASSUME NEW r \in Callers, NEW k \in Keys, NEW dev \in Devices, Lookup(r, k, dev)
      PROVE  AckedIsCurrent'
    BY <1>1 DEF Lookup, FreeSlot
<1>2. ASSUME NEW r \in Callers, CreateRejected(r)
      PROVE  AckedIsCurrent'
    BY <1>2 DEF CreateRejected, FreeSlot
<1>3. ASSUME NEW r \in Callers, NEW b \in Commands, Create(r, b)
      PROVE  AckedIsCurrent'
    BY <1>3 DEF Create, FreeSlot
<1>4. ASSUME NEW r \in Callers, Push(r)
      PROVE  AckedIsCurrent'
    BY <1>4 DEF Push, FreeSlot
<1>5. ASSUME NEW r \in Callers, Mark(r)
      PROVE  AckedIsCurrent'
    BY <1>5 DEF Mark, Blame, Outstanding
<1>6. ASSUME NEW r \in Callers, Audit(r)
      PROVE  AckedIsCurrent'
    BY <1>6 DEF Audit, FreeSlot
<1>7. ASSUME NEW d \in Dispatchers, PullExpire(d)
      PROVE  AckedIsCurrent'
    BY <1>7 DEF PullExpire, Stale, Outstanding
<1>8. ASSUME NEW d \in Dispatchers, PullFind(d)
      PROVE  AckedIsCurrent'
    BY <1>8 DEF PullFind, Pending, Blame, FreeSlot
<1>9. ASSUME NEW d \in Dispatchers, NEW s \in Slots, NEW b \in Commands, BeginAck(d, s, b)
      PROVE  AckedIsCurrent'
    BY <1>9 DEF BeginAck, FreeSlot
<1>10. ASSUME NEW d \in Dispatchers, NEW s \in Slots, NEW out \in Outcomes, Execute(d, s,
      out)
      PROVE  AckedIsCurrent'
  <2> SUFFICES ASSUME NEW c \in Commands, state'[c] = "ACKED", ~Failed(c)'
               PROVE  \E e \in Dispatchers : WorksOn(e, c)'
      OBVIOUS
  <2>1. PICK e \in Dispatchers : WorksOn(e, c)
      BY <1>10 DEF Execute
  <2>2. \A t \in Slots : calls[t].owner # d
      BY <1>10, <1>old, NullsAreNew DEF Execute, CallsLinked, CallLinked
  <2>3. \A t \in Slots : IF t = s THEN calls'[t].owner = d /\ calls'[t].phase = "sent"
                         ELSE calls'[t] = calls[t]
      BY <1>10 DEF Execute
  <2>4. CASE e = d
      BY <1>10, <2>1, <2>2, <2>3, <2>4 DEF Execute
  <2>5. CASE e # d
      BY <1>10, <2>1, <2>3, <2>5 DEF Execute
  <2> QED
      BY <2>4, <2>5
<1>11. ASSUME NEW d \in Dispatchers, GiveUpAck(d)
      PROVE  AckedIsCurrent'
  <2> SUFFICES ASSUME NEW c \in Commands, state'[c] = "ACKED", ~Failed(c)'
               PROVE  \E e \in Dispatchers : WorksOn(e, c)'
      OBVIOUS
  <2>1. state[c] = "ACKED" /\ ~Failed(c) /\ c # cur[d]
      BY <1>11 DEF GiveUpAck, Blame
  <2>2. PICK e \in Dispatchers : WorksOn(e, c)
      BY <2>1
  <2>3. e # d
      BY <2>1, <2>2
  <2>4. \A s \in Slots : calls'[s].owner = e => calls'[s] = calls[s]
      BY <1>11, <2>3, NullsAreNew DEF GiveUpAck, Disowned, FreeSlot, Call
  <2> QED
      BY <1>11, <2>2, <2>3, <2>4 DEF GiveUpAck
<1>12. ASSUME NEW d \in Dispatchers, GiveUpResult(d)
      PROVE  AckedIsCurrent'
  <2> SUFFICES ASSUME NEW c \in Commands, state'[c] = "ACKED", ~Failed(c)'
               PROVE  \E e \in Dispatchers : WorksOn(e, c)'
      OBVIOUS
  <2>1. state[c] = "ACKED" /\ ~Failed(c) /\ c # cur[d]
      BY <1>12 DEF GiveUpResult, Blame
  <2>2. PICK e \in Dispatchers : WorksOn(e, c)
      BY <2>1
  <2>3. e # d
      BY <2>1, <2>2
  <2>4. \A s \in Slots : calls'[s].owner = e => calls'[s] = calls[s]
      BY <1>12, <2>3, NullsAreNew DEF GiveUpResult, Disowned, FreeSlot, Call
  <2> QED
      BY <1>12, <2>2, <2>3, <2>4 DEF GiveUpResult
<1>13. ASSUME NEW d \in Dispatchers, Die(d)
      PROVE  AckedIsCurrent'
  <2> SUFFICES ASSUME NEW c \in Commands, state'[c] = "ACKED", ~Failed(c)'
               PROVE  \E e \in Dispatchers : WorksOn(e, c)'
      OBVIOUS
  <2>1. state[c] = "ACKED" /\ ~Failed(c) /\ c # cur[d]
      BY <1>13 DEF Die, Blame
  <2>2. PICK e \in Dispatchers : WorksOn(e, c)
      BY <2>1
  <2>3. e # d
      BY <2>1, <2>2
  <2>4. \A s \in Slots : calls'[s].owner = e => calls'[s] = calls[s]
      BY <1>13, <2>3, NullsAreNew DEF Die, Disowned, FreeSlot, Call
  <2> QED
      BY <1>13, <2>2, <2>3, <2>4 DEF Die
<1>14. ASSUME NEW s \in Slots, ReadIgnored(s)
      PROVE  AckedIsCurrent'
  <2> SUFFICES ASSUME NEW c \in Commands, state'[c] = "ACKED", ~Failed(c)'
               PROVE  \E e \in Dispatchers : WorksOn(e, c)'
      OBVIOUS
  <2>1. PICK e \in Dispatchers : WorksOn(e, c)
      BY <1>14 DEF ReadIgnored
  <2>2. calls[s].owner = e /\ pc[e] = "posting" => calls[s].cmd = c /\ calls[s].kind = "result"
      BY <1>14, <1>old, <2>1, NullsAreNew DEF ReadIgnored, CallsLinked, CallLinked, Call
  <2>3. ~(calls[s].owner = e /\ pc[e] = "posting")
      BY <1>14, <2>2 DEF ReadIgnored, Ignores, Completed
  <2>4. \A t \in Slots : t # s => calls'[t] = calls[t]
      BY <1>14 DEF ReadIgnored, Answer
  <2>5. calls'[s].owner \in {calls[s].owner, NoDispatcher}
      BY <1>14 DEF ReadIgnored, Answer, FreeSlot, Call
  <2> QED
      BY <1>14, <2>1, <2>3, <2>4, <2>5, NullsAreNew DEF ReadIgnored
<1>15. ASSUME NEW s \in Slots, Read(s)
      PROVE  AckedIsCurrent'
    BY <1>15 DEF Read, FreeSlot
<1>16. ASSUME NEW s \in Slots, Write(s)
      PROVE  AckedIsCurrent'
  <2> SUFFICES ASSUME NEW c \in Commands, state'[c] = "ACKED", ~Failed(c)'
               PROVE  \E e \in Dispatchers : WorksOn(e, c)'
      OBVIOUS
  <2>0. CallLinked(s) /\ calls[s].kind # "free" /\ calls[s].cmd \in Commands
      BY <1>16, <1>old DEF Write, CallsLinked, CallLinked
  <2>1. \A t \in Slots : t # s => calls'[t] = calls[t]
      BY <1>16 DEF Write, Answer
  <2>2. calls'[s].owner \in {calls[s].owner, NoDispatcher}
      BY <1>16 DEF Write, Answer, FreeSlot, Call
  <2>3. CASE calls[s].cmd = c
    <3>1. calls[s].kind = "ack"
        BY <1>16, <2>0, <2>3 DEF Write, Stores
    <3>2. ~Failed(c)
        BY <1>16 DEF Write
    <3>3. calls[s].owner \in Dispatchers
        BY <3>1, <3>2, <2>0, <2>3 DEF CallLinked, Call
    <3>4. cur[calls[s].owner] = c /\ pc[calls[s].owner] = "acking"
        BY <3>1, <3>3, <2>0, <2>3, NullsAreNew DEF CallLinked
    <3> QED
        BY <1>16, <3>3, <3>4 DEF Write
  <2>4. CASE calls[s].cmd # c
    <3>1. PICK e \in Dispatchers : WorksOn(e, c)
        BY <1>16, <2>0, <2>4 DEF Write
    <3>2. calls[s].owner # e
        BY <2>0, <2>4, <3>1, NullsAreNew DEF CallLinked
    <3> QED
        BY <1>16, <3>1, <3>2, <2>1, <2>2, NullsAreNew DEF Write
  <2> QED
      BY <2>3, <2>4
<1>17. ASSUME NEW s \in Slots, Reply(s)
      PROVE  AckedIsCurrent'
    BY <1>17 DEF Reply, Linked, CallsLinked, CallLinked, FreeSlot
<1>18. ASSUME NEW s \in Slots, Lose(s)
      PROVE  AckedIsCurrent'
    BY <1>18 DEF Lose, FreeSlot
<1>19. ASSUME NEW b \in Commands, Lapse(b)
      PROVE  AckedIsCurrent'
    BY <1>19 DEF Lapse, FreeSlot
<1>20. ASSUME BackendCrash
      PROVE  AckedIsCurrent'
    BY <1>20 DEF BackendCrash, FreeSlot
<1>21. CASE UNCHANGED vars
    BY <1>21 DEF vars, rowVars, deviceVars, historyVars
<1> QED
    BY <1>1, <1>2, <1>3, <1>4, <1>5, <1>6, <1>7, <1>8, <1>9, <1>10, <1>11, <1>12, <1>13,
       <1>14, <1>15, <1>16, <1>17, <1>18, <1>19, <1>20, <1>21 DEF Next, Enqueue,
             Dispatch, Serve

\* The inductive invariant holds initially.
LEMMA InvariantInit == Init => IInv
<1> SUFFICES ASSUME Init
             PROVE  IInv
    OBVIOUS
<1>1. TypeOK
    BY TypeInit
<1>2. Linked
    BY DEF Init, Linked, CallersLinked, DispatchersLinked, CallsLinked, CallLinked,
           OneCallEach, RowsLinked, IdleCaller, FreeSlot
<1>3. OneCommandPerKey /\ ResultMeansEffect
    BY DEF Init, OneCommandPerKey, ResultMeansEffect
<1>4. OneEffect
    BY DEF Init, OneEffect, AtMostOneEffect, Holds, FreeSlot
<1>5. AckedIsCurrent
    BY DEF Init, AckedIsCurrent
<1> QED
    BY <1>1, <1>2, <1>3, <1>4, <1>5 DEF IInv

\* Every step preserves the inductive invariant.
LEMMA InvariantStep == IInv /\ [Next]_vars => IInv'
<1> SUFFICES ASSUME IInv, [Next]_vars
             PROVE  IInv'
    OBVIOUS
<1>1. Linked'
    BY CallersStep, DispatchersStep, CallsStep, OneCallStep, RowsStep DEF IInv, Linked
<1> QED
    BY <1>1, TypeStep, KeyStep, ResultStep, OneEffectStep, CurrentStep DEF IInv

\* The inductive invariant holds of every behaviour.
THEOREM Invariance == Spec => []IInv
BY InvariantInit, InvariantStep, PTL DEF Spec

\* Every variable keeps its type.
THEOREM TypeCorrect == Spec => []TypeOK
<1>1. IInv => TypeOK
    BY DEF IInv
<1> QED
    BY <1>1, Invariance, PTL

\* One command for each idempotency key, however many requests race.
THEOREM UniqueKeys == Spec => []OneCommandPerKey
<1>1. IInv => OneCommandPerKey
    BY DEF IInv
<1> QED
    BY <1>1, Invariance, PTL

\* A stored result is the outcome of a run on the device.
THEOREM TruthfulResults == Spec => []ResultMeansEffect
<1>1. IInv => ResultMeansEffect
    BY DEF IInv
<1> QED
    BY <1>1, Invariance, PTL

\* For any number of devices, dispatchers, requests and commands: a command is
\* executed at most once unless an ack was not confirmed, two syncs had it in
\* hand, or enqueue's last update came late.
THEOREM EffectsExplained == Spec => []DuplicateExplained
<1>1. IInv => DuplicateExplained
    BY DEF IInv, DuplicateExplained, OneEffect, AtMostOneEffect, Excused
<1> QED
    BY <1>1, Invariance, PTL

\* An ACKED command around which nothing failed is in a dispatcher's hands.
THEOREM NoOrphanedAck == Spec => []AckedIsWorkedOn
<1>1. IInv => AckedIsWorkedOn
    BY DEF IInv, TypeOK, Linked, DispatchersLinked, AckedIsCurrent, WorksOn,
           AckedIsWorkedOn, Failed, Holds, Posting
<1> QED
    BY <1>1, Invariance, PTL

\* No step puts a delivered command back, once its enqueue has returned.
LEMMA DeliveredStaysOut ==
    ASSUME IInv, [Next]_vars, NEW c \in Commands,
           state[c] \notin Outstanding \cup {"NONE"}, ~BeingCreated(c)
    PROVE  state'[c] \notin Outstanding
<1>0. TypeOK /\ Linked
    BY DEF IInv
<1> USE DEF TypeOK, rowVars, deviceVars, historyVars
<1>1. ASSUME NEW r \in Callers, NEW k \in Keys, NEW dev \in Devices, Lookup(r, k, dev)
      PROVE  state'[c] \notin Outstanding
    BY <1>0, <1>1 DEF Lookup
<1>2. ASSUME NEW r \in Callers, CreateRejected(r)
      PROVE  state'[c] \notin Outstanding
    BY <1>0, <1>2 DEF CreateRejected
<1>3. ASSUME NEW r \in Callers, NEW b \in Commands, Create(r, b)
      PROVE  state'[c] \notin Outstanding
    BY <1>0, <1>3 DEF Create
<1>4. ASSUME NEW r \in Callers, Push(r)
      PROVE  state'[c] \notin Outstanding
    BY <1>0, <1>4 DEF Push
<1>5. ASSUME NEW r \in Callers, Mark(r)
      PROVE  state'[c] \notin Outstanding
    BY <1>0, <1>5 DEF Mark, BeingCreated
<1>6. ASSUME NEW r \in Callers, Audit(r)
      PROVE  state'[c] \notin Outstanding
    BY <1>0, <1>6 DEF Audit
<1>7. ASSUME NEW d \in Dispatchers, PullExpire(d)
      PROVE  state'[c] \notin Outstanding
    BY <1>0, <1>7 DEF PullExpire, Outstanding
<1>8. ASSUME NEW d \in Dispatchers, PullFind(d)
      PROVE  state'[c] \notin Outstanding
    BY <1>0, <1>8 DEF PullFind
<1>9. ASSUME NEW d \in Dispatchers, NEW s \in Slots, NEW b \in Commands, BeginAck(d, s, b)
      PROVE  state'[c] \notin Outstanding
    BY <1>0, <1>9 DEF BeginAck
<1>10. ASSUME NEW d \in Dispatchers, NEW s \in Slots, NEW out \in Outcomes, Execute(d, s,
      out)
      PROVE  state'[c] \notin Outstanding
    BY <1>0, <1>10 DEF Execute
<1>11. ASSUME NEW d \in Dispatchers, GiveUpAck(d)
      PROVE  state'[c] \notin Outstanding
    BY <1>0, <1>11 DEF GiveUpAck
<1>12. ASSUME NEW d \in Dispatchers, GiveUpResult(d)
      PROVE  state'[c] \notin Outstanding
    BY <1>0, <1>12 DEF GiveUpResult
<1>13. ASSUME NEW d \in Dispatchers, Die(d)
      PROVE  state'[c] \notin Outstanding
    BY <1>0, <1>13 DEF Die
<1>14. ASSUME NEW s \in Slots, ReadIgnored(s)
      PROVE  state'[c] \notin Outstanding
    BY <1>0, <1>14 DEF ReadIgnored
<1>15. ASSUME NEW s \in Slots, Read(s)
      PROVE  state'[c] \notin Outstanding
    BY <1>0, <1>15 DEF Read
<1>16. ASSUME NEW s \in Slots, Write(s)
      PROVE  state'[c] \notin Outstanding
    BY <1>0, <1>16 DEF Write, Linked, CallsLinked, CallLinked, Stores, Outstanding
<1>17. ASSUME NEW s \in Slots, Reply(s)
      PROVE  state'[c] \notin Outstanding
    BY <1>0, <1>17 DEF Reply
<1>18. ASSUME NEW s \in Slots, Lose(s)
      PROVE  state'[c] \notin Outstanding
    BY <1>0, <1>18 DEF Lose
<1>19. ASSUME NEW b \in Commands, Lapse(b)
      PROVE  state'[c] \notin Outstanding
    BY <1>0, <1>19 DEF Lapse
<1>20. ASSUME BackendCrash
      PROVE  state'[c] \notin Outstanding
    BY <1>0, <1>20 DEF BackendCrash
<1>21. CASE UNCHANGED vars
    BY <1>0, <1>21 DEF vars, rowVars, deviceVars, historyVars
<1> QED
    BY <1>0, <1>1, <1>2, <1>3, <1>4, <1>5, <1>6, <1>7, <1>8, <1>9, <1>10, <1>11, <1>12,
       <1>13, <1>14, <1>15, <1>16, <1>17, <1>18, <1>19, <1>20, <1>21 DEF Next, Enqueue,
             Dispatch, Serve

\* Once the request that made it has returned, a delivered command is never
\* handed out again.
THEOREM DeliveredForGood == Spec => NoRedelivery
<1>1. IInv /\ [Next]_vars =>
        [\A c \in Commands :
           state[c] \notin Outstanding \cup {"NONE"} /\ ~BeingCreated(c)
             => state'[c] \notin Outstanding]_vars
    BY DeliveredStaysOut
<1> QED
    BY <1>1, Invariance, PTL DEF Spec, NoRedelivery

-----------------------------------------------------------------------------
(* The order in which commands are executed *)

\* The steps that hand out commands, run one or make one are three; every other
\* step leaves rows, runs and lists as they are, or drops a list.
Rests ==
    /\ UNCHANGED <<born, target, runs>>
    /\ \A d \in Dispatchers : todo'[d] \in {todo[d], {}}

\* Every step hands out commands, runs one, makes one or rests.
LEMMA StepKinds ==
    ASSUME TypeOK, [Next]_vars
    PROVE  \/ \E r \in Callers, b \in Commands : Create(r, b)
           \/ \E d \in Dispatchers : PullFind(d)
           \/ \E d \in Dispatchers, s \in Slots, out \in Outcomes : Execute(d, s, out)
           \/ Rests
<1> DEFINE G == \/ \E r \in Callers, b \in Commands : Create(r, b)
                \/ \E d \in Dispatchers : PullFind(d)
                \/ \E d \in Dispatchers, s \in Slots, out \in Outcomes : Execute(d, s, out)
                \/ Rests
<1> SUFFICES G
    OBVIOUS
<1> USE DEF TypeOK, rowVars, deviceVars, historyVars
<1>1. ASSUME NEW r \in Callers, NEW k \in Keys, NEW dev \in Devices, Lookup(r, k, dev)
      PROVE  G
    BY <1>1 DEF Lookup, Rests
<1>2. ASSUME NEW r \in Callers, CreateRejected(r)
      PROVE  G
    BY <1>2 DEF CreateRejected, Rests
<1>3. ASSUME NEW r \in Callers, NEW b \in Commands, Create(r, b)
      PROVE  G
    BY <1>3
<1>4. ASSUME NEW r \in Callers, Push(r)
      PROVE  G
    BY <1>4 DEF Push, Rests
<1>5. ASSUME NEW r \in Callers, Mark(r)
      PROVE  G
    BY <1>5 DEF Mark, Rests
<1>6. ASSUME NEW r \in Callers, Audit(r)
      PROVE  G
    BY <1>6 DEF Audit, Rests
<1>7. ASSUME NEW d \in Dispatchers, PullExpire(d)
      PROVE  G
    BY <1>7 DEF PullExpire, Rests
<1>8. ASSUME NEW d \in Dispatchers, PullFind(d)
      PROVE  G
    BY <1>8
<1>9. ASSUME NEW d \in Dispatchers, NEW s \in Slots, NEW b \in Commands, BeginAck(d,
      s, b)
      PROVE  G
    BY <1>9 DEF BeginAck, Rests
<1>10. ASSUME NEW d \in Dispatchers, NEW s \in Slots, NEW out \in Outcomes, Execute(d,
      s, out)
      PROVE  G
    BY <1>10
<1>11. ASSUME NEW d \in Dispatchers, GiveUpAck(d)
      PROVE  G
    BY <1>11 DEF GiveUpAck, Rests
<1>12. ASSUME NEW d \in Dispatchers, GiveUpResult(d)
      PROVE  G
    BY <1>12 DEF GiveUpResult, Rests
<1>13. ASSUME NEW d \in Dispatchers, Die(d)
      PROVE  G
    BY <1>13 DEF Die, Rests
<1>14. ASSUME NEW s \in Slots, ReadIgnored(s)
      PROVE  G
    BY <1>14 DEF ReadIgnored, Rests
<1>15. ASSUME NEW s \in Slots, Read(s)
      PROVE  G
    BY <1>15 DEF Read, Rests
<1>16. ASSUME NEW s \in Slots, Write(s)
      PROVE  G
    BY <1>16 DEF Write, Rests
<1>17. ASSUME NEW s \in Slots, Reply(s)
      PROVE  G
    BY <1>17 DEF Reply, Rests
<1>18. ASSUME NEW s \in Slots, Lose(s)
      PROVE  G
    BY <1>18 DEF Lose, Rests
<1>19. ASSUME NEW b \in Commands, Lapse(b)
      PROVE  G
    BY <1>19 DEF Lapse, Rests
<1>20. ASSUME BackendCrash
      PROVE  G
    BY <1>20 DEF BackendCrash, Rests
<1>21. CASE UNCHANGED vars
    BY <1>21 DEF vars, rowVars, deviceVars, historyVars, Rests
<1> QED
    BY <1>1, <1>2, <1>3, <1>4, <1>5, <1>6, <1>7, <1>8, <1>9, <1>10, <1>11, <1>12, <1>13,
       <1>14, <1>15, <1>16, <1>17, <1>18, <1>19, <1>20, <1>21 DEF Next, Enqueue,
       Dispatch, Serve

\* A row keeps its place in the creation order and its device.
LEMMA RowsFixed ==
    ASSUME TypeOK, [Next]_vars, NEW c \in Commands, state[c] # "NONE"
    PROVE  born'[c] = born[c] /\ target'[c] = target[c]
<1>1. ASSUME NEW r \in Callers, NEW b \in Commands, Create(r, b)
      PROVE  born'[c] = born[c] /\ target'[c] = target[c]
    BY <1>1 DEF Create, TypeOK
<1>2. ASSUME NEW d \in Dispatchers, PullFind(d)
      PROVE  born'[c] = born[c] /\ target'[c] = target[c]
    BY <1>2 DEF PullFind, rowVars
<1>3. ASSUME NEW d \in Dispatchers, NEW s \in Slots, NEW out \in Outcomes, Execute(d, s, out)
      PROVE  born'[c] = born[c] /\ target'[c] = target[c]
    BY <1>3 DEF Execute, rowVars
<1>4. CASE Rests
    BY <1>4 DEF Rests
<1> QED
    BY <1>1, <1>2, <1>3, <1>4, StepKinds

\* What went wrong stays recorded.
LEMMA FaultsStay ==
    ASSUME TypeOK, [Next]_vars, NEW c \in Commands
    PROVE  fault[c] \subseteq fault'[c]
<1> USE DEF TypeOK, rowVars, deviceVars, historyVars
<1>1. ASSUME NEW r \in Callers, NEW k \in Keys, NEW dev \in Devices, Lookup(r, k, dev)
      PROVE  fault[c] \subseteq fault'[c]
    BY <1>1 DEF Lookup, Blame
<1>2. ASSUME NEW r \in Callers, CreateRejected(r)
      PROVE  fault[c] \subseteq fault'[c]
    BY <1>2 DEF CreateRejected, Blame
<1>3. ASSUME NEW r \in Callers, NEW b \in Commands, Create(r, b)
      PROVE  fault[c] \subseteq fault'[c]
    BY <1>3 DEF Create, Blame
<1>4. ASSUME NEW r \in Callers, Push(r)
      PROVE  fault[c] \subseteq fault'[c]
    BY <1>4 DEF Push, Blame
<1>5. ASSUME NEW r \in Callers, Mark(r)
      PROVE  fault[c] \subseteq fault'[c]
    BY <1>5 DEF Mark, Blame
<1>6. ASSUME NEW r \in Callers, Audit(r)
      PROVE  fault[c] \subseteq fault'[c]
    BY <1>6 DEF Audit, Blame
<1>7. ASSUME NEW d \in Dispatchers, PullExpire(d)
      PROVE  fault[c] \subseteq fault'[c]
    BY <1>7 DEF PullExpire, Blame
<1>8. ASSUME NEW d \in Dispatchers, PullFind(d)
      PROVE  fault[c] \subseteq fault'[c]
    BY <1>8 DEF PullFind, Blame
<1>9. ASSUME NEW d \in Dispatchers, NEW s \in Slots, NEW b \in Commands, BeginAck(d,
      s, b)
      PROVE  fault[c] \subseteq fault'[c]
    BY <1>9 DEF BeginAck, Blame
<1>10. ASSUME NEW d \in Dispatchers, NEW s \in Slots, NEW out \in Outcomes, Execute(d,
      s, out)
      PROVE  fault[c] \subseteq fault'[c]
    BY <1>10 DEF Execute, Blame
<1>11. ASSUME NEW d \in Dispatchers, GiveUpAck(d)
      PROVE  fault[c] \subseteq fault'[c]
    BY <1>11 DEF GiveUpAck, Blame
<1>12. ASSUME NEW d \in Dispatchers, GiveUpResult(d)
      PROVE  fault[c] \subseteq fault'[c]
    BY <1>12 DEF GiveUpResult, Blame
<1>13. ASSUME NEW d \in Dispatchers, Die(d)
      PROVE  fault[c] \subseteq fault'[c]
    BY <1>13 DEF Die, Blame
<1>14. ASSUME NEW s \in Slots, ReadIgnored(s)
      PROVE  fault[c] \subseteq fault'[c]
    BY <1>14 DEF ReadIgnored, Blame
<1>15. ASSUME NEW s \in Slots, Read(s)
      PROVE  fault[c] \subseteq fault'[c]
    BY <1>15 DEF Read, Blame
<1>16. ASSUME NEW s \in Slots, Write(s)
      PROVE  fault[c] \subseteq fault'[c]
    BY <1>16 DEF Write, Blame
<1>17. ASSUME NEW s \in Slots, Reply(s)
      PROVE  fault[c] \subseteq fault'[c]
    BY <1>17 DEF Reply, Blame
<1>18. ASSUME NEW s \in Slots, Lose(s)
      PROVE  fault[c] \subseteq fault'[c]
    BY <1>18 DEF Lose, Blame
<1>19. ASSUME NEW b \in Commands, Lapse(b)
      PROVE  fault[c] \subseteq fault'[c]
    BY <1>19 DEF Lapse, Blame
<1>20. ASSUME BackendCrash
      PROVE  fault[c] \subseteq fault'[c]
    BY <1>20 DEF BackendCrash, Blame
<1>21. CASE UNCHANGED vars
    BY <1>21 DEF vars, rowVars, deviceVars, historyVars
<1> QED
    BY <1>1, <1>2, <1>3, <1>4, <1>5, <1>6, <1>7, <1>8, <1>9, <1>10, <1>11, <1>12, <1>13,
       <1>14, <1>15, <1>16, <1>17, <1>18, <1>19, <1>20, <1>21 DEF Next, Enqueue,
       Dispatch, Serve

\* The rows, as a finite set.
LEMMA RowsFinite ==
    IsFiniteSet(Rows) /\ Cardinality(Rows) \in Nat
BY CommandsAreFinite, FS_Subset, FS_CardinalityType DEF Rows

\* The new row is the youngest.
LEMMA BornStep ==
    ASSUME TypeOK, Linked, BornInOrder, [Next]_vars
    PROVE  BornInOrder'
<1>1. Rows \subseteq Rows' /\ IsFiniteSet(Rows') /\ Cardinality(Rows') \in Nat
  <2>1. Rows \subseteq Rows'
      BY RowsStay DEF Rows
  <2>2. Rows' \subseteq Commands
      BY DEF Rows
  <2> QED
      BY <2>1, <2>2, CommandsAreFinite, FS_Subset, FS_CardinalityType
<1>2. Cardinality(Rows) <= Cardinality(Rows')
    BY <1>1, FS_Subset
<1>3. ASSUME NEW r \in Callers, NEW b \in Commands, Create(r, b)
      PROVE  BornInOrder'
  <2>1. Rows' = Rows \cup {b} /\ b \notin Rows
      BY <1>3 DEF Create, Rows, TypeOK
  <2>2. Cardinality(Rows') = Cardinality(Rows) + 1
      BY <2>1, RowsFinite, FS_AddElement
  <2>3. \A c \in Commands : born'[c] = IF c = b THEN 1 + Cardinality(Rows) ELSE born[c]
      BY <1>3 DEF Create, Rows, TypeOK
  <2>4. ASSUME NEW c \in Commands
        PROVE  born'[c] <= Cardinality(Rows')
    <3>1. born[c] \in Nat /\ born[c] <= Cardinality(Rows)
        BY DEF TypeOK, BornInOrder
    <3> QED
        BY <2>2, <2>3, <3>1, RowsFinite
  <2> QED
      BY <2>4 DEF BornInOrder
<1>4. ASSUME born' = born
      PROVE  BornInOrder'
  <2>1. ASSUME NEW c \in Commands
        PROVE  born'[c] <= Cardinality(Rows')
      BY <1>1, <1>2, <1>4, RowsFinite DEF TypeOK, BornInOrder
  <2> QED
      BY <2>1 DEF BornInOrder
<1> QED
    BY <1>3, <1>4, StepKinds DEF PullFind, Execute, Rests, rowVars

\* Only a pull gives a dispatcher commands.
LEMMA ListsShrink ==
    ASSUME TypeOK, [Next]_vars, NEW d \in Dispatchers
    PROVE  (\E e \in Dispatchers : PullFind(e)) \/ todo'[d] \subseteq todo[d]
<1>1. ASSUME NEW r \in Callers, NEW b \in Commands, Create(r, b)
      PROVE  todo'[d] \subseteq todo[d]
    BY <1>1 DEF Create, deviceVars
<1>2. ASSUME NEW e \in Dispatchers, NEW s \in Slots, NEW out \in Outcomes, Execute(e, s, out)
      PROVE  todo'[d] \subseteq todo[d]
    BY <1>2 DEF Execute, TypeOK
<1>3. CASE Rests
    BY <1>3 DEF Rests
<1> QED
    BY <1>1, <1>2, <1>3, StepKinds

\* Lists hold commands of the dispatcher's own device.
LEMMA OwnStep ==
    ASSUME TypeOK, Linked, OwnCommands, [Next]_vars
    PROVE  OwnCommands'
<1>1. ASSUME NEW c \in Commands, state'[c] = "NONE"
      PROVE  target'[c] = NoDevice
  <2>1. state[c] = "NONE" /\ target[c] = NoDevice
      BY <1>1, RowsStay DEF OwnCommands
  <2>2. ASSUME NEW r \in Callers, NEW b \in Commands, Create(r, b)
        PROVE  target'[c] = NoDevice
      BY <1>1, <2>1, <2>2 DEF Create, TypeOK
  <2> QED
      BY <2>1, <2>2, StepKinds DEF PullFind, Execute, Rests, rowVars
<1>2. ASSUME NEW d \in Dispatchers, NEW c \in todo'[d]
      PROVE  target'[c] = DeviceOf[d]
  <2>1. CASE c \in todo[d]
    <3>1. c \in Commands /\ state[c] # "NONE"
        BY <2>1 DEF TypeOK, Linked, DispatchersLinked
    <3> QED
        BY <2>1, <3>1, RowsFixed DEF OwnCommands
  <2>2. CASE c \notin todo[d]
    <3>1. PICK e \in Dispatchers : PullFind(e)
        BY <1>2, <2>2, ListsShrink
    <3> QED
        BY <1>2, <2>2, <3>1 DEF PullFind, Pending, rowVars, TypeOK
  <2> QED
      BY <2>1, <2>2
<1> QED
    BY <1>1, <1>2 DEF OwnCommands

\* A dispatcher works on the oldest command of its list.
LEMMA OldestStep ==
    ASSUME TypeOK, Linked, OldestFirst, [Next]_vars
    PROVE  OldestFirst'
<1>old. ASSUME NEW d \in Dispatchers, todo'[d] = todo[d], NEW c, Oldest(c, todo[d])
      PROVE  Oldest(c, todo[d])'
  <2>1. \A e \in todo[d] : e \in Commands /\ born'[e] = born[e]
      BY RowsFixed DEF TypeOK, Linked, DispatchersLinked
  <2> QED
      BY <1>old, <2>1 DEF Oldest
<1> USE DEF TypeOK, rowVars, deviceVars, historyVars
<1>links. \A s \in Slots : CallLinked(s)
    BY DEF Linked, CallsLinked
<1>1. ASSUME NEW r \in Callers, NEW k \in Keys, NEW dev \in Devices, Lookup(r, k, dev)
      PROVE  OldestFirst'
    BY <1>1, <1>old DEF Lookup, OldestFirst
<1>2. ASSUME NEW r \in Callers, CreateRejected(r)
      PROVE  OldestFirst'
    BY <1>2, <1>old DEF CreateRejected, OldestFirst
<1>3. ASSUME NEW r \in Callers, NEW b \in Commands, Create(r, b)
      PROVE  OldestFirst'
    BY <1>3, <1>old DEF Create, OldestFirst
<1>4. ASSUME NEW r \in Callers, Push(r)
      PROVE  OldestFirst'
    BY <1>4, <1>old DEF Push, OldestFirst
<1>5. ASSUME NEW r \in Callers, Mark(r)
      PROVE  OldestFirst'
    BY <1>5, <1>old DEF Mark, OldestFirst
<1>6. ASSUME NEW r \in Callers, Audit(r)
      PROVE  OldestFirst'
    BY <1>6, <1>old DEF Audit, OldestFirst
<1>7. ASSUME NEW d \in Dispatchers, PullExpire(d)
      PROVE  OldestFirst'
    BY <1>7, <1>old DEF PullExpire, OldestFirst
<1>8. ASSUME NEW d \in Dispatchers, PullFind(d)
      PROVE  OldestFirst'
    BY <1>8, <1>old DEF PullFind, OldestFirst
<1>9. ASSUME NEW d \in Dispatchers, NEW s \in Slots, NEW b \in Commands, BeginAck(d,
      s, b)
      PROVE  OldestFirst'
    BY <1>9, <1>old DEF BeginAck, OldestFirst
<1>10. ASSUME NEW d \in Dispatchers, NEW s \in Slots, NEW out \in Outcomes, Execute(d,
      s, out)
      PROVE  OldestFirst'
    BY <1>10, <1>old DEF Execute, OldestFirst
<1>11. ASSUME NEW d \in Dispatchers, GiveUpAck(d)
      PROVE  OldestFirst'
    BY <1>11, <1>old DEF GiveUpAck, OldestFirst
<1>12. ASSUME NEW d \in Dispatchers, GiveUpResult(d)
      PROVE  OldestFirst'
    BY <1>12, <1>old DEF GiveUpResult, OldestFirst
<1>13. ASSUME NEW d \in Dispatchers, Die(d)
      PROVE  OldestFirst'
    BY <1>13, <1>old DEF Die, OldestFirst
<1>14. ASSUME NEW s \in Slots, ReadIgnored(s)
      PROVE  OldestFirst'
    BY <1>14, <1>old DEF ReadIgnored, OldestFirst
<1>15. ASSUME NEW s \in Slots, Read(s)
      PROVE  OldestFirst'
    BY <1>15, <1>old DEF Read, OldestFirst
<1>16. ASSUME NEW s \in Slots, Write(s)
      PROVE  OldestFirst'
    BY <1>16, <1>old DEF Write, OldestFirst
<1>17. ASSUME NEW s \in Slots, Reply(s)
      PROVE  OldestFirst'
    BY <1>17, <1>old, <1>links DEF Reply, OldestFirst, CallLinked
<1>18. ASSUME NEW s \in Slots, Lose(s)
      PROVE  OldestFirst'
    BY <1>18, <1>old DEF Lose, OldestFirst
<1>19. ASSUME NEW b \in Commands, Lapse(b)
      PROVE  OldestFirst'
    BY <1>19, <1>old DEF Lapse, OldestFirst
<1>20. ASSUME BackendCrash
      PROVE  OldestFirst'
    BY <1>20, <1>old DEF BackendCrash, OldestFirst
<1>21. CASE UNCHANGED vars
    BY <1>21, <1>old DEF vars, rowVars, deviceVars, historyVars, OldestFirst
<1> QED
    BY <1>1, <1>2, <1>3, <1>4, <1>5, <1>6, <1>7, <1>8, <1>9, <1>10, <1>11, <1>12, <1>13,
       <1>14, <1>15, <1>16, <1>17, <1>18, <1>19, <1>20, <1>21 DEF Next, Enqueue,
       Dispatch, Serve

\* The statements that write the state of a row.
LEMMA StateWriters ==
    ASSUME [Next]_vars
    PROVE  \/ \E r \in Callers, b \in Commands : Create(r, b)
           \/ \E r \in Callers : Mark(r)
           \/ \E d \in Dispatchers : PullExpire(d)
           \/ \E s \in Slots : Write(s)
           \/ state' = state
<1> DEFINE G == \/ \E r \in Callers, b \in Commands : Create(r, b)
                \/ \E r \in Callers : Mark(r)
                \/ \E d \in Dispatchers : PullExpire(d)
                \/ \E s \in Slots : Write(s)
                \/ state' = state
<1> SUFFICES G
    OBVIOUS
<1> USE DEF rowVars
<1>1. ASSUME NEW r \in Callers, NEW k \in Keys, NEW dev \in Devices, Lookup(r, k, dev)
      PROVE  G
    BY <1>1 DEF Lookup
<1>2. ASSUME NEW r \in Callers, CreateRejected(r)
      PROVE  G
    BY <1>2 DEF CreateRejected
<1>3. ASSUME NEW r \in Callers, NEW b \in Commands, Create(r, b)
      PROVE  G
    BY <1>3
<1>4. ASSUME NEW r \in Callers, Push(r)
      PROVE  G
    BY <1>4 DEF Push
<1>5. ASSUME NEW r \in Callers, Mark(r)
      PROVE  G
    BY <1>5
<1>6. ASSUME NEW r \in Callers, Audit(r)
      PROVE  G
    BY <1>6 DEF Audit
<1>7. ASSUME NEW d \in Dispatchers, PullExpire(d)
      PROVE  G
    BY <1>7
<1>8. ASSUME NEW d \in Dispatchers, PullFind(d)
      PROVE  G
    BY <1>8 DEF PullFind
<1>9. ASSUME NEW d \in Dispatchers, NEW s \in Slots, NEW b \in Commands, BeginAck(d,
      s, b)
      PROVE  G
    BY <1>9 DEF BeginAck
<1>10. ASSUME NEW d \in Dispatchers, NEW s \in Slots, NEW out \in Outcomes, Execute(d,
      s, out)
      PROVE  G
    BY <1>10 DEF Execute
<1>11. ASSUME NEW d \in Dispatchers, GiveUpAck(d)
      PROVE  G
    BY <1>11 DEF GiveUpAck
<1>12. ASSUME NEW d \in Dispatchers, GiveUpResult(d)
      PROVE  G
    BY <1>12 DEF GiveUpResult
<1>13. ASSUME NEW d \in Dispatchers, Die(d)
      PROVE  G
    BY <1>13 DEF Die
<1>14. ASSUME NEW s \in Slots, ReadIgnored(s)
      PROVE  G
    BY <1>14 DEF ReadIgnored
<1>15. ASSUME NEW s \in Slots, Read(s)
      PROVE  G
    BY <1>15 DEF Read
<1>16. ASSUME NEW s \in Slots, Write(s)
      PROVE  G
    BY <1>16
<1>17. ASSUME NEW s \in Slots, Reply(s)
      PROVE  G
    BY <1>17 DEF Reply
<1>18. ASSUME NEW s \in Slots, Lose(s)
      PROVE  G
    BY <1>18 DEF Lose
<1>19. ASSUME NEW b \in Commands, Lapse(b)
      PROVE  G
    BY <1>19 DEF Lapse
<1>20. ASSUME BackendCrash
      PROVE  G
    BY <1>20 DEF BackendCrash
<1>21. CASE UNCHANGED vars
    BY <1>21 DEF vars
<1> QED
    BY <1>1, <1>2, <1>3, <1>4, <1>5, <1>6, <1>7, <1>8, <1>9, <1>10, <1>11, <1>12, <1>13,
       <1>14, <1>15, <1>16, <1>17, <1>18, <1>19, <1>20, <1>21 DEF Next, Enqueue,
       Dispatch, Serve

\* Who is over stays over, unless enqueue's update comes late.
LEMMA SettledStays ==
    ASSUME TypeOK, Linked, [Next]_vars, NEW b \in Commands, Settled(b),
           "late_mark" \notin fault'[b]
    PROVE  Settled(b)'
<1>1. state'[b] \notin Outstanding \cup {"NONE"}
  <2> USE DEF TypeOK, Settled, rowVars, deviceVars, historyVars
  <2>1. ASSUME NEW r \in Callers, NEW c \in Commands, Create(r, c)
        PROVE  state'[b] \notin Outstanding \cup {"NONE"}
      BY <2>1 DEF Create
  <2>2. ASSUME NEW r \in Callers, Mark(r)
        PROVE  state'[b] \notin Outstanding \cup {"NONE"}
      BY <2>2 DEF Mark, Blame
  <2>3. ASSUME NEW d \in Dispatchers, PullExpire(d)
        PROVE  state'[b] \notin Outstanding \cup {"NONE"}
      BY <2>3 DEF PullExpire, Outstanding
  <2>4. ASSUME NEW s \in Slots, Write(s)
        PROVE  state'[b] \notin Outstanding \cup {"NONE"}
      BY <2>4 DEF Write, Stores, Outstanding
  <2>5. CASE state' = state
      BY <2>5
  <2> QED
      BY <2>1, <2>2, <2>3, <2>4, <2>5, StateWriters
<1>2. ASSUME NEW d \in Dispatchers
      PROVE  b \notin todo'[d]
  <2>1. ASSUME NEW e \in Dispatchers, PullFind(e)
        PROVE  b \notin todo'[d]
      BY <2>1 DEF PullFind, Pending, Settled, Holds, TypeOK
  <2> QED
      BY <2>1, ListsShrink DEF Settled, Holds
<1> QED
    BY <1>1, <1>2 DEF Settled, Holds

\* Older commands go first.
LEMMA OlderStep ==
    ASSUME TypeOK, Linked, OneEffect, OrderInv, [Next]_vars
    PROVE  OlderGoFirst'
<1> SUFFICES ASSUME NEW b \in Commands, NEW c \in Commands, Older(b, c)', ~Unordered(b)'
             PROVE  /\ runs'[c] > 0 => Settled(b)'
                    /\ \A d \in Dispatchers : Holds(d, c)' => Holds(d, b)' \/ Settled(b)'
    BY DEF OlderGoFirst
<1>1. ~Unordered(b) /\ "late_mark" \notin fault'[b]
    BY FaultsStay DEF Unordered
<1>2. Settled(b) => Settled(b)'
    BY <1>1, SettledStays
<1>3. ASSUME NEW r \in Callers, NEW n \in Commands, Create(r, n)
      PROVE  /\ runs'[c] > 0 => Settled(b)'
             /\ \A d \in Dispatchers : Holds(d, c)' => Holds(d, b)' \/ Settled(b)'
  <2>1. todo' = todo /\ runs' = runs
      BY <1>3 DEF Create, deviceVars, historyVars
  <2>2. CASE c = n
      BY <1>3, <2>1, <2>2 DEF Create, Linked, RowsLinked, DispatchersLinked, Holds, TypeOK
  <2>3. CASE c # n
    <3>1. born'[c] = born[c] /\ target'[c] = target[c]
        BY <1>3, <2>3 DEF Create, TypeOK
    <3>2. b # n
      <4>1. ASSUME b = n
            PROVE  born'[b] = 1 + Cardinality(Rows)
          BY <1>3, <4>1 DEF Create, Rows, TypeOK
      <4>2. born[c] \in Nat /\ born[c] <= Cardinality(Rows)
          BY DEF OrderInv, BornInOrder, TypeOK
      <4> QED
          BY <3>1, <4>1, <4>2, RowsFinite DEF Older
    <3>3. Older(b, c)
        BY <1>3, <3>1, <3>2 DEF Create, Older, TypeOK
    <3> QED
        BY <1>1, <1>2, <2>1, <3>3 DEF OrderInv, OlderGoFirst, Holds
  <2> QED
      BY <2>2, <2>3
<1>4. ASSUME NEW e \in Dispatchers, PullFind(e)
      PROVE  /\ runs'[c] > 0 => Settled(b)'
             /\ \A d \in Dispatchers : Holds(d, c)' => Holds(d, b)' \/ Settled(b)'
  <2>1. runs' = runs /\ state' = state /\ Older(b, c)
      BY <1>4 DEF PullFind, rowVars, Older
  <2>2. runs[c] > 0 => Settled(b)
      BY <1>1, <2>1 DEF OrderInv, OlderGoFirst
  <2>3. ASSUME NEW d \in Dispatchers, Holds(d, c)'
        PROVE  Holds(d, b)' \/ Settled(b)'
    <3>1. CASE d # e
      <4>1. todo'[d] = todo[d]
          BY <1>4, <3>1 DEF PullFind, TypeOK
      <4> QED
          BY <1>1, <1>2, <2>1, <2>3, <4>1 DEF OrderInv, OlderGoFirst, Holds
    <3>2. CASE d = e
      <4>1. todo'[e] = Pending(DeviceOf[e]) /\ c \in Pending(DeviceOf[e])
          BY <1>4, <2>3, <3>2 DEF PullFind, Holds, TypeOK
      <4>2. CASE b \in Pending(DeviceOf[e])
          BY <3>2, <4>1, <4>2 DEF Holds
      <4>3. CASE b \notin Pending(DeviceOf[e])
        <5>1. target[b] = DeviceOf[e]
            BY <2>1, <4>1 DEF Pending, Older
        <5>2. state[b] # "NONE"
            BY <5>1, DeviceOfIsMap, NullsAreNew DEF OrderInv, OwnCommands
        <5>3. state[b] \notin Outstanding
            BY <4>3, <5>1 DEF Pending
        <5>4. ASSUME NEW x \in Dispatchers, b \in todo[x]
              PROVE  FALSE
          <6>1. "overtaken" \in fault'[b]
              BY <1>4, <2>1, <4>1, <4>3, <5>4 DEF PullFind, Older
          <6> QED
              BY <6>1 DEF Unordered
        <5> QED
            BY <1>2, <5>2, <5>3, <5>4 DEF Settled, Holds
      <4> QED
          BY <4>2, <4>3
    <3> QED
        BY <3>1, <3>2
  <2> QED
      BY <1>2, <2>1, <2>2, <2>3
<1>5. ASSUME NEW e \in Dispatchers, NEW s \in Slots, NEW out \in Outcomes, Execute(e, s, out)
      PROVE  /\ runs'[c] > 0 => Settled(b)'
             /\ \A d \in Dispatchers : Holds(d, c)' => Holds(d, b)' \/ Settled(b)'
  <2>1. Older(b, c)
      BY <1>5 DEF Execute, rowVars, Older
  <2>2. /\ runs[c] > 0 => Settled(b)
        /\ \A d \in Dispatchers : Holds(d, c) => Holds(d, b) \/ Settled(b)
      BY <1>1, <2>1 DEF OrderInv, OlderGoFirst
  <2>3. cur[e] \in todo[e] /\ todo[e] \subseteq Commands
      BY <1>5 DEF Execute, Linked, DispatchersLinked, TypeOK
  <2>4. /\ todo'[e] = todo[e] \ {cur[e]}
        /\ \A d \in Dispatchers : d # e => todo'[d] = todo[d]
      BY <1>5 DEF Execute, TypeOK
  <2>5. state' = state /\ (c # cur[e] => runs'[c] = runs[c])
      BY <1>5, <2>3 DEF Execute, rowVars, TypeOK
  <2>6. c = cur[e] => Settled(b)
    <3>1. Oldest(cur[e], todo[e])
        BY <1>5 DEF Execute, OrderInv, OldestFirst
    <3>2. c = cur[e] => ~Holds(e, b)
        BY <2>1, <3>1 DEF Oldest, Older, Holds, TypeOK
    <3> QED
        BY <2>2, <2>3, <3>2 DEF Holds
  <2>7. b = cur[e] => Settled(b)'
    <3>1. AtMostOneEffect(b)
        BY <1>1 DEF OneEffect, Excused, Unordered
    <3> QED
        BY <1>5, <2>3, <2>4, <2>5, <3>1, RowsStay
        DEF AtMostOneEffect, Execute, Settled, Holds, Linked, DispatchersLinked
  <2> QED
      BY <1>2, <2>2, <2>4, <2>5, <2>6, <2>7 DEF Holds
<1>6. CASE Rests
  <2>1. Older(b, c) /\ runs' = runs
      BY <1>6 DEF Rests, Older
  <2>2. ASSUME NEW d \in Dispatchers, Holds(d, c)'
        PROVE  Holds(d, b)' \/ Settled(b)'
    <3>1. todo'[d] = todo[d]
        BY <1>6, <2>2 DEF Rests, Holds
    <3> QED
        BY <1>1, <1>2, <2>1, <2>2, <3>1 DEF OrderInv, OlderGoFirst, Holds
  <2> QED
      BY <1>1, <1>2, <2>1, <2>2 DEF OrderInv, OlderGoFirst
<1> QED
    BY <1>3, <1>4, <1>5, <1>6, StepKinds

\* The order invariant holds initially, and every step preserves it.
LEMMA OrderInit == Init => OrderInv
<1>1. Init => BornInOrder
  <2> SUFFICES ASSUME Init, NEW c \in Commands
               PROVE  born[c] <= Cardinality(Rows)
      BY DEF BornInOrder
  <2>1. Rows = {}
      BY DEF Init, Rows
  <2>2. Cardinality(Rows) = 0
      BY <2>1, FS_EmptySet
  <2>3. born[c] = 0
      BY DEF Init
  <2> QED
      BY <2>2, <2>3
<1>2. Init => OwnCommands /\ OldestFirst
    BY DEF Init, OwnCommands, OldestFirst
<1>3. Init => OlderGoFirst
    BY DEF Init, OlderGoFirst, Older
<1> QED
    BY <1>1, <1>2, <1>3 DEF OrderInv

\* Every step preserves the order invariant.
LEMMA OrderStep == IInv /\ OrderInv /\ [Next]_vars => OrderInv'
BY BornStep, OwnStep, OldestStep, OlderStep DEF IInv, OrderInv

\* The order invariant always holds.
LEMMA OrderInvariance == Spec => []OrderInv
BY OrderInit, OrderStep, Invariance, PTL DEF Spec

\* Whoever runs a command has it in hand, so it is not over.
LEMMA RunsInOrder ==
    ASSUME IInv, OrderInv, [Next]_vars, NEW b \in Commands, NEW c \in Commands,
           born[b] < born[c], target[b] = target[c], runs[c] > 0,
           fault[b] \cap {"ack_unconfirmed", "late_mark", "overlap", "overtaken"} = {}
    PROVE  runs'[b] = runs[b]
<1>1. Settled(b) /\ TypeOK /\ Linked
    BY DEF IInv, OrderInv, OlderGoFirst, Older, Unordered
<1>2. ASSUME NEW d \in Dispatchers, NEW s \in Slots, NEW out \in Outcomes, Execute(d, s, out)
      PROVE  runs'[b] = runs[b]
  <2>1. cur[d] \in todo[d] /\ cur[d] # b
      BY <1>1, <1>2 DEF Execute, Linked, DispatchersLinked, Settled, Holds
  <2> QED
      BY <1>1, <1>2, <2>1 DEF Execute, TypeOK
<1> QED
    BY <1>1, <1>2, StepKinds DEF Create, PullFind, Rests, historyVars

\* For any number of devices, syncs of each, requests and commands: the device
\* executes commands in the order the parent sent them, except for a command
\* whose ack was not confirmed, that enqueue's last update put back, or that a
\* second sync got too or passed by while it was in hand.
THEOREM RunInOrder == Spec => ExecutedInOrder
<1>1. IInv /\ OrderInv /\ [Next]_vars =>
        [\A b, c \in Commands :
           /\ born[b] < born[c]
           /\ target[b] = target[c]
           /\ runs[c] > 0
           /\ fault[b] \cap {"ack_unconfirmed", "late_mark", "overlap", "overtaken"} = {}
           => runs'[b] = runs[b]]_vars
    BY RunsInOrder
<1> QED
    BY <1>1, Invariance, OrderInvariance, PTL DEF Spec, ExecutedInOrder

-----------------------------------------------------------------------------
(* The life of a command, and its abstract specification *)

\* Only enqueue's last update blames itself.
LEMMA LateMarks ==
    ASSUME TypeOK, [Next]_vars, NEW c \in Commands, "late_mark" \in fault'[c]
    PROVE  \/ "late_mark" \in fault[c]
           \/ \E r \in Callers : Mark(r) /\ c = caller[r].cmd
<1> DEFINE G == \/ "late_mark" \in fault[c]
                \/ \E r \in Callers : Mark(r) /\ c = caller[r].cmd
<1> SUFFICES G
    OBVIOUS
<1> USE DEF TypeOK, rowVars, deviceVars, historyVars
<1>1. ASSUME NEW r \in Callers, NEW k \in Keys, NEW dev \in Devices, Lookup(r, k, dev)
      PROVE  G
    BY <1>1 DEF Lookup, Blame
<1>2. ASSUME NEW r \in Callers, CreateRejected(r)
      PROVE  G
    BY <1>2 DEF CreateRejected, Blame
<1>3. ASSUME NEW r \in Callers, NEW b \in Commands, Create(r, b)
      PROVE  G
    BY <1>3 DEF Create, Blame
<1>4. ASSUME NEW r \in Callers, Push(r)
      PROVE  G
    BY <1>4 DEF Push, Blame
<1>5. ASSUME NEW r \in Callers, Mark(r)
      PROVE  G
    BY <1>5 DEF Mark, Blame
<1>6. ASSUME NEW r \in Callers, Audit(r)
      PROVE  G
    BY <1>6 DEF Audit, Blame
<1>7. ASSUME NEW d \in Dispatchers, PullExpire(d)
      PROVE  G
    BY <1>7 DEF PullExpire, Blame
<1>8. ASSUME NEW d \in Dispatchers, PullFind(d)
      PROVE  G
    BY <1>8 DEF PullFind, Blame
<1>9. ASSUME NEW d \in Dispatchers, NEW s \in Slots, NEW b \in Commands, BeginAck(d,
      s, b)
      PROVE  G
    BY <1>9 DEF BeginAck, Blame
<1>10. ASSUME NEW d \in Dispatchers, NEW s \in Slots, NEW out \in Outcomes, Execute(d,
      s, out)
      PROVE  G
    BY <1>10 DEF Execute, Blame
<1>11. ASSUME NEW d \in Dispatchers, GiveUpAck(d)
      PROVE  G
    BY <1>11 DEF GiveUpAck, Blame
<1>12. ASSUME NEW d \in Dispatchers, GiveUpResult(d)
      PROVE  G
    BY <1>12 DEF GiveUpResult, Blame
<1>13. ASSUME NEW d \in Dispatchers, Die(d)
      PROVE  G
    BY <1>13 DEF Die, Blame
<1>14. ASSUME NEW s \in Slots, ReadIgnored(s)
      PROVE  G
    BY <1>14 DEF ReadIgnored, Blame
<1>15. ASSUME NEW s \in Slots, Read(s)
      PROVE  G
    BY <1>15 DEF Read, Blame
<1>16. ASSUME NEW s \in Slots, Write(s)
      PROVE  G
    BY <1>16 DEF Write, Blame
<1>17. ASSUME NEW s \in Slots, Reply(s)
      PROVE  G
    BY <1>17 DEF Reply, Blame
<1>18. ASSUME NEW s \in Slots, Lose(s)
      PROVE  G
    BY <1>18 DEF Lose, Blame
<1>19. ASSUME NEW b \in Commands, Lapse(b)
      PROVE  G
    BY <1>19 DEF Lapse, Blame
<1>20. ASSUME BackendCrash
      PROVE  G
    BY <1>20 DEF BackendCrash, Blame
<1>21. CASE UNCHANGED vars
    BY <1>21 DEF vars, rowVars, deviceVars, historyVars
<1> QED
    BY <1>1, <1>2, <1>3, <1>4, <1>5, <1>6, <1>7, <1>8, <1>9, <1>10, <1>11, <1>12, <1>13,
       <1>14, <1>15, <1>16, <1>17, <1>18, <1>19, <1>20, <1>21 DEF Next, Enqueue,
       Dispatch, Serve

\* How a request to enqueue goes on.
LEMMA CallerMoves ==
    ASSUME TypeOK, [Next]_vars, NEW q \in Callers
    PROVE  \/ caller'[q] = caller[q]
           \/ caller'[q].pc \in {"idle", "create"}
           \/ \E b \in Commands : Create(q, b)
           \/ /\ caller[q].pc = "push" /\ caller'[q].pc = "mark"
              /\ caller'[q].cmd = caller[q].cmd
           \/ /\ Mark(q) /\ caller'[q].pc = "audit"
              /\ caller'[q].cmd = caller[q].cmd
<1> DEFINE G == \/ caller'[q] = caller[q]
                \/ caller'[q].pc \in {"idle", "create"}
                \/ \E b \in Commands : Create(q, b)
                \/ /\ caller[q].pc = "push" /\ caller'[q].pc = "mark"
                   /\ caller'[q].cmd = caller[q].cmd
                \/ /\ Mark(q) /\ caller'[q].pc = "audit"
                   /\ caller'[q].cmd = caller[q].cmd
<1> SUFFICES G
    OBVIOUS
<1> USE DEF TypeOK, rowVars, deviceVars, historyVars
<1>1. ASSUME NEW r \in Callers, NEW k \in Keys, NEW dev \in Devices, Lookup(r, k, dev)
      PROVE  G
    BY <1>1 DEF Lookup, IdleCaller
<1>2. ASSUME NEW r \in Callers, CreateRejected(r)
      PROVE  G
    BY <1>2 DEF CreateRejected, IdleCaller
<1>3. ASSUME NEW r \in Callers, NEW b \in Commands, Create(r, b)
      PROVE  G
    BY <1>3 DEF Create
<1>4. ASSUME NEW r \in Callers, Push(r)
      PROVE  G
    BY <1>4 DEF Push, Caller
<1>5. ASSUME NEW r \in Callers, Mark(r)
      PROVE  G
    BY <1>5 DEF Mark, Caller
<1>6. ASSUME NEW r \in Callers, Audit(r)
      PROVE  G
    BY <1>6 DEF Audit, IdleCaller
<1>7. ASSUME NEW d \in Dispatchers, PullExpire(d)
      PROVE  G
    BY <1>7 DEF PullExpire
<1>8. ASSUME NEW d \in Dispatchers, PullFind(d)
      PROVE  G
    BY <1>8 DEF PullFind
<1>9. ASSUME NEW d \in Dispatchers, NEW s \in Slots, NEW b \in Commands, BeginAck(d,
      s, b)
      PROVE  G
    BY <1>9 DEF BeginAck
<1>10. ASSUME NEW d \in Dispatchers, NEW s \in Slots, NEW out \in Outcomes, Execute(d,
      s, out)
      PROVE  G
    BY <1>10 DEF Execute
<1>11. ASSUME NEW d \in Dispatchers, GiveUpAck(d)
      PROVE  G
    BY <1>11 DEF GiveUpAck
<1>12. ASSUME NEW d \in Dispatchers, GiveUpResult(d)
      PROVE  G
    BY <1>12 DEF GiveUpResult
<1>13. ASSUME NEW d \in Dispatchers, Die(d)
      PROVE  G
    BY <1>13 DEF Die
<1>14. ASSUME NEW s \in Slots, ReadIgnored(s)
      PROVE  G
    BY <1>14 DEF ReadIgnored
<1>15. ASSUME NEW s \in Slots, Read(s)
      PROVE  G
    BY <1>15 DEF Read
<1>16. ASSUME NEW s \in Slots, Write(s)
      PROVE  G
    BY <1>16 DEF Write
<1>17. ASSUME NEW s \in Slots, Reply(s)
      PROVE  G
    BY <1>17 DEF Reply
<1>18. ASSUME NEW s \in Slots, Lose(s)
      PROVE  G
    BY <1>18 DEF Lose
<1>19. ASSUME NEW b \in Commands, Lapse(b)
      PROVE  G
    BY <1>19 DEF Lapse
<1>20. ASSUME BackendCrash
      PROVE  G
    BY <1>20 DEF BackendCrash, IdleCaller
<1>21. CASE UNCHANGED vars
    BY <1>21 DEF vars, rowVars, deviceVars, historyVars
<1> QED
    BY <1>1, <1>2, <1>3, <1>4, <1>5, <1>6, <1>7, <1>8, <1>9, <1>10, <1>11, <1>12, <1>13,
       <1>14, <1>15, <1>16, <1>17, <1>18, <1>19, <1>20, <1>21 DEF Next, Enqueue,
       Dispatch, Serve

\* A command has one request that makes it, and one late update at most.
LEMMA MarkedStep ==
    ASSUME TypeOK, Linked, MarkedOnce, [Next]_vars
    PROVE  MarkedOnce'
<1> DEFINE Making(r) == caller[r].pc \in {"push", "mark", "audit"}
<1>late. \A c \in Commands : "late_mark" \in fault'[c] =>
           \/ "late_mark" \in fault[c]
           \/ \E r \in Callers : Mark(r) /\ c = caller[r].cmd
    BY LateMarks
<1>made. \A r \in Callers : Making(r) =>
           caller[r].cmd \in Commands /\ state[caller[r].cmd] # "NONE"
    BY DEF Linked, CallersLinked
<1>1. ASSUME NEW c \in Commands, state'[c] = "NONE"
      PROVE  "late_mark" \notin fault'[c]
  <2>1. state[c] = "NONE"
      BY <1>1, RowsStay
  <2>2. ASSUME NEW r \in Callers, Mark(r), c = caller[r].cmd
        PROVE  FALSE
      BY <1>made, <2>1, <2>2 DEF Mark
  <2>3. "late_mark" \notin fault[c]
      BY <2>1 DEF MarkedOnce
  <2> QED
      BY <1>late, <2>2, <2>3
<1>2. ASSUME NEW q \in Callers, NEW b \in Commands, Create(q, b), NEW r \in Callers, r # q
      PROVE  caller'[r] = caller[r] /\ caller'[q].cmd = b /\ state[b] = "NONE"
    BY <1>2 DEF Create, TypeOK, Caller
<1>3. ASSUME NEW q \in Callers, Making(q)'
      PROVE  \/ \E b \in Commands : Create(q, b)
             \/ Making(q) /\ caller'[q].cmd = caller[q].cmd
    BY <1>3, CallerMoves DEF Mark
<1>4. ASSUME NEW q \in Callers, NEW r \in Callers, Making(q)', Making(r)',
             caller'[q].cmd = caller'[r].cmd
      PROVE  q = r
  <2>1. CASE \E b \in Commands : Create(q, b)
      BY <1>2, <1>4, <1>made, <2>1
  <2>2. CASE \E b \in Commands : Create(r, b)
      BY <1>2, <1>4, <1>made, <2>2
  <2>3. CASE /\ Making(q) /\ caller'[q].cmd = caller[q].cmd
             /\ Making(r) /\ caller'[r].cmd = caller[r].cmd
      BY <1>4, <2>3 DEF MarkedOnce
  <2> QED
      BY <1>3, <1>4, <2>1, <2>2, <2>3
<1>5. ASSUME NEW r \in Callers, caller'[r].pc \in {"push", "mark"}
      PROVE  "late_mark" \notin fault'[caller'[r].cmd]
  <2>1. ASSUME NEW b \in Commands, Create(r, b)
        PROVE  "late_mark" \notin fault'[caller'[r].cmd]
      BY <2>1 DEF Create, MarkedOnce, historyVars, TypeOK, Caller
  <2>2. ASSUME caller'[r].cmd = caller[r].cmd, caller[r].pc \in {"push", "mark"}, ~Mark(r)
        PROVE  "late_mark" \notin fault'[caller'[r].cmd]
    <3>1. caller[r].cmd \in Commands
        BY <1>made, <2>2
    <3>2. ASSUME NEW x \in Callers, Mark(x), caller[x].cmd = caller[r].cmd
          PROVE  FALSE
      <4>1. x = r
          BY <2>2, <3>2 DEF MarkedOnce, Mark
      <4> QED
          BY <2>2, <3>2, <4>1
    <3> QED
        BY <1>late, <2>2, <3>1, <3>2 DEF MarkedOnce
  <2>3. Mark(r) => caller'[r].pc = "audit"
      BY DEF Mark, TypeOK, Caller
  <2> QED
      BY <1>5, <2>1, <2>2, <2>3, CallerMoves
<1> QED
    BY <1>1, <1>4, <1>5 DEF MarkedOnce

\* The outcomes seen are outcomes of runs that were counted.
LEMMA RunsStep ==
    ASSUME TypeOK, Linked, RunsCounted, [Next]_vars
    PROVE  RunsCounted'
<1> USE DEF TypeOK, RunsCounted, rowVars, deviceVars, historyVars
<1>links. \A s \in Slots : CallLinked(s)
    BY DEF Linked, CallsLinked
<1>1. ASSUME NEW r \in Callers, NEW k \in Keys, NEW dev \in Devices, Lookup(r, k, dev)
      PROVE  RunsCounted'
    BY <1>1 DEF Lookup
<1>2. ASSUME NEW r \in Callers, CreateRejected(r)
      PROVE  RunsCounted'
    BY <1>2 DEF CreateRejected
<1>3. ASSUME NEW r \in Callers, NEW b \in Commands, Create(r, b)
      PROVE  RunsCounted'
    BY <1>3 DEF Create
<1>4. ASSUME NEW r \in Callers, Push(r)
      PROVE  RunsCounted'
    BY <1>4 DEF Push
<1>5. ASSUME NEW r \in Callers, Mark(r)
      PROVE  RunsCounted'
    BY <1>5 DEF Mark
<1>6. ASSUME NEW r \in Callers, Audit(r)
      PROVE  RunsCounted'
    BY <1>6 DEF Audit
<1>7. ASSUME NEW d \in Dispatchers, PullExpire(d)
      PROVE  RunsCounted'
    BY <1>7 DEF PullExpire
<1>8. ASSUME NEW d \in Dispatchers, PullFind(d)
      PROVE  RunsCounted'
    BY <1>8 DEF PullFind
<1>9. ASSUME NEW d \in Dispatchers, NEW s \in Slots, NEW b \in Commands, BeginAck(d,
      s, b)
      PROVE  RunsCounted'
    BY <1>9 DEF BeginAck
<1>10. ASSUME NEW d \in Dispatchers, NEW s \in Slots, NEW out \in Outcomes, Execute(d,
      s, out)
      PROVE  RunsCounted'
  <2>1. cur[d] \in Commands
      BY <1>10 DEF Execute, Linked, DispatchersLinked
  <2>2. runs'[cur[d]] > 0
      BY <1>10, <2>1, RunCapIsPositive DEF Execute
  <2>3. \A c \in Commands : c # cur[d] => runs'[c] = runs[c] /\ seen'[c] = seen[c]
      BY <1>10, <2>1 DEF Execute
  <2>4. cur' = cur /\ \A e \in Dispatchers : e # d => pc'[e] = pc[e]
      BY <1>10 DEF Execute
  <2>5. \A e \in Dispatchers : pc'[e] = "posting" => cur[e] \in Commands
      BY <1>10, <2>1, <2>4 DEF Execute, Linked, DispatchersLinked
  <2> QED
      BY <2>1, <2>2, <2>3, <2>4, <2>5
<1>11. ASSUME NEW d \in Dispatchers, GiveUpAck(d)
      PROVE  RunsCounted'
    BY <1>11 DEF GiveUpAck
<1>12. ASSUME NEW d \in Dispatchers, GiveUpResult(d)
      PROVE  RunsCounted'
    BY <1>12 DEF GiveUpResult
<1>13. ASSUME NEW d \in Dispatchers, Die(d)
      PROVE  RunsCounted'
    BY <1>13 DEF Die
<1>14. ASSUME NEW s \in Slots, ReadIgnored(s)
      PROVE  RunsCounted'
    BY <1>14 DEF ReadIgnored
<1>15. ASSUME NEW s \in Slots, Read(s)
      PROVE  RunsCounted'
    BY <1>15 DEF Read
<1>16. ASSUME NEW s \in Slots, Write(s)
      PROVE  RunsCounted'
    BY <1>16 DEF Write
<1>17. ASSUME NEW s \in Slots, Reply(s)
      PROVE  RunsCounted'
    BY <1>17 DEF Reply
<1>18. ASSUME NEW s \in Slots, Lose(s)
      PROVE  RunsCounted'
    BY <1>18 DEF Lose
<1>19. ASSUME NEW b \in Commands, Lapse(b)
      PROVE  RunsCounted'
    BY <1>19 DEF Lapse
<1>20. ASSUME BackendCrash
      PROVE  RunsCounted'
    BY <1>20 DEF BackendCrash
<1>21. CASE UNCHANGED vars
    BY <1>21 DEF vars, rowVars, deviceVars, historyVars
<1> QED
    BY <1>1, <1>2, <1>3, <1>4, <1>5, <1>6, <1>7, <1>8, <1>9, <1>10, <1>11, <1>12, <1>13,
       <1>14, <1>15, <1>16, <1>17, <1>18, <1>19, <1>20, <1>21 DEF Next, Enqueue,
       Dispatch, Serve

\* A result that has lost its client was given up.
LEMMA LateResultsStep ==
    ASSUME TypeOK, Linked, LateResults, [Next]_vars
    PROVE  LateResults'
<1> USE DEF TypeOK, LateResults, rowVars, deviceVars, historyVars
<1>links. \A s \in Slots : CallLinked(s)
    BY DEF Linked, CallsLinked
<1>late. \A s \in Slots :
           calls[s].kind = "result" /\ calls[s].owner = NoDispatcher
             => "abandoned" \in fault'[calls[s].cmd]
    BY <1>links, FaultsStay DEF CallLinked
<1>1. ASSUME NEW r \in Callers, NEW k \in Keys, NEW dev \in Devices, Lookup(r, k, dev)
      PROVE  LateResults'
    BY <1>1 DEF Lookup
<1>2. ASSUME NEW r \in Callers, CreateRejected(r)
      PROVE  LateResults'
    BY <1>2 DEF CreateRejected
<1>3. ASSUME NEW r \in Callers, NEW b \in Commands, Create(r, b)
      PROVE  LateResults'
    BY <1>3 DEF Create
<1>4. ASSUME NEW r \in Callers, Push(r)
      PROVE  LateResults'
    BY <1>4 DEF Push
<1>5. ASSUME NEW r \in Callers, Mark(r)
      PROVE  LateResults'
    BY <1>5, <1>late DEF Mark
<1>6. ASSUME NEW r \in Callers, Audit(r)
      PROVE  LateResults'
    BY <1>6 DEF Audit
<1>7. ASSUME NEW d \in Dispatchers, PullExpire(d)
      PROVE  LateResults'
    BY <1>7 DEF PullExpire
<1>8. ASSUME NEW d \in Dispatchers, PullFind(d)
      PROVE  LateResults'
    BY <1>8, <1>late DEF PullFind
<1>9. ASSUME NEW d \in Dispatchers, NEW s \in Slots, NEW b \in Commands, BeginAck(d,
      s, b)
      PROVE  LateResults'
    BY <1>9 DEF BeginAck, FreeSlot
<1>10. ASSUME NEW d \in Dispatchers, NEW s \in Slots, NEW out \in Outcomes, Execute(d,
      s, out)
      PROVE  LateResults'
    BY <1>10, NullsAreNew DEF Execute
<1>11. ASSUME NEW d \in Dispatchers, GiveUpAck(d)
      PROVE  LateResults'
  <2>1. \A s \in Slots : calls[s].kind = "result" => calls[s].owner # d
      BY <1>11, <1>links, NullsAreNew DEF GiveUpAck, CallLinked, Call
  <2>2. ASSUME NEW s \in Slots, calls'[s].kind = "result"
        PROVE  calls'[s] = calls[s]
    <3>1. calls[s].owner = d
            => calls[s].kind # "result" /\ calls'[s].kind \in {"free", calls[s].kind}
        BY <1>11, <2>1 DEF GiveUpAck, Disowned, FreeSlot, Call
    <3> QED
        BY <1>11, <2>2, <3>1 DEF GiveUpAck, Disowned
  <2> QED
      BY <1>late, <2>2
<1>12. ASSUME NEW d \in Dispatchers, GiveUpResult(d)
      PROVE  LateResults'
  <2>1. \A s \in Slots : calls[s].owner = d /\ calls[s].kind = "result" => calls[s].cmd = cur[d]
      BY <1>12, <1>links, NullsAreNew DEF CallLinked
  <2>2. \A s \in Slots : calls[s].kind = "result" => calls[s].cmd \in Commands
      BY <1>links DEF CallLinked
  <2> QED
      BY <1>12, <2>1, <2>2 DEF GiveUpResult, Disowned, Blame, FreeSlot, Call
<1>13. ASSUME NEW d \in Dispatchers, Die(d)
      PROVE  LateResults'
  <2>1. \A s \in Slots : calls[s].owner = d /\ calls[s].kind = "result" => calls[s].cmd = cur[d]
      BY <1>13, <1>links, NullsAreNew DEF CallLinked
  <2>2. \A s \in Slots : calls[s].kind = "result" => calls[s].cmd \in Commands
      BY <1>links DEF CallLinked
  <2> QED
      BY <1>13, <2>1, <2>2 DEF Die, Disowned, Blame, FreeSlot, Call
<1>14. ASSUME NEW s \in Slots, ReadIgnored(s)
      PROVE  LateResults'
    BY <1>14 DEF ReadIgnored, Answer, FreeSlot, Call
<1>15. ASSUME NEW s \in Slots, Read(s)
      PROVE  LateResults'
    BY <1>15 DEF Read, Call
<1>16. ASSUME NEW s \in Slots, Write(s)
      PROVE  LateResults'
    BY <1>16 DEF Write, Answer, FreeSlot, Call
<1>17. ASSUME NEW s \in Slots, Reply(s)
      PROVE  LateResults'
    BY <1>17 DEF Reply, FreeSlot
<1>18. ASSUME NEW s \in Slots, Lose(s)
      PROVE  LateResults'
    BY <1>18 DEF Lose, FreeSlot
<1>19. ASSUME NEW b \in Commands, Lapse(b)
      PROVE  LateResults'
    BY <1>19 DEF Lapse
<1>20. ASSUME BackendCrash
      PROVE  LateResults'
    BY <1>20 DEF BackendCrash, FreeSlot
<1>21. CASE UNCHANGED vars
    BY <1>21 DEF vars, rowVars, deviceVars, historyVars
<1> QED
    BY <1>1, <1>2, <1>3, <1>4, <1>5, <1>6, <1>7, <1>8, <1>9, <1>10, <1>11, <1>12, <1>13,
       <1>14, <1>15, <1>16, <1>17, <1>18, <1>19, <1>20, <1>21 DEF Next, Enqueue,
       Dispatch, Serve

\* A dispatcher posts the result of the command it has just run.
LEMMA PostingStarts ==
    ASSUME TypeOK, [Next]_vars, NEW q \in Dispatchers, NEW c \in Commands, Posting(q, c)'
    PROVE  \/ Posting(q, c)
           \/ cur[q] = c /\ \E s \in Slots, out \in Outcomes : Execute(q, s, out)
<1> DEFINE G == \/ Posting(q, c)
                \/ cur[q] = c /\ \E s \in Slots, out \in Outcomes : Execute(q, s, out)
<1> SUFFICES G
    OBVIOUS
<1> USE DEF TypeOK, Posting, rowVars, deviceVars, historyVars
<1>1. ASSUME NEW r \in Callers, NEW k \in Keys, NEW dev \in Devices, Lookup(r, k, dev)
      PROVE  G
    BY <1>1 DEF Lookup
<1>2. ASSUME NEW r \in Callers, CreateRejected(r)
      PROVE  G
    BY <1>2 DEF CreateRejected
<1>3. ASSUME NEW r \in Callers, NEW b \in Commands, Create(r, b)
      PROVE  G
    BY <1>3 DEF Create
<1>4. ASSUME NEW r \in Callers, Push(r)
      PROVE  G
    BY <1>4 DEF Push
<1>5. ASSUME NEW r \in Callers, Mark(r)
      PROVE  G
    BY <1>5 DEF Mark
<1>6. ASSUME NEW r \in Callers, Audit(r)
      PROVE  G
    BY <1>6 DEF Audit
<1>7. ASSUME NEW d \in Dispatchers, PullExpire(d)
      PROVE  G
    BY <1>7 DEF PullExpire
<1>8. ASSUME NEW d \in Dispatchers, PullFind(d)
      PROVE  G
    BY <1>8 DEF PullFind
<1>9. ASSUME NEW d \in Dispatchers, NEW s \in Slots, NEW b \in Commands, BeginAck(d,
      s, b)
      PROVE  G
    BY <1>9 DEF BeginAck
<1>10. ASSUME NEW d \in Dispatchers, NEW s \in Slots, NEW out \in Outcomes, Execute(d,
      s, out)
      PROVE  G
    BY <1>10 DEF Execute
<1>11. ASSUME NEW d \in Dispatchers, GiveUpAck(d)
      PROVE  G
    BY <1>11 DEF GiveUpAck
<1>12. ASSUME NEW d \in Dispatchers, GiveUpResult(d)
      PROVE  G
    BY <1>12 DEF GiveUpResult
<1>13. ASSUME NEW d \in Dispatchers, Die(d)
      PROVE  G
    BY <1>13 DEF Die
<1>14. ASSUME NEW s \in Slots, ReadIgnored(s)
      PROVE  G
    BY <1>14 DEF ReadIgnored
<1>15. ASSUME NEW s \in Slots, Read(s)
      PROVE  G
    BY <1>15 DEF Read
<1>16. ASSUME NEW s \in Slots, Write(s)
      PROVE  G
    BY <1>16 DEF Write
<1>17. ASSUME NEW s \in Slots, Reply(s)
      PROVE  G
    BY <1>17 DEF Reply
<1>18. ASSUME NEW s \in Slots, Lose(s)
      PROVE  G
    BY <1>18 DEF Lose
<1>19. ASSUME NEW b \in Commands, Lapse(b)
      PROVE  G
    BY <1>19 DEF Lapse
<1>20. ASSUME BackendCrash
      PROVE  G
    BY <1>20 DEF BackendCrash
<1>21. CASE UNCHANGED vars
    BY <1>21 DEF vars, rowVars, deviceVars, historyVars
<1> QED
    BY <1>1, <1>2, <1>3, <1>4, <1>5, <1>6, <1>7, <1>8, <1>9, <1>10, <1>11, <1>12, <1>13,
       <1>14, <1>15, <1>16, <1>17, <1>18, <1>19, <1>20, <1>21 DEF Next, Enqueue,
       Dispatch, Serve

\* A command that is held has not been run, if nothing went wrong around it.
LEMMA HeldIsFresh ==
    ASSUME TypeOK, OneEffect, RunsCounted, ResultMeansEffect,
           NEW c \in Commands, ~Astray(c), NEW d \in Dispatchers, Holds(d, c)
    PROVE  /\ runs[c] = 0
           /\ state[c] \notin Completed
           /\ \A e \in Dispatchers : ~Posting(e, c)
<1>1. AtMostOneEffect(c)
    BY DEF OneEffect, Excused, Astray
<1>2. runs[c] = 0
    BY <1>1, RunCapIsPositive DEF AtMostOneEffect, TypeOK
<1>3. seen[c] = {}
    BY <1>2 DEF RunsCounted
<1> QED
    BY <1>2, <1>3 DEF ResultMeansEffect, Completed, RunsCounted, Posting

\* A command that went astray stays astray.
LEMMA AstrayStays ==
    ASSUME TypeOK, [Next]_vars, NEW c \in Commands, Astray(c)
    PROVE  Astray(c)'
BY FaultsStay DEF Astray

\* OnePoster is preserved: whoever runs a command is the only one to hold it.
LEMMA OnePosterStep ==
    ASSUME TypeOK, Linked, OneEffect, ResultMeansEffect, RunsCounted, OnePoster, [Next]_vars
    PROVE  OnePoster'
<1> SUFFICES ASSUME NEW c \in Commands, ~Astray(c)',
                    NEW d \in Dispatchers, NEW e \in Dispatchers,
                    Posting(d, c)', Posting(e, c)', d # e
             PROVE  FALSE
    BY DEF OnePoster
<1>1. ~Astray(c)
    BY AstrayStays
<1>2. ASSUME NEW q \in Dispatchers, NEW s \in Slots, NEW out \in Outcomes, Execute(q, s, out),
             cur[q] = c, NEW r \in Dispatchers, r # q
      PROVE  ~Posting(r, c)'
  <2>1. Holds(q, c)
      BY <1>2 DEF Execute, Linked, DispatchersLinked, Holds
  <2>2. ~Posting(r, c)
      BY <1>1, <2>1, HeldIsFresh
  <2> QED
      BY <1>2, <2>2 DEF Execute, Posting, TypeOK
<1>3. Posting(d, c) /\ Posting(e, c)
    BY <1>2, PostingStarts
<1> QED
    BY <1>1, <1>3 DEF OnePoster

\* A result that is not answered yet was on its way before, or is of a new run.
LEMMA ResultsStart ==
    ASSUME TypeOK, [Next]_vars, NEW t \in Slots,
           calls'[t].kind = "result", calls'[t].phase # "replied"
    PROVE  \/ /\ calls[t].kind = "result" /\ calls[t].phase # "replied"
              /\ calls[t].cmd = calls'[t].cmd
           \/ \E q \in Dispatchers, out \in Outcomes :
                Execute(q, t, out) /\ calls'[t].cmd = cur[q]
<1> DEFINE G == \/ /\ calls[t].kind = "result" /\ calls[t].phase # "replied"
                   /\ calls[t].cmd = calls'[t].cmd
                \/ \E q \in Dispatchers, out \in Outcomes :
                     Execute(q, t, out) /\ calls'[t].cmd = cur[q]
<1> SUFFICES G
    OBVIOUS
<1> USE DEF TypeOK, rowVars, deviceVars, historyVars
<1>1. ASSUME NEW r \in Callers, NEW k \in Keys, NEW dev \in Devices, Lookup(r, k, dev)
      PROVE  G
    BY <1>1 DEF Lookup
<1>2. ASSUME NEW r \in Callers, CreateRejected(r)
      PROVE  G
    BY <1>2 DEF CreateRejected
<1>3. ASSUME NEW r \in Callers, NEW b \in Commands, Create(r, b)
      PROVE  G
    BY <1>3 DEF Create
<1>4. ASSUME NEW r \in Callers, Push(r)
      PROVE  G
    BY <1>4 DEF Push
<1>5. ASSUME NEW r \in Callers, Mark(r)
      PROVE  G
    BY <1>5 DEF Mark
<1>6. ASSUME NEW r \in Callers, Audit(r)
      PROVE  G
    BY <1>6 DEF Audit
<1>7. ASSUME NEW d \in Dispatchers, PullExpire(d)
      PROVE  G
    BY <1>7 DEF PullExpire
<1>8. ASSUME NEW d \in Dispatchers, PullFind(d)
      PROVE  G
    BY <1>8 DEF PullFind
<1>9. ASSUME NEW d \in Dispatchers, NEW s \in Slots, NEW b \in Commands, BeginAck(d,
      s, b)
      PROVE  G
    BY <1>9 DEF BeginAck, FreeSlot
<1>10. ASSUME NEW d \in Dispatchers, NEW s \in Slots, NEW out \in Outcomes, Execute(d,
      s, out)
      PROVE  G
  <2>1. CASE t = s
      BY <1>10, <2>1 DEF Execute
  <2>2. CASE t # s
      BY <1>10, <2>2 DEF Execute
  <2> QED
      BY <2>1, <2>2
<1>11. ASSUME NEW d \in Dispatchers, GiveUpAck(d)
      PROVE  G
    BY <1>11 DEF GiveUpAck, Disowned, FreeSlot, Call
<1>12. ASSUME NEW d \in Dispatchers, GiveUpResult(d)
      PROVE  G
    BY <1>12 DEF GiveUpResult, Disowned, FreeSlot, Call
<1>13. ASSUME NEW d \in Dispatchers, Die(d)
      PROVE  G
    BY <1>13 DEF Die, Disowned, FreeSlot, Call
<1>14. ASSUME NEW s \in Slots, ReadIgnored(s)
      PROVE  G
    BY <1>14 DEF ReadIgnored, Answer, FreeSlot, Call
<1>15. ASSUME NEW s \in Slots, Read(s)
      PROVE  G
    BY <1>15 DEF Read, Call
<1>16. ASSUME NEW s \in Slots, Write(s)
      PROVE  G
    BY <1>16 DEF Write, Answer, FreeSlot, Call
<1>17. ASSUME NEW s \in Slots, Reply(s)
      PROVE  G
    BY <1>17 DEF Reply, FreeSlot
<1>18. ASSUME NEW s \in Slots, Lose(s)
      PROVE  G
    BY <1>18 DEF Lose, FreeSlot
<1>19. ASSUME NEW b \in Commands, Lapse(b)
      PROVE  G
    BY <1>19 DEF Lapse
<1>20. ASSUME BackendCrash
      PROVE  G
    BY <1>20 DEF BackendCrash, FreeSlot
<1>21. CASE UNCHANGED vars
    BY <1>21 DEF vars, rowVars, deviceVars, historyVars
<1> QED
    BY <1>1, <1>2, <1>3, <1>4, <1>5, <1>6, <1>7, <1>8, <1>9, <1>10, <1>11, <1>12, <1>13,
       <1>14, <1>15, <1>16, <1>17, <1>18, <1>19, <1>20, <1>21 DEF Next, Enqueue,
       Dispatch, Serve

\* A result that is written is the only one.
LEMMA PostedStep ==
    ASSUME TypeOK, Linked, OneEffect, ResultMeansEffect, LifeInv, [Next]_vars
    PROVE  PostedOnce'
<1> SUFFICES ASSUME NEW c \in Commands, ~Astray(c)', state'[c] \in Completed,
                    NEW t \in Slots, calls'[t].kind = "result", calls'[t].cmd = c,
                    calls'[t].phase # "replied"
             PROVE  FALSE
    BY DEF PostedOnce
<1> USE DEF LifeInv
<1>1. ~Astray(c)
    BY AstrayStays
<1>2. ASSUME NEW q \in Dispatchers, NEW out \in Outcomes, Execute(q, t, out), cur[q] = c
      PROVE  FALSE
  <2>1. Holds(q, c)
      BY <1>2 DEF Execute, Linked, DispatchersLinked, Holds
  <2> QED
      BY <1>1, <1>2, <2>1, HeldIsFresh DEF Execute, rowVars
<1>3. calls[t].kind = "result" /\ calls[t].phase # "replied" /\ calls[t].cmd = c
    BY <1>2, ResultsStart
<1>4. state[c] \notin Completed
    BY <1>1, <1>3 DEF PostedOnce
<1>5. PICK s \in Slots : Write(s) /\ calls[s].cmd = c /\ calls[s].kind = "result"
  <2>1. ASSUME NEW r \in Callers, NEW b \in Commands, Create(r, b)
        PROVE  FALSE
      BY <1>4, <2>1 DEF Create, Completed, TypeOK
  <2>2. ASSUME NEW r \in Callers, Mark(r)
        PROVE  FALSE
      BY <1>4, <2>2 DEF Mark, Completed, TypeOK
  <2>3. ASSUME NEW d \in Dispatchers, PullExpire(d)
        PROVE  FALSE
      BY <1>4, <2>3 DEF PullExpire, Completed, TypeOK
  <2>4. ASSUME NEW s \in Slots, Write(s)
        PROVE  calls[s].cmd = c /\ calls[s].kind = "result"
    <3>1. calls[s].kind \in {"ack", "result"}
        BY <2>4 DEF Write, Linked, CallsLinked, CallLinked, TypeOK, Call
    <3> QED
        BY <1>4, <2>4, <3>1 DEF Write, Completed, TypeOK
  <2> QED
      BY <1>4, <2>1, <2>2, <2>3, <2>4, StateWriters
<1>6. t # s
    BY <1>5 DEF Write, Answer, FreeSlot, TypeOK, Call
<1>7. ASSUME NEW u \in {s, t}
      PROVE  calls[u].owner \in Dispatchers /\ Posting(calls[u].owner, c)
  <2>1. calls[u].owner # NoDispatcher
      BY <1>1, <1>3, <1>5 DEF LateResults, Astray
  <2> QED
      BY <1>3, <1>5, <2>1 DEF Linked, CallsLinked, CallLinked, Posting, TypeOK, Call
<1>8. calls[s].owner = calls[t].owner
    BY <1>1, <1>7 DEF OnePoster
<1> QED
    BY <1>6, <1>7, <1>8, NullsAreNew DEF Linked, OneCallEach

\* The life invariant holds initially, and every step preserves it.
LEMMA LifeInit == Init => LifeInv
BY DEF Init, LifeInv, MarkedOnce, RunsCounted, LateResults, OnePoster, PostedOnce,
       Posting, Completed, IdleCaller, FreeSlot

\* Every step preserves the life invariant.
LEMMA LifeInvStep == IInv /\ LifeInv /\ [Next]_vars => LifeInv'
BY MarkedStep, RunsStep, LateResultsStep, OnePosterStep, PostedStep DEF IInv, LifeInv

\* The life invariant always holds.
LEMMA LifeInvariance == Spec => []LifeInv
BY LifeInit, LifeInvStep, Invariance, PTL DEF Spec

\* What each state is to the parent.
LEMMA StageValues ==
    /\ StageOf("NONE") = "none"
    /\ \A st \in Outstanding : StageOf(st) = "waiting"
    /\ StageOf("ACKED") = "delivered"
    /\ StageOf("EXPIRED") = "expired"
    /\ StageOf("DONE") = "done"
    /\ StageOf("FAILED") = "failed"
    /\ \A st \in States \ {"NONE"} : StageOf(st) # "none"
BY DEF StageOf, Outstanding, States, Completed

\* A step of a handler or of a sync moves each command as CommandLife allows, or
\* not at all.
LEMMA LifeStep ==
    ASSUME IInv, LifeInv, [Next]_vars
    PROVE  [Life!Next]_(Life!vars)
<1>0. TypeOK /\ Linked /\ OneEffect /\ ResultMeansEffect /\ RunsCounted
    BY DEF IInv, LifeInv
<1>1. /\ {c \in Commands : Astray(c)} \subseteq {c \in Commands : Astray(c)'}
      /\ {c \in Commands : "late_mark" \in fault[c]} \subseteq
           {c \in Commands : "late_mark" \in fault'[c]}
    BY <1>0, AstrayStays, FaultsStay
<1>stay. ASSUME NEW c \in Commands, state'[c] = state[c], runs'[c] = runs[c]
         PROVE  Life!Stays(c)
    BY <1>stay DEF Life!Stays, stage
<1>2. ASSUME NEW r \in Callers, NEW b \in Commands, Create(r, b), NEW c \in Commands
      PROVE  Life!Advance(c)
  <2>1. runs'[c] = runs[c] /\ (c # b => state'[c] = state[c])
      BY <1>0, <1>2 DEF Create, TypeOK, historyVars
  <2>2. c = b => stage[c] = "none" /\ stage'[c] = "waiting"
      BY <1>0, <1>2, StageValues DEF Create, TypeOK, stage, Outstanding
  <2> QED
      BY <1>stay, <2>1, <2>2 DEF Life!Advance, Life!Queue, Life!Moves
<1>3. ASSUME NEW r \in Callers, Mark(r), NEW c \in Commands
      PROVE  Life!Advance(c) \/ Life!Reopen(c)
  <2>1. /\ runs'[c] = runs[c]
        /\ c # caller[r].cmd => state'[c] = state[c]
        /\ c = caller[r].cmd => state'[c] \in Outstanding
      BY <1>0, <1>3 DEF Mark, TypeOK, Outstanding
  <2>2. stage'[c] = stage[c] => Life!Stays(c)
      BY <2>1 DEF Life!Stays
  <2>3. ASSUME c = caller[r].cmd, state[c] \in Outstanding
        PROVE  stage'[c] = stage[c]
      BY <2>1, <2>3, StageValues DEF stage
  <2>4. ASSUME c = caller[r].cmd, state[c] \notin Outstanding
        PROVE  Life!Reopen(c)
    <3>1. "late_mark" \in fault'[c] /\ "late_mark" \notin fault[c] /\ Astray(c)'
        BY <1>0, <1>3, <2>4 DEF Mark, Blame, TypeOK, LifeInv, MarkedOnce, Astray
    <3>2. state[c] \in States \ {"NONE"}
        BY <1>0, <1>3, <2>4 DEF Mark, TypeOK, Linked, CallersLinked
    <3>3. stage[c] # "none" /\ stage'[c] = "waiting"
        BY <2>1, <2>4, <3>2, StageValues DEF stage
    <3> QED
        BY <2>1, <3>1, <3>3 DEF Life!Reopen
  <2> QED
      BY <1>stay, <2>1, <2>2, <2>3, <2>4 DEF Life!Advance
<1>4. ASSUME NEW d \in Dispatchers, PullExpire(d), NEW c \in Commands
      PROVE  Life!Advance(c)
  <2>1. runs'[c] = runs[c]
      BY <1>4 DEF PullExpire, historyVars
  <2>2. c \notin Stale(DeviceOf[d]) => state'[c] = state[c]
      BY <1>4 DEF PullExpire
  <2>3. c \in Stale(DeviceOf[d]) => state[c] \in Outstanding /\ state'[c] = "EXPIRED"
      BY <1>4 DEF PullExpire, Stale
  <2>4. c \in Stale(DeviceOf[d]) => stage[c] = "waiting" /\ stage'[c] = "expired"
      BY <2>3, StageValues DEF stage
  <2> QED
      BY <1>stay, <2>1, <2>2, <2>4 DEF Life!Advance, Life!Expire, Life!Moves
<1>5. ASSUME NEW s \in Slots, Write(s), NEW c \in Commands
      PROVE  Life!Advance(c)
  <2>0. /\ calls[s].kind \in {"ack", "result"} /\ calls[s].cmd \in Commands
        /\ state[calls[s].cmd] # "NONE" /\ CallLinked(s)
      BY <1>0, <1>5 DEF Write, Linked, CallsLinked, CallLinked, TypeOK, Call
  <2>1. runs'[c] = runs[c] /\ (c # calls[s].cmd => state'[c] = state[c])
      BY <1>0, <1>5, <2>0 DEF Write, TypeOK, historyVars
  <2>2. CASE c # calls[s].cmd
      BY <1>stay, <2>1, <2>2 DEF Life!Advance
  <2>3. CASE c = calls[s].cmd /\ calls[s].kind = "ack"
    <3>1. stage'[c] = "delivered" /\ stage[c] # "none"
        BY <1>0, <1>5, <2>0, <2>3, StageValues DEF Write, TypeOK, stage
    <3>2. CASE Astray(c)
        BY <2>1, <3>1, <3>2 DEF Life!Advance, Life!Redo, Life!Results
    <3>3. CASE ~Astray(c)
      <4>1. calls[s].owner \in Dispatchers
          BY <1>0, <2>0, <2>3, <3>3 DEF CallLinked, Failed, Astray, TypeOK, Call
      <4>2. Holds(calls[s].owner, c)
          BY <1>0, <2>0, <2>3, <4>1, NullsAreNew
          DEF CallLinked, Linked, DispatchersLinked, Holds
      <4>3. state[c] \notin Completed
          BY <1>0, <3>3, <4>1, <4>2, HeldIsFresh
      <4>4. stage[c] \in {"waiting", "expired", "delivered"}
          BY <1>0, <2>0, <2>3, <4>3, StageValues DEF TypeOK, States, stage
      <4> QED
          BY <2>1, <3>1, <4>4 DEF Life!Advance, Life!Stays, Life!Deliver, Life!Moves
    <3> QED
        BY <3>2, <3>3
  <2>4. CASE c = calls[s].cmd /\ calls[s].kind = "result"
    <3>1. stage'[c] \in Life!Results /\ stage[c] # "none"
        BY <1>0, <1>5, <2>0, <2>4, StageValues
        DEF Write, Stores, TypeOK, stage, Life!Results
    <3>2. runs[c] > 0
        BY <1>0, <2>0, <2>4 DEF CallLinked, RunsCounted
    <3>3. CASE Astray(c)
        BY <2>1, <3>1, <3>2, <3>3 DEF Life!Advance, Life!Redo
    <3>4. CASE ~Astray(c)
      <4>1. state[c] \notin Completed
          BY <1>5, <2>4, <3>4 DEF Write, LifeInv, PostedOnce
      <4>2. state[c] \notin Outstanding
          BY <1>0, <3>2, <3>4 DEF OneEffect, AtMostOneEffect, Excused, Astray
      <4>3. stage[c] \in {"delivered", "expired"}
          BY <1>0, <2>0, <2>4, <4>1, <4>2, StageValues DEF TypeOK, States, stage
      <4> QED
          BY <2>1, <3>1, <3>2, <4>3 DEF Life!Advance, Life!Complete, Life!Moves
    <3> QED
        BY <3>3, <3>4
  <2> QED
      BY <2>0, <2>2, <2>3, <2>4
<1>6. ASSUME NEW d \in Dispatchers, NEW s \in Slots, NEW out \in Outcomes, Execute(d, s, out),
             NEW c \in Commands
      PROVE  Life!Advance(c)
  <2>0. cur[d] \in Commands /\ Holds(d, cur[d]) /\ state[cur[d]] # "NONE"
      BY <1>0, <1>6 DEF Execute, Linked, DispatchersLinked, TypeOK, Holds
  <2>1. state' = state /\ stage' = stage
      BY <1>6 DEF Execute, rowVars, stage
  <2>2. CASE c # cur[d]
      BY <1>0, <1>6, <1>stay, <2>0, <2>1, <2>2 DEF Execute, TypeOK, Life!Advance
  <2>3. CASE c = cur[d]
    <3>1. runs'[c] = IF runs[c] < RunCap THEN runs[c] + 1 ELSE runs[c]
        BY <1>0, <1>6, <2>0, <2>3 DEF Execute, TypeOK
    <3>2. stage[c] # "none"
        BY <1>0, <2>0, <2>3, StageValues DEF TypeOK, stage
    <3>3. CASE Astray(c)
        BY <1>stay, <2>1, <3>1, <3>2, <3>3 DEF Life!Advance, Life!Repeat
    <3>4. CASE ~Astray(c)
      <4>1. runs[c] = 0 /\ state[c] \notin Completed
          BY <1>0, <2>0, <2>3, <3>4, HeldIsFresh
      <4>2. state[c] \notin Outstanding
          BY <1>0, <1>6, <2>3, <3>4
          DEF Execute, OneEffect, AtMostOneEffect, Excused, Astray
      <4>3. stage[c] \in {"delivered", "expired"}
          BY <1>0, <2>0, <2>3, <4>1, <4>2, StageValues DEF TypeOK, States, stage
      <4>4. runs'[c] = 1
          BY <3>1, <4>1, RunCapIsPositive
      <4> QED
          BY <2>1, <4>1, <4>3, <4>4 DEF Life!Advance, Life!CarryOut
    <3> QED
        BY <3>3, <3>4
  <2> QED
      BY <2>2, <2>3
<1>7. ASSUME state' = state, runs' = runs, NEW c \in Commands
      PROVE  Life!Advance(c)
    BY <1>7, <1>stay DEF Life!Advance
<1>8. ASSUME NEW c \in Commands
      PROVE  Life!Advance(c) \/ Life!Reopen(c)
  <2>1. \/ \E r \in Callers, b \in Commands : Create(r, b)
        \/ \E r \in Callers : Mark(r)
        \/ \E d \in Dispatchers : PullExpire(d)
        \/ \E s \in Slots : Write(s)
        \/ \E d \in Dispatchers, s \in Slots, out \in Outcomes : Execute(d, s, out)
        \/ state' = state /\ runs' = runs
      BY <1>0, StateWriters, StepKinds DEF PullFind, Rests, historyVars
  <2> QED
      BY <1>2, <1>3, <1>4, <1>5, <1>6, <1>7, <2>1
<1> QED
    BY <1>1, <1>8 DEF Life!Next, Life!vars

\* The command spine implements the life of a command, for any number of
\* devices, syncs and requests: what went well goes one way and happens once.
THEOREM LifeRefinement == Spec => LivesAsPromised
<1>1. Init => Life!Init
  <2> SUFFICES ASSUME Init
               PROVE  Life!Init
      OBVIOUS
  <2>1. stage = [c \in Commands |-> "none"]
      BY StageValues DEF Init, stage
  <2>2. runs = [c \in Commands |-> 0]
      BY DEF Init
  <2>3. {c \in Commands : Astray(c)} = {} /\ {c \in Commands : "late_mark" \in fault[c]} = {}
      BY DEF Init, Astray
  <2> QED
      BY <2>1, <2>2, <2>3 DEF Life!Init
<1>2. IInv /\ LifeInv /\ [Next]_vars => [Life!Next]_(Life!vars)
    BY LifeStep
<1> QED
    BY <1>1, <1>2, Invariance, LifeInvariance, PTL DEF Spec, LivesAsPromised, Life!Spec

=============================================================================
