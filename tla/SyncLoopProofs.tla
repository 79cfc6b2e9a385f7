--------------------------- MODULE SyncLoopProofs ---------------------------
(***************************************************************************)
(* What holds of the sync loop for any number of workers and events and    *)
(* any bounds.  EventInv follows an event that no overlap touched: it is   *)
(* in one place at a time, and between the read and the write of a buffer  *)
(* operation the file is what was read.  DropInv follows the report of a   *)
(* layer that went off.                                                    *)
(***************************************************************************)
EXTENDS SyncLoop, SequenceTheorems, TLAPS

Hand(i) == In(sync[i].hand)
Old(i) == In(sync[i].old)
Holding(i) == sync[i].pc \in {"clear", "upload", "readd", "rewrite"}

\* Every event that is anywhere was added to the buffer.
Known ==
    /\ In(file) \subseteq buffered
    /\ \A i \in Syncs : Hand(i) \cup Old(i) \subseteq buffered
    /\ \A e \in Events : rows[e] > 0 => e \in buffered

\* A sync holds events from its read of the file to the end of the upload.
EmptyHands == \A i \in Syncs : ~Holding(i) => Hand(i) = {}

\* What an operation on the file has read is still there.
Views ==
    \A i \in Syncs : \A e \in Events \ raced :
        /\ At(i, "clear") => (e \in In(file) <=> e \in Hand(i))
        /\ At(i, "rewrite") => (e \in In(file) <=> e \in Old(i))

\* Where two operations overlap, everything they touch is marked.
Overlaps ==
    \A i, j \in Syncs : i # j /\ Between(i) /\ Between(j) =>
        /\ In(file) \cup Hand(i) \subseteq raced
        /\ At(i, "rewrite") => Old(i) \subseteq raced

\* An event is in the file or with one sync.
OnePlace ==
    \A i \in Syncs : \A e \in Hand(i) \ raced :
        /\ ~At(i, "clear") => e \notin In(file)
        /\ \A j \in Syncs \ {i} : e \notin Hand(j)

\* What the backend has stored, and said so, is nowhere else.
Once ==
    \A e \in Events \ (again \cup raced) : rows[e] > 0 =>
        /\ rows[e] = 1
        /\ e \notin In(file)
        /\ \A i \in Syncs : e \notin Hand(i)

EventInv ==
    Known /\ EmptyHands /\ Views /\ Overlaps /\ OnePlace /\ Once /\ EventKept

\* The supervisor alone runs the watchdog, which stores a drop after its report.
DropInv ==
    /\ \A i \in Syncs : sync[i].pc \in {"fcm", "check", "report", "store", "collect"} => i = Supervisor
    /\ At(Supervisor, "store") => told \/ missed
    /\ DropTold

IInv == TypeOK /\ EventInv /\ DropInv

-----------------------------------------------------------------------------
(* Sequences as sets *)

LEMMA InSeq ==
    ASSUME NEW S, NEW s \in Seq(S)
    PROVE  In(s) \subseteq S
BY DEF In

LEMMA InEmpty == In(<<>>) = {}
BY DEF In

LEMMA InAppend ==
    ASSUME NEW S, NEW s \in Seq(S), NEW e \in S
    PROVE  In(Append(s, e)) = In(s) \cup {e}
<1>1. /\ DOMAIN Append(s, e) = 1..(Len(s) + 1) /\ DOMAIN s = 1..Len(s) /\ Len(s) \in Nat
      /\ \A n \in DOMAIN s : Append(s, e)[n] = s[n]
      /\ Append(s, e)[Len(s) + 1] = e
    OBVIOUS
<1>2. DOMAIN Append(s, e) = DOMAIN s \cup {Len(s) + 1}
    BY <1>1
<1> QED BY <1>1, <1>2 DEF In

LEMMA InConcat ==
    ASSUME NEW S, NEW s \in Seq(S), NEW t \in Seq(S)
    PROVE  In(s \o t) = In(s) \cup In(t)
<1>1. /\ Len(s) \in Nat /\ Len(t) \in Nat
      /\ DOMAIN s = 1..Len(s) /\ DOMAIN t = 1..Len(t)
      /\ DOMAIN (s \o t) = 1..(Len(s) + Len(t))
      /\ \A n \in 1..(Len(s) + Len(t)) :
            (s \o t)[n] = IF n <= Len(s) THEN s[n] ELSE t[n - Len(s)]
    OBVIOUS
<1>2. ASSUME NEW x \in In(s) PROVE x \in In(s \o t)
  <2>1. PICK n \in DOMAIN s : x = s[n]
      BY DEF In
  <2>2. n \in DOMAIN (s \o t) /\ (s \o t)[n] = x
      BY <1>1, <2>1
  <2> QED BY <2>2 DEF In
<1>3. ASSUME NEW x \in In(t) PROVE x \in In(s \o t)
  <2>1. PICK n \in DOMAIN t : x = t[n]
      BY DEF In
  <2>2. n + Len(s) \in DOMAIN (s \o t) /\ (s \o t)[n + Len(s)] = x
      BY <1>1, <2>1
  <2> QED BY <2>2 DEF In
<1>4. ASSUME NEW x \in In(s \o t) PROVE x \in In(s) \cup In(t)
  <2>1. PICK n \in DOMAIN (s \o t) : x = (s \o t)[n]
      BY DEF In
  <2>2. CASE n <= Len(s)
      BY <1>1, <2>1, <2>2 DEF In
  <2>3. CASE n > Len(s)
    <3>1. n - Len(s) \in DOMAIN t /\ t[n - Len(s)] = x
        BY <1>1, <2>1, <2>3
    <3> QED BY <3>1 DEF In
  <2> QED BY <1>1, <2>1, <2>2, <2>3
<1> QED BY <1>2, <1>3, <1>4

LEMMA InPrefix ==
    ASSUME NEW S, NEW s \in Seq(S), NEW n \in 0..Len(s)
    PROVE  SubSeq(s, 1, n) \in Seq(S) /\ In(SubSeq(s, 1, n)) \subseteq In(s)
<1>1. Len(s) \in Nat /\ n \in Nat /\ n <= Len(s) /\ DOMAIN s = 1..Len(s)
    OBVIOUS
<1>2. \A k \in 1..n : k \in 1..Len(s)
    BY <1>1
<1>3. /\ SubSeq(s, 1, n) \in Seq(S)
      /\ Len(SubSeq(s, 1, n)) = n
      /\ \A k \in 1..n : SubSeq(s, 1, n)[k] = s[k]
  <2>1. \A k \in 1..n : s[k] \in S
      BY <1>1
  <2> QED BY <1>1, <2>1, SubSeqProperties
<1>4. DOMAIN SubSeq(s, 1, n) = 1..n
    BY <1>1, <1>3
<1> QED BY <1>1, <1>2, <1>3, <1>4 DEF In

\* A process that dies leaves the file as it was, or a part of what a readd was writing.
LEMMA LeftForm ==
    ASSUME TypeOK, NEW f \in Left
    PROVE  /\ f \in Seq(Events)
           /\ \/ f = file
              \/ \E i \in Syncs : At(i, "rewrite") /\ In(f) \subseteq Hand(i) \cup Old(i)
<1>1. CASE f = file
    BY <1>1 DEF TypeOK
<1>2. CASE f # file
  <2>1. PICK i \in Syncs : At(i, "rewrite") /\ f \in Torn(i)
      BY <1>2 DEF Left
  <2>2. sync[i].hand \in Seq(Events) /\ sync[i].old \in Seq(Events)
      BY DEF TypeOK, Sync
  <2>3. Requeued(i) \in Seq(Events) /\ In(Requeued(i)) = Hand(i) \cup Old(i)
      BY <2>2, InConcat DEF Requeued, Hand, Old
  <2>4. PICK n \in 0..Len(Requeued(i)) : f = SubSeq(Requeued(i), 1, n)
      BY <2>1 DEF Torn
  <2>5. f \in Seq(Events) /\ In(f) \subseteq In(Requeued(i))
      BY <2>3, <2>4, InPrefix
  <2> QED BY <2>1, <2>3, <2>5
<1> QED BY <1>1, <1>2

-----------------------------------------------------------------------------
(* Steps of one sync *)

LEMMA OneSync ==
    ASSUME TypeOK, NEW i \in Syncs, NEW r \in Sync, Become(i, r)
    PROVE  /\ sync' \in [Syncs -> Sync]
           /\ sync'[i] = r
           /\ \A j \in Syncs \ {i} : sync'[j] = sync[j]
BY DEF TypeOK, Become

LEMMA OneGoto ==
    ASSUME TypeOK, NEW i \in Syncs, NEW l, Goto(i, l),
           l \in {"off", "rest", "heartbeat", "fcm", "drain", "clear", "upload", "readd",
                  "rewrite", "commands", "check", "report", "store", "collect"}
    PROVE  /\ sync' \in [Syncs -> Sync]
           /\ sync'[i] = [pc |-> l, hand |-> sync[i].hand, old |-> sync[i].old]
           /\ \A j \in Syncs \ {i} : sync'[j] = sync[j]
<1>1. sync[i] \in Sync
    BY DEF TypeOK
<1>2. sync' = [sync EXCEPT ![i] = [sync[i] EXCEPT !.pc = l]]
    BY DEF Goto
<1>3. [sync[i] EXCEPT !.pc = l] = [pc |-> l, hand |-> sync[i].hand, old |-> sync[i].old]
    BY <1>1 DEF Sync
<1>4. [pc |-> l, hand |-> sync[i].hand, old |-> sync[i].old] \in Sync
    BY <1>1 DEF Sync
<1> QED BY <1>2, <1>3, <1>4 DEF TypeOK

LEMMA Records ==
    /\ \A l \in {"rest", "off", "commands"} :
         LET r == [Resting EXCEPT !.pc = l]
         IN  r \in Sync /\ r.pc = l /\ r.hand = <<>> /\ r.old = <<>>
    /\ Resting \in Sync /\ Resting.pc = "rest" /\ Resting.hand = <<>> /\ Resting.old = <<>>
    /\ \A s \in Seq(Events) :
         /\ LET r == [Resting EXCEPT !.pc = "clear", !.hand = s]
            IN  r \in Sync /\ r.pc = "clear" /\ r.hand = s /\ r.old = <<>>
         /\ \A q \in Sync :
              LET r == [q EXCEPT !.pc = "rewrite", !.old = s]
              IN  r \in Sync /\ r.pc = "rewrite" /\ r.hand = q.hand /\ r.old = s
<1>1. <<>> \in Seq(Events)
    OBVIOUS
<1>2. ASSUME NEW s \in Seq(Events)
      PROVE  LET r == [Resting EXCEPT !.pc = "clear", !.hand = s]
             IN  r \in Sync /\ r.pc = "clear" /\ r.hand = s /\ r.old = <<>>
    BY <1>1 DEF Resting, Sync
<1>3. ASSUME NEW s \in Seq(Events), NEW q \in Sync
      PROVE  LET r == [q EXCEPT !.pc = "rewrite", !.old = s]
             IN  r \in Sync /\ r.pc = "rewrite" /\ r.hand = q.hand /\ r.old = s
    BY DEF Sync
<1>4. /\ \A l \in {"rest", "off", "commands"} :
           LET r == [Resting EXCEPT !.pc = l]
           IN  r \in Sync /\ r.pc = l /\ r.hand = <<>> /\ r.old = <<>>
      /\ Resting \in Sync /\ Resting.pc = "rest" /\ Resting.hand = <<>> /\ Resting.old = <<>>
    BY <1>1 DEF Resting, Sync
<1> QED BY <1>2, <1>3, <1>4

\* What an operation on the file marks: everything in sight of an operation that it
\* comes between.
LEMMA TouchesForm ==
    ASSUME NEW i, NEW es, Touches(i, es)
    PROVE  /\ raced \subseteq raced'
           /\ \A j \in Syncs \ {i} : Between(j) => es \cup In(file) \cup Hand(j) \subseteq raced'
           /\ (\A j \in Syncs \ {i} : ~Between(j)) => raced' = raced
<1> DEFINE others == {j \in Syncs \ {i} : Between(j)}
<1>1. CASE others = {}
  <2>1. raced' = raced
      BY <1>1 DEF Touches
  <2> QED BY <1>1, <2>1
<1>2. CASE others # {}
  <2>1. raced' = raced \cup es \cup In(file) \cup UNION {In(sync[j].hand) : j \in others}
      BY <1>2 DEF Touches
  <2>2. \A j \in others : Hand(j) \subseteq raced'
      BY <2>1 DEF Hand
  <2> HIDE DEF others
  <2>3. raced \cup es \cup In(file) \subseteq raced'
      BY <2>1
  <2>4. (\A j \in Syncs \ {i} : ~Between(j)) => others = {}
      BY DEF others
  <2> QED BY <1>2, <2>2, <2>3, <2>4 DEF others
<1> QED BY <1>1, <1>2

-----------------------------------------------------------------------------
(* EventInv *)

\* A sync that goes on without touching the file, its events in hand.
Keeps(i) ==
    /\ sync'[i].hand = sync[i].hand /\ sync'[i].old = sync[i].old
    /\ \/ sync'[i].pc = sync[i].pc
       \/ /\ ~Between(i) /\ sync'[i].pc \notin {"clear", "rewrite"}
          /\ Holding(i) => sync'[i].pc \in {"upload", "readd"}

eventVars == <<file, buffered, raced, rows, again, dead>>

LEMMA Quiet ==
    ASSUME EventInv, UNCHANGED eventVars, \A i \in Syncs : Keeps(i)
    PROVE  EventInv'
<1>1. \A i \in Syncs :
         /\ Hand(i)' = Hand(i) /\ Old(i)' = Old(i)
         /\ Between(i)' = Between(i)
         /\ At(i, "clear")' = At(i, "clear") /\ At(i, "rewrite")' = At(i, "rewrite")
         /\ Holding(i) => Holding(i)'
    BY DEF Keeps, Hand, Old, Between, Holding, At
<1>2. In(file)' = In(file) /\ UNCHANGED <<file, buffered, raced, rows, again, dead>>
    BY DEF eventVars
<1>3. Known'
    BY <1>1, <1>2 DEF EventInv, Known
<1>4. EmptyHands'
    BY <1>1 DEF EventInv, EmptyHands
<1>5. Views'
    BY <1>1, <1>2 DEF EventInv, Views
<1>6. Overlaps'
    BY <1>1, <1>2 DEF EventInv, Overlaps
<1>7. OnePlace'
    BY <1>1, <1>2 DEF EventInv, OnePlace
<1>8. Once'
    BY <1>1, <1>2 DEF EventInv, Once
<1>9. \A e : InHand(e)' = InHand(e)
    BY <1>1 DEF InHand, Hand
<1>10. EventKept'
    BY <1>2, <1>9 DEF EventInv, EventKept
<1> QED BY <1>3, <1>4, <1>5, <1>6, <1>7, <1>8, <1>10 DEF EventInv

LEMMA Adds ==
    ASSUME TypeOK, EventInv, NEW e \in Events, NEW i, Append1(e), Touches(i, {e}),
           UNCHANGED <<rows, again, dead>>,
           \A j \in Syncs : Keeps(j), \A j \in Syncs : Between(j) => j # i
    PROVE  EventInv'
<1>1. \A j \in Syncs :
         /\ Hand(j)' = Hand(j) /\ Old(j)' = Old(j)
         /\ Between(j)' = Between(j)
         /\ At(j, "clear")' = At(j, "clear") /\ At(j, "rewrite")' = At(j, "rewrite")
         /\ Holding(j) => Holding(j)'
    BY DEF Keeps, Hand, Old, Between, Holding, At
<1>2. /\ In(file)' = In(file) \cup {e}
      /\ buffered' = buffered \cup {e} /\ e \notin buffered
      /\ UNCHANGED <<rows, again, dead>>
    BY InAppend DEF Append1, TypeOK
<1>3. /\ raced \subseteq raced'
      /\ \A j \in Syncs : Between(j) => {e} \cup In(file) \cup Hand(j) \subseteq raced'
    BY TouchesForm
<1>4. /\ e \notin In(file) /\ \A j \in Syncs : e \notin Hand(j)
      /\ rows[e] = 0
    BY <1>2 DEF EventInv, Known, TypeOK
<1>5. Known'
    BY <1>1, <1>2 DEF EventInv, Known
<1>6. EmptyHands'
    BY <1>1 DEF EventInv, EmptyHands
<1>7. Views'
    BY <1>1, <1>2, <1>3 DEF EventInv, Views, Between, At
<1>8. Overlaps'
    BY <1>1, <1>2, <1>3 DEF EventInv, Overlaps
<1>9. OnePlace'
    BY <1>1, <1>2, <1>3, <1>4 DEF EventInv, OnePlace
<1>10. Once'
    BY <1>1, <1>2, <1>3, <1>4 DEF EventInv, Once
<1>11. \A x : InHand(x)' = InHand(x)
    BY <1>1 DEF InHand, Hand
<1>12. EventKept'
    BY <1>2, <1>3, <1>11 DEF EventInv, EventKept
<1> QED BY <1>5, <1>6, <1>7, <1>8, <1>9, <1>10, <1>12 DEF EventInv

\* The first half of a drain.
LEMMA DrainReads ==
    ASSUME TypeOK, EventInv, NEW i \in Syncs, DrainRead(i)
    PROVE  EventInv'
<1> DEFINE r == [Resting EXCEPT !.pc = "clear", !.hand = file]
<1>0. r \in Sync /\ r.pc = "clear" /\ r.hand = file /\ r.old = <<>>
    BY Records DEF TypeOK
<1>a. Become(i, r)
    BY DEF DrainRead
<1> HIDE DEF r
<1>1. /\ sync'[i].pc = "clear" /\ sync'[i].hand = file /\ sync'[i].old = <<>>
      /\ \A j \in Syncs \ {i} : sync'[j] = sync[j]
      /\ sync[i].pc = "drain"
    BY <1>0, <1>a, OneSync DEF DrainRead, At
<1>2. /\ Hand(i) = {} /\ Hand(i)' = In(file) /\ Old(i)' = {}
      /\ \A j \in Syncs \ {i} : Hand(j)' = Hand(j) /\ Old(j)' = Old(j)
    BY <1>1, InEmpty DEF EventInv, EmptyHands, Hand, Old, Holding
<1>3. /\ ~Between(i) /\ At(i, "clear")' /\ ~At(i, "rewrite")' /\ Holding(i)'
      /\ \A j \in Syncs \ {i} :
           /\ Between(j)' = Between(j) /\ Holding(j)' = Holding(j)
           /\ At(j, "clear")' = At(j, "clear") /\ At(j, "rewrite")' = At(j, "rewrite")
    BY <1>1 DEF Between, Holding, At
<1>4. /\ raced \subseteq raced'
      /\ \A j \in Syncs \ {i} : Between(j) => In(file) \cup Hand(j) \subseteq raced'
    BY TouchesForm DEF DrainRead
<1>5. UNCHANGED <<file, buffered, rows, again, dead>> /\ In(file)' = In(file)
    BY DEF DrainRead
<1>6. Known'
    BY <1>2, <1>5 DEF EventInv, Known
<1>7. EmptyHands'
    BY <1>2, <1>3 DEF EventInv, EmptyHands
<1>8. Views'
    BY <1>2, <1>3, <1>4, <1>5 DEF EventInv, Views
<1>9. Overlaps'
  <2>1. ASSUME NEW j \in Syncs, At(j, "rewrite"), In(file) \subseteq raced'
        PROVE  Old(j) \subseteq raced'
      BY <2>1, <1>4 DEF EventInv, Views, Known, TypeOK
  <2> QED BY <1>2, <1>3, <1>4, <1>5, <2>1 DEF EventInv, Overlaps
<1>10. OnePlace'
  <2>1. ASSUME NEW j \in Syncs \ {i}, NEW e \in Hand(j) \ raced', e \in In(file)
        PROVE  FALSE
      BY <2>1, <1>3, <1>4 DEF EventInv, OnePlace, Between, At
  <2> QED BY <1>2, <1>3, <1>4, <1>5, <2>1 DEF EventInv, OnePlace
<1>11. Once'
    BY <1>2, <1>4, <1>5 DEF EventInv, Once
<1>12. \A e : InHand(e) => InHand(e)'
    BY <1>2 DEF InHand, Hand
<1>13. EventKept'
    BY <1>4, <1>5, <1>12 DEF EventInv, EventKept
<1> QED BY <1>6, <1>7, <1>8, <1>9, <1>10, <1>11, <1>13 DEF EventInv

LEMMA DrainClears ==
    ASSUME TypeOK, EventInv, NEW i \in Syncs, DrainClear(i)
    PROVE  EventInv'
<1> DEFINE l == IF sync[i].hand = <<>> THEN "commands" ELSE "upload"
<1>0. Goto(i, l) /\ l \in {"commands", "upload"} /\ (l = "commands" => sync[i].hand = <<>>)
    BY DEF DrainClear
<1> HIDE DEF l
<1>a. /\ sync'[i] = [pc |-> l, hand |-> sync[i].hand, old |-> sync[i].old]
      /\ \A j \in Syncs \ {i} : sync'[j] = sync[j]
    BY <1>0, OneGoto
<1>1. /\ sync'[i].pc = l /\ sync'[i].hand = sync[i].hand /\ sync'[i].old = sync[i].old
      /\ \A j \in Syncs \ {i} : sync'[j] = sync[j]
      /\ sync[i].pc = "clear"
    BY <1>a DEF DrainClear, At
<1>2. \A j \in Syncs : Hand(j)' = Hand(j) /\ Old(j)' = Old(j)
    BY <1>1 DEF Hand, Old
<1>3. /\ Between(i) /\ At(i, "clear") /\ ~Between(i)' /\ (~Holding(i)' => Hand(i) = {})
      /\ \A j \in Syncs \ {i} :
           /\ Between(j)' = Between(j) /\ Holding(j)' = Holding(j)
           /\ At(j, "clear")' = At(j, "clear") /\ At(j, "rewrite")' = At(j, "rewrite")
    BY <1>0, <1>1, InEmpty DEF Between, Holding, At, Hand
<1>4. ~At(i, "clear")' /\ ~At(i, "rewrite")'
    BY <1>0, <1>1 DEF At
<1>5. UNCHANGED <<buffered, raced, rows, again, dead>> /\ In(file)' = {}
    BY InEmpty DEF DrainClear, Cleared
<1>6. \A j \in Syncs \ {i} : Between(j) =>
         Hand(j) \subseteq raced /\ (At(j, "rewrite") => Old(j) \subseteq raced)
    BY <1>3 DEF EventInv, Overlaps
<1>7. Known'
    BY <1>2, <1>5 DEF EventInv, Known
<1>8. EmptyHands'
    BY <1>2, <1>3 DEF EventInv, EmptyHands
<1>9. Views'
    BY <1>2, <1>3, <1>4, <1>5, <1>6 DEF EventInv, Views, Between, At
<1>10. Overlaps'
    BY <1>2, <1>3, <1>4, <1>5 DEF EventInv, Overlaps
<1>11. OnePlace'
    BY <1>2, <1>3, <1>5 DEF EventInv, OnePlace
<1>12. Once'
    BY <1>2, <1>5 DEF EventInv, Once
<1>13. \A e \in In(file) \ raced : e \in Hand(i)
    BY <1>3 DEF EventInv, Views, Known, TypeOK
<1>14. \A e : InHand(e)' = InHand(e)
    BY <1>2 DEF InHand, Hand
<1>15. EventKept'
    BY <1>5, <1>13, <1>14 DEF EventInv, EventKept, InHand, Hand
<1> QED BY <1>7, <1>8, <1>9, <1>10, <1>11, <1>12, <1>15 DEF EventInv

\* The first half of a re-add.
LEMMA ReaddReads ==
    ASSUME TypeOK, EventInv, NEW i \in Syncs, ReaddRead(i)
    PROVE  EventInv'
<1> DEFINE r == [sync[i] EXCEPT !.pc = "rewrite", !.old = file]
<1>0. r \in Sync /\ r.pc = "rewrite" /\ r.hand = sync[i].hand /\ r.old = file
  <2>1. sync[i] \in Sync /\ file \in Seq(Events)
      BY DEF TypeOK
  <2> QED BY <2>1 DEF Sync
<1>a. Become(i, r)
    BY DEF ReaddRead
<1> HIDE DEF r
<1>1. /\ sync'[i].pc = "rewrite" /\ sync'[i].hand = sync[i].hand /\ sync'[i].old = file
      /\ \A j \in Syncs \ {i} : sync'[j] = sync[j]
      /\ sync[i].pc = "readd"
    BY <1>0, <1>a, OneSync DEF ReaddRead, At
<1>2. /\ Old(i)' = In(file)
      /\ \A j \in Syncs : Hand(j)' = Hand(j)
      /\ \A j \in Syncs \ {i} : Old(j)' = Old(j)
    BY <1>1 DEF Hand, Old
<1>3. /\ ~Between(i) /\ ~At(i, "clear")' /\ ~At(i, "clear") /\ At(i, "rewrite")' /\ Holding(i)'
      /\ \A j \in Syncs \ {i} :
           /\ Between(j)' = Between(j) /\ Holding(j)' = Holding(j)
           /\ At(j, "clear")' = At(j, "clear") /\ At(j, "rewrite")' = At(j, "rewrite")
    BY <1>1 DEF Between, Holding, At
<1>4. /\ raced \subseteq raced'
      /\ \A j \in Syncs \ {i} : Between(j) => Hand(i) \cup In(file) \cup Hand(j) \subseteq raced'
    BY TouchesForm DEF ReaddRead, Hand
<1>5. UNCHANGED <<file, buffered, rows, again, dead>> /\ In(file)' = In(file)
    BY DEF ReaddRead
<1>6. Known'
    BY <1>2, <1>5 DEF EventInv, Known
<1>7. EmptyHands'
    BY <1>2, <1>3 DEF EventInv, EmptyHands
<1>8. Views'
    BY <1>2, <1>3, <1>4, <1>5 DEF EventInv, Views
<1>9. Overlaps'
  <2>1. ASSUME NEW j \in Syncs, At(j, "rewrite"), In(file) \subseteq raced'
        PROVE  Old(j) \subseteq raced'
      BY <2>1, <1>4 DEF EventInv, Views, Known, TypeOK
  <2> QED BY <1>2, <1>3, <1>4, <1>5, <2>1 DEF EventInv, Overlaps
<1>10. OnePlace'
    BY <1>2, <1>3, <1>4, <1>5 DEF EventInv, OnePlace
<1>11. Once'
    BY <1>2, <1>4, <1>5 DEF EventInv, Once
<1>12. \A e : InHand(e) => InHand(e)'
    BY <1>2 DEF InHand, Hand
<1>13. EventKept'
    BY <1>4, <1>5, <1>12 DEF EventInv, EventKept
<1> QED BY <1>6, <1>7, <1>8, <1>9, <1>10, <1>11, <1>13 DEF EventInv

LEMMA ReaddWrites ==
    ASSUME TypeOK, EventInv, NEW i \in Syncs, ReaddWrite(i)
    PROVE  EventInv'
<1>1. /\ sync'[i].pc = "rest" /\ sync'[i].hand = <<>> /\ sync'[i].old = <<>>
      /\ \A j \in Syncs \ {i} : sync'[j] = sync[j]
      /\ sync[i].pc = "rewrite"
  <2>1. Become(i, Resting) /\ sync[i].pc = "rewrite"
      BY DEF ReaddWrite, At
  <2>2. Resting \in Sync /\ Resting.pc = "rest" /\ Resting.hand = <<>> /\ Resting.old = <<>>
      BY Records
  <2> QED BY <2>1, <2>2, OneSync
<1>2. /\ Hand(i)' = {} /\ Old(i)' = {}
      /\ \A j \in Syncs \ {i} : Hand(j)' = Hand(j) /\ Old(j)' = Old(j)
    BY <1>1, InEmpty DEF Hand, Old
<1>3. /\ Between(i) /\ At(i, "rewrite") /\ ~At(i, "clear") /\ ~Between(i)'
      /\ ~At(i, "clear")' /\ ~At(i, "rewrite")'
      /\ \A j \in Syncs \ {i} :
           /\ Between(j)' = Between(j) /\ Holding(j)' = Holding(j)
           /\ At(j, "clear")' = At(j, "clear") /\ At(j, "rewrite")' = At(j, "rewrite")
    BY <1>1 DEF Between, Holding, At
<1>4. sync[i].hand \in Seq(Events) /\ sync[i].old \in Seq(Events)
    BY DEF TypeOK, Sync
<1>5. UNCHANGED <<buffered, raced, rows, again, dead>> /\ In(file)' = Hand(i) \cup Old(i)
    BY <1>4, InConcat DEF ReaddWrite, Requeued, Hand, Old
<1>6. \A j \in Syncs \ {i} : Between(j) =>
         /\ Hand(i) \cup Old(i) \cup Hand(j) \subseteq raced
         /\ At(j, "rewrite") => Old(j) \subseteq raced
    BY <1>3 DEF EventInv, Overlaps
<1>7. \A e \in Events \ raced : e \in In(file) <=> e \in Old(i)
    BY <1>3 DEF EventInv, Views
<1>8. /\ In(file) \subseteq Events /\ Old(i) \subseteq Events
      /\ \A j \in Syncs : Hand(j) \subseteq Events
    BY DEF EventInv, Known, TypeOK
<1>9. Known'
    BY <1>2, <1>5 DEF EventInv, Known
<1>10. EmptyHands'
    BY <1>2, <1>3 DEF EventInv, EmptyHands
<1>11. Views'
    BY <1>2, <1>3, <1>5, <1>6 DEF EventInv, Views, Between, At
<1>12. Overlaps'
    BY <1>2, <1>3, <1>5, <1>6 DEF EventInv, Overlaps
<1>13. OnePlace'
  <2>1. ASSUME NEW j \in Syncs \ {i}, NEW e \in Hand(j) \ raced, ~At(j, "clear")
        PROVE  e \notin Hand(i) \cup Old(i)
      BY <2>1, <1>7, <1>8 DEF EventInv, OnePlace
  <2> QED BY <1>2, <1>3, <1>5, <2>1 DEF EventInv, OnePlace
<1>14. Once'
    BY <1>2, <1>5, <1>7 DEF EventInv, Once
<1>15. EventKept'
  <2>1. \A e : InHand(e) => e \in Hand(i) \/ InHand(e)'
      BY <1>2 DEF InHand, Hand
  <2> QED BY <1>5, <1>7, <1>8, <2>1 DEF EventInv, EventKept
<1> QED BY <1>9, <1>10, <1>11, <1>12, <1>13, <1>14, <1>15 DEF EventInv

LEMMA Uploads ==
    ASSUME TypeOK, EventInv, NEW i \in Syncs, Upload(i)
    PROVE  EventInv'
<1> DEFINE r == [Resting EXCEPT !.pc = "commands"]
<1>0. r \in Sync /\ r.pc = "commands" /\ r.hand = <<>> /\ r.old = <<>>
    BY Records
<1>a. Become(i, r) /\ sync[i].pc = "upload"
    BY DEF Upload, At
<1> HIDE DEF r
<1>1. /\ sync'[i].pc = "commands" /\ sync'[i].hand = <<>> /\ sync'[i].old = <<>>
      /\ \A j \in Syncs \ {i} : sync'[j] = sync[j]
    BY <1>0, <1>a, OneSync
<1>2. /\ Hand(i)' = {} /\ Old(i)' = {}
      /\ \A j \in Syncs \ {i} : Hand(j)' = Hand(j) /\ Old(j)' = Old(j)
    BY <1>1, InEmpty DEF Hand, Old
<1>3. /\ ~Between(i)' /\ ~At(i, "clear")' /\ ~At(i, "rewrite")' /\ ~At(i, "clear")
      /\ \A j \in Syncs \ {i} :
           /\ Between(j)' = Between(j) /\ Holding(j)' = Holding(j)
           /\ At(j, "clear")' = At(j, "clear") /\ At(j, "rewrite")' = At(j, "rewrite")
    BY <1>1, <1>a DEF Between, Holding, At
<1>4. UNCHANGED <<file, buffered, raced, again, dead>> /\ In(file)' = In(file)
    BY DEF Upload, fileVars
<1>5. \A e \in Events :
         rows'[e] = IF e \in Hand(i) /\ rows[e] < 2 THEN rows[e] + 1 ELSE rows[e]
    BY DEF Upload, Ingest, Hand
<1>6. \A e \in Events : rows[e] \in 0..2 /\ rows'[e] \in 0..2 /\ rows'[e] >= rows[e]
    BY <1>5 DEF TypeOK
<1>7. Known'
    BY <1>2, <1>4, <1>5, <1>6 DEF EventInv, Known
<1>8. EmptyHands'
    BY <1>2, <1>3 DEF EventInv, EmptyHands
<1>9. Views'
    BY <1>2, <1>3, <1>4 DEF EventInv, Views
<1>10. Overlaps'
    BY <1>2, <1>3, <1>4 DEF EventInv, Overlaps
<1>11. OnePlace'
    BY <1>2, <1>3, <1>4 DEF EventInv, OnePlace
<1>12. Once'
  <2>1. ASSUME NEW e \in Events \ (again \cup raced), rows'[e] > 0
        PROVE  rows'[e] = 1 /\ e \notin In(file) /\ \A j \in Syncs \ {i} : e \notin Hand(j)
    <3>1. CASE e \in Hand(i)
      <4>1. rows[e] = 0
          BY <1>6, <2>1, <3>1 DEF EventInv, Once
      <4>2. e \notin In(file) /\ \A j \in Syncs \ {i} : e \notin Hand(j)
          BY <1>3, <2>1, <3>1 DEF EventInv, OnePlace
      <4> QED BY <1>5, <2>1, <3>1, <4>1, <4>2
    <3>2. CASE e \notin Hand(i)
        BY <1>5, <2>1, <3>2 DEF EventInv, Once
    <3> QED BY <3>1, <3>2
  <2> QED BY <1>2, <1>4, <2>1 DEF Once
<1>13. EventKept'
  <2>1. \A e \in Events : InHand(e) => rows'[e] > 0 \/ InHand(e)'
      BY <1>2, <1>5, <1>6 DEF InHand, Hand
  <2>2. buffered \subseteq Events
      BY DEF TypeOK
  <2> QED BY <1>4, <1>6, <2>1, <2>2 DEF EventInv, EventKept
<1> QED BY <1>7, <1>8, <1>9, <1>10, <1>11, <1>12, <1>13 DEF EventInv

LEMMA UploadAnswersLost ==
    ASSUME TypeOK, EventInv, NEW i \in Syncs, UploadAnswerLost(i)
    PROVE  EventInv'
<1>a. Goto(i, "readd") /\ sync[i].pc = "upload"
    BY DEF UploadAnswerLost, At
<1>b. /\ sync'[i] = [pc |-> "readd", hand |-> sync[i].hand, old |-> sync[i].old]
      /\ \A j \in Syncs \ {i} : sync'[j] = sync[j]
    BY <1>a, OneGoto
<1>1. \A j \in Syncs : Hand(j)' = Hand(j) /\ Old(j)' = Old(j)
    BY <1>b DEF Hand, Old
<1>2. \A j \in Syncs :
         /\ Between(j)' = Between(j) /\ Holding(j)' = Holding(j)
         /\ At(j, "clear")' = At(j, "clear") /\ At(j, "rewrite")' = At(j, "rewrite")
    BY <1>a, <1>b DEF Between, Holding, At
<1>3. UNCHANGED <<file, buffered, raced, dead>> /\ In(file)' = In(file) /\ again' = again \cup Hand(i)
    BY DEF UploadAnswerLost, fileVars, Hand
<1>4. \A e \in Events :
         rows'[e] = IF e \in Hand(i) /\ rows[e] < 2 THEN rows[e] + 1 ELSE rows[e]
    BY DEF UploadAnswerLost, Ingest, Hand
<1>5. \A e \in Events : rows[e] \in 0..2 /\ rows'[e] \in 0..2 /\ rows'[e] >= rows[e]
    BY <1>4 DEF TypeOK
<1>6. Known'
    BY <1>1, <1>3, <1>4, <1>5 DEF EventInv, Known
<1>7. EmptyHands'
    BY <1>1, <1>2 DEF EventInv, EmptyHands
<1>8. Views'
    BY <1>1, <1>2, <1>3 DEF EventInv, Views
<1>9. Overlaps'
    BY <1>1, <1>2, <1>3 DEF EventInv, Overlaps
<1>10. OnePlace'
    BY <1>1, <1>2, <1>3 DEF EventInv, OnePlace
<1>11. Once'
    BY <1>1, <1>3, <1>4 DEF EventInv, Once
<1>12. EventKept'
  <2>1. \A e : InHand(e)' = InHand(e)
      BY <1>1 DEF InHand, Hand
  <2>2. buffered \subseteq Events
      BY DEF TypeOK
  <2> QED BY <1>3, <1>5, <2>1, <2>2 DEF EventInv, EventKept
<1> QED BY <1>6, <1>7, <1>8, <1>9, <1>10, <1>11, <1>12 DEF EventInv

LEMMA Kills ==
    ASSUME TypeOK, EventInv, Kill
    PROVE  EventInv'
<1> DEFINE r == [Resting EXCEPT !.pc = "off"]
<1>0. r.pc = "off" /\ r.hand = <<>> /\ r.old = <<>>
    BY Records
<1>a. \A i \in Syncs : sync'[i] = r
    BY DEF Kill
<1> HIDE DEF r
<1>1. \A i \in Syncs :
         /\ Hand(i)' = {} /\ Old(i)' = {}
         /\ ~Between(i)' /\ ~At(i, "clear")' /\ ~At(i, "rewrite")'
    BY <1>0, <1>a, InEmpty DEF Hand, Old, Between, At
<1>2. UNCHANGED <<buffered, raced, races, rows, again>>
    BY DEF Kill
<1>3. /\ \/ In(file)' = In(file)
         \/ \E i \in Syncs : At(i, "rewrite") /\ In(file)' \subseteq Hand(i) \cup Old(i)
      /\ dead \subseteq dead' /\ In(file) \subseteq dead' \cup In(file)'
    BY LeftForm DEF Kill
<1>4. ASSUME NEW e, InHand(e), e \notin In(file)'
      PROVE  e \in dead'
  <2>1. PICK i \in Syncs : e \in In(sync[i].hand)
      BY <1>4 DEF InHand
  <2> DEFINE hands == {In(sync[j].hand) : j \in Syncs}
  <2>2. In(sync[i].hand) \in hands
      OBVIOUS
  <2>3. dead' = dead \cup ((In(file) \cup UNION hands) \ In(file)')
      BY DEF Kill
  <2> HIDE DEF hands
  <2>4. e \in UNION hands
      BY <2>1, <2>2
  <2> QED BY <1>4, <2>3, <2>4
<1>5. Known'
    BY <1>1, <1>2, <1>3 DEF EventInv, Known
<1>6. EmptyHands' /\ Views' /\ Overlaps' /\ OnePlace'
    BY <1>1 DEF EmptyHands, Views, Overlaps, OnePlace
<1>7. Once'
  <2>1. ASSUME NEW e \in Events \ (again \cup raced), rows[e] > 0
        PROVE  rows[e] = 1 /\ e \notin In(file)'
      BY <1>3, <2>1 DEF EventInv, Once, Views, Hand
  <2> QED BY <1>1, <1>2, <2>1 DEF Once
<1>8. EventKept'
    BY <1>2, <1>3, <1>4 DEF EventInv, EventKept
<1> QED BY <1>5, <1>6, <1>7, <1>8 DEF EventInv

\* Labels of a sync that has no events in hand.
Free == {"rest", "heartbeat", "fcm", "drain", "commands", "check", "report", "store", "collect"}

LEMMA GotoFree ==
    ASSUME TypeOK, NEW i \in Syncs, NEW l \in Free, Goto(i, l), ~Holding(i)
    PROVE  \A j \in Syncs : Keeps(j)
<1>1. /\ sync'[i] = [pc |-> l, hand |-> sync[i].hand, old |-> sync[i].old]
      /\ \A j \in Syncs \ {i} : sync'[j] = sync[j]
    BY OneGoto DEF Free
<1>2. sync'[i].pc = l /\ sync'[i].hand = sync[i].hand /\ sync'[i].old = sync[i].old
    BY <1>1
<1>3. Keeps(i)
    BY <1>2 DEF Keeps, Between, Holding, Free
<1>4. \A j \in Syncs \ {i} : Keeps(j)
    BY <1>1 DEF Keeps
<1> QED BY <1>3, <1>4

\* Every step, by what it does to the events.
LEMMA EventStep ==
    ASSUME TypeOK, EventInv, [Next]_vars
    PROVE  EventInv'
<1> USE DEF Next, Advance, Recover
<1>0. ASSUME UNCHANGED sync PROVE \A j \in Syncs : Keeps(j)
    BY <1>0 DEF Keeps
<1>1. ASSUME NEW i \in Syncs, Wake(i) PROVE EventInv'
  <2>1. Goto(i, "heartbeat") /\ ~Holding(i) /\ UNCHANGED eventVars
      BY <1>1 DEF Wake, At, Holding, eventVars, fileVars
  <2> QED BY <2>1, GotoFree, Quiet DEF Free
<1>2. ASSUME NEW i \in Syncs, Heartbeat(i) \/ SyncFcmToken(i) \/ SyncAndExecute(i) \/ CallFails(i)
      PROVE  EventInv'
  <2>1. PICK from \in {"heartbeat", "fcm", "commands"}, to \in Free : Call(i, from, to)
      BY <1>2 DEF Heartbeat, SyncFcmToken, SyncAndExecute, CallFails, AfterCommands, Free
  <2>2. Goto(i, to) /\ ~Holding(i) /\ UNCHANGED eventVars
      BY <2>1 DEF Call, At, Holding, eventVars, fileVars
  <2> QED BY <2>2, GotoFree, Quiet
<1>3. ASSUME NEW i \in Syncs, Check(i) PROVE EventInv'
  <2>1. PICK l \in Free : Goto(i, l)
      BY <1>3 DEF Check, Evaluate, Free
  <2>2. ~Holding(i) /\ UNCHANGED eventVars
      BY <1>3 DEF Check, At, Holding, eventVars, fileVars
  <2> QED BY <2>1, <2>2, GotoFree, Quiet
<1>4. ASSUME NEW i \in Syncs, Report(i) PROVE EventInv'
  <2>1. Goto(i, "store") /\ ~Holding(i) /\ UNCHANGED eventVars
      BY <1>4 DEF Report, At, Holding, eventVars, fileVars
  <2> QED BY <2>1, GotoFree, Quiet DEF Free
<1>5. ASSUME NEW i \in Syncs, StoreOff(i) PROVE EventInv'
  <2>1. Goto(i, "collect") /\ ~Holding(i) /\ UNCHANGED eventVars
      BY <1>5 DEF StoreOff, At, Holding, eventVars, fileVars
  <2> QED BY <2>1, GotoFree, Quiet DEF Free
<1>6. ASSUME NEW i \in Syncs, Collect(i) PROVE EventInv'
  <2>1. Goto(i, "rest") /\ ~Holding(i) /\ ~Between(i) /\ UNCHANGED <<rows, again, dead>>
      BY <1>6 DEF Collect, At, Holding, Between
  <2>2. \A j \in Syncs : Keeps(j)
      BY <2>1, GotoFree DEF Free
  <2>3. CASE UNCHANGED fileVars
      BY <2>1, <2>2, <2>3, Quiet DEF eventVars, fileVars
  <2>4. ASSUME NEW e \in Events, Append1(e), Touches(i, {e})
        PROVE  EventInv'
      BY <2>1, <2>2, <2>4, Adds
  <2> QED BY <1>6, <2>3, <2>4 DEF Collect
<1>7. ASSUME NEW i \in Syncs, Restart(i) PROVE EventInv'
  <2>1. Goto(i, "rest") /\ ~Holding(i) /\ UNCHANGED eventVars
      BY <1>7 DEF Restart, At, Holding, eventVars, fileVars
  <2> QED BY <2>1, GotoFree, Quiet DEF Free
<1>8. ASSUME NEW i \in Syncs, UploadFails(i) PROVE EventInv'
  <2>1. Goto(i, "readd") /\ sync[i].pc = "upload" /\ UNCHANGED eventVars
      BY <1>8 DEF UploadFails, At, eventVars, fileVars
  <2>2. /\ sync'[i] = [pc |-> "readd", hand |-> sync[i].hand, old |-> sync[i].old]
        /\ \A j \in Syncs \ {i} : sync'[j] = sync[j]
      BY <2>1, OneGoto
  <2>3. \A j \in Syncs : Keeps(j)
      BY <2>1, <2>2 DEF Keeps, Between, Holding
  <2> QED BY <2>1, <2>3, Quiet
<1>9. ASSUME NEW e \in Events, Receive(e) PROVE EventInv'
  <2>1. None \notin Syncs
      BY SyncsDiffer DEF Syncs
  <2>2. UNCHANGED <<sync, rows, again, dead>> /\ Append1(e) /\ Touches(None, {e})
      BY <1>9 DEF Receive
  <2> QED BY <1>0, <2>1, <2>2, Adds
<1>10. CASE Toggle \/ Persist \/ UNCHANGED vars
  <2>1. UNCHANGED sync /\ UNCHANGED eventVars
      BY <1>10 DEF Toggle, Persist, vars, eventVars, fileVars
  <2> QED BY <1>0, <2>1, Quiet
<1> QED BY <1>1, <1>2, <1>3, <1>4, <1>5, <1>6, <1>7, <1>8, <1>9, <1>10, DrainReads, DrainClears,
           ReaddReads, ReaddWrites, Uploads, UploadAnswersLost, Kills

-----------------------------------------------------------------------------
(* DropInv *)

Watchdog == {"fcm", "check", "report", "store", "collect"}

\* A sync that goes on without the watchdog storing anything.
LEMMA DropQuiet ==
    ASSUME DropInv, NEW i \in Syncs, \A j \in Syncs \ {i} : sync'[j] = sync[j],
           sync'[i].pc \in Watchdog => i = Supervisor, sync'[i].pc # "store",
           UNCHANGED <<stored, told, missed>>
    PROVE  DropInv'
<1>1. Supervisor \in Syncs
    BY DEF Syncs
<1> QED BY <1>1 DEF DropInv, DropTold, At, Watchdog

LEMMA DropStep ==
    ASSUME TypeOK, DropInv, [Next]_vars
    PROVE  DropInv'
<1> USE DEF Next, Advance, Recover
<1>a. Supervisor \in Syncs
    BY DEF Syncs
<1>b. ASSUME NEW i \in Syncs, NEW l \in Free \cup {"upload", "readd"}, Goto(i, l)
      PROVE  sync'[i].pc = l /\ \A j \in Syncs \ {i} : sync'[j] = sync[j]
  <2>1. /\ sync'[i] = [pc |-> l, hand |-> sync[i].hand, old |-> sync[i].old]
        /\ \A j \in Syncs \ {i} : sync'[j] = sync[j]
      BY <1>b, OneGoto DEF Free
  <2> QED BY <2>1
<1>c. ASSUME NEW i \in Syncs, NEW r \in Sync, Become(i, r), r.pc \notin Watchdog,
             UNCHANGED <<stored, told, missed>>
      PROVE  DropInv'
    BY <1>c, OneSync, DropQuiet DEF Watchdog
<1>d. ASSUME NEW i \in Syncs, NEW l \in Free \cup {"upload", "readd"}, Goto(i, l),
             l \in Watchdog => i = Supervisor, l # "store", UNCHANGED <<stored, told, missed>>
      PROVE  DropInv'
    BY <1>b, <1>d, DropQuiet
<1>1. ASSUME NEW i \in Syncs, Wake(i) \/ Restart(i) PROVE DropInv'
    BY <1>1, <1>d DEF Wake, Restart, tamperVars, Free, Watchdog
<1>2. ASSUME NEW i \in Syncs, Heartbeat(i) PROVE DropInv'
  <2> DEFINE l == IF i = Supervisor THEN "fcm" ELSE "drain"
  <2>1. Goto(i, l) /\ l \in Free /\ l # "store" /\ (l \in Watchdog => i = Supervisor)
        /\ UNCHANGED <<stored, told, missed>>
      BY <1>2 DEF Heartbeat, Call, tamperVars, Free, Watchdog
  <2> HIDE DEF l
  <2> QED BY <1>d, <2>1
<1>3. ASSUME NEW i \in Syncs, SyncAndExecute(i) PROVE DropInv'
  <2> DEFINE l == AfterCommands(i)
  <2>1. Goto(i, l) /\ l \in Free /\ l # "store" /\ (l \in Watchdog => i = Supervisor)
        /\ UNCHANGED <<stored, told, missed>>
      BY <1>3 DEF SyncAndExecute, Call, AfterCommands, tamperVars, Free, Watchdog
  <2> HIDE DEF l
  <2> QED BY <1>d, <2>1
<1>4. ASSUME NEW i \in Syncs, SyncFcmToken(i) PROVE DropInv'
    BY <1>4, <1>d DEF SyncFcmToken, Call, tamperVars, Free, Watchdog
<1>5. ASSUME NEW i \in Syncs, CallFails(i) PROVE DropInv'
    BY <1>5, <1>d DEF CallFails, Call, tamperVars, Free, Watchdog
<1>6. ASSUME NEW i \in Syncs, DrainRead(i) PROVE DropInv'
    BY <1>6, <1>c, Records DEF DrainRead, TypeOK, tamperVars, Watchdog
<1>7. ASSUME NEW i \in Syncs, DrainClear(i) PROVE DropInv'
  <2> DEFINE l == IF sync[i].hand = <<>> THEN "commands" ELSE "upload"
  <2>1. Goto(i, l) /\ l \in Free \cup {"upload"} /\ l # "store" /\ l \notin Watchdog
        /\ UNCHANGED <<stored, told, missed>>
      BY <1>7 DEF DrainClear, tamperVars, Free, Watchdog
  <2> HIDE DEF l
  <2> QED BY <1>d, <2>1
<1>8. ASSUME NEW i \in Syncs, ReaddRead(i) PROVE DropInv'
    BY <1>8, <1>c, Records DEF ReaddRead, TypeOK, tamperVars, Watchdog
<1>9. ASSUME NEW i \in Syncs, ReaddWrite(i) PROVE DropInv'
    BY <1>9, <1>c, Records DEF ReaddWrite, tamperVars, Watchdog
<1>10. ASSUME NEW i \in Syncs, Upload(i) PROVE DropInv'
    BY <1>10, <1>c, Records DEF Upload, tamperVars, Watchdog
<1>11. ASSUME NEW i \in Syncs, UploadAnswerLost(i) \/ UploadFails(i) PROVE DropInv'
    BY <1>11, <1>d DEF UploadAnswerLost, UploadFails, tamperVars, Watchdog
<1>12. ASSUME NEW i \in Syncs, Check(i) PROVE DropInv'
  <2>1. i = Supervisor /\ layer \in {"on", "off"} /\ stored \in {"unset", "on", "off"}
      BY <1>12 DEF Check, At, DropInv, TypeOK
  <2>2. CASE Goto(i, "report") /\ UNCHANGED <<stored, told, missed>>
      BY <1>d, <2>1, <2>2 DEF Free
  <2>3. CASE Goto(i, "collect") /\ (stored' = "off" => told' \/ missed')
    <3>1. sync'[i].pc = "collect" /\ \A j \in Syncs \ {i} : sync'[j] = sync[j]
        BY <1>b, <2>3 DEF Free
    <3> QED BY <1>a, <2>1, <2>3, <3>1 DEF DropInv, DropTold, At
  <2>4. ASSUME Seeded, ~(stored = "on" /\ layer = "off"), Store(layer), stored' = "off"
        PROVE  told' \/ missed'
      BY <2>1, <2>4 DEF Seeded, Store, DropInv, DropTold
  <2>5. ASSUME stored' = layer, missed' = (layer = "off"), stored' = "off" PROVE missed'
      BY <2>5
  <2> QED BY <1>12, <2>2, <2>3, <2>4, <2>5 DEF Check, Evaluate
<1>13. ASSUME NEW i \in Syncs, Report(i) PROVE DropInv'
  <2>1. Goto(i, "store") /\ i = Supervisor /\ (told' \/ missed')
      BY <1>13 DEF Report, At, DropInv
  <2>2. sync'[i].pc = "store" /\ \A j \in Syncs \ {i} : sync'[j] = sync[j]
      BY <1>b, <2>1 DEF Free
  <2> QED BY <2>1, <2>2 DEF DropInv, DropTold
<1>14. ASSUME NEW i \in Syncs, StoreOff(i) PROVE DropInv'
  <2>1. Goto(i, "collect") /\ i = Supervisor /\ (told \/ missed)
      BY <1>14 DEF StoreOff, At, DropInv
  <2>2. told' \/ missed'
      BY <1>14, <2>1 DEF StoreOff, Store
  <2>3. sync'[i].pc = "collect" /\ \A j \in Syncs \ {i} : sync'[j] = sync[j]
      BY <1>b, <2>1 DEF Free
  <2> QED BY <1>a, <2>1, <2>2, <2>3 DEF DropInv, DropTold, At
<1>15. ASSUME NEW i \in Syncs, Collect(i) PROVE DropInv'
    BY <1>15, <1>d DEF Collect, tamperVars, Free, Watchdog
<1>16. CASE Kill
  <2>1. \A i \in Syncs : sync'[i].pc = "off"
      BY <1>16, Records DEF Kill
  <2>2. /\ stored' = disk /\ told' = told
        /\ missed' = (missed \/ stored # disk)
      BY <1>16 DEF Kill
  <2>3. stored' = "off" => told' \/ missed'
      BY <2>2 DEF DropInv, DropTold
  <2> QED BY <1>a, <2>1, <2>3 DEF DropInv, DropTold, At
<1>17. CASE Toggle \/ Persist \/ UNCHANGED vars \/ \E e \in Events : Receive(e)
  <2>1. UNCHANGED <<sync, stored, told, missed>>
      BY <1>17 DEF Toggle, Persist, vars, tamperVars, Receive
  <2> QED BY <2>1 DEF DropInv, DropTold, At
<1> QED BY <1>1, <1>2, <1>3, <1>4, <1>5, <1>6, <1>7, <1>8, <1>9, <1>10, <1>11, <1>12, <1>13,
           <1>14, <1>15, <1>16, <1>17

-----------------------------------------------------------------------------
(* TypeOK *)

LEMMA InEvents ==
    ASSUME TypeOK
    PROVE  In(file) \subseteq Events /\ \A i \in Syncs : In(sync[i].hand) \subseteq Events
BY InSeq DEF TypeOK, Sync

LEMMA TouchesType ==
    ASSUME TypeOK, NEW i, NEW es \in SUBSET Events, Touches(i, es)
    PROVE  raced' \subseteq Events /\ races' \in 0..MaxRaces
<1> DEFINE others == {j \in Syncs \ {i} : Between(j)}
           hands == {In(sync[j].hand) : j \in others}
<1>1. CASE UNCHANGED <<raced, races>>
    BY <1>1 DEF TypeOK
<1>2. CASE /\ races < MaxRaces /\ races' = races + 1
           /\ raced' = raced \cup es \cup In(file) \cup UNION hands
  <2>1. \A h \in hands : h \subseteq Events
      BY InEvents
  <2> HIDE DEF hands
  <2>2. UNION hands \subseteq Events
      BY <2>1
  <2>3. raced' \subseteq Events
      BY <1>2, <2>2, InEvents DEF TypeOK
  <2>4. races' \in 0..MaxRaces
      BY <1>2, BoundsAreNat DEF TypeOK
  <2> QED BY <2>3, <2>4
<1> QED BY <1>1, <1>2 DEF Touches

LEMMA AppendType ==
    ASSUME TypeOK, NEW e \in Events, Append1(e)
    PROVE  file' \in Seq(Events) /\ buffered' \subseteq Events
BY DEF TypeOK, Append1

LEMMA FaultType ==
    ASSUME TypeOK, Fault
    PROVE  faults' \in 0..MaxFaults
BY BoundsAreNat DEF TypeOK, Fault

LEMMA IngestType ==
    ASSUME TypeOK, NEW batch, Ingest(batch)
    PROVE  rows' \in [Events -> 0..2]
BY DEF TypeOK, Ingest

\* TypeOK by groups of variables that a step changes together.
FileType ==
    /\ file \in Seq(Events)
    /\ buffered \subseteq Events /\ raced \subseteq Events /\ races \in 0..MaxRaces
TamperType ==
    /\ layer \in {"on", "off"} /\ {stored, disk} \subseteq {"unset", "on", "off"}
    /\ told \in BOOLEAN /\ missed \in BOOLEAN
RestType ==
    /\ rows \in [Events -> 0..2] /\ faults \in 0..MaxFaults
    /\ again \subseteq Events /\ dead \subseteq Events

LEMMA Types == TypeOK <=> FileType /\ TamperType /\ RestType /\ sync \in [Syncs -> Sync]
BY DEF TypeOK, FileType, TamperType, RestType

LEMMA TypeStep ==
    ASSUME TypeOK, [Next]_vars
    PROVE  TypeOK'
<1> USE DEF Next, Advance, Recover
<1>a. FileType /\ TamperType /\ RestType /\ sync \in [Syncs -> Sync]
    BY Types
<1>b. SUFFICES FileType' /\ TamperType' /\ RestType' /\ (sync \in [Syncs -> Sync])'
    BY DEF TypeOK, FileType, TamperType, RestType
<1>f. UNCHANGED fileVars => FileType'
    BY <1>a DEF FileType, fileVars
<1>t. UNCHANGED tamperVars => TamperType'
    BY <1>a DEF TamperType, tamperVars
<1>r. UNCHANGED <<rows, again, dead>> /\ (UNCHANGED faults \/ Fault) => RestType'
    BY <1>a, FaultType DEF RestType
<1>g. ASSUME NEW i \in Syncs, NEW l \in Free \cup {"upload", "readd"}, Goto(i, l)
      PROVE  sync' \in [Syncs -> Sync]
    BY <1>g, OneGoto DEF Free
<1>1. ASSUME NEW i \in Syncs, Wake(i) \/ Restart(i)
      PROVE  FileType' /\ TamperType' /\ RestType' /\ sync' \in [Syncs -> Sync]
    BY <1>1, <1>f, <1>t, <1>r, <1>g DEF Wake, Restart, Free
<1>2. ASSUME NEW i \in Syncs, Heartbeat(i) \/ SyncFcmToken(i) \/ SyncAndExecute(i) \/ CallFails(i)
      PROVE  FileType' /\ TamperType' /\ RestType' /\ sync' \in [Syncs -> Sync]
  <2>1. PICK from, to \in Free : Call(i, from, to) /\ (UNCHANGED faults \/ Fault)
      BY <1>2 DEF Heartbeat, SyncFcmToken, SyncAndExecute, CallFails, AfterCommands, Free
  <2>2. Goto(i, to) /\ UNCHANGED <<fileVars, rows, tamperVars, again, dead>>
      BY <2>1 DEF Call
  <2> QED BY <2>1, <2>2, <1>f, <1>t, <1>r, <1>g
<1>3. ASSUME NEW i \in Syncs, DrainRead(i)
      PROVE  FileType' /\ TamperType' /\ RestType' /\ sync' \in [Syncs -> Sync]
  <2>1. sync' \in [Syncs -> Sync]
      BY <1>3, OneSync, Records DEF DrainRead, TypeOK
  <2>2. Touches(i, {}) /\ UNCHANGED <<file, buffered, rows, tamperVars, faults, again, dead>>
      BY <1>3 DEF DrainRead
  <2>3. FileType'
      BY <2>2, <1>a, TouchesType DEF FileType
  <2> QED BY <2>1, <2>2, <2>3, <1>t, <1>r
<1>4. ASSUME NEW i \in Syncs, DrainClear(i)
      PROVE  FileType' /\ TamperType' /\ RestType' /\ sync' \in [Syncs -> Sync]
  <2> DEFINE l == IF sync[i].hand = <<>> THEN "commands" ELSE "upload"
  <2>1. Goto(i, l) /\ l \in Free \cup {"upload", "readd"}
      BY <1>4 DEF DrainClear, Free
  <2> HIDE DEF l
  <2>2. file' = <<>> /\ UNCHANGED <<buffered, raced, races, rows, tamperVars, faults, again, dead>>
      BY <1>4 DEF DrainClear, Cleared
  <2>3. FileType'
      BY <2>2, <1>a DEF FileType
  <2> QED BY <2>1, <2>2, <2>3, <1>g, <1>t, <1>r
<1>5. ASSUME NEW i \in Syncs, ReaddRead(i)
      PROVE  FileType' /\ TamperType' /\ RestType' /\ sync' \in [Syncs -> Sync]
  <2>1. sync' \in [Syncs -> Sync]
      BY <1>5, OneSync, Records DEF ReaddRead, TypeOK
  <2>2. Touches(i, In(sync[i].hand)) /\ UNCHANGED <<file, buffered, rows, tamperVars, faults, again, dead>>
      BY <1>5 DEF ReaddRead
  <2>3. FileType'
      BY <2>2, <1>a, TouchesType, InEvents DEF FileType
  <2> QED BY <2>1, <2>2, <2>3, <1>t, <1>r
<1>6. ASSUME NEW i \in Syncs, ReaddWrite(i)
      PROVE  FileType' /\ TamperType' /\ RestType' /\ sync' \in [Syncs -> Sync]
  <2>1. sync' \in [Syncs -> Sync]
      BY <1>6, OneSync, Records DEF ReaddWrite
  <2>2. sync[i].hand \in Seq(Events) /\ sync[i].old \in Seq(Events)
      BY <1>a DEF Sync
  <2>3. file' = sync[i].hand \o sync[i].old
        /\ UNCHANGED <<buffered, raced, races, rows, tamperVars, faults, again, dead>>
      BY <1>6 DEF ReaddWrite, Requeued
  <2>4. FileType'
      BY <2>2, <2>3, <1>a DEF FileType
  <2> QED BY <2>1, <2>3, <2>4, <1>t, <1>r
<1>7. ASSUME NEW i \in Syncs, Upload(i)
      PROVE  FileType' /\ TamperType' /\ RestType' /\ sync' \in [Syncs -> Sync]
  <2>1. sync' \in [Syncs -> Sync]
      BY <1>7, OneSync, Records DEF Upload
  <2>2. Ingest(sync[i].hand) /\ UNCHANGED <<fileVars, tamperVars, faults, again, dead>>
      BY <1>7 DEF Upload
  <2>3. RestType'
      BY <2>2, <1>a, IngestType DEF RestType
  <2> QED BY <2>1, <2>2, <2>3, <1>f, <1>t
<1>8. ASSUME NEW i \in Syncs, UploadAnswerLost(i)
      PROVE  FileType' /\ TamperType' /\ RestType' /\ sync' \in [Syncs -> Sync]
  <2>1. /\ Goto(i, "readd") /\ Ingest(sync[i].hand) /\ again' = again \cup In(sync[i].hand) /\ Fault
        /\ UNCHANGED <<fileVars, tamperVars, dead>>
      BY <1>8 DEF UploadAnswerLost
  <2>2. RestType'
      BY <2>1, <1>a, IngestType, FaultType, InEvents DEF RestType
  <2> QED BY <2>1, <2>2, <1>f, <1>t, <1>g
<1>9. ASSUME NEW i \in Syncs, UploadFails(i)
      PROVE  FileType' /\ TamperType' /\ RestType' /\ sync' \in [Syncs -> Sync]
  <2>1. /\ Goto(i, "readd") /\ UNCHANGED <<fileVars, rows, tamperVars, again, dead>>
        /\ UNCHANGED faults \/ Fault
      BY <1>9 DEF UploadFails
  <2> QED BY <2>1, <1>f, <1>t, <1>r, <1>g
<1>10. ASSUME NEW i \in Syncs, Check(i) \/ Report(i) \/ StoreOff(i)
       PROVE  FileType' /\ TamperType' /\ RestType' /\ sync' \in [Syncs -> Sync]
  <2>1. /\ UNCHANGED <<fileVars, rows, layer, disk, faults, again, dead>>
        /\ \E l \in Free : Goto(i, l)
      BY <1>10 DEF Check, Evaluate, Report, StoreOff, Free
  <2>2. TamperType'
    <3>1. CASE Check(i)
        BY <1>a, <3>1 DEF TamperType, Check, Evaluate, Store
    <3>2. CASE Report(i)
        BY <1>a, <3>2 DEF TamperType, Report
    <3>3. CASE StoreOff(i)
        BY <1>a, <3>3 DEF TamperType, StoreOff, Store
    <3> QED BY <1>10, <3>1, <3>2, <3>3
  <2> QED BY <2>1, <2>2, <1>f, <1>r, <1>g
<1>11. ASSUME NEW i \in Syncs, Collect(i)
       PROVE  FileType' /\ TamperType' /\ RestType' /\ sync' \in [Syncs -> Sync]
  <2>1. Goto(i, "rest") /\ UNCHANGED <<rows, tamperVars, faults, again, dead>>
      BY <1>11 DEF Collect
  <2>2. ASSUME NEW e \in Events, Append1(e), Touches(i, {e}) PROVE FileType'
      BY <2>2, AppendType, TouchesType DEF FileType
  <2>3. FileType'
      BY <1>11, <2>2, <1>f DEF Collect
  <2> QED BY <2>1, <2>3, <1>t, <1>r, <1>g DEF Free
<1>12. ASSUME NEW e \in Events, Receive(e)
       PROVE  FileType' /\ TamperType' /\ RestType' /\ sync' \in [Syncs -> Sync]
  <2>1. Append1(e) /\ Touches(None, {e}) /\ UNCHANGED <<sync, rows, tamperVars, faults, again, dead>>
      BY <1>12 DEF Receive
  <2>2. FileType'
      BY <2>1, AppendType, TouchesType DEF FileType
  <2> QED BY <2>1, <2>2, <1>a, <1>t, <1>r
<1>13. CASE Toggle \/ Persist
  <2>1. UNCHANGED <<fileVars, sync, rows, faults, again, dead>>
      BY <1>13 DEF Toggle, Persist
  <2>2. TamperType'
      BY <1>13, <1>a DEF Toggle, Persist, TamperType
  <2> QED BY <2>1, <2>2, <1>a, <1>f, <1>r
<1>14. CASE Kill
  <2> DEFINE hands == {In(sync[i].hand) : i \in Syncs}
  <2>1. /\ UNCHANGED <<buffered, raced, races, rows, layer, disk, told, again>> /\ Fault
        /\ stored' = disk /\ missed' = (missed \/ stored # disk)
        /\ dead' = dead \cup ((In(file) \cup UNION hands) \ In(file'))
        /\ sync' = [i \in Syncs |-> [Resting EXCEPT !.pc = "off"]]
      BY <1>14 DEF Kill
  <2>2. In(file) \subseteq Events /\ \A h \in hands : h \subseteq Events
      BY InEvents
  <2> HIDE DEF hands
  <2>3. RestType'
      BY <2>1, <2>2, <1>a, FaultType DEF RestType
  <2>4. TamperType'
      BY <2>1, <1>a DEF TamperType
  <2>5. sync' \in [Syncs -> Sync]
      BY <2>1, Records
  <2>6. FileType'
    <3>1. file' \in Seq(Events)
        BY <1>14, LeftForm DEF Kill
    <3> QED BY <2>1, <3>1, <1>a DEF FileType
  <2> QED BY <2>3, <2>4, <2>5, <2>6
<1>15. CASE UNCHANGED vars
    BY <1>15, <1>a, <1>f, <1>t, <1>r DEF vars
<1> QED BY <1>1, <1>2, <1>3, <1>4, <1>5, <1>6, <1>7, <1>8, <1>9, <1>10, <1>11, <1>12, <1>13,
           <1>14, <1>15

-----------------------------------------------------------------------------
(* The theorems *)

LEMMA Initially == Init => IInv
<1> SUFFICES ASSUME Init PROVE IInv
    OBVIOUS
<1>1. TypeOK
  <2>1. Resting \in Sync /\ <<>> \in Seq(Events)
    <3>1. <<>> \in Seq(Events)
        OBVIOUS
    <3> QED BY <3>1, Records
  <2>2. 0 \in 0..MaxRaces /\ 0 \in 0..MaxFaults
      BY BoundsAreNat
  <2>3. FileType /\ TamperType
      BY <2>1, <2>2 DEF Init, FileType, TamperType
  <2>4. RestType /\ sync \in [Syncs -> Sync]
      BY <2>1, <2>2 DEF Init, RestType
  <2> QED BY <2>3, <2>4, Types
<1>2. \A i \in Syncs : /\ sync[i].pc = "rest" /\ Hand(i) = {} /\ Old(i) = {}
                      /\ ~Between(i) /\ ~At(i, "clear") /\ ~At(i, "rewrite")
    BY Records, InEmpty DEF Init, Hand, Old, Between, At
<1>3. In(file) = {} /\ buffered = {} /\ \A e \in Events : rows[e] = 0
    BY InEmpty DEF Init
<1>4. Known /\ EmptyHands /\ Views /\ Overlaps /\ OnePlace /\ Once /\ EventKept
    BY <1>2, <1>3 DEF Known, EmptyHands, Views, Overlaps, OnePlace, Once, EventKept
<1>5. DropInv
    BY <1>2 DEF Init, DropInv, DropTold, At, Syncs
<1> QED BY <1>1, <1>4, <1>5 DEF IInv, EventInv

\* The strengthened invariant: of every event that no overlap touched, where it is;
\* of the layer, that only the supervisor's watchdog is between report and store.
THEOREM Invariance == Spec => []IInv
<1>1. IInv /\ [Next]_vars => IInv'
    BY TypeStep, EventStep, DropStep DEF IInv
<1> QED BY <1>1, Initially, PTL DEF Spec

\* The buffer, the syncs' memory, the table and the watchdog's preferences are what
\* their declarations say.
THEOREM TypeCorrect == Spec => []TypeOK
<1>1. IInv => TypeOK
    BY DEF IInv
<1> QED BY <1>1, Invariance, PTL

\* Whatever syncs and receivers do in whatever order, an event leaves EventBuffer
\* only for a sync that holds it and the sync only for the table or back.
THEOREM EventsKept == Spec => []EventKept
<1>1. IInv => EventKept
    BY DEF IInv, EventInv
<1> QED BY <1>1, Invariance, PTL

\* flush and ingestBatch store an event twice only after a lost answer or an overlap.
THEOREM EventsStoredOnce == Spec => []StoredOnce
<1>1. IInv => StoredOnce
    BY DEF IInv, TypeOK, EventInv, Once, StoredOnce
<1> QED BY <1>1, Invariance, PTL

\* TamperWatchdog stores a drop it saw only after its report, across restarts.
THEOREM DropsTold == Spec => []DropTold
<1>1. IInv => DropTold
    BY DEF IInv, DropInv
<1> QED BY <1>1, Invariance, PTL
=============================================================================
