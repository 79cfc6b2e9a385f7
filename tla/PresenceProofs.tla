--------------------------- MODULE PresenceProofs ---------------------------
(***************************************************************************)
(* What holds of presence for every number of devices, of beats and of     *)
(* overlapping reconciliations, and for every grace period. The invariant  *)
(* IInv of Presence is inductive, one lemma for each of its conjuncts; the *)
(* lemmas have a step for each action.                                     *)
(***************************************************************************)
EXTENDS Presence, TLAPS

\* The records the actions build are beats and reconciliations.
LEMMA RecordTypes ==
    /\ \A x \in Beat :
         /\ \A p \in {"idle", "redis", "read", "write", "report"} :
              [x EXCEPT !.pc = p] \in Beat
         /\ \A w \in BOOLEAN : [x EXCEPT !.pc = "write", !.wasDark = w] \in Beat
    /\ \A x \in Reconcile :
         /\ [x EXCEPT !.pc = "alert"] \in Reconcile
         /\ [x EXCEPT !.pc = "loop", !.cur = NoDevice] \in Reconcile
    /\ NoBeat \in Beat
    /\ \A d \in Devices : [NoBeat EXCEPT !.pc = "redis", !.dev = d] \in Beat
    /\ NoReconcile \in Reconcile
    /\ \A t \in SUBSET Devices : [NoReconcile EXCEPT !.pc = "loop", !.todo = t] \in Reconcile
    BY DEF Beat, Reconcile, NoBeat, NoReconcile

\* Going on to the next device leaves a reconciliation.
LEMMA NextDeviceType == TypeOK => \A r \in Reconciles : NextDevice(r) \in Reconcile
    BY RecordTypes DEF TypeOK, NextDevice

\* A tick keeps an age within its bound, and the order of two ages.
LEMMA OlderIsMonotone ==
    \A m, n \in 0..Grace + 1 :
      Older(m) \in 0..Grace + 1 /\ (m <= n => Older(m) <= Older(n))
    BY GraceIsNat DEF Older

\* Every step keeps the types.
LEMMA TypeStep == IInv /\ [Next]_vars => TypeOK'
<1> SUFFICES ASSUME IInv, [Next]_vars
             PROVE  TypeOK'
    OBVIOUS
<1> USE GraceIsNat, NoDeviceIsNew DEF IInv, TypeOK, rowVars, historyVars
<1>1. ASSUME NEW b \in Beats, NEW d \in Devices, BeatArrives(b, d)
      PROVE  TypeOK'
  <2>1. beat' \in [Beats -> Beat]
      BY <1>1, RecordTypes DEF BeatArrives
  <2> QED
      BY <1>1, <2>1 DEF BeatArrives
<1>2. ASSUME NEW b \in Beats, BeatPresence(b)
      PROVE  TypeOK'
  <2>1. beat' \in [Beats -> Beat]
      BY <1>2, RecordTypes DEF BeatPresence
  <2> QED
      BY <1>2, <2>1 DEF BeatPresence
<1>3. ASSUME NEW b \in Beats, BeatRead(b)
      PROVE  TypeOK'
  <2>1. beat' \in [Beats -> Beat]
      BY <1>3, RecordTypes DEF BeatRead, WasDark
  <2> QED
      BY <1>3, <2>1 DEF BeatRead
<1>4. ASSUME NEW b \in Beats, BeatWrite(b)
      PROVE  TypeOK'
  <2>1. beat' \in [Beats -> Beat]
      BY <1>4, RecordTypes DEF BeatWrite
  <2>2. beat[b].dev \in Devices
      BY <1>4 DEF BeatWrite, BeatsLinked
  <2> QED
      BY <1>4, <2>1, <2>2 DEF BeatWrite, CheckedIn
<1>5. ASSUME NEW b \in Beats, BeatReport(b)
      PROVE  TypeOK'
  <2>1. beat' \in [Beats -> Beat]
      BY <1>5, RecordTypes DEF BeatReport
  <2>2. crossed' \in [Devices -> BOOLEAN]
      BY <1>5 DEF BeatReport, Darkening
  <2>3. last' \in [Devices -> {"none", "WENT_DARK", "RECOVERED"}]
      BY <1>5 DEF BeatReport
  <2> QED
      BY <1>5, <2>1, <2>2, <2>3 DEF BeatReport
<1>6. ASSUME NEW b \in Beats, BeatThrows(b)
      PROVE  TypeOK'
  <2>1. beat' \in [Beats -> Beat]
      BY <1>6, RecordTypes DEF BeatThrows
  <2> QED
      BY <1>6, <2>1 DEF BeatThrows
<1>7. ASSUME NEW d \in Devices, Touch(d)
      PROVE  TypeOK'
    BY <1>7 DEF Touch
<1>8. ASSUME NEW r \in Reconciles, Scan(r)
      PROVE  TypeOK'
  <2>1. rec' \in [Reconciles -> Reconcile]
      BY <1>8, RecordTypes DEF Scan, Stale
  <2> QED
      BY <1>8, <2>1 DEF Scan
<1>9. ASSUME NEW r \in Reconciles, NEW d \in Devices, Darken(r, d)
      PROVE  TypeOK'
  <2> DEFINE next == [pc |-> "event", todo |-> rec[r].todo \ {d}, cur |-> d]
  <2>1. next \in Reconcile
      BY DEF Reconcile
  <2>2. rec' = [rec EXCEPT ![r] = next]
      BY <1>9 DEF Darken
  <2>3. rec' \in [Reconciles -> Reconcile]
      BY <2>1, <2>2
  <2>4. status' \in [Devices -> {"ONLINE", "DARK", "GONE"}]
      BY <1>9 DEF Darken
  <2>5. cut' \in [Devices -> BOOLEAN]
      BY <1>9 DEF Darken
  <2> QED
      BY <1>9, <2>3, <2>4, <2>5 DEF Darken
<1>10. ASSUME NEW r \in Reconciles, Event(r)
      PROVE  TypeOK'
  <2>1. rec' \in [Reconciles -> Reconcile]
      BY <1>10, RecordTypes DEF Event, RaiseAlert
  <2> QED
      BY <1>10, <2>1 DEF Event
<1>11. ASSUME NEW r \in Reconciles, Alert(r)
      PROVE  TypeOK'
  <2>1. rec' \in [Reconciles -> Reconcile]
      BY <1>11, NextDeviceType DEF Alert
  <2> QED
      BY <1>11, <2>1 DEF Alert
<1>12. ASSUME NEW r \in Reconciles, ReconcileThrows(r)
      PROVE  TypeOK'
  <2>1. rec' \in [Reconciles -> Reconcile]
      BY <1>12, RecordTypes DEF ReconcileThrows
  <2> QED
      BY <1>12, <2>1 DEF ReconcileThrows
<1>13. ASSUME Tick
      PROVE  TypeOK'
    BY <1>13, OlderIsMonotone DEF Tick
<1>14. ASSUME RedisToggles
      PROVE  TypeOK'
    BY <1>14 DEF RedisToggles
<1>15. ASSUME NEW d \in Devices, GoesSilent(d)
      PROVE  TypeOK'
    BY <1>15 DEF GoesSilent
<1>16. ASSUME NEW d \in Devices, Remove(d)
      PROVE  TypeOK'
    BY <1>16 DEF Remove
<1>17. ASSUME Crash
      PROVE  TypeOK'
  <2>1. beat' \in [Beats -> Beat] /\ rec' \in [Reconciles -> Reconcile]
      BY <1>17, RecordTypes DEF Crash
  <2> QED
      BY <1>17, <2>1 DEF Crash
<1>18. CASE UNCHANGED vars
    BY <1>18 DEF vars
<1> QED
    BY <1>1, <1>2, <1>3, <1>4, <1>5, <1>6, <1>7, <1>8, <1>9, <1>10, <1>11, <1>12,
        <1>13, <1>14, <1>15, <1>16, <1>17, <1>18 DEF Next, BeatStep, Report

\* Every step keeps what holds of a beat at work.
LEMMA BeatsStep == IInv /\ [Next]_vars => BeatsLinked'
<1> SUFFICES ASSUME IInv, [Next]_vars
             PROVE  BeatsLinked'
    OBVIOUS
<1> USE GraceIsNat, NoDeviceIsNew DEF IInv, TypeOK, BeatsLinked, Beat, NoBeat, rowVars,
    historyVars
<1>1. ASSUME NEW b \in Beats, NEW d \in Devices, BeatArrives(b, d)
      PROVE  BeatsLinked'
    BY <1>1 DEF BeatArrives
<1>2. ASSUME NEW b \in Beats, BeatPresence(b)
      PROVE  BeatsLinked'
    BY <1>2 DEF BeatPresence
<1>3. ASSUME NEW b \in Beats, BeatRead(b)
      PROVE  BeatsLinked'
    BY <1>3 DEF BeatRead
<1>4. ASSUME NEW b \in Beats, BeatWrite(b)
      PROVE  BeatsLinked'
    BY <1>4 DEF BeatWrite
<1>5. ASSUME NEW b \in Beats, BeatReport(b)
      PROVE  BeatsLinked'
    BY <1>5 DEF BeatReport
<1>6. ASSUME NEW b \in Beats, BeatThrows(b)
      PROVE  BeatsLinked'
    BY <1>6 DEF BeatThrows
<1>7. ASSUME NEW d \in Devices, Touch(d)
      PROVE  BeatsLinked'
    BY <1>7 DEF Touch
<1>8. ASSUME NEW r \in Reconciles, Scan(r)
      PROVE  BeatsLinked'
    BY <1>8 DEF Scan
<1>9. ASSUME NEW r \in Reconciles, NEW d \in Devices, Darken(r, d)
      PROVE  BeatsLinked'
    BY <1>9 DEF Darken
<1>10. ASSUME NEW r \in Reconciles, Event(r)
      PROVE  BeatsLinked'
    BY <1>10 DEF Event
<1>11. ASSUME NEW r \in Reconciles, Alert(r)
      PROVE  BeatsLinked'
    BY <1>11 DEF Alert
<1>12. ASSUME NEW r \in Reconciles, ReconcileThrows(r)
      PROVE  BeatsLinked'
    BY <1>12 DEF ReconcileThrows
<1>13. ASSUME Tick
      PROVE  BeatsLinked'
    BY <1>13 DEF Tick
<1>14. ASSUME RedisToggles
      PROVE  BeatsLinked'
    BY <1>14 DEF RedisToggles
<1>15. ASSUME NEW d \in Devices, GoesSilent(d)
      PROVE  BeatsLinked'
    BY <1>15 DEF GoesSilent
<1>16. ASSUME NEW d \in Devices, Remove(d)
      PROVE  BeatsLinked'
    BY <1>16 DEF Remove
<1>17. ASSUME Crash
      PROVE  BeatsLinked'
    BY <1>17 DEF Crash
<1>18. CASE UNCHANGED vars
    BY <1>18 DEF vars
<1> QED
    BY <1>1, <1>2, <1>3, <1>4, <1>5, <1>6, <1>7, <1>8, <1>9, <1>10, <1>11, <1>12,
        <1>13, <1>14, <1>15, <1>16, <1>17, <1>18 DEF Next, BeatStep, Report

\* Every step keeps the current device of a reconciliation.
LEMMA ReconcilesStep == IInv /\ [Next]_vars => ReconcilesLinked'
<1> SUFFICES ASSUME IInv, [Next]_vars
             PROVE  ReconcilesLinked'
    OBVIOUS
<1> USE GraceIsNat, NoDeviceIsNew DEF IInv, TypeOK, ReconcilesLinked, Reconcile,
    NoReconcile, rowVars, historyVars
<1>1. ASSUME NEW b \in Beats, NEW d \in Devices, BeatArrives(b, d)
      PROVE  ReconcilesLinked'
    BY <1>1 DEF BeatArrives
<1>2. ASSUME NEW b \in Beats, BeatPresence(b)
      PROVE  ReconcilesLinked'
    BY <1>2 DEF BeatPresence
<1>3. ASSUME NEW b \in Beats, BeatRead(b)
      PROVE  ReconcilesLinked'
    BY <1>3 DEF BeatRead
<1>4. ASSUME NEW b \in Beats, BeatWrite(b)
      PROVE  ReconcilesLinked'
    BY <1>4 DEF BeatWrite
<1>5. ASSUME NEW b \in Beats, BeatReport(b)
      PROVE  ReconcilesLinked'
    BY <1>5 DEF BeatReport
<1>6. ASSUME NEW b \in Beats, BeatThrows(b)
      PROVE  ReconcilesLinked'
    BY <1>6 DEF BeatThrows
<1>7. ASSUME NEW d \in Devices, Touch(d)
      PROVE  ReconcilesLinked'
    BY <1>7 DEF Touch
<1>8. ASSUME NEW r \in Reconciles, Scan(r)
      PROVE  ReconcilesLinked'
    BY <1>8 DEF Scan
<1>9. ASSUME NEW r \in Reconciles, NEW d \in Devices, Darken(r, d)
      PROVE  ReconcilesLinked'
    BY <1>9 DEF Darken
<1>10. ASSUME NEW r \in Reconciles, Event(r)
      PROVE  ReconcilesLinked'
    BY <1>10 DEF Event, RaiseAlert
<1>11. ASSUME NEW r \in Reconciles, Alert(r)
      PROVE  ReconcilesLinked'
    BY <1>11 DEF Alert, NextDevice
<1>12. ASSUME NEW r \in Reconciles, ReconcileThrows(r)
      PROVE  ReconcilesLinked'
    BY <1>12 DEF ReconcileThrows
<1>13. ASSUME Tick
      PROVE  ReconcilesLinked'
    BY <1>13 DEF Tick
<1>14. ASSUME RedisToggles
      PROVE  ReconcilesLinked'
    BY <1>14 DEF RedisToggles
<1>15. ASSUME NEW d \in Devices, GoesSilent(d)
      PROVE  ReconcilesLinked'
    BY <1>15 DEF GoesSilent
<1>16. ASSUME NEW d \in Devices, Remove(d)
      PROVE  ReconcilesLinked'
    BY <1>16 DEF Remove
<1>17. ASSUME Crash
      PROVE  ReconcilesLinked'
    BY <1>17 DEF Crash
<1>18. CASE UNCHANGED vars
    BY <1>18 DEF vars
<1> QED
    BY <1>1, <1>2, <1>3, <1>4, <1>5, <1>6, <1>7, <1>8, <1>9, <1>10, <1>11, <1>12,
        <1>13, <1>14, <1>15, <1>16, <1>17, <1>18 DEF Next, BeatStep, Report

\* Every step keeps lastSeenAt up to date where no beat is on its way or lost.
LEMMA SeenStep == IInv /\ [Next]_vars => SeenWhenHeard'
<1> SUFFICES ASSUME IInv, [Next]_vars
             PROVE  SeenWhenHeard'
    OBVIOUS
<1> USE GraceIsNat, NoDeviceIsNew DEF IInv, TypeOK, BeatsLinked, SeenWhenHeard, Beat,
    NoBeat, rowVars, historyVars
<1>1. ASSUME NEW b \in Beats, NEW d \in Devices, BeatArrives(b, d)
      PROVE  SeenWhenHeard'
    BY <1>1 DEF BeatArrives
<1>2. ASSUME NEW b \in Beats, BeatPresence(b)
      PROVE  SeenWhenHeard'
    BY <1>2 DEF BeatPresence
<1>3. ASSUME NEW b \in Beats, BeatRead(b)
      PROVE  SeenWhenHeard'
    BY <1>3 DEF BeatRead
<1>4. ASSUME NEW b \in Beats, BeatWrite(b)
      PROVE  SeenWhenHeard'
    BY <1>4 DEF BeatWrite
<1>5. ASSUME NEW b \in Beats, BeatReport(b)
      PROVE  SeenWhenHeard'
    BY <1>5 DEF BeatReport
<1>6. ASSUME NEW b \in Beats, BeatThrows(b)
      PROVE  SeenWhenHeard'
    BY <1>6 DEF BeatThrows
<1>7. ASSUME NEW d \in Devices, Touch(d)
      PROVE  SeenWhenHeard'
    BY <1>7 DEF Touch
<1>8. ASSUME NEW r \in Reconciles, Scan(r)
      PROVE  SeenWhenHeard'
    BY <1>8 DEF Scan
<1>9. ASSUME NEW r \in Reconciles, NEW d \in Devices, Darken(r, d)
      PROVE  SeenWhenHeard'
    BY <1>9 DEF Darken
<1>10. ASSUME NEW r \in Reconciles, Event(r)
      PROVE  SeenWhenHeard'
    BY <1>10 DEF Event
<1>11. ASSUME NEW r \in Reconciles, Alert(r)
      PROVE  SeenWhenHeard'
    BY <1>11 DEF Alert
<1>12. ASSUME NEW r \in Reconciles, ReconcileThrows(r)
      PROVE  SeenWhenHeard'
    BY <1>12 DEF ReconcileThrows
<1>13. ASSUME Tick
      PROVE  SeenWhenHeard'
    BY <1>13, OlderIsMonotone DEF Tick
<1>14. ASSUME RedisToggles
      PROVE  SeenWhenHeard'
    BY <1>14 DEF RedisToggles
<1>15. ASSUME NEW d \in Devices, GoesSilent(d)
      PROVE  SeenWhenHeard'
    BY <1>15 DEF GoesSilent
<1>16. ASSUME NEW d \in Devices, Remove(d)
      PROVE  SeenWhenHeard'
    BY <1>16 DEF Remove
<1>17. ASSUME Crash
      PROVE  SeenWhenHeard'
    BY <1>17 DEF Crash
<1>18. CASE UNCHANGED vars
    BY <1>18 DEF vars
<1> QED
    BY <1>1, <1>2, <1>3, <1>4, <1>5, <1>6, <1>7, <1>8, <1>9, <1>10, <1>11, <1>12,
        <1>13, <1>14, <1>15, <1>16, <1>17, <1>18 DEF Next, BeatStep, Report

\* Every step keeps the parent told.
LEMMA ToldStep == IInv /\ [Next]_vars => DarkIsTold'
<1> SUFFICES ASSUME IInv, [Next]_vars
             PROVE  DarkIsTold'
    OBVIOUS
<1> USE GraceIsNat, NoDeviceIsNew DEF IInv, TypeOK, ReconcilesLinked, DarkIsTold,
    Reconcile, NoReconcile, rowVars, historyVars
<1>1. ASSUME NEW b \in Beats, NEW d \in Devices, BeatArrives(b, d)
      PROVE  DarkIsTold'
    BY <1>1 DEF BeatArrives
<1>2. ASSUME NEW b \in Beats, BeatPresence(b)
      PROVE  DarkIsTold'
    BY <1>2 DEF BeatPresence
<1>3. ASSUME NEW b \in Beats, BeatRead(b)
      PROVE  DarkIsTold'
    BY <1>3 DEF BeatRead
<1>4. ASSUME NEW b \in Beats, BeatWrite(b)
      PROVE  DarkIsTold'
    BY <1>4 DEF BeatWrite, CheckedIn
<1>5. ASSUME NEW b \in Beats, BeatReport(b)
      PROVE  DarkIsTold'
    BY <1>5 DEF BeatReport
<1>6. ASSUME NEW b \in Beats, BeatThrows(b)
      PROVE  DarkIsTold'
    BY <1>6 DEF BeatThrows
<1>7. ASSUME NEW d \in Devices, Touch(d)
      PROVE  DarkIsTold'
    BY <1>7 DEF Touch
<1>8. ASSUME NEW r \in Reconciles, Scan(r)
      PROVE  DarkIsTold'
    BY <1>8 DEF Scan
<1>9. ASSUME NEW r \in Reconciles, NEW d \in Devices, Darken(r, d)
      PROVE  DarkIsTold'
    BY <1>9 DEF Darken
<1>10. ASSUME NEW r \in Reconciles, Event(r)
      PROVE  DarkIsTold'
    BY <1>10 DEF Event, RaiseAlert
<1>11. ASSUME NEW r \in Reconciles, Alert(r)
      PROVE  DarkIsTold'
    BY <1>11 DEF Alert, NextDevice
<1>12. ASSUME NEW r \in Reconciles, ReconcileThrows(r)
      PROVE  DarkIsTold'
    BY <1>12 DEF ReconcileThrows
<1>13. ASSUME Tick
      PROVE  DarkIsTold'
    BY <1>13 DEF Tick
<1>14. ASSUME RedisToggles
      PROVE  DarkIsTold'
    BY <1>14 DEF RedisToggles
<1>15. ASSUME NEW d \in Devices, GoesSilent(d)
      PROVE  DarkIsTold'
    BY <1>15 DEF GoesSilent
<1>16. ASSUME NEW d \in Devices, Remove(d)
      PROVE  DarkIsTold'
    BY <1>16 DEF Remove
<1>17. ASSUME Crash
      PROVE  DarkIsTold'
    BY <1>17 DEF Crash
<1>18. CASE UNCHANGED vars
    BY <1>18 DEF vars
<1> QED
    BY <1>1, <1>2, <1>3, <1>4, <1>5, <1>6, <1>7, <1>8, <1>9, <1>10, <1>11, <1>12,
        <1>13, <1>14, <1>15, <1>16, <1>17, <1>18 DEF Next, BeatStep, Report

\* Steps that bring no device back, darken none and hand no beat a stale flag
\* owe nothing new.
LEMMA RecoveryKept ==
    ASSUME RecoveryOwed,
           \A d \in Devices :
             /\ status'[d] \in {status[d], "GONE"}
             /\ WentDark(d)' => WentDark(d)
             /\ crossed[d] => crossed'[d]
             /\ Reporting(d) => Reporting(d)' \/ crossed'[d],
           \A b \in Beats : beat[b].dev \in Devices \/ beat[b].pc = "idle",
           \A b \in Beats : beat'[b].pc = "write" /\ ~beat'[b].wasDark =>
             /\ beat'[b].dev = beat[b].dev
             /\ \/ beat[b].pc = "write" /\ ~beat[b].wasDark
                \/ beat[b].pc # "idle" /\ status[beat[b].dev] # "DARK"
    PROVE  RecoveryOwed'
<1>1. ASSUME NEW d \in Devices, status'[d] = "ONLINE", WentDark(d)'
      PROVE  crossed'[d] \/ Reporting(d)'
    BY <1>1 DEF RecoveryOwed
<1>2. ASSUME NEW b \in Beats, beat'[b].pc = "write", ~beat'[b].wasDark,
             status'[beat'[b].dev] = "DARK", WentDark(beat[b].dev)'
      PROVE  crossed'[beat'[b].dev]
  <2> DEFINE d == beat[b].dev
  <2>1. beat'[b].dev = d /\ d \in Devices
      BY <1>2
  <2>2. status[d] = "DARK" /\ WentDark(d)
      BY <1>2, <2>1
  <2>3. beat[b].pc = "write" /\ ~beat[b].wasDark
      BY <1>2, <2>2
  <2> QED
      BY <2>1, <2>2, <2>3 DEF RecoveryOwed
<1> QED
    BY <1>1, <1>2 DEF RecoveryOwed

\* Every step keeps a RECOVERED on its way where one is owed.
LEMMA RecoveryStep == IInv /\ [Next]_vars => RecoveryOwed'
<1> SUFFICES ASSUME IInv, [Next]_vars
             PROVE  RecoveryOwed'
    OBVIOUS
<1>0. \A b \in Beats : beat[b].dev \in Devices \/ beat[b].pc = "idle"
    BY DEF IInv, BeatsLinked
<1> USE GraceIsNat, NoDeviceIsNew DEF IInv, TypeOK, BeatsLinked, ReconcilesLinked,
    RecoveryOwed, WentDark, Darkening, Reporting, Beat, NoBeat, Reconcile, NoReconcile,
    rowVars, historyVars
<1>1. ASSUME NEW b \in Beats, NEW d \in Devices, BeatArrives(b, d)
      PROVE  RecoveryOwed'
    BY <1>1 DEF BeatArrives
<1>2. ASSUME NEW b \in Beats, BeatPresence(b)
      PROVE  RecoveryOwed'
    BY <1>2 DEF BeatPresence
<1>3. ASSUME NEW b \in Beats, BeatRead(b)
      PROVE  RecoveryOwed'
  <2>1. \A d \in Devices : WentDark(d)' = WentDark(d) /\ (Reporting(d) => Reporting(d)')
      BY <1>3 DEF BeatRead
  <2>2. UNCHANGED <<status, crossed>>
      BY <1>3 DEF BeatRead
  <2>3. \A c \in Beats : beat'[c].pc = "write" /\ ~beat'[c].wasDark =>
          /\ beat'[c].dev = beat[c].dev
          /\ \/ beat[c].pc = "write" /\ ~beat[c].wasDark
             \/ beat[c].pc # "idle" /\ status[beat[c].dev] # "DARK"
    <3>1. /\ beat[b].pc = "read" /\ beat'[b].dev = beat[b].dev
          /\ beat'[b].wasDark = (status[beat[b].dev] = "DARK")
        BY <1>3 DEF BeatRead, WasDark
    <3>2. \A c \in Beats \ {b} : beat'[c] = beat[c]
        BY <1>3 DEF BeatRead
    <3> QED
        BY <3>1, <3>2
  <2> HIDE DEF RecoveryOwed, WentDark, Reporting
  <2> QED
      BY <1>0, <2>1, <2>2, <2>3, RecoveryKept
<1>4. ASSUME NEW b \in Beats, BeatWrite(b)
      PROVE  RecoveryOwed'
    BY <1>4 DEF BeatWrite, CheckedIn
<1>5. ASSUME NEW b \in Beats, BeatReport(b)
      PROVE  RecoveryOwed'
    BY <1>5 DEF BeatReport
<1>6. ASSUME NEW b \in Beats, BeatThrows(b)
      PROVE  RecoveryOwed'
  <2>1. \A d \in Devices : WentDark(d)' = WentDark(d) /\ (crossed[d] => crossed'[d])
      BY <1>6 DEF BeatThrows
  <2>2. ASSUME NEW d \in Devices, Reporting(d)
        PROVE  Reporting(d)' \/ crossed'[d]
    <3>1. PICK c \in Beats : beat[c].pc = "report" /\ beat[c].dev = d
        BY <2>2
    <3>2. CASE c = b
        BY <1>6, <3>1, <3>2 DEF BeatThrows
    <3>3. CASE c # b
        BY <1>6, <3>1, <3>3 DEF BeatThrows
    <3> QED
        BY <3>2, <3>3
  <2>3. UNCHANGED status /\ \A c \in Beats : beat'[c].pc = "write" => beat'[c] = beat[c]
      BY <1>6 DEF BeatThrows
  <2> HIDE DEF RecoveryOwed, WentDark, Reporting
  <2> QED
      BY <1>0, <2>1, <2>2, <2>3, RecoveryKept
<1>7. ASSUME NEW d \in Devices, Touch(d)
      PROVE  RecoveryOwed'
    BY <1>7 DEF Touch
<1>8. ASSUME NEW r \in Reconciles, Scan(r)
      PROVE  RecoveryOwed'
  <2>1. \A d \in Devices : WentDark(d)' => WentDark(d)
      BY <1>8 DEF Scan
  <2>2. \A d \in Devices : Reporting(d)' = Reporting(d)
      BY <1>8 DEF Scan
  <2>3. UNCHANGED <<status, crossed, beat>>
      BY <1>8 DEF Scan
  <2> HIDE DEF RecoveryOwed, WentDark, Reporting
  <2> QED
      BY <1>0, <2>1, <2>2, <2>3, RecoveryKept
<1>9. ASSUME NEW r \in Reconciles, NEW d \in Devices, Darken(r, d)
      PROVE  RecoveryOwed'
  <2>1. /\ status' = [status EXCEPT ![d] = "DARK"] /\ UNCHANGED <<last, beat>>
        /\ crossed' = [crossed EXCEPT ![d] =
                         @ \/ \E b \in Beats : beat[b].pc = "write" /\ beat[b].dev = d]
      BY <1>9 DEF Darken
  <2>2. \A c \in Devices : c # d /\ Darkening(c)' => Darkening(c)
      BY <1>9 DEF Darken
  <2>3. \A c \in Devices : Reporting(c)' = Reporting(c)
      BY <2>1
  <2>4. (\E b \in Beats : beat[b].pc = "write" /\ beat[b].dev = d) => crossed'[d]
      BY <2>1
  <2>5. \A c \in Devices : c # d => status'[c] = status[c] /\ crossed'[c] = crossed[c]
      BY <2>1
  <2>6. \A c \in Devices : c # d /\ WentDark(c)' => WentDark(c)
      BY <2>1, <2>2
  <2>7. status'[d] = "DARK"
      BY <2>1
  <2> HIDE DEF WentDark, Darkening, Reporting
  <2>8. ASSUME NEW c \in Devices, status'[c] = "ONLINE", WentDark(c)'
        PROVE  crossed'[c] \/ Reporting(c)'
      BY <2>3, <2>5, <2>6, <2>7, <2>8
  <2>9. ASSUME NEW b \in Beats, beat'[b].pc = "write", ~beat'[b].wasDark,
               status'[beat'[b].dev] = "DARK", WentDark(beat[b].dev)'
        PROVE  crossed'[beat'[b].dev]
    <3>1. beat'[b] = beat[b] /\ beat[b].dev \in Devices
        BY <1>0, <2>1, <2>9
    <3>2. CASE beat[b].dev = d
        BY <2>4, <2>9, <3>1, <3>2
    <3>3. CASE beat[b].dev # d
      <4>1. WentDark(beat[b].dev)
        <5> DEFINE e == beat[b].dev
        <5>1. WentDark(e)'
            BY <2>9
        <5> QED
            BY <2>6, <3>1, <3>3, <5>1
      <4> QED
          BY <2>5, <2>9, <3>1, <3>3, <4>1
    <3> QED
        BY <3>2, <3>3
  <2> QED
      BY <2>8, <2>9
<1>10. ASSUME NEW r \in Reconciles, Event(r)
      PROVE  RecoveryOwed'
  <2>1. rec[r].cur \in Devices /\ Darkening(rec[r].cur)
      BY <1>10 DEF Event
  <2>2. \A d \in Devices : Darkening(d)' => Darkening(d)
      BY <1>10 DEF Event, RaiseAlert
  <2>3. \A d \in Devices : last'[d] = "WENT_DARK" => last[d] = "WENT_DARK" \/ d = rec[r].cur
      BY <1>10 DEF Event
  <2>4. \A d \in Devices : WentDark(d)' => WentDark(d)
      BY <2>1, <2>2, <2>3
  <2>5. \A d \in Devices : Reporting(d)' = Reporting(d)
      BY <1>10 DEF Event
  <2>6. UNCHANGED <<status, crossed, beat>>
      BY <1>10 DEF Event
  <2> HIDE DEF RecoveryOwed, WentDark, Reporting
  <2> QED
      BY <1>0, <2>4, <2>5, <2>6, RecoveryKept
<1>11. ASSUME NEW r \in Reconciles, Alert(r)
      PROVE  RecoveryOwed'
    BY <1>11 DEF Alert, NextDevice
<1>12. ASSUME NEW r \in Reconciles, ReconcileThrows(r)
      PROVE  RecoveryOwed'
    BY <1>12 DEF ReconcileThrows
<1>13. ASSUME Tick
      PROVE  RecoveryOwed'
    BY <1>13 DEF Tick
<1>14. ASSUME RedisToggles
      PROVE  RecoveryOwed'
    BY <1>14 DEF RedisToggles
<1>15. ASSUME NEW d \in Devices, GoesSilent(d)
      PROVE  RecoveryOwed'
    BY <1>15 DEF GoesSilent
<1>16. ASSUME NEW d \in Devices, Remove(d)
      PROVE  RecoveryOwed'
  <2>1. \A c \in Devices : WentDark(c)' = WentDark(c) /\ Reporting(c)' = Reporting(c)
      BY <1>16 DEF Remove
  <2>2. UNCHANGED <<crossed, beat>> /\ \A c \in Devices : status'[c] \in {status[c], "GONE"}
      BY <1>16 DEF Remove
  <2> HIDE DEF RecoveryOwed, WentDark, Reporting
  <2> QED
      BY <1>0, <2>1, <2>2, RecoveryKept
<1>17. ASSUME Crash
      PROVE  RecoveryOwed'
    BY <1>17 DEF Crash
<1>18. CASE UNCHANGED vars
    BY <1>18 DEF vars
<1> QED
    BY <1>1, <1>2, <1>3, <1>4, <1>5, <1>6, <1>7, <1>8, <1>9, <1>10, <1>11, <1>12,
        <1>13, <1>14, <1>15, <1>16, <1>17, <1>18 DEF Next, BeatStep, Report

\* The inductive invariant holds initially.
LEMMA InvariantInit == Init => IInv
<1> SUFFICES ASSUME Init
             PROVE  IInv
    OBVIOUS
<1>1. TypeOK
  <2>1. beat \in [Beats -> Beat] /\ rec \in [Reconciles -> Reconcile]
      BY RecordTypes DEF Init
  <2>2. 0 \in 0..Grace + 1
      BY GraceIsNat
  <2> QED
      BY <2>1, <2>2 DEF Init, TypeOK
<1>2. BeatsLinked /\ ReconcilesLinked
    BY NoDeviceIsNew DEF Init, BeatsLinked, ReconcilesLinked, NoBeat, NoReconcile
<1>3. SeenWhenHeard /\ DarkIsTold
    BY DEF Init, SeenWhenHeard, DarkIsTold
<1>4. RecoveryOwed
    BY DEF Init, RecoveryOwed, WentDark, Darkening, NoBeat, NoReconcile
<1> QED
    BY <1>1, <1>2, <1>3, <1>4 DEF IInv

\* The inductive invariant holds throughout.
THEOREM Invariance == Spec => []IInv
<1>1. IInv /\ [Next]_vars => IInv'
    BY TypeStep, BeatsStep, ReconcilesStep, SeenStep, ToldStep, RecoveryStep DEF IInv
<1> QED
    BY InvariantInit, <1>1, PTL DEF Spec

\* Every variable keeps its type.
THEOREM TypeCorrect == Spec => []TypeOK
<1>1. IInv => TypeOK
    BY DEF IInv
<1> QED
    BY <1>1, Invariance, PTL

\* For any number of overlapping reconciliations and beats, no DARK device goes
\* without an alert to the parent or one about to be raised, unless a crash or
\* an error came between the two.
THEOREM NoSilentDark == Spec => []DarkIsTold
<1>1. IInv => DarkIsTold
    BY DEF IInv
<1> QED
    BY <1>1, Invariance, PTL

\* Nor does a device come back without a RECOVERED, unless a check-in and a
\* reconciliation crossed or the check-in was cut off.
THEOREM StatusTold == Spec => []StatusIsTold
<1>1. IInv => StatusIsTold
    BY DEF IInv, StatusIsTold, RecoveryIsTold, RecoveryOwed, WentDark
<1> QED
    BY <1>1, Invariance, PTL

\* For every grace period, the reconciler picks no device that was heard within
\* it, except for beats in flight or lost.
THEOREM NoFalseAlarm == Spec => ScanFindsSilent
<1>1. IInv /\ [Next]_vars =>
        [\A r \in Reconciles : rec[r].pc = "idle" /\ rec'[r].pc = "loop" =>
           \A d \in rec'[r].todo :
             heard[d] > Grace \/ dropped[d] \/ \E b \in Beats : beat[b].dev = d]_vars
  <2> SUFFICES ASSUME IInv, [Next]_vars, NEW r \in Reconciles,
                      rec[r].pc = "idle", rec'[r].pc = "loop"
               PROVE  \A d \in rec'[r].todo :
                        heard[d] > Grace \/ dropped[d] \/ \E b \in Beats : beat[b].dev = d
      OBVIOUS
  <2>1. rec'[r].todo = Stale
    <3> USE DEF IInv, TypeOK, Reconcile, NoReconcile, rowVars, historyVars
    <3>1. ASSUME NEW q \in Reconciles, Scan(q)
          PROVE  rec'[r].todo = Stale
        BY <3>1 DEF Scan
    <3>2. ASSUME NEW q \in Reconciles, NEW d \in Devices, Darken(q, d)
          PROVE  rec'[r].todo = Stale
        BY <3>2 DEF Darken
    <3>3. ASSUME NEW q \in Reconciles, Event(q)
          PROVE  rec'[r].todo = Stale
        BY <3>3 DEF Event, RaiseAlert
    <3>4. ASSUME NEW q \in Reconciles, Alert(q)
          PROVE  rec'[r].todo = Stale
        BY <3>4 DEF Alert, NextDevice
    <3>5. ASSUME NEW q \in Reconciles, ReconcileThrows(q)
          PROVE  rec'[r].todo = Stale
        BY <3>5 DEF ReconcileThrows
    <3>6. ASSUME Crash
          PROVE  rec'[r].todo = Stale
        BY <3>6 DEF Crash
    <3>7. CASE UNCHANGED rec
        BY <3>7
    <3> QED
        BY <3>1, <3>2, <3>3, <3>4, <3>5, <3>6, <3>7
            DEF Next, BeatStep, Report, vars, BeatArrives, BeatPresence, BeatRead,
            BeatWrite, BeatReport, BeatThrows, Touch, Tick, RedisToggles, GoesSilent,
            Remove
  <2>2. \A d \in Stale : age[d] > Grace /\ age[d] \in Nat /\ heard[d] \in Nat
      BY GraceIsNat DEF Stale, IInv, TypeOK
  <2> QED
      BY <2>1, <2>2, GraceIsNat DEF Stale, IInv, SeenWhenHeard
<1> QED
    BY <1>1, Invariance, PTL DEF Spec, ScanFindsSilent
=============================================================================
