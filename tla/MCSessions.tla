----------------------------- MODULE MCSessions -----------------------------
(***************************************************************************)
(* Instances of Sessions for TLC: a phone with two operations at a time,   *)
(* or with one.                                                            *)
(***************************************************************************)
EXTENDS Sessions, TLC

CONSTANTS p1, f1, f2

OnePhone == (f1 :> p1) @@ (f2 :> p1)
OneAtATime == f1 :> p1

\* Two at a time, a handler whose client has gone counted as one: an operation
\* starts beside one other at most.
AtWork == Cardinality({f \in Flows : flow[f].pc # "idle"}) + Cardinality(late)
TwoNext ==
    \/ \E f \in Flows :
          \/ AtWork < 2 /\ \E k \in {"api", "login", "register", "logout"} : Start(f, k)
          \/ Progress(f)
          \/ Fail(f)
          \/ Timeout(f)
    \/ \E t \in late : LateWrite(t)
    \/ \E p \in Phones : AppRestarts(p)
    \/ Tick
TwoSpec == Init /\ [][TwoNext]_vars /\ \A f \in Flows : WF_vars(Progress(f) \/ Fail(f))
=============================================================================
