----------------------------- MODULE MCReports ------------------------------
(***************************************************************************)
(* Instances of Reports for TLC: two families, one of them with a parent.  *)
(***************************************************************************)
EXTENDS Reports

CONSTANTS f1, f2, d1, d2, u1

OneOfEach == [x \in Devices \cup Users |-> IF x \in {d1, u1} THEN f1 ELSE f2]

\* The device of the family without a parent is not removed, which halves the states.
KeptNext ==
    \/ \E a \in Attempts : Serve(a) \/ \E d \in Devices, k \in Kinds : Post(a, d, k)
    \/ Remove(d1)
    \/ \E u \in Users :
          \/ SetFcmToken(u)
          \/ \E a \in Attempts : MarkRead(u, a)
          \/ \E d \in Devices : GetForFamily(u, d)
          \/ ListForDevice(u) \/ ListForFamily(u)
KeptSpec == Init /\ [][KeptNext]_vars /\ \A a \in Attempts : WF_vars(Serve(a))
=============================================================================
