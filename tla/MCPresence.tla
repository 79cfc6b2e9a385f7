----------------------------- MODULE MCPresence -----------------------------
(***************************************************************************)
(* Instances of Presence for TLC.                                          *)
(***************************************************************************)
EXTENDS Presence, TLC

CONSTANTS p1

\* Two devices in one list of the reconciler, of which only p1 calls. All that
\* happens to the other, and to the list, happens as in Next: a removal or an
\* error at either place of the list, crashes, later scans.
OneCallsNext ==
    \/ \E b \in Beats : BeatStep(b) \/ BeatArrives(b, p1)
    \/ \E r \in Reconciles : Scan(r) \/ Report(r) \/ \E d \in Devices : Darken(r, d)
    \/ \E d \in Devices : GoesSilent(d) \/ Remove(d)
    \/ Touch(p1) \/ Tick \/ RedisToggles \/ Crash
OneCallsSpec == Init /\ [][OneCallsNext]_vars /\ Fairness
=============================================================================
