----------------------------- MODULE MCPolicies -----------------------------
(***************************************************************************)
(* Instances of Policies for TLC.                                          *)
(***************************************************************************)
EXTENDS Policies, TLC

CONSTANTS p1

\* All syncs on one phone: the supervisor's loop and a worker.
OnePhone == [s \in Syncs |-> p1]

\* No step and no property reads the audit log, so that states which differ in it
\* alone need not be told apart.
ButAudit == <<row, paired, updateVars, commandVars, deviceVars, historyVars>>

Symmetry == Permutations(Updates) \cup Permutations(Syncs)

\* The backend stays up.
NoCrashNext ==
    \/ \E u \in Updates : Update(u)
    \/ \E s \in Syncs : Sync(s)
    \/ \E p \in Devices : Pair(p) \/ App(p)
NoCrashSpec == Init /\ [][NoCrashNext]_vars
=============================================================================
