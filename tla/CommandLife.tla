----------------------------- MODULE CommandLife ----------------------------
(***************************************************************************)
(* What the backend promises of a command, after the diagram at the head   *)
(* of CommandsService: it waits, is delivered, carried out and completed,  *)
(* or expires, and each of these once. What the code grants besides: a     *)
(* command in a device's hands may be carried out after it expired, and a  *)
(* command around which something went wrong may take the same steps       *)
(* again. Several commands may move at once, since one statement expires   *)
(* all that are stale.                                                     *)
(*                                                                         *)
(* CommandSpine implements this module.                                    *)
(***************************************************************************)
EXTENDS Naturals

CONSTANT Commands

VARIABLES
    stage,
    effects,        \* how often the device carried the command out
    astray,         \* commands around which something went wrong
    reopened        \* commands that were put back to wait

vars == <<stage, effects, astray, reopened>>

Results == {"done", "failed"}

Init ==
    /\ stage = [c \in Commands |-> "none"]
    /\ effects = [c \in Commands |-> 0]
    /\ astray = {}
    /\ reopened = {}

Moves(c, from, to) == stage[c] \in from /\ stage'[c] \in to /\ effects'[c] = effects[c]

Queue(c) == Moves(c, {"none"}, {"waiting"})
Expire(c) == Moves(c, {"waiting"}, {"expired"})
Deliver(c) == Moves(c, {"waiting", "expired"}, {"delivered"})
Complete(c) == Moves(c, {"delivered", "expired"}, Results) /\ effects[c] > 0

CarryOut(c) ==
    /\ stage[c] \in {"delivered", "expired"}
    /\ effects[c] = 0
    /\ effects'[c] = 1
    /\ stage'[c] = stage[c]

\* Only a command that went astray is carried out again, delivered again or
\* completed anew, and it is completed only if it was carried out.
Repeat(c) ==
    /\ c \in astray
    /\ stage[c] # "none"
    /\ effects'[c] = effects[c] + 1
    /\ stage'[c] = stage[c]
Redo(c) ==
    /\ c \in astray
    /\ stage[c] # "none"
    /\ stage'[c] \in {"delivered"} \cup Results
    /\ stage'[c] \in Results => effects[c] > 0
    /\ effects'[c] = effects[c]

\* Back to where the device finds it: once, and that is astray.
Reopen(c) ==
    /\ stage[c] # "none"
    /\ c \in (reopened' \ reopened) \cap astray'
    /\ stage'[c] = "waiting"
    /\ effects'[c] = effects[c]

Stays(c) == stage'[c] = stage[c] /\ effects'[c] = effects[c]

Advance(c) ==
    \/ Stays(c)
    \/ Queue(c) \/ Expire(c) \/ Deliver(c) \/ CarryOut(c) \/ Complete(c)
    \/ Repeat(c) \/ Redo(c)

Next ==
    /\ astray \subseteq astray'
    /\ reopened \subseteq reopened'
    /\ \A c \in Commands : Advance(c) \/ Reopen(c)

Spec == Init /\ [][Next]_vars
=============================================================================
