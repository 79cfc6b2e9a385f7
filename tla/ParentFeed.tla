----------------------------- MODULE ParentFeed -----------------------------
(***************************************************************************)
(* What the backend promises the parent: a notice it has taken in becomes  *)
(* one alert, of which no other in the feed is newer, or is dropped;       *)
(* alerts stay, in the order in which they were raised, and what was read  *)
(* stays read.                                                             *)
(*                                                                         *)
(* Reports implements this module.                                         *)
(***************************************************************************)
EXTENDS Naturals

CONSTANT Notices

VARIABLES
    phase,
    at,             \* the place of an alert in the order of the feed; 0 for none
    read

vars == <<phase, at, read>>

Init ==
    /\ phase = [n \in Notices |-> "new"]
    /\ at = [n \in Notices |-> 0]
    /\ read = {}

Moves(n, from, to) == phase[n] = from /\ phase' = [phase EXCEPT ![n] = to]

Accept(n) == Moves(n, "new", "owed") /\ UNCHANGED <<at, read>>

Raise(n) ==
    /\ Moves(n, "owed", "raised")
    /\ \A m \in Notices \ {n} : at'[m] = at[m]
    /\ at'[n] # 0
    /\ \A m \in Notices : at[m] <= at'[n]
    /\ UNCHANGED read

Drop(n) == Moves(n, "owed", "dropped") /\ UNCHANGED <<at, read>>

Read(n) ==
    /\ phase[n] = "raised"
    /\ read' = read \cup {n}
    /\ UNCHANGED <<phase, at>>

Next == \E n \in Notices : Accept(n) \/ Raise(n) \/ Drop(n) \/ Read(n)

NothingOwedForEver == \A n \in Notices : phase[n] = "owed" ~> phase[n] # "owed"

Safe == Init /\ [][Next]_vars
Spec == Safe /\ NothingOwedForEver
=============================================================================
