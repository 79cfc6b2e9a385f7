--------------------------- MODULE MCCommandSpine ---------------------------
(***************************************************************************)
(* Instances of CommandSpine for TLC.                                      *)
(***************************************************************************)
EXTENDS CommandSpine, TLC

CONSTANTS p1, d1, d2

\* Both dispatchers on one phone: the supervisor's loop and a worker.
OnePhone == [d \in Dispatchers |-> p1]

Symmetry == Permutations(Commands) \cup Permutations(Keys) \cup Permutations(Callers)
              \cup Permutations(Dispatchers) \cup Permutations(Slots)

\* Two requests are at work at once only over the key of the one command; with two
\* commands, there is at most one fault in all.
Busy(r) == caller[r].pc # "idle"
Exists(c) == state[c] # "NONE"
RaceForOneKey ==
    \A q, r \in Callers : q # r /\ Busy(q) /\ Busy(r) =>
      /\ caller[q].key = caller[r].key
      /\ \A c \in Commands : Exists(c) => key[c] = caller[r].key
FewFaults ==
    (\A c \in Commands : Exists(c)) =>
      Cardinality({<<c, f>> \in Commands \X FaultKinds : f \in fault[c]}) <= 1
Small == RaceForOneKey /\ FewFaults
=============================================================================
