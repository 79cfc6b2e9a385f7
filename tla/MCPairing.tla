----------------------------- MODULE MCPairing ------------------------------
(***************************************************************************)
(* Instances of Pairing for TLC.                                           *)
(***************************************************************************)
EXTENDS Pairing, TLC

Symmetry ==
    UNION {Permutations(Phones), Permutations(Devices), Permutations(Pairings), Permutations(Claims)}
=============================================================================
