----------------------------- MODULE MCSyncLoop -----------------------------
(***************************************************************************)
(* Instances of SyncLoop for TLC.                                          *)
(***************************************************************************)
EXTENDS SyncLoop
=============================================================================
