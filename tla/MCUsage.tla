------------------------------ MODULE MCUsage ------------------------------
(***************************************************************************)
(* Small instances of UsageTracker for TLC.                                *)
(***************************************************************************)
EXTENDS UsageTracker, TLC

MCSymmetry == Permutations(Callers)
=============================================================================
