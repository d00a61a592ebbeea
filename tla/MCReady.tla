------------------------------ MODULE MCReady ------------------------------
(***************************************************************************)
(* Small instances of Readiness for TLC.                                   *)
(***************************************************************************)
EXTENDS Readiness, TLC

MCSymmetry == Permutations(Probes)
=============================================================================
