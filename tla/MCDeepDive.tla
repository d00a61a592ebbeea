----------------------------- MODULE MCDeepDive -----------------------------
(***************************************************************************)
(* Small instances of DeepDive for TLC.                                    *)
(***************************************************************************)
EXTENDS DeepDive, TLC

MCSymmetry == Permutations(Names)
=============================================================================
