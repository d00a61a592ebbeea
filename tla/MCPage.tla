------------------------------- MODULE MCPage -------------------------------
(***************************************************************************)
(* Small instances of AdminPage for TLC.                                   *)
(***************************************************************************)
EXTENDS AdminPage, TLC

MCSymmetry == Permutations(Keys) \cup Permutations(Slots)
=============================================================================
