----------------------------- MODULE MCSessions -----------------------------
(***************************************************************************)
(* Small instances of AdminSessions for TLC.                               *)
(***************************************************************************)
EXTENDS AdminSessions, TLC

MCSymmetry == Permutations(Requests) \cup Permutations(Tokens)
=============================================================================
