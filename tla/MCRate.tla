------------------------------- MODULE MCRate -------------------------------
(***************************************************************************)
(* A small instance of RateLimiter for TLC.                                *)
(***************************************************************************)
EXTENDS RateLimiter, TLC

MCSymmetry == Permutations(Keys)
=============================================================================
