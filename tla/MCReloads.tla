----------------------------- MODULE MCReloads ------------------------------
(***************************************************************************)
(* Small instance of ApiKeyReloads for TLC.                                *)
(***************************************************************************)
EXTENDS ApiKeyReloads, MCApiKeys
=============================================================================
