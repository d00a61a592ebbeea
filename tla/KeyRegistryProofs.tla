------------------------- MODULE KeyRegistryProofs --------------------------
(***************************************************************************)
(* What follows from the abstract registry alone, hence for everything that*)
(* implements it.                                                          *)
(***************************************************************************)
EXTENDS KeyRegistry, TLAPS

\* In every behaviour of the registry, no granted credential has a secret that
\* an administrator was told no longer works (Service.Authenticate after Rotate,
\* Disable and Delete).
THEOREM RegistryNeverGrantsRevoked == RegistrySpec => []NoRevokedGrant
<1>1. Init => NoRevokedGrant
  BY DEF Init, NoRevokedGrant
<1>2. NoRevokedGrant /\ [Next]_<<granted, revoked, clock>> => NoRevokedGrant'
  <2> SUFFICES ASSUME NoRevokedGrant, [Next]_<<granted, revoked, clock>>
               PROVE  NoRevokedGrant'
    OBVIOUS
  <2>1. ASSUME NEW k \in Keys, NEW new, Change(k, new), UNCHANGED revoked
        PROVE  NoRevokedGrant'
    BY <2>1 DEF Change, Of, NoRevokedGrant
  <2>2. ASSUME NEW s \in Secrets, Revoke({s}) PROVE NoRevokedGrant'
    BY <2>2 DEF Revoke, NoRevokedGrant
  <2>3. ASSUME NEW s \in Secrets, Reinstate(s) PROVE NoRevokedGrant'
    BY <2>3 DEF Reinstate, NoRevokedGrant
  <2>4. CASE Tick
    BY <2>4 DEF Tick, NoRevokedGrant
  <2>5. CASE UNCHANGED <<granted, revoked, clock>>
    BY <2>5 DEF NoRevokedGrant
  <2> QED
    BY <2>1, <2>2, <2>3, <2>4, <2>5 DEF Next
<1> QED
  BY <1>1, <1>2, PTL DEF RegistrySpec
=============================================================================
