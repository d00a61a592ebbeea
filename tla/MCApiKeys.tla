----------------------------- MODULE MCApiKeys -----------------------------
(***************************************************************************)
(* Small instances of ApiKeyProperties for TLC.                            *)
(***************************************************************************)
EXTENDS ApiKeyProperties, TLC

CONSTANTS g1, g2, g3, leg, p1, p2, p3, pleg

\* g1 and g3 share a prefix: crypto/rand promises no uniqueness, the database
\* does.
PrefixOf == (g1 :> p1) @@ (g2 :> p2) @@ (g3 :> p1) @@ (leg :> pleg)
MCStoredPrefix == [s \in Secrets |-> PrefixOf[s]]

\* MCP_API_KEY is an arbitrary text: stored and looked up under its HMAC.
MCLookupPrefix == MCStoredPrefix

\* MCP_API_KEY has the format of a generated key: stored under its HMAC, but
\* looked up under the prefix in its text.
MCLiveFormatLookup == [s \in Secrets |-> IF s = leg THEN p3 ELSE PrefixOf[s]]

MCSymmetry == Permutations(Keys) \cup Permutations(Admins)
=============================================================================
