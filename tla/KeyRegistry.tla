---------------------------- MODULE KeyRegistry ----------------------------
(***************************************************************************)
(* What the API-key component promises, without database, mutex, snapshot  *)
(* or restart: a set of granted credentials that changes one key at a time,*)
(* and a set of revoked secrets that no step can grant.                    *)
(***************************************************************************)
EXTENDS Integers

CONSTANTS Keys, Secrets, MaxClock

VARIABLES granted,   \* unexpired credentials that authenticate
          revoked,   \* secrets an administrator was told no longer work
          clock

Credential == [id : Keys, secret : Secrets, expires : 0 .. MaxClock + 1]

Of(k) == {c \in granted : c.id = k}
Unexpired(S) == {c \in S : c.expires > clock}

Init == granted = {} /\ revoked = {} /\ clock = 0

\* Key k is granted at most one credential in place of the one it had; every
\* other key keeps what it has.  The secret may not be a revoked one or another
\* key's.
Change(k, new) ==
  /\ new \subseteq {c \in Unexpired(Credential) : c.id = k}
  /\ \A c, d \in new : c = d
  /\ \A c \in new : /\ c.secret \notin revoked
                    /\ \A d \in granted \ Of(k) : d.secret # c.secret
  /\ granted' = (granted \ Of(k)) \cup new
  /\ UNCHANGED clock

\* The administrator is told that secrets no longer work: they are not granted.
Revoke(S) ==
  /\ revoked' = revoked \cup S
  /\ \A c \in granted' : c.secret \notin revoked'

\* An administrator enables a key again: its secret may be granted from now on.
Reinstate(s) ==
  /\ revoked' = revoked \ {s}
  /\ UNCHANGED clock
  /\ \/ UNCHANGED granted
     \/ \E k \in Keys, e \in 0 .. MaxClock + 1 :
          /\ e > clock /\ Of(k) = {}
          /\ granted' = granted \cup {[id |-> k, secret |-> s, expires |-> e]}

Tick ==
  /\ clock' = clock + 1 /\ clock' <= MaxClock
  /\ granted' = {c \in granted : c.expires > clock'}
  /\ UNCHANGED revoked

Next ==
  \/ \E k \in Keys :
       LET news == {{}} \cup {{c} : c \in {d \in Credential : d.id = k}} IN
         \E new \in news :
           /\ Change(k, new)
           /\ UNCHANGED revoked \/ \E s \in Secrets : Revoke({s})
  \/ \E s \in Secrets : Revoke({s}) /\ UNCHANGED <<granted, clock>>
  \/ \E s \in Secrets : Reinstate(s)
  \/ Tick

RegistrySpec == Init /\ [][Next]_<<granted, revoked, clock>>

-----------------------------------------------------------------------------
\* No revoked secret is granted: the promise that an old key stops working
\* immediately (the notice that adminAPI.rotate returns), for every implementation of the
\* registry.
NoRevokedGrant == \A c \in granted : c.secret \notin revoked
=============================================================================
