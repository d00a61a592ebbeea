------------------------- MODULE ApiKeyProperties --------------------------
(***************************************************************************)
(* What ApiKeyService has to guarantee.                                    *)
(***************************************************************************)
EXTENDS ApiKeyService

Unexpired(S) == {c \in S : c.expires > clock}

\* When the service is open and no mutation sits between its commit and its
\* publish, the snapshot holds exactly the credentials that the database holds
\* active: nothing committed is missing and nothing withdrawn remains, through
\* failed transactions, expiries, crashes and restarts (Service.publish).
SnapshotMatchesStore ==
  (/\ proc = "up" /\ closing = "open"
   /\ \A a \in Admins : op[a].pc # "publish")
    => Unexpired(snapshot) = ListActive(rows, clock)

\* A call that began after an administrator was told that its secret had been
\* disabled, rotated or deleted is never authenticated, unless the key was
\* enabled again meanwhile (Service.Authenticate).
RevokedNeverAccepted ==
  \A c \in Clients : auth[c].pc = "accepted" => ~auth[c].doomed

\* A mutation that reports success was applied to exactly the version that the
\* administrator named, and every version of a key has one audit row
\* (SQLiteRepository.mutate and insertAudit).
NamedVersionApplied ==
  \A a \in Admins :
    (op[a].pc = "publish" /\ op[a].kind # "create")
      => /\ rows[op[a].key].version = op[a].version + 1
         /\ audited[op[a].key] = rows[op[a].key].version

\* A secret whose key the database holds active and unexpired authenticates
\* whenever the service is open and no mutation is being published: the prefix
\* stored for a key is the one Authenticate looks up (README.md:166).
ActiveSecretAccepted ==
  (/\ proc = "up" /\ closing = "open"
   /\ \A a \in Admins : op[a].pc # "publish")
    => \A c \in ListActive(rows, clock) :
         Accepts(Lookup(snapshot, c.secret), c.secret)

\* Disabling or deleting a usable key leaves another one that was usable when the
\* mutation, already holding the mutex, read the clock (ensureAnotherActive); it
\* may expire while the transaction runs.
LastActiveKept ==
  [][\A k \in Keys :
       (CurrentlyActive(rows[k], clock) /\ rows'[k].status # "active")
         => \E a \in Admins : /\ op[a].pc = "tx" /\ op[a].key = k
                              /\ ListActive(rows', op[a].now) # {}]_rows

\* Every administrative request returns: no path through a mutation keeps the
\* mutex (the deferred Unlock of every handler).
EveryRequestReturns ==
  \A a \in Admins : op[a].pc # "idle" ~> op[a].pc = "idle"

\* The requests that the scheduler runs: sync.Mutex hands the lock to a waiter
\* after at most a millisecond of starvation, so a waiter is not overtaken for
\* ever.
FairSpec == Spec /\ \A a \in Admins : SF_vars(MutationStep(a))

\* Refinement of KeyRegistry.  A closed or crashed process grants what the
\* database will grant when it comes back.
GrantedCredentials ==
  Unexpired(IF proc = "up" /\ closing = "open"
              THEN snapshot ELSE ListActive(rows, clock))

Registry == INSTANCE KeyRegistry WITH granted <- GrantedCredentials

\* Every step of the service changes the credentials of at most one key and
\* never grants a revoked secret.
ImplementsRegistry == Registry!RegistrySpec
=============================================================================
