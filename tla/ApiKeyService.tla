--------------------------- MODULE ApiKeyService ---------------------------
(***************************************************************************)
(* The managed API keys of apikey/: SQLite rows, the mutex that serialises *)
(* administrative mutations, the immutable in-memory snapshot that         *)
(* Authenticate reads, Reload, Close, and a process that may crash and     *)
(* start again on the same database.                                       *)
(*                                                                         *)
(* A secret stands for the full key text; its HMAC digest is taken to be   *)
(* injective, so a row's key_hash is the secret itself and the digest      *)
(* comparison is equality.  A prefix is what the UNIQUE column holds.      *)
(* Names, descriptions and timestamps no decision reads are left out.      *)
(***************************************************************************)
EXTENDS Integers, FiniteSets

CONSTANTS
  Keys,          \* database ids
  Secrets,       \* full key texts
  Prefixes,      \* values of the key_prefix column
  StoredPrefix,  \* [Secrets -> Prefixes]: the prefix a row is stored under
  LookupPrefix,  \* [Secrets -> Prefixes]: the prefix Authenticate derives
  Legacy,        \* MCP_API_KEY, or NoSecret when the variable is empty
  NoSecret, NoKey, NoAdmin,
  Admins,        \* concurrent administrative requests
  Clients,       \* concurrent Authenticate calls
  Reloaders,     \* concurrent Reload calls
  Expiries,      \* expiresAt values a request may carry
  MaxClock, MaxVersion, MaxCrashes   \* bounds

\* A key without expiresAt expires at an instant the clock never reaches.
Never == MaxClock + 1

ASSUME ConstantsOK ==
  /\ MaxClock \in Nat /\ MaxVersion \in Nat /\ MaxCrashes \in Nat
  /\ Expiries \subseteq 0 .. Never
  /\ StoredPrefix \in [Secrets -> Prefixes]
  /\ LookupPrefix \in [Secrets -> Prefixes]
  /\ Legacy \in Secrets \cup {NoSecret}
  /\ NoSecret \notin Secrets /\ NoKey \notin Keys /\ NoAdmin \notin Admins
  /\ \A s \in Secrets \ {Legacy} : LookupPrefix[s] = StoredPrefix[s]

VARIABLES
  rows,      \* table mcp_api_keys
  audited,   \* number of mcp_api_key_audit rows of each key
  proc,      \* "down", "up", or "refused" when NewService returned an error
  closing,   \* "open", "closing" (closed flag set), "closed" (Close returned)
  snapshot,  \* Service.current
  mutex,     \* holder of Service.mutationMu
  op,        \* what each administrative request is doing
  auth,      \* what each Authenticate call is doing
  reload,    \* what each Reload call is doing
  clock,
  crashes,
  issued,    \* secrets that crypto/rand has produced
  revoked    \* history: secrets whose disable, rotate or delete was reported
             \* done to the administrator and that no later enable named

store == <<rows, audited>>
memory == <<snapshot, mutex, op, auth, reload>>
vars == <<rows, audited, proc, closing, snapshot, mutex, op, auth, reload,
          clock, crashes, issued, revoked>>

Instants == 0 .. Never
Kinds == {"create", "update", "enable", "disable", "rotate", "delete"}
Row == [status : {"absent", "active", "disabled", "revoked"},
        secret : Secrets \cup {NoSecret}, expires : Instants, version : Nat]
Credential == [id : Keys, secret : Secrets, expires : Instants]
Op == [pc : {"idle", "lock", "tx", "publish"}, kind : Kinds,
       key : Keys \cup {NoKey}, version : Nat,
       old : Secrets \cup {NoSecret}, expires : Instants,
       now : Instants, active : SUBSET Credential]
Auth == [pc : {"idle", "load", "decide", "accepted"},
         secret : Secrets \cup {NoSecret}, item : SUBSET Credential,
         doomed : BOOLEAN]
Reload == [pc : {"idle", "publish"}, active : SUBSET Credential]

Absent == [status |-> "absent", secret |-> NoSecret, expires |-> Never,
           version |-> 0]
IdleOp == [pc |-> "idle", kind |-> "create", key |-> NoKey, version |-> 0,
           old |-> NoSecret, expires |-> Never, now |-> 0, active |-> {}]
IdleAuth == [pc |-> "idle", secret |-> NoSecret, item |-> {}, doomed |-> FALSE]
IdleReload == [pc |-> "idle", active |-> {}]

TypeOK ==
  /\ rows \in [Keys -> Row]
  /\ audited \in [Keys -> Nat]
  /\ proc \in {"down", "up", "refused"}
  /\ closing \in {"open", "closing", "closed"}
  /\ snapshot \in SUBSET Credential
  /\ mutex \in Admins \cup {NoAdmin}
  /\ op \in [Admins -> Op]
  /\ auth \in [Clients -> Auth]
  /\ reload \in [Reloaders -> Reload]
  /\ clock \in 0 .. MaxClock
  /\ crashes \in 0 .. MaxCrashes
  /\ issued \in SUBSET Secrets
  /\ revoked \in SUBSET Secrets

-----------------------------------------------------------------------------
(* Queries of the repository                                               *)

Live(k) == rows[k].status \in {"active", "disabled"}   \* deleted_at IS NULL

CurrentlyActive(row, now) == row.status = "active" /\ row.expires > now

\* listActive: the credentials of the table r that are active at instant t.
ListActive(r, t) ==
  {[id |-> k, secret |-> r[k].secret, expires |-> r[k].expires] :
     k \in {j \in Keys : CurrentlyActive(r[j], t)}}

\* Read inside the transaction, after its writes, at instant t.
ActiveAfter_BeforeWrites(t) == ListActive(rows, t)
ActiveAfter(t) == ListActive(rows', t)

\* ensureAnotherActive lists what is active at t and compares it with `now` too.
AnotherActive_CountsItself(k, now, t) ==
  \E c \in ListActive(rows, t) : c.expires > now
AnotherActive(k, now, t) ==
  \E c \in ListActive(rows, t) : c.id # k /\ c.expires > now

\* The UNIQUE constraint on key_prefix ranges over deleted rows too.
PrefixFree(k, s) ==
  \A j \in Keys \ {k} :
    rows[j].status # "absent" =>
      StoredPrefix[rows[j].secret] # StoredPrefix[s]

\* publish builds a new map from the list and stores its pointer.  The map is
\* keyed by prefix; the list has one credential of each (PrefixFree), so that
\* the map holds the list.
Published_Merged(active) == snapshot \cup active
Published(active) == active

Lookup(snap, s) == {c \in snap : StoredPrefix[c.secret] = LookupPrefix[s]}

-----------------------------------------------------------------------------
(* Administrative mutations                                                *)

\* A handler validates its input against the clock and waits for the mutex.
\* The rest of the input (operation, id, version, new secret) is bound where
\* the code first looks at it: it is the caller's or crypto/rand's choice, and
\* no state can tell when it was made.
Request(a) ==
  /\ proc = "up" /\ op[a].pc = "idle"
  /\ op' = [op EXCEPT ![a].pc = "lock", ![a].now = clock]
  /\ UNCHANGED <<store, proc, closing, snapshot, mutex, auth, reload, clock,
                 crashes, issued, revoked>>

Acquire(a) == proc = "up" /\ op[a].pc = "lock" /\ mutex = NoAdmin

\* mutationMu.Lock, then the closed check: ErrClosed.
RefuseClosed(a) ==
  /\ Acquire(a) /\ closing # "open"
  /\ op' = [op EXCEPT ![a] = IdleOp]
  /\ UNCHANGED <<store, proc, closing, snapshot, mutex, auth, reload, clock,
                 crashes, issued, revoked>>

\* repo.Get finds no undeleted row: ErrNotFound.
RefuseMissing(a) ==
  /\ Acquire(a) /\ closing = "open"
  /\ \E k \in Keys : ~Live(k)
  /\ op' = [op EXCEPT ![a] = IdleOp]
  /\ UNCHANGED <<store, proc, closing, snapshot, mutex, auth, reload, clock,
                 crashes, issued, revoked>>

\* An expiresAt was compared with the clock before the wait for the mutex
\* (validateMetadata); op[a].now still holds that instant.
ValidInput(a, kind, k, v, e) ==
  /\ IF kind = "create" THEN k = NoKey /\ v = 0
     ELSE k \in Keys /\ Live(k) /\ v >= 1
  /\ IF kind \in {"create", "update"} THEN e > op[a].now ELSE e = Never

\* The mutex is held, the row exists; `now` is read before the transaction.
Enter(a, kind, k, v, e) ==
  /\ Acquire(a) /\ closing = "open" /\ ValidInput(a, kind, k, v, e)
  /\ mutex' = a
  /\ op' = [op EXCEPT ![a] =
               [pc |-> "tx", kind |-> kind, key |-> k, version |-> v,
                old |-> NoSecret, expires |-> e, now |-> clock, active |-> {}]]
  /\ UNCHANGED <<store, proc, closing, snapshot, auth, reload, clock,
                 crashes, issued, revoked>>

Edited_SavesShownStatus(o, row) ==
  [row EXCEPT !.expires = o.expires, !.version = @ + 1,
              !.status = IF CurrentlyActive(row, clock) \/ @ # "active"
                           THEN @ ELSE "expired"]
\* UpdateMetadata writes the expiry and leaves status and secret alone.
Edited(o, row) == [row EXCEPT !.expires = o.expires, !.version = @ + 1]

\* The row that a committed transaction leaves at key k.
Mutated(o, row, s) ==
  CASE o.kind = "create" ->
         [status |-> "active", secret |-> s, expires |-> o.expires,
          version |-> 1]
    [] o.kind = "update" -> Edited(o, row)
    [] o.kind = "enable" ->
         [row EXCEPT !.status = "active", !.version = @ + 1]
    [] o.kind = "disable" ->
         [row EXCEPT !.status = "disabled", !.version = @ + 1]
    [] o.kind = "rotate" ->
         [row EXCEPT !.status = "active", !.secret = s,
                     !.version = @ + 1]
    [] o.kind = "delete" ->
         [row EXCEPT !.status = "revoked", !.version = @ + 1]

Permitted_AnyVersion(o, k, s, t) ==
  IF o.kind = "create" THEN rows[k].status = "absent" /\ PrefixFree(k, s)
  ELSE /\ k = o.key /\ Live(k)
       /\ o.kind = "rotate" => PrefixFree(k, s)
\* The conditions under which the transaction's function returns nil, when
\* ensureAnotherActive reads the clock at t.
Permitted(o, k, s, t) ==
  /\ IF o.kind = "create" THEN rows[k].status = "absent"
     ELSE k = o.key /\ Live(k) /\ rows[k].version = o.version
  /\ (o.kind \in {"disable", "delete"} /\ CurrentlyActive(rows[k], o.now))
       => AnotherActive(k, o.now, t)
  /\ o.kind \in {"create", "rotate"} => PrefixFree(k, s)

\* generateKey: crypto/rand never produces a secret twice.
Generated(o, s) ==
  IF o.kind \in {"create", "rotate"} THEN s \in Secrets \ (issued \cup {Legacy})
  ELSE s = NoSecret

\* The transaction commits the row together with one audit row, and the list
\* of active credentials is read inside it.  The clock is read for
\* ensureAnotherActive (judged), then for the list (listed), and the commit comes
\* at last; no other transaction writes these rows in between.
CommitAt(a, k, s, judged, listed) ==
  /\ proc = "up" /\ op[a].pc = "tx"
  /\ judged \in op[a].now .. listed /\ listed <= clock
  /\ Generated(op[a], s) /\ Permitted(op[a], k, s, judged)
  /\ issued' = issued \cup ({s} \ {NoSecret})
  /\ rows' = [rows EXCEPT ![k] = Mutated(op[a], @, s)]
  /\ audited' = [audited EXCEPT ![k] = @ + 1]
  /\ op' = [op EXCEPT ![a] =
               [pc |-> "publish", kind |-> @.kind, key |-> k,
                version |-> @.version, old |-> rows[k].secret,
                expires |-> @.expires, now |-> @.now,
                active |-> ActiveAfter(listed)]]
  /\ IF op[a].kind = "enable"
       THEN /\ revoked' = revoked \ {rows[k].secret}
            /\ auth' = [c \in Clients |->
                          IF auth[c].secret = rows[k].secret
                            THEN [auth[c] EXCEPT !.doomed = FALSE]
                            ELSE auth[c]]
       ELSE UNCHANGED <<revoked, auth>>
  /\ UNCHANGED <<proc, closing, snapshot, mutex, reload, clock, crashes>>

Commit(a, k, s) ==
  \E judged, listed \in 0 .. MaxClock : CommitAt(a, k, s, judged, listed)

Rollback_KeepsMutex(a) ==
  /\ proc = "up" /\ op[a].pc = "tx"
  /\ op' = [op EXCEPT ![a] = IdleOp]
  /\ UNCHANGED <<store, proc, closing, snapshot, mutex, auth, reload, clock,
                 crashes, issued, revoked>>
\* Any error before the commit rolls everything back: a version or prefix
\* conflict, ErrLastActive, a cancelled request, SQLITE_BUSY_SNAPSHOT after a
\* concurrent UpdateLastUsed.
Rollback(a) ==
  /\ proc = "up" /\ op[a].pc = "tx"
  /\ mutex' = NoAdmin
  /\ op' = [op EXCEPT ![a] = IdleOp]
  /\ UNCHANGED <<store, proc, closing, snapshot, auth, reload, clock,
                 crashes, issued, revoked>>

\* publish(active), then the handler returns success and the mutex is freed.
Publish(a) ==
  /\ proc = "up" /\ op[a].pc = "publish"
  /\ snapshot' = Published(op[a].active)
  /\ mutex' = NoAdmin
  /\ revoked' = IF op[a].kind \in {"disable", "rotate", "delete"}
                  THEN revoked \cup {op[a].old} ELSE revoked
  /\ op' = [op EXCEPT ![a] = IdleOp]
  /\ UNCHANGED <<store, proc, closing, auth, reload, clock, crashes, issued>>

-----------------------------------------------------------------------------
(* Authentication                                                          *)

AuthCheck(c, s) ==
  /\ proc = "up" /\ auth[c].pc = "idle" /\ closing = "open"
  /\ auth' = [auth EXCEPT ![c] = [pc |-> "load", secret |-> s, item |-> {},
                                  doomed |-> s \in revoked]]
  /\ UNCHANGED <<store, proc, closing, snapshot, mutex, op, reload, clock,
                 crashes, issued, revoked>>

\* current.Load and the map lookup in the immutable snapshot it returned.
AuthLoad(c) ==
  /\ proc = "up" /\ auth[c].pc = "load"
  /\ auth' = [auth EXCEPT ![c].pc = "decide",
                          ![c].item = Lookup(snapshot, auth[c].secret)]
  /\ UNCHANGED <<store, proc, closing, snapshot, mutex, op, reload, clock,
                 crashes, issued, revoked>>

Accepts_ByPrefix(item, s) == \E i \in item : i.expires > clock
\* The expiry and digest checks.
Accepts(item, s) == \E i \in item : i.expires > clock /\ i.secret = s

AuthDecide(c) ==
  /\ proc = "up" /\ auth[c].pc = "decide"
  /\ auth' = [auth EXCEPT ![c] =
                IF Accepts(auth[c].item, auth[c].secret)
                  THEN [auth[c] EXCEPT !.pc = "accepted", !.item = {}]
                  ELSE IdleAuth]
  /\ UNCHANGED <<store, proc, closing, snapshot, mutex, op, reload, clock,
                 crashes, issued, revoked>>

\* The authenticated request ends.
AuthReturn(c) ==
  /\ proc = "up" /\ auth[c].pc = "accepted"
  /\ auth' = [auth EXCEPT ![c] = IdleAuth]
  /\ UNCHANGED <<store, proc, closing, snapshot, mutex, op, reload, clock,
                 crashes, issued, revoked>>

-----------------------------------------------------------------------------
(* Reload, Close, crash and start                                          *)

\* Reload reads the table and installs the result without mutationMu.
ReloadRead(r) ==
  /\ proc = "up" /\ reload[r].pc = "idle"
  /\ reload' = [reload EXCEPT ![r] = [pc |-> "publish",
                                      active |-> ListActive(rows, clock)]]
  /\ UNCHANGED <<store, proc, closing, snapshot, mutex, op, auth, clock,
                 crashes, issued, revoked>>

ReloadPublish(r) ==
  /\ proc = "up" /\ reload[r].pc = "publish"
  /\ snapshot' = Published(reload[r].active)
  /\ reload' = [reload EXCEPT ![r] = IdleReload]
  /\ UNCHANGED <<store, proc, closing, mutex, op, auth, clock, crashes,
                 issued, revoked>>

CloseBegin ==
  /\ proc = "up" /\ closing = "open"
  /\ closing' = "closing"
  /\ UNCHANGED <<store, memory, proc, clock, crashes, issued, revoked>>

CloseEnd ==
  /\ proc = "up" /\ closing = "closing"
  /\ closing' = "closed"
  /\ snapshot' = {}
  /\ UNCHANGED <<store, proc, mutex, op, auth, reload, clock, crashes, issued,
                 revoked>>

\* The process ends at any point: everything but the database is lost.
Crash ==
  /\ proc = "up" /\ crashes < MaxCrashes
  /\ crashes' = crashes + 1
  /\ proc' = "down" /\ closing' = "open" /\ snapshot' = {}
  /\ mutex' = NoAdmin
  /\ op' = [a \in Admins |-> IdleOp]
  /\ auth' = [c \in Clients |-> IdleAuth]
  /\ reload' = [r \in Reloaders |-> IdleReload]
  /\ UNCHANGED <<store, clock, issued, revoked>>

\* NewService imports MCP_API_KEY when no row is left undeleted.
MustImport == Legacy # NoSecret /\ \A k \in Keys : ~Live(k)

StartList ==
  /\ proc = "down" /\ ~MustImport
  /\ proc' = "up"
  /\ UNCHANGED store
  /\ snapshot' = Published(ActiveAfter(clock))
  /\ UNCHANGED <<closing, mutex, op, auth, reload, clock, crashes,
                 issued, revoked>>

StartImport(k) ==
  /\ proc = "down" /\ MustImport
  /\ rows[k].status = "absent" /\ PrefixFree(k, Legacy)
  /\ proc' = "up"
  /\ rows' = [rows EXCEPT ![k] = [status |-> "active", secret |-> Legacy,
                                  expires |-> Never, version |-> 1]]
  /\ audited' = [audited EXCEPT ![k] = @ + 1]
  /\ snapshot' = Published(ActiveAfter(clock))
  /\ UNCHANGED <<closing, mutex, op, auth, reload, clock, crashes, issued,
                 revoked>>

\* The INSERT of importLegacy violates UNIQUE(key_prefix): NewService fails.
StartRefused ==
  /\ proc = "down" /\ MustImport
  /\ \E k \in Keys : rows[k].status = "absent" /\ ~PrefixFree(k, Legacy)
  /\ proc' = "refused"
  /\ UNCHANGED <<store, memory, closing, clock, crashes, issued, revoked>>

Tick ==
  /\ clock < MaxClock
  /\ clock' = clock + 1
  /\ UNCHANGED <<store, memory, proc, closing, crashes, issued, revoked>>

-----------------------------------------------------------------------------
Init ==
  /\ rows = [k \in Keys |-> Absent]
  /\ audited = [k \in Keys |-> 0]
  /\ proc = "down" /\ closing = "open" /\ snapshot = {} /\ mutex = NoAdmin
  /\ op = [a \in Admins |-> IdleOp]
  /\ auth = [c \in Clients |-> IdleAuth]
  /\ reload = [r \in Reloaders |-> IdleReload]
  /\ clock = 0 /\ crashes = 0 /\ issued = {} /\ revoked = {}

MutationStep(a) ==
  \/ RefuseClosed(a) \/ RefuseMissing(a)
  \/ \E kind \in Kinds, k \in Keys \cup {NoKey}, v \in 0 .. MaxVersion - 1,
        e \in Expiries \cup {Never} : Enter(a, kind, k, v, e)
  \/ \E k \in Keys, s \in Secrets \cup {NoSecret} : Commit(a, k, s)
  \/ Rollback(a) \/ Publish(a)

Next ==
  \/ \E a \in Admins : Request(a) \/ MutationStep(a)
  \/ \E c \in Clients : \/ \E s \in Secrets : AuthCheck(c, s)
                        \/ AuthLoad(c) \/ AuthDecide(c) \/ AuthReturn(c)
  \/ \E r \in Reloaders : ReloadRead(r) \/ ReloadPublish(r)
  \/ CloseBegin \/ CloseEnd
  \/ Crash \/ StartList \/ (\E k \in Keys : StartImport(k)) \/ StartRefused
  \/ Tick

Spec == Init /\ [][Next]_vars
=============================================================================
