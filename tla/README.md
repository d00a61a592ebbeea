# Formal models of stock-mcp-go

TLA+ specifications of the parts of `stock-mcp-go` that keep state or run
concurrently, TLC configurations that check them on small instances, and TLAPS
proofs of what matters most for instances of any size. `PROJECT.json` maps every
definition to the lines of the source it models and lists the hazards the
properties are aimed at.

## The system

`stock-mcp-go` is an HTTP server in Go that offers about seventy tools over the
Model Context Protocol. A request passes a chain of handlers: request log, body
limit, authentication (`web/auth.go`) against the managed API keys (`apikey/`),
a rate limiter keyed by API key and client address (`web/ratelimit.go`), then the
MCP handler, whose tools (`stock/`) format requests to the *Data API*, a separate
service. Administrators manage API keys over `web/admin_api.go`, authenticated by
a token or by a session ticket (`web/admin_session.go`), from a page in their
browser (`web/admin.js`). `/readyz` reports whether the Data API answers
(`web/server.go`).

| Component | State | Operations | Interacts with |
|---|---|---|---|
| API-key service (`apikey/service.go`) | in-memory snapshot of active credentials (atomic pointer), mutation mutex, closed flag | Create, Update, Enable, Disable, Rotate, Delete, Authenticate, Reload, Close | store (transactions), usage tracking (channel), auth middleware (call) |
| Key store (`apikey/sqlite.go`) | tables `mcp_api_keys`, `mcp_api_key_audit` | one transaction per mutation that also reads the active list | service |
| Usage tracking (`markUsed`, `usageWorker`) | throttle map, bounded channel, worker's map, column `last_used_at` | send or give up, collect, flush on ticker, drain on Close | service, store |
| Rate limiter | map of fixed-window buckets, last sweep | Allow | auth middleware (failures), MCP endpoint (quota) |
| Readiness | cached verdict and its instant | probe | Data API |
| Administrator sessions | map of hashed tickets and expiries, at most 64 | issue, valid, revoke | admin middleware and handlers |
| Deep-dive tool | per call: semaphore, result maps | fan-out over nine sections | Data API |
| Portfolio-target tools | none here; the Data API stores targets | read, write, restore, share arithmetic | Data API |
| Other tools | none | validate, forward, summarise | Data API |
| Administration page (`web/admin.js`) | in the browser: list of keys, four dialogs, pending action, login flag, one-time key | load, create, edit, confirm, log in and out, show a new key once | administration API (asynchronous requests) |
| Start and shutdown (`main.go`) | process | open, serve, shut down, close | everything above |
| OpenAPI page, configuration, deployment scripts | start-up state | | |

What is hard in it, and what makes each part correct:

* **API keys.** Three copies of the truth (table, snapshot, what an administrator
  was told) change at different moments; a process may end between any two. A
  revoked secret must never work again, an active one must work, one of two
  conflicting edits must lose, the last usable key must survive.
* **Usage tracking.** A non-blocking send, a throttle that is undone when the
  channel is full, a batch that may fail, a drain at shutdown and timestamps
  compared as text: what the worker took must reach the table, and never move it
  back.
* **Rate limiter.** Sweeping, restarting and the emergency sweep of a full map
  must not give a key a second quota; the map must stay bounded.
* **Readiness.** Checks overlap, time out and are cancelled; what is cached must
  be recent and must be about the Data API.
* **Sessions.** Logout is final, eviction takes the ticket that expires first,
  logins overtake each other between clock and mutex.
* **Deep dive.** Slots, partial failure and a context that ends at any moment.
* **Administration page.** Several asynchronous functions are under way at once;
  answers overtake each other, get lost or are 401, and dialogs are dismissed
  meanwhile. What an administrator confirms must be what he was shown, a key that
  is shown once must stay until he has saved it, his own changes must appear, and
  the page must never lock up.

## Modules

| Module | What it models |
|---|---|
| `ApiKeyService` | table, mutex, snapshot, mutations, Authenticate, Reload, Close, crash, start, import of `MCP_API_KEY` |
| `ApiKeyProperties` | properties, fairness, refinement mapping of the above |
| `ApiKeyReloads` | the same with two history variables that say how old the snapshot may be beside `Reload` |
| `KeyRegistry` | abstract promise: credentials change one key at a time and are never granted to a revoked secret |
| `UsageTracker` | `markUsed`, `usageWorker`, `UpdateLastUsed` |
| `RateLimiter`, `QuotaPerKey` | `Allow` with its map; the quota of a key without map, sweeps or capacity |
| `Readiness` | `readyHandler` |
| `AdminSessions` | `adminSessions` with the middleware and handlers that use it |
| `DeepDive` | `AnalyzeStockDeepDive` |
| `AdminPage` | `admin.js`: its handlers and asynchronous functions, the API as the page sees it, other administrators |
| `PageDates` | how the page converts instants for its form and its table |
| `MC*` | small instances for TLC |
| `ApiKeyProofs`, `KeyRegistryProofs`, `UsageTrackerProofs`, `RateLimiterProofs`, `ReadinessProofs`, `DeepDiveProofs`, `AdminSessionProofs`, `AdminPageProofs` | theorems |

Definitions whose name ends in `_Something` next to one of the same name
(`Published_Merged` beside `Published`) are plausible bugs: with one of them in
place of the original, TLC finds the property that `PROJECT.json` pairs with it
violated. They are used by no specification.

### How `ApiKeyService` follows the code

A mutation is four steps of one administrator: `Request` (validation against the
clock), `Enter` (mutex, closed check, `repo.Get`, second reading of the clock),
`Commit` or `Rollback` (`SQLiteRepository.mutate`: the row, its audit row and the
list of active credentials, atomically) and `Publish` (new snapshot, answer,
unlock). `RefuseClosed` and `RefuseMissing` are the early returns. SQLite
transactions are atomic and durable; a mutation that fails before the commit for
any reason (version, prefix, last active key, cancelled request, busy database)
is `Rollback`, which is always possible. `Authenticate` is three steps: closed
check, loading the snapshot pointer, and the decision on the snapshot it loaded
with the clock of that moment. `Reload` is two steps without the mutex, as in the
code. `Crash` keeps only the tables; `StartList`, `StartImport` and
`StartRefused` are the outcomes of `NewService`.

The code reads the clock several times in one mutation, and so does the model: at
the request, after the mutex (`now`), in the transaction for
`ensureAnotherActive` (`judged`) and again for the list of active credentials
(`listed`), in this order, and at last the commit. A key may expire between any
two of them. Nothing else changes between the readings in the transaction, so
that one action may choose them.

`ApiKeyReloads` adds `read` and `shown`, the tables there have been since a Reload
read one and since the snapshot's was read or committed. They are history: they
restrict no step.

A secret is the full key text. Digests are taken to be injective and generated
secrets never to repeat (`Generated`), but two secrets may share a prefix: the
UNIQUE constraint of the table is modelled, the collision is not assumed away.
`StoredPrefix` and `LookupPrefix` are separate because the code computes the
prefix at import and the prefix at look-up in different functions. `revoked` is
a history variable: what an administrator has been told no longer works, minus
what was enabled again. A call to Authenticate is `doomed` when it began with
such a secret.

### The other modules

* `UsageTracker` counts half seconds, because `dbTime` drops trailing zeros and
  `UpdateLastUsed` compares text: "…01.5Z" sorts before "…01Z". A caller normally
  rests at most `Rest` between two steps; `stalled` remembers that one rested
  longer (at most `MaxStall`). `Rest` is less than the throttling interval: that is
  a minute, and a caller that rests as long has stalled. Then events reach the channel out of order:
  `EventsApart` and `ReceivedIsKept` speak of the time before, the rest of the
  properties of all of it. A flush that fails is `UpdateFails`; `received` forgets
  what a failed flush lost. `Accept` is the closed check of Authenticate and
  `MarkUsed` the reading of the clock, which may come after Close. `Delete` is a
  deletion by the service: `UpdateLastUsed` leaves deleted rows alone, but a
  snapshot loaded before still accepts the key.
* `RateLimiter.Allow` runs under one mutex and is one step, split by its
  branches. A bucket with count 0 stands for an absent entry.
* `Readiness` lets the Data API change at will. A check asks it once; its answer
  may be lost to the timeout or to a client that hangs up, and then the error is
  stored like any other. Storing, and returning an answer, take no second. Without a
  check (`h.check == nil`) a probe is answered at once and nothing is kept;
  `main.go` always gives one, and the branch is left out.
* A request arrives at `AdminSessions` with a ticket, a bearer token or both. The token is
  looked at first, but a logout revokes the cookie's ticket either way.
* `AdminSessions.Issue` uses the clock that `Login` read before the mutex. Which
  of several tickets with the same expiry is evicted depends on the map's
  iteration order and is a choice.
* `DeepDive` has one goroutine per section; the deferred release of the slot is a
  step of its own, after the unlock. The Data API owes no answer.

### How `AdminPage` follows the code

JavaScript runs a function without interruption up to its next `await`. So an
event handler is one action up to its `fetch` (`Refresh`, `SubmitKey`,
`RunConfirmed`, `SubmitLogin`, `Logout`; those that send nothing are `OpenCreate`,
`OpenEdit`, `OpenConfirm`, `CancelForm`, `CancelConfirm`, `DismissLogin`,
`CloseSecret`), and what follows the `await` is another: `ListArrives`,
`KeySaved`, `ActionDone`, `LoggedIn`, `LoggedOut`, the 401 branch of `request`
(`Unauthorized`) and the `catch` and `finally` blocks (`Throws`). `submitKey`,
`runConfirmed` and the login end in `loadKeys`, which sends a request in the same
step (`Reload`). A call under way is a record: the request it sent, how far it is,
the answer, and the button that its function's `finally` will enable.

Modal dialogs decide what can be pressed: `showModal` makes everything below the
topmost dialog inert (`Reaches`, `ReachesPage`). The Escape key closes any of
them, so that a call may outlive the dialog it was started from, and another
dialog may be open when it continues. The closure that `openConfirm` stores holds
the *item* its row was drawn from, whereas `submitKey` looks the version up in the
list of the moment (`PendingRequest`, `VersionSent`).

The API side is what the page can see of `ApiKeyService`: a mutation that names
the current version is applied to one row in one transaction and answered, or is
refused. A request may fail in the browser and still reach the server
(`Abandoned`, `MutateLate`), any answer may be 401 (another tab logged out, the
ticket ended: `AdminSessions`), and `OtherAdmin` stands for other pages and
scripts, which name the current version. The refusal of the last active key and
the validation of metadata are refusals like any other. An instant counts half
minutes, because `toLocalInput` cuts seconds off.

`expected`, `seen` and `beside` are history: the key and version the newest load
has to bring, the key as it was listed when a button was pressed, and that two
calls which bring a full key were under way together.

## Runs

| Run | Question | Bounds |
|---|---|---|
| `ApiKeyMutations` | `SnapshotMatchesStore`, `NamedVersionApplied`, `RevokedNeverAccepted`, `ImplementsRegistry`: do mutations, Authenticate, Close and a crash keep the copies in agreement? | 2 keys, 3 secrets of which two share a prefix, 2 administrators, 1 caller, versions to 3, 1 crash |
| `ApiKeyExpiry` | `TypeOK`, `ActiveSecretAccepted`, `LastActiveKept` while keys expire and `MCP_API_KEY` is imported | 2 keys, 2 generated secrets and the imported one, clock to 1, versions to 3, 2 crashes |
| `ApiKeyLiveness` | `EveryRequestReturns` and `SnapshotIsOneReading`, beside Reload | 2 administrators, 1 Reload, versions to 2 |
| `ApiKeyLegacyRevived` | violated: a rotated-out `MCP_API_KEY` works again after a restart | 2 keys, 1 crash |
| `ApiKeyLiveFormat` | violated: an `MCP_API_KEY` in the generated format never authenticates | the first state after the start |
| `UsageTracking` | `UsageTypeOK`, `ReceivedIsKept`, `EventsApart`, `CloseReturns`, `SentIsReceived`, `LastUsedNeverBack`, with callers that stall and a key that is deleted | 2 callers of 1 key, channel of 1, interval 3, clock to 3, 1 failed flush, 1 restart |
| `RateLimiting` | `RateTypeOK`, `MapBounded`, `SlidingBound`, `ImplementsQuota` | 3 keys, map of 2, quota 2, window 2, clock to 4 |
| `ReadyCache` | `ReadyTypeOK`, `AnswerRecent` | 2 probes, cache 2 s and timeout 3 s as in the code, clock to 8 |
| `ReadyHangup` | violated: a prober that hangs up makes others see the Data API down | as above, clock to 4 |
| `Sessions` | `SessionTypeOK`, `LoggedOutNotServed`, `SurvivesFewLogins` | 2 requests, 5 tickets, map of 3, TTL 2, clock to 3 |
| `AdminPage` | `PageTypeOK`, `ChangesWhatWasListed`, `SecretStays`, `OwnChangesListed`, `ExpiryNeverDrifts`, `ButtonsReturn` | 2 keys, 2 calls under way, 3 changes in all, another administrator who edits and deletes; symmetric in keys and calls |
| `DeepDive` | `DeepDiveTypeOK`, `InFlightBounded`, `AllAccountedFor`, `EmptyIsBackends`, `CallReturns` | 4 sections, 2 slots |

Why the bounds are enough: two keys give "this one and another", three secrets a
rotation beside a second key and a prefix that collides, version 3 a disable and
an enable after a create, two administrators a waiter for the mutex. One caller
of Authenticate suffices because callers share nothing but what they read. The
rate limiter needs one key more than its map, two full windows and a boundary
between them. Two probes suffice for one verdict to overwrite another. Clocks
run long enough for every timeout in the model to pass at least once, and
`MaxStall`, `MaxFailures`, `MaxRestarts` and `MaxCrashes` allow the events they
bound.

In `UsageTracking` a channel of one is full after one event and lets a second
caller find it so; two callers are enough for a claim that another one's undo
deletes. Three half seconds hold the interval once, a stall as long as it, and two
instants of one second, a whole one and one with a fraction. In `AdminPage` two calls are enough for answers in the wrong order, for a
lost call beside its repetition and for two keys shown at once; three changes
allow a creation, an edit by somebody else and the page's answer to it. The page
is opened on an empty table, so that every key was created in the run (by the page
itself). The form is submitted as it was opened (`Picked = {}`): empty for a new key,
with the minute that `openEdit` filled in for an old one. A minute entered by
hand goes through the same conversion, and the proof covers it, as it covers every
`Zone`; the run has Taiwan's. Other administrators set the expiry 3, which has
seconds to lose.

All runs but `AdminPage` disable the deadlock check: clocks, versions and secrets
are bounded, and a server without requests rests. At the page somebody can always
press a button or wait for an answer.

### Fairness

* `ApiKeyReloads!FairHistorySpec`, on `ApiKeyProperties!FairSpec`'s pattern: strong fairness of each administrator's mutation
  steps. Go's `sync.Mutex` hands the lock to a waiter that has starved for a
  millisecond, and the runtime schedules every goroutine that can run.
* `UsageTracker!FairSpec`: weak fairness of the goroutines' steps and of the
  ticker; strong fairness of the three cases of the worker's `select`, which Go
  chooses among at random. No fairness of Authenticate, Close, failures.
* `DeepDive!FairSpec`: the deadline of `context.WithTimeout` fires, requests that
  carry an ended context return, goroutines that can run do. The Data API's
  answers are not fair.

## What the violations show

1. **A rotated-out bootstrap key comes back** (`ApiKeyLegacyRevived`). `Count`
   ignores deleted rows. If the imported key was rotated and every row is later
   deleted (the last one must be expired or disabled for that), the next start
   with `MCP_API_KEY` still set imports the old secret again. When the imported
   key was deleted without a rotation, its tombstone holds the UNIQUE prefix and
   the start fails instead (`StartRefused`).
2. **A bootstrap key in the generated format never works**
   (`ApiKeyLiveFormat`): it is stored under the prefix of its digest and looked
   up under the prefix in its text.
3. **A prober that hangs up makes the service look unready** (`ReadyHangup`): the
   check runs under the prober's context, and its cancellation is cached.

Three behaviours of the page are modelled as they are, without a run that states
the opposite; the hazards list them:

* `loadKeys` returns silently when nobody is logged in, "because `request` has
  opened the login dialog", but only a 401 opens it. After a network error, a 429
  or a 500 on the first load the page says "loading" until somebody presses the
  refresh button.
* `submitKey` takes the version from the newest list, not from the item the form
  was filled from. A list that arrives while the form is open makes the edit
  overwrite another administrator's change that the form does not show.
* Loads are not numbered: when two overlap, the older list may be shown last.

`Reload` publishes without the mutation mutex: beside a mutation it can install
an old list and make a revoked secret work until the next mutation. Only tests
call it today; the properties that it would break are checked and proved without
it (`Reloaders = {}`). `SnapshotIsOneReading` is what remains with it: the snapshot
is one whole reading of one table, as the comment on `Reload` promises, and that
table was not gone yet when whoever installed it had read or committed. So an old
list stays only where a Reload overlapped a mutation, and a mutation that none
overlaps leaves its own.

## Proofs

TLAPS proves every safety property that a passing run checks: each type invariant,
each other invariant, each action property and both refinements, for every value
of the constants that satisfies the modules' assumptions. Four theorems about
`ApiKeyService` assume more, and say so below.

* `TypeCorrect`, `VersionsApplied`, `LastActiveAlwaysKept` (`ApiKeyProofs`). The
  inductive invariants are `TypeInv` (types, every row that is not absent has a
  secret, the old secret of an operation is one) and `Serial`: an operation
  past the mutex owns it, nothing runs in a process that is down, and the instant
  read before a transaction is not in the future. The last is what makes
  `LastActiveKept` inductive: `ensureAnotherActive` compares with both instants. The
  promise is about `now`: the other key may expire before the commit.
* `SnapshotAlwaysCurrent`, under `Reloaders = {}`: strengthened to say that the
  list an operation is about to publish is what the table holds, which needs the
  mutex (nobody else commits meanwhile).
* `SnapshotAlwaysOneReading`, with any number of Reloads: `ReloadInv` says the same of
  what a mutation is about to publish and of what a Reload has read, each against
  the tables since then. `ListsFitTheMap`: no two entries of such a list share a
  prefix, so that the map `publish` builds loses none.
* `ActiveAlwaysAccepted`, under `Reloaders = {}` and for an imported key that is
  looked up under the prefix it was stored under. Generated keys always are
  (`ConstantsOK`); run `ApiKeyLiveFormat` shows an imported one that is not.
* `RevokedStaysRevoked`, under `Reloaders = {}` and
  `Legacy = NoSecret`: the inductive invariant follows a revoked secret through
  the table (no active row has it), the lists about to be published, the snapshot
  and every snapshot entry that a call has in hand. The two assumptions are
  needed: run `ApiKeyLegacyRevived` and the remark on `Reload` above show how it
  fails without them.
* `RegistryImplemented`, under the same two assumptions: every step of the service
  is a step of `KeyRegistry` or leaves it alone. `RegistryInv` joins the invariants
  above and adds `PendingAlone`: what a transaction has committed and not yet
  published differs from the snapshot in its own key only, so that `Publish`, or a
  crash before it, is one step of the registry.
* `RegistryNeverGrantsRevoked`: what every implementation of `KeyRegistry`
  inherits.
* `UsageTypeCorrect`, `LastUsedAlwaysOnward`, `ReceivedAlwaysKept` and
  `EventsAlwaysApart` (`UsageTrackerProofs`). `LastUsedAlwaysOnward` needs no more than
  the types: as text, a fraction sorts before its own second and nowhere else. The
  other two rest on `KeptInv`, which speaks of the time before a caller stalls. While
  a caller is between reading the clock and claiming, its instant is at most `Rest`
  old; a claim is not older than what was sent; and the last event of a key either
  still stands in the throttle map or is an interval ago, although `Undo` deletes
  whichever claim it finds (`PaceInv`). So the events of a key leave the channel in
  the order of their instants, after everything received (`OrderInv`), and a later one
  may replace an earlier one in the worker's map. A key that was deleted is exempt
  from `ReceivedIsKept`.
* `RateTypeCorrect`, `MapAlwaysBounded` and `QuotaImplemented`
  (`RateLimiterProofs`): types, the bound on the map by counting with
  `FiniteSetTheorems`, and the step simulation of `QuotaPerKey` in which a sweep
  changes only buckets the abstract state no longer has.
* `SlidingAlwaysBounded`: the windows of a key are disjoint, each holds at most `Max`
  requests, and the first of each is at its very start. An interval as long as a
  window meets two windows at most, and of the earlier one it misses the first
  request. `SlidingInv` says so of the history, however a sweep or a full map ended a
  bucket.
* `ReadyTypeCorrect`, `AnswersAreRecent` (`ReadinessProofs`). `ReadyInv`: a verdict in
  the cache was asked for at most a timeout before it was stored, and a check under
  way is not older than its timeout.
* `DeepDiveTypeCorrect`, `InFlightAlwaysBounded`, `AlwaysAccountedFor`,
  `EmptyIsAlwaysBackends` (`DeepDiveProofs`), for any
  number of sections and slots. The invariant says what each section has put into
  the result by how far its goroutine has come, and that the channel of slots
  counts the sections that hold one.
* `SessionTypeCorrect`, `LogoutIsFinal`, `SurvivesAlways` (`AdminSessionProofs`).
  The invariant `TicketsKnown` says that a ticket in the map has the expiry it was
  issued with, that one whose logout was answered is not in the map and never
  drawn again, and that only finitely many were issued, so that the map can be
  counted. `RoomMade` is what an eviction does; with it `SurvivesFewLogins` is
  inductive: the tickets an eviction leaves behind all expire no earlier than its
  victim, and they are never forgotten.
* `AlwaysRead`, `ChangesFindTheListed`, `NoDrift` (`AdminPageProofs`). The
  invariant `EverythingWasRead` says of each copy of a key on the page (in the list,
  in the pending action, in a request under way, in an answer) that the table's
  row is the same or has a greater version. Hence a request that names the
  current version names the row that was shown. Dates travel only through
  `ByMinute`, which `FormCutsSeconds` computes.
* `ButtonsAlwaysReturn`: a disabled button belongs to exactly one call under way;
  logouts and loads started by the user own none.
* `SecretAlwaysStays`: nothing but the login dialog is ever
  above the secret dialog, hence nobody can start a call that brings another key
  while it is open (`SecretGuarded`).
* `OwnChangesAlwaysListed`: the load from which a change is expected is alone, and
  its answer was made after the change; `ChangeShown` follows it from the request to
  the table.
* `PageTypeCorrect`: at most three dialogs are open, since nobody opens the form and
  the confirmation together (`FormApart`), and no copy of a key has a version beyond
  those the table may have (`PageHeld`).
* `ShowsTaipeiTime`: for a constant offset the shifted date reads Taipei time.

The theorems about the page hold for any number of keys, calls, changes and other
administrators.

Only model-checked are the four liveness properties, under the fairness above:
`EveryRequestReturns`, `SentIsReceived`, `CloseReturns` and `CallReturns`. Fairness is
about ENABLED, which is beyond the prover. The bounds on clocks, versions and the
like stay parameters of the theorems and may be any number.

## Not modelled

* **HTTP pipeline and shutdown sequence.** Fixed chains without state of their
  own; the limiters, sessions, services and the closing of the store under running
  handlers are in the modules above.
* **Portfolio tools.** The server keeps nothing: targets and revisions are rows of
  the Data API, another program. The share arithmetic uses floating-point numbers,
  which no integer model would translate faithfully.
* **Screens, backtests, signals, market and ETF tools.** Stateless validation and
  forwarding to the Data API, and text summaries.
* **The page's wording**: notices, error texts, the clipboard, names and
  descriptions, daylight-saving switches of the browser's zone.
* **OpenAPI document and `swagger/docs.js`.** Static documents and one call that
  configures the vendored Swagger UI.
* **Configuration, logging, deployment scripts.** Read once at start, or run by
  hand outside the program.
