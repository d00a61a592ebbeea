----------------------------- MODULE Readiness -----------------------------
(***************************************************************************)
(* GET /readyz: concurrent probes share a short cache of the last health   *)
(* check.  The check runs without the lock, so several may be under way;   *)
(* whichever finishes last is cached.  A check asks the Data API once, at  *)
(* an instant it cannot choose, and may lose its answer to the timeout or  *)
(* to a prober that hangs up.  The clock counts seconds.                   *)
(***************************************************************************)
EXTENDS Integers

CONSTANTS
  Probes,      \* concurrent /readyz requests
  CacheTTL,    \* readyCacheTTL
  Timeout,     \* readyCheckTimeout
  MaxClock     \* bound

ASSUME ReadyConstantsOK ==
  CacheTTL \in Nat \ {0} /\ Timeout \in Nat \ {0} /\ MaxClock \in Nat

VARIABLES
  backend,   \* the Data API answers a search: TRUE or FALSE
  cache,     \* checkedAt and lastErr; a verdict at NotYet is the zero time
  probe,     \* what each request is doing, and the verdict it returned
  clock

vars == <<backend, cache, probe, clock>>

NotYet == -1
Instants == 0 .. MaxClock

\* A verdict, and as history why it was reached and when the backend was asked.
Verdict == [ok : BOOLEAN, why : {"none", "answer", "timeout", "hangup"},
            asked : Instants]
Unknown == [ok |-> FALSE, why |-> "none", asked |-> 0]
Idle == [pc |-> "idle", start |-> 0, verdict |-> Unknown]

ReadyTypeOK ==
  /\ backend \in BOOLEAN
  /\ cache \in [at : Instants \cup {NotYet}, verdict : Verdict]
  /\ cache.at = NotYet <=> cache.verdict.why = "none"
  /\ probe \in [Probes -> [pc : {"idle", "ask", "wait", "store", "done"},
                           start : Instants, verdict : Verdict]]
  /\ clock \in Instants

-----------------------------------------------------------------------------
\* The cached verdict is younger than the TTL.
Fresh == cache.at # NotYet /\ clock - cache.at < CacheTTL

AfterHit_Renews == [cache EXCEPT !.at = clock]
AfterHit == cache

Answer(p, verdict) ==
  probe' = [probe EXCEPT ![p].pc = "done", ![p].verdict = verdict]

ServeCached(p) ==
  /\ probe[p].pc = "idle" /\ Fresh
  /\ Answer(p, cache.verdict)
  /\ cache' = AfterHit
  /\ UNCHANGED <<backend, clock>>

StartCheck(p) ==
  /\ probe[p].pc = "idle" /\ ~Fresh
  /\ probe' = [probe EXCEPT ![p] = [Idle EXCEPT !.pc = "ask", !.start = clock]]
  /\ UNCHANGED <<backend, cache, clock>>

\* The Data API decides its answer; it has yet to travel back.
Ask(p) ==
  /\ probe[p].pc = "ask"
  /\ probe' = [probe EXCEPT ![p].pc = "wait", ![p].verdict =
                 [ok |-> backend, why |-> "answer", asked |-> clock]]
  /\ UNCHANGED <<backend, cache, clock>>

Arrive(p) ==
  /\ probe[p].pc = "wait"
  /\ probe' = [probe EXCEPT ![p].pc = "store"]
  /\ UNCHANGED <<backend, cache, clock>>

\* context.WithTimeout(ctx, ...) ends the check: at the timeout, or as soon as
\* the client of this request is gone.
Abandon(p) ==
  /\ probe[p].pc \in {"ask", "wait"}
  /\ \E why \in {"timeout", "hangup"} :
       /\ why = "timeout" => clock = probe[p].start + Timeout
       /\ probe' = [probe EXCEPT ![p].pc = "store", ![p].verdict =
                      [ok |-> FALSE, why |-> why, asked |-> probe[p].start]]
  /\ UNCHANGED <<backend, cache, clock>>

Stored_Keeps(p) == [at |-> clock, verdict |-> cache.verdict]
Stored(p) == [at |-> clock, verdict |-> probe[p].verdict]

\* Nobody reads the answer to a client that hung up.
Store(p) ==
  /\ probe[p].pc = "store"
  /\ cache' = Stored(p)
  /\ IF probe[p].verdict.why = "hangup"
       THEN probe' = [probe EXCEPT ![p] = Idle]
       ELSE Answer(p, probe[p].verdict)
  /\ UNCHANGED <<backend, clock>>

\* The response is on its way and the connection serves the next request.
Return(p) ==
  /\ probe[p].pc = "done"
  /\ probe' = [probe EXCEPT ![p] = Idle]
  /\ UNCHANGED <<backend, cache, clock>>

Toggle ==
  /\ backend' = ~backend
  /\ UNCHANGED <<cache, probe, clock>>

\* A second is long against a goroutine's wait for the processor or the lock: a
\* check is abandoned when its timeout is reached, its result is stored and an
\* answer returned before the clock moves.
Tick ==
  /\ clock < MaxClock
  /\ \A p \in Probes :
       /\ probe[p].pc \in {"ask", "wait"} => clock < probe[p].start + Timeout
       /\ probe[p].pc \notin {"store", "done"}
  /\ clock' = clock + 1
  /\ UNCHANGED <<backend, cache, probe>>

Init ==
  /\ backend \in BOOLEAN
  /\ cache = [at |-> NotYet, verdict |-> Unknown]
  /\ probe = [p \in Probes |-> Idle]
  /\ clock = 0

\* readyHandler with a check, which main.go always gives it; without one it answers
\* at once and keeps nothing.
Probe(p) ==
  ServeCached(p) \/ StartCheck(p) \/ Ask(p) \/ Arrive(p) \/ Abandon(p)
    \/ Store(p) \/ Return(p)

Next == (\E p \in Probes : Probe(p)) \/ Toggle \/ Tick

Spec == Init /\ [][Next]_vars

-----------------------------------------------------------------------------
\* An answer of /readyz never rests on a look at the Data API older than the
\* cache's life and one check's timeout together, however the checks of several
\* probes overlap and overwrite each other ("reflect real state changes within
\* seconds", the comment on readyCacheTTL).
AnswerRecent ==
  \A p \in Probes :
    probe[p].pc = "done" => clock - probe[p].verdict.asked < CacheTTL + Timeout

\* A probe is told that the data source is unavailable only when the Data API
\* refused or was too slow (the reason that readyHandler.ServeHTTP puts in its
\* 503), never because some other probe's client hung up.
UnavailableIsBackends ==
  \A p \in Probes :
    probe[p].pc = "done" /\ ~probe[p].verdict.ok => probe[p].verdict.why # "hangup"
=============================================================================
