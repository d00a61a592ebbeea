---------------------------- MODULE RateLimiter ----------------------------
(***************************************************************************)
(* The fixed-window rate limiter of web/ratelimit.go.  Allow runs under    *)
(* the limiter's mutex, so a call is one step.  A bucket with count 0      *)
(* stands for a key that the map does not hold.                            *)
(***************************************************************************)
EXTENDS Integers, FiniteSets, Sequences

CONSTANTS
  Keys,        \* "<API key id>|<client IP>"
  Window,      \* RATE_LIMIT_WINDOW_MS
  Max,         \* RATE_LIMIT_MAX_REQUESTS
  MaxBuckets,  \* defaultMaxBuckets
  MaxClock, MaxCount   \* bounds

ASSUME RateConstantsOK ==
  /\ IsFiniteSet(Keys)
  /\ Window \in Nat \ {0} /\ Max \in Nat \ {0} /\ MaxBuckets \in Nat \ {0}
  /\ MaxClock \in Nat /\ MaxCount \in Nat

VARIABLES
  buckets,    \* RateLimiter.buckets
  lastSweep,  \* RateLimiter.lastSweep; the zero time lies a window before 0
  clock,
  answer,     \* the last call and its verdict, which the middleware acts on
  admitted    \* history: the instants at which each key was admitted

vars == <<buckets, lastSweep, clock, answer, admitted>>

NoBucket == [start |-> 0, count |-> 0]
NoAnswer == [key |-> {}, ok |-> FALSE]

RateTypeOK ==
  /\ buckets \in [Keys -> [start : Nat, count : Nat]]
  /\ \A k \in Keys : buckets[k].count = 0 => buckets[k] = NoBucket
  /\ lastSweep \in Int
  /\ clock \in Nat
  /\ answer \in [key : Keys, ok : BOOLEAN] \cup {NoAnswer}
  /\ admitted \in [Keys -> Seq(Nat)]

Held(b) == {k \in Keys : b[k].count > 0}

Expired(bucket) == clock - bucket.start >= Window

Swept_Everything(b) == [k \in Keys |-> NoBucket]
Swept_CountOnly(b) ==
  [k \in Keys |-> IF Expired(b[k]) THEN [b[k] EXCEPT !.count = 0] ELSE b[k]]
\* sweepAllLocked: what is left of the map b.
Swept(b) == [k \in Keys |-> IF Expired(b[k]) THEN NoBucket ELSE b[k]]

\* sweepLocked: at most one sweep per window.
SweepDue == clock - lastSweep >= Window
AfterSweep == IF SweepDue THEN Swept(buckets) ELSE buckets
SweptAt(emergency) == IF SweepDue \/ emergency THEN clock ELSE lastSweep

Opened == [start |-> clock, count |-> 1]

Verdict(k, ok) ==
  /\ answer' = [key |-> k, ok |-> ok]
  /\ admitted' = IF ok THEN [admitted EXCEPT ![k] = Append(@, clock)] ELSE admitted
  /\ UNCHANGED clock

IsFull_OneMore(b) == Cardinality(Held(b)) > MaxBuckets
IsFull(b) == Cardinality(Held(b)) >= MaxBuckets

\* A full map is swept once more before a new key is added to it.
Cleared(b) == IF IsFull(b) THEN Swept(b) ELSE b

AllowNew(k) ==
  /\ AfterSweep[k].count = 0
  /\ ~IsFull(Cleared(AfterSweep))
  /\ buckets' = [Cleared(AfterSweep) EXCEPT ![k] = Opened]
  /\ lastSweep' = SweptAt(IsFull(AfterSweep))
  /\ Verdict(k, TRUE)

RefuseNew(k) ==
  /\ AfterSweep[k].count = 0
  /\ IsFull(Cleared(AfterSweep))
  /\ buckets' = Cleared(AfterSweep)
  /\ lastSweep' = SweptAt(TRUE)
  /\ Verdict(k, FALSE)

\* The key's window is over but no sweep has removed its bucket.
AllowRestart(k) ==
  /\ AfterSweep[k].count > 0 /\ Expired(AfterSweep[k])
  /\ buckets' = [AfterSweep EXCEPT ![k] = Opened]
  /\ lastSweep' = SweptAt(FALSE)
  /\ Verdict(k, TRUE)

WithinQuota_OneMore(count) == count <= Max + 1
WithinQuota(count) == count <= Max

\* Refused requests are counted too.
Count(k) ==
  /\ AfterSweep[k].count \in 1 .. MaxCount - 1 /\ ~Expired(AfterSweep[k])
  /\ buckets' = [AfterSweep EXCEPT ![k].count = @ + 1]
  /\ lastSweep' = SweptAt(FALSE)
  /\ Verdict(k, WithinQuota(AfterSweep[k].count + 1))

Tick ==
  /\ clock < MaxClock
  /\ clock' = clock + 1
  /\ UNCHANGED <<buckets, lastSweep, answer, admitted>>

Init ==
  /\ buckets = [k \in Keys |-> NoBucket]
  /\ lastSweep = -Window
  /\ clock = 0
  /\ answer = NoAnswer
  /\ admitted = [k \in Keys |-> <<>>]

Allow(k) == AllowNew(k) \/ RefuseNew(k) \/ AllowRestart(k) \/ Count(k)

Next == (\E k \in Keys : Allow(k)) \/ Tick

Spec == Init /\ [][Next]_vars

-----------------------------------------------------------------------------
\* The map never holds more than maxBuckets keys, however many clients appear
\* within one window (Allow).
MapBounded == Cardinality(Held(buckets)) <= MaxBuckets

\* Fixed windows admit at most 2 Max - 1 requests of a key in any interval of a
\* window's length: the "twice the configured value" that the comment on
\* RateLimiter concedes is never reached, and neither a sweep nor a full map
\* lets a key start its window over.
AdmittedIn(k, t) ==
  Cardinality({i \in DOMAIN admitted[k] : admitted[k][i] \in t .. t + Window - 1})
SlidingBound ==
  \A k \in Keys : \A t \in 0 .. clock : AdmittedIn(k, t) <= 2 * Max - 1

\* Refinement of QuotaPerKey: an expired bucket is no bucket.
OpenBucket(k) ==
  IF buckets[k].count > 0 /\ ~Expired(buckets[k]) THEN buckets[k] ELSE NoBucket
Used(k) == IF OpenBucket(k).count <= Max THEN OpenBucket(k).count ELSE Max

Quota == INSTANCE QuotaPerKey
           WITH used <- [k \in Keys |-> Used(k)],
                since <- [k \in Keys |-> OpenBucket(k).start]

\* Sweeping, restarting and the emergency sweep of a full map never change the
\* quota of a key whose window is open (sweepAllLocked).
ImplementsQuota == Quota!QuotaSpec
=============================================================================
