------------------------- MODULE RateLimiterProofs -------------------------
(***************************************************************************)
(* Proofs about RateLimiter for every value of its constants.              *)
(***************************************************************************)
EXTENDS RateLimiter, FiniteSetTheorems, TLAPS

Buckets == [Keys -> [start : Nat, count : Nat]]

\* A sweep leaves a map of the same kind, without the expired buckets and with
\* every other bucket as it was (sweepAllLocked).
LEMMA SweptBuckets ==
  ASSUME NEW b \in Buckets
  PROVE  /\ Swept(b) \in Buckets
         /\ \A k \in Keys : Swept(b)[k] = IF Expired(b[k]) THEN NoBucket ELSE b[k]
         /\ Held(Swept(b)) \subseteq Held(b)
BY DEF Buckets, Swept, NoBucket, Held

\* What Allow works on after its sweeps: each bucket is as it was, or it was
\* expired and is gone.
LEMMA SweepFacts ==
  ASSUME RateTypeOK
  PROVE  /\ AfterSweep \in Buckets /\ Cleared(AfterSweep) \in Buckets
         /\ \A k \in Keys :
              /\ \/ AfterSweep[k] = buckets[k]
                 \/ AfterSweep[k] = NoBucket /\ Expired(buckets[k])
              /\ \/ Cleared(AfterSweep)[k] = buckets[k]
                 \/ Cleared(AfterSweep)[k] = NoBucket /\ Expired(buckets[k])
         /\ Held(AfterSweep) \subseteq Held(buckets)
         /\ Held(Cleared(AfterSweep)) \subseteq Held(buckets)
<1>1. buckets \in Buckets
  BY DEF RateTypeOK, Buckets
<1>2. AfterSweep \in Buckets /\ Held(AfterSweep) \subseteq Held(buckets)
        /\ \A k \in Keys : \/ AfterSweep[k] = buckets[k]
                           \/ AfterSweep[k] = NoBucket /\ Expired(buckets[k])
  <2>1. CASE SweepDue
    <3>1. AfterSweep = Swept(buckets)
      BY <2>1 DEF AfterSweep
    <3>. QED  BY <1>1, <3>1, SweptBuckets
  <2>2. CASE ~SweepDue
    <3>1. AfterSweep = buckets
      BY <2>2 DEF AfterSweep
    <3>. QED  BY <1>1, <3>1
  <2>. QED  BY <2>1, <2>2
<1>3. CASE IsFull(AfterSweep)
  <2>1. Cleared(AfterSweep) = Swept(AfterSweep)
    BY <1>3 DEF Cleared
  <2>. QED  BY <1>2, <2>1, SweptBuckets
<1>4. CASE ~IsFull(AfterSweep)
  BY <1>2, <1>4 DEF Cleared
<1>. QED  BY <1>2, <1>3, <1>4

-----------------------------------------------------------------------------
(* Types                                                                   *)

LEMMA RateTypeInit == Init => RateTypeOK
BY RateConstantsOK DEF Init, RateTypeOK, NoBucket, NoAnswer

LEMMA RateTypeStep == RateTypeOK /\ [Next]_vars => RateTypeOK'
<1>. SUFFICES ASSUME RateTypeOK, [Next]_vars PROVE RateTypeOK'
  OBVIOUS
<1>1. Opened \in [start : Nat, count : Nat] /\ Opened.count = 1
  BY DEF Opened, RateTypeOK
<1>2. ASSUME NEW k \in Keys, NEW ok \in BOOLEAN, Verdict(k, ok)
      PROVE  /\ answer' \in [key : Keys, ok : BOOLEAN] \cup {NoAnswer}
             /\ admitted' \in [Keys -> Seq(Nat)]
             /\ clock' \in Nat
  BY <1>2 DEF Verdict, RateTypeOK
<1>3. ASSUME NEW e \in BOOLEAN PROVE SweptAt(e) \in Int
  BY DEF SweptAt, RateTypeOK
<1>4. \A k \in Keys : /\ AfterSweep[k].count = 0 => AfterSweep[k] = NoBucket
                      /\ Cleared(AfterSweep)[k].count = 0
                           => Cleared(AfterSweep)[k] = NoBucket
  BY SweepFacts DEF RateTypeOK
<1>. DEFINE Good(b) == /\ b \in Buckets
                       /\ \A k \in Keys : b[k].count = 0 => b[k] = NoBucket
<1>5. ASSUME NEW b, Good(b), NEW k \in Keys, NEW u \in [start : Nat, count : Nat],
             u.count # 0, buckets' = [b EXCEPT ![k] = u]
      PROVE  Good(buckets')
  BY <1>5 DEF Buckets
<1>6. Good(AfterSweep) /\ Good(Cleared(AfterSweep))
  BY <1>4, SweepFacts
<1>. HIDE DEF Good
<1>7. ASSUME NEW k \in Keys, Allow(k) PROVE Good(buckets')
  <2>1. CASE AllowNew(k)
    <3>1. buckets' = [Cleared(AfterSweep) EXCEPT ![k] = Opened]
      BY <2>1 DEF AllowNew
    <3>2. Opened.count # 0
      BY <1>1
    <3>. QED  BY <1>1, <1>5, <1>6, <3>1, <3>2
  <2>2. CASE RefuseNew(k)
    BY <1>6, <2>2 DEF RefuseNew
  <2>3. CASE AllowRestart(k)
    <3>1. buckets' = [AfterSweep EXCEPT ![k] = Opened]
      BY <2>3 DEF AllowRestart
    <3>2. Opened.count # 0
      BY <1>1
    <3>. QED  BY <1>1, <1>5, <1>6, <3>1, <3>2
  <2>4. CASE Count(k)
    <3>1. AfterSweep[k] \in [start : Nat, count : Nat]
      BY SweepFacts DEF Buckets
    <3>. DEFINE u == [AfterSweep[k] EXCEPT !.count = @ + 1]
    <3>2. u \in [start : Nat, count : Nat] /\ u.count # 0
      BY <3>1
    <3>3. buckets' = [AfterSweep EXCEPT ![k] = u]
      BY <2>4 DEF Count
    <3>. HIDE DEF u
    <3>. QED  BY <1>5, <1>6, <3>2, <3>3
  <2>. QED  BY <1>7, <2>1, <2>2, <2>3, <2>4 DEF Allow
<1>8. ASSUME NEW k \in Keys, Allow(k) PROVE RateTypeOK'
  <2>1. PICK e \in BOOLEAN : lastSweep' = SweptAt(e)
    <3>1. IsFull(AfterSweep) \in BOOLEAN
      BY DEF IsFull
    <3>. QED  BY <1>8, <3>1 DEF Allow, AllowNew, RefuseNew, AllowRestart, Count
  <2>2. PICK ok \in BOOLEAN : Verdict(k, ok)
    <3>1. WithinQuota(AfterSweep[k].count + 1) \in BOOLEAN
      BY DEF WithinQuota
    <3>. QED  BY <1>8, <3>1 DEF Allow, AllowNew, RefuseNew, AllowRestart, Count
  <2>3. lastSweep' \in Int
    BY <1>3, <2>1
  <2>4. Good(buckets')
    BY <1>7, <1>8
  <2>. QED  BY <1>2, <2>2, <2>3, <2>4 DEF RateTypeOK, Buckets, Good
<1>9. CASE Tick \/ UNCHANGED vars
  BY <1>9 DEF Tick, vars, RateTypeOK
<1>. QED  BY <1>8, <1>9 DEF Next

\* A bucket is well formed in every reachable state, and a key that the map does
\* not hold leaves nothing behind (RateLimiter, sweepAllLocked).
THEOREM RateTypeCorrect == Spec => []RateTypeOK
BY RateTypeInit, RateTypeStep, PTL DEF Spec

-----------------------------------------------------------------------------
(* The size of the map                                                     *)

LEMMA HeldFinite ==
  ASSUME NEW S, NEW T, S \subseteq T, T \subseteq Keys
  PROVE  /\ IsFiniteSet(S) /\ IsFiniteSet(T)
         /\ Cardinality(S) \in Nat /\ Cardinality(T) \in Nat
         /\ Cardinality(S) <= Cardinality(T)
BY RateConstantsOK, FS_Subset, FS_CardinalityType

LEMMA MapBoundedStep == RateTypeOK /\ MapBounded /\ [Next]_vars => MapBounded'
<1>. SUFFICES ASSUME RateTypeOK, MapBounded, [Next]_vars PROVE MapBounded'
  OBVIOUS
<1>1. Held(buckets) \subseteq Keys
  BY DEF Held
<1>2. ASSUME Held(buckets)' \subseteq Held(buckets) PROVE MapBounded'
  BY <1>1, <1>2, HeldFinite, RateConstantsOK DEF MapBounded
<1>3. ASSUME NEW k \in Keys, AllowNew(k) PROVE MapBounded'
  <2>. DEFINE H == Held(Cleared(AfterSweep))
  <2>1. H \subseteq Keys /\ IsFiniteSet(H) /\ Cardinality(H) \in Nat
    BY HeldFinite DEF Held
  <2>2. Cardinality(H) < MaxBuckets
    BY <1>3, <2>1, RateConstantsOK DEF AllowNew, IsFull
  <2>3. Held(buckets)' \subseteq H \cup {k}
    <3>1. \A j \in Keys \ {k} : buckets'[j] = Cleared(AfterSweep)[j]
      BY <1>3, SweepFacts DEF AllowNew, Buckets
    <3>. QED  BY <3>1 DEF Held
  <2>4. Cardinality(H \cup {k}) <= MaxBuckets
    BY <2>1, <2>2, FS_AddElement, RateConstantsOK
  <2>5. H \cup {k} \subseteq Keys
    BY <2>1
  <2>. QED  BY <2>3, <2>4, <2>5, HeldFinite, RateConstantsOK DEF MapBounded
<1>4. ASSUME NEW k \in Keys, RefuseNew(k) PROVE MapBounded'
  BY <1>2, <1>4, SweepFacts DEF RefuseNew
<1>5. ASSUME NEW k \in Keys, AllowRestart(k) \/ Count(k) PROVE MapBounded'
  <2>1. k \in Held(AfterSweep)
    <3>1. AfterSweep[k].count \in Nat
      BY SweepFacts DEF Buckets
    <3>2. AfterSweep[k].count > 0 \/ AfterSweep[k].count \in 1 .. MaxCount - 1
      BY <1>5, Zenon DEF AllowRestart, Count
    <3>. QED  BY <3>1, <3>2, RateConstantsOK DEF Held
  <2>2. Held(buckets)' \subseteq Held(AfterSweep)
    BY <1>5, <2>1, SweepFacts DEF AllowRestart, Count, Held, Buckets
  <2>. QED  BY <1>2, <2>2, SweepFacts
<1>6. CASE Tick \/ UNCHANGED vars
  BY <1>6 DEF Tick, vars, MapBounded, Held
<1>. QED  BY <1>3, <1>4, <1>5, <1>6 DEF Next, Allow

\* However many clients appear, the map never outgrows maxBuckets (Allow).
THEOREM MapAlwaysBounded == Spec => []MapBounded
<1>1. Init => RateTypeOK /\ MapBounded
  <2>1. Init => Held(buckets) = {}
    BY DEF Init, Held, NoBucket
  <2>. QED  BY <2>1, RateTypeInit, FS_EmptySet, RateConstantsOK DEF MapBounded
<1>2. RateTypeOK /\ MapBounded /\ [Next]_vars => RateTypeOK' /\ MapBounded'
  BY RateTypeStep, MapBoundedStep
<1>. QED  BY <1>1, <1>2, PTL DEF Spec

-----------------------------------------------------------------------------
(* Refinement of QuotaPerKey                                               *)

\* Sweeping a bucket that is expired, or leaving it, is the same to its quota.
LEMMA QuotaKept ==
  ASSUME NEW k \in Keys, clock' = clock,
         \/ buckets'[k] = buckets[k]
         \/ buckets'[k] = NoBucket /\ Expired(buckets[k])
  PROVE  OpenBucket(k)' = OpenBucket(k) /\ Used(k)' = Used(k)
BY DEF OpenBucket, Used, Expired, NoBucket

LEMMA QuotaTypes ==
  ASSUME RateTypeOK, NEW k \in Keys
  PROVE  /\ OpenBucket(k) \in [start : Nat, count : Nat]
         /\ Used(k) \in Nat /\ Used(k) <= Max
         /\ Used(k) = 0 => OpenBucket(k) = NoBucket
BY RateConstantsOK DEF RateTypeOK, OpenBucket, Used, NoBucket

\* A sweep keeps the other keys' quotas, and so does what Allow does to k.
LEMMA OthersKept ==
  ASSUME RateTypeOK, NEW k \in Keys, Allow(k)
  PROVE  /\ clock' = clock
         /\ \A j \in Keys \ {k} : OpenBucket(j)' = OpenBucket(j) /\ Used(j)' = Used(j)
<1>1. clock' = clock
  BY DEF Allow, AllowNew, RefuseNew, AllowRestart, Count, Verdict
<1>2. ASSUME NEW j \in Keys \ {k}
      PROVE  \/ buckets'[j] = buckets[j]
             \/ buckets'[j] = NoBucket /\ Expired(buckets[j])
  BY SweepFacts DEF Allow, AllowNew, RefuseNew, AllowRestart, Count, Buckets
<1>. QED  BY <1>1, <1>2, QuotaKept

\* A key that opens a window had none open, and has used one request of it.
LEMMA OpensWindow ==
  ASSUME RateTypeOK, NEW k \in Keys, AllowNew(k) \/ AllowRestart(k)
  PROVE  Quota!Open(k)
<1>1. buckets'[k] = Opened /\ clock' = clock /\ answer' = [key |-> k, ok |-> TRUE]
  BY SweepFacts DEF AllowNew, AllowRestart, Buckets, Verdict
<1>2. buckets[k].count = 0 \/ Expired(buckets[k])
  BY SweepFacts DEF AllowNew, AllowRestart
<1>3. OpenBucket(k) = NoBucket /\ Used(k) = 0
  BY <1>2, RateConstantsOK DEF OpenBucket, Used, NoBucket, RateTypeOK
<1>4. OpenBucket(k)' = Opened /\ Used(k)' = 1
  BY <1>1, RateConstantsOK DEF OpenBucket, Used, Opened, Expired, RateTypeOK
<1>5. \A j \in Keys \ {k} : OpenBucket(j)' = OpenBucket(j) /\ Used(j)' = Used(j)
  BY OthersKept DEF Allow
<1>6. OpenBucket(k)'.start = clock
  BY <1>4 DEF Opened
<1>. QED  BY <1>1, <1>3, <1>4, <1>5, <1>6 DEF Quota!Open

\* A refused new key has no window, and gets none.
LEMMA FindsFull ==
  ASSUME RateTypeOK, NEW k \in Keys, RefuseNew(k)
  PROVE  Quota!Full(k)
<1>1. /\ clock' = clock /\ answer' = [key |-> k, ok |-> FALSE]
      /\ \/ buckets'[k] = buckets[k]
         \/ buckets'[k] = NoBucket /\ Expired(buckets[k])
  BY SweepFacts DEF RefuseNew, Verdict
<1>2. buckets[k].count = 0 \/ Expired(buckets[k])
  BY SweepFacts DEF RefuseNew
<1>3. Used(k) = 0
  BY <1>2, RateConstantsOK DEF OpenBucket, Used, NoBucket, RateTypeOK
<1>4. \A j \in Keys : OpenBucket(j)' = OpenBucket(j) /\ Used(j)' = Used(j)
  BY <1>1, OthersKept, QuotaKept DEF Allow
<1>. QED  BY <1>1, <1>3, <1>4 DEF Quota!Full

\* A counted request is admitted exactly while the quota lasts.
LEMMA CountsInWindow ==
  ASSUME RateTypeOK, NEW k \in Keys, Count(k)
  PROVE  Quota!Admit(k) \/ Quota!Refuse(k)
<1>. DEFINE n == buckets[k].count
<1>1. AfterSweep[k] = buckets[k] /\ n \in Nat \ {0} /\ ~Expired(buckets[k])
  <2>1. AfterSweep[k] # NoBucket
    BY RateConstantsOK DEF Count, NoBucket
  <2>. QED  BY <2>1, SweepFacts, RateConstantsOK DEF Count, RateTypeOK
<1>2. /\ clock' = clock
      /\ buckets'[k].start = buckets[k].start /\ buckets'[k].count = n + 1
      /\ answer' = [key |-> k, ok |-> n + 1 <= Max]
  BY <1>1, SweepFacts DEF Count, Buckets, Verdict, WithinQuota
<1>3. OpenBucket(k) = buckets[k] /\ OpenBucket(k)' = buckets'[k]
  BY <1>1, <1>2 DEF OpenBucket, Expired
<1>4. \A j \in Keys \ {k} : OpenBucket(j)' = OpenBucket(j) /\ Used(j)' = Used(j)
  BY OthersKept DEF Allow
<1>5. CASE n < Max
  <2>1. Used(k) = n /\ Used(k)' = n + 1
    BY <1>1, <1>2, <1>3, <1>5, RateConstantsOK DEF Used
  <2>2. answer' = [key |-> k, ok |-> TRUE]
    <3>1. (n + 1 <= Max)
      BY <1>1, <1>5, RateConstantsOK
    <3>2. (n + 1 <= Max) = TRUE
      BY <3>1, Zenon
    <3>. QED  BY <1>2, <3>2, Zenon
  <2>3. Used(k) \in 1 .. Max - 1
    BY <1>1, <1>5, <2>1, RateConstantsOK
  <2>4. [j \in Keys |-> Used(j)]' = [[j \in Keys |-> Used(j)] EXCEPT ![k] = @ + 1]
    BY <1>4, <2>1
  <2>5. [j \in Keys |-> OpenBucket(j).start]' = [j \in Keys |-> OpenBucket(j).start]
    BY <1>2, <1>3, <1>4
  <2>. QED  BY <1>2, <2>2, <2>3, <2>4, <2>5 DEF Quota!Admit
<1>6. CASE n >= Max
  <2>1. Used(k) = Max /\ Used(k)' = Max
    BY <1>1, <1>2, <1>3, <1>6, RateConstantsOK DEF Used
  <2>2. answer' = [key |-> k, ok |-> FALSE]
    <3>1. ~(n + 1 <= Max)
      BY <1>1, <1>6, RateConstantsOK
    <3>2. (n + 1 <= Max) = FALSE
      BY <3>1
    <3>. QED  BY <1>2, <3>2, Zenon
  <2>. QED  BY <1>2, <1>3, <1>4, <2>1, <2>2 DEF Quota!Refuse
<1>. QED  BY <1>1, <1>5, <1>6, RateConstantsOK

\* Windows close with the clock.
LEMMA WindowsClose ==
  ASSUME RateTypeOK, Tick
  PROVE  Quota!Pass
<1>1. clock' = clock + 1 /\ buckets' = buckets /\ answer' = answer
  BY DEF Tick
<1>2. ASSUME NEW k \in Keys
      PROVE  LET open == Used(k) > 0 /\ clock + 1 - OpenBucket(k).start < Window
             IN  /\ Used(k)' = IF open THEN Used(k) ELSE 0
                 /\ OpenBucket(k)'.start = IF open THEN OpenBucket(k).start ELSE 0
  BY <1>1, RateConstantsOK DEF Used, OpenBucket, Expired, NoBucket, RateTypeOK
<1>. QED  BY <1>1, <1>2 DEF Quota!Pass

\* The limiter with its map, its sweeps and its capacity implements one quota per
\* key: none of the sweeps ever changes the quota of an open window
\* (sweepLocked, sweepAllLocked, Allow).
THEOREM QuotaImplemented == Spec => ImplementsQuota
<1>1. Init => Quota!Init
  BY RateConstantsOK
     DEF Init, Quota!Init, Used, OpenBucket, NoBucket, NoAnswer, Quota!NoAnswer
<1>2. RateTypeOK /\ [Next]_vars
        => [Quota!Next]_<<[k \in Keys |-> Used(k)],
                          [k \in Keys |-> OpenBucket(k).start], clock, answer>>
  <2>. SUFFICES ASSUME RateTypeOK, [Next]_vars
                PROVE  \/ Quota!Next
                       \/ UNCHANGED <<[k \in Keys |-> Used(k)],
                            [k \in Keys |-> OpenBucket(k).start], clock, answer>>
    OBVIOUS
  <2>1. CASE UNCHANGED vars
    BY <2>1 DEF vars, Used, OpenBucket, Expired, NoBucket
  <2>. QED  BY <2>1, OpensWindow, FindsFull, CountsInWindow, WindowsClose
            DEF Next, Allow, Quota!Next
<1>. QED  BY <1>1, <1>2, RateTypeCorrect, PTL DEF Spec, ImplementsQuota, Quota!QuotaSpec

-----------------------------------------------------------------------------
(* Requests admitted in any interval of a window's length                  *)

\* Positions of a log of instants at or after t, and in the interval from t.
Recent(log, t) == {i \in DOMAIN log : log[i] >= t}
Within(log, t) == {i \in DOMAIN log : log[i] \in t .. t + Window - 1}

\* What is known at instant now of a key that was admitted at the instants of the log
\* and has used `used` requests of a window that opened at `since`.  One request of
\* every window is at its very start, so an interval that reaches into two windows
\* misses the first request of the earlier one.
LogInv(log, used, since, now) ==
  /\ \A i \in DOMAIN log : log[i] <= now
  /\ used = 0 =>
       /\ Recent(log, now) = {}
       /\ \A t \in Nat : t + Window > now => Cardinality(Recent(log, t)) <= Max - 1
  /\ used > 0 =>
       /\ since <= now /\ now - since < Window
       /\ Cardinality(Recent(log, since)) <= used
       /\ Cardinality(Recent(log, since + 1)) <= used - 1
       /\ \A t \in Nat :
            t <= since /\ t + Window > since
              => Cardinality(Recent(log, t)) <= used + Max - 1
  /\ \A t \in Nat : Cardinality(Within(log, t)) <= 2 * Max - 1

SlidingInv ==
  \A k \in Keys : LogInv(admitted[k], Used(k), OpenBucket(k).start, clock)

LEMMA RecentFacts ==
  ASSUME NEW log \in Seq(Nat), NEW t \in Nat
  PROVE  /\ IsFiniteSet(Recent(log, t)) /\ Cardinality(Recent(log, t)) \in Nat
         /\ IsFiniteSet(Within(log, t)) /\ Cardinality(Within(log, t)) \in Nat
         /\ Cardinality(Within(log, t)) <= Cardinality(Recent(log, t))
<1>1. IsFiniteSet(DOMAIN log)
  BY FS_Interval
<1>2. IsFiniteSet(Recent(log, t))
  BY <1>1, FS_Subset DEF Recent
<1>3. Within(log, t) \subseteq Recent(log, t)
  BY RateConstantsOK DEF Within, Recent
<1>. QED  BY <1>2, <1>3, FS_Subset, FS_CardinalityType

LEMMA RecentShrinks ==
  ASSUME NEW log \in Seq(Nat), NEW t \in Nat, NEW u \in Nat, t <= u
  PROVE  Cardinality(Recent(log, u)) <= Cardinality(Recent(log, t))
<1>1. Recent(log, u) \subseteq Recent(log, t)
  BY DEF Recent
<1>. QED  BY <1>1, RecentFacts, FS_Subset

Grown(log, now, longer) == longer = Append(log, now)

\* An admission counts from its instant back, in every interval that holds it.
LEMMA AppendCounts ==
  ASSUME NEW log \in Seq(Nat), NEW now \in Nat, NEW t \in Nat,
         NEW longer, Grown(log, now, longer)
  PROVE  /\ longer \in Seq(Nat)
         /\ Cardinality(Recent(log, t)) \in Nat
         /\ Cardinality(Recent(longer, t)) \in Nat
         /\ Cardinality(Within(longer, t)) \in Nat
         /\ Cardinality(Within(longer, t)) <= Cardinality(Recent(longer, t))
         /\ t <= now =>
              Cardinality(Recent(longer, t)) = Cardinality(Recent(log, t)) + 1
         /\ t > now => Recent(longer, t) = Recent(log, t)
         /\ ~(t <= now /\ now < t + Window) => Within(longer, t) = Within(log, t)
<1>. DEFINE n == Len(log) + 1
<1>1. /\ longer \in Seq(Nat)
      /\ DOMAIN longer = 1 .. n /\ DOMAIN log = 1 .. Len(log)
      /\ longer[n] = now
      /\ \A i \in 1 .. Len(log) : longer[i] = log[i]
      /\ Len(log) \in Nat
  BY DEF Grown
<1>2. n \notin Recent(log, t)
  BY <1>1 DEF Recent
<1>3. ASSUME t <= now
      PROVE  Cardinality(Recent(longer, t)) = Cardinality(Recent(log, t)) + 1
  <2>1. Recent(longer, t) = Recent(log, t) \cup {n}
    BY <1>1, <1>3 DEF Recent
  <2>2. IsFiniteSet(Recent(log, t))
    BY RecentFacts
  <2>. HIDE DEF n
  <2>. QED  BY <1>2, <2>1, <2>2, FS_AddElement
<1>4. ASSUME t > now
      PROVE  Recent(longer, t) = Recent(log, t)
  BY <1>1, <1>4 DEF Recent
<1>5. ASSUME ~(t <= now /\ now < t + Window)
      PROVE  Within(longer, t) = Within(log, t)
  <2>1. longer[n] \notin t .. t + Window - 1
    BY <1>1, <1>5, RateConstantsOK
  <2>2. DOMAIN longer = DOMAIN log \cup {n} /\ \A i \in DOMAIN log : longer[i] = log[i]
    BY <1>1
  <2>. QED  BY <2>1, <2>2 DEF Within
<1>6. /\ Cardinality(Recent(longer, t)) \in Nat
      /\ Cardinality(Within(longer, t)) \in Nat
      /\ Cardinality(Within(longer, t)) <= Cardinality(Recent(longer, t))
      /\ Cardinality(Recent(log, t)) \in Nat
  BY <1>1, RecentFacts
<1>. QED  BY <1>1, <1>3, <1>4, <1>5, <1>6

LEMMA LogOpens ==
  ASSUME NEW log \in Seq(Nat), NEW since \in Nat, NEW now \in Nat,
         LogInv(log, 0, since, now), NEW longer, Grown(log, now, longer)
  PROVE  LogInv(longer, 1, now, now)
<1>1. longer \in Seq(Nat) /\ \A i \in DOMAIN longer : longer[i] <= now
  BY DEF LogInv, Grown
<1>2. Cardinality(Recent(log, now)) = 0
  BY FS_EmptySet DEF LogInv
<1>3. Cardinality(Recent(longer, now)) <= 1
  BY <1>2, AppendCounts
<1>4. Cardinality(Recent(longer, now + 1)) = 0
  <2>1. Recent(longer, now + 1) = {}
    BY <1>1 DEF Recent
  <2>2. Cardinality({}) = 0
    BY FS_EmptySet
  <2>. QED  BY <2>1, <2>2, Zenon
<1>5. ASSUME NEW t \in Nat, t <= now, t + Window > now
      PROVE  Cardinality(Recent(longer, t)) <= Max
  <2>1. Cardinality(Recent(longer, t)) = Cardinality(Recent(log, t)) + 1
    BY <1>5, AppendCounts
  <2>2. Cardinality(Recent(log, t)) <= Max - 1
    BY <1>5 DEF LogInv
  <2>3. Cardinality(Recent(log, t)) \in Nat
    BY RecentFacts
  <2>. QED  BY <2>1, <2>2, <2>3, RateConstantsOK
<1>6. ASSUME NEW t \in Nat
      PROVE  Cardinality(Within(longer, t)) <= 2 * Max - 1
  <2>1. CASE t <= now /\ t + Window > now
    <3>1. Cardinality(Recent(longer, t)) <= Max
      BY <1>5, <2>1
    <3>2. /\ Cardinality(Within(longer, t)) \in Nat /\ Cardinality(Recent(longer, t)) \in Nat
          /\ Cardinality(Within(longer, t)) <= Cardinality(Recent(longer, t))
      BY AppendCounts
    <3>. QED  BY <3>1, <3>2, RateConstantsOK
  <2>2. CASE ~(t <= now /\ now < t + Window)
    <3>1. Within(longer, t) = Within(log, t)
      BY <2>2, AppendCounts
    <3>. QED  BY <3>1 DEF LogInv
  <2>. QED  BY <2>1, <2>2, RateConstantsOK
<1>7. \A t \in Nat : t <= now /\ t + Window > now
                       => Cardinality(Recent(longer, t)) <= 1 + Max - 1
  BY <1>5, RateConstantsOK
<1>. QED  BY <1>1, <1>3, <1>4, <1>6, <1>7, RateConstantsOK DEF LogInv

LEMMA LogAdmits ==
  ASSUME NEW log \in Seq(Nat), NEW since \in Nat, NEW now \in Nat,
         NEW used \in 1 .. Max - 1, LogInv(log, used, since, now),
         NEW longer, Grown(log, now, longer)
  PROVE  LogInv(longer, used + 1, since, now)
<1>1. longer \in Seq(Nat) /\ \A i \in DOMAIN longer : longer[i] <= now
  <2>. DEFINE n == Len(log) + 1
  <2>1. /\ longer \in Seq(Nat)
        /\ DOMAIN longer = 1 .. n /\ DOMAIN log = 1 .. Len(log) /\ Len(log) \in Nat
        /\ longer[n] = now
        /\ \A i \in 1 .. Len(log) : longer[i] = log[i]
    BY DEF Grown
  <2>2. \A i \in DOMAIN log : log[i] <= now
    BY DEF LogInv
  <2>3. ASSUME NEW i \in DOMAIN longer PROVE longer[i] <= now
    <3>1. CASE i = n
      BY <2>1, <3>1
    <3>2. CASE i # n
      <4>1. i \in 1 .. Len(log)
        BY <2>1, <2>3, <3>2
      <4>. QED  BY <2>1, <2>2, <4>1
    <3>. QED  BY <3>1, <3>2
  <2>. QED  BY <2>1, <2>3
<1>2. used \in Nat /\ used > 0 /\ used + 1 <= Max /\ since <= now /\ now - since < Window
  BY RateConstantsOK DEF LogInv
<1>3. ASSUME NEW t \in Nat
      PROVE  /\ Cardinality(Recent(longer, t)) \in Nat
             /\ Cardinality(Recent(log, t)) \in Nat
             /\ t <= now => Cardinality(Recent(longer, t)) = Cardinality(Recent(log, t)) + 1
  <2>1. Cardinality(Recent(longer, t)) \in Nat /\ Cardinality(Recent(log, t)) \in Nat
    BY AppendCounts
  <2>2. ASSUME t <= now
        PROVE  Cardinality(Recent(longer, t)) = Cardinality(Recent(log, t)) + 1
    BY <2>2, AppendCounts
  <2>. QED  BY <2>1, <2>2
<1>4. Cardinality(Recent(longer, since)) <= used + 1
  <2>1. Cardinality(Recent(log, since)) <= used
    BY <1>2 DEF LogInv
  <2>2. Cardinality(Recent(longer, since)) = Cardinality(Recent(log, since)) + 1
    BY <1>2, <1>3
  <2>3. Cardinality(Recent(log, since)) \in Nat
    BY <1>3
  <2>. QED  BY <1>2, <2>1, <2>2, <2>3
<1>5. Cardinality(Recent(longer, since + 1)) <= used
  <2>1. Cardinality(Recent(log, since + 1)) <= used - 1
    BY <1>2 DEF LogInv
  <2>2. CASE since + 1 <= now
    <3>1. since + 1 \in Nat
      OBVIOUS
    <3>2. Cardinality(Recent(longer, since + 1)) = Cardinality(Recent(log, since + 1)) + 1
      BY <1>3, <2>2, <3>1
    <3>3. Cardinality(Recent(log, since + 1)) \in Nat
      BY <1>3, <3>1
    <3>. QED  BY <1>2, <2>1, <3>2, <3>3
  <2>3. CASE since + 1 > now
    <3>1. Recent(longer, since + 1) = Recent(log, since + 1)
      BY <2>3, AppendCounts
    <3>2. Cardinality(Recent(log, since + 1)) \in Nat
      <4>1. since + 1 \in Nat
        OBVIOUS
      <4>. QED  BY <4>1, RecentFacts
    <3>. QED  BY <1>2, <2>1, <3>1, <3>2
  <2>. QED  BY <2>2, <2>3
<1>6. ASSUME NEW t \in Nat, t <= since, t + Window > since
      PROVE  Cardinality(Recent(longer, t)) <= used + Max
  <2>1. Cardinality(Recent(log, t)) <= used + Max - 1
    BY <1>2, <1>6 DEF LogInv
  <2>2. t <= now
    BY <1>2, <1>6
  <2>. QED  BY <1>2, <1>3, <2>1, <2>2, RateConstantsOK
<1>7. ASSUME NEW t \in Nat
      PROVE  Cardinality(Within(longer, t)) <= 2 * Max - 1
  <2>1. CASE t <= now /\ now < t + Window
    <3>1. Cardinality(Recent(longer, t)) <= 2 * Max - 1
      <4>1. CASE t <= since
        <5>1. t + Window > since
          BY <1>2, <2>1, RateConstantsOK
        <5>2. Cardinality(Recent(longer, t)) <= used + Max
          BY <1>6, <4>1, <5>1
        <5>3. Cardinality(Recent(longer, t)) \in Nat
          BY <1>3
        <5>4. used \in Nat /\ Max \in Nat /\ used <= Max - 1
          BY <1>2, RateConstantsOK
        <5>. QED  BY <5>2, <5>3, <5>4
      <4>2. CASE t > since
        <5>1. Cardinality(Recent(longer, t)) <= Cardinality(Recent(longer, since))
          <6>1. since <= t
            BY <4>2
          <6>. QED  BY <1>1, <6>1, RecentShrinks
        <5>2. Cardinality(Recent(longer, since)) \in Nat
          BY <1>3
        <5>3. Cardinality(Recent(longer, t)) \in Nat
          BY <1>3
        <5>. QED  BY <1>2, <1>4, <5>1, <5>2, <5>3, RateConstantsOK
      <4>. QED  BY <4>1, <4>2
    <3>2. /\ Cardinality(Within(longer, t)) \in Nat /\ Cardinality(Recent(longer, t)) \in Nat
          /\ Cardinality(Within(longer, t)) <= Cardinality(Recent(longer, t))
      BY AppendCounts
    <3>. QED  BY <3>1, <3>2, RateConstantsOK
  <2>2. CASE ~(t <= now /\ now < t + Window)
    <3>1. Within(longer, t) = Within(log, t)
      BY <2>2, AppendCounts
    <3>. QED  BY <3>1 DEF LogInv
  <2>. QED  BY <2>1, <2>2
<1>8. /\ Cardinality(Recent(longer, since + 1)) <= (used + 1) - 1
      /\ \A t \in Nat : t <= since /\ t + Window > since
                          => Cardinality(Recent(longer, t)) <= (used + 1) + Max - 1
      /\ used + 1 > 0 /\ used + 1 # 0
  BY <1>2, <1>5, <1>6, RateConstantsOK
<1>. QED  BY <1>1, <1>2, <1>4, <1>7, <1>8 DEF LogInv

\* When the clock moves on a window stays open or closes.
LEMMA LogStaysOpen ==
  ASSUME NEW log \in Seq(Nat), NEW since \in Nat, NEW now \in Nat, NEW used \in 1 .. Max,
         LogInv(log, used, since, now), now + 1 - since < Window
  PROVE  LogInv(log, used, since, now + 1)
<1>1. used \in Nat /\ used > 0 /\ used # 0 /\ since <= now
  BY RateConstantsOK DEF LogInv
<1>2. \A i \in DOMAIN log : log[i] <= now + 1
  BY DEF LogInv
<1>3. since <= now + 1
  BY <1>1
<1>. QED  BY <1>1, <1>2, <1>3 DEF LogInv

LEMMA LogCloses ==
  ASSUME NEW log \in Seq(Nat), NEW since \in Nat, NEW now \in Nat, NEW used \in 0 .. Max,
         LogInv(log, used, since, now), ~(used > 0 /\ now + 1 - since < Window)
  PROVE  LogInv(log, 0, 0, now + 1)
<1>1. \A i \in DOMAIN log : log[i] \in Nat /\ log[i] <= now
  BY DEF LogInv
<1>2. Recent(log, now + 1) = {}
  BY <1>1 DEF Recent
<1>3. ASSUME NEW t \in Nat, t + Window > now + 1
      PROVE  Cardinality(Recent(log, t)) <= Max - 1
  <2>1. CASE used = 0
    BY <1>3, <2>1, RateConstantsOK DEF LogInv
  <2>2. CASE used > 0
    <3>1. since + 1 <= t
      BY <1>3, <2>2, RateConstantsOK
    <3>2. Cardinality(Recent(log, t)) <= Cardinality(Recent(log, since + 1))
      BY <3>1, RecentShrinks
    <3>3. Cardinality(Recent(log, since + 1)) <= used - 1
      BY <2>2 DEF LogInv
    <3>4. Cardinality(Recent(log, t)) \in Nat /\ Cardinality(Recent(log, since + 1)) \in Nat
      <4>1. since + 1 \in Nat
        OBVIOUS
      <4>. QED  BY <4>1, RecentFacts
    <3>. QED  BY <3>2, <3>3, <3>4, RateConstantsOK
  <2>. QED  BY <2>1, <2>2, RateConstantsOK
<1>4. \A i \in DOMAIN log : log[i] <= now + 1
  BY <1>1
<1>5. ~(0 > 0)
  OBVIOUS
<1>. QED  BY <1>2, <1>3, <1>4, <1>5 DEF LogInv

\* The log grows exactly when the request is admitted.
LEMMA LogGrows ==
  ASSUME RateTypeOK, NEW k \in Keys, Allow(k)
  PROVE  /\ \A j \in Keys \ {k} : admitted'[j] = admitted[j]
         /\ answer'.ok => admitted'[k] = Append(admitted[k], clock)
         /\ ~answer'.ok => admitted'[k] = admitted[k]
<1>1. PICK ok \in BOOLEAN : Verdict(k, ok)
  <2>1. WithinQuota(AfterSweep[k].count + 1) \in BOOLEAN
    BY DEF WithinQuota
  <2>. QED  BY <2>1 DEF Allow, AllowNew, RefuseNew, AllowRestart, Count
<1>. QED  BY <1>1 DEF Verdict, RateTypeOK

LEMMA SlidingStep == RateTypeOK /\ SlidingInv /\ [Next]_vars => SlidingInv'
<1>. SUFFICES ASSUME RateTypeOK, SlidingInv, [Next]_vars PROVE SlidingInv'
  OBVIOUS
<1>1. \A k \in Keys : /\ admitted[k] \in Seq(Nat) /\ OpenBucket(k).start \in Nat
                      /\ Used(k) \in 0 .. Max /\ clock \in Nat
                      /\ LogInv(admitted[k], Used(k), OpenBucket(k).start, clock)
  BY QuotaTypes, RateConstantsOK DEF RateTypeOK, SlidingInv
<1>2. ASSUME NEW k \in Keys, Allow(k) PROVE SlidingInv'
  <2>1. /\ clock' = clock
        /\ \A j \in Keys \ {k} :
             LogInv(admitted[j], Used(j), OpenBucket(j).start, clock)'
    BY <1>1, <1>2, OthersKept, LogGrows
  <2>2. LogInv(admitted[k], Used(k), OpenBucket(k).start, clock)'
    <3>1. Quota!Open(k) \/ Quota!Full(k) \/ Quota!Admit(k) \/ Quota!Refuse(k)
      BY <1>2, OpensWindow, FindsFull, CountsInWindow DEF Allow
    <3>2. CASE Quota!Open(k)
      <4>1. /\ Used(k) = 0 /\ Used(k)' = 1 /\ OpenBucket(k).start' = clock
            /\ answer'.ok = TRUE
        BY <3>2 DEF Quota!Open
      <4>2. Grown(admitted[k], clock, admitted'[k])
        BY <1>2, <4>1, LogGrows DEF Grown
      <4>. QED  BY <1>1, <2>1, <4>1, <4>2, LogOpens
    <3>3. CASE Quota!Admit(k)
      <4>1. /\ Used(k) \in 1 .. Max - 1 /\ Used(k)' = Used(k) + 1
            /\ OpenBucket(k).start' = OpenBucket(k).start /\ answer'.ok = TRUE
        BY <3>3 DEF Quota!Admit
      <4>2. Grown(admitted[k], clock, admitted'[k])
        BY <1>2, <4>1, LogGrows DEF Grown
      <4>. QED  BY <1>1, <2>1, <4>1, <4>2, LogAdmits
    <3>4. CASE Quota!Full(k) \/ Quota!Refuse(k)
      <4>1. /\ Used(k)' = Used(k) /\ OpenBucket(k).start' = OpenBucket(k).start
            /\ answer'.ok = FALSE
        BY <3>4 DEF Quota!Full, Quota!Refuse
      <4>2. admitted'[k] = admitted[k]
        BY <1>2, <4>1, LogGrows
      <4>. QED  BY <1>1, <2>1, <4>1, <4>2
    <3>. QED  BY <3>1, <3>2, <3>3, <3>4
  <2>. QED  BY <2>1, <2>2 DEF SlidingInv
<1>3. CASE Tick
  <2>. SUFFICES ASSUME NEW k \in Keys
                PROVE  LogInv(admitted[k], Used(k), OpenBucket(k).start, clock)'
    BY DEF SlidingInv
  <2>1. /\ Used(k)' = (IF Used(k) > 0 /\ clock + 1 - OpenBucket(k).start < Window
                         THEN Used(k) ELSE 0)
        /\ OpenBucket(k).start' = (IF Used(k) > 0 /\ clock + 1 - OpenBucket(k).start < Window
                                     THEN OpenBucket(k).start ELSE 0)
        /\ clock' = clock + 1 /\ admitted' = admitted
    BY <1>3, WindowsClose DEF Quota!Pass, Tick
  <2>2. CASE Used(k) > 0 /\ clock + 1 - OpenBucket(k).start < Window
    <3>1. Used(k) \in 1 .. Max
      BY <1>1, <2>2
    <3>. QED  BY <1>1, <2>1, <2>2, <3>1, LogStaysOpen
  <2>3. CASE ~(Used(k) > 0 /\ clock + 1 - OpenBucket(k).start < Window)
    BY <1>1, <2>1, <2>3, LogCloses
  <2>. QED  BY <2>2, <2>3
<1>4. CASE UNCHANGED vars
  BY <1>4 DEF vars, SlidingInv, Used, OpenBucket, Expired, NoBucket
<1>. QED  BY <1>2, <1>3, <1>4 DEF Next

\* No interval of a window's length admits more than 2 Max - 1 requests of a key, less
\* than the twice Max that the comment on RateLimiter concedes to fixed windows,
\* whatever the sweeps and the capacity of the map do in between (Allow).
THEOREM SlidingAlwaysBounded == Spec => []SlidingBound
<1>1. Init => RateTypeOK /\ SlidingInv
  <2>. SUFFICES ASSUME Init PROVE SlidingInv
    BY RateTypeInit
  <2>1. \A k \in Keys : admitted[k] = <<>> /\ Used(k) = 0
    BY RateConstantsOK DEF Init, Used, OpenBucket, NoBucket
  <2>2. ASSUME NEW t \in Nat
        PROVE  /\ Recent(<<>>, t) = {}
               /\ Cardinality(Recent(<<>>, t)) = 0 /\ Cardinality(Within(<<>>, t)) = 0
    <3>1. Recent(<<>>, t) = {} /\ Within(<<>>, t) = {}
      BY DEF Recent, Within
    <3>2. Cardinality({}) = 0
      BY FS_EmptySet
    <3>. QED  BY <3>1, <3>2, Zenon
  <2>3. clock = 0 /\ 0 <= Max - 1 /\ 0 <= 2 * Max - 1 /\ ~(0 > 0) /\ DOMAIN <<>> = {}
    BY RateConstantsOK DEF Init
  <2>4. ASSUME NEW start
        PROVE  LogInv(<<>>, 0, start, 0)
    BY <2>2, <2>3 DEF LogInv
  <2>. QED  BY <2>1, <2>3, <2>4 DEF SlidingInv
<1>2. RateTypeOK /\ SlidingInv /\ [Next]_vars => RateTypeOK' /\ SlidingInv'
  BY RateTypeStep, SlidingStep
<1>3. RateTypeOK /\ SlidingInv => SlidingBound
  <2>1. \A k \in Keys, t \in Nat : AdmittedIn(k, t) = Cardinality(Within(admitted[k], t))
    BY DEF AdmittedIn, Within
  <2>. QED  BY <2>1 DEF SlidingInv, LogInv, SlidingBound, RateTypeOK
<1>. QED  BY <1>1, <1>2, <1>3, PTL DEF Spec
=============================================================================
