-------------------------- MODULE ReadinessProofs --------------------------
(***************************************************************************)
(* Proofs about Readiness for every set of probes, cache life and timeout. *)
(***************************************************************************)
EXTENDS Readiness, TLAPS

\* Where the instant of a verdict lies: a check that is under way asks, or has asked,
\* since it started and within its timeout; what it stores is as recent; and the cache
\* holds nothing that was older than a timeout when it was stored.
RecentlyAsked(request) ==
  LET asked == request.verdict.asked
  IN  /\ request.pc \in {"ask", "wait"} =>
           request.start <= clock /\ clock <= request.start + Timeout
      /\ request.pc = "wait" =>
           /\ request.verdict.why # "none"
           /\ request.start <= asked /\ asked <= clock
      /\ request.pc = "store" =>
           request.verdict.why # "none" /\ asked <= clock /\ clock <= asked + Timeout
      /\ request.pc = "done" =>
           asked <= clock /\ clock < asked + CacheTTL + Timeout

CachedInTime ==
  cache.at # NotYet =>
    /\ cache.verdict.asked <= cache.at
    /\ cache.at <= cache.verdict.asked + Timeout
    /\ cache.at <= clock

ReadyInv ==
  /\ ReadyTypeOK
  /\ CachedInTime
  /\ \A p \in Probes : RecentlyAsked(probe[p])

Requests == [pc : {"idle", "ask", "wait", "store", "done"}, start : Instants,
             verdict : Verdict]

LEMMA InstantTypes ==
  /\ Instants \subseteq Nat /\ NotYet \notin Instants /\ 0 \in Instants
  /\ CacheTTL \in Nat /\ CacheTTL > 0 /\ Timeout \in Nat
  /\ Unknown \in Verdict /\ Idle \in Requests
BY ReadyConstantsOK DEF Instants, NotYet, Unknown, Verdict, Idle, Requests

\* A step of probe p that leaves the cache and the clock alone keeps the invariant
\* when the request it leaves behind does.
LEMMA OneProbeMoves ==
  ASSUME ReadyInv, NEW p \in Probes, NEW request \in Requests,
         probe' = [probe EXCEPT ![p] = request], RecentlyAsked(request),
         UNCHANGED <<backend, cache, clock>>
  PROVE  ReadyInv'
<1>1. /\ probe' \in [Probes -> Requests]
      /\ \A q \in Probes : probe'[q] = IF q = p THEN request ELSE probe[q]
  BY DEF ReadyInv, ReadyTypeOK, Requests
<1>2. ReadyTypeOK'
  BY <1>1 DEF ReadyInv, ReadyTypeOK, Requests
<1>3. CachedInTime'
  BY DEF ReadyInv, CachedInTime
<1>4. ASSUME NEW q \in Probes
      PROVE  RecentlyAsked(probe[q])'
  BY <1>1 DEF ReadyInv, RecentlyAsked
<1>. QED  BY <1>2, <1>3, <1>4 DEF ReadyInv

LEMMA ReadyStep == ReadyInv /\ [Next]_vars => ReadyInv'
<1>. SUFFICES ASSUME ReadyInv, [Next]_vars PROVE ReadyInv'
  OBVIOUS
<1>1. /\ clock \in Nat /\ clock \in Instants /\ backend \in BOOLEAN
      /\ cache.verdict \in Verdict /\ cache.at \in Instants \cup {NotYet}
      /\ cache = [at |-> cache.at, verdict |-> cache.verdict]
      /\ \A v \in Verdict : v.asked \in Nat
      /\ \A p \in Probes : /\ probe[p] \in Requests
                           /\ probe[p].start \in Nat /\ probe[p].start \in Instants
                           /\ probe[p].verdict \in Verdict
                           /\ probe[p].verdict.asked \in Nat
                           /\ RecentlyAsked(probe[p])
  BY InstantTypes DEF ReadyInv, ReadyTypeOK, Requests, Verdict
<1>idle. RecentlyAsked(Idle)
  BY DEF RecentlyAsked, Idle
<1>2. ASSUME NEW p \in Probes, ServeCached(p) PROVE ReadyInv'
  <2>. DEFINE served == [probe[p] EXCEPT !.pc = "done", !.verdict = cache.verdict]
  <2>1. /\ cache.at # NotYet /\ clock - cache.at < CacheTTL
        /\ probe' = [probe EXCEPT ![p] = served] /\ UNCHANGED <<backend, cache, clock>>
    BY <1>2 DEF ServeCached, Fresh, Answer, AfterHit
  <2>2. served \in Requests /\ served.pc = "done" /\ served.verdict = cache.verdict
    BY <1>1 DEF Requests
  <2>3. /\ cache.verdict.asked <= cache.at /\ cache.at <= cache.verdict.asked + Timeout
        /\ cache.at <= clock /\ cache.at \in Nat /\ cache.verdict.asked \in Nat
    BY <1>1, <2>1, InstantTypes DEF ReadyInv, CachedInTime
  <2>. HIDE DEF served
  <2>4. RecentlyAsked(served)
    BY <1>1, <2>1, <2>2, <2>3, InstantTypes DEF RecentlyAsked
  <2>. QED  BY <2>1, <2>2, <2>4, OneProbeMoves
<1>3. ASSUME NEW p \in Probes, StartCheck(p) PROVE ReadyInv'
  <2>. DEFINE started == [Idle EXCEPT !.pc = "ask", !.start = clock]
  <2>1. probe' = [probe EXCEPT ![p] = started] /\ UNCHANGED <<backend, cache, clock>>
    BY <1>3 DEF StartCheck
  <2>2. started \in Requests /\ started.pc = "ask" /\ started.start = clock
    BY <1>1, InstantTypes DEF Requests, Idle
  <2>. HIDE DEF started
  <2>3. RecentlyAsked(started)
    BY <1>1, <2>2, InstantTypes DEF RecentlyAsked
  <2>. QED  BY <2>1, <2>2, <2>3, OneProbeMoves
<1>4. ASSUME NEW p \in Probes, Ask(p) PROVE ReadyInv'
  <2>. DEFINE answer == [ok |-> backend, why |-> "answer", asked |-> clock]
              asked == [probe[p] EXCEPT !.pc = "wait", !.verdict = answer]
  <2>1. /\ probe[p].pc = "ask"
        /\ probe' = [probe EXCEPT ![p] = asked] /\ UNCHANGED <<backend, cache, clock>>
    BY <1>4 DEF Ask
  <2>2. answer \in Verdict
    BY <1>1 DEF Verdict
  <2>3. asked \in Requests
    BY <1>1, <2>2 DEF Requests
  <2>4. /\ asked.pc = "wait" /\ asked.start = probe[p].start
        /\ asked.verdict.why = "answer" /\ asked.verdict.asked = clock
    BY <1>1 DEF Requests
  <2>. HIDE DEF asked
  <2>5. RecentlyAsked(asked)
    BY <1>1, <2>1, <2>4 DEF RecentlyAsked
  <2>. QED  BY <2>1, <2>3, <2>5, OneProbeMoves
<1>5. ASSUME NEW p \in Probes, Arrive(p) PROVE ReadyInv'
  <2>. DEFINE arrived == [probe[p] EXCEPT !.pc = "store"]
  <2>1. /\ probe[p].pc = "wait"
        /\ probe' = [probe EXCEPT ![p] = arrived] /\ UNCHANGED <<backend, cache, clock>>
    BY <1>5 DEF Arrive
  <2>2. /\ arrived \in Requests /\ arrived.pc = "store"
        /\ arrived.verdict = probe[p].verdict
    BY <1>1 DEF Requests
  <2>. HIDE DEF arrived
  <2>3. RecentlyAsked(arrived)
    BY <1>1, <2>1, <2>2, InstantTypes DEF RecentlyAsked
  <2>. QED  BY <2>1, <2>2, <2>3, OneProbeMoves
<1>6. ASSUME NEW p \in Probes, Abandon(p) PROVE ReadyInv'
  <2>1. PICK why \in {"timeout", "hangup"} :
          probe' = [probe EXCEPT ![p].pc = "store", ![p].verdict =
                      [ok |-> FALSE, why |-> why, asked |-> probe[p].start]]
    BY <1>6 DEF Abandon
  <2>. DEFINE verdict == [ok |-> FALSE, why |-> why, asked |-> probe[p].start]
              ended == [probe[p] EXCEPT !.pc = "store", !.verdict = verdict]
  <2>2. /\ probe[p].pc \in {"ask", "wait"}
        /\ probe' = [probe EXCEPT ![p] = ended] /\ UNCHANGED <<backend, cache, clock>>
    BY <1>6, <2>1 DEF Abandon
  <2>3. verdict \in Verdict
    BY <1>1 DEF Verdict
  <2>4. ended \in Requests
    BY <1>1, <2>3 DEF Requests
  <2>5. /\ ended.pc = "store" /\ ended.verdict.why # "none"
        /\ ended.verdict.asked = probe[p].start
    BY <1>1 DEF Requests
  <2>. HIDE DEF ended
  <2>6. RecentlyAsked(ended)
    BY <1>1, <2>2, <2>5 DEF RecentlyAsked
  <2>. QED  BY <2>2, <2>4, <2>6, OneProbeMoves
<1>7. ASSUME NEW p \in Probes, Store(p) PROVE ReadyInv'
  <2>1. /\ probe[p].pc = "store" /\ UNCHANGED <<backend, clock>>
        /\ cache' = [at |-> clock, verdict |-> probe[p].verdict]
    BY <1>7 DEF Store, Stored
  <2>2. /\ probe[p].verdict.why # "none" /\ probe[p].verdict.asked <= clock
        /\ clock <= probe[p].verdict.asked + Timeout
    BY <1>1, <2>1 DEF RecentlyAsked
  <2>3. PICK request \in Requests :
          /\ probe' = [probe EXCEPT ![p] = request]
          /\ RecentlyAsked(request)
    <3>1. CASE probe[p].verdict.why = "hangup"
      BY <1>7, <1>idle, <3>1, InstantTypes DEF Store
    <3>2. CASE probe[p].verdict.why # "hangup"
      <4>. DEFINE served == [probe[p] EXCEPT !.pc = "done", !.verdict = probe[p].verdict]
      <4>1. probe' = [probe EXCEPT ![p] = served]
        BY <1>7, <3>2 DEF Store, Answer
      <4>2. /\ served \in Requests /\ served.pc = "done"
            /\ served.verdict = probe[p].verdict
        BY <1>1 DEF Requests
      <4>. HIDE DEF served
      <4>3. RecentlyAsked(served)
        BY <1>1, <2>2, <4>2, InstantTypes DEF RecentlyAsked
      <4>. QED  BY <4>1, <4>2, <4>3
    <3>. QED  BY <3>1, <3>2
  <2>4. /\ probe' \in [Probes -> Requests]
        /\ \A q \in Probes : probe'[q] = IF q = p THEN request ELSE probe[q]
    BY <2>3 DEF ReadyInv, ReadyTypeOK, Requests
  <2>5. ReadyTypeOK'
    <3>1. cache' \in [at : Instants \cup {NotYet}, verdict : Verdict]
      BY <1>1, <2>1
    <3>2. cache'.at # NotYet /\ cache'.verdict.why # "none"
      BY <1>1, <2>1, <2>2, InstantTypes
    <3>. QED  BY <1>1, <2>1, <2>4, <3>1, <3>2 DEF ReadyTypeOK, Requests
  <2>6. CachedInTime'
    BY <1>1, <2>1, <2>2 DEF CachedInTime
  <2>7. ASSUME NEW q \in Probes PROVE RecentlyAsked(probe[q])'
    BY <1>1, <2>1, <2>3, <2>4 DEF RecentlyAsked
  <2>. QED  BY <2>5, <2>6, <2>7 DEF ReadyInv
<1>8. ASSUME NEW p \in Probes, Return(p) PROVE ReadyInv'
  BY <1>8, <1>idle, InstantTypes, OneProbeMoves DEF Return
<1>9. CASE Toggle
  BY <1>9 DEF Toggle, ReadyInv, ReadyTypeOK, CachedInTime, RecentlyAsked
<1>10. CASE Tick
  <2>1. /\ clock' = clock + 1 /\ clock' \in Instants
        /\ UNCHANGED <<backend, cache, probe>>
    BY <1>1, <1>10, ReadyConstantsOK DEF Tick, Instants
  <2>2. ReadyTypeOK'
    BY <2>1 DEF ReadyInv, ReadyTypeOK
  <2>3. CachedInTime'
    BY <1>1, <2>1, InstantTypes DEF ReadyInv, CachedInTime
  <2>4. ASSUME NEW p \in Probes PROVE RecentlyAsked(probe[p])'
    <3>1. /\ probe[p].pc \in {"ask", "wait"} => clock < probe[p].start + Timeout
          /\ probe[p].pc \notin {"store", "done"}
      BY <1>10 DEF Tick
    <3>. QED  BY <1>1, <2>1, <3>1, InstantTypes DEF RecentlyAsked
  <2>. QED  BY <2>2, <2>3, <2>4 DEF ReadyInv
<1>11. CASE UNCHANGED vars
  BY <1>11 DEF vars, ReadyInv, ReadyTypeOK, CachedInTime, RecentlyAsked
<1>. QED
  BY <1>2, <1>3, <1>4, <1>5, <1>6, <1>7, <1>8, <1>9, <1>10, <1>11 DEF Next, Probe

LEMMA ReadyCorrect == Spec => []ReadyInv
<1>1. Init => ReadyInv
  <2>1. ASSUME Init PROVE ReadyTypeOK
    BY <2>1, InstantTypes DEF Init, ReadyTypeOK, Requests, Unknown
  <2>. QED  BY <2>1 DEF Init, ReadyInv, CachedInTime, RecentlyAsked, Idle
<1>. QED  BY <1>1, ReadyStep, PTL DEF Spec

\* The cache has a time of check exactly when it holds a verdict that a check reached:
\* the zero checkedAt never passes for a verdict (ServeHTTP).
THEOREM ReadyTypeCorrect == Spec => []ReadyTypeOK
BY ReadyCorrect, PTL DEF ReadyInv

\* However many probes overlap, an answer of /readyz rests on a look at the Data API
\* that is younger than the cache's life and one timeout together (ServeHTTP).
THEOREM AnswersAreRecent == Spec => []AnswerRecent
<1>1. ReadyInv => AnswerRecent
  <2>. SUFFICES ASSUME ReadyInv, NEW p \in Probes, probe[p].pc = "done"
                PROVE  clock - probe[p].verdict.asked < CacheTTL + Timeout
    BY DEF AnswerRecent
  <2>1. clock \in Nat /\ probe[p].verdict.asked \in Nat
    BY InstantTypes DEF ReadyInv, ReadyTypeOK, Verdict
  <2>2. clock < probe[p].verdict.asked + CacheTTL + Timeout
    BY DEF ReadyInv, RecentlyAsked
  <2>. QED  BY <2>1, <2>2, InstantTypes
<1>. QED  BY <1>1, ReadyCorrect, PTL
=============================================================================
