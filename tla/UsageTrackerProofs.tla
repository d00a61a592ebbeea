------------------------- MODULE UsageTrackerProofs -------------------------
(***************************************************************************)
(* Proofs about UsageTracker for every set of keys and callers and every   *)
(* size, interval and bound.                                               *)
(***************************************************************************)
EXTENDS UsageTracker, TLAPS

Calls == [pc : {"idle", "mark", "lock", "send", "undo"}, id : Ids, at : Instants]
Events == [id : Ids, at : Instants]

LEMMA StampTypes ==
  /\ Instants \subseteq Nat /\ Instants \subseteq Int /\ 0 \in Instants
  /\ None \in Int /\ None < 0 /\ None \notin Instants
  /\ \A x \in Instants \cup {None} : x \in Int /\ x >= None
  /\ \A x \in Instants : x # None /\ x >= 0
  /\ NoStamps \in Stamps /\ \A i \in Ids : NoStamps[i] = None
  /\ Idle \in Calls /\ Idle.pc = "idle"
  /\ MinInterval \in Nat /\ Rest \in Nat /\ Rest < MinInterval /\ QueueSize \in Nat
BY UsageConstantsOK DEF Instants, None, NoStamps, Stamps, Idle, Calls

-----------------------------------------------------------------------------
(* Types                                                                   *)

\* The head of the channel, and the instant that Receive remembers for it.
LEMMA HeadIsEvent ==
  ASSUME UsageTypeOK, usedCh # <<>>
  PROVE  /\ Event \in Events /\ Event.id \in Ids /\ Event.at \in Instants
         /\ Event = usedCh[1] /\ 1 \in DOMAIN usedCh
         /\ Collected(pending[Event.id], Event.at) \in Instants
<1>1. usedCh \in Seq(Events)
  BY DEF UsageTypeOK, Events
<1>2. Event \in Events /\ Event = usedCh[1] /\ 1 \in DOMAIN usedCh
  BY <1>1 DEF Event
<1>3. Event.id \in Ids /\ Event.at \in Instants
  BY <1>2 DEF Events
<1>. QED  BY <1>2, <1>3, StampTypes DEF Collected, UsageTypeOK, Stamps

\* The worker's step on the head of the channel.
LEMMA TakeEventTypes ==
  ASSUME UsageTypeOK, usedCh # <<>>, NEW at \in Instants, TakeEvent(at)
  PROVE  /\ usedCh' \in Seq(Events) /\ Len(usedCh') <= QueueSize
         /\ \A j \in DOMAIN usedCh' : j + 1 \in DOMAIN usedCh /\ usedCh'[j] = usedCh[j + 1]
         /\ pending' \in Stamps /\ received' \in Stamps
<1>1. usedCh \in Seq(Events) /\ Len(usedCh) <= QueueSize /\ QueueSize \in Nat
  BY StampTypes DEF UsageTypeOK, Events
<1>2. /\ usedCh' \in Seq(Events) /\ Len(usedCh') = Len(usedCh) - 1
      /\ \A j \in DOMAIN usedCh' : j + 1 \in DOMAIN usedCh /\ usedCh'[j] = usedCh[j + 1]
      /\ Len(usedCh') <= QueueSize
  BY <1>1 DEF TakeEvent
<1>3. pending' \in Stamps
  BY HeadIsEvent DEF TakeEvent, UsageTypeOK, Stamps
<1>4. received' \in Stamps
  BY HeadIsEvent DEF TakeEvent, Later, UsageTypeOK, Stamps
<1>. QED  BY <1>2, <1>3, <1>4

\* A step of caller c on its own call.
LEMMA CallMoves ==
  ASSUME UsageTypeOK, NEW c \in Callers
  PROVE  /\ caller[c] \in Calls /\ caller[c].id \in Ids /\ caller[c].at \in Instants
         /\ \A pc \in {"send", "undo"} :
              /\ [caller EXCEPT ![c].pc = pc] \in [Callers -> Calls]
              /\ [caller EXCEPT ![c].pc = pc][c]
                   = [pc |-> pc, id |-> caller[c].id, at |-> caller[c].at]
              /\ \A d \in Callers \ {c} : [caller EXCEPT ![c].pc = pc][d] = caller[d]
         /\ \A call \in Calls :
              /\ [caller EXCEPT ![c] = call] \in [Callers -> Calls]
              /\ [caller EXCEPT ![c] = call][c] = call
              /\ \A d \in Callers \ {c} : [caller EXCEPT ![c] = call][d] = caller[d]
<1>1. caller \in [Callers -> Calls]
  BY DEF UsageTypeOK, Calls
<1>2. caller[c] \in Calls /\ caller[c].id \in Ids /\ caller[c].at \in Instants
  BY <1>1 DEF Calls
<1>3. ASSUME NEW pc \in {"send", "undo"}
      PROVE  [caller[c] EXCEPT !.pc = pc]
                = [pc |-> pc, id |-> caller[c].id, at |-> caller[c].at]
             /\ [pc |-> pc, id |-> caller[c].id, at |-> caller[c].at] \in Calls
  BY <1>2 DEF Calls
<1>. QED  BY <1>1, <1>2, <1>3

\* The same of a step that replaces the whole call.
LEMMA CallAt ==
  ASSUME UsageTypeOK, NEW c \in Callers, NEW call \in Calls
  PROVE  /\ [caller EXCEPT ![c] = call][c] = call
         /\ \A d \in Callers \ {c} : [caller EXCEPT ![c] = call][d] = caller[d]
<1>1. caller \in [Callers -> Calls]
  BY DEF UsageTypeOK, Calls
<1>. QED  BY <1>1

LEMMA UsageTypeInit == Init => UsageTypeOK
<1>. SUFFICES ASSUME Init PROVE UsageTypeOK
  OBVIOUS
<1>1. caller \in [Callers -> Calls]
  BY StampTypes DEF Init
<1>2. clock \in Instants /\ failures \in 0 .. MaxFailures /\ restarts \in 0 .. MaxRestarts
  BY UsageConstantsOK DEF Init, Instants
<1>3. usedCh \in Seq(Events) /\ Len(usedCh) <= QueueSize
  BY StampTypes DEF Init
<1>. QED  BY <1>1, <1>2, <1>3, StampTypes DEF Init, UsageTypeOK, Calls, Events

LEMMA UsageTypeStep == UsageTypeOK /\ [Next]_vars => UsageTypeOK'
<1>. SUFFICES ASSUME UsageTypeOK, [Next]_vars PROVE UsageTypeOK'
  OBVIOUS
<1>0. ASSUME NEW c \in Callers, NEW i \in Ids, Accept(c, i) PROVE UsageTypeOK'
  <2>1. [pc |-> "mark", id |-> i, at |-> 0] \in Calls
    BY StampTypes DEF Calls
  <2>. QED  BY <1>0, <2>1 DEF Accept, UsageTypeOK, Calls, Events, workerState, table, time
<1>1. ASSUME NEW c \in Callers, MarkUsed(c) PROVE UsageTypeOK'
  <2>1. [pc |-> "lock", id |-> caller[c].id, at |-> clock] \in Calls
    BY CallMoves DEF Calls, UsageTypeOK
  <2>. QED  BY <1>1, <2>1 DEF MarkUsed, UsageTypeOK, Calls, Events, workerState, table, time
<1>2. ASSUME NEW c \in Callers, Claim(c) PROVE UsageTypeOK'
  <2>1. caller' \in [Callers -> Calls]
    <3>1. \/ caller' = [caller EXCEPT ![c] = Idle]
          \/ caller' = [caller EXCEPT ![c].pc = "send"]
      BY <1>2 DEF Claim
    <3>2. CASE caller' = [caller EXCEPT ![c] = Idle]
      BY <3>2, StampTypes, CallMoves
    <3>3. CASE caller' = [caller EXCEPT ![c].pc = "send"]
      BY <3>3, CallMoves
    <3>. QED  BY <3>1, <3>2, <3>3
  <2>2. lastEnqueued' \in Stamps
    BY <1>2 DEF Claim, UsageTypeOK, Stamps
  <2>. QED  BY <1>2, <2>1, <2>2 DEF Claim, UsageTypeOK, Calls, Events, workerState, table, time
<1>3. ASSUME NEW c \in Callers, Send(c) PROVE UsageTypeOK'
  <2>1. caller' \in [Callers -> Calls]
    <3>1. \/ caller' = [caller EXCEPT ![c] = Idle]
          \/ caller' = [caller EXCEPT ![c].pc = "undo"]
      BY <1>3 DEF Send
    <3>2. CASE caller' = [caller EXCEPT ![c] = Idle]
      BY <3>2, StampTypes, CallMoves
    <3>3. CASE caller' = [caller EXCEPT ![c].pc = "undo"]
      BY <3>3, CallMoves
    <3>. QED  BY <3>1, <3>2, <3>3
  <2>2. sent' \in Stamps
    BY <1>3 DEF Send, UsageTypeOK, Stamps
  <2>3. usedCh' \in Seq(Events) /\ Len(usedCh') <= QueueSize
    <3>1. [id |-> caller[c].id, at |-> caller[c].at] \in Events
      BY CallMoves DEF Events
    <3>2. usedCh \in Seq(Events) /\ Len(usedCh) <= QueueSize
      BY DEF UsageTypeOK, Events
    <3>3. CASE Room
      <4>1. usedCh' = Append(usedCh, [id |-> caller[c].id, at |-> caller[c].at])
        BY <1>3, <3>3 DEF Send
      <4>2. Len(usedCh) < QueueSize /\ QueueSize \in Nat
        BY <3>3, StampTypes DEF Room
      <4>. DEFINE event == [id |-> caller[c].id, at |-> caller[c].at]
      <4>. HIDE DEF event
      <4>3. event \in Events /\ usedCh' = Append(usedCh, event)
        BY <3>1, <4>1 DEF event
      <4>. QED  BY <3>2, <4>2, <4>3
    <3>4. CASE ~Room
      BY <1>3, <3>2, <3>4 DEF Send
    <3>. QED  BY <3>3, <3>4
  <2>. QED  BY <1>3, <2>1, <2>2, <2>3 DEF Send, UsageTypeOK, Calls, Events,
          workerState, table, time
<1>4. ASSUME NEW c \in Callers, Undo(c) PROVE UsageTypeOK'
  <2>1. caller' \in [Callers -> Calls]
    BY <1>4, StampTypes, CallMoves DEF Undo
  <2>2. lastEnqueued' \in Stamps
    BY <1>4 DEF Undo, UsageTypeOK, Stamps
  <2>. QED  BY <1>4, <2>1, <2>2 DEF Undo, UsageTypeOK, Calls, Events, workerState, table, time
<1>5. CASE Receive
  <2>1. /\ usedCh' \in Seq(Events) /\ Len(usedCh') <= QueueSize
        /\ pending' \in Stamps /\ received' \in Stamps
    BY <1>5, HeadIsEvent, TakeEventTypes DEF Receive
  <2>. QED  BY <1>5, <2>1 DEF Receive, UsageTypeOK, Calls, Events, callerState, table, time
<1>6. CASE Drain
  <2>1. /\ usedCh' \in Seq(Events) /\ Len(usedCh') <= QueueSize
        /\ pending' \in Stamps /\ received' \in Stamps
    BY <1>6, HeadIsEvent, TakeEventTypes DEF Drain
  <2>. QED  BY <1>6, <2>1 DEF Drain, UsageTypeOK, Calls, Events, callerState, table, time
<1>7. CASE \/ FlushOnTick \/ FlushAtStop \/ SeeStop \/ TickerFires \/ Close
           \/ \E i \in Ids : Delete(i)
  BY <1>7, StampTypes DEF FlushOnTick, FlushAtStop, SeeStop, TickerFires, Close, Delete,
     TakePending, UsageTypeOK, Calls, Events, callerState, workerState, table, time
<1>8. CASE UpdateLastUsed
  <2>1. db' \in Stamps
    BY <1>8 DEF UpdateLastUsed, Stored, UsageTypeOK, Stamps
  <2>. QED
    BY <1>8, <2>1, StampTypes DEF UpdateLastUsed, AfterFlush, UsageTypeOK, Calls,
       Events, callerState, table, time
<1>9. CASE UpdateFails
  <2>1. received' \in Stamps
    BY <1>9 DEF UpdateFails, UsageTypeOK, Stamps
  <2>2. failures' \in 0 .. MaxFailures
    BY <1>9, UsageConstantsOK DEF UpdateFails, UsageTypeOK
  <2>. QED
    BY <1>9, <2>1, <2>2, StampTypes DEF UpdateFails, AfterFlush, UsageTypeOK, Calls,
       Events, callerState, table, time
<1>10. CASE Restart
  <2>1. caller' \in [Callers -> Calls] /\ usedCh' \in Seq(Events) /\ Len(usedCh') <= QueueSize
    BY <1>10, StampTypes DEF Restart
  <2>2. restarts' \in 0 .. MaxRestarts
    BY <1>10, UsageConstantsOK DEF Restart, UsageTypeOK
  <2>. QED  BY <1>10, <2>1, <2>2, StampTypes DEF Restart, UsageTypeOK, Calls, Events,
          table, time
<1>11. CASE Tick
  <2>1. clock' \in Instants
    BY <1>11, UsageConstantsOK DEF Tick, UsageTypeOK, Instants
  <2>2. stalled' \in BOOLEAN
    BY <1>11 DEF Tick, UsageTypeOK
  <2>. QED  BY <1>11, <2>1, <2>2 DEF Tick, UsageTypeOK, Calls, Events, callerState,
          workerState, table
<1>12. CASE UNCHANGED vars
  BY <1>12 DEF vars, UsageTypeOK
<1>. QED
  BY <1>0, <1>1, <1>2, <1>3, <1>4, <1>5, <1>6, <1>7, <1>8, <1>9, <1>10, <1>11, <1>12
  DEF Next, CallerStep, WorkerStep

\* The channel never holds more than its capacity and every map of instants stays one
\* (usedCh, lastEnqueued, pending), for any number of keys and callers.
THEOREM UsageTypeCorrect == Spec => []UsageTypeOK
BY UsageTypeInit, UsageTypeStep, PTL DEF Spec

-----------------------------------------------------------------------------
(* The column of the database                                              *)

LEMMA SecondsFollow ==
  ASSUME NEW s \in Int, NEW t \in Int
  PROVE  /\ s \div 2 \in Int
         /\ s <= t => s \div 2 <= t \div 2
OBVIOUS

\* What UpdateLastUsed leaves in a row is, to the second, the later of the instant
\* that was there and the one it was given.
LEMMA StoredIsLater ==
  ASSUME NEW old \in Instants \cup {None}, NEW at \in Instants \cup {None}
  PROVE  /\ Stored(old, at) \in Instants \cup {None}
         /\ Stored(old, at) \div 2 >= old \div 2
         /\ Stored(old, at) \div 2 >= at \div 2
<1>1. old \in Int /\ at \in Int /\ old >= None /\ at >= None
  BY StampTypes
<1>2. old <= at \/ at <= old
  BY <1>1
<1>3. CASE at = None
  BY <1>1, <1>3, SecondsFollow DEF Stored
<1>4. CASE at # None /\ (old = None \/ TextBefore(old, at))
  <2>1. Stored(old, at) = at
    BY <1>4 DEF Stored
  <2>2. old <= at \/ old \div 2 = at \div 2
    BY <1>1, <1>4 DEF TextBefore
  <2>. QED  BY <1>1, <2>1, <2>2, SecondsFollow
<1>5. CASE at # None /\ ~(old = None \/ TextBefore(old, at))
  <2>1. Stored(old, at) = old
    BY <1>5 DEF Stored
  <2>2. at <= old \/ old \div 2 = at \div 2
    BY <1>1, <1>5 DEF TextBefore
  <2>. QED  BY <1>1, <2>1, <2>2, SecondsFollow
<1>. QED  BY <1>3, <1>4, <1>5

LEMMA OnlyUpdateWrites ==
  ASSUME [Next]_vars, db' # db
  PROVE  UpdateLastUsed
BY DEF Next, CallerStep, WorkerStep, Accept, MarkUsed, Claim, Send, Undo, Receive,
   FlushOnTick, Delete, SeeStop, Drain, FlushAtStop, UpdateFails, TickerFires,
   Close, Restart, Tick, table, vars

\* last_used_at never moves back to an earlier second, whatever order the events of a
\* key arrive in and although the database compares their text (UpdateLastUsed).
THEOREM LastUsedAlwaysOnward == Spec => LastUsedNeverBack
<1>1. UsageTypeOK /\ [Next]_vars
        => [\A i \in Ids : db'[i] \div 2 >= db[i] \div 2]_db
  <2>. SUFFICES ASSUME UsageTypeOK, [Next]_vars, db' # db, NEW i \in Ids
                PROVE  db'[i] \div 2 >= db[i] \div 2
    OBVIOUS
  <2>1. db'[i] = Stored(db[i], batch[i]) \/ db'[i] = db[i]
    BY OnlyUpdateWrites DEF UpdateLastUsed
  <2>2. db[i] \in Instants \cup {None} /\ batch[i] \in Instants \cup {None}
    BY DEF UsageTypeOK, Stamps
  <2>3. CASE db'[i] = db[i]
    <3>1. db[i] \in Int
      BY <2>2, StampTypes
    <3>2. db[i] \div 2 \in Int
      BY <3>1, SecondsFollow
    <3>. QED  BY <2>3, <3>2
  <2>. QED  BY <2>1, <2>2, <2>3, StoredIsLater
<1>. QED  BY <1>1, UsageTypeCorrect, PTL DEF Spec, LastUsedNeverBack

-----------------------------------------------------------------------------
(* Events of one key                                                       *)

\* A call that has claimed the interval of its key and not yet sent or undone it.
Claims(c) == caller[c].pc \in {"send", "undo"}

CallsKeepPace ==
  \A c \in Callers :
    InMarkUsed(c) => caller[c].at <= clock /\ clock <= caller[c].at + Rest

\* One call at a time holds the claim of a key.
ClaimsStand ==
  \A c \in Callers : Claims(c) =>
    /\ lastEnqueued[caller[c].id] = caller[c].at
    /\ \A d \in Callers \ {c} : Claims(d) => caller[d].id # caller[c].id

\* The claim, or the time gone by, keeps an event away from the one before it; an undone
\* claim leaves only the time.
SentKeepsAway ==
  /\ \A c \in Callers :
       Claims(c) /\ sent[caller[c].id] # None =>
         /\ caller[c].at >= sent[caller[c].id] + MinInterval - Rest
         /\ clock >= sent[caller[c].id] + MinInterval
  /\ \A i \in Ids :
       sent[i] # None => \/ lastEnqueued[i] = sent[i]
                         \/ clock >= sent[i] + MinInterval

PaceInv == ~stalled => CallsKeepPace /\ ClaimsStand /\ SentKeepsAway

LEMMA PaceTypes ==
  ASSUME UsageTypeOK
  PROVE  /\ clock \in Nat
         /\ \A i \in Ids : /\ sent[i] \in Int /\ lastEnqueued[i] \in Int
                           /\ sent[i] >= None /\ received[i] \in Int
         /\ \A c \in Callers : /\ caller[c].id \in Ids /\ caller[c].at \in Nat
                               /\ caller[c].at # None /\ caller[c] \in Calls
BY StampTypes, CallMoves DEF UsageTypeOK, Stamps

\* What holds of every other call when caller c moves alone.
LEMMA OtherCalls ==
  ASSUME UsageTypeOK, NEW c \in Callers, CallerStep(c)
  PROVE  /\ \A d \in Callers \ {c} : caller'[d] = caller[d]
         /\ clock' = clock /\ stalled' = stalled
<1>1. \A d \in Callers \ {c} : caller'[d] = caller[d]
  <2>1. \/ caller' = [caller EXCEPT ![c] = Idle]
        \/ caller' = [caller EXCEPT ![c] = [pc |-> "lock", id |-> caller[c].id, at |-> clock]]
        \/ caller' = [caller EXCEPT ![c].pc = "send"]
        \/ caller' = [caller EXCEPT ![c].pc = "undo"]
    BY DEF CallerStep, MarkUsed, Claim, Send, Undo
  <2>2. Idle \in Calls /\ [pc |-> "lock", id |-> caller[c].id, at |-> clock] \in Calls
    BY StampTypes, CallMoves DEF UsageTypeOK, Calls
  <2>3. CASE caller' = [caller EXCEPT ![c].pc = "send"]
    BY <2>3, CallMoves
  <2>4. CASE caller' = [caller EXCEPT ![c].pc = "undo"]
    BY <2>4, CallMoves
  <2>5. ASSUME NEW call \in Calls, caller' = [caller EXCEPT ![c] = call]
        PROVE  \A d \in Callers \ {c} : caller'[d] = caller[d]
    BY <2>5, CallMoves
  <2>. QED  BY <2>1, <2>2, <2>3, <2>4, <2>5
<1>2. UNCHANGED time
  BY DEF CallerStep, MarkUsed, Claim, Send, Undo
<1>. QED  BY <1>1, <1>2 DEF time

LEMMA PaceStep == UsageTypeOK /\ PaceInv /\ [Next]_vars => PaceInv'
<1>. SUFFICES ASSUME UsageTypeOK, PaceInv, [Next]_vars, ~stalled'
              PROVE  (CallsKeepPace /\ ClaimsStand /\ SentKeepsAway)'
  BY DEF PaceInv
<1>1. (stalled' <=> stalled) \/ Tick
  BY DEF Next, CallerStep, WorkerStep, Accept, MarkUsed, Claim, Send, Undo, Receive,
     FlushOnTick, Delete, SeeStop, Drain, FlushAtStop, UpdateLastUsed, UpdateFails,
     TickerFires, Close, Restart, time, vars
<1>2. ~stalled /\ CallsKeepPace /\ ClaimsStand /\ SentKeepsAway
  BY <1>1 DEF Tick, PaceInv
<1>10. ASSUME NEW c \in Callers, NEW i \in Ids, Accept(c, i)
       PROVE  (CallsKeepPace /\ ClaimsStand /\ SentKeepsAway)'
  <2>1. /\ caller' = [caller EXCEPT ![c] = [pc |-> "mark", id |-> i, at |-> 0]]
        /\ UNCHANGED <<lastEnqueued, sent, clock>>
    BY <1>10 DEF Accept, time
  <2>2. [pc |-> "mark", id |-> i, at |-> 0] \in Calls
    BY StampTypes DEF Calls
  <2>3. caller'[c].pc = "mark" /\ \A d \in Callers \ {c} : caller'[d] = caller[d]
    BY <2>1, <2>2, CallAt
  <2>. QED
    BY <1>2, <2>1, <2>3
    DEF CallsKeepPace, InMarkUsed, ClaimsStand, SentKeepsAway, Claims
<1>3. ASSUME NEW c \in Callers, MarkUsed(c)
      PROVE  (CallsKeepPace /\ ClaimsStand /\ SentKeepsAway)'
  <2>. DEFINE call == [pc |-> "lock", id |-> caller[c].id, at |-> clock]
  <2>1. /\ caller' = [caller EXCEPT ![c] = call]
        /\ UNCHANGED <<lastEnqueued, sent, clock>>
    BY <1>3 DEF MarkUsed, time
  <2>2. call \in Calls
    BY CallMoves DEF Calls, UsageTypeOK
  <2>3. /\ caller'[c].pc = "lock" /\ caller'[c].at = clock
        /\ \A d \in Callers \ {c} : caller'[d] = caller[d]
    BY <2>1, <2>2, CallAt
  <2>4. CallsKeepPace'
    BY <1>2, <2>1, <2>3, PaceTypes, StampTypes DEF CallsKeepPace, InMarkUsed
  <2>5. ClaimsStand'
    BY <1>2, <2>1, <2>3 DEF ClaimsStand, Claims
  <2>6. SentKeepsAway'
    BY <1>2, <2>1, <2>3 DEF SentKeepsAway, Claims
  <2>. QED  BY <2>4, <2>5, <2>6
<1>4. ASSUME NEW c \in Callers, Claim(c)
      PROVE  (CallsKeepPace /\ ClaimsStand /\ SentKeepsAway)'
  <2>1. /\ UNCHANGED <<sent, clock>> /\ caller[c].pc = "lock"
        /\ \A d \in Callers \ {c} : caller'[d] = caller[d]
    BY <1>4, OtherCalls DEF Claim, time, CallerStep
  <2>2. CASE Throttled(caller[c].id, caller[c].at)
    <3>1. caller'[c].pc = "idle" /\ lastEnqueued' = lastEnqueued
      <4>1. caller' = [caller EXCEPT ![c] = Idle] /\ lastEnqueued' = lastEnqueued
        BY <1>4, <2>2 DEF Claim
      <4>. QED  BY <4>1, CallAt, StampTypes
    <3>2. CallsKeepPace'
      BY <1>2, <2>1, <3>1 DEF CallsKeepPace, InMarkUsed
    <3>3. ClaimsStand' /\ SentKeepsAway'
      BY <1>2, <2>1, <3>1 DEF ClaimsStand, SentKeepsAway, Claims
    <3>. QED  BY <3>2, <3>3
  <2>3. CASE ~Throttled(caller[c].id, caller[c].at)
    <3>. DEFINE i == caller[c].id
                t == caller[c].at
    <3>1. /\ i \in Ids /\ t \in Nat /\ t # None /\ sent[i] \in Int /\ lastEnqueued[i] \in Int
          /\ t <= clock /\ clock <= t + Rest /\ clock \in Nat
      BY <1>2, <2>1, PaceTypes DEF CallsKeepPace, InMarkUsed
    <3>2. /\ caller'[c].pc = "send" /\ caller'[c].id = i /\ caller'[c].at = t
          /\ lastEnqueued' = [lastEnqueued EXCEPT ![i] = t]
      <4>1. /\ caller' = [caller EXCEPT ![c].pc = "send"]
            /\ lastEnqueued' = [lastEnqueued EXCEPT ![i] = t]
        BY <1>4, <2>3 DEF Claim
      <4>2. caller'[c] = [pc |-> "send", id |-> i, at |-> t]
        BY <4>1, CallMoves
      <4>. QED  BY <4>1, <4>2
    <3>3. /\ lastEnqueued'[i] = t
          /\ \A j \in Ids \ {i} : lastEnqueued'[j] = lastEnqueued[j]
      BY <3>1, <3>2 DEF UsageTypeOK, Stamps
    <3>4. lastEnqueued[i] = None \/ t - lastEnqueued[i] >= MinInterval
      BY <2>3, <3>1, StampTypes DEF Throttled
    <3>5. \A d \in Callers \ {c} : Claims(d) => caller[d].id # i
      <4>. SUFFICES ASSUME NEW d \in Callers \ {c}, Claims(d), caller[d].id = i
                    PROVE  FALSE
        OBVIOUS
      <4>1. lastEnqueued[i] = caller[d].at /\ caller[d].at \in Nat /\ caller[d].at # None
        BY <1>2, PaceTypes DEF ClaimsStand
      <4>2. clock <= caller[d].at + Rest
        BY <1>2 DEF CallsKeepPace, InMarkUsed, Claims
      <4>. QED  BY <3>1, <3>4, <4>1, <4>2, StampTypes
    <3>6. sent[i] # None => t >= sent[i] + MinInterval - Rest /\ clock >= sent[i] + MinInterval
      <4>. SUFFICES ASSUME sent[i] # None
                    PROVE  t >= sent[i] + MinInterval - Rest /\ clock >= sent[i] + MinInterval
        OBVIOUS
      <4>1. lastEnqueued[i] = sent[i] \/ clock >= sent[i] + MinInterval
        BY <1>2, <3>1 DEF SentKeepsAway
      <4>. QED  BY <3>1, <3>4, <4>1, StampTypes
    <3>. HIDE DEF i, t
    <3>7. CallsKeepPace'
      BY <1>2, <2>1, <3>1, <3>2 DEF CallsKeepPace, InMarkUsed
    <3>8. ClaimsStand'
      BY <1>2, <2>1, <3>2, <3>3, <3>5, PaceTypes DEF ClaimsStand, Claims
    <3>9. SentKeepsAway'
      <4>1. ASSUME NEW d \in Callers, Claims(d)', sent'[caller'[d].id] # None
            PROVE  /\ caller'[d].at >= sent'[caller'[d].id] + MinInterval - Rest
                   /\ clock' >= sent'[caller'[d].id] + MinInterval
        <5>1. CASE d = c
          BY <2>1, <3>2, <3>6, <4>1, <5>1
        <5>2. CASE d # c
          BY <1>2, <2>1, <4>1, <5>2 DEF SentKeepsAway, Claims
        <5>. QED  BY <5>1, <5>2
      <4>2. ASSUME NEW j \in Ids, sent'[j] # None
            PROVE  lastEnqueued'[j] = sent'[j] \/ clock' >= sent'[j] + MinInterval
        BY <1>2, <2>1, <3>3, <3>6, <4>2 DEF SentKeepsAway
      <4>. QED  BY <4>1, <4>2 DEF SentKeepsAway
    <3>. QED  BY <3>7, <3>8, <3>9
  <2>. QED  BY <2>2, <2>3
<1>5. ASSUME NEW c \in Callers, Send(c)
      PROVE  (CallsKeepPace /\ ClaimsStand /\ SentKeepsAway)'
  <2>1. /\ UNCHANGED <<lastEnqueued, clock>> /\ caller[c].pc = "send" /\ Claims(c)
        /\ \A d \in Callers \ {c} : caller'[d] = caller[d]
    BY <1>5, OtherCalls DEF Send, time, CallerStep, Claims
  <2>2. CASE ~Room
    <3>1. /\ caller'[c].pc = "undo" /\ caller'[c].id = caller[c].id
          /\ caller'[c].at = caller[c].at /\ sent' = sent
      <4>1. caller' = [caller EXCEPT ![c].pc = "undo"] /\ sent' = sent
        BY <1>5, <2>2 DEF Send
      <4>2. caller'[c] = [pc |-> "undo", id |-> caller[c].id, at |-> caller[c].at]
        BY <4>1, CallMoves
      <4>. QED  BY <4>1, <4>2
    <3>2. \A d \in Callers : /\ caller'[d].id = caller[d].id /\ caller'[d].at = caller[d].at
                             /\ Claims(d)' <=> Claims(d)
                             /\ InMarkUsed(d)' <=> InMarkUsed(d)
      BY <2>1, <3>1 DEF Claims, InMarkUsed
    <3>3. CallsKeepPace'
      BY <1>2, <2>1, <3>2 DEF CallsKeepPace, InMarkUsed
    <3>4. ClaimsStand'
      BY <1>2, <2>1, <3>2 DEF ClaimsStand
    <3>5. SentKeepsAway'
      BY <1>2, <2>1, <3>1, <3>2 DEF SentKeepsAway
    <3>. QED  BY <3>3, <3>4, <3>5
  <2>3. CASE Room
    <3>. DEFINE i == caller[c].id
                t == caller[c].at
    <3>0. caller' = [caller EXCEPT ![c] = Idle] /\ sent' = [sent EXCEPT ![i] = t]
      BY <1>5, <2>3 DEF Send
    <3>1. /\ caller'[c].pc = "idle" /\ sent' = [sent EXCEPT ![i] = t] /\ i \in Ids
      <4>1. i \in Ids
        BY CallMoves
      <4>. QED  BY <3>0, <4>1, CallAt, StampTypes
    <3>2. sent'[i] = t /\ \A j \in Ids \ {i} : sent'[j] = sent[j]
      BY <3>1 DEF UsageTypeOK, Stamps
    <3>3. /\ lastEnqueued[i] = t
          /\ \A d \in Callers \ {c} : Claims(d) => caller[d].id # i
      BY <1>2, <2>1 DEF ClaimsStand
    <3>. HIDE DEF i, t
    <3>4. CallsKeepPace'
      BY <1>2, <2>1, <3>1 DEF CallsKeepPace, InMarkUsed
    <3>5. ClaimsStand'
      BY <1>2, <2>1, <3>1 DEF ClaimsStand, Claims
    <3>6. SentKeepsAway'
      <4>1. \A d \in Callers : Claims(d)' =>
              /\ d # c /\ Claims(d) /\ caller'[d] = caller[d]
              /\ sent'[caller[d].id] = sent[caller[d].id]
        BY <2>1, <3>1, <3>2, <3>3, PaceTypes DEF Claims
      <4>2. \A j \in Ids : sent'[j] # None => \/ lastEnqueued'[j] = sent'[j]
                                              \/ clock' >= sent'[j] + MinInterval
        BY <1>2, <2>1, <3>2, <3>3 DEF SentKeepsAway
      <4>. QED  BY <1>2, <2>1, <4>1, <4>2 DEF SentKeepsAway
    <3>. QED  BY <3>4, <3>5, <3>6
  <2>. QED  BY <2>2, <2>3
<1>6. ASSUME NEW c \in Callers, Undo(c)
      PROVE  (CallsKeepPace /\ ClaimsStand /\ SentKeepsAway)'
  <2>. DEFINE i == caller[c].id
  <2>1. /\ UNCHANGED <<sent, clock>> /\ Claims(c) /\ i \in Ids
        /\ caller'[c].pc = "idle"
        /\ \A d \in Callers \ {c} : caller'[d] = caller[d]
    BY <1>6, OtherCalls, CallMoves, StampTypes DEF Undo, time, CallerStep, Claims
  <2>2. \A j \in Ids \ {i} : lastEnqueued'[j] = lastEnqueued[j]
    BY <1>6 DEF Undo, UsageTypeOK, Stamps
  <2>3. /\ \A d \in Callers \ {c} : Claims(d) => caller[d].id # i
        /\ sent[i] # None => clock >= sent[i] + MinInterval
    BY <1>2, <2>1 DEF ClaimsStand, SentKeepsAway
  <2>. HIDE DEF i
  <2>4. CallsKeepPace'
    BY <1>2, <2>1 DEF CallsKeepPace, InMarkUsed
  <2>5. ClaimsStand'
    BY <1>2, <2>1, <2>2, <2>3, PaceTypes DEF ClaimsStand, Claims
  <2>6. SentKeepsAway'
    <3>1. \A d \in Callers : Claims(d)' => Claims(d) /\ caller'[d] = caller[d]
      BY <2>1 DEF Claims
    <3>. QED  BY <1>2, <2>1, <2>2, <2>3, <3>1 DEF SentKeepsAway
  <2>. QED  BY <2>4, <2>5, <2>6
<1>7. CASE \/ WorkerStep \/ TickerFires \/ Close \/ UNCHANGED vars
           \/ \E i \in Ids : Delete(i)
  <2>1. UNCHANGED <<lastEnqueued, caller, sent, clock>>
    BY <1>7 DEF WorkerStep, Receive, FlushOnTick, SeeStop, Drain, FlushAtStop, Delete,
       UpdateLastUsed, UpdateFails, TickerFires, Close, callerState, table, time, vars
  <2>. QED  BY <1>2, <2>1 DEF CallsKeepPace, InMarkUsed, ClaimsStand, SentKeepsAway, Claims
<1>8. CASE Restart
  <2>1. (\A c \in Callers : caller'[c].pc = "idle") /\ (\A i \in Ids : sent'[i] = None)
    BY <1>8, StampTypes DEF Restart
  <2>. QED  BY <2>1 DEF CallsKeepPace, InMarkUsed, ClaimsStand, SentKeepsAway, Claims
<1>9. CASE Tick
  <2>1. clock' = clock + 1 /\ UNCHANGED <<lastEnqueued, caller, sent>>
    BY <1>9 DEF Tick, callerState
  <2>2. \A c \in Callers : InMarkUsed(c) => ~(clock' > caller[c].at + Rest)
    BY <1>9 DEF Tick
  <2>3. CallsKeepPace'
    BY <1>2, <2>1, <2>2, PaceTypes, StampTypes DEF CallsKeepPace, InMarkUsed
  <2>4. ClaimsStand'
    BY <1>2, <2>1 DEF ClaimsStand, Claims
  <2>5. SentKeepsAway'
    BY <1>2, <2>1, PaceTypes, StampTypes DEF SentKeepsAway, Claims
  <2>. QED  BY <2>3, <2>4, <2>5
<1>. QED  BY <1>3, <1>4, <1>5, <1>6, <1>7, <1>8, <1>9, <1>10 DEF Next, CallerStep

\* The channel: an event is no older than what the worker has received of its key and
\* than the events before it.
InOrder ==
  /\ \A i \in Ids : received[i] <= sent[i]
  /\ \A j \in DOMAIN usedCh :
       /\ received[usedCh[j].id] <= usedCh[j].at
       /\ usedCh[j].at <= sent[usedCh[j].id]
  /\ \A j, k \in DOMAIN usedCh :
       j < k /\ usedCh[j].id = usedCh[k].id => usedCh[j].at <= usedCh[k].at

OrderInv == ~stalled => InOrder

LEMMA OrderTypes ==
  ASSUME UsageTypeOK
  PROVE  /\ usedCh \in Seq(Events)
         /\ \A j \in DOMAIN usedCh : /\ usedCh[j].id \in Ids /\ usedCh[j].at \in Nat
                                     /\ usedCh[j] \in Events /\ j \in Nat
         /\ \A i \in Ids : received[i] \in Int /\ received[i] >= None /\ sent[i] \in Int
<1>1. usedCh \in Seq(Events)
  BY DEF UsageTypeOK, Events
<1>2. \A j \in DOMAIN usedCh : usedCh[j] \in Events /\ j \in Nat
  BY <1>1
<1>. QED  BY <1>1, <1>2, StampTypes DEF UsageTypeOK, Events, Stamps

\* The worker takes the head: the rest of the channel is no older.
LEMMA OrderTaken ==
  ASSUME UsageTypeOK, InOrder, usedCh # <<>>, NEW at \in Instants, TakeEvent(at),
         UNCHANGED sent
  PROVE  InOrder' /\ received'[Event.id] = Event.at
<1>1. /\ \A j \in DOMAIN usedCh' : j + 1 \in DOMAIN usedCh /\ usedCh'[j] = usedCh[j + 1]
      /\ \A j \in DOMAIN usedCh' : j \in Nat /\ j >= 1
  <2>1. usedCh' \in Seq(Events)
    BY TakeEventTypes
  <2>. QED  BY <2>1, TakeEventTypes
<1>2. /\ Event.id \in Ids /\ Event.at \in Nat /\ Event = usedCh[1] /\ 1 \in DOMAIN usedCh
      /\ received[Event.id] <= Event.at /\ Event.at <= sent[Event.id]
  BY HeadIsEvent, StampTypes DEF InOrder
<1>3. received' = [received EXCEPT ![Event.id] = Later(@, Event.at)]
  BY DEF TakeEvent
<1>4. /\ received'[Event.id] = Event.at
      /\ \A i \in Ids \ {Event.id} : received'[i] = received[i]
  <2>1. received' = [received EXCEPT ![Event.id] = Later(received[Event.id], Event.at)]
        /\ received \in [Ids -> Instants \cup {None}]
    BY <1>3 DEF UsageTypeOK, Stamps
  <2>2. Later(received[Event.id], Event.at) = Event.at
    BY <1>2, OrderTypes DEF Later
  <2>. QED  BY <1>2, <2>1, <2>2
<1>5. \A i \in Ids : received'[i] <= sent'[i]
  BY <1>2, <1>4 DEF InOrder
<1>6. ASSUME NEW j \in DOMAIN usedCh'
      PROVE  /\ received'[usedCh'[j].id] <= usedCh'[j].at
             /\ usedCh'[j].at <= sent'[usedCh'[j].id]
  <2>1. /\ j + 1 \in DOMAIN usedCh /\ usedCh'[j] = usedCh[j + 1] /\ 1 < j + 1
        /\ usedCh[j + 1].id \in Ids
    BY <1>1, OrderTypes
  <2>2. CASE usedCh[j + 1].id = Event.id
    BY <1>2, <1>4, <2>1, <2>2 DEF InOrder
  <2>3. CASE usedCh[j + 1].id # Event.id
    BY <1>4, <2>1, <2>3 DEF InOrder
  <2>. QED  BY <2>2, <2>3
<1>7. ASSUME NEW j \in DOMAIN usedCh', NEW k \in DOMAIN usedCh', j < k,
             usedCh'[j].id = usedCh'[k].id
      PROVE  usedCh'[j].at <= usedCh'[k].at
  <2>1. /\ j + 1 \in DOMAIN usedCh /\ k + 1 \in DOMAIN usedCh /\ j + 1 < k + 1
        /\ usedCh'[j] = usedCh[j + 1] /\ usedCh'[k] = usedCh[k + 1]
    BY <1>1, <1>7
  <2>. QED  BY <1>7, <2>1 DEF InOrder
<1>. QED  BY <1>4, <1>5, <1>6, <1>7 DEF InOrder

\* A caller sends: its event is no older than the one sent before.
LEMMA SentLater ==
  ASSUME UsageTypeOK, PaceInv, ~stalled, NEW c \in Callers, Send(c), Room
  PROVE  /\ caller[c].id \in Ids /\ caller[c].at \in Nat
         /\ usedCh' = Append(usedCh, [id |-> caller[c].id, at |-> caller[c].at])
         /\ sent'[caller[c].id] = caller[c].at
         /\ \A i \in Ids \ {caller[c].id} : sent'[i] = sent[i]
         /\ sent[caller[c].id] # None
              => caller[c].at - sent[caller[c].id] >= MinInterval - Rest
         /\ sent[caller[c].id] <= caller[c].at
<1>1. /\ caller[c].id \in Ids /\ caller[c].at \in Nat /\ sent[caller[c].id] \in Int
      /\ caller[c].pc = "send"
      /\ usedCh' = Append(usedCh, [id |-> caller[c].id, at |-> caller[c].at])
      /\ sent' = [sent EXCEPT ![caller[c].id] = caller[c].at]
  BY PaceTypes DEF Send
<1>2. sent[caller[c].id] # None
        => caller[c].at >= sent[caller[c].id] + MinInterval - Rest
  BY <1>1 DEF PaceInv, SentKeepsAway, Claims
<1>3. /\ sent'[caller[c].id] = caller[c].at
      /\ \A i \in Ids \ {caller[c].id} : sent'[i] = sent[i]
  BY <1>1 DEF UsageTypeOK, Stamps
<1>. QED  BY <1>1, <1>2, <1>3, StampTypes

LEMMA OrderStep == UsageTypeOK /\ PaceInv /\ OrderInv /\ [Next]_vars => OrderInv'
<1>. SUFFICES ASSUME UsageTypeOK, PaceInv, OrderInv, [Next]_vars, ~stalled'
              PROVE  InOrder'
  BY DEF OrderInv
<1>1. (stalled' <=> stalled) \/ Tick
  BY DEF Next, CallerStep, WorkerStep, Accept, MarkUsed, Claim, Send, Undo, Receive,
     FlushOnTick, Delete, SeeStop, Drain, FlushAtStop, UpdateLastUsed, UpdateFails,
     TickerFires, Close, Restart, time, vars
<1>2. ~stalled /\ InOrder
  BY <1>1 DEF Tick, OrderInv
<1>3. ASSUME NEW c \in Callers, Send(c), Room PROVE InOrder'
  <2>. DEFINE i == caller[c].id
              t == caller[c].at
              event == [id |-> i, at |-> t]
              n == Len(usedCh) + 1
  <2>1. /\ i \in Ids /\ t \in Nat /\ usedCh' = Append(usedCh, event)
        /\ sent'[i] = t /\ sent[i] <= t
        /\ \A j \in Ids \ {i} : sent'[j] = sent[j]
    BY <1>2, <1>3, SentLater
  <2>2. received' = received
    BY <1>3 DEF Send, workerState
  <2>3. event \in Events /\ event.id = i /\ event.at = t
    BY <2>1, CallMoves DEF Events
  <2>. HIDE DEF i, t, event
  <2>4. /\ DOMAIN usedCh' = DOMAIN usedCh \cup {n} /\ usedCh'[n] = event
        /\ \A j \in DOMAIN usedCh : j < n /\ usedCh'[j] = usedCh[j]
        /\ n \in Nat
    BY <2>1, <2>3, OrderTypes
  <2>. HIDE DEF n
  <2>5. \A j \in Ids : received'[j] <= sent'[j] /\ sent[j] <= sent'[j]
    BY <1>2, <2>1, <2>2, OrderTypes DEF InOrder
  <2>6. ASSUME NEW j \in DOMAIN usedCh'
        PROVE  /\ received'[usedCh'[j].id] <= usedCh'[j].at
               /\ usedCh'[j].at <= sent'[usedCh'[j].id]
    <3>1. CASE j = n
      BY <2>1, <2>3, <2>4, <2>5, <3>1
    <3>2. CASE j # n
      <4>1. j \in DOMAIN usedCh /\ usedCh'[j] = usedCh[j]
        BY <2>4, <3>2
      <4>2. /\ received[usedCh[j].id] <= usedCh[j].at
            /\ usedCh[j].at <= sent[usedCh[j].id]
        BY <1>2, <4>1 DEF InOrder
      <4>3. /\ usedCh[j].id \in Ids /\ usedCh[j].at \in Nat /\ sent[usedCh[j].id] \in Int
            /\ sent'[usedCh[j].id] \in Int
            /\ sent[usedCh[j].id] <= sent'[usedCh[j].id]
        BY <2>1, <2>5, <4>1, OrderTypes
      <4>. QED  BY <2>2, <4>1, <4>2, <4>3
    <3>. QED  BY <3>1, <3>2
  <2>7. ASSUME NEW j \in DOMAIN usedCh', NEW k \in DOMAIN usedCh', j < k,
               usedCh'[j].id = usedCh'[k].id
        PROVE  usedCh'[j].at <= usedCh'[k].at
    <3>1. j \in DOMAIN usedCh /\ usedCh'[j] = usedCh[j] /\ j \in Nat
      BY <2>4, <2>7, OrderTypes
    <3>2. CASE k = n
      <4>1. usedCh[j].at <= sent[i] /\ usedCh[j].at \in Nat
        BY <1>2, <2>3, <2>4, <2>7, <3>1, <3>2, OrderTypes DEF InOrder
      <4>. QED  BY <2>1, <2>3, <2>4, <3>1, <3>2, <4>1, OrderTypes
    <3>3. CASE k # n
      BY <1>2, <2>4, <2>7, <3>1, <3>3 DEF InOrder
    <3>. QED  BY <3>2, <3>3
  <2>. QED  BY <2>5, <2>6, <2>7 DEF InOrder
<1>4. CASE Receive \/ Drain
  <2>1. usedCh # <<>> /\ UNCHANGED sent
    BY <1>4 DEF Receive, Drain, callerState
  <2>2. PICK at \in Instants : TakeEvent(at)
    BY <1>4, <2>1, HeadIsEvent DEF Receive, Drain
  <2>. QED  BY <1>2, <2>1, <2>2, OrderTaken
<1>5. CASE UpdateFails
  <2>1. /\ UNCHANGED <<usedCh, sent>>
        /\ \A i \in Ids : received'[i] = IF batch[i] = None THEN received[i] ELSE None
    BY <1>5 DEF UpdateFails, callerState
  <2>2. \A i \in Ids : received'[i] <= received[i] /\ received'[i] \in Int
    BY <2>1, OrderTypes, StampTypes
  <2>3. \A i \in Ids : received'[i] <= sent'[i]
    BY <1>2, <2>1, <2>2, OrderTypes DEF InOrder
  <2>4. \A j \in DOMAIN usedCh : received'[usedCh[j].id] <= usedCh[j].at
    BY <1>2, <2>2, OrderTypes DEF InOrder
  <2>. QED  BY <1>2, <2>1, <2>3, <2>4 DEF InOrder
<1>6. CASE Restart
  <2>1. /\ usedCh' = <<>> /\ \A i \in Ids : received'[i] = None /\ sent'[i] = None
    BY <1>6, StampTypes DEF Restart
  <2>. QED  BY <2>1, StampTypes DEF InOrder
<1>7. CASE \/ \E c \in Callers : \/ \E i \in Ids : Accept(c, i)
                                 \/ MarkUsed(c) \/ Claim(c) \/ Undo(c)
           \/ \E i \in Ids : Delete(i)
           \/ FlushOnTick \/ FlushAtStop \/ SeeStop \/ UpdateLastUsed
           \/ TickerFires \/ Close \/ Tick \/ UNCHANGED vars
  <2>1. UNCHANGED <<usedCh, sent, received>>
    BY <1>7 DEF Accept, MarkUsed, Claim, Undo, Delete, FlushOnTick, SeeStop, FlushAtStop,
       UpdateLastUsed, TickerFires, Close, Tick, callerState, workerState, vars
  <2>. QED  BY <1>2, <2>1 DEF InOrder
<1>8. ASSUME NEW c \in Callers, Send(c) PROVE InOrder'
  <2>1. CASE ~Room
    <3>1. UNCHANGED <<usedCh, sent, received>>
      BY <1>8, <2>1 DEF Send, workerState
    <3>. QED  BY <1>2, <3>1 DEF InOrder
  <2>. QED  BY <1>3, <1>8, <2>1
<1>. QED  BY <1>8, <1>4, <1>5, <1>6, <1>7 DEF Next, CallerStep, WorkerStep

-----------------------------------------------------------------------------
(* What the worker received                                                *)

BatchInv == worker \notin {"flush", "final"} => batch = NoStamps

KeptInv == UsageTypeOK /\ PaceInv /\ OrderInv /\ BatchInv /\ ReceivedIsKept

LEMMA BatchStep == BatchInv /\ [Next]_vars => BatchInv'
<1>. SUFFICES ASSUME BatchInv, [Next]_vars PROVE BatchInv'
  OBVIOUS
<1>1. CASE \/ \E c \in Callers : (\E i \in Ids : Accept(c, i)) \/ CallerStep(c)
           \/ (\E i \in Ids : Delete(i)) \/ Receive \/ Drain \/ SeeStop \/ TickerFires
           \/ Close \/ Tick
           \/ UNCHANGED vars
  BY <1>1 DEF BatchInv, CallerStep, Accept, Delete, MarkUsed, Claim, Undo, Send, Receive,
     Drain, SeeStop,
     TickerFires, Close, Tick, workerState, table, vars
<1>2. CASE FlushOnTick \/ FlushAtStop
  BY <1>2 DEF BatchInv, FlushOnTick, FlushAtStop, TakePending
<1>3. CASE UpdateLastUsed \/ UpdateFails \/ Restart
  BY <1>3 DEF BatchInv, UpdateLastUsed, UpdateFails, Restart
<1>. QED  BY <1>1, <1>2, <1>3 DEF Next, WorkerStep

\* ReceivedIsKept of one key: received instant r against row d, pending p and batch b.
KeptOf(d, p, b, r) ==
  r # None => \/ d \div 2 >= r \div 2
              \/ p \div 2 >= r \div 2
              \/ b \div 2 >= r \div 2

LEMMA KeptByOne ==
  ASSUME NEW d \in Instants \cup {None}, NEW p \in Instants \cup {None},
         NEW b \in Instants \cup {None}, NEW r \in Instants \cup {None}
  PROVE  (r # None => Later(d, Later(p, b)) \div 2 >= r \div 2) <=> KeptOf(d, p, b, r)
<1>1. d \in Int /\ p \in Int /\ b \in Int /\ r \in Int
  BY StampTypes
<1>2. LET x == Later(d, Later(p, b))
      IN  x \in {d, p, b} /\ x \in Int /\ d <= x /\ p <= x /\ b <= x
  BY <1>1 DEF Later
<1>3. LET x == Later(d, Later(p, b))
      IN  /\ x \div 2 \in Int /\ d \div 2 <= x \div 2 /\ p \div 2 <= x \div 2
          /\ b \div 2 <= x \div 2
          /\ d \div 2 \in Int /\ p \div 2 \in Int /\ b \div 2 \in Int /\ r \div 2 \in Int
  BY <1>1, <1>2, SecondsFollow
<1>. QED  BY <1>2, <1>3 DEF KeptOf

LEMMA KeptIsOfEach ==
  ASSUME UsageTypeOK
  PROVE  ReceivedIsKept
           <=> (~stalled => \A i \in Ids \ deleted :
                              KeptOf(db[i], pending[i], batch[i], received[i]))
<1>1. ASSUME NEW i \in Ids
      PROVE  (received[i] # None => Newest(i) \div 2 >= received[i] \div 2)
               <=> KeptOf(db[i], pending[i], batch[i], received[i])
  BY KeptByOne DEF Newest, UsageTypeOK, Stamps
<1>. QED  BY <1>1 DEF ReceivedIsKept

\* The worker takes an event whose instant, or a later one, it then has pending.
LEMMA KeptTaken ==
  ASSUME UsageTypeOK, usedCh # <<>>, NEW at \in Instants, TakeEvent(at),
         UNCHANGED <<db, batch>>, NEW i \in Ids,
         KeptOf(db[i], pending[i], batch[i], received[i]),
         at >= pending[Event.id] \/ at >= received[Event.id],
         at >= Event.at
  PROVE  KeptOf(db[i], pending[i], batch[i], received[i])'
<1>1. /\ Event.id \in Ids /\ Event.at \in Instants
      /\ pending' = [pending EXCEPT ![Event.id] = at]
      /\ received' = [received EXCEPT ![Event.id] = Later(@, Event.at)]
  BY HeadIsEvent DEF TakeEvent
<1>2. CASE i # Event.id
  BY <1>1, <1>2 DEF UsageTypeOK, Stamps
<1>3. CASE i = Event.id
  <2>1. /\ pending'[i] = at /\ received'[i] = Later(received[i], Event.at)
        /\ received[i] \in Int /\ pending[i] \in Int /\ at \in Int /\ Event.at \in Int
        /\ db[i] \in Int /\ batch[i] \in Int /\ received[i] >= None
    BY <1>1, <1>3, StampTypes DEF UsageTypeOK, Stamps
  <2>2. CASE received'[i] = Event.at
    BY <1>3, <2>1, <2>2, SecondsFollow DEF KeptOf
  <2>3. CASE received'[i] = received[i]
    <3>1. CASE at >= received[i]
      BY <2>1, <2>3, <3>1, SecondsFollow DEF KeptOf
    <3>2. CASE at >= pending[i]
      <4>1. at \div 2 >= pending[i] \div 2 /\ at \div 2 \in Int /\ pending[i] \div 2 \in Int
        BY <2>1, <3>2, SecondsFollow
      <4>2. received[i] \div 2 \in Int
        BY <2>1, SecondsFollow
      <4>. QED  BY <2>1, <2>3, <4>1, <4>2 DEF KeptOf
    <3>. QED  BY <1>3, <3>1, <3>2
  <2>. QED  BY <2>1, <2>2, <2>3 DEF Later
<1>. QED  BY <1>2, <1>3

LEMMA KeptStep == KeptInv /\ [Next]_vars => ReceivedIsKept'
<1>. SUFFICES ASSUME KeptInv, [Next]_vars PROVE ReceivedIsKept'
  OBVIOUS
<1>. SUFFICES ASSUME ~stalled', NEW i \in Ids, i \notin deleted'
              PROVE  KeptOf(db[i], pending[i], batch[i], received[i])'
  <2>1. UsageTypeOK'
    BY UsageTypeStep DEF KeptInv
  <2>2. ReceivedIsKept'
          <=> (~stalled => \A i \in Ids \ deleted :
                              KeptOf(db[i], pending[i], batch[i], received[i]))'
    BY <2>1, KeptIsOfEach, PTL
  <2>. QED  BY <2>2
<1>1. (stalled' <=> stalled) \/ Tick
  BY DEF Next, CallerStep, WorkerStep, Accept, MarkUsed, Claim, Send, Undo, Receive,
     FlushOnTick, Delete, SeeStop, Drain, FlushAtStop, UpdateLastUsed, UpdateFails,
     TickerFires, Close, Restart, time, vars
<1>0. i \notin deleted
  <2>1. deleted \subseteq deleted'
    BY DEF Next, CallerStep, WorkerStep, Accept, MarkUsed, Claim, Send, Undo, Receive,
       FlushOnTick, Delete, SeeStop, Drain, FlushAtStop, UpdateLastUsed, UpdateFails,
       TickerFires, Close, Restart, Tick, table, vars
  <2>. QED  BY <2>1
<1>2. /\ UsageTypeOK /\ InOrder /\ KeptOf(db[i], pending[i], batch[i], received[i])
      /\ db[i] \in Instants \cup {None} /\ batch[i] \in Instants \cup {None}
      /\ pending[i] \in Instants \cup {None}
      /\ db[i] \in Int /\ batch[i] \in Int /\ pending[i] \in Int /\ received[i] \in Int
  BY <1>0, <1>1, KeptIsOfEach, StampTypes DEF Tick, KeptInv, OrderInv, UsageTypeOK, Stamps
<1>3. CASE Receive
  <2>. DEFINE at == Collected(pending[Event.id], Event.at)
  <2>1. /\ usedCh # <<>> /\ TakeEvent(at) /\ UNCHANGED <<db, batch>>
    BY <1>3 DEF Receive, table
  <2>2. at \in Instants /\ at >= pending[Event.id] /\ at >= Event.at
    <3>1. /\ at \in Instants /\ Event.id \in Ids /\ Event.at \in Instants
          /\ pending[Event.id] \in Instants \cup {None}
      BY <1>2, <2>1, HeadIsEvent DEF UsageTypeOK, Stamps
    <3>2. /\ Event.at \in Int /\ Event.at >= None
          /\ pending[Event.id] \in Int
      BY <3>1, StampTypes
    <3>. QED  BY <3>1, <3>2 DEF Collected
  <2>. HIDE DEF at
  <2>. QED  BY <1>2, <2>1, <2>2, KeptTaken
<1>4. CASE Drain
  <2>1. usedCh # <<>> /\ TakeEvent(Event.at) /\ UNCHANGED <<db, batch>>
    BY <1>4 DEF Drain, table
  <2>2. /\ Event.at \in Instants /\ Event.at \in Int /\ Event = usedCh[1]
        /\ 1 \in DOMAIN usedCh
    BY <1>2, <2>1, HeadIsEvent, StampTypes
  <2>3. Event.at >= received[Event.id] /\ Event.at >= Event.at
    BY <1>2, <2>2 DEF InOrder
  <2>. QED  BY <1>2, <2>1, <2>2, <2>3, KeptTaken
<1>5. CASE FlushOnTick \/ FlushAtStop
  <2>1. /\ db' = db /\ received' = received /\ batch' = pending /\ pending' = NoStamps
        /\ batch = NoStamps
    BY <1>5 DEF FlushOnTick, FlushAtStop, TakePending, KeptInv, BatchInv, table
  <2>2. batch'[i] = pending[i] /\ pending'[i] = None /\ batch[i] = None
    BY <2>1, StampTypes
  <2>. QED  BY <1>2, <2>1, <2>2 DEF KeptOf
<1>6. CASE UpdateLastUsed
  <2>1. /\ db'[i] = Stored(db[i], batch[i]) /\ batch'[i] = None
        /\ UNCHANGED <<pending, received>>
    BY <1>0, <1>6, StampTypes DEF UpdateLastUsed
  <2>2. /\ db'[i] \in Int /\ db'[i] \div 2 >= db[i] \div 2
        /\ db'[i] \div 2 >= batch[i] \div 2
    <3>1. /\ Stored(db[i], batch[i]) \in Instants \cup {None}
          /\ Stored(db[i], batch[i]) \div 2 >= db[i] \div 2
          /\ Stored(db[i], batch[i]) \div 2 >= batch[i] \div 2
      BY <1>2, StoredIsLater
    <3>. QED  BY <2>1, <3>1, StampTypes
  <2>3. /\ db[i] \div 2 \in Int /\ batch[i] \div 2 \in Int /\ received[i] \div 2 \in Int
        /\ db'[i] \div 2 \in Int
    BY <1>2, <2>2, SecondsFollow
  <2>. QED  BY <1>2, <2>1, <2>2, <2>3 DEF KeptOf
<1>7. CASE UpdateFails
  <2>1. /\ received'[i] = (IF batch[i] = None THEN received[i] ELSE None)
        /\ batch'[i] = None /\ UNCHANGED <<db, pending>>
    BY <1>7, StampTypes DEF UpdateFails, table
  <2>. QED  BY <1>2, <2>1 DEF KeptOf
<1>8. CASE Restart
  <2>1. received'[i] = None
    BY <1>8, StampTypes DEF Restart
  <2>. QED  BY <2>1 DEF KeptOf
<1>9. CASE \/ \E c \in Callers : (\E j \in Ids : Accept(c, j)) \/ CallerStep(c)
           \/ (\E j \in Ids : Delete(j)) \/ SeeStop \/ TickerFires \/ Close
           \/ Tick \/ UNCHANGED vars
  <2>1. UNCHANGED <<db, pending, batch, received>>
    BY <1>9 DEF CallerStep, Accept, Delete, MarkUsed, Claim, Undo, Send, SeeStop, TickerFires,
       Close, Tick, workerState, table, vars
  <2>. QED  BY <1>2, <2>1 DEF KeptOf
<1>. QED  BY <1>3, <1>4, <1>5, <1>6, <1>7, <1>8, <1>9 DEF Next, WorkerStep

LEMMA KeptCorrect == Spec => []KeptInv
<1>1. Init => KeptInv
  <2>. SUFFICES ASSUME Init PROVE KeptInv
    OBVIOUS
  <2>1. /\ \A c \in Callers : caller[c].pc = "idle"
        /\ \A i \in Ids : sent[i] = None /\ received[i] = None
        /\ usedCh = <<>> /\ batch = NoStamps
    BY StampTypes DEF Init
  <2>2. PaceInv
    BY <2>1 DEF PaceInv, CallsKeepPace, InMarkUsed, ClaimsStand, SentKeepsAway, Claims
  <2>3. OrderInv
    BY <2>1, StampTypes DEF OrderInv, InOrder
  <2>. QED  BY <2>1, <2>2, <2>3, UsageTypeInit DEF KeptInv, BatchInv, ReceivedIsKept
<1>2. KeptInv /\ [Next]_vars => KeptInv'
  BY UsageTypeStep, PaceStep, OrderStep, BatchStep, KeptStep DEF KeptInv
<1>. QED  BY <1>1, <1>2, PTL DEF Spec

\* Unless a flush failed or a caller stalled, what the worker received is, to the second,
\* in the database or on its way there: neither the throttling, nor a full channel, nor
\* the uncompared drain at the stop loses a newer instant (usageWorker).
THEOREM ReceivedAlwaysKept == Spec => []ReceivedIsKept
BY KeptCorrect, PTL DEF KeptInv

LEMMA OnlySendSends ==
  ASSUME [Next]_vars, sent' # sent, UsageTypeOK
  PROVE  (\A i \in Ids : sent'[i] = None) \/ \E c \in Callers : Send(c) /\ Room
<1>1. Restart \/ \E c \in Callers : Send(c) /\ Room
  BY DEF Next, CallerStep, WorkerStep, Accept, MarkUsed, Claim, Send, Undo, Receive,
     FlushOnTick, Delete, SeeStop, Drain, FlushAtStop, UpdateLastUsed, UpdateFails,
     TickerFires, Close, Tick,
     callerState, vars
<1>2. CASE Restart
  BY <1>2, StampTypes DEF Restart
<1>. QED  BY <1>1, <1>2

\* Unless a caller stalled, two events of a key are the throttling interval apart, less
\* the callers' rest, although a full channel makes markUsed forget the claim of
\* whichever caller holds it (Undo).
THEOREM EventsAlwaysApart == Spec => EventsApart
<1>1. KeptInv /\ [Next]_vars
        => [\A i \in Ids :
              (sent[i] # None /\ sent'[i] # None /\ sent'[i] # sent[i] /\ ~stalled)
                => sent'[i] - sent[i] >= MinInterval - Rest]_sent
  <2>. SUFFICES ASSUME KeptInv, [Next]_vars, sent' # sent, NEW i \in Ids,
                       sent[i] # None, sent'[i] # None, sent'[i] # sent[i], ~stalled
                PROVE  sent'[i] - sent[i] >= MinInterval - Rest
    OBVIOUS
  <2>1. PICK c \in Callers : Send(c) /\ Room
    BY OnlySendSends DEF KeptInv
  <2>. QED  BY <2>1, SentLater DEF KeptInv
<1>. QED  BY <1>1, KeptCorrect, PTL DEF Spec, EventsApart
=============================================================================
