---------------------------- MODULE UsageTracker ----------------------------
(***************************************************************************)
(* How apikey.Service records last_used_at: Authenticate calls markUsed,   *)
(* which throttles per key and sends to a bounded channel without          *)
(* blocking; one worker goroutine collects the events, flushes them to     *)
(* SQLite on a ticker, and drains the channel when Close stops it.         *)
(*                                                                         *)
(* The clock counts half seconds: last_used_at is stored and compared as   *)
(* RFC 3339 text, whose order differs from time within one second.         *)
(***************************************************************************)
EXTENDS Integers, Sequences

CONSTANTS
  Ids,          \* key ids
  Callers,      \* goroutines that run Authenticate
  QueueSize,    \* lastUsedQueueSize
  MinInterval,  \* lastUsedMinInterval, in half seconds
  Rest,         \* how long a caller normally rests between two steps of markUsed
  MaxStall,     \* bound: how long it may rest at all
  MaxClock, MaxFailures, MaxRestarts   \* bounds

\* The interval is a minute: a caller that rests as long has stalled.
ASSUME UsageConstantsOK ==
  /\ Ids # {}
  /\ QueueSize \in Nat \ {0} /\ MinInterval \in Nat \ {0, 1}
  /\ Rest \in Nat /\ Rest < MinInterval
  /\ MaxStall \in Nat /\ MaxClock \in Nat
  /\ MaxFailures \in Nat /\ MaxRestarts \in Nat

VARIABLES
  lastEnqueued,  \* Service.lastEnqueued, None where the map has no entry
  usedCh,        \* the channel
  caller,        \* what each Authenticate call is doing
  worker,        \* "select", "flush", "drain", "final", "done"
  pending,       \* the worker's map, None where it has no entry
  batch,         \* the map handed to UpdateLastUsed
  tick,          \* the ticker's channel holds a tick
  stopped,       \* closed flag and stopUsage, set together by Close
  db,            \* column last_used_at
  deleted,       \* keys whose deleted_at is set
  clock, failures, restarts,
  sent,          \* history: the last instant sent for each key
  stalled,       \* history: some caller has rested longer than Rest
  received       \* history: the latest instant the worker received for each
                 \* key and no failed flush has lost

vars == <<lastEnqueued, usedCh, caller, worker, pending, batch, tick, stopped,
          db, deleted, clock, stalled, failures, restarts, sent, received>>
table == <<db, deleted>>
callerState == <<lastEnqueued, caller, sent>>
time == <<clock, stalled>>
workerState == <<worker, pending, batch, tick, received>>

None == -1
Instants == 0 .. MaxClock
Stamps == [Ids -> Instants \cup {None}]
NoStamps == [i \in Ids |-> None]
Idle == [pc |-> "idle", id |-> CHOOSE i \in Ids : TRUE, at |-> 0]

UsageTypeOK ==
  /\ lastEnqueued \in Stamps /\ pending \in Stamps /\ batch \in Stamps
  /\ db \in Stamps /\ deleted \in SUBSET Ids /\ sent \in Stamps /\ received \in Stamps
  /\ usedCh \in Seq([id : Ids, at : Instants]) /\ Len(usedCh) <= QueueSize
  /\ caller \in [Callers -> [pc : {"idle", "mark", "lock", "send", "undo"},
                             id : Ids, at : Instants]]
  /\ worker \in {"select", "flush", "drain", "final", "done"}
  /\ tick \in BOOLEAN /\ stopped \in BOOLEAN
  /\ clock \in Instants /\ stalled \in BOOLEAN
  /\ failures \in 0 .. MaxFailures /\ restarts \in 0 .. MaxRestarts

\* dbTime drops the fraction of a whole second, and "." sorts before "Z": within
\* one second the text of the half second is smaller than that of the whole one.
TextBefore(s, t) ==
  IF s # None /\ s \div 2 = t \div 2 THEN s % 2 = 1 /\ t % 2 = 0 ELSE s < t

-----------------------------------------------------------------------------
(* Authenticate and markUsed                                               *)

\* Authenticate finds the service open and accepts the key.  A deleted key is
\* still accepted by a snapshot older than its deletion.
Accept(c, i) ==
  /\ caller[c].pc = "idle" /\ ~stopped
  /\ caller' = [caller EXCEPT ![c] = [pc |-> "mark", id |-> i, at |-> 0]]
  /\ UNCHANGED <<lastEnqueued, sent, usedCh, workerState, stopped, table, time,
                 failures, restarts>>

\* markUsed reads the clock, after Close too.
MarkUsed(c) ==
  /\ caller[c].pc = "mark"
  /\ caller' = [caller EXCEPT ![c] = [pc |-> "lock", id |-> caller[c].id, at |-> clock]]
  /\ UNCHANGED <<lastEnqueued, sent, usedCh, workerState, stopped, table, time,
                 failures, restarts>>

Throttled_Never(i, now) == FALSE
Throttled(i, now) ==
  lastEnqueued[i] # None /\ now - lastEnqueued[i] < MinInterval

\* Under usedMu: give up, or claim the interval.
Claim(c) ==
  /\ caller[c].pc = "lock"
  /\ IF Throttled(caller[c].id, caller[c].at)
       THEN caller' = [caller EXCEPT ![c] = Idle] /\ UNCHANGED lastEnqueued
       ELSE /\ caller' = [caller EXCEPT ![c].pc = "send"]
            /\ lastEnqueued' = [lastEnqueued EXCEPT ![caller[c].id] = caller[c].at]
  /\ UNCHANGED <<sent, usedCh, workerState, stopped, table, time, failures, restarts>>

Room_OneMore == Len(usedCh) <= QueueSize
Room == Len(usedCh) < QueueSize

\* The select with a default: the send succeeds only when there is room.
Send(c) ==
  /\ caller[c].pc = "send"
  /\ IF Room
       THEN /\ usedCh' = Append(usedCh, [id |-> caller[c].id, at |-> caller[c].at])
            /\ sent' = [sent EXCEPT ![caller[c].id] = caller[c].at]
            /\ caller' = [caller EXCEPT ![c] = Idle]
       ELSE /\ caller' = [caller EXCEPT ![c].pc = "undo"]
            /\ UNCHANGED <<usedCh, sent>>
  /\ UNCHANGED <<lastEnqueued, workerState, stopped, table, time, failures, restarts>>

\* The channel was full: the claim is deleted, whoever's it is by now.
Undo(c) ==
  /\ caller[c].pc = "undo"
  /\ lastEnqueued' = [lastEnqueued EXCEPT ![caller[c].id] = None]
  /\ caller' = [caller EXCEPT ![c] = Idle]
  /\ UNCHANGED <<sent, usedCh, workerState, stopped, table, time, failures, restarts>>

-----------------------------------------------------------------------------
(* usageWorker                                                             *)

Later(s, t) == IF s < t THEN t ELSE s

Collected_Drops(old, at) == IF old = None THEN at ELSE old
Collected(old, at) == IF old = None \/ at > old THEN at ELSE old

Event == Head(usedCh)

\* The worker takes an event and remembers the instant `at` for its key.
TakeEvent(at) ==
  /\ usedCh' = Tail(usedCh)
  /\ pending' = [pending EXCEPT ![Event.id] = at]
  /\ received' = [received EXCEPT ![Event.id] = Later(@, Event.at)]

Receive ==
  /\ worker = "select" /\ usedCh # <<>>
  /\ TakeEvent(Collected(pending[Event.id], Event.at))
  /\ UNCHANGED <<callerState, worker, batch, tick, stopped, table, time, failures,
                 restarts>>

\* The ticker's channel holds one tick; further ticks are dropped.
TickerFires ==
  /\ worker # "done" /\ ~tick
  /\ tick' = TRUE
  /\ UNCHANGED <<callerState, usedCh, worker, pending, batch, stopped, table, time,
                 failures, restarts, received>>

\* flush takes the map, unless it is empty.
TakePending(next, otherwise) ==
  /\ worker' = IF pending = NoStamps THEN otherwise ELSE next
  /\ batch' = pending
  /\ pending' = NoStamps

FlushOnTick ==
  /\ worker = "select" /\ tick
  /\ tick' = FALSE
  /\ TakePending("flush", "select")
  /\ UNCHANGED <<callerState, usedCh, stopped, table, time, failures, restarts,
                 received>>

SeeStop ==
  /\ worker = "select" /\ stopped
  /\ worker' = "drain"
  /\ UNCHANGED <<callerState, usedCh, pending, batch, tick, stopped, table, time,
                 failures, restarts, received>>

\* Here the event replaces what is pending without a comparison.
Drain ==
  /\ worker = "drain" /\ usedCh # <<>>
  /\ TakeEvent(Event.at)
  /\ UNCHANGED <<callerState, worker, batch, tick, stopped, table, time, failures,
                 restarts>>

FlushAtStop ==
  /\ worker = "drain" /\ usedCh = <<>>
  /\ TakePending("final", "done")
  /\ UNCHANGED <<callerState, usedCh, tick, stopped, table, time, failures, restarts,
                 received>>

AfterFlush_Retries == worker
AfterFlush == IF worker = "final" THEN "done" ELSE "select"

Stored_Always(old, at) == IF at = None THEN old ELSE at
Stored(old, at) ==
  IF at # None /\ (old = None \/ TextBefore(old, at)) THEN at ELSE old

\* UpdateLastUsed commits one transaction for the whole batch and leaves the rows
\* that were deleted meanwhile alone.
UpdateLastUsed ==
  /\ worker \in {"flush", "final"}
  /\ db' = [i \in Ids |-> IF i \in deleted THEN db[i] ELSE Stored(db[i], batch[i])]
  /\ batch' = NoStamps
  /\ worker' = AfterFlush
  /\ UNCHANGED <<callerState, usedCh, pending, tick, stopped, deleted, time,
                 failures, restarts, received>>

\* It fails or times out: the batch is dropped with a warning.
UpdateFails ==
  /\ worker \in {"flush", "final"} /\ failures < MaxFailures
  /\ failures' = failures + 1
  /\ received' = [i \in Ids |-> IF batch[i] = None THEN received[i] ELSE None]
  /\ batch' = NoStamps
  /\ worker' = AfterFlush
  /\ UNCHANGED <<callerState, usedCh, pending, tick, stopped, table, time, restarts>>

-----------------------------------------------------------------------------
(* Deletion, Close, restart and time                                       *)

\* A Delete of the service commits; a mutation under way may outlast Close.
Delete(i) ==
  /\ i \notin deleted
  /\ deleted' = deleted \cup {i}
  /\ UNCHANGED <<callerState, usedCh, workerState, stopped, db, time, failures,
                 restarts>>

Close ==
  /\ ~stopped
  /\ stopped' = TRUE
  /\ UNCHANGED <<callerState, usedCh, workerState, table, time, failures, restarts>>

\* A call that has read the clock and not yet left markUsed.
InMarkUsed(c) == caller[c].pc \in {"lock", "send", "undo"}

\* The process ends, after Close or by a crash, and another one starts.
Restart ==
  /\ restarts < MaxRestarts
  /\ restarts' = restarts + 1
  /\ lastEnqueued' = NoStamps /\ usedCh' = <<>> /\ sent' = NoStamps
  /\ caller' = [c \in Callers |-> Idle]
  /\ worker' = "select" /\ pending' = NoStamps /\ batch' = NoStamps
  /\ tick' = FALSE /\ stopped' = FALSE /\ received' = NoStamps
  /\ UNCHANGED <<table, time, failures>>

Tick ==
  /\ clock < MaxClock
  /\ \A c \in Callers : InMarkUsed(c) => clock < caller[c].at + MaxStall
  /\ clock' = clock + 1
  /\ stalled' = (stalled \/ \E c \in Callers :
                              InMarkUsed(c) /\ clock' > caller[c].at + Rest)
  /\ UNCHANGED <<callerState, usedCh, workerState, stopped, table, failures, restarts>>

Init ==
  /\ lastEnqueued = NoStamps /\ usedCh = <<>> /\ sent = NoStamps
  /\ caller = [c \in Callers |-> Idle]
  /\ worker = "select" /\ pending = NoStamps /\ batch = NoStamps
  /\ tick = FALSE /\ stopped = FALSE /\ received = NoStamps
  /\ db = NoStamps /\ deleted = {}
  /\ clock = 0 /\ stalled = FALSE /\ failures = 0 /\ restarts = 0

CallerStep(c) == MarkUsed(c) \/ Claim(c) \/ Send(c) \/ Undo(c)
WorkerStep ==
  Receive \/ FlushOnTick \/ SeeStop \/ Drain \/ FlushAtStop \/ UpdateLastUsed
          \/ UpdateFails

Next ==
  \/ \E c \in Callers : (\E i \in Ids : Accept(c, i)) \/ CallerStep(c)
  \/ (\E i \in Ids : Delete(i))
  \/ WorkerStep \/ TickerFires \/ Close \/ Restart \/ Tick

Spec == Init /\ [][Next]_vars

\* The Go scheduler runs every goroutine that can run, and the ticker ticks; a
\* select chooses among the ready cases at random, so none is passed over for
\* ever.
FairSpec ==
  /\ Spec
  /\ \A c \in Callers : WF_vars(CallerStep(c))
  /\ WF_vars(WorkerStep) /\ WF_vars(TickerFires)
  /\ SF_vars(Receive) /\ SF_vars(FlushOnTick) /\ SF_vars(SeeStop)

-----------------------------------------------------------------------------
\* last_used_at never moves back to an earlier second, although events of one key
\* may reach the worker out of order and the database compares their text
\* (SQLiteRepository.UpdateLastUsed).
LastUsedNeverBack == [][\A i \in Ids : db'[i] \div 2 >= db[i] \div 2]_db

\* Unless a flush failed or a caller stalled (and its late event overwrites a newer
\* one while the worker drains), an event the worker received is, to the second, in
\* the database once the worker has nothing left to flush, unless its key was
\* deleted (usageWorker).
Newest(i) == Later(db[i], Later(pending[i], batch[i]))
ReceivedIsKept ==
  \A i \in Ids \ deleted :
    received[i] # None /\ ~stalled => Newest(i) \div 2 >= received[i] \div 2

\* Unless a caller stalled, two events of one key that reach the channel are the
\* throttling interval apart, less the time callers rest between reading the clock
\* and claiming: a full channel's Undo forgets the previous event (markUsed).
EventsApart ==
  [][\A i \in Ids :
       (sent[i] # None /\ sent'[i] # None /\ sent'[i] # sent[i] /\ ~stalled)
         => sent'[i] - sent[i] >= MinInterval - Rest]_sent

\* Close returns: the worker drains, flushes and ends (Service.Close).
CloseReturns == stopped ~> worker = "done" \/ ~stopped

\* What was sent while the worker lives is taken from the channel.
SentIsReceived == usedCh # <<>> /\ worker # "done" ~> usedCh = <<>> \/ worker = "done"
=============================================================================
