--------------------------- MODULE DeepDiveProofs ---------------------------
(***************************************************************************)
(* Proofs about DeepDive, for any set of sections and any number of slots. *)
(***************************************************************************)
EXTENDS DeepDive, FiniteSetTheorems, TLAPS

\* What section n has put into the result, by how far its goroutine has come.
Recorded(n) ==
  /\ section[n] \in {"idle", "wait", "fetch", "settle"}
       => n \notin found /\ n \notin failures /\ warnings[n] = ""
  /\ section[n] \in {"idle", "wait"} => answer[n] = "none"
  /\ section[n] \in {"settle", "release"} => answer[n] # "none"
  /\ section[n] \in {"release", "done"}
       => /\ n \in found <=> warnings[n] = ""
          /\ n \in failures <=> answer[n] = "error"
  /\ warnings[n] = "cancelled" => ctxDone

\* How the call's own state goes with that of its sections.
CallInv ==
  /\ call \in {"profile", "failed", "not found"}
       => /\ \A n \in Names : section[n] = "idle"
          /\ found = {}
  /\ call = "result" => AllDone /\ (found = {} => ~ctxDone)
  /\ call = "cancelled" => AllDone /\ found = {}

AccountInv == CallInv /\ \A n \in Names : Recorded(n)

\* Init establishes the types: no section holds a slot.
LEMMA InitTypes == Init => DeepDiveTypeOK
<1> SUFFICES ASSUME Init PROVE DeepDiveTypeOK
  OBVIOUS
<1>1. Holding = {}
  BY DEF Init, Holding
<1>2. Cardinality(Holding) = 0
  BY <1>1, FS_EmptySet
<1>3. MaxSlots \in Nat
  BY DeepDiveConstantsOK
<1>4. slots \in 0 .. MaxSlots /\ slots = Cardinality(Holding)
  <2>1. slots = 0
    BY DEF Init
  <2> QED
    BY <1>2, <1>3, <2>1
<1>5. ctxDone \in BOOLEAN
  BY DEF Init
<1> QED
  BY <1>4, <1>5 DEF Init, DeepDiveTypeOK, Returned, Answers

\* The sections that hold a slot are finitely many.
LEMMA HoldingFinite == IsFiniteSet(Holding)
BY DeepDiveConstantsOK, FS_Subset DEF Holding

\* A step keeps the types, and slots counts the sections that hold one: the send
\* and the deferred receive in AnalyzeStockDeepDive are paired.
LEMMA StepTypes == DeepDiveTypeOK /\ AccountInv /\ [Next]_vars => DeepDiveTypeOK'
<1> SUFFICES ASSUME DeepDiveTypeOK, AccountInv, [Next]_vars
             PROVE  DeepDiveTypeOK'
  OBVIOUS
<1> USE DEF Returned, Answers
<1>0. /\ MaxSlots \in Nat /\ slots \in 0 .. MaxSlots /\ IsFiniteSet(Holding)
      /\ slots = Cardinality(Holding)
  <2>1. MaxSlots \in Nat
    BY DeepDiveConstantsOK
  <2>2. slots \in 0 .. MaxSlots /\ slots = Cardinality(Holding)
    BY DEF DeepDiveTypeOK
  <2> QED
    BY <2>1, <2>2, HoldingFinite
<1>1. ASSUME Holding' = Holding, slots' = slots PROVE slots' = Cardinality(Holding')
  BY <1>0, <1>1
<1>2. CASE ProfileFails
  <2>1. Holding' = Holding
    BY <1>2 DEF ProfileFails, Holding
  <2> QED
    BY <1>1, <1>2, <2>1 DEF ProfileFails, DeepDiveTypeOK, result
<1>3. CASE ProfileInterrupted
  <2>1. Holding' = Holding
    BY <1>3 DEF ProfileInterrupted, Holding
  <2> QED
    BY <1>1, <1>3, <2>1 DEF ProfileInterrupted, DeepDiveTypeOK, result
<1>4. CASE FanOut
  <2>1. Holding' = Holding
    BY <1>4 DEF FanOut, Holding, AccountInv, CallInv
  <2> QED
    BY <1>1, <1>4, <2>1 DEF FanOut, DeepDiveTypeOK, result
<1>5. ASSUME NEW n \in Names, Acquire(n) PROVE DeepDiveTypeOK'
  <2>1. n \notin Holding /\ Holding' = Holding \cup {n}
    BY <1>5 DEF Acquire, Holding, DeepDiveTypeOK
  <2>2. Cardinality(Holding') = Cardinality(Holding) + 1
    BY <1>0, <2>1, FS_AddElement
  <2>3. slots' \in 0 .. MaxSlots /\ slots' = Cardinality(Holding')
    BY <1>0, <1>5, <2>2 DEF Acquire, SlotFree
  <2> QED
    BY <1>5, <2>3 DEF Acquire, DeepDiveTypeOK, result
<1>6. ASSUME NEW n \in Names, GiveUp(n) PROVE DeepDiveTypeOK'
  <2>1. Holding' = Holding
    BY <1>6 DEF GiveUp, Holding, DeepDiveTypeOK
  <2> QED
    BY <1>1, <1>6, <2>1 DEF GiveUp, SlotsAfterGivingUp, DeepDiveTypeOK
<1>7. ASSUME NEW n \in Names, Fetched(n) PROVE DeepDiveTypeOK'
  <2>1. Holding' = Holding
    BY <1>7 DEF Fetched, Holding, DeepDiveTypeOK
  <2> QED
    BY <1>1, <1>7, <2>1 DEF Fetched, DeepDiveTypeOK, result
<1>8. ASSUME NEW n \in Names, Interrupted(n) PROVE DeepDiveTypeOK'
  <2>1. Holding' = Holding
    BY <1>8 DEF Interrupted, Holding, DeepDiveTypeOK
  <2> QED
    BY <1>1, <1>8, <2>1 DEF Interrupted, DeepDiveTypeOK, result
<1>9. ASSUME NEW n \in Names, Settle(n) PROVE DeepDiveTypeOK'
  <2>1. Holding' = Holding
    BY <1>9 DEF Settle, Holding, DeepDiveTypeOK
  <2>2. Warning(n) \in {"", "cancelled", "unavailable", "no data"}
    BY <1>9 DEF Settle, Warning, ErrorWarning, DeepDiveTypeOK, AccountInv, Recorded
  <2> QED
    BY <1>1, <1>9, <2>1, <2>2 DEF Settle, DeepDiveTypeOK
<1>10. ASSUME NEW n \in Names, Release(n) PROVE DeepDiveTypeOK'
  <2>1. n \in Holding /\ Holding' = Holding \ {n}
    BY <1>10 DEF Release, Holding, DeepDiveTypeOK
  <2>2. Cardinality(Holding') = Cardinality(Holding) - 1 /\ Cardinality(Holding') \in Nat
    BY <1>0, <2>1, FS_RemoveElement, FS_CardinalityType
  <2>3. slots' \in 0 .. MaxSlots /\ slots' = Cardinality(Holding')
    BY <1>0, <1>10, <2>2 DEF Release
  <2> QED
    BY <1>10, <2>3 DEF Release, DeepDiveTypeOK, result
<1>11. CASE Conclude
  <2>1. Holding' = Holding
    BY <1>11 DEF Conclude, Holding
  <2> QED
    BY <1>1, <1>11, <2>1 DEF Conclude, Concluded, DeepDiveTypeOK, result
<1>12. CASE EndContext
  <2>1. Holding' = Holding
    BY <1>12 DEF EndContext, Holding
  <2> QED
    BY <1>1, <1>12, <2>1 DEF EndContext, DeepDiveTypeOK, result
<1>13. CASE UNCHANGED vars
  <2>1. Holding' = Holding
    BY <1>13 DEF vars, Holding
  <2> QED
    BY <1>1, <1>13, <2>1 DEF vars, DeepDiveTypeOK
<1> QED
  BY <1>2, <1>3, <1>4, <1>5, <1>6, <1>7, <1>8, <1>9, <1>10, <1>11, <1>12, <1>13
     DEF Next, SectionStep

\* A step keeps the account of every section and of the call.
LEMMA StepAccount == DeepDiveTypeOK /\ AccountInv /\ [Next]_vars => AccountInv'
<1> SUFFICES ASSUME DeepDiveTypeOK, AccountInv, [Next]_vars
             PROVE  AccountInv'
  OBVIOUS
<1> USE DEF AccountInv, CallInv, Recorded, AllDone, Returned
<1>0. ASSUME NEW n \in Names, section[n] \notin {"idle", "done"} PROVE call = "fanout"
  BY <1>0 DEF DeepDiveTypeOK
<1>1. CASE ProfileFails
  BY <1>1 DEF ProfileFails, result
<1>2. CASE ProfileInterrupted
  BY <1>2 DEF ProfileInterrupted, result
<1>3. CASE FanOut
  BY <1>3 DEF FanOut, result
<1>4. ASSUME NEW n \in Names, Acquire(n) PROVE AccountInv'
  <2>1. call' = "fanout"
    BY <1>0, <1>4 DEF Acquire
  <2>2. Recorded(n)'
    BY <1>4 DEF Acquire, result, DeepDiveTypeOK
  <2>3. ASSUME NEW m \in Names \ {n} PROVE Recorded(m)'
    BY <1>4 DEF Acquire, result, DeepDiveTypeOK
  <2> QED
    BY <2>1, <2>2, <2>3
<1>5. ASSUME NEW n \in Names, GiveUp(n) PROVE AccountInv'
  <2>1. call' = "fanout"
    BY <1>0, <1>5 DEF GiveUp
  <2>2. Recorded(n)'
    BY <1>5 DEF GiveUp, DeepDiveTypeOK
  <2>3. ASSUME NEW m \in Names \ {n} PROVE Recorded(m)'
    BY <1>5 DEF GiveUp, DeepDiveTypeOK
  <2> QED
    BY <2>1, <2>2, <2>3
<1>6. ASSUME NEW n \in Names, Fetched(n) PROVE AccountInv'
  <2>1. call' = "fanout"
    BY <1>0, <1>6 DEF Fetched
  <2>2. Recorded(n)'
    BY <1>6 DEF Fetched, result, DeepDiveTypeOK, Answers
  <2>3. ASSUME NEW m \in Names \ {n} PROVE Recorded(m)'
    BY <1>6 DEF Fetched, result, DeepDiveTypeOK
  <2> QED
    BY <2>1, <2>2, <2>3
<1>7. ASSUME NEW n \in Names, Interrupted(n) PROVE AccountInv'
  <2>1. call' = "fanout"
    BY <1>0, <1>7 DEF Interrupted
  <2>2. Recorded(n)'
    BY <1>7 DEF Interrupted, result, DeepDiveTypeOK
  <2>3. ASSUME NEW m \in Names \ {n} PROVE Recorded(m)'
    BY <1>7 DEF Interrupted, result, DeepDiveTypeOK
  <2> QED
    BY <2>1, <2>2, <2>3
<1>8. ASSUME NEW n \in Names, Settle(n) PROVE AccountInv'
  <2>1. answer[n] \in {"found", "missing", "error"}
    BY <1>8 DEF Settle, DeepDiveTypeOK, Answers
  <2>2. CASE answer[n] = "found"
    BY <1>8, <2>2 DEF Settle, Warning, DeepDiveTypeOK
  <2>3. CASE answer[n] = "missing"
    BY <1>8, <2>3 DEF Settle, Warning, DeepDiveTypeOK
  <2>4. CASE answer[n] = "error"
    BY <1>8, <2>4 DEF Settle, Warning, ErrorWarning, DeepDiveTypeOK
  <2> QED
    BY <2>1, <2>2, <2>3, <2>4
<1>9. ASSUME NEW n \in Names, Release(n) PROVE AccountInv'
  <2>1. call' = "fanout"
    BY <1>0, <1>9 DEF Release
  <2>2. Recorded(n)'
    BY <1>9 DEF Release, result, DeepDiveTypeOK
  <2>3. ASSUME NEW m \in Names \ {n} PROVE Recorded(m)'
    BY <1>9 DEF Release, result, DeepDiveTypeOK
  <2> QED
    BY <2>1, <2>2, <2>3
<1>10. CASE Conclude
  BY <1>10 DEF Conclude, Concluded, result
<1>11. CASE EndContext
  BY <1>11 DEF EndContext, result
<1>12. CASE UNCHANGED vars
  BY <1>12 DEF vars
<1> QED
  BY <1>1, <1>2, <1>3, <1>4, <1>5, <1>6, <1>7, <1>8, <1>9, <1>10, <1>11, <1>12
     DEF Next, SectionStep

\* The inductive invariant of the module.
THEOREM DeepDiveInvariant == Spec => [](DeepDiveTypeOK /\ AccountInv)
<1>1. Init => AccountInv
  BY DEF Init, AccountInv, CallInv, Recorded, AllDone
<1> QED
  BY <1>1, InitTypes, StepTypes, StepAccount, PTL DEF Spec

\* Every state has its types, and the channel of slots counts the sections that
\* hold one.
THEOREM DeepDiveTypeCorrect == Spec => []DeepDiveTypeOK
BY DeepDiveInvariant, PTL

\* However many sections there are, at most MaxSlots requests of one call are at
\* the Data API.
THEOREM InFlightAlwaysBounded == Spec => []InFlightBounded
<1>1. DeepDiveTypeOK => InFlightBounded
  <2> SUFFICES ASSUME DeepDiveTypeOK PROVE InFlightBounded
    OBVIOUS
  <2> DEFINE F == {n \in Names : section[n] = "fetch"}
  <2>1. F \subseteq Holding
    BY DEF Holding
  <2>2. Cardinality(F) <= Cardinality(Holding) /\ Cardinality(F) \in Nat
    BY <2>1, HoldingFinite, FS_Subset, FS_CardinalityType
  <2>3. Cardinality(Holding) \in 0 .. MaxSlots /\ MaxSlots \in Nat
    BY DeepDiveConstantsOK DEF DeepDiveTypeOK
  <2>4. Cardinality(F) <= MaxSlots
    BY <2>2, <2>3
  <2> QED
    BY <2>4 DEF InFlightBounded
<1> QED
  BY <1>1, DeepDiveTypeCorrect, PTL

\* A result accounts for every section exactly once and logs exactly the errors.
THEOREM AlwaysAccountedFor == Spec => []AllAccountedFor
<1>1. AccountInv => AllAccountedFor
  BY DEF AccountInv, CallInv, Recorded, AllDone, AllAccountedFor
<1> QED
  BY <1>1, DeepDiveInvariant, PTL

\* A result without any section is never the work of a cancellation.
THEOREM EmptyIsAlwaysBackends == Spec => []EmptyIsBackends
<1>1. AccountInv => EmptyIsBackends
  BY DEF AccountInv, CallInv, Recorded, EmptyIsBackends
<1> QED
  BY <1>1, DeepDiveInvariant, PTL
=============================================================================
