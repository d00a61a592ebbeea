------------------------------ MODULE DeepDive ------------------------------
(***************************************************************************)
(* AnalyzeStockDeepDive of stock/tools_deep_dive.go: the profile is fetched*)
(* first, then one goroutine per section fetches its part through a        *)
(* semaphore of slots, and the call returns what the goroutines put into   *)
(* the maps of the result, or an error.  The context ends at the deadline  *)
(* or when the MCP client goes away; the Data API may never answer.        *)
(***************************************************************************)
EXTENDS Integers, FiniteSets

CONSTANTS
  Names,     \* the sections
  MaxSlots   \* capacity of the channel `slots`

ASSUME DeepDiveConstantsOK == IsFiniteSet(Names) /\ MaxSlots \in Nat \ {0}

VARIABLES
  call,      \* "profile", "fanout", or how the call returned
  ctxDone,   \* ctx.Done() is closed
  slots,     \* tokens in the channel
  section,   \* what each section's goroutine is doing
  answer,    \* what getFound returned to it
  found,     \* keys of result.Sections, "profile" aside
  warnings,  \* result.Warnings, "" where the map has no entry
  failures   \* keys of result.failures

vars == <<call, ctxDone, slots, section, answer, found, warnings, failures>>
result == <<found, warnings, failures>>

Returned == {"result", "not found", "failed", "cancelled"}
Answers == {"none", "found", "missing", "error"}

Holding == {n \in Names : section[n] \in {"fetch", "settle", "release"}}

DeepDiveTypeOK ==
  /\ call \in {"profile", "fanout"} \cup Returned
  /\ ctxDone \in BOOLEAN
  /\ slots \in 0 .. MaxSlots /\ slots = Cardinality(Holding)
  /\ section \in [Names -> {"idle", "wait", "fetch", "settle", "release", "done"}]
  /\ answer \in [Names -> Answers]
  /\ found \subseteq Names /\ failures \subseteq Names
  /\ warnings \in [Names -> {"", "cancelled", "unavailable", "no data"}]

-----------------------------------------------------------------------------
\* StockProfile: an error or an unknown stock ends the call before the fan-out.
ProfileFails ==
  /\ call = "profile"
  /\ call' \in {"failed", "not found"}
  /\ UNCHANGED <<ctxDone, slots, section, answer, result>>

ProfileInterrupted ==
  /\ call = "profile" /\ ctxDone
  /\ call' = "failed"
  /\ UNCHANGED <<ctxDone, slots, section, answer, result>>

FanOut ==
  /\ call = "profile"
  /\ call' = "fanout"
  /\ section' = [n \in Names |-> "wait"]
  /\ UNCHANGED <<ctxDone, slots, answer, result>>

-----------------------------------------------------------------------------
(* The goroutine of section n                                              *)

SlotFree_OneMore == slots <= MaxSlots
SlotFree == slots < MaxSlots

\* The select between a slot and ctx.Done takes either when both are ready.
Acquire(n) ==
  /\ section[n] = "wait" /\ SlotFree
  /\ slots' = slots + 1
  /\ section' = [section EXCEPT ![n] = "fetch"]
  /\ UNCHANGED <<call, ctxDone, answer, result>>

SlotsAfterGivingUp_Released == slots - 1
SlotsAfterGivingUp == slots

GiveUp(n) ==
  /\ section[n] = "wait" /\ ctxDone
  /\ slots' = SlotsAfterGivingUp
  /\ warnings' = [warnings EXCEPT ![n] = "cancelled"]
  /\ section' = [section EXCEPT ![n] = "done"]
  /\ UNCHANGED <<call, ctxDone, answer, found, failures>>

\* getFound returns: data, a 404, or an error of the Data API, the network or
\* the HTTP client's own timeout.
Fetched(n) ==
  /\ section[n] = "fetch"
  /\ \E a \in Answers \ {"none"} : answer' = [answer EXCEPT ![n] = a]
  /\ section' = [section EXCEPT ![n] = "settle"]
  /\ UNCHANGED <<call, ctxDone, slots, result>>

Interruptible_Never == FALSE
\* The request carries ctx.
Interruptible == ctxDone

Interrupted(n) ==
  /\ section[n] = "fetch" /\ Interruptible
  /\ answer' = [answer EXCEPT ![n] = "error"]
  /\ section' = [section EXCEPT ![n] = "settle"]
  /\ UNCHANGED <<call, ctxDone, slots, result>>

ErrorWarning == IF ctxDone THEN "cancelled" ELSE "unavailable"
Warning(n) ==
  IF answer[n] = "error" THEN ErrorWarning
  ELSE IF answer[n] = "missing" THEN "no data" ELSE ""

\* Under mu, with ctx.Err() read inside.
Settle(n) ==
  /\ section[n] = "settle"
  /\ warnings' = [warnings EXCEPT ![n] = Warning(n)]
  /\ found' = IF answer[n] = "found" THEN found \cup {n} ELSE found
  /\ failures' = IF answer[n] = "error" THEN failures \cup {n} ELSE failures
  /\ section' = [section EXCEPT ![n] = "release"]
  /\ UNCHANGED <<call, ctxDone, slots, answer>>

\* The deferred receive from slots runs after mu is unlocked.
Release(n) ==
  /\ section[n] = "release"
  /\ slots' = slots - 1
  /\ section' = [section EXCEPT ![n] = "done"]
  /\ UNCHANGED <<call, ctxDone, answer, result>>

-----------------------------------------------------------------------------
AllDone_Any == \E n \in Names : section[n] = "done"
AllDone == \A n \in Names : section[n] = "done"

Concluded_AlwaysResult == "result"
\* A context that ended is an error only when no section succeeded.
Concluded == IF ctxDone /\ found = {} THEN "cancelled" ELSE "result"

\* wg.Wait returns, and the context is looked at once more.
Conclude ==
  /\ call = "fanout" /\ AllDone
  /\ call' = Concluded
  /\ UNCHANGED <<ctxDone, slots, section, answer, result>>

\* The deadline passes or the client goes away.
EndContext ==
  /\ ~ctxDone /\ call \notin Returned
  /\ ctxDone' = TRUE
  /\ UNCHANGED <<call, slots, section, answer, result>>

Init ==
  /\ call = "profile" /\ ctxDone = FALSE /\ slots = 0
  /\ section = [n \in Names |-> "idle"]
  /\ answer = [n \in Names |-> "none"]
  /\ found = {} /\ failures = {}
  /\ warnings = [n \in Names |-> ""]

SectionStep(n) ==
  Acquire(n) \/ GiveUp(n) \/ Fetched(n) \/ Interrupted(n) \/ Settle(n) \/ Release(n)

Next ==
  \/ ProfileFails \/ ProfileInterrupted \/ FanOut
  \/ \E n \in Names : SectionStep(n)
  \/ Conclude \/ EndContext

Spec == Init /\ [][Next]_vars

\* context.WithTimeout fires, the HTTP client returns when its context ends, and
\* the scheduler runs every goroutine that can run.  The Data API owes nothing:
\* neither Fetched nor the profile's answer is fair.
FairSpec ==
  /\ Spec
  /\ WF_vars(EndContext) /\ WF_vars(ProfileInterrupted) /\ WF_vars(Conclude)
  /\ \A n \in Names :
       /\ WF_vars(GiveUp(n)) /\ WF_vars(Interrupted(n))
       /\ WF_vars(Settle(n)) /\ WF_vars(Release(n))

-----------------------------------------------------------------------------
\* No more than MaxSlots requests of one call are at the Data API, whatever the
\* order in which sections take, keep and give up slots ("at most four concurrent
\* requests", the comment on AnalyzeStockDeepDive).
InFlightBounded == Cardinality({n \in Names : section[n] = "fetch"}) <= MaxSlots

\* A result accounts for every section exactly once, as data or as a warning, and
\* exactly the sections with a real error are handed to the log; a 404 is none.
AllAccountedFor ==
  call = "result" =>
    \A n \in Names :
      /\ n \in found <=> warnings[n] = ""
      /\ n \in failures <=> answer[n] = "error"

\* A result without any section is never the work of a cancellation: each warning
\* in it comes from the Data API ("an error rather than an empty result that looks
\* like a success", the comment before the final check).
EmptyIsBackends ==
  (call = "result" /\ found = {}) => \A n \in Names : warnings[n] # "cancelled"

\* The call returns although the Data API may never answer.
CallReturns == <>(call \in Returned)
=============================================================================
