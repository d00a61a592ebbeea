---------------------------- MODULE QuotaPerKey ----------------------------
(***************************************************************************)
(* What the rate limiter promises, without its map, its sweeping and its   *)
(* capacity: each key has at most one open window, a window admits Max     *)
(* requests, and an open window refuses only when its quota is spent.      *)
(***************************************************************************)
EXTENDS Integers

CONSTANTS Keys, Window, Max

VARIABLES used,    \* requests admitted in the key's open window, 0 without one
          since,   \* when that window opened (0 without one)
          clock,
          answer   \* the last request and its verdict

NoAnswer == [key |-> {}, ok |-> FALSE]

Init ==
  /\ used = [k \in Keys |-> 0] /\ since = [k \in Keys |-> 0]
  /\ clock = 0 /\ answer = NoAnswer

\* Without an open window a request opens one, or finds the limiter full.
Open(k) ==
  /\ used[k] = 0
  /\ used' = [used EXCEPT ![k] = 1] /\ since' = [since EXCEPT ![k] = clock]
  /\ answer' = [key |-> k, ok |-> TRUE] /\ UNCHANGED clock

Full(k) ==
  /\ used[k] = 0
  /\ answer' = [key |-> k, ok |-> FALSE] /\ UNCHANGED <<used, since, clock>>

Admit(k) ==
  /\ used[k] \in 1 .. Max - 1
  /\ used' = [used EXCEPT ![k] = @ + 1]
  /\ answer' = [key |-> k, ok |-> TRUE] /\ UNCHANGED <<since, clock>>

Refuse(k) ==
  /\ used[k] = Max
  /\ answer' = [key |-> k, ok |-> FALSE] /\ UNCHANGED <<used, since, clock>>

\* Windows close by themselves, Window after they opened.
Pass ==
  LET open == {k \in Keys : used[k] > 0 /\ clock + 1 - since[k] < Window} IN
    /\ clock' = clock + 1
    /\ used' = [k \in Keys |-> IF k \in open THEN used[k] ELSE 0]
    /\ since' = [k \in Keys |-> IF k \in open THEN since[k] ELSE 0]
    /\ UNCHANGED answer

Next == (\E k \in Keys : Open(k) \/ Full(k) \/ Admit(k) \/ Refuse(k)) \/ Pass

QuotaSpec == Init /\ [][Next]_<<used, since, clock, answer>>
=============================================================================
