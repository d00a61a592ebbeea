--------------------------- MODULE AdminSessions ---------------------------
(***************************************************************************)
(* The administrator's session tickets of web/admin_session.go and the     *)
(* middleware that accepts them: requests check their credential, and some *)
(* time later their handler issues a ticket (login), revokes the one it    *)
(* came with (logout) or does something else.  The map holds hashes; a     *)
(* token stands for its own.  Every method holds the mutex for one step,   *)
(* but issue reads the clock before it waits for it.                       *)
(***************************************************************************)
EXTENDS Integers, FiniteSets

CONSTANTS
  Requests,     \* concurrent administrative requests
  Tokens,       \* tickets that crypto/rand can draw
  NoToken,      \* an empty cookie
  TTL,          \* adminSessionTTL
  MaxSessions,  \* maxAdminSessions
  MaxStall,     \* how long a login may wait for the mutex
  MaxClock      \* bound

ASSUME SessionConstantsOK ==
  /\ NoToken \notin Tokens
  /\ TTL \in Nat \ {0} /\ MaxSessions \in Nat \ {0}
  /\ MaxStall \in Nat /\ MaxClock \in Nat

VARIABLES
  entries,  \* adminSessions.entries: expiry of each ticket, None without one
  request,  \* what each request is doing
  clock,
  given,    \* history: the expiry each ticket was issued with
  out       \* history: tickets whose logout has answered

vars == <<entries, request, clock, given, out>>

None == -1
Instants == 0 .. MaxClock
Expiries == [Tokens -> (0 .. MaxClock + TTL) \cup {None}]
Idle == [pc |-> "idle", token |-> NoToken, now |-> 0, late |-> FALSE]

Held == {t \in Tokens : entries[t] # None}

SessionTypeOK ==
  /\ entries \in Expiries /\ Cardinality(Held) <= MaxSessions
  /\ request \in [Requests -> [pc : {"idle", "check", "handle", "issue"},
                               token : Tokens \cup {NoToken},
                               now : Instants, late : BOOLEAN]]
  /\ clock \in Instants
  /\ given \in Expiries
  /\ out \in SUBSET Tokens

-----------------------------------------------------------------------------
(* requireAdminToken                                                       *)

\* A request arrives with a ticket that was issued in its cookie, with
\* MCP_ADMIN_TOKEN as its bearer, or with both: then the bearer admits it and the
\* cookie is not looked at, but stays with the request for logout.  `late` is
\* history: it came by its ticket alone, whose logout had been answered.
Arrive(r, t, bearer) ==
  /\ request[r].pc = "idle"
  /\ bearer \/ t # NoToken
  /\ t # NoToken => given[t] # None
  /\ request' = [request EXCEPT ![r] = [pc |-> IF bearer THEN "handle" ELSE "check",
                                        token |-> t, now |-> 0,
                                        late |-> ~bearer /\ t \in out]]
  /\ UNCHANGED <<entries, clock, given, out>>

Expired(t) == clock > entries[t]

\* valid: an expired ticket is removed on the way.
Check(r) ==
  LET t == request[r].token IN
    /\ request[r].pc = "check"
    /\ IF entries[t] = None \/ Expired(t)
         THEN /\ request' = [request EXCEPT ![r] = Idle]
              /\ entries' = [entries EXCEPT ![t] = None]
         ELSE /\ request' = [request EXCEPT ![r].pc = "handle"]
              /\ UNCHANGED entries
    /\ UNCHANGED <<clock, given, out>>

-----------------------------------------------------------------------------
(* Handlers                                                                *)

\* issue draws a ticket and reads the clock.
Login(r) ==
  /\ request[r].pc = "handle"
  /\ request' = [request EXCEPT ![r].pc = "issue", ![r].now = clock]
  /\ UNCHANGED <<entries, clock, given, out>>

\* The tickets left after those that expired before `now` are deleted.
Purged(now) ==
  [t \in Tokens |-> IF now > entries[t] THEN None ELSE entries[t]]

Oldest_Latest(e) ==
  {t \in Tokens : e[t] # None /\ \A u \in Tokens : e[u] # None => e[u] <= e[t]}
Oldest(e) ==
  {t \in Tokens : e[t] # None /\ \A u \in Tokens : e[u] # None => e[u] >= e[t]}

IsFull_OneMore(e) == Cardinality({t \in Tokens : e[t] # None}) > MaxSessions
IsFull(e) == Cardinality({t \in Tokens : e[t] # None}) >= MaxSessions

\* A full map loses the ticket that expires first; among equals, the map's
\* iteration order decides.
MakeRoom(e) ==
  IF IsFull(e) THEN {[e EXCEPT ![t] = None] : t \in Oldest(e)} ELSE {e}

Issue(r, new) ==
  LET expiry == request[r].now + TTL IN
    /\ request[r].pc = "issue" /\ given[new] = None
    /\ \E e \in MakeRoom(Purged(request[r].now)) :
         entries' = [e EXCEPT ![new] = expiry]
    /\ given' = [given EXCEPT ![new] = expiry]
    /\ request' = [request EXCEPT ![r] = Idle]
    /\ UNCHANGED <<clock, out>>

AfterLogout_Expires(t) == [entries EXCEPT ![t] = IF @ = None THEN None ELSE clock]
AfterLogout(t) == [entries EXCEPT ![t] = None]

\* revoke takes the cookie's ticket, whatever admitted the request, and does
\* nothing without one.
Logout(r) ==
  LET t == request[r].token IN
    /\ request[r].pc = "handle"
    /\ entries' = IF t = NoToken THEN entries ELSE AfterLogout(t)
    /\ out' = out \cup ({t} \ {NoToken})
    /\ request' = [request EXCEPT ![r] = Idle]
    /\ UNCHANGED <<clock, given>>

\* Any other handler leaves the tickets alone.
Handle(r) ==
  /\ request[r].pc = "handle"
  /\ request' = [request EXCEPT ![r] = Idle]
  /\ UNCHANGED <<entries, clock, given, out>>

Tick ==
  /\ clock < MaxClock
  /\ \A r \in Requests :
       request[r].pc = "issue" => clock < request[r].now + MaxStall
  /\ clock' = clock + 1
  /\ UNCHANGED <<entries, request, given, out>>

Init ==
  /\ entries = [t \in Tokens |-> None] /\ given = [t \in Tokens |-> None]
  /\ request = [r \in Requests |-> Idle]
  /\ clock = 0 /\ out = {}

Next ==
  \/ \E r \in Requests :
       \/ \E t \in Tokens \cup {NoToken}, bearer \in BOOLEAN : Arrive(r, t, bearer)
       \/ Check(r) \/ Login(r) \/ (\E t \in Tokens : Issue(r, t))
       \/ Logout(r) \/ Handle(r)
  \/ Tick

Spec == Init /\ [][Next]_vars

-----------------------------------------------------------------------------
\* A request that comes by its ticket alone after the ticket's logout was answered
\* is not served, whatever other logins and checks were under way ("revocable: logging out ends
\* it", the comment on adminSessions).
LoggedOutNotServed ==
  \A r \in Requests : request[r].pc \in {"handle", "issue"} => ~request[r].late

\* A ticket that has neither expired nor been revoked disappears only to make
\* room, and then MaxSessions - 1 others expire no earlier than it: a burst of
\* fewer logins throws nobody out, even when logins overtake each other at the
\* mutex ("at most the earliest to expire is discarded", the comment in issue).
SurvivesFewLogins ==
  \A t \in Tokens :
    (given[t] # None /\ clock <= given[t] /\ t \notin out /\ entries[t] = None)
      => Cardinality({u \in Tokens \ {t} : given[u] >= given[t]}) >= MaxSessions - 1
=============================================================================
