------------------------- MODULE AdminSessionProofs -------------------------
(***************************************************************************)
(* Proofs about AdminSessions: types and the bound on the map, that a      *)
(* logout is final, and whom an eviction may throw out.                    *)
(***************************************************************************)
EXTENDS AdminSessions, FiniteSetTheorems, TLAPS

TicketsOf(e) == {t \in Tokens : e[t] # None}
Issued == TicketsOf(given)
RequestShape ==
  [pc : {"idle", "check", "handle", "issue"}, token : Tokens \cup {NoToken},
   now : Instants, late : BOOLEAN]

\* What a request carries agrees with the tickets that were issued and logged out.
RequestKnows(q) ==
  /\ q \in RequestShape
  /\ q.now <= clock
  /\ q.token # NoToken => given[q.token] # None
  /\ q.pc = "check" => q.token # NoToken
  /\ q.late => q.token \in out
  /\ q.pc \in {"handle", "issue"} => ~q.late

\* The inductive invariant of the first two theorems.
TicketsKnown ==
  /\ entries \in Expiries /\ given \in Expiries
  /\ clock \in Instants /\ out \in SUBSET Tokens
  /\ \A t \in Tokens : entries[t] # None => entries[t] = given[t]
  /\ \A t \in out : given[t] # None /\ entries[t] = None
  /\ IsFiniteSet(Issued)
  /\ Cardinality(Held) <= MaxSessions
  /\ request = [r \in Requests |-> request[r]]
  /\ \A r \in Requests : RequestKnows(request[r])

-----------------------------------------------------------------------------
LEMMA HeldIsIssued ==
  ASSUME TicketsKnown
  PROVE  /\ Held \subseteq Issued /\ IsFiniteSet(Held) /\ Cardinality(Held) \in Nat
         /\ Cardinality(Issued) \in Nat
  <1>1. Held \subseteq Issued  BY DEF TicketsKnown, Held, Issued, TicketsOf
  <1>2. IsFiniteSet(Held)  BY <1>1, FS_Subset DEF TicketsKnown
  <1> QED  BY <1>1, <1>2, FS_CardinalityType DEF TicketsKnown

\* Fewer tickets never count for more.
LEMMA FewerHeld ==
  ASSUME TicketsKnown, NEW e, TicketsOf(e) \subseteq Held
  PROVE  /\ IsFiniteSet(TicketsOf(e)) /\ Cardinality(TicketsOf(e)) \in Nat
         /\ Cardinality(TicketsOf(e)) <= MaxSessions
  <1>1. IsFiniteSet(TicketsOf(e))  BY HeldIsIssued, FS_Subset
  <1>2. Cardinality(TicketsOf(e)) \in Nat /\ Cardinality(TicketsOf(e)) <= Cardinality(Held)
    BY <1>1, HeldIsIssued, FS_CardinalityType, FS_Subset
  <1>3. Cardinality(Held) \in Nat /\ Cardinality(Held) <= MaxSessions /\ MaxSessions \in Nat
    BY HeldIsIssued, SessionConstantsOK DEF TicketsKnown
  <1> QED  BY <1>1, <1>2, <1>3

\* What issue leaves of the map before it adds its ticket: there is room, and who is
\* gone had expired or was the first to expire of a full map.
LEMMA RoomMade ==
  ASSUME TicketsKnown, NEW now \in Instants, NEW e \in MakeRoom(Purged(now))
  PROVE  /\ e \in Expiries
         /\ \A t \in Tokens : e[t] = entries[t] \/ e[t] = None
         /\ IsFiniteSet(TicketsOf(e)) /\ Cardinality(TicketsOf(e)) \in Nat
         /\ Cardinality(TicketsOf(e)) <= MaxSessions - 1
         /\ \A t \in Tokens : entries[t] # None /\ e[t] = None =>
              \/ now > entries[t]
              \/ /\ Cardinality(TicketsOf(e)) >= MaxSessions - 1
                 /\ \A u \in TicketsOf(e) : u # t /\ entries[u] >= entries[t]
  <1> DEFINE p == Purged(now)
  <1>1. /\ p \in Expiries
        /\ \A t \in Tokens : p[t] = entries[t] \/ p[t] = None
        /\ \A t \in Tokens : entries[t] # None /\ p[t] = None => now > entries[t]
    BY DEF Purged, Expiries, TicketsKnown
  <1>2. TicketsOf(p) \subseteq Held  BY <1>1 DEF TicketsOf, Held
  <1>3. /\ IsFiniteSet(TicketsOf(p)) /\ Cardinality(TicketsOf(p)) \in Nat
        /\ Cardinality(TicketsOf(p)) <= MaxSessions
    BY <1>2, FewerHeld
  <1>4. MaxSessions \in Nat \ {0}  BY SessionConstantsOK
  <1>5. IsFull(p) <=> Cardinality(TicketsOf(p)) >= MaxSessions  BY DEF IsFull, TicketsOf
  <1> HIDE DEF p
  <1>6. CASE ~IsFull(p)
    <2>1. e = p  BY <1>6 DEF MakeRoom, p
    <2>2. Cardinality(TicketsOf(p)) <= MaxSessions - 1  BY <1>3, <1>4, <1>5, <1>6
    <2> QED  BY <1>1, <1>3, <2>1, <2>2
  <1>7. CASE IsFull(p)
    <2>1. PICK first \in Oldest(p) : e = [p EXCEPT ![first] = None]
      BY <1>7 DEF MakeRoom, p
    <2>2. /\ first \in Tokens /\ first \in TicketsOf(p)
          /\ \A u \in TicketsOf(p) : p[u] >= p[first]
      BY DEF Oldest, TicketsOf
    <2>3. /\ e \in Expiries /\ e[first] = None
          /\ \A t \in Tokens \ {first} : e[t] = p[t]
      BY <1>1, <2>1, <2>2 DEF Expiries
    <2>4. TicketsOf(e) = TicketsOf(p) \ {first}  BY <2>2, <2>3 DEF TicketsOf
    <2>5. /\ IsFiniteSet(TicketsOf(e))
          /\ Cardinality(TicketsOf(e)) = Cardinality(TicketsOf(p)) - 1
      BY <1>3, <2>2, <2>4, FS_RemoveElement
    <2>6. Cardinality(TicketsOf(e)) = MaxSessions - 1  BY <1>3, <1>4, <1>5, <1>7, <2>5
    <2>7. \A u \in TicketsOf(p) : p[u] = entries[u]  BY <1>1 DEF TicketsOf
    <2>8. ASSUME NEW t \in Tokens, entries[t] # None, e[t] = None
          PROVE  \/ now > entries[t]
                 \/ \A u \in TicketsOf(e) : u # t /\ entries[u] >= entries[t]
      <3>1. CASE t = first  BY <2>2, <2>4, <2>7, <3>1
      <3>2. CASE t # first  BY <1>1, <2>3, <2>8, <3>2
      <3> QED  BY <3>1, <3>2
    <2>9. \A t \in Tokens : e[t] = entries[t] \/ e[t] = None  BY <1>1, <2>3
    <2>10. MaxSessions - 1 \in Nat /\ MaxSessions - 1 >= MaxSessions - 1  BY <1>4
    <2> QED  BY <2>3, <2>5, <2>6, <2>8, <2>9, <2>10
  <1> QED  BY <1>6, <1>7

-----------------------------------------------------------------------------
LEMMA InitKnown == Init => TicketsKnown
  <1> SUFFICES ASSUME Init  PROVE TicketsKnown  OBVIOUS
  <1>1. Held = {} /\ Issued = {}  BY DEF Init, Held, Issued, TicketsOf
  <1>2. IsFiniteSet({}) /\ Cardinality({}) = 0  BY FS_EmptySet
  <1>3. 0 \in Instants /\ 0 <= MaxSessions  BY SessionConstantsOK DEF Instants
  <1>4. Idle \in RequestShape /\ Idle.now <= 0 /\ Idle.token = NoToken /\ ~Idle.late
        /\ Idle.pc = "idle"
    BY <1>3 DEF Idle, RequestShape
  <1>5. \A r \in Requests : RequestKnows(request[r])  BY <1>4 DEF Init, RequestKnows
  <1> QED  BY <1>1, <1>2, <1>3, <1>5 DEF Init, TicketsKnown, Expiries

\* A request steps while the tickets, if they change at all, only lose entries.
LEMMA FewerTickets ==
  ASSUME TicketsKnown, NEW r \in Requests, NEW q, request' = [request EXCEPT ![r] = q],
         entries' \in Expiries, \A t \in Tokens : entries'[t] \in {entries[t], None},
         UNCHANGED <<clock, given>>, out \subseteq out', out' \in SUBSET Tokens,
         \A t \in out' : given[t] # None /\ entries'[t] = None,
         RequestKnows(q)'
  PROVE  TicketsKnown'
  <1>1. TicketsOf(entries') \subseteq Held  BY DEF TicketsOf, Held
  <1>2. Cardinality(Held') <= MaxSessions
    <2>1. Held' = TicketsOf(entries')  BY DEF Held, TicketsOf
    <2> QED  BY <1>1, <2>1, FewerHeld
  <1>3. \A s \in Requests \ {r} : request'[s] = request[s]  BY DEF TicketsKnown
  <1>4. \A s \in Requests : RequestKnows(request[s])' 
    <2>1. request'[r] = q  BY DEF TicketsKnown
    <2>2. ASSUME NEW s \in Requests \ {r}  PROVE RequestKnows(request[s])'
      BY <1>3 DEF TicketsKnown, RequestKnows
    <2> QED  BY <2>1, <2>2 DEF RequestKnows
  <1>5. Issued' = Issued  BY DEF Issued, TicketsOf
  <1> QED  BY <1>2, <1>4, <1>5 DEF TicketsKnown

LEMMA StepsKnown == TicketsKnown /\ [Next]_vars => TicketsKnown'
  <1> SUFFICES ASSUME TicketsKnown, [Next]_vars  PROVE TicketsKnown'  OBVIOUS
  <1>1. \A r \in Requests : RequestKnows(request[r])  BY DEF TicketsKnown
  <1>2. \A t \in Tokens : entries[t] \in {entries[t], None}  OBVIOUS
  <1>3. /\ entries \in Expiries /\ out \in SUBSET Tokens /\ clock \in Instants
        /\ \A t \in out : given[t] # None /\ entries[t] = None
    BY DEF TicketsKnown
  <1>4. NoToken \notin out /\ 0 \in Instants /\ 0 <= clock /\ NoToken \notin Tokens
    BY <1>3, SessionConstantsOK DEF Instants
  <1>5. RequestKnows(Idle)
    BY <1>4 DEF RequestKnows, RequestShape, Idle
  <1>6. ASSUME NEW r \in Requests, NEW t \in Tokens \cup {NoToken},
               NEW bearer \in BOOLEAN, Arrive(r, t, bearer)
        PROVE  TicketsKnown'
    <2>0. PICK q : q = [pc |-> IF bearer THEN "handle" ELSE "check",
                        token |-> t, now |-> 0, late |-> ~bearer /\ t \in out]
      OBVIOUS
    <2>1. RequestKnows(q)
      <3>1. /\ q.pc = (IF bearer THEN "handle" ELSE "check")
            /\ q.token = t /\ q.now = 0
            /\ q.late <=> (~bearer /\ t \in out)
        BY <2>0
      <3>2. q \in RequestShape
        <4>1. (~bearer /\ t \in out) \in BOOLEAN /\ t \in Tokens \cup {NoToken}  OBVIOUS
        <4>2. (IF bearer THEN "handle" ELSE "check") \in {"handle", "check"}  OBVIOUS
        <4> QED  BY <1>4, <2>0, <4>1, <4>2 DEF RequestShape
      <3>3. (t # NoToken => given[t] # None) /\ (bearer \/ t # NoToken)
        BY <1>6 DEF Arrive
      <3> QED  BY <1>4, <3>1, <3>2, <3>3 DEF RequestKnows
    <2>2. RequestKnows(q)'  BY <1>6, <2>1 DEF Arrive, RequestKnows
    <2>3. request' = [request EXCEPT ![r] = q]  BY <1>6, <2>0 DEF Arrive
    <2> QED  BY <1>2, <1>3, <1>6, <2>2, <2>3, FewerTickets DEF Arrive
  <1>7. ASSUME NEW r \in Requests, Check(r)  PROVE TicketsKnown'
    <2>1. request[r].pc = "check" /\ request[r].token \in Tokens
      BY <1>1, <1>7 DEF Check, RequestKnows, RequestShape
    <2> DEFINE t == request[r].token
    <2>2. UNCHANGED <<clock, given, out>>  BY <1>7 DEF Check
    <2>3. CASE entries[t] = None \/ Expired(t)
      <3>1. request' = [request EXCEPT ![r] = Idle] /\ entries' = [entries EXCEPT ![t] = None]
        BY <1>7, <2>3 DEF Check
      <3>2. entries' \in Expiries /\ \A u \in Tokens : entries'[u] \in {entries[u], None}
        BY <1>3, <2>1, <3>1 DEF Expiries
      <3>3. RequestKnows(Idle)'  BY <1>5, <2>2 DEF RequestKnows
      <3>4. \A u \in out' : given[u] # None /\ entries'[u] = None  BY <1>3, <2>2, <3>2
      <3> QED  BY <1>3, <2>2, <3>1, <3>2, <3>3, <3>4, FewerTickets
    <2>4. CASE ~(entries[t] = None \/ Expired(t))
      <3>0. PICK q : q = [request[r] EXCEPT !.pc = "handle"]  OBVIOUS
      <3>1. request' = [request EXCEPT ![r] = q] /\ entries' = entries
        BY <1>7, <2>4, <3>0 DEF Check, TicketsKnown
      <3>2. ~request[r].late  BY <1>1, <1>3, <2>4 DEF RequestKnows
      <3>3. RequestKnows(q)  BY <1>1, <2>1, <3>0, <3>2 DEF RequestKnows, RequestShape
      <3>4. RequestKnows(q)'  BY <2>2, <3>1, <3>3 DEF RequestKnows
      <3> QED  BY <1>2, <1>3, <2>2, <3>1, <3>4, FewerTickets
    <2> QED  BY <2>3, <2>4
  <1>8. ASSUME NEW r \in Requests, Login(r)  PROVE TicketsKnown'
    <2>0. PICK q : q = [request[r] EXCEPT !.pc = "issue", !.now = clock]  OBVIOUS
    <2>1. request' = [request EXCEPT ![r] = q] /\ UNCHANGED <<entries, clock, given, out>>
      BY <1>8, <2>0 DEF Login, TicketsKnown
    <2>2. RequestKnows(q)
      <3>1. RequestKnows(request[r]) /\ request[r].pc = "handle"  BY <1>1, <1>8 DEF Login
      <3>2. q \in RequestShape /\ q.pc = "issue" /\ q.now = clock
            /\ q.token = request[r].token /\ q.late = request[r].late
        BY <1>3, <2>0, <3>1 DEF RequestKnows, RequestShape
      <3>3. clock <= clock  BY <1>3 DEF Instants
      <3> QED  BY <3>1, <3>2, <3>3 DEF RequestKnows
    <2>3. RequestKnows(q)'  BY <2>1, <2>2 DEF RequestKnows
    <2> QED  BY <1>2, <1>3, <2>1, <2>3, FewerTickets
  <1>9. ASSUME NEW r \in Requests, Handle(r)  PROVE TicketsKnown'
    <2>1. RequestKnows(Idle)'  BY <1>5, <1>9 DEF Handle, RequestKnows
    <2> QED  BY <1>2, <1>3, <1>9, <2>1, FewerTickets DEF Handle
  <1>10. ASSUME NEW r \in Requests, Logout(r)  PROVE TicketsKnown'
    <2>0. PICK t : t = request[r].token  OBVIOUS
    <2>1. /\ t \in Tokens \cup {NoToken}
          /\ t # NoToken => given[t] # None
          /\ request' = [request EXCEPT ![r] = Idle] /\ UNCHANGED <<clock, given>>
          /\ out' = out \cup ({t} \ {NoToken})
          /\ entries' = IF t = NoToken THEN entries ELSE [entries EXCEPT ![t] = None]
      BY <1>1, <1>10, <2>0 DEF Logout, AfterLogout, RequestKnows, RequestShape
    <2>2. entries' \in Expiries /\ \A u \in Tokens : entries'[u] \in {entries[u], None}
      BY <1>3, <2>1 DEF Expiries
    <2>3. out \subseteq out' /\ out' \in SUBSET Tokens  BY <1>3, <2>1
    <2>4. \A u \in out' : given[u] # None /\ entries'[u] = None
      <3>1. \A u \in out : entries'[u] = None  BY <1>3, <2>2
      <3>2. t # NoToken => entries'[t] = None  BY <1>3, <2>1 DEF Expiries
      <3> QED  BY <1>3, <2>1, <3>1, <3>2
    <2>5. RequestKnows(Idle)'
      BY <1>5, <2>1 DEF RequestKnows, Idle
    <2> QED  BY <2>1, <2>2, <2>3, <2>4, <2>5, FewerTickets
  <1>11. ASSUME NEW r \in Requests, NEW new \in Tokens, Issue(r, new)  PROVE TicketsKnown'
    <2> DEFINE now == request[r].now
    <2>1. now \in Instants  BY <1>1 DEF RequestKnows, RequestShape
    <2>2. PICK e \in MakeRoom(Purged(now)) : entries' = [e EXCEPT ![new] = now + TTL]
      BY <1>11 DEF Issue
    <2>3. /\ given[new] = None /\ given' = [given EXCEPT ![new] = now + TTL]
          /\ request' = [request EXCEPT ![r] = Idle] /\ UNCHANGED <<clock, out>>
      BY <1>11 DEF Issue
    <2> HIDE DEF now
    <2>4. /\ e \in Expiries /\ \A t \in Tokens : e[t] = entries[t] \/ e[t] = None
          /\ IsFiniteSet(TicketsOf(e)) /\ Cardinality(TicketsOf(e)) \in Nat
          /\ Cardinality(TicketsOf(e)) <= MaxSessions - 1
      BY <2>1, <2>2, RoomMade
    <2>5. now + TTL \in 0 .. MaxClock + TTL /\ now + TTL # None
      BY <2>1, SessionConstantsOK DEF Instants, None
    <2>6. /\ entries' \in Expiries /\ given' \in Expiries
          /\ entries'[new] = now + TTL /\ given'[new] = now + TTL
          /\ \A t \in Tokens \ {new} : entries'[t] = e[t] /\ given'[t] = given[t]
      BY <2>2, <2>3, <2>4, <2>5 DEF TicketsKnown, Expiries
    <2>7. \A t \in Tokens : entries'[t] # None => entries'[t] = given'[t]
      BY <2>4, <2>6 DEF TicketsKnown
    <2>8. \A t \in out : given'[t] # None /\ entries'[t] = None
      BY <1>3, <2>3, <2>4, <2>6
    <2>9. Issued' = Issued \cup {new}  BY <2>5, <2>6 DEF Issued, TicketsOf
    <2>10. IsFiniteSet(Issued')  BY <2>9, FS_AddElement DEF TicketsKnown
    <2>11. Held' = TicketsOf(e) \cup {new}
      <3>1. new \notin TicketsOf(e)  BY <2>3, <2>4 DEF TicketsOf, TicketsKnown
      <3> QED  BY <2>5, <2>6, <3>1 DEF Held, TicketsOf
    <2>12. Cardinality(Held') <= MaxSessions
      <3>1. \/ Cardinality(Held') = Cardinality(TicketsOf(e))
            \/ Cardinality(Held') = Cardinality(TicketsOf(e)) + 1
        BY <2>4, <2>11, FS_AddElement
      <3> QED  BY <2>4, <3>1, SessionConstantsOK
    <2>13. ASSUME NEW s \in Requests  PROVE RequestKnows(request[s])'
      <3>1. RequestKnows(Idle)'
        BY <1>5, <2>3 DEF RequestKnows, Idle
      <3>2. CASE s = r
        <4>1. request'[s] = Idle  BY <2>3, <3>2 DEF TicketsKnown
        <4> QED  BY <3>1, <4>1 DEF RequestKnows
      <3>3. CASE s # r
        <4>1. request'[s] = request[s] /\ RequestKnows(request[s])
          BY <1>1, <2>3, <3>3 DEF TicketsKnown
        <4>2. \A t \in Tokens : given[t] # None => given'[t] # None  BY <2>5, <2>6
        <4> QED  BY <2>3, <4>1, <4>2 DEF RequestKnows, RequestShape
      <3> QED  BY <3>2, <3>3
    <2>14. request' = [s \in Requests |-> request'[s]]  BY <2>3 DEF TicketsKnown
    <2> QED
      BY <1>3, <2>3, <2>6, <2>7, <2>8, <2>10, <2>12, <2>13, <2>14 DEF TicketsKnown
  <1>12. CASE Tick
    <2>1. clock' = clock + 1 /\ clock < MaxClock /\ UNCHANGED <<entries, request, given, out>>
      BY <1>12 DEF Tick
    <2>2. clock' \in Instants  BY <1>3, <2>1, SessionConstantsOK DEF Instants
    <2>3. ASSUME NEW r \in Requests  PROVE RequestKnows(request[r])'
      BY <1>1, <1>3, <2>1 DEF RequestKnows, RequestShape, Instants
    <2>4. Held' = Held /\ Issued' = Issued  BY <2>1 DEF Held, Issued, TicketsOf
    <2> QED  BY <2>1, <2>2, <2>3, <2>4 DEF TicketsKnown
  <1>13. CASE UNCHANGED vars
    <2>1. Held' = Held /\ Issued' = Issued /\ UNCHANGED <<entries, request, clock, given, out>>
      BY <1>13 DEF vars, Held, Issued, TicketsOf
    <2> QED  BY <2>1 DEF TicketsKnown, RequestKnows
  <1> QED
    BY <1>6, <1>7, <1>8, <1>9, <1>10, <1>11, <1>12, <1>13 DEF Next

\* The map never holds more than maxAdminSessions tickets, and every state has its
\* types.
THEOREM SessionTypeCorrect == Spec => []SessionTypeOK
  <1>1. TicketsKnown => SessionTypeOK
    BY DEF TicketsKnown, SessionTypeOK, RequestKnows, RequestShape
  <1> QED  BY <1>1, InitKnown, StepsKnown, PTL DEF Spec

\* A request that comes by its ticket alone after the ticket's logout was answered
\* is never served.
THEOREM LogoutIsFinal == Spec => []LoggedOutNotServed
  <1>1. TicketsKnown => LoggedOutNotServed
    BY DEF TicketsKnown, LoggedOutNotServed, RequestKnows
  <1> QED  BY <1>1, InitKnown, StepsKnown, PTL DEF Spec

-----------------------------------------------------------------------------
(* Whom an eviction throws out                                             *)

NoEarlier(g, t) == {u \in Tokens \ {t} : g[u] >= g[t]}

LEMMA NoEarlierFinite ==
  ASSUME NEW g \in Expiries, IsFiniteSet(TicketsOf(g)), NEW t \in Tokens, g[t] # None
  PROVE  IsFiniteSet(NoEarlier(g, t)) /\ Cardinality(NoEarlier(g, t)) \in Nat
  <1>1. NoEarlier(g, t) \subseteq TicketsOf(g)
    BY SessionConstantsOK DEF NoEarlier, TicketsOf, Expiries, None
  <1>2. IsFiniteSet(NoEarlier(g, t))  BY <1>1, FS_Subset
  <1> QED  BY <1>2, FS_CardinalityType

LEMMA SurvivesStep ==
  TicketsKnown /\ TicketsKnown' /\ SurvivesFewLogins /\ [Next]_vars => SurvivesFewLogins'
  <1> SUFFICES ASSUME TicketsKnown, TicketsKnown', SurvivesFewLogins, [Next]_vars,
                      NEW t \in Tokens, given'[t] # None, clock' <= given'[t],
                      t \notin out', entries'[t] = None
               PROVE  Cardinality(NoEarlier(given', t)) >= MaxSessions - 1
    BY DEF SurvivesFewLogins, NoEarlier
  <1>1. MaxSessions - 1 \in Nat  BY SessionConstantsOK
  <1>2. /\ clock \in Instants /\ clock' \in Instants
        /\ \A u \in Tokens : /\ given[u] \in (0 .. MaxClock + TTL) \cup {None}
                             /\ given'[u] \in (0 .. MaxClock + TTL) \cup {None}
        /\ \A r \in Requests : request[r] \in RequestShape /\ request[r].now <= clock
    BY DEF TicketsKnown, Expiries, RequestKnows
  <1>3. /\ given \in Expiries /\ IsFiniteSet(TicketsOf(given))
         /\ given' \in Expiries /\ IsFiniteSet(TicketsOf(given'))
    BY DEF TicketsKnown, Issued, TicketsOf
  \* Given before and lost before: the tickets that expire no earlier only grow.
  <1>4. ASSUME given[t] # None, given'[t] = given[t], clock <= clock', t \notin out,
               entries[t] = None, \A u \in Tokens : given[u] # None => given'[u] = given[u]
        PROVE  Cardinality(NoEarlier(given', t)) >= MaxSessions - 1
    <2>1. clock <= given[t]  BY <1>2, <1>4 DEF Instants
    <2>2. Cardinality(NoEarlier(given, t)) >= MaxSessions - 1
      BY <1>4, <2>1 DEF SurvivesFewLogins, NoEarlier
    <2>3. NoEarlier(given, t) \subseteq NoEarlier(given', t)
      BY <1>2, <1>4 DEF NoEarlier, None
    <2>4. IsFiniteSet(NoEarlier(given', t)) /\ Cardinality(NoEarlier(given', t)) \in Nat
      BY <1>3, NoEarlierFinite
    <2>5. Cardinality(NoEarlier(given, t)) <= Cardinality(NoEarlier(given', t))
      BY <2>3, <2>4, FS_Subset
    <2> QED  BY <1>1, <1>4, <2>2, <1>3, <2>4, <2>5, NoEarlierFinite
  <1>5. CASE UNCHANGED <<entries, given, out>> /\ clock <= clock'
    BY <1>4, <1>5
  <1>6. CASE UNCHANGED vars  BY <1>2, <1>5, <1>6 DEF vars, Instants
  <1>7. CASE Tick  BY <1>2, <1>5, <1>7 DEF Tick, Instants
  <1>8. ASSUME NEW r \in Requests,
               \/ \E u \in Tokens \cup {NoToken}, b \in BOOLEAN : Arrive(r, u, b)
               \/ Login(r) \/ Handle(r)
        PROVE  Cardinality(NoEarlier(given', t)) >= MaxSessions - 1
    BY <1>2, <1>5, <1>8 DEF Arrive, Login, Handle, Instants
  <1>9. ASSUME NEW r \in Requests, Check(r)
        PROVE  Cardinality(NoEarlier(given', t)) >= MaxSessions - 1
    <2>1. UNCHANGED <<clock, given, out>>  BY <1>9 DEF Check
    <2>2. CASE entries[t] = None  BY <1>2, <1>4, <2>1, <2>2 DEF Instants
    <2>3. CASE entries[t] # None
      <3>1. t = request[r].token /\ Expired(t)
        BY <1>9, <2>3 DEF Check, TicketsKnown, Expiries
      <3>2. clock > given[t]  BY <2>3, <3>1 DEF Expired, TicketsKnown
      <3> QED  BY <1>2, <2>1, <3>2 DEF Instants, None
    <2> QED  BY <2>2, <2>3
  <1>10. ASSUME NEW r \in Requests, Logout(r)
        PROVE  Cardinality(NoEarlier(given', t)) >= MaxSessions - 1
    <2>1. UNCHANGED <<clock, given>> /\ out \subseteq out'  BY <1>10 DEF Logout
    <2>2. entries[t] = None
      BY <1>10 DEF Logout, AfterLogout, TicketsKnown, Expiries
    <2> QED  BY <1>2, <1>4, <2>1, <2>2 DEF Instants
  <1>11. ASSUME NEW r \in Requests, NEW new \in Tokens, Issue(r, new)
         PROVE  Cardinality(NoEarlier(given', t)) >= MaxSessions - 1
    <2> DEFINE now == request[r].now
    <2>1. now \in Instants /\ now <= clock  BY <1>2 DEF RequestShape
    <2>2. PICK e \in MakeRoom(Purged(now)) : entries' = [e EXCEPT ![new] = now + TTL]
      BY <1>11 DEF Issue
    <2>3. given[new] = None /\ given' = [given EXCEPT ![new] = now + TTL]
          /\ UNCHANGED <<clock, out>>
      BY <1>11 DEF Issue
    <2> HIDE DEF now
    <2>4. /\ e \in Expiries /\ \A u \in Tokens : e[u] = entries[u] \/ e[u] = None
          /\ IsFiniteSet(TicketsOf(e)) /\ Cardinality(TicketsOf(e)) \in Nat
          /\ entries[t] # None /\ e[t] = None =>
               \/ now > entries[t]
               \/ /\ Cardinality(TicketsOf(e)) >= MaxSessions - 1
                  /\ \A u \in TicketsOf(e) : u # t /\ entries[u] >= entries[t]
      BY <2>1, <2>2, RoomMade
    <2>5. t # new
      <3>1. now + TTL # None  BY <2>1, SessionConstantsOK DEF Instants, None
      <3>2. entries'[new] = now + TTL  BY <2>2, <2>4 DEF Expiries
      <3> QED  BY <3>1, <3>2
    <2>6. /\ e[t] = None
          /\ \A u \in Tokens \ {new} : given'[u] = given[u]
          /\ \A u \in Tokens : given[u] # None => given'[u] = given[u]
      BY <2>2, <2>3, <2>4, <2>5 DEF TicketsKnown, Expiries
    <2>7. CASE entries[t] = None  BY <1>2, <1>4, <2>3, <2>5, <2>6, <2>7 DEF Instants
    <2>8. CASE entries[t] # None
      <3>1. entries[t] = given[t] /\ given'[t] = given[t]  BY <2>5, <2>6, <2>8 DEF TicketsKnown
      <3>2. ~(now > entries[t])  BY <1>2, <2>1, <2>3, <3>1 DEF Instants, None
      <3>3. /\ Cardinality(TicketsOf(e)) >= MaxSessions - 1
            /\ \A u \in TicketsOf(e) : u # t /\ entries[u] >= entries[t]
        BY <2>4, <2>6, <2>8, <3>2
      <3>4. \A u \in TicketsOf(e) : /\ u \in Tokens /\ u # t
                                    /\ given[u] # None /\ entries[u] = given[u]
        BY <2>4, <3>3 DEF TicketsOf, TicketsKnown
      <3>5. TicketsOf(e) \subseteq NoEarlier(given', t)
        BY <2>6, <3>1, <3>3, <3>4 DEF NoEarlier
      <3>6. IsFiniteSet(NoEarlier(given', t)) /\ Cardinality(NoEarlier(given', t)) \in Nat
        BY <1>3, NoEarlierFinite
      <3>7. Cardinality(TicketsOf(e)) <= Cardinality(NoEarlier(given', t))
        BY <3>5, <3>6, FS_Subset
      <3> QED  BY <1>1, <2>4, <3>3, <3>6, <3>7
    <2> QED  BY <2>7, <2>8
  <1> QED  BY <1>6, <1>7, <1>8, <1>9, <1>10, <1>11 DEF Next

\* A ticket disappears before its time only when MaxSessions - 1 others expire no
\* earlier than it, however logins overtake each other.
THEOREM SurvivesAlways == Spec => []SurvivesFewLogins
  <1>1. Init => SurvivesFewLogins  BY DEF Init, SurvivesFewLogins
  <1> QED  BY <1>1, InitKnown, StepsKnown, SurvivesStep, PTL DEF Spec
=============================================================================
