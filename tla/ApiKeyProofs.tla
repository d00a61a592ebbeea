---------------------------- MODULE ApiKeyProofs ----------------------------
(***************************************************************************)
(* Proofs about ApiKeyService for every value of its constants: types,     *)
(* versions, the last active key, the snapshot with and without Reload,    *)
(* revocation and the refinement of KeyRegistry.                           *)
(***************************************************************************)
EXTENDS ApiKeyReloads, TLAPS

\* A row that was ever inserted has a secret; TypeOK alone does not bound the
\* credentials that ListActive builds from the rows.
RowsHaveSecrets ==
  \A k \in Keys : rows[k].status # "absent" => rows[k].secret \in Secrets

\* A committed mutation of an existing row has seen a secret there, so what
\* Publish adds to revoked is one.
OldIsSecret ==
  \A a \in Admins :
    op[a].pc = "publish" /\ op[a].kind # "create" => op[a].old \in Secrets

TypeInv == TypeOK /\ RowsHaveSecrets /\ OldIsSecret

-----------------------------------------------------------------------------
(* Types                                                                   *)

\* Expiry instants: the bounds that the assumption on the constants gives.
LEMMA InstantFacts ==
  /\ 0 \in Instants /\ Never \in Instants
  /\ 0 .. MaxClock \subseteq Instants
  /\ Expiries \cup {Never} \subseteq Instants
BY ConstantsOK DEF Never, Instants

\* What a query returns are credentials (SQLiteRepository.ListActive).
LEMMA ListActiveType ==
  ASSUME NEW r \in [Keys -> Row],
         \A k \in Keys : r[k].status # "absent" => r[k].secret \in Secrets,
         NEW t
  PROVE  ListActive(r, t) \subseteq Credential
BY DEF ListActive, CurrentlyActive, Row, Credential

\* The row a transaction leaves is a row with a secret.
LEMMA MutatedType ==
  ASSUME NEW o \in Op, NEW row \in Row, NEW s \in Secrets \cup {NoSecret},
         o.kind \in {"create", "rotate"} => s \in Secrets,
         o.kind # "create" => row.secret \in Secrets
  PROVE  Mutated(o, row, s) \in Row /\ Mutated(o, row, s).secret \in Secrets
<1>1. CASE o.kind = "create"
  BY <1>1 DEF Mutated, Edited, Op, Row
<1>2. CASE o.kind = "rotate"
  <2>1. Mutated(o, row, s) = [status |-> "active", secret |-> s,
          expires |-> row.expires, version |-> row.version + 1]
    BY <1>2 DEF Mutated, Edited, Row
  <2>. QED  BY <1>2, <2>1 DEF Row
<1>3. CASE o.kind = "update"
  <2>1. Mutated(o, row, s) = [status |-> row.status, secret |-> row.secret,
          expires |-> o.expires, version |-> row.version + 1]
    BY <1>3 DEF Mutated, Edited, Row
  <2>. QED  BY <1>3, <2>1 DEF Row, Op
<1>4. CASE o.kind \in {"enable", "disable", "delete"}
  <2>1. PICK st \in {"active", "disabled", "revoked"} :
          Mutated(o, row, s) = [status |-> st, secret |-> row.secret,
            expires |-> row.expires, version |-> row.version + 1]
    BY <1>4 DEF Mutated, Edited, Row
  <2>. QED  BY <1>4, <2>1 DEF Row
<1>. QED  BY <1>1, <1>2, <1>3, <1>4 DEF Op, Kinds

LEMMA TypeInit == Init => TypeInv
BY ConstantsOK, InstantFacts
   DEF Init, TypeInv, TypeOK, RowsHaveSecrets, OldIsSecret, Absent, IdleOp, IdleAuth,
       IdleReload, Row, Op, Auth, Reload, Kinds

LEMMA CommitType ==
  ASSUME TypeInv, NEW a \in Admins, NEW k \in Keys,
         NEW s \in Secrets \cup {NoSecret}, Commit(a, k, s)
  PROVE  TypeInv'
<1>. USE DEF TypeInv
<1>1. op[a] \in Op /\ rows[k] \in Row
  BY DEF TypeOK
<1>2. op[a].kind \in {"create", "rotate"} => s \in Secrets
  BY DEF Commit, CommitAt, Generated
<1>3. op[a].kind # "create" => rows[k].secret \in Secrets
  BY DEF Commit, CommitAt, Permitted, Live, RowsHaveSecrets
<1>4. Mutated(op[a], rows[k], s) \in Row
        /\ Mutated(op[a], rows[k], s).secret \in Secrets
  BY <1>1, <1>2, <1>3, MutatedType
<1>5. rows' = [rows EXCEPT ![k] = Mutated(op[a], rows[k], s)]
  BY DEF Commit, CommitAt
<1>6. rows' \in [Keys -> Row] /\ RowsHaveSecrets'
  BY <1>4, <1>5 DEF TypeOK, RowsHaveSecrets
<1>7. \A t : ActiveAfter(t) \in SUBSET Credential
  BY <1>6, ListActiveType DEF ActiveAfter, RowsHaveSecrets
<1>8. op' \in [Admins -> Op]
  <2>0. PICK judged, t \in 0 .. MaxClock : CommitAt(a, k, s, judged, t)
    BY DEF Commit
  <2>1. PICK o : /\ op' = [op EXCEPT ![a] = o]
                 /\ o = [pc |-> "publish", kind |-> op[a].kind, key |-> k,
                         version |-> op[a].version, old |-> rows[k].secret,
                         expires |-> op[a].expires, now |-> op[a].now,
                         active |-> ActiveAfter(t)]
    BY <2>0 DEF CommitAt, TypeOK
  <2>2. o \in Op
    BY <1>1, <1>7, <2>1 DEF Op, Row
  <2>. QED  BY <2>1, <2>2 DEF TypeOK
<1>9. auth' \in [Clients -> Auth]
  <2>1. \A c \in Clients : auth[c] \in Auth /\ [auth[c] EXCEPT !.doomed = FALSE] \in Auth
    BY DEF TypeOK, Auth
  <2>. QED  BY <2>1 DEF Commit, CommitAt, TypeOK
<1>10. OldIsSecret'
  BY <1>3 DEF Commit, CommitAt, TypeOK, OldIsSecret
<1>11. issued' \in SUBSET Secrets /\ revoked' \in SUBSET Secrets
  BY DEF Commit, CommitAt, TypeOK
<1>. QED  BY <1>6, <1>8, <1>9, <1>10, <1>11 DEF Commit, CommitAt, TypeOK

\* The mutations' other steps touch neither rows nor audit.
LEMMA MutationType ==
  ASSUME TypeInv, NEW a \in Admins, Request(a) \/ MutationStep(a)
  PROVE  TypeInv'
<1>. USE InstantFacts DEF TypeInv, RowsHaveSecrets, OldIsSecret
<1>1. clock \in Instants /\ IdleOp \in Op /\ IdleOp.pc = "idle" /\ op[a] \in Op
  BY DEF TypeOK, IdleOp, Op, Kinds
<1>2. CASE Request(a)
  <2>1. [op[a] EXCEPT !.pc = "lock"] \in Op
    BY <1>1 DEF Op
  <2>2. PICK o \in Op : /\ o.pc = "lock"
                        /\ op' = [op EXCEPT ![a] = [o EXCEPT !.now = clock]]
    <3>1. op' = [op EXCEPT ![a] = [[op[a] EXCEPT !.pc = "lock"] EXCEPT !.now = clock]]
      BY <1>2 DEF Request, TypeOK
    <3>2. [op[a] EXCEPT !.pc = "lock"].pc = "lock"
      BY <1>1 DEF Op
    <3>. QED  BY <2>1, <3>1, <3>2
  <2>3. [o EXCEPT !.now = clock] \in Op /\ [o EXCEPT !.now = clock].pc = "lock"
    BY <1>1, <2>2 DEF Op
  <2>. QED  BY <1>2, <2>2, <2>3 DEF Request, TypeOK, store
<1>3. CASE RefuseClosed(a) \/ RefuseMissing(a) \/ Rollback(a)
  BY <1>1, <1>3 DEF RefuseClosed, RefuseMissing, Rollback, TypeOK, store
<1>4. ASSUME NEW kind \in Kinds, NEW k \in Keys \cup {NoKey},
             NEW v \in 0 .. MaxVersion - 1, NEW e \in Expiries \cup {Never},
             Enter(a, kind, k, v, e)
      PROVE  TypeInv'
  <2>1. v \in Nat /\ e \in Instants
    BY ConstantsOK
  <2>2. [pc |-> "tx", kind |-> kind, key |-> k, version |-> v,
         old |-> NoSecret, expires |-> e, now |-> clock, active |-> {}] \in Op
    BY <1>1, <2>1 DEF Op
  <2>. QED  BY <1>4, <2>2 DEF Enter, TypeOK, store
<1>5. ASSUME NEW k \in Keys, NEW s \in Secrets \cup {NoSecret}, Commit(a, k, s)
      PROVE  TypeInv'
  BY <1>5, CommitType
<1>6. CASE Publish(a)
  <2>1. op[a].active \in SUBSET Credential
    BY <1>1 DEF Op
  <2>2. revoked' \in SUBSET Secrets
    BY <1>6 DEF Publish, TypeOK
  <2>. QED  BY <1>1, <1>6, <2>1, <2>2 DEF Publish, Published, TypeOK, store
<1>. QED  BY <1>2, <1>3, <1>4, <1>5, <1>6 DEF MutationStep

LEMMA AuthType ==
  ASSUME TypeInv, NEW c \in Clients,
         (\E s \in Secrets : AuthCheck(c, s)) \/ AuthLoad(c) \/ AuthDecide(c)
           \/ AuthReturn(c)
  PROVE  TypeInv'
<1>1. auth[c] \in Auth /\ IdleAuth \in Auth
  BY DEF TypeInv, TypeOK, IdleAuth, Auth
<1>2. auth' \in [Clients -> Auth]
  <2>1. ASSUME NEW s \in Secrets, AuthCheck(c, s)
        PROVE  auth' \in [Clients -> Auth]
    BY <1>1, <2>1 DEF AuthCheck, TypeInv, TypeOK, Auth
  <2>2. CASE AuthLoad(c)
    <3>1. Lookup(snapshot, auth[c].secret) \in SUBSET Credential
      BY DEF Lookup, TypeInv, TypeOK
    <3>2. [[auth[c] EXCEPT !.pc = "decide"]
             EXCEPT !.item = Lookup(snapshot, auth[c].secret)] \in Auth
      <4>1. [auth[c] EXCEPT !.pc = "decide"] \in Auth
        BY <1>1 DEF Auth
      <4>. QED  BY <3>1, <4>1 DEF Auth
    <3>. QED  BY <2>2, <3>2 DEF AuthLoad, TypeInv, TypeOK
  <2>3. CASE AuthDecide(c)
    BY <1>1, <2>3 DEF AuthDecide, TypeInv, TypeOK, Auth
  <2>4. CASE AuthReturn(c)
    BY <1>1, <2>4 DEF AuthReturn, TypeInv, TypeOK
  <2>. QED  BY <2>1, <2>2, <2>3, <2>4
<1>. QED  BY <1>2 DEF AuthCheck, AuthLoad, AuthDecide, AuthReturn, TypeInv, TypeOK,
                      RowsHaveSecrets, OldIsSecret, store

LEMMA ServiceType ==
  ASSUME TypeInv,
         \/ \E r \in Reloaders : ReloadRead(r) \/ ReloadPublish(r)
         \/ CloseBegin \/ CloseEnd \/ Crash \/ StartList
         \/ (\E k \in Keys : StartImport(k)) \/ StartRefused \/ Tick
  PROVE  TypeInv'
<1>. USE DEF TypeInv, RowsHaveSecrets, OldIsSecret
<1>0. /\ IdleOp \in Op /\ IdleOp.pc = "idle" /\ IdleAuth \in Auth /\ IdleReload \in Reload
      /\ ListActive(rows, clock) \in SUBSET Credential
  BY InstantFacts, ListActiveType
     DEF IdleOp, Op, IdleAuth, Auth, IdleReload, Reload, Kinds, TypeOK
<1>1. ASSUME NEW r \in Reloaders, ReloadRead(r) PROVE TypeInv'
  BY <1>0, <1>1 DEF ReloadRead, TypeOK, Reload, store
<1>2. ASSUME NEW r \in Reloaders, ReloadPublish(r) PROVE TypeInv'
  <2>1. reload[r].active \in SUBSET Credential
    BY DEF TypeOK, Reload
  <2>. QED  BY <1>0, <1>2, <2>1 DEF ReloadPublish, Published, TypeOK, store
<1>3. CASE CloseBegin \/ CloseEnd
  BY <1>3 DEF CloseBegin, CloseEnd, TypeOK, store, memory
<1>4. CASE Crash
  BY <1>0, <1>4, ConstantsOK DEF Crash, TypeOK, store
<1>5. CASE StartList
  <2>1. ActiveAfter(clock) = ListActive(rows, clock)
    BY <1>5 DEF StartList, store, ActiveAfter
  <2>. QED  BY <1>0, <1>5, <2>1 DEF StartList, Published, TypeOK, store
<1>6. ASSUME NEW k \in Keys, StartImport(k) PROVE TypeInv'
  <2>1. Legacy \in Secrets
    BY <1>6, ConstantsOK DEF StartImport, MustImport
  <2>2. [status |-> "active", secret |-> Legacy, expires |-> Never,
         version |-> 1] \in Row
    BY <2>1, InstantFacts DEF Row
  <2>3. rows' \in [Keys -> Row] /\ RowsHaveSecrets'
    BY <1>6, <2>1, <2>2 DEF StartImport, TypeOK
  <2>4. ActiveAfter(clock) \in SUBSET Credential
    BY <2>3, ListActiveType DEF ActiveAfter
  <2>. QED  BY <1>6, <2>3, <2>4 DEF StartImport, Published, TypeOK
<1>7. CASE StartRefused \/ Tick
  BY <1>7, ConstantsOK DEF StartRefused, Tick, TypeOK, store, memory
<1>. QED  BY <1>1, <1>2, <1>3, <1>4, <1>5, <1>6, <1>7

LEMMA TypeStep == TypeInv /\ [Next]_vars => TypeInv'
<1>. SUFFICES ASSUME TypeInv, [Next]_vars PROVE TypeInv'
  OBVIOUS
<1>1. CASE UNCHANGED vars
  BY <1>1 DEF vars, TypeInv, TypeOK, RowsHaveSecrets, OldIsSecret
<1>. QED  BY <1>1, MutationType, AuthType, ServiceType DEF Next

\* Every reachable state is well typed, and every row ever inserted has a secret
\* (the tables of SQLiteRepository, the fields of Service).
THEOREM TypeInvariant == Spec => []TypeInv
BY TypeInit, TypeStep, PTL DEF Spec

\* The type invariant alone, as the runs check it.
THEOREM TypeCorrect == Spec => []TypeOK
<1>1. TypeInv => TypeOK
  BY DEF TypeInv
<1>. QED  BY <1>1, TypeInvariant, PTL

-----------------------------------------------------------------------------
(* One mutation at a time                                                  *)

\* Whoever has a transaction or its list to publish holds mutationMu.
HolderOwnsMutex ==
  \A a \in Admins : op[a].pc \in {"tx", "publish"} => mutex = a

\* A process that is not up has no request.
DownIsIdle == proc # "up" => \A a \in Admins : op[a].pc = "idle"

\* The instant an operation works with lies in its past.
NowIsPast == \A a \in Admins : op[a].now <= clock

Serial == HolderOwnsMutex /\ DownIsIdle /\ NowIsPast

LEMMA SerialInit == Init => Serial
BY ConstantsOK DEF Init, Serial, HolderOwnsMutex, DownIsIdle, NowIsPast, IdleOp

\* Two operations are never both in a transaction or a publish.
LEMMA OneHolder ==
  ASSUME Serial, NEW a \in Admins, NEW b \in Admins,
         op[a].pc \in {"tx", "publish"}, op[b].pc \in {"tx", "publish"}
  PROVE  a = b
BY DEF Serial, HolderOwnsMutex

LEMMA SerialStep == TypeInv /\ Serial /\ [Next]_vars => Serial'
<1>. SUFFICES ASSUME TypeInv, Serial, [Next]_vars PROVE Serial'
  OBVIOUS
<1>. USE DEF Serial, HolderOwnsMutex, DownIsIdle, NowIsPast
<1>1. /\ clock \in Nat /\ IdleOp.pc = "idle" /\ IdleOp.now = 0
      /\ op \in [Admins -> Op] /\ \A a \in Admins : op[a].now \in Nat
  BY ConstantsOK DEF TypeInv, TypeOK, IdleOp, Op, Instants, Never
<1>2. ASSUME NEW a \in Admins, Request(a) PROVE Serial'
  <2>0. [op[a] EXCEPT !.pc = "lock"] \in Op /\ [op[a] EXCEPT !.pc = "lock"].pc = "lock"
    BY <1>1 DEF Op
  <2>1. PICK o \in Op : /\ o.pc = "lock"
                        /\ op' = [op EXCEPT ![a] = [o EXCEPT !.now = clock]]
    BY <1>1, <1>2, <2>0 DEF Request
  <2>2. [o EXCEPT !.now = clock].pc = "lock" /\ [o EXCEPT !.now = clock].now = clock
    BY <2>1 DEF Op
  <2>. QED  BY <1>1, <1>2, <2>1, <2>2 DEF Request
<1>3. ASSUME NEW a \in Admins, RefuseClosed(a) \/ RefuseMissing(a) PROVE Serial'
  BY <1>1, <1>3 DEF RefuseClosed, RefuseMissing
<1>4. ASSUME NEW a \in Admins, NEW kind, NEW k, NEW v, NEW e,
             Enter(a, kind, k, v, e)
      PROVE  Serial'
  BY <1>1, <1>4, ConstantsOK DEF Enter, Acquire
<1>5. ASSUME NEW a \in Admins, NEW k, NEW s, Commit(a, k, s) PROVE Serial'
  BY <1>1, <1>5 DEF Commit, CommitAt
<1>6. ASSUME NEW a \in Admins, Rollback(a) \/ Publish(a) PROVE Serial'
  BY <1>1, <1>6, ConstantsOK DEF Rollback, Publish
<1>7. ASSUME NEW c \in Clients,
             (\E s \in Secrets : AuthCheck(c, s)) \/ AuthLoad(c) \/ AuthDecide(c)
               \/ AuthReturn(c)
      PROVE  Serial'
  BY <1>7 DEF AuthCheck, AuthLoad, AuthDecide, AuthReturn
<1>8. ASSUME NEW r \in Reloaders, ReloadRead(r) \/ ReloadPublish(r) PROVE Serial'
  BY <1>8 DEF ReloadRead, ReloadPublish
<1>9. CASE CloseBegin \/ CloseEnd \/ Crash
  BY <1>1, <1>9 DEF CloseBegin, CloseEnd, Crash, memory
<1>10. CASE StartList \/ (\E k \in Keys : StartImport(k)) \/ StartRefused
  BY <1>10 DEF StartList, StartImport, StartRefused, memory
<1>11. CASE Tick \/ UNCHANGED vars
  BY <1>1, <1>11 DEF Tick, vars, memory
<1>. QED  BY <1>2, <1>3, <1>4, <1>5, <1>6, <1>7, <1>8, <1>9, <1>10, <1>11
          DEF Next, MutationStep

THEOREM SerialInvariant == Spec => []Serial
<1>1. Init => TypeInv /\ Serial
  BY TypeInit, SerialInit
<1>2. TypeInv /\ Serial /\ [Next]_vars => TypeInv' /\ Serial'
  BY TypeStep, SerialStep
<1>. QED  BY <1>1, <1>2, PTL DEF Spec

-----------------------------------------------------------------------------
(* Versions and the last usable key                                        *)

\* What a transaction does to the columns the arguments below look at.
LEMMA MutatedColumns ==
  ASSUME NEW o \in Op, NEW row \in Row, NEW s
  PROVE  /\ Mutated(o, row, s).version
              = IF o.kind = "create" THEN 1 ELSE row.version + 1
         /\ Mutated(o, row, s).status # "absent" \/ row.status = "absent"
         /\ (o.kind \notin {"disable", "delete"} /\ row.status = "active")
              => Mutated(o, row, s).status = "active"
<1>1. CASE o.kind = "create"
  BY <1>1 DEF Mutated, Edited
<1>2. CASE o.kind = "rotate"
  BY <1>2 DEF Mutated, Edited, Row
<1>3. CASE o.kind = "update"
  BY <1>3 DEF Mutated, Edited, Row
<1>4. CASE o.kind = "enable"
  BY <1>4 DEF Mutated, Edited, Row
<1>5. CASE o.kind = "disable"
  BY <1>5 DEF Mutated, Edited, Row
<1>6. CASE o.kind = "delete"
  BY <1>6 DEF Mutated, Edited, Row
<1>. QED  BY <1>1, <1>2, <1>3, <1>4, <1>5, <1>6 DEF Op, Kinds

\* Every version of a row has its audit row, from the first insert on.
VersionsAudited ==
  \A k \in Keys : /\ audited[k] = rows[k].version
                  /\ rows[k].status = "absent" => rows[k].version = 0

VersionInv == VersionsAudited /\ NamedVersionApplied

\* A step that neither commits, publishes nor imports, by whose step it is.
LEMMA QuietActors ==
  ASSUME [Next]_vars,
         ~\E a \in Admins, k \in Keys, s \in Secrets \cup {NoSecret} : Commit(a, k, s),
         ~\E a \in Admins : Publish(a),
         ~\E k \in Keys : StartImport(k)
  PROVE  /\ UNCHANGED store /\ issued' = issued /\ revoked' = revoked
         /\ Tick \/ clock' = clock
         /\ \/ UNCHANGED <<proc, closing, snapshot>>
            \/ CloseBegin \/ CloseEnd \/ Crash \/ StartList \/ StartRefused
            \/ \E r \in Reloaders : ReloadPublish(r)
<1>. DEFINE Rest == UNCHANGED <<store, issued, revoked, clock, proc, closing, snapshot>>
<1>1. ASSUME NEW a \in Admins, Request(a) \/ MutationStep(a) PROVE Rest
  BY <1>1 DEF MutationStep, Request, RefuseClosed, RefuseMissing, Enter, Rollback, store
<1>2. ASSUME NEW c \in Clients,
             \/ \E s \in Secrets : AuthCheck(c, s)
             \/ AuthLoad(c) \/ AuthDecide(c) \/ AuthReturn(c)
      PROVE  Rest
  BY <1>2 DEF AuthCheck, AuthLoad, AuthDecide, AuthReturn, store
<1>3. ASSUME NEW r \in Reloaders, ReloadRead(r) PROVE Rest
  BY <1>3 DEF ReloadRead, store
<1>4. ASSUME NEW r \in Reloaders, ReloadPublish(r)
      PROVE  UNCHANGED <<store, issued, revoked, clock>>
  BY <1>4 DEF ReloadPublish, store
<1>5. CASE CloseBegin \/ CloseEnd \/ Crash \/ StartList \/ StartRefused
  <2>1. UNCHANGED <<store, issued, revoked, clock>>
    BY <1>5 DEF CloseBegin, CloseEnd, Crash, StartList, StartRefused, store
  <2>. QED  BY <1>5, <2>1
<1>6. CASE Tick
  BY <1>6 DEF Tick, store, memory
<1>7. CASE UNCHANGED vars
  BY <1>7 DEF vars, store, memory
<1>. QED  BY <1>1, <1>2, <1>3, <1>4, <1>5, <1>6, <1>7 DEF Next

\* Only Commit and StartImport write the store, and only Commit leaves an
\* operation to publish that was not there before.
LEMMA StoreWriters ==
  ASSUME TypeInv, [Next]_vars,
         ~\E a \in Admins, k \in Keys, s \in Secrets \cup {NoSecret} :
            Commit(a, k, s),
         ~\E k \in Keys : StartImport(k)
  PROVE  /\ rows' = rows /\ audited' = audited
         /\ \A a \in Admins : op'[a].pc = "publish" => op'[a] = op[a]
<1>1. IdleOp.pc = "idle" /\ op \in [Admins -> Op]
  BY DEF IdleOp, TypeInv, TypeOK
<1>2. ASSUME NEW a \in Admins, Request(a)
      PROVE  \A b \in Admins : op'[b].pc = "publish" => op'[b] = op[b]
  <2>1. [op[a] EXCEPT !.pc = "lock"] \in Op /\ [op[a] EXCEPT !.pc = "lock"].pc = "lock"
    BY <1>1 DEF Op
  <2>2. PICK o \in Op : o.pc = "lock" /\ op' = [op EXCEPT ![a] = [o EXCEPT !.now = clock]]
    BY <1>1, <1>2, <2>1 DEF Request
  <2>3. [o EXCEPT !.now = clock].pc = "lock"
    BY <2>2 DEF Op
  <2>. QED  BY <1>1, <2>2, <2>3
<1>3. ASSUME NEW a \in Admins, Request(a) \/ MutationStep(a)
      PROVE  \A b \in Admins : op'[b].pc = "publish" => op'[b] = op[b]
  BY <1>1, <1>2, <1>3 DEF MutationStep, RefuseClosed, RefuseMissing, Enter, Rollback, Publish
<1>4. rows' = rows /\ audited' = audited
  <2>1. CASE \E a \in Admins : Publish(a)
    BY <2>1 DEF Publish, store
  <2>2. CASE ~\E a \in Admins : Publish(a)
    BY <2>2, QuietActors DEF store
  <2>. QED  BY <2>1, <2>2
<1>5. ASSUME ~\E a \in Admins : Request(a) \/ MutationStep(a)
      PROVE  \A b \in Admins : op'[b].pc = "publish" => op'[b] = op[b]
  BY <1>1, <1>5 DEF Next, AuthCheck, AuthLoad, AuthDecide, AuthReturn, ReloadRead,
         ReloadPublish, CloseBegin, CloseEnd, Crash, StartList, StartRefused, Tick,
         vars, memory
<1>. QED  BY <1>3, <1>4, <1>5

LEMMA VersionStep ==
  TypeInv /\ Serial /\ VersionInv /\ [Next]_vars => VersionInv'
<1>. SUFFICES ASSUME TypeInv, Serial, VersionInv, [Next]_vars PROVE VersionInv'
  OBVIOUS
<1>. USE DEF VersionInv, VersionsAudited, NamedVersionApplied
<1>1. rows \in [Keys -> Row] /\ audited \in [Keys -> Nat] /\ op \in [Admins -> Op]
  BY DEF TypeInv, TypeOK
<1>2. ASSUME NEW a \in Admins, NEW k \in Keys, NEW s, Commit(a, k, s)
      PROVE  VersionInv'
  <2>1. /\ rows' = [rows EXCEPT ![k] = Mutated(op[a], rows[k], s)]
        /\ audited' = [audited EXCEPT ![k] = audited[k] + 1]
        /\ op'[a].key = k /\ op'[a].version = op[a].version
        /\ op'[a].kind = op[a].kind
        /\ \A b \in Admins \ {a} : op'[b] = op[b] /\ op[b].pc # "publish"
    BY <1>1, <1>2, OneHolder DEF Commit, CommitAt
  <2>2. /\ op[a].kind = "create" => rows[k].status = "absent"
        /\ op[a].kind # "create" => /\ rows[k].version = op[a].version
                                    /\ rows[k].status # "absent"
    BY <1>2 DEF Commit, CommitAt, Permitted, Live
  <2>3. /\ Mutated(op[a], rows[k], s).version = rows[k].version + 1
        /\ op[a].kind # "create" => Mutated(op[a], rows[k], s).status # "absent"
    BY <1>1, <2>2, MutatedColumns
  <2>4. op[a].kind = "create" => Mutated(op[a], rows[k], s).status # "absent"
    BY DEF Mutated, Edited
  <2>. QED  BY <1>1, <2>1, <2>2, <2>3, <2>4
<1>3. ASSUME NEW k \in Keys, StartImport(k) PROVE VersionInv'
  BY <1>1, <1>3, ConstantsOK DEF StartImport, Serial, DownIsIdle
<1>. QED  BY <1>2, <1>3, StoreWriters

\* A mutation that reports success was applied to the version its caller named,
\* and the audit log has a row for every version of every key
\* (SQLiteRepository.mutate, insertAudit), however many administrators compete.
THEOREM VersionsApplied == Spec => []NamedVersionApplied
<1>1. Init => TypeInv /\ Serial /\ VersionInv
  BY TypeInit, SerialInit
     DEF Init, VersionInv, VersionsAudited, NamedVersionApplied, Absent, IdleOp
<1>2. TypeInv /\ Serial /\ VersionInv /\ [Next]_vars
        => TypeInv' /\ Serial' /\ VersionInv'
  BY TypeStep, SerialStep, VersionStep
<1>3. VersionInv => NamedVersionApplied
  BY DEF VersionInv
<1>. QED  BY <1>1, <1>2, <1>3, PTL DEF Spec

\* A transaction that takes the last usable key away does not commit.
LEMMA LastActiveStep ==
  ASSUME TypeInv, Serial, [Next]_vars, NEW k \in Keys,
         CurrentlyActive(rows[k], clock), rows'[k].status # "active"
  PROVE  \E a \in Admins : /\ op[a].pc = "tx" /\ op[a].key = k
                           /\ ListActive(rows', op[a].now) # {}
<1>1. /\ clock \in Nat /\ rows \in [Keys -> Row] /\ op \in [Admins -> Op]
      /\ \A j \in Keys : rows[j].expires \in Nat
      /\ \A a \in Admins : op[a].now \in Nat
  BY ConstantsOK DEF TypeInv, TypeOK, Row, Op, Instants, Never
<1>2. ~\E j \in Keys : StartImport(j)
  BY DEF StartImport, MustImport, Live, CurrentlyActive
<1>3. PICK a \in Admins, j \in Keys, s \in Secrets \cup {NoSecret},
           judged \in 0 .. MaxClock, listed \in 0 .. MaxClock :
             CommitAt(a, j, s, judged, listed)
  BY <1>2, StoreWriters DEF CurrentlyActive, Commit
<1>4. rows' = [rows EXCEPT ![j] = Mutated(op[a], rows[j], s)]
  BY <1>3 DEF CommitAt
<1>5. j = k /\ op[a].kind \in {"disable", "delete"}
  BY <1>1, <1>4, MutatedColumns DEF CurrentlyActive
<1>6. op[a].now <= clock /\ op[a].pc = "tx" /\ op[a].key = k
  BY <1>3, <1>5 DEF Serial, NowIsPast, CommitAt, Permitted
<1>7. AnotherActive(k, op[a].now, judged)
  BY <1>1, <1>3, <1>5, <1>6 DEF CommitAt, Permitted, CurrentlyActive
<1>8. PICK l \in Keys \ {k} : CurrentlyActive(rows[l], op[a].now)
  BY <1>7 DEF AnotherActive, ListActive, CurrentlyActive
<1>9. CurrentlyActive(rows'[l], op[a].now)
  BY <1>1, <1>4, <1>5, <1>8
<1>10. ListActive(rows', op[a].now) # {}
  BY <1>9 DEF ListActive
<1>. QED  BY <1>6, <1>10

\* Disabling or deleting a usable key leaves one that was usable when the mutation
\* read the clock under the mutex (ensureAnotherActive), although the transaction
\* reads the clock again and keys expire meanwhile.
THEOREM LastActiveAlwaysKept == Spec => LastActiveKept
<1>1. TypeInv /\ Serial /\ [Next]_vars
        => [\A k \in Keys :
              (CurrentlyActive(rows[k], clock) /\ rows'[k].status # "active")
                => \E a \in Admins : /\ op[a].pc = "tx" /\ op[a].key = k
                                     /\ ListActive(rows', op[a].now) # {}]_rows
  BY LastActiveStep
<1>. QED  BY <1>1, TypeInvariant, SerialInvariant, PTL DEF Spec, LastActiveKept

-----------------------------------------------------------------------------
(* The snapshot follows the store                                          *)

\* What an earlier list still holds at a later instant is the later list.
LEMMA ListActiveLater ==
  ASSUME NEW r \in [Keys -> Row], NEW t \in Nat, NEW u \in Nat, t <= u
  PROVE  {c \in ListActive(r, t) : c.expires > u} = ListActive(r, u)
<1>1. \A k \in Keys : r[k].expires \in Nat
  BY ConstantsOK DEF Row, Instants, Never
<1>. QED  BY <1>1 DEF ListActive, CurrentlyActive

\* The list a committed transaction is about to publish is what the store holds.
PublishCurrent ==
  \A a \in Admins :
    op[a].pc = "publish" => Unexpired(op[a].active) = ListActive(rows, clock)

SnapInv == SnapshotMatchesStore /\ PublishCurrent

LEMMA CommitSnap ==
  ASSUME TypeInv, Serial, SnapInv, NEW a \in Admins, NEW k \in Keys,
         NEW s \in Secrets \cup {NoSecret}, Commit(a, k, s)
  PROVE  SnapInv'
<1>1. clock \in Nat /\ op \in [Admins -> Op] /\ rows' \in [Keys -> Row]
  BY ConstantsOK, CommitType DEF TypeInv, TypeOK
<1>2. /\ op'[a].pc = "publish"
      /\ \A b \in Admins \ {a} : op'[b] = op[b] /\ op[b].pc # "publish"
      /\ clock' = clock
  BY <1>1, OneHolder DEF Commit, CommitAt
<1>3. {c \in op'[a].active : c.expires > clock} = ListActive(rows', clock)
  <2>1. PICK t \in Nat : t <= clock /\ op'[a].active = ListActive(rows', t)
    BY <1>1 DEF Commit, CommitAt, ActiveAfter
  <2>. QED  BY <1>1, <2>1, ListActiveLater
<1>. QED  BY <1>2, <1>3 DEF SnapInv, SnapshotMatchesStore, PublishCurrent, Unexpired

LEMMA PublishSnap ==
  ASSUME TypeInv, Serial, SnapInv, NEW a \in Admins, Publish(a)
  PROVE  SnapInv'
<1>1. op \in [Admins -> Op] /\ IdleOp.pc = "idle"
  BY DEF TypeInv, TypeOK, IdleOp
<1>2. /\ snapshot' = op[a].active /\ rows' = rows /\ clock' = clock
      /\ \A b \in Admins : op'[b].pc # "publish"
  BY <1>1, OneHolder DEF Publish, Published, store
<1>. QED  BY <1>2 DEF Publish, SnapInv, SnapshotMatchesStore, PublishCurrent, Unexpired

\* A start publishes what it read, whatever the process before it had done.
LEMMA StartSnap ==
  ASSUME TypeInv, Serial, StartList \/ \E k \in Keys : StartImport(k)
  PROVE  SnapInv'
<1>1. clock \in Nat /\ rows' \in [Keys -> Row]
  BY ConstantsOK, TypeStep DEF TypeInv, TypeOK, Next
<1>2. /\ snapshot' = ListActive(rows', clock) /\ clock' = clock
      /\ \A a \in Admins : op'[a].pc = "idle"
  BY DEF StartList, StartImport, Published, ActiveAfter, Serial, DownIsIdle
<1>3. {c \in ListActive(rows', clock) : c.expires > clock} = ListActive(rows', clock)
  BY <1>1, ListActiveLater
<1>. QED  BY <1>2, <1>3 DEF SnapInv, SnapshotMatchesStore, PublishCurrent, Unexpired

LEMMA TickSnap ==
  ASSUME TypeInv, SnapInv, Tick
  PROVE  SnapInv'
<1>1. /\ clock \in Nat /\ clock' = clock + 1
      /\ rows' = rows /\ rows \in [Keys -> Row] /\ op' = op /\ snapshot' = snapshot
      /\ proc' = proc /\ closing' = closing
  BY ConstantsOK DEF Tick, TypeInv, TypeOK, store, memory
<1>2. ASSUME NEW S \in SUBSET Credential, Unexpired(S) = ListActive(rows, clock)
      PROVE  {c \in S : c.expires > clock + 1} = ListActive(rows, clock + 1)
  <2>1. \A c \in S : c.expires \in Nat
    BY ConstantsOK DEF Credential, Instants, Never
  <2>2. {c \in S : c.expires > clock + 1} = {c \in Unexpired(S) : c.expires > clock + 1}
    BY <1>1, <2>1 DEF Unexpired
  <2>. QED  BY <1>1, <1>2, <2>2, ListActiveLater
<1>3. snapshot \in SUBSET Credential /\ \A a \in Admins : op[a].active \in SUBSET Credential
  BY DEF TypeInv, TypeOK, Op
<1>4. SnapshotMatchesStore'
  <2>. SUFFICES ASSUME proc = "up", closing = "open",
                       \A a \in Admins : op[a].pc # "publish"
                PROVE  Unexpired(snapshot)' = ListActive(rows, clock + 1)
    BY <1>1 DEF SnapshotMatchesStore
  <2>1. Unexpired(snapshot) = ListActive(rows, clock)
    BY DEF SnapInv, SnapshotMatchesStore
  <2>. QED  BY <1>1, <1>2, <1>3, <2>1 DEF Unexpired
<1>5. PublishCurrent'
  <2>. SUFFICES ASSUME NEW a \in Admins, op[a].pc = "publish"
                PROVE  Unexpired(op[a].active)' = ListActive(rows, clock + 1)
    BY <1>1 DEF PublishCurrent
  <2>1. Unexpired(op[a].active) = ListActive(rows, clock)
    BY DEF SnapInv, PublishCurrent
  <2>. QED  BY <1>1, <1>2, <1>3, <2>1 DEF Unexpired
<1>. QED  BY <1>4, <1>5 DEF SnapInv

LEMMA SnapStep ==
  ASSUME Reloaders = {}
  PROVE  TypeInv /\ Serial /\ SnapInv /\ [Next]_vars => SnapInv'
<1>. SUFFICES ASSUME TypeInv, Serial, SnapInv, [Next]_vars PROVE SnapInv'
  OBVIOUS
<1>1. CASE \E a \in Admins, k \in Keys, s \in Secrets \cup {NoSecret} : Commit(a, k, s)
  BY <1>1, CommitSnap
<1>2. CASE \E a \in Admins : Publish(a)
  BY <1>2, PublishSnap
<1>3. CASE StartList \/ \E k \in Keys : StartImport(k)
  BY <1>3, StartSnap
<1>4. CASE Tick
  BY <1>4, TickSnap
<1>5. ASSUME ~\E a \in Admins, k \in Keys, s \in Secrets \cup {NoSecret} : Commit(a, k, s),
             ~\E a \in Admins : Publish(a),
             ~(StartList \/ \E k \in Keys : StartImport(k)), ~Tick
      PROVE  SnapInv'
  <2>1. /\ rows' = rows /\ clock' = clock
        /\ \A a \in Admins : op'[a].pc = "publish" => op'[a] = op[a]
    <3>1. clock' = clock
      BY <1>5, QuietActors
    <3>. QED  BY <1>5, <3>1, StoreWriters
  <2>2. PublishCurrent'
    BY <2>1 DEF SnapInv, PublishCurrent, Unexpired
  <2>3. CASE CloseBegin \/ CloseEnd \/ Crash \/ StartRefused
    BY <2>2, <2>3 DEF CloseBegin, CloseEnd, Crash, StartRefused, SnapInv,
                      SnapshotMatchesStore
  <2>4. ASSUME ~(CloseBegin \/ CloseEnd \/ Crash \/ StartRefused)
        PROVE  SnapshotMatchesStore'
    <3>1. snapshot' = snapshot /\ proc' = proc /\ closing' = closing
      BY <1>5, <2>4, QuietActors
    <3>2. \A a \in Admins : op[a].pc = "publish" => op'[a] = op[a]
      <4>1. ASSUME NEW b \in Admins, Request(b) \/ MutationStep(b)
            PROVE  op[b].pc # "publish" /\ \A a \in Admins \ {b} : op'[a] = op[a]
        BY <1>5, <4>1 DEF MutationStep, Request, RefuseClosed, RefuseMissing, Enter,
             Acquire, Rollback, TypeInv, TypeOK
      <4>2. CASE ~\E b \in Admins : Request(b) \/ MutationStep(b)
        BY <1>5, <2>4, <4>2 DEF Next, AuthCheck, AuthLoad, AuthDecide, AuthReturn, vars, memory
      <4>. QED  BY <4>1, <4>2
    <3>. QED  BY <2>1, <3>1, <3>2 DEF SnapInv, SnapshotMatchesStore, Unexpired
  <2>. QED  BY <2>2, <2>3, <2>4 DEF SnapInv
<1>. QED  BY <1>1, <1>2, <1>3, <1>4, <1>5

\* Without Reload, which nothing in the program calls, the snapshot that
\* Authenticate reads is what the database holds active, between any two
\* mutations, through failed transactions, expiries, crashes and restarts
\* (Service.publish, NewService).
THEOREM SnapshotAlwaysCurrent ==
  ASSUME Reloaders = {}
  PROVE  Spec => []SnapshotMatchesStore
<1>1. Init => TypeInv /\ Serial /\ SnapInv
  BY TypeInit, SerialInit
     DEF Init, SnapInv, SnapshotMatchesStore, PublishCurrent, IdleOp
<1>2. TypeInv /\ Serial /\ SnapInv /\ [Next]_vars => TypeInv' /\ Serial' /\ SnapInv'
  BY TypeStep, SerialStep, SnapStep
<1>3. SnapInv => SnapshotMatchesStore
  BY DEF SnapInv
<1>. QED  BY <1>1, <1>2, <1>3, PTL DEF Spec

-----------------------------------------------------------------------------
(* A secret reported as withdrawn stays withdrawn, without MCP_API_KEY and *)
(* without Reload: the two ways in which TLC finds one to come back.       *)

\* crypto/rand never repeats itself, so rows that were ever inserted have
\* different secrets, all of them issued.
SecretsDistinct ==
  /\ \A k \in Keys : rows[k].status # "absent" => rows[k].secret \in issued
  /\ \A j, k \in Keys :
       (/\ rows[j].status # "absent" /\ rows[k].status # "absent"
        /\ rows[j].secret = rows[k].secret) => j = k

\* No row is active under a secret of the set S.
Inactive(S) ==
  \A k \in Keys : rows[k].status = "active" => rows[k].secret \notin S

Without(creds, S) == \A c \in creds : c.secret \notin S

Withdrawing(o) == o.pc = "publish" /\ o.kind \in {"disable", "rotate", "delete"}

\* A revoked secret is in no active row, not in the snapshot and in no list that
\* waits to become the snapshot; neither is one about to be reported revoked.
RevokedGone ==
  /\ revoked \subseteq issued /\ Inactive(revoked) /\ Without(snapshot, revoked)
  /\ \A a \in Admins :
       /\ op[a].pc = "publish" => Without(op[a].active, revoked)
       /\ Withdrawing(op[a]) => /\ op[a].old \in issued
                                /\ Inactive({op[a].old})
                                /\ Without(op[a].active, {op[a].old})

\* A doomed call has not found its secret.
DoomedFindNothing ==
  \A c \in Clients :
    auth[c].doomed =>
      /\ auth[c].pc = "load" => auth[c].secret \in revoked
      /\ auth[c].pc = "decide" => Without(auth[c].item, {auth[c].secret})
      /\ auth[c].pc # "accepted"

RevocationInv == SecretsDistinct /\ RevokedGone /\ DoomedFindNothing

-----------------------------------------------------------------------------
LEMMA RevocationInit == Init => RevocationInv
BY DEF Init, RevocationInv, SecretsDistinct, RevokedGone, DoomedFindNothing, Inactive,
       Without, Withdrawing, Absent, IdleOp, IdleAuth

\* The secret of the row that a transaction leaves.
LEMMA MutatedSecret ==
  ASSUME NEW o \in Op, NEW row \in Row, NEW s
  PROVE  /\ Mutated(o, row, s).secret
              = IF o.kind \in {"create", "rotate"} THEN s ELSE row.secret
         /\ o.kind \in {"disable", "delete"} => Mutated(o, row, s).status # "active"
         /\ o.kind = "update" => Mutated(o, row, s).status = row.status
<1>1. CASE o.kind = "create"
  BY <1>1 DEF Mutated, Edited
<1>2. CASE o.kind = "rotate"
  BY <1>2 DEF Mutated, Edited, Row
<1>3. CASE o.kind = "update"
  BY <1>3 DEF Mutated, Edited, Row
<1>4. CASE o.kind = "enable"
  BY <1>4 DEF Mutated, Edited, Row
<1>5. CASE o.kind = "disable"
  BY <1>5 DEF Mutated, Edited, Row
<1>6. CASE o.kind = "delete"
  BY <1>6 DEF Mutated, Edited, Row
<1>. QED  BY <1>1, <1>2, <1>3, <1>4, <1>5, <1>6 DEF Op, Kinds

LEMMA CommitRevocation ==
  ASSUME Legacy = NoSecret, TypeInv, Serial, RevocationInv,
         NEW a \in Admins, NEW k \in Keys, NEW s \in Secrets \cup {NoSecret},
         Commit(a, k, s)
  PROVE  RevocationInv'
<1>. DEFINE new == Mutated(op[a], rows[k], s)
<1>0. /\ op \in [Admins -> Op] /\ op[a] \in Op
      /\ rows \in [Keys -> Row] /\ rows[k] \in Row /\ rows' \in [Keys -> Row]
      /\ op[a].kind \in Kinds
  BY CommitType DEF TypeInv, TypeOK, Op
<1>1. /\ rows' = [rows EXCEPT ![k] = new]
      /\ new.secret = IF op[a].kind \in {"create", "rotate"} THEN s ELSE rows[k].secret
      /\ op[a].kind \in {"disable", "delete"} => new.status # "active"
      /\ op[a].kind = "update" => new.status = rows[k].status
  BY <1>0, MutatedSecret DEF Commit, CommitAt
<1>2. op[a].kind \in {"create", "rotate"}
        => s \in Secrets /\ s \notin issued /\ issued' = issued \cup {s}
  BY ConstantsOK DEF Commit, CommitAt, Generated
<1>3. op[a].kind \notin {"create", "rotate"} => issued' = issued
  BY DEF Commit, CommitAt, Generated
<1>4. op[a].kind # "create" => rows[k].status # "absent" /\ rows[k].secret \in issued
  BY DEF Commit, CommitAt, Permitted, Live, RevocationInv, SecretsDistinct
<1>5. SecretsDistinct'
  BY <1>0, <1>1, <1>2, <1>3, <1>4 DEF RevocationInv, SecretsDistinct
<1>6. revoked' = IF op[a].kind = "enable" THEN revoked \ {rows[k].secret} ELSE revoked
  BY DEF Commit, CommitAt
<1>7. revoked' \subseteq issued'
  BY <1>2, <1>3, <1>6 DEF RevocationInv, RevokedGone
<1>8. Inactive(revoked)'
  <2>1. \A j \in Keys \ {k} : rows'[j] = rows[j]
    BY <1>0, <1>1
  <2>2. new.status = "active" => new.secret \notin revoked'
    BY <1>0, <1>1, <1>2, <1>6 DEF Kinds, RevocationInv, RevokedGone, Inactive
  <2>. QED  BY <1>0, <1>1, <1>6, <2>1, <2>2 DEF RevocationInv, RevokedGone, Inactive
<1>9. \A S, t : Inactive(S)' => Without(ActiveAfter(t), S)
  BY DEF Inactive, Without, ActiveAfter, ListActive, CurrentlyActive
<1>10. /\ (\E t : op'[a].active = ActiveAfter(t)) /\ op'[a].old = rows[k].secret
       /\ op'[a].kind = op[a].kind
       /\ \A b \in Admins \ {a} : op'[b] = op[b] /\ op[b].pc # "publish"
  BY <1>0, OneHolder DEF Commit, CommitAt
<1>11. op[a].kind \in {"disable", "rotate", "delete"}
         => /\ rows[k].secret \in issued'
            /\ \A j \in Keys :
                 rows'[j].status = "active" => rows'[j].secret # rows[k].secret
  <2>. SUFFICES ASSUME op[a].kind \in {"disable", "rotate", "delete"},
                       NEW j \in Keys, rows'[j].status = "active"
                PROVE  rows[k].secret \in issued' /\ rows'[j].secret # rows[k].secret
    BY <1>2, <1>3, <1>4
  <2>1. CASE j = k
    BY <1>0, <1>1, <1>2, <1>3, <1>4, <2>1
  <2>2. CASE j # k
    BY <1>0, <1>1, <1>2, <1>3, <1>4, <2>2 DEF RevocationInv, SecretsDistinct
  <2>. QED  BY <2>1, <2>2
<1>12. RevokedGone'
  <2>1. Without(snapshot, revoked)'
    BY <1>6 DEF Commit, CommitAt, Without, RevocationInv, RevokedGone
  <2>2. \A S : Inactive(S)' => Without(op'[a].active, S)
    BY <1>9, <1>10
  <2>3. Withdrawing(op[a])' =>
          op'[a].old \in issued' /\ Inactive({op[a].old})'
    BY <1>10, <1>11 DEF Withdrawing, Inactive
  <2>4. /\ op'[a].pc = "publish" => Without(op[a].active, revoked)'
        /\ Withdrawing(op[a])' => Without(op[a].active, {op[a].old})'
    BY <1>8, <2>2, <2>3
  <2>5. \A b \in Admins \ {a} : op'[b].pc # "publish"
    BY <1>10
  <2>. QED  BY <1>7, <1>8, <2>1, <2>3, <2>4, <2>5 DEF RevokedGone, Withdrawing
<1>13. DoomedFindNothing'
  <2>. SUFFICES ASSUME NEW c \in Clients, auth'[c].doomed
                PROVE  /\ auth'[c].pc = "load" => auth'[c].secret \in revoked'
                       /\ auth'[c].pc = "decide" => Without(auth'[c].item, {auth'[c].secret})
                       /\ auth'[c].pc # "accepted"
    BY DEF DoomedFindNothing
  <2>1. auth[c] \in Auth /\ [auth[c] EXCEPT !.doomed = FALSE].doomed = FALSE
    BY DEF TypeInv, TypeOK, Auth
  <2>2. auth'[c] = auth[c] /\ (op[a].kind = "enable" => auth[c].secret # rows[k].secret)
    BY <2>1 DEF Commit, CommitAt
  <2>. QED  BY <1>6, <2>2 DEF RevocationInv, DoomedFindNothing
<1>. QED  BY <1>5, <1>12, <1>13 DEF RevocationInv

LEMMA PublishRevocation ==
  ASSUME TypeInv, Serial, RevocationInv, NEW a \in Admins, Publish(a)
  PROVE  RevocationInv'
<1>1. /\ op \in [Admins -> Op] /\ IdleOp.pc = "idle"
      /\ \A b \in Admins : op'[b].pc # "publish"
  BY OneHolder DEF Publish, TypeInv, TypeOK, IdleOp
<1>2. /\ snapshot' = op[a].active
      /\ rows' = rows /\ issued' = issued /\ auth' = auth
      /\ revoked' = IF Withdrawing(op[a]) THEN revoked \cup {op[a].old} ELSE revoked
  BY DEF Publish, Published, Withdrawing, store
<1>3. SecretsDistinct'
  BY <1>2 DEF RevocationInv, SecretsDistinct
<1>4. RevokedGone'
  BY <1>1, <1>2 DEF Publish, RevocationInv, RevokedGone, Inactive, Without, Withdrawing
<1>5. DoomedFindNothing'
  BY <1>2 DEF RevocationInv, DoomedFindNothing
<1>. QED  BY <1>3, <1>4, <1>5 DEF RevocationInv

LEMMA AuthRevocation ==
  ASSUME TypeInv, RevocationInv, NEW c \in Clients,
         (\E s \in Secrets : AuthCheck(c, s)) \/ AuthLoad(c) \/ AuthDecide(c)
           \/ AuthReturn(c)
  PROVE  RevocationInv'
<1>1. /\ rows' = rows /\ issued' = issued /\ revoked' = revoked
      /\ snapshot' = snapshot /\ op' = op
  BY DEF AuthCheck, AuthLoad, AuthDecide, AuthReturn, store
<1>2. auth \in [Clients -> Auth] /\ auth[c] \in Auth /\ ~IdleAuth.doomed
  BY DEF TypeInv, TypeOK, IdleAuth
<1>. DEFINE Finds(o) == /\ o.pc = "load" => o.secret \in revoked
                        /\ o.pc = "decide" => Without(o.item, {o.secret})
                        /\ o.pc # "accepted"
<1>3. ASSUME NEW o, o.doomed => Finds(o), auth' = [auth EXCEPT ![c] = o]
      PROVE  DoomedFindNothing'
  <2>. SUFFICES ASSUME NEW d \in Clients, auth'[d].doomed PROVE Finds(auth'[d])
    BY <1>1 DEF DoomedFindNothing
  <2>1. auth'[d] = IF d = c THEN o ELSE auth[d]
    BY <1>2, <1>3
  <2>2. auth[d].doomed => Finds(auth[d])
    BY DEF RevocationInv, DoomedFindNothing
  <2>. QED  BY <1>3, <2>1, <2>2
<1>4. ASSUME NEW s \in Secrets, AuthCheck(c, s) PROVE DoomedFindNothing'
  <2>. DEFINE o == [pc |-> "load", secret |-> s, item |-> {}, doomed |-> s \in revoked]
  <2>1. auth' = [auth EXCEPT ![c] = o]
    BY <1>4 DEF AuthCheck
  <2>2. o.doomed => Finds(o)
    OBVIOUS
  <2>. HIDE DEF o
  <2>. QED  BY <1>3, <2>1, <2>2
<1>5. ASSUME AuthLoad(c) PROVE DoomedFindNothing'
  <2>1. auth[c].doomed => Without(Lookup(snapshot, auth[c].secret), {auth[c].secret})
    BY <1>5 DEF AuthLoad, RevocationInv, RevokedGone, DoomedFindNothing, Lookup, Without
  <2>2. [auth[c] EXCEPT !.pc = "decide"] \in Auth
    BY <1>2 DEF Auth
  <2>3. PICK q \in Auth : /\ q.pc = "decide" /\ q.secret = auth[c].secret
                          /\ q.doomed = auth[c].doomed
                          /\ auth' = [auth EXCEPT ![c] =
                               [q EXCEPT !.item = Lookup(snapshot, auth[c].secret)]]
    BY <1>2, <1>5, <2>2 DEF AuthLoad, Auth
  <2>. DEFINE o == [q EXCEPT !.item = Lookup(snapshot, auth[c].secret)]
  <2>4. o.doomed => Finds(o)
    BY <2>1, <2>3 DEF Auth
  <2>5. auth' = [auth EXCEPT ![c] = o]
    BY <2>3
  <2>. HIDE DEF o
  <2>. QED  BY <1>3, <2>4, <2>5
<1>6. ASSUME AuthDecide(c) PROVE DoomedFindNothing'
  <2>1. auth[c].doomed => ~Accepts(auth[c].item, auth[c].secret)
    BY <1>6 DEF AuthDecide, Accepts, RevocationInv, DoomedFindNothing, Without
  <2>2. CASE Accepts(auth[c].item, auth[c].secret)
    <3>1. [auth[c] EXCEPT !.pc = "accepted"] \in Auth
            /\ [auth[c] EXCEPT !.pc = "accepted"].doomed = auth[c].doomed
      BY <1>2 DEF Auth
    <3>2. PICK q \in Auth : /\ q.doomed = auth[c].doomed
                            /\ auth' = [auth EXCEPT ![c] = [q EXCEPT !.item = {}]]
      BY <1>2, <1>6, <2>2, <3>1 DEF AuthDecide
    <3>. DEFINE o == [q EXCEPT !.item = {}]
    <3>3. ~o.doomed
      BY <2>1, <2>2, <3>2 DEF Auth
    <3>4. auth' = [auth EXCEPT ![c] = o]
      BY <3>2
    <3>. HIDE DEF o
    <3>. QED  BY <1>3, <3>3, <3>4
  <2>3. CASE ~Accepts(auth[c].item, auth[c].secret)
    <3>1. auth' = [auth EXCEPT ![c] = IdleAuth]
      BY <1>6, <2>3 DEF AuthDecide
    <3>2. IdleAuth.doomed => Finds(IdleAuth)
      BY <1>2
    <3>. QED  BY <1>3, <3>1, <3>2
  <2>. QED  BY <2>2, <2>3
<1>7. ASSUME AuthReturn(c) PROVE DoomedFindNothing'
  <2>1. auth' = [auth EXCEPT ![c] = IdleAuth]
    BY <1>7 DEF AuthReturn
  <2>2. IdleAuth.doomed => Finds(IdleAuth)
    BY <1>2
  <2>. QED  BY <1>3, <2>1, <2>2
<1>8. SecretsDistinct' /\ RevokedGone'
  BY <1>1 DEF RevocationInv, SecretsDistinct, RevokedGone, Inactive, Without, Withdrawing
<1>. QED  BY <1>4, <1>5, <1>6, <1>7, <1>8 DEF RevocationInv

LEMMA RevocationStep ==
  ASSUME Reloaders = {}, Legacy = NoSecret
  PROVE  TypeInv /\ Serial /\ RevocationInv /\ [Next]_vars => RevocationInv'
<1>. SUFFICES ASSUME TypeInv, Serial, RevocationInv, [Next]_vars PROVE RevocationInv'
  OBVIOUS
<1>1. CASE \E a \in Admins, k \in Keys, s \in Secrets \cup {NoSecret} : Commit(a, k, s)
  BY <1>1, CommitRevocation
<1>2. CASE \E a \in Admins : Publish(a)
  BY <1>2, PublishRevocation
<1>3. CASE \E c \in Clients : \/ \E s \in Secrets : AuthCheck(c, s)
                              \/ AuthLoad(c) \/ AuthDecide(c) \/ AuthReturn(c)
  BY <1>3, AuthRevocation
<1>4. CASE StartList
  <2>1. Without(ListActive(rows, clock), revoked)
    BY DEF RevocationInv, RevokedGone, Inactive, Without, ListActive, CurrentlyActive
  <2>. QED  BY <1>4, <2>1
       DEF StartList, Published, ActiveAfter, Serial, DownIsIdle, store, RevocationInv,
           SecretsDistinct, RevokedGone, Inactive, Without, Withdrawing, DoomedFindNothing
<1>5. CASE Crash \/ CloseEnd
  BY <1>5 DEF Crash, CloseEnd, store, IdleOp, IdleAuth, RevocationInv, SecretsDistinct,
              RevokedGone, Inactive, Without, Withdrawing, DoomedFindNothing
<1>6. ASSUME ~\E a \in Admins, k \in Keys, s \in Secrets \cup {NoSecret} : Commit(a, k, s),
             ~\E a \in Admins : Publish(a),
             ~\E c \in Clients : \/ \E s \in Secrets : AuthCheck(c, s)
                                 \/ AuthLoad(c) \/ AuthDecide(c) \/ AuthReturn(c),
             ~StartList, ~(Crash \/ CloseEnd)
      PROVE  RevocationInv'
  <2>1. ~\E k \in Keys : StartImport(k)
    BY DEF StartImport, MustImport
  <2>2. /\ rows' = rows
        /\ \A a \in Admins : op'[a].pc = "publish" => op'[a] = op[a]
    BY <1>6, <2>1, StoreWriters
  <2>3. issued' = issued /\ revoked' = revoked /\ snapshot' = snapshot /\ auth' = auth
    <3>1. ASSUME NEW a \in Admins, Request(a) \/ MutationStep(a) PROVE auth' = auth
      BY <1>6, <3>1 DEF MutationStep, Request, RefuseClosed, RefuseMissing, Enter, Rollback
    <3>2. auth' = auth
      BY <1>6, <2>1, <3>1 DEF Next, CloseBegin, StartRefused, Tick, vars, memory
    <3>3. CloseBegin \/ StartRefused => snapshot' = snapshot
      BY DEF CloseBegin, StartRefused, memory
    <3>. QED  BY <1>6, <2>1, <3>2, <3>3, QuietActors
  <2>. QED  BY <2>2, <2>3 DEF RevocationInv, SecretsDistinct, RevokedGone, Inactive,
                              Without, Withdrawing, DoomedFindNothing
<1>. QED  BY <1>1, <1>2, <1>3, <1>4, <1>5, <1>6

\* Without MCP_API_KEY and without Reload, a call that begins after an
\* administrator was told that its secret is disabled, rotated away or deleted is
\* never authenticated, however the call, later mutations, Close, crashes and
\* restarts interleave, until the key is enabled again (Service.Authenticate).
THEOREM RevokedStaysRevoked ==
  ASSUME Reloaders = {}, Legacy = NoSecret
  PROVE  Spec => []RevokedNeverAccepted
<1>1. Init => TypeInv /\ Serial /\ RevocationInv
  BY TypeInit, SerialInit, RevocationInit
<1>2. TypeInv /\ Serial /\ RevocationInv /\ [Next]_vars
        => TypeInv' /\ Serial' /\ RevocationInv'
  BY TypeStep, SerialStep, RevocationStep
<1>3. RevocationInv => RevokedNeverAccepted
  BY DEF RevocationInv, DoomedFindNothing, RevokedNeverAccepted
<1>. QED  BY <1>1, <1>2, <1>3, PTL DEF Spec

-----------------------------------------------------------------------------
(* Every published list has one credential of each key and each prefix     *)

\* The UNIQUE column: rows that were ever inserted have different prefixes.
PrefixesDistinct(table) ==
  \A j, k \in Keys :
    (/\ table[j].status # "absent" /\ table[k].status # "absent"
     /\ StoredPrefix[table[j].secret] = StoredPrefix[table[k].secret]) => j = k

OnePerPrefix(creds) ==
  \A c, d \in creds :
    (c.id = d.id \/ StoredPrefix[c.secret] = StoredPrefix[d.secret]) => c = d

\* The snapshot and all the lists that may become the snapshot.
ReadingInv ==
  /\ PrefixesDistinct(rows)
  /\ OnePerPrefix(snapshot)
  /\ \A a \in Admins : OnePerPrefix(op[a].active)
  /\ \A r \in Reloaders : OnePerPrefix(reload[r].active)

LEMMA ListActiveReading ==
  ASSUME NEW table, PrefixesDistinct(table), NEW t
  PROVE  OnePerPrefix(ListActive(table, t))
BY DEF PrefixesDistinct, OnePerPrefix, ListActive, CurrentlyActive

\* A transaction keeps the UNIQUE column's promise: only a new secret changes it,
\* and PrefixFree guards that one.
LEMMA CommitReading ==
  ASSUME TypeInv, ReadingInv, NEW a \in Admins, NEW k \in Keys,
         NEW s \in Secrets \cup {NoSecret}, Commit(a, k, s)
  PROVE  ReadingInv'
<1>. DEFINE new == Mutated(op[a], rows[k], s)
<1>1. /\ op \in [Admins -> Op] /\ op[a] \in Op
      /\ rows \in [Keys -> Row] /\ rows[k] \in Row /\ op[a].kind \in Kinds
  BY DEF TypeInv, TypeOK, Op
<1>2. /\ rows' = [rows EXCEPT ![k] = new]
      /\ new.secret = IF op[a].kind \in {"create", "rotate"} THEN s ELSE rows[k].secret
  BY <1>1, MutatedSecret DEF Commit, CommitAt
<1>3. /\ op[a].kind \in {"create", "rotate"} => PrefixFree(k, s)
      /\ op[a].kind # "create" => rows[k].status # "absent"
  BY DEF Commit, CommitAt, Permitted, Live
<1>4. ASSUME NEW j \in Keys \ {k}, rows[j].status # "absent"
      PROVE  StoredPrefix[rows[j].secret] # StoredPrefix[new.secret]
  <2>1. CASE op[a].kind \in {"create", "rotate"}
    BY <1>2, <1>3, <1>4, <2>1 DEF PrefixFree
  <2>2. CASE op[a].kind \notin {"create", "rotate"}
    BY <1>2, <1>3, <1>4, <2>2 DEF ReadingInv, PrefixesDistinct
  <2>. QED  BY <2>1, <2>2
<1>5. /\ rows'[k] = new /\ \A j \in Keys \ {k} : rows'[j] = rows[j]
  BY <1>1, <1>2
<1>6. PrefixesDistinct(rows')
  <2>. HIDE DEF new
  <2>. QED  BY <1>4, <1>5 DEF ReadingInv, PrefixesDistinct
<1>7. \A t : OnePerPrefix(ActiveAfter(t))
  BY <1>6, ListActiveReading DEF ActiveAfter
<1>8. /\ (\E t : op'[a].active = ActiveAfter(t)) /\ \A b \in Admins \ {a} : op'[b] = op[b]
      /\ snapshot' = snapshot /\ reload' = reload
  BY <1>1 DEF Commit, CommitAt
<1>9. \A b \in Admins : OnePerPrefix(op'[b].active)
  BY <1>7, <1>8 DEF ReadingInv
<1>. QED  BY <1>6, <1>8, <1>9 DEF ReadingInv, OnePerPrefix

\* NewService publishes what it read, after an import too.
LEMMA StartReading ==
  ASSUME TypeInv, ReadingInv, StartList \/ \E k \in Keys : StartImport(k)
  PROVE  ReadingInv'
<1>1. PrefixesDistinct(rows')
  <2>1. CASE StartList
    BY <2>1 DEF StartList, store, ReadingInv, PrefixesDistinct
  <2>2. ASSUME NEW k \in Keys, StartImport(k) PROVE PrefixesDistinct(rows')
    <3>1. /\ rows \in [Keys -> Row] /\ rows'[k].secret = Legacy
          /\ \A j \in Keys \ {k} : rows'[j] = rows[j]
      BY <2>2 DEF StartImport, TypeInv, TypeOK
    <3>. QED  BY <2>2, <3>1 DEF StartImport, PrefixFree, ReadingInv, PrefixesDistinct
  <2>. QED  BY <2>1, <2>2
<1>2. OnePerPrefix(ListActive(rows', clock))
  BY <1>1, ListActiveReading
<1>3. snapshot' = ListActive(rows', clock) /\ op' = op /\ reload' = reload
  BY DEF StartList, StartImport, Published, ActiveAfter
<1>. QED  BY <1>1, <1>2, <1>3 DEF ReadingInv, OnePerPrefix

\* Requests and readers leave rows and snapshot alone, and an operation keeps its
\* list or has an empty one.
LEMMA QuietReading ==
  ASSUME TypeInv, ReadingInv, rows' = rows, snapshot' = snapshot \/ snapshot' = {},
         \A a \in Admins : op'[a].active \in {op[a].active, {}},
         \A r \in Reloaders : reload'[r].active \in {reload[r].active, {}}
  PROVE  ReadingInv'
BY DEF ReadingInv, PrefixesDistinct, OnePerPrefix

LEMMA ReadingStep == TypeInv /\ ReadingInv /\ [Next]_vars => ReadingInv'
<1>. SUFFICES ASSUME TypeInv, ReadingInv, [Next]_vars PROVE ReadingInv'
  OBVIOUS
<1>1. /\ op \in [Admins -> Op] /\ reload \in [Reloaders -> Reload]
      /\ IdleOp.active = {} /\ IdleReload.active = {}
  BY DEF TypeInv, TypeOK, IdleOp, IdleReload
<1>2. ASSUME NEW a \in Admins, Request(a) PROVE ReadingInv'
  <2>1. op'[a].active = op[a].active
    <3>1. [op[a] EXCEPT !.pc = "lock"] \in Op
            /\ [op[a] EXCEPT !.pc = "lock"].active = op[a].active
      BY <1>1 DEF Op
    <3>2. PICK o \in Op : /\ o.active = op[a].active
                          /\ op' = [op EXCEPT ![a] = [o EXCEPT !.now = clock]]
      BY <1>1, <1>2, <3>1 DEF Request
    <3>. QED  BY <1>1, <3>2 DEF Op
  <2>2. \A b \in Admins \ {a} : op'[b] = op[b]
    BY <1>1, <1>2 DEF Request
  <2>. QED  BY <1>2, <2>1, <2>2, QuietReading DEF Request, store
<1>3. ASSUME NEW a \in Admins, RefuseClosed(a) \/ RefuseMissing(a) \/ Rollback(a)
      PROVE  ReadingInv'
  BY <1>1, <1>3, QuietReading DEF RefuseClosed, RefuseMissing, Rollback, store
<1>4. ASSUME NEW a \in Admins, NEW kind, NEW k, NEW v, NEW e, Enter(a, kind, k, v, e)
      PROVE  ReadingInv'
  BY <1>1, <1>4, QuietReading DEF Enter, store
<1>5. ASSUME NEW a \in Admins, NEW k \in Keys, NEW s \in Secrets \cup {NoSecret},
             Commit(a, k, s)
      PROVE  ReadingInv'
  BY <1>5, CommitReading
<1>6. ASSUME NEW a \in Admins, Publish(a) PROVE ReadingInv'
  <2>1. /\ snapshot' = op[a].active /\ rows' = rows /\ reload' = reload
        /\ \A b \in Admins : op'[b].active \in {op[b].active, {}}
    BY <1>1, <1>6 DEF Publish, Published, store
  <2>. QED  BY <2>1 DEF ReadingInv, PrefixesDistinct, OnePerPrefix
<1>7. ASSUME NEW c \in Clients,
             (\E s \in Secrets : AuthCheck(c, s)) \/ AuthLoad(c) \/ AuthDecide(c)
               \/ AuthReturn(c)
      PROVE  ReadingInv'
  BY <1>7, QuietReading DEF AuthCheck, AuthLoad, AuthDecide, AuthReturn, store
<1>8. ASSUME NEW r \in Reloaders, ReloadRead(r) PROVE ReadingInv'
  <2>1. OnePerPrefix(ListActive(rows, clock))
    BY ListActiveReading DEF ReadingInv
  <2>2. /\ reload'[r].active = ListActive(rows, clock)
        /\ \A q \in Reloaders \ {r} : reload'[q] = reload[q]
        /\ rows' = rows /\ snapshot' = snapshot /\ op' = op
    BY <1>1, <1>8 DEF ReloadRead, store
  <2>. QED  BY <2>1, <2>2 DEF ReadingInv, PrefixesDistinct, OnePerPrefix
<1>9. ASSUME NEW r \in Reloaders, ReloadPublish(r) PROVE ReadingInv'
  <2>1. /\ snapshot' = reload[r].active /\ rows' = rows /\ op' = op
        /\ \A q \in Reloaders : reload'[q].active \in {reload[q].active, {}}
    BY <1>1, <1>9 DEF ReloadPublish, Published, store
  <2>. QED  BY <2>1 DEF ReadingInv, PrefixesDistinct, OnePerPrefix
<1>10. CASE CloseBegin \/ CloseEnd \/ Crash \/ StartRefused \/ Tick \/ UNCHANGED vars
  BY <1>1, <1>10, QuietReading
     DEF CloseBegin, CloseEnd, Crash, StartRefused, Tick, vars, memory, store
<1>11. CASE StartList \/ \E k \in Keys : StartImport(k)
  BY <1>11, StartReading
<1>. QED  BY <1>2, <1>3, <1>4, <1>5, <1>6, <1>7, <1>8, <1>9, <1>10, <1>11
          DEF Next, MutationStep

\* A map keyed by prefix holds every list that publish is given, which is why
\* Published can be the list itself (Service.publish, the UNIQUE column of
\* mcp_api_keys).
THEOREM ListsFitTheMap == Spec => []OnePerPrefix(snapshot)
<1>1. Init => TypeInv /\ ReadingInv
  BY TypeInit DEF Init, ReadingInv, PrefixesDistinct, OnePerPrefix, Absent, IdleOp,
                  IdleReload
<1>2. TypeInv /\ ReadingInv /\ [Next]_vars => TypeInv' /\ ReadingInv'
  BY TypeStep, ReadingStep
<1>3. ReadingInv => OnePerPrefix(snapshot)
  BY DEF ReadingInv
<1>. QED  BY <1>1, <1>2, <1>3, PTL DEF Spec

-----------------------------------------------------------------------------
(* Reload beside mutations                                                 *)

\* creds is a reading of the table at an instant that has come.
IsReading(creds, table) == \E t \in 0 .. clock : creds = ListActive(table, t)

\* A mutation, which keeps others out, is about to publish a reading of the table
\* of the moment.
MutationsRead ==
  \A a \in Admins : op[a].pc = "publish" => IsReading(op[a].active, rows)

\* A Reload has a reading of a table that there has been since it read.
ReloadsRead ==
  \A r \in Reloaders :
    /\ reload[r].pc = "idle" => rows \in read[r]
    /\ reload[r].pc = "publish" => \E table \in read[r] : IsReading(reload[r].active, table)

ReloadInv == MutationsRead /\ ReloadsRead /\ SnapshotIsOneReading

\* A reading stays one while the clock advances.
LEMMA ReadingStays ==
  ASSUME clock \in Nat, clock' \in {clock, clock + 1}, NEW creds, NEW table,
         IsReading(creds, table)
  PROVE  \E t \in 0 .. clock' : creds = ListActive(table, t)
<1>1. PICK t \in 0 .. clock : creds = ListActive(table, t)
  BY DEF IsReading
<1>2. t \in 0 .. clock'
  BY <1>1
<1>. QED  BY <1>1, <1>2

\* Steps that leave clock, snapshot and Reloads alone, and whatever waits to be
\* published.
Quiet ==
  /\ clock' = clock /\ snapshot' = snapshot /\ reload' = reload
  /\ proc' = "up" => proc = "up"
  /\ closing' # "closed" => closing # "closed"
  /\ \A a \in Admins : op[a].pc = "publish" => op'[a] = op[a]

\* All the others.
Loud ==
  \/ \E a \in Admins, k \in Keys, s \in Secrets \cup {NoSecret} : Commit(a, k, s)
  \/ \E a \in Admins : Publish(a)
  \/ \E r \in Reloaders : ReloadRead(r) \/ ReloadPublish(r)
  \/ StartList \/ (\E k \in Keys : StartImport(k)) \/ CloseEnd \/ Crash \/ Tick

LEMMA QuietOrLoud ==
  ASSUME TypeInv, Next
  PROVE  Quiet \/ Loud
<1>0. op \in [Admins -> Op]
  BY DEF TypeInv, TypeOK
<1>1. ASSUME NEW a \in Admins, Request(a) \/ MutationStep(a)
      PROVE  Quiet \/ Loud
  BY <1>0, <1>1 DEF MutationStep, Request, RefuseClosed, RefuseMissing, Acquire, Enter,
                    Rollback, Quiet, Loud
<1>2. ASSUME NEW c \in Clients,
             (\E s \in Secrets : AuthCheck(c, s)) \/ AuthLoad(c) \/ AuthDecide(c)
               \/ AuthReturn(c)
      PROVE  Quiet
  BY <1>2 DEF AuthCheck, AuthLoad, AuthDecide, AuthReturn, Quiet
<1>3. CASE CloseBegin \/ StartRefused
  BY <1>3 DEF CloseBegin, StartRefused, Quiet, memory
<1>. QED  BY <1>1, <1>2, <1>3 DEF Next, Loud

LEMMA ClockStep ==
  ASSUME TypeInv, [Next]_vars
  PROVE  clock \in Nat /\ clock' \in {clock, clock + 1}
<1>1. clock \in Nat
  BY ConstantsOK DEF TypeInv, TypeOK
<1>2. CASE Loud
  BY <1>1, <1>2 DEF Loud, Commit, CommitAt, Publish, ReloadRead, ReloadPublish, CloseEnd,
              Crash, StartList, StartImport, Tick
<1>3. CASE Quiet \/ UNCHANGED vars
  BY <1>1, <1>3 DEF Quiet, vars
<1>. QED  BY <1>1, <1>2, <1>3, QuietOrLoud

LEMMA MutationsReadStep ==
  ASSUME TypeInv, Serial, MutationsRead, [Next]_vars
  PROVE  MutationsRead'
<1>0. op \in [Admins -> Op] /\ clock \in Nat /\ clock' \in {clock, clock + 1}
  BY ClockStep DEF TypeInv, TypeOK
<1>1. ASSUME NEW a \in Admins, NEW k \in Keys, NEW s \in Secrets \cup {NoSecret},
             Commit(a, k, s)
      PROVE  MutationsRead'
  <2>1. /\ clock' = clock
        /\ \A b \in Admins \ {a} : op'[b] = op[b] /\ op[b].pc # "publish"
    BY <1>0, <1>1, OneHolder DEF Commit, CommitAt
  <2>2. \E t \in 0 .. clock : op'[a].active = ListActive(rows', t)
    <3>1. PICK judged \in 0 .. MaxClock, t \in 0 .. MaxClock : CommitAt(a, k, s, judged, t)
      BY <1>1 DEF Commit
    <3>2. t \in 0 .. clock
      BY <1>0, <3>1 DEF CommitAt
    <3>3. op'[a].active = ListActive(rows', t)
      BY <1>0, <3>1 DEF CommitAt, ActiveAfter
    <3>. QED  BY <3>2, <3>3
  <2>. QED  BY <2>1, <2>2 DEF MutationsRead, IsReading
<1>2. ASSUME NEW k \in Keys, StartImport(k) PROVE MutationsRead'
  BY <1>2 DEF StartImport, Serial, DownIsIdle, MutationsRead
<1>3. ASSUME ~\E a \in Admins, k \in Keys, s \in Secrets \cup {NoSecret} : Commit(a, k, s),
             ~\E k \in Keys : StartImport(k)
      PROVE  MutationsRead'
  <2>1. rows' = rows /\ \A a \in Admins : op'[a].pc = "publish" => op'[a] = op[a]
    BY <1>3, StoreWriters
  <2>. SUFFICES ASSUME NEW a \in Admins, op'[a].pc = "publish"
                PROVE  \E t \in 0 .. clock' : op'[a].active = ListActive(rows', t)
    BY DEF MutationsRead, IsReading
  <2>2. op'[a] = op[a] /\ IsReading(op[a].active, rows)
    BY <2>1 DEF MutationsRead
  <2>. QED  BY <1>0, <2>1, <2>2, ReadingStays
<1>. QED  BY <1>1, <1>2, <1>3

LEMMA ReloadsReadStep ==
  ASSUME TypeInv, Serial, ReloadsRead, [Next]_vars, Remember
  PROVE  ReloadsRead'
<1>0. /\ reload \in [Reloaders -> Reload] /\ IdleReload.pc = "idle"
      /\ clock \in Nat /\ clock' \in {clock, clock + 1}
  BY ClockStep DEF TypeInv, TypeOK, IdleReload
<1>1. \A r \in Reloaders :
        read'[r] = IF reload'[r].pc = "idle" THEN {rows'} ELSE read[r] \cup {rows'}
  BY DEF Remember
<1>2. \A r \in Reloaders :
        \/ reload'[r] = reload[r]
        \/ reload'[r].pc = "idle"
        \/ reload[r].pc = "idle" /\ reload'[r].active = ListActive(rows, clock)
  <2>1. CASE Loud
    BY <1>0, <2>1 DEF Loud, Commit, CommitAt, Publish, ReloadRead, ReloadPublish,
                      CloseEnd, Crash, StartList, StartImport, Tick, memory
  <2>2. CASE Quiet \/ UNCHANGED vars
    BY <2>2 DEF Quiet, vars
  <2>. QED  BY <2>1, <2>2, QuietOrLoud
<1>3. \A r \in Reloaders : reload'[r].pc = "idle" => rows' \in read'[r]
  BY <1>1
<1>4. ASSUME NEW r \in Reloaders, reload'[r].pc = "publish"
      PROVE  \E table \in read'[r], t \in 0 .. clock' :
               reload'[r].active = ListActive(table, t)
  <2>1. CASE reload'[r] = reload[r]
    <3>1. PICK table \in read[r] : IsReading(reload[r].active, table)
      BY <1>4, <2>1 DEF ReloadsRead
    <3>2. table \in read'[r]
      BY <1>1, <1>4, <3>1
    <3>. QED  BY <1>0, <2>1, <3>1, <3>2, ReadingStays
  <2>2. CASE reload[r].pc = "idle" /\ reload'[r].active = ListActive(rows, clock)
    <3>1. rows \in read'[r]
      BY <1>1, <1>4, <2>2 DEF ReloadsRead
    <3>2. clock \in 0 .. clock'
      BY <1>0
    <3>. QED  BY <2>2, <3>1, <3>2
  <2>. QED  BY <1>2, <1>4, <2>1, <2>2
<1>. QED  BY <1>3, <1>4 DEF ReloadsRead, IsReading

\* Whoever installs a snapshot installs a reading, and `shown` holds its table.
LEMMA ShownStep ==
  ASSUME TypeInv, Serial, ReloadInv, Next, Remember
  PROVE  SnapshotIsOneReading'
<1>. SUFFICES ASSUME proc' = "up", closing' # "closed"
              PROVE  \E table \in shown', t \in 0 .. clock' : snapshot' = ListActive(table, t)
  BY DEF SnapshotIsOneReading
<1>0. /\ op \in [Admins -> Op] /\ reload \in [Reloaders -> Reload]
      /\ IdleReload.pc = "idle" /\ IdleOp.pc = "idle"
      /\ clock \in Nat /\ clock' \in {clock, clock + 1}
  BY ClockStep DEF TypeInv, TypeOK, IdleReload, IdleOp
<1>1. ASSUME NEW a \in Admins, Publish(a)
      PROVE  \E table \in shown', t \in 0 .. clock' : snapshot' = ListActive(table, t)
  <2>1. /\ snapshot' = op[a].active /\ rows' = rows /\ clock' = clock
        /\ reload' = reload /\ op[a].pc = "publish" /\ op'[a].pc = "idle"
    BY <1>0, <1>1 DEF Publish, Published, store
  <2>2. Finished = {} /\ PublishedItsOwn
    BY <2>1 DEF Finished, PublishedItsOwn
  <2>3. shown' = {rows}
    BY <2>1, <2>2 DEF Remember
  <2>. QED  BY <2>1, <2>3 DEF ReloadInv, MutationsRead, IsReading
<1>2. ASSUME NEW r \in Reloaders, ReloadPublish(r)
      PROVE  \E table \in shown', t \in 0 .. clock' : snapshot' = ListActive(table, t)
  <2>1. /\ snapshot' = reload[r].active /\ clock' = clock
        /\ reload[r].pc = "publish" /\ reload'[r].pc = "idle"
    BY <1>0, <1>2 DEF ReloadPublish, Published
  <2>2. r \in Finished
    BY <2>1 DEF Finished
  <2>3. read[r] \subseteq shown'
    BY <2>2 DEF Remember
  <2>. QED  BY <2>1, <2>3 DEF ReloadInv, ReloadsRead, IsReading
<1>3. CASE StartList \/ \E k \in Keys : StartImport(k)
  <2>1. /\ snapshot' = ListActive(rows', clock) /\ clock' = clock
        /\ reload' = reload /\ proc = "down"
    BY <1>3 DEF StartList, StartImport, Published, ActiveAfter
  <2>2. Finished = {} /\ PublishedItsOwn
    BY <2>1 DEF Finished, PublishedItsOwn
  <2>3. shown' = {rows'} /\ clock \in 0 .. clock'
    BY <1>0, <2>1, <2>2 DEF Remember
  <2>. QED  BY <2>1, <2>3
<1>4. ASSUME ~\E a \in Admins : Publish(a), ~\E r \in Reloaders : ReloadPublish(r),
             ~(StartList \/ \E k \in Keys : StartImport(k))
      PROVE  \E table \in shown', t \in 0 .. clock' : snapshot' = ListActive(table, t)
  <2>1. ~CloseEnd /\ ~Crash /\ ~StartRefused
    BY DEF CloseEnd, Crash, StartRefused
  <2>2. Quiet \/ (\E a \in Admins, k \in Keys, s \in Secrets \cup {NoSecret} : Commit(a, k, s))
          \/ (\E r \in Reloaders : ReloadRead(r)) \/ Tick
    BY <1>4, <2>1, QuietOrLoud DEF Loud
  <2>3. /\ snapshot' = snapshot /\ proc = "up" /\ closing # "closed"
        /\ \A r \in Reloaders : reload[r].pc = "publish" => reload'[r].pc # "idle"
        /\ \A a \in Admins : op[a].pc = "publish" => op'[a].pc # "idle"
    <3>1. CASE Quiet
      BY <3>1 DEF Quiet
    <3>2. CASE \E a \in Admins, k \in Keys, s \in Secrets \cup {NoSecret} : Commit(a, k, s)
      BY <1>0, <3>2 DEF Commit, CommitAt
    <3>3. CASE \E r \in Reloaders : ReloadRead(r)
      BY <1>0, <3>3 DEF ReloadRead
    <3>4. CASE Tick
      BY <3>4 DEF Tick, memory
    <3>. QED  BY <2>2, <3>1, <3>2, <3>3, <3>4
  <2>5. Finished = {} /\ ~PublishedItsOwn
    BY <2>3 DEF Finished, PublishedItsOwn
  <2>6. shown' = shown \cup {rows'}
    BY <2>5 DEF Remember
  <2>7. PICK table \in shown : IsReading(snapshot, table)
    BY <2>3 DEF ReloadInv, SnapshotIsOneReading, IsReading
  <2>. QED  BY <1>0, <2>3, <2>6, <2>7, ReadingStays
<1>. QED  BY <1>1, <1>2, <1>3, <1>4

\* Beside mutations, Close, crashes and any number of Reloads, the snapshot is one
\* whole reading of one table, and not of one that was gone before whoever installed
\* it had read or committed (Service.Reload, publish, NewService).
THEOREM SnapshotAlwaysOneReading == HistorySpec => []SnapshotIsOneReading
<1>1. HistoryInit => TypeInv /\ Serial /\ ReloadInv
  <2>. SUFFICES ASSUME HistoryInit PROVE TypeInv /\ Serial /\ ReloadInv
    OBVIOUS
  <2>1. TypeInv /\ Serial
    BY TypeInit, SerialInit DEF HistoryInit
  <2>2. ReloadInv
    BY DEF HistoryInit, Init, ReloadInv, MutationsRead, ReloadsRead,
           SnapshotIsOneReading, IdleOp, IdleReload
  <2>. QED  BY <2>1, <2>2
<1>2. TypeInv /\ Serial /\ ReloadInv /\ [Next /\ Remember]_<<vars, history>>
        => TypeInv' /\ Serial' /\ ReloadInv'
  <2>. SUFFICES ASSUME TypeInv, Serial, ReloadInv, [Next /\ Remember]_<<vars, history>>
                PROVE  TypeInv' /\ Serial' /\ ReloadInv'
    OBVIOUS
  <2>1. CASE Next /\ Remember
    BY <2>1, TypeStep, SerialStep, MutationsReadStep, ReloadsReadStep, ShownStep
       DEF ReloadInv
  <2>2. CASE UNCHANGED <<vars, history>>
    <3>1. TypeInv' /\ Serial'
      BY <2>2, TypeStep, SerialStep
    <3>2. ReloadInv'
      BY <2>2 DEF vars, history, ReloadInv, MutationsRead, ReloadsRead, IsReading,
                  SnapshotIsOneReading
    <3>. QED  BY <3>1, <3>2
  <2>. QED  BY <2>1, <2>2
<1>3. ReloadInv => SnapshotIsOneReading
  BY DEF ReloadInv
<1>. QED  BY <1>1, <1>2, <1>3, PTL DEF HistorySpec

-----------------------------------------------------------------------------
(* A valid key is accepted                                                 *)

\* A secret that the database holds active authenticates, between any two
\* mutations, if an imported MCP_API_KEY has the same prefix for the import and for
\* the look-up: run ApiKeyLiveFormat shows what happens otherwise
\* (Service.Authenticate, prefixFor, importLegacy).
THEOREM ActiveAlwaysAccepted ==
  ASSUME Reloaders = {}, Legacy \in Secrets => LookupPrefix[Legacy] = StoredPrefix[Legacy]
  PROVE  Spec => []ActiveSecretAccepted
<1>1. \A s \in Secrets : LookupPrefix[s] = StoredPrefix[s]
  BY ConstantsOK
<1>2. TypeInv /\ SnapshotMatchesStore => ActiveSecretAccepted
  <2>. SUFFICES ASSUME TypeInv, SnapshotMatchesStore, proc = "up", closing = "open",
                       \A a \in Admins : op[a].pc # "publish",
                       NEW c \in ListActive(rows, clock)
                PROVE  Accepts(Lookup(snapshot, c.secret), c.secret)
    BY DEF ActiveSecretAccepted
  <2>1. c \in snapshot /\ c.expires > clock
    BY DEF SnapshotMatchesStore, Unexpired
  <2>2. c.secret \in Secrets
    BY <2>1 DEF TypeInv, TypeOK, Credential
  <2>. QED  BY <1>1, <2>1, <2>2 DEF Accepts, Lookup
<1>3. Spec => []SnapshotMatchesStore
  BY SnapshotAlwaysCurrent
<1>. QED  BY <1>2, <1>3, TypeInvariant, PTL

-----------------------------------------------------------------------------
(* Refinement of KeyRegistry                                               *)

Beside(creds, k) == {c \in creds : c.id # k}

\* Between its commit and its publish a mutation changes the credentials of its own
\* key and of no other.
PendingAlone ==
  \A a \in Admins :
    op[a].pc = "publish" =>
      /\ op[a].key \in Keys
      /\ (proc = "up" /\ closing = "open")
           => Beside(Unexpired(snapshot), op[a].key)
                = Beside(ListActive(rows, clock), op[a].key)

RegistryInv == TypeInv /\ Serial /\ SnapInv /\ RevocationInv /\ PendingAlone

LEMMA UnexpiredList == TypeInv => Unexpired(ListActive(rows, clock)) = ListActive(rows, clock)
BY ListActiveLater, ConstantsOK DEF TypeInv, TypeOK, Unexpired

\* What is granted is what the database holds active, but for the key whose
\* mutation has yet to be published.
GrantedIsActive ==
  /\ (proc # "up" \/ closing # "open" \/ \A a \in Admins : op[a].pc # "publish")
       => GrantedCredentials = ListActive(rows, clock)
  /\ \A a \in Admins :
       op[a].pc = "publish" =>
         Beside(GrantedCredentials, op[a].key) = Beside(ListActive(rows, clock), op[a].key)

LEMMA GrantedKnown == RegistryInv => GrantedIsActive
<1>. SUFFICES ASSUME RegistryInv PROVE GrantedIsActive
  OBVIOUS
<1>1. CASE proc # "up" \/ closing # "open"
  BY <1>1, UnexpiredList DEF GrantedCredentials, RegistryInv, GrantedIsActive
<1>2. CASE proc = "up" /\ closing = "open"
  <2>1. GrantedCredentials = Unexpired(snapshot)
    BY <1>2 DEF GrantedCredentials
  <2>. QED  BY <1>2, <2>1 DEF RegistryInv, SnapInv, SnapshotMatchesStore, PendingAlone,
                              GrantedIsActive
<1>. QED  BY <1>1, <1>2

LEMMA GrantedKnownNext == RegistryInv' => GrantedIsActive'
BY GrantedKnown, PTL

LEMMA PendingStep ==
  ASSUME Reloaders = {}
  PROVE  TypeInv /\ Serial /\ SnapInv /\ PendingAlone /\ [Next]_vars => PendingAlone'
<1>. SUFFICES ASSUME TypeInv, Serial, SnapInv, PendingAlone, [Next]_vars
              PROVE  PendingAlone'
  OBVIOUS
<1>0. /\ op \in [Admins -> Op] /\ rows \in [Keys -> Row] /\ clock \in Nat
      /\ snapshot \in SUBSET Credential
  BY ConstantsOK DEF TypeInv, TypeOK
<1>1. ASSUME NEW a \in Admins, NEW k \in Keys, NEW s \in Secrets \cup {NoSecret},
             Commit(a, k, s)
      PROVE  PendingAlone'
  <2>1. /\ \A b \in Admins : op[b].pc # "publish"
        /\ \A b \in Admins : op'[b].pc = "publish" => op'[b].key = k
        /\ rows' = [rows EXCEPT ![k] = Mutated(op[a], rows[k], s)]
        /\ snapshot' = snapshot /\ clock' = clock /\ proc' = proc /\ closing' = closing
    BY <1>0, <1>1, OneHolder DEF Commit, CommitAt
  <2>2. Beside(ListActive(rows', clock), k) = Beside(ListActive(rows, clock), k)
    BY <1>0, <2>1 DEF Beside, ListActive
  <2>. QED  BY <2>1, <2>2 DEF PendingAlone, SnapInv, SnapshotMatchesStore, Unexpired
<1>2. CASE Tick
  <2>1. /\ clock' = clock + 1 /\ rows' = rows /\ op' = op /\ snapshot' = snapshot
        /\ proc' = proc /\ closing' = closing
    BY <1>2 DEF Tick, store, memory
  <2>2. ListActive(rows, clock + 1) = {c \in ListActive(rows, clock) : c.expires > clock + 1}
    BY <1>0, ListActiveLater
  <2>3. {c \in snapshot : c.expires > clock + 1}
          = {c \in Unexpired(snapshot) : c.expires > clock + 1}
    <3>1. \A c \in snapshot : c.expires \in Nat
      BY <1>0, ConstantsOK DEF Credential, Instants, Never
    <3>. QED  BY <1>0, <3>1 DEF Unexpired
  <2>4. \A S, T, k : Beside(S, k) = Beside(T, k) =>
          Beside({c \in S : c.expires > clock + 1}, k)
            = Beside({c \in T : c.expires > clock + 1}, k)
    BY DEF Beside
  <2>5. \A k : Beside(Unexpired(snapshot), k) = Beside(ListActive(rows, clock), k)
          => Beside({c \in snapshot : c.expires > clock + 1}, k)
               = Beside(ListActive(rows, clock + 1), k)
    BY <2>2, <2>3, <2>4
  <2>. QED  BY <2>1, <2>5 DEF PendingAlone, Unexpired
<1>3. CASE \E a \in Admins : Publish(a)
  BY <1>0, <1>3, OneHolder DEF Publish, IdleOp, PendingAlone
<1>4. CASE StartList \/ \E k \in Keys : StartImport(k)
  BY <1>4 DEF StartList, StartImport, Serial, DownIsIdle, PendingAlone
<1>5. ASSUME ~\E a \in Admins, k \in Keys, s \in Secrets \cup {NoSecret} : Commit(a, k, s),
             ~\E a \in Admins : Publish(a),
             ~(StartList \/ \E k \in Keys : StartImport(k)), ~Tick
      PROVE  PendingAlone'
  <2>1. /\ rows' = rows /\ clock' = clock
        /\ \A a \in Admins : op'[a].pc = "publish" => op'[a] = op[a]
    <3>1. clock' = clock
      BY <1>5, QuietActors
    <3>. QED  BY <1>5, <3>1, StoreWriters
  <2>2. (proc' = "up" /\ closing' = "open")
          => proc = "up" /\ closing = "open" /\ snapshot' = snapshot
    <3>1. CASE UNCHANGED <<proc, closing, snapshot>>
      BY <3>1
    <3>2. CASE CloseBegin \/ CloseEnd \/ Crash \/ StartRefused
      BY <3>2 DEF CloseBegin, CloseEnd, Crash, StartRefused
    <3>. QED  BY <1>5, <3>1, <3>2, QuietActors
  <2>. QED  BY <2>1, <2>2 DEF PendingAlone, Unexpired
<1>. QED  BY <1>1, <1>2, <1>3, <1>4, <1>5

LEMMA RegistryInvStep ==
  ASSUME Reloaders = {}, Legacy = NoSecret
  PROVE  RegistryInv /\ [Next]_vars => RegistryInv'
BY TypeStep, SerialStep, SnapStep, RevocationStep, PendingStep DEF RegistryInv

\* The active credentials are credentials of the registry, one for each key and
\* secret, and none of them has a revoked secret.
ActiveIsPresentable ==
  /\ \A c \in ListActive(rows, clock) :
       /\ c \in [id : Keys, secret : Secrets, expires : 0 .. MaxClock + 1]
       /\ c.expires > clock
  /\ \A c, d \in ListActive(rows, clock) : c.id = d.id \/ c.secret = d.secret => c = d
  /\ Without(ListActive(rows, clock), revoked)

LEMMA ActivePresentable == RegistryInv => ActiveIsPresentable
<1>. SUFFICES ASSUME RegistryInv PROVE ActiveIsPresentable
  OBVIOUS
<1>1. ListActive(rows, clock) \subseteq Credential
  BY ListActiveType DEF RegistryInv, TypeInv, TypeOK, RowsHaveSecrets
<1>2. Credential = [id : Keys, secret : Secrets, expires : 0 .. MaxClock + 1]
  BY DEF Credential, Instants, Never
<1>. QED  BY <1>1, <1>2
     DEF RegistryInv, RevocationInv, SecretsDistinct, RevokedGone, Inactive, Without,
         ListActive, CurrentlyActive, ActiveIsPresentable

LEMMA ActivePresentableNext == RegistryInv' => ActiveIsPresentable'
BY ActivePresentable, PTL

\* A step after which everything is published replaces the credential of one key.
LEMMA OneKeyChanges ==
  ASSUME RegistryInv, RegistryInv', clock' = clock, NEW k \in Keys,
         GrantedCredentials' = ListActive(rows, clock)',
         Beside(GrantedCredentials, k) = Beside(ListActive(rows, clock)', k),
         Without(ListActive(rows, clock)', revoked),
         revoked' = revoked \/ \E s \in Secrets : revoked' = revoked \cup {s}
  PROVE  Registry!Next
<1>. DEFINE L == ListActive(rows, clock)'
            new == {c \in L : c.id = k}
<1>1. /\ \A c \in L : /\ c \in [id : Keys, secret : Secrets, expires : 0 .. MaxClock + 1]
                      /\ c.expires > clock
      /\ \A c, d \in L : c.id = d.id \/ c.secret = d.secret => c = d
      /\ Without(L, revoked')
  BY ActivePresentableNext DEF ActiveIsPresentable, Without
<1>. HIDE DEF L
<1>2. Beside(GrantedCredentials, k) = Beside(L, k) /\ GrantedCredentials' = L
  BY DEF L
<1>3. GrantedCredentials \ Registry!Of(k) = Beside(L, k)
  BY <1>2 DEF Registry!Of, Beside
<1>4. Registry!Change(k, new)
  <2>1. new \subseteq {c \in Registry!Unexpired(Registry!Credential) : c.id = k}
    BY <1>1 DEF Registry!Unexpired, Registry!Credential
  <2>2. \A c, d \in new : c = d
    BY <1>1
  <2>3. \A c \in new : /\ c.secret \notin revoked
                       /\ \A d \in GrantedCredentials \ Registry!Of(k) : d.secret # c.secret
    BY <1>1, <1>3 DEF Without, Beside, L
  <2>4. GrantedCredentials' = (GrantedCredentials \ Registry!Of(k)) \cup new
    BY <1>2, <1>3 DEF Beside
  <2>. QED  BY <2>1, <2>2, <2>3, <2>4 DEF Registry!Change
<1>5. new \in {{}} \cup {{c} : c \in {d \in Registry!Credential : d.id = k}}
  <2>1. CASE new = {}
    BY <2>1
  <2>2. ASSUME NEW c \in new
        PROVE  new \in {{d} : d \in {d \in Registry!Credential : d.id = k}}
    <3>1. new = {c}
      BY <1>1
    <3>. QED  BY <1>1, <3>1 DEF Registry!Credential
  <2>. QED  BY <2>1, <2>2
<1>6. UNCHANGED revoked \/ \E s \in Secrets : Registry!Revoke({s})
  BY <1>1, <1>2 DEF Registry!Revoke, Without
<1>. HIDE DEF new
<1>. QED  BY <1>4, <1>5, <1>6 DEF Registry!Next

\* A step that publishes, withdraws or ends the process is one change in the registry,
\* or none when nothing waits to be published.
LEMMA PublishingStep ==
  ASSUME RegistryInv, RegistryInv',
         CloseBegin \/ Crash \/ StartList \/ \E a \in Admins : Publish(a)
  PROVE  Registry!Next \/ UNCHANGED <<GrantedCredentials, revoked, clock>>
<1>1. /\ clock' = clock /\ rows' = rows
      /\ ListActive(rows, clock)' = ListActive(rows, clock)
  BY DEF CloseBegin, Crash, StartList, Publish, store
<1>2. op \in [Admins -> Op] /\ IdleOp.pc = "idle"
  BY DEF RegistryInv, TypeInv, TypeOK, IdleOp
<1>3. GrantedCredentials' = ListActive(rows, clock)'
  <2>1. proc' # "up" \/ closing' # "open" \/ \A a \in Admins : op'[a].pc # "publish"
    BY <1>2, OneHolder
       DEF CloseBegin, Crash, StartList, Publish, RegistryInv, Serial, DownIsIdle
  <2>. QED  BY <2>1, GrantedKnownNext DEF GrantedIsActive
<1>4. \/ revoked' = revoked
      \/ \E a \in Admins : Publish(a) /\ op[a].kind \in {"disable", "rotate", "delete"}
                             /\ revoked' = revoked \cup {op[a].old}
  BY DEF CloseBegin, Crash, StartList, Publish
<1>5. revoked' = revoked \/ \E s \in Secrets : revoked' = revoked \cup {s}
  BY <1>4 DEF Publish, RegistryInv, TypeInv, OldIsSecret
<1>6. Without(ListActive(rows, clock)', revoked)
  BY <1>1, ActivePresentable DEF ActiveIsPresentable, Without
<1>7. ASSUME NEW a \in Admins, op[a].pc = "publish"
      PROVE  Registry!Next
  <2>1. op[a].key \in Keys
    BY <1>7 DEF RegistryInv, PendingAlone
  <2>2. Beside(GrantedCredentials, op[a].key) = Beside(ListActive(rows, clock)', op[a].key)
    BY <1>1, <1>7, GrantedKnown DEF GrantedIsActive
  <2>. QED  BY <1>1, <1>3, <1>5, <1>6, <2>1, <2>2, OneKeyChanges
<1>8. ASSUME \A a \in Admins : op[a].pc # "publish"
      PROVE  UNCHANGED <<GrantedCredentials, revoked, clock>>
  <2>1. GrantedCredentials = ListActive(rows, clock)
    BY <1>8, GrantedKnown DEF GrantedIsActive
  <2>2. revoked' = revoked
    BY <1>4, <1>8 DEF Publish
  <2>. QED  BY <1>1, <1>3, <2>1, <2>2
<1>. QED  BY <1>7, <1>8

\* A commit is visible at once only when the process is being closed; enabling a key
\* takes back what was said about its secret.
LEMMA CommitStep ==
  ASSUME RegistryInv, RegistryInv', NEW a \in Admins, NEW k \in Keys,
         NEW s \in Secrets \cup {NoSecret}, Commit(a, k, s)
  PROVE  Registry!Next \/ UNCHANGED <<GrantedCredentials, revoked, clock>>
<1>1. /\ op \in [Admins -> Op] /\ rows \in [Keys -> Row] /\ rows[k] \in Row
      /\ clock' = clock /\ snapshot' = snapshot /\ proc' = proc /\ closing' = closing
      /\ rows' = [rows EXCEPT ![k] = Mutated(op[a], rows[k], s)]
      /\ revoked' = IF op[a].kind = "enable" THEN revoked \ {rows[k].secret} ELSE revoked
      /\ \A b \in Admins : op[b].pc # "publish"
  BY OneHolder DEF Commit, CommitAt, RegistryInv, TypeInv, TypeOK
<1>2. GrantedCredentials = ListActive(rows, clock)
  BY <1>1, GrantedKnown DEF GrantedIsActive
<1>3. CASE proc = "up" /\ closing = "open"
  <2>1. GrantedCredentials' = GrantedCredentials
    BY <1>1, <1>3 DEF GrantedCredentials, Unexpired
  <2>2. op[a].kind = "enable" => rows[k].secret \in Secrets
    BY DEF Commit, CommitAt, Permitted, Live, RegistryInv, TypeInv, RowsHaveSecrets
  <2>. QED  BY <1>1, <2>1, <2>2 DEF Registry!Next, Registry!Reinstate
<1>4. CASE ~(proc = "up" /\ closing = "open")
  <2>1. GrantedCredentials' = ListActive(rows, clock)'
    BY <1>1, <1>4, GrantedKnownNext DEF GrantedIsActive
  <2>2. CASE op[a].kind # "enable"
    <3>1. revoked' = revoked
      BY <1>1, <2>2
    <3>2. Without(ListActive(rows, clock)', revoked)
      BY <3>1, ActivePresentableNext DEF ActiveIsPresentable, Without
    <3>3. Beside(GrantedCredentials, k) = Beside(ListActive(rows, clock)', k)
      BY <1>1, <1>2 DEF Beside, ListActive
    <3>. QED  BY <1>1, <2>1, <3>1, <3>2, <3>3, OneKeyChanges
  <2>3. CASE op[a].kind = "enable"
    <3>1. /\ Live(k) /\ rows[k].secret \in Secrets /\ rows[k].expires \in 0 .. MaxClock + 1
      BY <1>1, <2>3 DEF Commit, CommitAt, Permitted, Live, RegistryInv, TypeInv, RowsHaveSecrets,
                        Row, Instants, Never
    <3>2. rows'[k] = [status |-> "active", secret |-> rows[k].secret,
                      expires |-> rows[k].expires, version |-> rows[k].version + 1]
      BY <1>1, <2>3 DEF Mutated, Edited, Row
    <3>. DEFINE c == [id |-> k, secret |-> rows[k].secret, expires |-> rows[k].expires]
    <3>3. ListActive(rows, clock)' = ListActive(rows, clock)
                                        \cup (IF rows[k].expires > clock THEN {c} ELSE {})
      <4>1. \A j \in Keys \ {k} : rows'[j] = rows[j]
        BY <1>1
      <4>. QED  BY <1>1, <3>2, <4>1 DEF ListActive, CurrentlyActive
    <3>4. CASE c \in ListActive(rows, clock) \/ ~(rows[k].expires > clock)
      <4>1. GrantedCredentials' = GrantedCredentials
        BY <1>2, <2>1, <3>3, <3>4
      <4>. QED  BY <1>1, <2>3, <3>1, <4>1 DEF Registry!Next, Registry!Reinstate
    <3>5. CASE c \notin ListActive(rows, clock) /\ rows[k].expires > clock
      <4>1. Registry!Of(k) = {}
        BY <1>2, <3>5 DEF Registry!Of, ListActive
      <4>2. GrantedCredentials' = GrantedCredentials \cup {c}
        BY <1>2, <2>1, <3>3, <3>5
      <4>. QED  BY <1>1, <2>3, <3>1, <3>5, <4>1, <4>2 DEF Registry!Next, Registry!Reinstate
    <3>. QED  BY <3>4, <3>5
  <2>. QED  BY <2>2, <2>3
<1>. QED  BY <1>3, <1>4

\* Time takes credentials away and nothing else.
LEMMA TickStep ==
  ASSUME RegistryInv, Tick
  PROVE  Registry!Tick
<1>1. /\ clock' = clock + 1 /\ rows' = rows /\ snapshot' = snapshot
      /\ proc' = proc /\ closing' = closing /\ revoked' = revoked
      /\ clock \in Nat /\ clock' <= MaxClock /\ rows \in [Keys -> Row]
      /\ \A c \in snapshot : c.expires \in Nat
  BY ConstantsOK DEF Tick, store, memory, RegistryInv, TypeInv, TypeOK, Credential,
                     Instants, Never
<1>2. GrantedCredentials' = {c \in GrantedCredentials : c.expires > clock + 1}
  <2>1. CASE proc = "up" /\ closing = "open"
    BY <1>1, <2>1 DEF GrantedCredentials, Unexpired
  <2>2. CASE ~(proc = "up" /\ closing = "open")
    <3>1. \A t \in {clock, clock + 1} :
            {c \in ListActive(rows, t) : c.expires > t} = ListActive(rows, t)
      BY <1>1, ListActiveLater
    <3>2. {c \in ListActive(rows, clock) : c.expires > clock + 1}
            = ListActive(rows, clock + 1)
      BY <1>1, ListActiveLater
    <3>. QED  BY <1>1, <2>2, <3>1, <3>2 DEF GrantedCredentials, Unexpired
  <2>. QED  BY <2>1, <2>2
<1>. QED  BY <1>1, <1>2 DEF Registry!Tick

\* Every other step leaves what is granted as it was.
LEMMA QuietStep ==
  ASSUME Reloaders = {}, Legacy = NoSecret, RegistryInv, [Next]_vars,
         ~\E a \in Admins, k \in Keys, s \in Secrets \cup {NoSecret} : Commit(a, k, s),
         ~(CloseBegin \/ Crash \/ StartList \/ \E a \in Admins : Publish(a)), ~Tick
  PROVE  UNCHANGED <<GrantedCredentials, revoked, clock>>
<1>1. ~\E k \in Keys : StartImport(k)
  BY DEF StartImport, MustImport
<1>2. rows' = rows
  BY <1>1, StoreWriters DEF RegistryInv
<1>3. clock' = clock /\ revoked' = revoked
  BY <1>1, QuietActors
<1>4. \/ proc' = proc /\ closing' = closing /\ snapshot' = snapshot
      \/ /\ ~(proc = "up" /\ closing = "open")
         /\ ~(proc' = "up" /\ closing' = "open")
  <2>1. CASE UNCHANGED <<proc, closing, snapshot>>
    BY <2>1
  <2>2. CASE CloseEnd \/ StartRefused
    BY <2>2 DEF CloseEnd, StartRefused
  <2>. QED  BY <1>1, <2>1, <2>2, QuietActors
<1>. QED  BY <1>2, <1>3, <1>4 DEF GrantedCredentials, Unexpired

\* Without MCP_API_KEY and without Reload, the service with its database, mutex,
\* snapshot, crashes and restarts implements the registry: every step changes the
\* credentials of at most one key, and none ever grants a secret that an administrator
\* was told no longer works (Service.publish, Authenticate, NewService, Close).
THEOREM RegistryImplemented ==
  ASSUME Reloaders = {}, Legacy = NoSecret
  PROVE  Spec => ImplementsRegistry
<1>1. Init => RegistryInv
  BY TypeInit, SerialInit, RevocationInit
     DEF Init, RegistryInv, SnapInv, SnapshotMatchesStore, PublishCurrent, PendingAlone,
         IdleOp
<1>2. RegistryInv /\ [Next]_vars => RegistryInv'
  BY RegistryInvStep
<1>3. Init => Registry!Init
  BY DEF Init, Registry!Init, GrantedCredentials, Unexpired, ListActive, CurrentlyActive,
         Absent
<1>4. RegistryInv /\ RegistryInv' /\ [Next]_vars
        => [Registry!Next]_<<GrantedCredentials, revoked, clock>>
  <2>. SUFFICES ASSUME RegistryInv, RegistryInv', [Next]_vars
                PROVE  \/ Registry!Next
                       \/ UNCHANGED <<GrantedCredentials, revoked, clock>>
    OBVIOUS
  <2>1. Tick => Registry!Next
    BY TickStep DEF Registry!Next
  <2>. QED  BY <2>1, CommitStep, PublishingStep, QuietStep
<1>. QED  BY <1>1, <1>2, <1>3, <1>4, PTL DEF Spec, ImplementsRegistry, Registry!RegistrySpec
=============================================================================
