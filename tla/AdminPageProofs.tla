--------------------------- MODULE AdminPageProofs ---------------------------
(***************************************************************************)
(* Proofs about AdminPage for every value of its constants: dates, buttons,*)
(* what mutations find, and what the page shows.                           *)
(***************************************************************************)
EXTENDS AdminPage, TLAPS

-----------------------------------------------------------------------------
(* Dates                                                                   *)

\* Opening the form with an instant and saving it cuts off the seconds and
\* nothing else, whatever the browser's zone (openEdit, toLocalInput,
\* expirationValue).
THEOREM FormCutsSeconds == \A t \in Int : ByMinute(t) = t - (t % 2)
  <1> TAKE t \in Int
  <1> NoDate \notin Int /\ Zone \in Int  BY DatesOK
  <1>1. (t + 2 * Zone) \div 2 = t \div 2 + Zone  OBVIOUS
  <1>2. t \div 2 + Zone \in Int  OBVIOUS
  <1>3. 2 * (t \div 2) = t - (t % 2)  OBVIOUS
  <1> QED  BY <1>1, <1>2, <1>3 DEF ByMinute, ExpirationValue, ToLocalInput

\* The table shows the time in Taipei, whatever the browser's zone (formatDate).
THEOREM ShowsTaipeiTime == \A t \in Int : FormatDate(t) = t + 2 * Taipei
  BY DatesOK DEF FormatDate, WallClock, Taipei

-----------------------------------------------------------------------------
(* What the page and its calls hold of a key                               *)

\* The dates that exist: a closed set, since the form only cuts off seconds.
Shown == Expiries \cup {NoDate} \cup {ByMinute(t) : t \in Expiries \cup Picked}
Entered == {ToLocalInput(t) : t \in Shown \cup Picked}

Row == [status : {"none", "active", "disabled", "revoked"}, version : Nat, expires : Shown]
Tables == {t \in [Keys -> Row] : \A k \in Keys : t[k].version = 0 => t[k] = NoItem}

\* What was once read of key k in a table that now is t: not newer, and the same
\* if the version is the same.
Reads(t, k, item) ==
  /\ item \in Row /\ item.version <= t[k].version
  /\ item.version = t[k].version => item = t[k]

Lists(t, list) == list \in [Keys -> Row] /\ \A k \in Keys : Reads(t, k, list[k])

CallShape ==
  [request : [op : Ops, id : KeyIds, version : Nat, expires : Shown, seen : Row],
   button : Buttons \cup {"none"}, stage : Stages,
   answer : [Keys -> Row] \cup (Keys \X Nat) \cup {<<>>}, beside : BOOLEAN]

Names(t, r) ==
  r.op \in Mutations \ {"create"} =>
    r.id \in Keys /\ Reads(t, r.id, r.seen) /\ r.version = r.seen.version

CallKnows(t, call) ==
  /\ call \in CallShape
  /\ call.stage \in {"sent", "abandoned"} => Names(t, call.request)
  /\ call.stage = "ok" /\ call.request.op = "list" => Lists(t, call.answer)

CallsKnow(t, all) ==
  /\ all = [c \in Slots |-> all[c]]
  /\ \A c \in Slots : CallKnows(t, all[c])

ActionKnows(t, action) ==
  action # NoAction =>
    /\ action \in [op : Confirmed, id : Keys, item : Row]
    /\ Reads(t, action.id, action.item)

\* The inductive invariant: whoever holds something about a key once read it.
EverythingWasRead ==
  /\ rows \in Tables
  /\ Lists(rows, items)
  /\ ActionKnows(rows, pendingAction)
  /\ form \in [id : KeyIds, local : Entered]
  /\ CallsKnow(rows, calls)

-----------------------------------------------------------------------------
(* Lemmas about dates and records                                          *)

LEMMA ShownDates == Shown \subseteq Int \cup {NoDate} /\ NoDate \in Shown
  <1>1. \A t \in Int \cup {NoDate} : ByMinute(t) \in Int \cup {NoDate}
    <2> TAKE t \in Int \cup {NoDate}
    <2>1. CASE t = NoDate  BY <2>1 DEF ByMinute, ExpirationValue, ToLocalInput
    <2>2. CASE t \in Int
      <3>1. t - (t % 2) \in Int  BY <2>2
      <3> QED  BY <3>1, <2>2, FormCutsSeconds
    <2> QED  BY <2>1, <2>2
  <1> QED  BY <1>1, PageConstantsOK DEF Shown

\* Cutting off seconds twice is cutting them off once.
LEMMA MinuteOfMinute ==
  ASSUME NEW t \in Int \cup {NoDate}  PROVE ByMinute(ByMinute(t)) = ByMinute(t)
  <1>1. CASE t = NoDate  BY <1>1 DEF ByMinute, ExpirationValue, ToLocalInput
  <1>2. CASE t \in Int
    <2>1. t - (t % 2) \in Int /\ (t - (t % 2)) % 2 = 0  BY <1>2
    <2> QED  BY <2>1, <1>2, FormCutsSeconds
  <1> QED  BY <1>1, <1>2

LEMMA EnteredIsShown ==
  ASSUME NEW local \in Entered  PROVE ExpirationValue(local) \in Shown
  <1>1. PICK t \in Shown \cup Picked : local = ToLocalInput(t)  BY DEF Entered
  <1>2. ExpirationValue(local) = ByMinute(t)  BY <1>1 DEF ByMinute
  <1>3. CASE t \in Expiries \cup Picked  BY <1>2, <1>3 DEF Shown
  <1>4. CASE t = NoDate
    BY <1>2, <1>4 DEF Shown, ByMinute, ExpirationValue, ToLocalInput
  <1>5. ASSUME NEW u \in Expiries \cup Picked, t = ByMinute(u)
        PROVE  ExpirationValue(local) \in Shown
    <2>1. ByMinute(t) = ByMinute(u)  BY <1>5, MinuteOfMinute, PageConstantsOK
    <2> QED  BY <2>1, <1>2 DEF Shown
  <1> QED  BY <1>1, <1>3, <1>4, <1>5 DEF Shown

LEMMA FormTypes == /\ \A t \in Shown : ToLocalInput(t) \in Entered
                   /\ \A t \in Picked : ToLocalInput(t) \in Entered
                   /\ NoDate \in Entered /\ NoForm \in [id : KeyIds, local : Entered]
  <1>1. ToLocalInput(NoDate) = NoDate  BY DEF ToLocalInput
  <1>2. NoDate \in Entered  BY <1>1, ShownDates DEF Entered
  <1> QED  BY <1>2 DEF Entered, NoForm, KeyIds

LEMMA NoItemIsRead == NoItem \in Row /\ NoItem.version = 0
  BY ShownDates DEF NoItem, Row

LEMMA NoItemsListed == ASSUME NEW t \in Tables  PROVE Lists(t, NoItems)
  <1> SUFFICES ASSUME NEW k \in Keys  PROVE Reads(t, k, NoItem)
    BY NoItemIsRead DEF Lists, NoItems
  <1>1. t[k] \in Row /\ t[k].version \in Nat /\ (t[k].version = 0 => t[k] = NoItem)
    BY DEF Tables, Row
  <1> QED  BY <1>1, NoItemIsRead DEF Reads

-----------------------------------------------------------------------------
(* Lemmas about the table and the calls                                    *)

\* A change gives the key a version that nobody has read.
LEMMA ChangedIsNewer ==
  ASSUME NEW r, NEW k \in Targets(r), NEW t, rows \in Tables,
         r.expires \in Shown, t = [rows EXCEPT ![k] = Changed(@, r)]
  PROVE  /\ t \in Tables
         /\ \A j \in Keys : t[j] = rows[j] \/ t[j].version > rows[j].version
  <1>1. k \in Keys /\ rows[k] \in Row  BY DEF Targets, Tables
  <1>2. StatusAfter(r.op, rows[k].status) \in {"none", "active", "disabled", "revoked"}
    BY <1>1 DEF StatusAfter, Row
  <1>3. Changed(rows[k], r) \in Row /\ Changed(rows[k], r).version = rows[k].version + 1
    BY <1>1, <1>2 DEF Changed, Row
  <1>4. t[k] = Changed(rows[k], r) /\ \A j \in Keys \ {k} : t[j] = rows[j]
    BY <1>1 DEF Tables
  <1>5. t \in [Keys -> Row]  BY <1>1, <1>3 DEF Tables
  <1>6. rows[k].version \in Nat  BY <1>1 DEF Row
  <1> QED  BY <1>3, <1>4, <1>5, <1>6 DEF Tables

\* What was read stays read while the table grows.
LEMMA ReadsGrow ==
  ASSUME NEW t \in Tables, NEW u \in Tables, NEW k \in Keys, NEW item,
         u[k] = t[k] \/ u[k].version > t[k].version, Reads(t, k, item)
  PROVE  Reads(u, k, item)
  <1>1. t[k] \in Row /\ u[k] \in Row /\ item \in Row  BY DEF Tables, Reads
  <1>2. t[k].version \in Nat /\ u[k].version \in Nat /\ item.version \in Nat
    BY <1>1 DEF Row
  <1> QED  BY <1>1, <1>2 DEF Reads

LEMMA EverythingGrows ==
  ASSUME NEW t \in Tables, NEW u \in Tables,
         \A k \in Keys : u[k] = t[k] \/ u[k].version > t[k].version
  PROVE  /\ \A list : Lists(t, list) => Lists(u, list)
         /\ \A action : ActionKnows(t, action) => ActionKnows(u, action)
         /\ \A all : CallsKnow(t, all) => CallsKnow(u, all)
  <1>1. \A k \in Keys : \A item : Reads(t, k, item) => Reads(u, k, item)  BY ReadsGrow
  <1>2. \A list : Lists(t, list) => Lists(u, list)  BY <1>1 DEF Lists
  <1>3. ASSUME NEW action, ActionKnows(t, action)  PROVE ActionKnows(u, action)
    BY <1>1, <1>3 DEF ActionKnows
  <1>4. ASSUME NEW call, CallKnows(t, call)  PROVE CallKnows(u, call)
    <2>1. Names(t, call.request) => Names(u, call.request)  BY <1>1 DEF Names
    <2> QED  BY <2>1, <1>2, <1>4 DEF CallKnows
  <1>5. ASSUME NEW all, CallsKnow(t, all)  PROVE CallsKnow(u, all)
    BY <1>4, <1>5 DEF CallsKnow
  <1> QED  BY <1>2, <1>3, <1>5

LEMMA SimpleIsRequest ==
  ASSUME NEW op \in Ops, NEW button \in Buttons \cup {"none"}
  PROVE  Call(Simple(op), button) \in CallShape /\ Free \in CallShape
  BY NoItemIsRead, ShownDates
     DEF Call, Simple, Request, CallShape, Free, KeyIds, NoItem, Stages, Ops, Buttons

\* One call is replaced.
LEMMA OneCall ==
  ASSUME NEW t, NEW all, CallsKnow(t, all), NEW c \in Slots, NEW new, CallKnows(t, new)
  PROVE  CallsKnow(t, [all EXCEPT ![c] = new])
  BY DEF CallsKnow

LEMMA SimpleKnows ==
  ASSUME NEW t, NEW op \in {"list", "login", "logout"}, NEW button \in Buttons \cup {"none"}
  PROVE  CallKnows(t, Call(Simple(op), button)) /\ CallKnows(t, Free)
  <1>1. Call(Simple(op), button) \in CallShape /\ Free \in CallShape
    BY SimpleIsRequest DEF Ops
  <1> QED  BY <1>1 DEF CallKnows, Call, Simple, Request, Free, Names, Mutations, Confirmed

\* A new request joins the others; only their history changes.
LEMMA SubmitKnows ==
  ASSUME CallsKnow(rows, calls), NEW c \in Slots, NEW r, NEW button \in Buttons,
         CallKnows(rows, Call(r, button)), Submit(c, r, button)
  PROVE  CallsKnow(rows, calls')
  <1> DEFINE Old(d, b) == [calls[d] EXCEPT !.beside = b]
             New(b) == [Call(r, button) EXCEPT !.beside = b]
  <1>1. ASSUME NEW call, CallKnows(rows, call), NEW b \in BOOLEAN
        PROVE  CallKnows(rows, [call EXCEPT !.beside = b])
    BY <1>1 DEF CallKnows, CallShape
  <1>2. calls' = [d \in Slots |-> calls'[d]]  BY DEF Submit
  <1>3. \E b \in BOOLEAN : calls'[c] = New(b)  BY DEF Submit
  <1>4. ASSUME NEW d \in Slots \ {c}  PROVE \E b \in BOOLEAN : calls'[d] = Old(d, b)
    <2>1. calls[d].beside \in BOOLEAN  BY DEF CallsKnow, CallKnows, CallShape
    <2> QED  BY <2>1 DEF Submit
  <1>5. \A d \in Slots : CallKnows(rows, calls[d])  BY DEF CallsKnow
  <1>6. \A b \in BOOLEAN : CallKnows(rows, New(b))  BY <1>1
  <1>7. \A d \in Slots, b \in BOOLEAN : CallKnows(rows, Old(d, b))  BY <1>1, <1>5
  <1> HIDE DEF Old, New
  <1>8. CallKnows(rows, calls'[c])  BY <1>3, <1>6
  <1>9. \A d \in Slots \ {c} : CallKnows(rows, calls'[d])  BY <1>4, <1>7
  <1> QED  BY <1>2, <1>8, <1>9 DEF CallsKnow

-----------------------------------------------------------------------------
(* The inductive invariant                                                 *)

LEMMA InitRead == Init => EverythingWasRead
  <1> SUFFICES ASSUME Init  PROVE EverythingWasRead  OBVIOUS
  <1>1. rows \in Tables
    <2>1. PICK t \in Expiries :
            rows = [k \in Keys |->
                      IF k \in Stored THEN [status |-> "active", version |-> 1, expires |-> t]
                      ELSE NoItem]
      BY DEF Init
    <2>2. [status |-> "active", version |-> 1, expires |-> t] \in Row  BY DEF Row, Shown
    <2> QED  BY <2>1, <2>2, NoItemIsRead DEF Tables
  <1>2. Lists(rows, items)  BY <1>1, NoItemsListed DEF Init
  <1>3. CallsKnow(rows, calls)
    <2>1. PICK first \in Slots :
            calls = [c \in Slots |-> IF c = first THEN Call(Simple("list"), "none") ELSE Free]
      BY DEF Init
    <2>2. CallKnows(rows, Call(Simple("list"), "none")) /\ CallKnows(rows, Free)
      BY SimpleKnows
    <2> QED  BY <2>1, <2>2 DEF CallsKnow
  <1> QED  BY <1>1, <1>2, <1>3, FormTypes DEF Init, EverythingWasRead, ActionKnows

\* A list call takes the place of another or a free one.
LEMMA LoadKnows ==
  ASSUME CallsKnow(rows, calls), NEW c \in Slots, NEW button \in Buttons \cup {"none"},
         NEW told, Load(c, button, told)
  PROVE  CallsKnow(rows, calls')
  <1>1. CallKnows(rows, Call(Simple("list"), button))  BY SimpleKnows
  <1> QED  BY <1>1, OneCall DEF Load

LEMMA EndedKnows ==
  ASSUME CallsKnow(rows, calls), NEW c \in Slots, Ended(c)
  PROVE  CallsKnow(rows, calls')
  BY OneCall, SimpleKnows DEF Ended, Buttons

LEMMA HandlersRead ==
  ASSUME EverythingWasRead, NEW c \in Slots, Press(c) \/ OpenOrClose
  PROVE  EverythingWasRead'
  <1> USE DEF EverythingWasRead
  <1>1. CASE Refresh(c)  BY <1>1, LoadKnows DEF Refresh
  <1>2. ASSUME NEW local \in Locals, SubmitKey(c, local)  PROVE EverythingWasRead'
    <2> DEFINE op == IF form.id = NoKey THEN "create" ELSE "update"
               r == Request(op, form.id, VersionSent(Current), ExpirationValue(local), Current)
    <2>1. local \in Entered  BY FormTypes DEF Locals
    <2>2. ExpirationValue(local) \in Shown  BY <2>1, EnteredIsShown
    <2>3. form.id \in KeyIds /\ Current \in Row /\ Current.version \in Nat
      BY NoItemIsRead DEF Current, Lists, KeyIds, Row
    <2>4. form.id # NoKey => form.id \in Keys /\ Reads(rows, form.id, Current)
      BY <2>3 DEF Current, Lists, KeyIds
    <2>5. r \in [op : Ops, id : KeyIds, version : Nat, expires : Shown, seen : Row]
      BY <2>2, <2>3 DEF Request, VersionSent, Ops, Mutations
    <2>6. Call(r, "save") \in CallShape
      BY <2>5 DEF Call, CallShape, Buttons, Stages
    <2>7. Names(rows, r)  BY <2>4 DEF Names, Request, VersionSent, Mutations
    <2>8. CallKnows(rows, Call(r, "save"))  BY <2>6, <2>7 DEF CallKnows, Call
    <2>9. Submit(c, r, "save") /\ form' = [form EXCEPT !.local = local]
          /\ UNCHANGED <<items, pendingAction, rows>>
      BY <1>2 DEF SubmitKey
    <2> HIDE DEF r
    <2>10. CallsKnow(rows, calls')  BY <2>8, <2>9, SubmitKnows DEF Buttons
    <2> QED  BY <2>1, <2>9, <2>10
  <1>3. CASE RunConfirmed(c)
    <2>1. Submit(c, PendingRequest, "confirm") /\ pendingAction # NoAction
          /\ UNCHANGED <<items, pendingAction, form, rows>>
      BY <1>3 DEF RunConfirmed
    <2>2. /\ pendingAction \in [op : Confirmed, id : Keys, item : Row]
          /\ Reads(rows, pendingAction.id, pendingAction.item)
      BY <2>1 DEF ActionKnows
    <2>3. pendingAction.item.version \in Nat  BY <2>2 DEF Row
    <2>4. PendingRequest \in
            [op : Ops, id : KeyIds, version : Nat, expires : Shown, seen : Row]
      BY <2>2, <2>3, ShownDates DEF PendingRequest, Request, Ops, Mutations, KeyIds
    <2>5. Call(PendingRequest, "confirm") \in CallShape
      BY <2>4 DEF Call, CallShape, Buttons, Stages
    <2>6. Names(rows, PendingRequest)  BY <2>2 DEF Names, PendingRequest, Request
    <2>7. CallKnows(rows, Call(PendingRequest, "confirm"))
      BY <2>5, <2>6 DEF CallKnows, Call
    <2>8. CallsKnow(rows, calls')  BY <2>1, <2>7, SubmitKnows DEF Buttons
    <2> QED  BY <2>1, <2>8
  <1>4. CASE SubmitLogin(c)
    <2>1. CallKnows(rows, Call(Simple("login"), "auth"))  BY SimpleKnows DEF Buttons
    <2>2. CallsKnow(rows, calls')  BY <1>4, <2>1, SubmitKnows DEF SubmitLogin, Buttons
    <2> QED  BY <1>4, <2>2 DEF SubmitLogin
  <1>5. CASE Logout(c)
    <2>1. CallsKnow(rows, calls')  BY <1>5, SimpleKnows, OneCall DEF Logout
    <2> QED  BY <1>5, <2>1 DEF Logout, pageVars
  <1>6. CASE OpenCreate \/ CancelForm  BY <1>6, FormTypes DEF OpenCreate, CancelForm
  <1>7. CASE CancelConfirm  BY <1>7 DEF CancelConfirm, ActionKnows
  <1>8. CASE DismissLogin \/ CloseSecret  BY <1>8 DEF DismissLogin, CloseSecret
  <1>9. ASSUME NEW k \in Keys, OpenEdit(k)  PROVE EverythingWasRead'
    <2>1. ToLocalInput(items[k].expires) \in Entered  BY FormTypes DEF Lists, Row
    <2> QED  BY <1>9, <2>1 DEF OpenEdit, KeyIds
  <1>10. ASSUME NEW k \in Keys, NEW op \in Confirmed, OpenConfirm(k, op)
         PROVE  EverythingWasRead'
    BY <1>10 DEF OpenConfirm, Lists, ActionKnows
  <1> QED
    BY <1>1, <1>2, <1>3, <1>4, <1>5, <1>6, <1>7, <1>8, <1>9, <1>10 DEF Press, OpenOrClose

LEMMA ApiRead ==
  ASSUME EverythingWasRead, NEW c \in Slots,
         ServerStep(c) \/ MutateLate(c) \/ \E k \in Keys : OtherAdmin(k)
  PROVE  EverythingWasRead'
  <1> USE DEF EverythingWasRead
  <1>1. ASSUME NEW r, NEW k \in Keys, Applied(r, k), r.expires \in Shown
        PROVE  /\ rows' \in Tables /\ Lists(rows', items)
               /\ ActionKnows(rows', pendingAction) /\ CallsKnow(rows', calls)
    <2>1. k \in Targets(r) /\ rows' = [rows EXCEPT ![k] = Changed(@, r)]
      BY <1>1 DEF Applied
    <2>2. /\ rows' \in Tables
          /\ \A j \in Keys : rows'[j] = rows[j] \/ rows'[j].version > rows[j].version
      BY <1>1, <2>1, ChangedIsNewer
    <2> QED  BY <2>2, EverythingGrows
  <1>2. /\ calls[c] \in CallShape /\ CallKnows(rows, calls[c])
        /\ calls[c].request.expires \in Shown /\ Op(c) \in Ops
    BY DEF CallsKnow, CallKnows, CallShape, Op
  <1> DEFINE Done(answer) == [calls[c] EXCEPT !.stage = "ok", !.answer = answer,
                                             !.request = Simple(Op(c))]
  <1>3. ASSUME NEW answer, Answered(c, answer),
               answer \in [Keys -> Row] \cup (Keys \X Nat),
               Op(c) = "list" => Lists(rows', answer),
               CallsKnow(rows', calls)
        PROVE  CallsKnow(rows', calls')
    <2>1. Simple(Op(c)) \in [op : Ops, id : KeyIds, version : Nat, expires : Shown, seen : Row]
          /\ Simple(Op(c)).op = Op(c)
      BY <1>2, NoItemIsRead, ShownDates DEF Simple, Request, KeyIds
    <2>2. Done(answer) \in CallShape  BY <1>2, <1>3, <2>1 DEF CallShape, Stages
    <2>3. Done(answer).stage = "ok" /\ Done(answer).answer = answer
          /\ Done(answer).request.op = Op(c)
      BY <1>2, <2>1 DEF CallShape
    <2>4. CallKnows(rows', Done(answer))  BY <1>3, <2>2, <2>3 DEF CallKnows
    <2>5. calls' = [calls EXCEPT ![c] = Done(answer)]  BY <1>3 DEF Answered
    <2> HIDE DEF Done
    <2> QED  BY <1>3, <2>4, <2>5, OneCall
  <1>4. CASE ListServed(c)
    <2>1. \A k \in Keys : rows[k] \in Row /\ rows[k].version \in Nat
                         /\ (rows[k].version = 0 => rows[k] = NoItem)
      BY DEF Tables, Row
    <2>2. Lists(rows, Listed)  BY <2>1, NoItemIsRead DEF Lists, Listed, Reads
    <2>3. Answered(c, Listed) /\ rows' = rows  BY <1>4 DEF ListServed
    <2>4. CallsKnow(rows', calls')  BY <1>3, <2>2, <2>3 DEF Lists
    <2> QED  BY <2>3, <2>4 DEF Answered, pageVars
  <1>5. CASE Mutate(c)
    <2>1. PICK k \in Keys : /\ Applied(calls[c].request, k)
                            /\ Answered(c, <<k, rows[k].version + 1>>)
      BY <1>5 DEF Mutate
    <2>2. rows' \in Tables /\ Lists(rows', items) /\ ActionKnows(rows', pendingAction)
          /\ CallsKnow(rows', calls)
      BY <1>1, <1>2, <2>1
    <2>3. <<k, rows[k].version + 1>> \in Keys \X Nat  BY DEF Tables, Row
    <2>4. Op(c) # "list"  BY <1>5 DEF Mutate, Mutations, Confirmed
    <2>5. CallsKnow(rows', calls')  BY <1>3, <2>1, <2>2, <2>3, <2>4
    <2> QED  BY <2>1, <2>2, <2>5 DEF Answered, pageVars
  <1>6. CASE MutateLate(c)
    <2>1. CASE UNCHANGED rows
      <3>1. CallsKnow(rows, calls')  BY <1>6, SimpleKnows, OneCall DEF MutateLate, Buttons
      <3> QED  BY <1>6, <2>1, <3>1 DEF MutateLate, pageVars
    <2>2. ASSUME NEW k \in Keys, Applied(calls[c].request, k)  PROVE EverythingWasRead'
      <3>1. rows' \in Tables /\ Lists(rows', items) /\ ActionKnows(rows', pendingAction)
            /\ CallsKnow(rows', calls)
        BY <1>1, <1>2, <2>2
      <3>2. calls' = [calls EXCEPT ![c] = Free] /\ UNCHANGED pageVars
        BY <1>6 DEF MutateLate
      <3>3. CallKnows(rows', Free)  BY SimpleKnows
      <3>4. CallsKnow(rows', calls')  BY <3>1, <3>2, <3>3, OneCall
      <3> QED  BY <3>1, <3>2, <3>4 DEF pageVars
    <2> QED  BY <1>6, <2>1, <2>2 DEF MutateLate
  <1>7. ASSUME NEW k \in Keys, OtherAdmin(k)  PROVE EverythingWasRead'
    <2>1. PICK op \in OthersDo, t \in Expiries :
            Applied(Request(op, k, rows[k].version, t, rows[k]), k)
      BY <1>7 DEF OtherAdmin
    <2>2. Request(op, k, rows[k].version, t, rows[k]).expires \in Shown
      BY DEF Request, Shown
    <2>3. UNCHANGED <<pageVars, calls>>  BY <1>7 DEF OtherAdmin
    <2> QED  BY <1>1, <2>1, <2>2, <2>3 DEF pageVars
  <1> QED  BY <1>4, <1>5, <1>6, <1>7 DEF ServerStep

LEMMA AnswersRead ==
  ASSUME EverythingWasRead, NEW c \in Slots, Continue(c)
  PROVE  EverythingWasRead'
  <1> USE DEF EverythingWasRead
  <1>1. /\ calls[c] \in CallShape /\ CallKnows(rows, calls[c])
        /\ calls[c].button \in Buttons \cup {"none"}
    BY DEF CallsKnow, CallKnows, CallShape
  <1>2. Lists(rows, NoItems)  BY NoItemsListed
  <1>3. CASE ListArrives(c)
    <2>1. CallsKnow(rows, calls')  BY <1>3, EndedKnows DEF ListArrives
    <2>2. Lists(rows, items')  BY <1>1, <1>3 DEF ListArrives, CallKnows, Op
    <2> QED  BY <1>3, <2>1, <2>2 DEF ListArrives
  <1>4. CASE KeySaved(c) \/ ActionDone(c) \/ LoggedIn(c)
    <2>1. Reload(c)  BY <1>4 DEF KeySaved, ActionDone, LoggedIn
    <2>2. CallsKnow(rows, calls')  BY <1>1, <2>1, LoadKnows DEF Reload
    <2>3. UNCHANGED <<items, rows>>
          /\ (pendingAction' = pendingAction \/ pendingAction' = NoAction)
          /\ (form' = form \/ form' = NoForm)
      BY <1>4 DEF KeySaved, ActionDone, LoggedIn
    <2> QED  BY <2>2, <2>3, FormTypes DEF ActionKnows
  <1>5. CASE Unauthorized(c)
    <2> DEFINE new == [calls[c] EXCEPT !.stage = "failing", !.request = Simple(Op(c))]
    <2>1. Simple(Op(c)) \in [op : Ops, id : KeyIds, version : Nat, expires : Shown, seen : Row]
      BY <1>1, NoItemIsRead, ShownDates DEF Simple, Request, KeyIds, CallShape, Op
    <2>2. new \in CallShape /\ new.stage = "failing"  BY <1>1, <2>1 DEF CallShape, Stages
    <2>3. CallKnows(rows, new)  BY <2>2 DEF CallKnows
    <2>4. calls' = [calls EXCEPT ![c] = new]  BY <1>5 DEF Unauthorized
    <2> HIDE DEF new
    <2>5. CallsKnow(rows, calls')  BY <2>3, <2>4, OneCall
    <2> QED  BY <1>2, <1>5, <2>5 DEF Unauthorized, LogOutPage
  <1>6. CASE Throws(c)
    <2>1. CASE Ended(c)
      <3>1. CallsKnow(rows, calls')  BY <2>1, EndedKnows
      <3> QED  BY <1>6, <3>1 DEF Throws
    <2>2. CASE calls[c].stage = "sent" /\ calls' = [calls EXCEPT ![c] = Abandoned(c)]
      <3>1. Abandoned(c) \in CallShape /\ Abandoned(c).stage = "abandoned"
            /\ Abandoned(c).request = calls[c].request
        BY <1>1 DEF Abandoned, CallShape, Stages
      <3>2. CallKnows(rows, Abandoned(c))  BY <1>1, <2>2, <3>1 DEF CallKnows
      <3>3. CallsKnow(rows, calls')  BY <2>2, <3>2, OneCall
      <3> QED  BY <1>6, <3>3 DEF Throws
    <2> QED  BY <1>6, <2>1, <2>2 DEF Throws, EndedOrAbandoned
  <1>7. CASE LoggedOut(c)
    <2>1. CallsKnow(rows, calls')  BY <1>7, EndedKnows DEF LoggedOut
    <2> QED  BY <1>2, <1>7, <2>1 DEF LoggedOut, LogOutPage
  <1> QED  BY <1>3, <1>4, <1>5, <1>6, <1>7 DEF Continue

LEMMA StepsRead == EverythingWasRead /\ [Next]_vars => EverythingWasRead'
  <1> SUFFICES ASSUME EverythingWasRead, [Next]_vars  PROVE EverythingWasRead'  OBVIOUS
  <1>1. CASE UNCHANGED vars  BY <1>1 DEF vars, pageVars, EverythingWasRead
  <1>2. ASSUME NEW c \in Slots, Press(c)  PROVE EverythingWasRead'
    BY <1>2, HandlersRead
  <1>3. ASSUME NEW c \in Slots, ServerStep(c) \/ MutateLate(c)  PROVE EverythingWasRead'
    BY <1>3, ApiRead
  <1>4. ASSUME NEW c \in Slots, Continue(c)  PROVE EverythingWasRead'
    BY <1>4, AnswersRead
  <1>5. CASE OpenOrClose  BY <1>5, HandlersRead, PageConstantsOK
  <1>6. CASE \E k \in Keys : OtherAdmin(k)  BY <1>6, ApiRead, PageConstantsOK
  <1> QED  BY <1>1, <1>2, <1>3, <1>4, <1>5, <1>6 DEF Next

\* Everything the page, its calls and the requests it gave up hold of a key was
\* once read from the table, and the table only grows.
THEOREM AlwaysRead == Spec => []EverythingWasRead
  BY InitRead, StepsRead, PTL DEF Spec

\* A change that the server accepts finds the key as the page listed it: the
\* version names one content only.
THEOREM ChangesFindTheListed == Spec => []ChangesWhatWasListed
  <1>1. EverythingWasRead => ChangesWhatWasListed
    <2> SUFFICES ASSUME EverythingWasRead, NEW c \in Slots,
                        calls[c].stage \in {"sent", "abandoned"},
                        calls[c].request.op \in Mutations \ {"create"},
                        Accepts(calls[c].request)
                 PROVE  rows[calls[c].request.id] = calls[c].request.seen
      BY DEF ChangesWhatWasListed
    <2>1. Names(rows, calls[c].request)  BY DEF EverythingWasRead, CallsKnow, CallKnows
    <2> QED  BY <2>1 DEF Names, Reads, Accepts
  <1> QED  BY <1>1, AlwaysRead, PTL

\* However often a key is edited, its expiry is one that somebody chose, or that
\* one without its seconds.
THEOREM NoDrift == Spec => []ExpiryNeverDrifts
  <1>1. EverythingWasRead => ExpiryNeverDrifts
    <2> SUFFICES ASSUME EverythingWasRead, NEW k \in Keys
                 PROVE  \/ rows[k].expires \in Expiries \cup {NoDate}
                        \/ \E t \in (Expiries \cup Picked) \ {NoDate} :
                             rows[k].expires = t - (t % 2)
      BY DEF ExpiryNeverDrifts
    <2>1. rows[k].expires \in Shown  BY DEF EverythingWasRead, Tables, Row
    <2>2. ASSUME NEW t \in Expiries \cup Picked, rows[k].expires = ByMinute(t)
          PROVE  rows[k].expires = NoDate \/ (t # NoDate /\ rows[k].expires = t - (t % 2))
      <3>1. CASE t = NoDate
        BY <2>2, <3>1 DEF ByMinute, ExpirationValue, ToLocalInput
      <3>2. CASE t # NoDate
        <4>1. t \in Int  BY <3>2, PageConstantsOK
        <4> QED  BY <2>2, <3>2, <4>1, FormCutsSeconds
      <3> QED  BY <3>1, <3>2
    <2> QED  BY <2>1, <2>2 DEF Shown
  <1> QED  BY <1>1, AlwaysRead, PTL

-----------------------------------------------------------------------------
(* Buttons                                                                 *)

\* A function without a `finally` disabled no button, and neither did a request
\* whose function is over.
ButtonsHeld ==
  /\ disabled \subseteq Buttons /\ ButtonsReturn
  /\ \A c \in Slots :
       calls[c].stage = "abandoned" \/ (InFlight(c) /\ Op(c) = "logout")
         => calls[c].button = "none"

Same(d) == /\ calls'[d].stage = calls[d].stage /\ calls'[d].button = calls[d].button
           /\ calls'[d].request = calls[d].request

\* One call changes: its function goes on and keeps its button, or it ends and
\* gives it back, or it has none.
LEMMA OneButton ==
  ASSUME ButtonsHeld, NEW c \in Slots, \A d \in Slots \ {c} : Same(d),
         calls'[c].stage = "abandoned"
           \/ (calls'[c].stage # "free" /\ calls'[c].request.op = "logout")
           => calls'[c].button = "none",
         \/ /\ calls'[c].stage # "free" /\ calls'[c].button = calls[c].button
            /\ disabled' = disabled
         \/ disabled' = disabled \ {calls[c].button}
         \/ /\ calls[c].button = "none" \/ calls[c].stage = "free"
            /\ disabled' = disabled
         \/ /\ calls[c].stage = "free" /\ calls'[c].stage # "free"
            /\ calls'[c].button \in Buttons
            /\ disabled' = disabled \cup {calls'[c].button}
  PROVE  ButtonsHeld'
  <1>1. disabled' \subseteq Buttons  BY DEF ButtonsHeld
  <1>2. ASSUME NEW d \in Slots
        PROVE  calls'[d].stage = "abandoned"
                 \/ (calls'[d].stage # "free" /\ calls'[d].request.op = "logout")
                 => calls'[d].button = "none"
    <2>1. CASE d = c  BY <2>1
    <2>2. CASE d # c  BY <2>2 DEF ButtonsHeld, Same, InFlight, Op
    <2> QED  BY <2>1, <2>2
  <1>3. ASSUME NEW b \in disabled'
        PROVE  \E d \in Slots : calls'[d].stage # "free" /\ calls'[d].button = b
    <2>1. CASE b \in disabled
      <3>1. PICK d \in Slots : calls[d].stage # "free" /\ calls[d].button = b
        BY <2>1 DEF ButtonsHeld, ButtonsReturn, InFlight
      <3>2. CASE d # c  BY <3>1, <3>2 DEF Same
      <3>3. CASE d = c
        <4>1. b # "none"  BY <2>1 DEF ButtonsHeld, Buttons
        <4> QED  BY <3>1, <3>3, <4>1, <1>3
      <3> QED  BY <3>2, <3>3
    <2>2. CASE b \notin disabled  BY <1>3, <2>2
    <2> QED  BY <2>1, <2>2
  <1>4. ButtonsReturn'  BY <1>3 DEF ButtonsReturn, InFlight
  <1> QED  BY <1>1, <1>2, <1>4 DEF ButtonsHeld, InFlight, Op

LEMMA InitButtons == Init => ButtonsHeld
  BY DEF Init, ButtonsHeld, ButtonsReturn, InFlight, Op, Call, Simple, Request, Free

LEMMA HandlersButtons ==
  ASSUME EverythingWasRead, ButtonsHeld, NEW c \in Slots, Press(c)
  PROVE  ButtonsHeld'
  <1>1. \A d \in Slots : calls[d] \in CallShape /\ calls = [e \in Slots |-> calls[e]]
    BY DEF EverythingWasRead, CallsKnow, CallKnows
  <1>2. ASSUME NEW r, NEW button \in Buttons, Submit(c, r, button), r.op # "logout"
        PROVE  ButtonsHeld'
    <2>1. \A d \in Slots \ {c} : Same(d)
      BY <1>1, <1>2 DEF Submit, Same, CallShape
    <2>2. calls'[c].stage = "sent" /\ calls'[c].button = button /\ calls'[c].request = r
      BY <1>2 DEF Submit, Call
    <2>3. calls[c].stage = "free" /\ disabled' = disabled \cup {button}
      BY <1>2 DEF Submit, InFlight
    <2> QED  BY <1>2, <2>1, <2>2, <2>3, OneButton
  <1>3. CASE Refresh(c)
    <2>1. calls' = [calls EXCEPT ![c] = Call(Simple("list"), "none")]
          /\ calls[c].stage = "free" /\ disabled' = disabled
      BY <1>3 DEF Refresh, Load, InFlight
    <2>2. calls'[c] = Call(Simple("list"), "none") /\ \A d \in Slots \ {c} : Same(d)
      BY <1>1, <2>1 DEF Same
    <2> QED  BY <2>1, <2>2, OneButton DEF Call, Simple, Request
  <1>4. CASE Logout(c)
    <2>1. calls' = [calls EXCEPT ![c] = Call(Simple("logout"), "none")]
          /\ calls[c].stage = "free" /\ disabled' = disabled
      BY <1>4 DEF Logout, InFlight, pageVars
    <2>2. calls'[c] = Call(Simple("logout"), "none") /\ \A d \in Slots \ {c} : Same(d)
      BY <1>1, <2>1 DEF Same
    <2> QED  BY <2>1, <2>2, OneButton DEF Call, Simple, Request
  <1>5. ASSUME NEW local \in Locals, SubmitKey(c, local)  PROVE ButtonsHeld'
    BY <1>2, <1>5 DEF SubmitKey, Buttons, Request
  <1>6. CASE RunConfirmed(c)
    <2>1. pendingAction.op \in Confirmed
      BY <1>6 DEF RunConfirmed, EverythingWasRead, ActionKnows
    <2>2. PendingRequest.op # "logout"
      BY <2>1 DEF PendingRequest, Request, Confirmed
    <2> QED  BY <1>2, <1>6, <2>2 DEF RunConfirmed, Buttons
  <1>7. CASE SubmitLogin(c)
    BY <1>2, <1>7 DEF SubmitLogin, Buttons, Simple, Request
  <1> QED  BY <1>3, <1>4, <1>5, <1>6, <1>7 DEF Press

LEMMA AnswersButtons ==
  ASSUME EverythingWasRead, ButtonsHeld, NEW c \in Slots,
         ServerStep(c) \/ MutateLate(c) \/ Continue(c)
  PROVE  ButtonsHeld'
  <1>1. \A d \in Slots : calls[d] \in CallShape /\ calls = [e \in Slots |-> calls[e]]
    BY DEF EverythingWasRead, CallsKnow, CallKnows
  <1>2. Free.stage = "free"  BY DEF Free, Call
  <1>3. ASSUME Ended(c), Enabled(c) \/ (disabled' = disabled /\ calls[c].button = "none")
        PROVE  ButtonsHeld'
    <2>1. calls'[c] = Free /\ \A d \in Slots \ {c} : Same(d)
      BY <1>1, <1>3 DEF Ended, Same
    <2> QED  BY <1>2, <1>3, <2>1, OneButton DEF Enabled
  <1>4. ASSUME Answered(c, calls'[c].answer)  PROVE ButtonsHeld'
    <2>1. \A d \in Slots \ {c} : Same(d)  BY <1>1, <1>4 DEF Answered, Same
    <2>2. calls'[c].stage = "ok" /\ calls'[c].button = calls[c].button
          /\ calls'[c].request.op = calls[c].request.op
      BY <1>1, <1>4 DEF Answered, CallShape, Simple, Request, Op
    <2>3. disabled' = disabled /\ calls[c].stage = "sent"
      BY <1>4 DEF Answered, pageVars
    <2> QED  BY <2>1, <2>2, <2>3, OneButton DEF ButtonsHeld, InFlight, Op
  <1>5. ASSUME NEW answer, Answered(c, answer)  PROVE ButtonsHeld'
    <2>1. calls'[c].answer = answer  BY <1>1, <1>5 DEF Answered, CallShape
    <2> QED  BY <1>4, <1>5, <2>1
  <1>6. CASE ServerStep(c)
    <2>1. \E answer : Answered(c, answer)  BY <1>6 DEF ServerStep, ListServed, Mutate
    <2> QED  BY <1>5, <2>1
  <1>7. CASE MutateLate(c)
    <2>1. Ended(c) /\ disabled' = disabled /\ calls[c].stage = "abandoned"
      BY <1>7 DEF MutateLate, Ended, pageVars
    <2> QED  BY <1>3, <2>1 DEF ButtonsHeld
  <1>8. CASE ListArrives(c)  BY <1>3, <1>8 DEF ListArrives
  <1>9. CASE KeySaved(c) \/ ActionDone(c) \/ LoggedIn(c)
    <2>1. calls' = [calls EXCEPT ![c] = Call(Simple("list"), calls[c].button)]
          /\ disabled' = disabled
      BY <1>9 DEF KeySaved, ActionDone, LoggedIn, Reload, Load
    <2>2. calls'[c] = Call(Simple("list"), calls[c].button)
          /\ \A d \in Slots \ {c} : Same(d)
      BY <1>1, <2>1 DEF Same
    <2> QED  BY <2>1, <2>2, OneButton DEF Call, Simple, Request
  <1>10. CASE Unauthorized(c)
    <2>1. \A d \in Slots \ {c} : Same(d)  BY <1>1, <1>10 DEF Unauthorized, Same
    <2>2. calls'[c].stage = "failing" /\ calls'[c].button = calls[c].button
          /\ calls'[c].request = Simple(Op(c))
      BY <1>1, <1>10 DEF Unauthorized, CallShape
    <2>3. calls'[c].request.op # "logout" /\ disabled' = disabled
      BY <1>10, <2>2 DEF Unauthorized, Simple, Request
    <2> QED  BY <2>1, <2>2, <2>3, OneButton
  <1>11. CASE Throws(c)
    <2>1. Enabled(c)  BY <1>11 DEF Throws, EnabledAgain
    <2>2. CASE Ended(c)  BY <1>3, <2>1, <2>2
    <2>3. CASE calls' = [calls EXCEPT ![c] = Abandoned(c)]
      <3>1. calls'[c] = Abandoned(c) /\ \A d \in Slots \ {c} : Same(d)
        BY <1>1, <2>3 DEF Same
      <3>2. Abandoned(c).button = "none"  BY <1>1 DEF Abandoned, CallShape
      <3> QED  BY <2>1, <3>1, <3>2, OneButton DEF Enabled
    <2> QED  BY <1>11, <2>2, <2>3 DEF Throws, EndedOrAbandoned
  <1>12. CASE LoggedOut(c)
    <2>1. calls[c].button = "none"  BY <1>12 DEF LoggedOut, ButtonsHeld, InFlight
    <2> QED  BY <1>3, <1>12, <2>1 DEF LoggedOut
  <1> QED  BY <1>6, <1>7, <1>8, <1>9, <1>10, <1>11, <1>12 DEF Continue

LEMMA ButtonsAlwaysHeld == Spec => []ButtonsHeld
  <1>1. EverythingWasRead /\ ButtonsHeld /\ [Next]_vars => ButtonsHeld'
    <2> SUFFICES ASSUME EverythingWasRead, ButtonsHeld, [Next]_vars  PROVE ButtonsHeld'
      OBVIOUS
    <2>1. CASE UNCHANGED <<calls, disabled>>
      BY <2>1 DEF ButtonsHeld, ButtonsReturn, InFlight, Op
    <2>2. CASE UNCHANGED vars  BY <2>1, <2>2 DEF vars, pageVars
    <2>3. CASE OpenOrClose
      BY <2>1, <2>3 DEF OpenOrClose, OpenCreate, CancelForm, CancelConfirm, DismissLogin,
                        CloseSecret, OpenEdit, OpenConfirm
    <2>4. CASE \E k \in Keys : OtherAdmin(k)  BY <2>1, <2>4 DEF OtherAdmin, pageVars
    <2>5. ASSUME NEW c \in Slots, Press(c)  PROVE ButtonsHeld'  BY <2>5, HandlersButtons
    <2>6. ASSUME NEW c \in Slots, ServerStep(c) \/ MutateLate(c) \/ Continue(c)
          PROVE  ButtonsHeld'
      BY <2>6, AnswersButtons
    <2> QED  BY <2>2, <2>3, <2>4, <2>5, <2>6 DEF Next
  <1> QED  BY <1>1, InitButtons, AlwaysRead, PTL DEF Spec

\* A submit button is disabled only while a function is under way that enables it
\* again, in every interleaving of handlers and answers.
THEOREM ButtonsAlwaysReturn == Spec => []ButtonsReturn
  <1>1. ButtonsHeld => ButtonsReturn  BY DEF ButtonsHeld
  <1> QED  BY <1>1, ButtonsAlwaysHeld, PTL

-----------------------------------------------------------------------------
(* The dialogs: the secret dialog lies under nothing but the login dialog  *)

Dialogs == {"auth", "form", "confirm", "secret"}

\* Nothing but the login dialog is ever above the secret dialog.
Stacked(d) ==
  /\ d \in Seq(Dialogs)
  /\ \A i, j \in 1 .. Len(d) : i # j => d[i] # d[j]
  /\ \A i, j \in 1 .. Len(d) : i < j /\ d[i] = "secret" => d[j] = "auth"

LEMMA StackedOpened ==
  ASSUME NEW d, Stacked(d), NEW name \in {"auth", "secret"}
  PROVE  /\ Stacked(Opened(d, name)) /\ IsOpen(Opened(d, name), name)
         /\ \A other : IsOpen(d, other) => IsOpen(Opened(d, name), other)
  <1>1. CASE IsOpen(d, name)  BY <1>1 DEF Opened
  <1>2. CASE ~IsOpen(d, name)
    <2> DEFINE e == Append(d, name)
    <2>1. Opened(d, name) = e  BY <1>2 DEF Opened
    <2>2. /\ d \in Seq(Dialogs) /\ Len(d) \in Nat /\ e \in Seq(Dialogs)
          /\ Len(e) = Len(d) + 1 /\ e[Len(d) + 1] = name
          /\ \A i \in 1 .. Len(d) : e[i] = d[i]
      BY DEF Stacked, Dialogs
    <2>3. \A i \in 1 .. Len(d) : d[i] # name  BY <1>2 DEF IsOpen
    <2> HIDE DEF e
    <2>4. \A i \in 1 .. Len(e) : i = Len(d) + 1 \/ i \in 1 .. Len(d)  BY <2>2
    <2>5. \A i, j \in 1 .. Len(e) : i # j => e[i] # e[j]
      BY <2>2, <2>3, <2>4 DEF Stacked
    <2>6. \A i, j \in 1 .. Len(e) : i < j /\ e[i] = "secret" => e[j] = "auth"
      <3> SUFFICES ASSUME NEW i \in 1 .. Len(e), NEW j \in 1 .. Len(e), i < j,
                          e[i] = "secret"
                   PROVE  e[j] = "auth"
        OBVIOUS
      <3>1. i \in 1 .. Len(d) /\ d[i] = "secret"  BY <2>2
      <3>2. CASE j \in 1 .. Len(d)  BY <2>2, <3>1, <3>2 DEF Stacked
      <3>3. CASE j = Len(d) + 1  BY <2>2, <2>3, <3>1, <3>3
      <3> QED  BY <2>4, <3>2, <3>3
    <2>7. Stacked(e)  BY <2>2, <2>5, <2>6 DEF Stacked
    <2>8. IsOpen(e, name) /\ \A other : IsOpen(d, other) => IsOpen(e, other)
      BY <2>2, <2>4 DEF IsOpen
    <2> QED  BY <2>1, <2>7, <2>8
  <1> QED  BY <1>1, <1>2

LEMMA StackedClosed ==
  ASSUME NEW d, Stacked(d), NEW name
  PROVE  /\ Stacked(Closed(d, name))
         /\ \A other : other # name /\ IsOpen(d, other) => IsOpen(Closed(d, name), other)
  <1>1. CASE ~IsOpen(d, name)  BY <1>1 DEF Closed
  <1>2. CASE IsOpen(d, name)
    <2> DEFINE p == CHOOSE i \in 1 .. Len(d) : d[i] = name
               e == [i \in 1 .. Len(d) - 1 |-> IF i < p THEN d[i] ELSE d[i + 1]]
               From(i) == IF i < p THEN i ELSE i + 1
    <2>1. p \in 1 .. Len(d) /\ d[p] = name  BY <1>2 DEF IsOpen
    <2>2. Closed(d, name) = e  BY <1>2 DEF Closed
    <2>3. d \in Seq(Dialogs) /\ Len(d) \in Nat /\ \A i \in 1 .. Len(d) : d[i] \in Dialogs
      BY DEF Stacked
    <2> HIDE DEF p
    <2>4. e \in Seq(Dialogs) /\ Len(e) = Len(d) - 1
      <3>1. \A i \in 1 .. Len(d) - 1 : e[i] \in Dialogs  BY <2>1, <2>3
      <3>2. Len(d) - 1 \in Nat  BY <2>1, <2>3
      <3>3. e \in [1 .. Len(d) - 1 -> Dialogs]  BY <3>1
      <3> QED  BY <3>2, <3>3
    <2>5. \A i \in 1 .. Len(e) :
            From(i) \in 1 .. Len(d) /\ From(i) # p /\ e[i] = d[From(i)]
      BY <2>1, <2>3, <2>4
    <2>6. \A i, j \in 1 .. Len(e) : i < j => From(i) < From(j)  BY <2>1, <2>3, <2>4
    <2>7. \A i, j \in 1 .. Len(e) : i # j => From(i) # From(j)  BY <2>1, <2>3, <2>4
    <2>8. \A q \in 1 .. Len(d) : q # p => \E i \in 1 .. Len(e) : From(i) = q
      <3> SUFFICES ASSUME NEW q \in 1 .. Len(d), q # p
                   PROVE  \E i \in 1 .. Len(e) : From(i) = q
        OBVIOUS
      <3>1. CASE q < p
        <4>1. q \in 1 .. Len(e) /\ From(q) = q  BY <2>1, <2>3, <2>4, <3>1
        <4> QED  BY <4>1
      <3>2. CASE q > p
        <4>1. q - 1 \in 1 .. Len(e) /\ From(q - 1) = q  BY <2>1, <2>3, <2>4, <3>2
        <4> QED  BY <4>1
      <3> QED  BY <2>1, <2>3, <3>1, <3>2
    <2> HIDE DEF e, From
    <2>9. Stacked(e)
      <3>1. \A i, j \in 1 .. Len(e) : i # j => e[i] # e[j]
        BY <2>5, <2>7 DEF Stacked
      <3>2. \A i, j \in 1 .. Len(e) : i < j /\ e[i] = "secret" => e[j] = "auth"
        BY <2>5, <2>6 DEF Stacked
      <3> QED  BY <2>4, <3>1, <3>2 DEF Stacked
    <2>10. ASSUME NEW other, other # name, IsOpen(d, other)  PROVE IsOpen(e, other)
      <3>1. PICK q \in 1 .. Len(d) : d[q] = other  BY <2>10 DEF IsOpen
      <3>2. PICK i \in 1 .. Len(e) : From(i) = q  BY <2>1, <2>8, <2>10, <3>1
      <3> QED  BY <2>5, <3>1, <3>2 DEF IsOpen
    <2> QED  BY <2>2, <2>9, <2>10
  <1> QED  BY <1>1, <1>2

-----------------------------------------------------------------------------
(* Who can bring a full key while one is shown                             *)

\* Calls that bring a key know of each other, and of the key on the screen.
SecretGuarded ==
  /\ Stacked(dialogs)
  /\ oneTimeKey # NoSecret => IsOpen(dialogs, "secret")
  /\ \A c, d \in Slots :
       c # d /\ BringsKey(c) /\ BringsKey(d) => calls[c].beside /\ calls[d].beside
  /\ oneTimeKey # NoSecret => \A c \in Slots : BringsKey(c) => calls[c].beside

\* Whatever asks for a form, a confirmation or the bare page waits for the secret.
LEMMA SecretOnTop ==
  ASSUME Stacked(dialogs), IsOpen(dialogs, "secret")
  PROVE  ~ReachesPage /\ ~Reaches("form") /\ ~Reaches("confirm")
  <1>1. PICK i \in 1 .. Len(dialogs) : dialogs[i] = "secret"  BY DEF IsOpen
  <1>2. Len(dialogs) \in Nat /\ dialogs \in Seq(Dialogs)  BY DEF Stacked
  <1>3. dialogs # <<>> /\ Len(dialogs) \in 1 .. Len(dialogs)  BY <1>1, <1>2
  <1>4. dialogs[Len(dialogs)] \in {"secret", "auth"}
    <2>1. CASE i = Len(dialogs)  BY <1>1, <2>1
    <2>2. CASE i < Len(dialogs)  BY <1>1, <1>3, <2>2 DEF Stacked
    <2> QED  BY <1>2, <2>1, <2>2
  <1> QED  BY <1>3, <1>4 DEF ReachesPage, Reaches

LEMMA OneDialog ==
  /\ Stacked(<<>>) /\ Stacked(<<"form">>) /\ Stacked(<<"confirm">>)
  BY DEF Stacked, Dialogs

\* A step that sends no new request for a key: whoever brings one did so before.
LEMMA SameCalls ==
  ASSUME SecretGuarded,
         \A c \in Slots : BringsKey(c)' => BringsKey(c) /\ calls'[c].beside = calls[c].beside,
         Stacked(dialogs'),
         oneTimeKey' # NoSecret => IsOpen(dialogs', "secret"),
         oneTimeKey' = oneTimeKey \/ oneTimeKey' = NoSecret
           \/ \E c \in Slots : BringsKey(c) /\ ~BringsKey(c)'
  PROVE  SecretGuarded'
  <1>1. \A c, d \in Slots : c # d /\ BringsKey(c)' /\ BringsKey(d)'
                             => calls'[c].beside /\ calls'[d].beside
    BY DEF SecretGuarded
  <1>2. ASSUME oneTimeKey' # NoSecret, NEW c \in Slots, BringsKey(c)'
        PROVE  calls'[c].beside
    <2>1. CASE oneTimeKey' = oneTimeKey  BY <1>2, <2>1 DEF SecretGuarded
    <2>2. ASSUME NEW d \in Slots, BringsKey(d), ~BringsKey(d)'  PROVE calls'[c].beside
      BY <1>2, <2>2 DEF SecretGuarded
    <2> QED  BY <1>2, <2>1, <2>2
  <1> QED  BY <1>1, <1>2 DEF SecretGuarded

LEMMA NotBringing ==
  ASSUME NEW all, NEW c \in Slots, NEW new, all = [d \in Slots |-> all[d]],
         calls = all, calls' = [all EXCEPT ![c] = new],
         new.stage = "free" \/ new.request.op \notin {"create", "rotate"}
  PROVE  /\ ~BringsKey(c)'
         /\ \A d \in Slots : BringsKey(d)' => BringsKey(d) /\ calls'[d].beside = calls[d].beside
  <1>1. ~BringsKey(c)'  BY DEF BringsKey, InFlight, Op
  <1>2. \A d \in Slots \ {c} : calls'[d] = calls[d]  OBVIOUS
  <1> QED  BY <1>1, <1>2 DEF BringsKey, InFlight, Op

LEMMA SubmitGuarded ==
  ASSUME SecretGuarded, EverythingWasRead, NEW c \in Slots, NEW r, NEW button,
         Submit(c, r, button),
         dialogs' = dialogs, oneTimeKey' = oneTimeKey,
         oneTimeKey # NoSecret => r.op \notin {"create", "rotate"}
  PROVE  SecretGuarded'
  <1>1. /\ calls'[c].stage = "sent" /\ calls'[c].request = r /\ ~InFlight(c)
        /\ \A d \in Slots \ {c} : /\ calls'[d].stage = calls[d].stage
                                 /\ calls'[d].request = calls[d].request
    BY DEF Submit, Call, EverythingWasRead, CallsKnow, CallKnows, CallShape
  <1>2. \A d \in Slots : calls[d] \in CallShape /\ calls[d].beside \in BOOLEAN
    BY DEF EverythingWasRead, CallsKnow, CallKnows, CallShape
  <1>3. CASE r.op \notin {"create", "rotate"}
    <2>1. \A d \in Slots \ {c} : calls'[d].beside = calls[d].beside
      BY <1>2, <1>3 DEF Submit, CallShape
    <2>2. \A d \in Slots :
            BringsKey(d)' => BringsKey(d) /\ calls'[d].beside = calls[d].beside
      BY <1>1, <1>3, <2>1 DEF BringsKey, InFlight, Op
    <2> QED  BY <2>2, SameCalls DEF SecretGuarded
  <1>4. CASE r.op \in {"create", "rotate"}
    <2>1. \A d \in Slots \ {c} : BringsKey(d)' => BringsKey(d)
      BY <1>1 DEF BringsKey, InFlight, Op
    <2>2. \A d \in Slots \ {c} : BringsKey(d) => calls'[d].beside
      BY <1>2, <1>4 DEF Submit, CallShape
    <2>3. (\E d \in Slots : BringsKey(d)) => calls'[c].beside
      BY <1>4 DEF Submit, Call
    <2>4. ~BringsKey(c)  BY <1>1 DEF BringsKey
    <2> QED  BY <1>4, <2>1, <2>2, <2>3, <2>4 DEF SecretGuarded
  <1> QED  BY <1>3, <1>4

LEMMA InitGuarded == Init => SecretGuarded
  <1> SUFFICES ASSUME Init  PROVE SecretGuarded  OBVIOUS
  <1>1. \A c \in Slots : calls[c] = Call(Simple("list"), "none") \/ calls[c] = Free
    BY DEF Init
  <1>2. \A c \in Slots : ~BringsKey(c)
    BY <1>1 DEF BringsKey, InFlight, Op, Call, Simple, Request, Free
  <1> QED  BY <1>2, OneDialog DEF Init, SecretGuarded

LEMMA HandlersGuarded ==
  ASSUME SecretGuarded, EverythingWasRead, NEW c \in Slots, Press(c) \/ OpenOrClose
  PROVE  SecretGuarded'
  <1>1. calls = [d \in Slots |-> calls[d]] /\ Stacked(dialogs)
    BY DEF SecretGuarded, EverythingWasRead, CallsKnow
  <1>2. oneTimeKey # NoSecret => ~ReachesPage /\ ~Reaches("form") /\ ~Reaches("confirm")
    BY SecretOnTop DEF SecretGuarded
  <1>3. UNCHANGED calls => \A d \in Slots :
          BringsKey(d)' => BringsKey(d) /\ calls'[d].beside = calls[d].beside
    BY DEF BringsKey, InFlight, Op
  <1>4. CASE Refresh(c) \/ Logout(c)
    <2>1. PICK op \in {"list", "logout"} :
            calls' = [calls EXCEPT ![c] = Call(Simple(op), "none")]
      BY <1>4 DEF Refresh, Load, Logout
    <2>2. UNCHANGED <<dialogs, oneTimeKey>>  BY <1>4 DEF Refresh, Logout, pageVars
    <2>3. Call(Simple(op), "none").request.op \notin {"create", "rotate"}
      BY DEF Call, Simple, Request
    <2>4. \A d \in Slots : BringsKey(d)' => BringsKey(d) /\ calls'[d].beside = calls[d].beside
      BY <1>1, <2>1, <2>3, NotBringing
    <2> QED  BY <2>2, <2>4, SameCalls DEF SecretGuarded
  <1>5. ASSUME NEW local \in Locals, SubmitKey(c, local)  PROVE SecretGuarded'
    BY <1>2, <1>5, SubmitGuarded DEF SubmitKey
  <1>6. CASE RunConfirmed(c)  BY <1>2, <1>6, SubmitGuarded DEF RunConfirmed
  <1>7. CASE SubmitLogin(c)
    BY <1>7, SubmitGuarded DEF SubmitLogin, Simple, Request
  <1>8. CASE OpenCreate \/ \E k \in Keys : OpenEdit(k) \/ \E op \in Confirmed : OpenConfirm(k, op)
    <2>1. ReachesPage /\ UNCHANGED <<calls, oneTimeKey>> /\ Stacked(dialogs')
      BY <1>8, OneDialog DEF OpenCreate, OpenEdit, OpenConfirm
    <2> QED  BY <1>2, <1>3, <2>1, SameCalls
  <1>9. CASE CancelForm \/ CancelConfirm \/ DismissLogin
    <2>1. \E name \in {"form", "confirm", "auth"} : dialogs' = Closed(dialogs, name)
      BY <1>9 DEF CancelForm, CancelConfirm, DismissLogin
    <2>2. Stacked(dialogs') /\ (IsOpen(dialogs, "secret") => IsOpen(dialogs', "secret"))
      BY <1>1, <2>1, StackedClosed
    <2>3. UNCHANGED <<calls, oneTimeKey>>
      BY <1>9 DEF CancelForm, CancelConfirm, DismissLogin
    <2> QED  BY <1>3, <2>2, <2>3, SameCalls DEF SecretGuarded
  <1>10. CASE CloseSecret
    <2>1. Stacked(dialogs') /\ oneTimeKey' = NoSecret /\ UNCHANGED calls
      BY <1>1, <1>10, StackedClosed DEF CloseSecret
    <2> QED  BY <1>3, <2>1, SameCalls
  <1> QED  BY <1>4, <1>5, <1>6, <1>7, <1>8, <1>9, <1>10 DEF Press, OpenOrClose

LEMMA AnswersGuarded ==
  ASSUME SecretGuarded, EverythingWasRead, NEW c \in Slots,
         ServerStep(c) \/ MutateLate(c) \/ Continue(c)
  PROVE  SecretGuarded'
  <1>1. calls = [d \in Slots |-> calls[d]] /\ Stacked(dialogs)
    BY DEF SecretGuarded, EverythingWasRead, CallsKnow
  <1>2. calls[c] \in CallShape  BY DEF EverythingWasRead, CallsKnow, CallKnows
  <1> DEFINE NoneNew == \A d \in Slots :
               BringsKey(d)' => BringsKey(d) /\ calls'[d].beside = calls[d].beside
  <1>3. ASSUME Ended(c)  PROVE NoneNew /\ ~BringsKey(c)'
    <2>1. Free.stage = "free" /\ calls' = [calls EXCEPT ![c] = Free]
      BY <1>3 DEF Ended, Free, Call
    <2> QED  BY <1>1, <2>1, NotBringing
  <1>4. ASSUME Reload(c)  PROVE NoneNew /\ ~BringsKey(c)'
    <2>1. calls' = [calls EXCEPT ![c] = Call(Simple("list"), calls[c].button)]
      BY <1>4 DEF Reload, Load
    <2>2. Call(Simple("list"), calls[c].button).request.op \notin {"create", "rotate"}
      BY DEF Call, Simple, Request
    <2> QED  BY <1>1, <2>1, <2>2, NotBringing
  <1>5. ASSUME NEW new, calls' = [calls EXCEPT ![c] = new],
               new.request.op = Op(c), new.beside = calls[c].beside, InFlight(c)
        PROVE  NoneNew
    <2>1. calls'[c] = new /\ \A d \in Slots \ {c} : calls'[d] = calls[d]  BY <1>1, <1>5
    <2> QED  BY <1>5, <2>1 DEF BringsKey, InFlight, Op
  <1>6. ASSUME NoneNew, UNCHANGED <<dialogs, oneTimeKey>>  PROVE SecretGuarded'
    BY <1>6, SameCalls DEF SecretGuarded
  <1>7. ASSUME NoneNew, UNCHANGED oneTimeKey, NEW name \in Dialogs \ {"secret"},
               dialogs' = Closed(dialogs, name)
        PROVE  SecretGuarded'
    <2>1. Stacked(dialogs') /\ (IsOpen(dialogs, "secret") => IsOpen(dialogs', "secret"))
      BY <1>1, <1>7, StackedClosed
    <2> QED  BY <1>7, <2>1, SameCalls DEF SecretGuarded
  <1>8. ASSUME NoneNew, UNCHANGED oneTimeKey, dialogs' = Opened(dialogs, "auth")
        PROVE  SecretGuarded'
    <2>1. Stacked(dialogs') /\ (IsOpen(dialogs, "secret") => IsOpen(dialogs', "secret"))
      BY <1>1, <1>8, StackedOpened
    <2> QED  BY <1>8, <2>1, SameCalls DEF SecretGuarded
  <1>9. ASSUME NEW answer, Answered(c, answer)  PROVE SecretGuarded'
    <2> DEFINE new == [calls[c] EXCEPT !.stage = "ok", !.answer = answer,
                                       !.request = Simple(Op(c))]
    <2>1. calls' = [calls EXCEPT ![c] = new] /\ InFlight(c)
      BY <1>9 DEF Answered, InFlight
    <2>2. new.request.op = Op(c) /\ new.beside = calls[c].beside
      BY <1>2 DEF CallShape, Simple, Request
    <2> HIDE DEF new
    <2>3. NoneNew  BY <1>5, <2>1, <2>2
    <2> QED  BY <1>6, <1>9, <2>3 DEF Answered, pageVars
  <1>10. CASE ServerStep(c)
    <2>1. \E answer : Answered(c, answer)  BY <1>10 DEF ServerStep, ListServed, Mutate
    <2> QED  BY <1>9, <2>1
  <1>11. CASE MutateLate(c)
    <2>1. Ended(c) /\ UNCHANGED <<dialogs, oneTimeKey>>
      BY <1>11 DEF MutateLate, Ended, pageVars
    <2> QED  BY <1>3, <1>6, <2>1
  <1>12. CASE ListArrives(c)  BY <1>3, <1>7, <1>12 DEF ListArrives, Dialogs
  <1>13. CASE LoggedIn(c)  BY <1>4, <1>7, <1>13 DEF LoggedIn, Dialogs
  <1>14. CASE KeySaved(c) \/ ActionDone(c)
    <2>1. PICK name \in {"form", "confirm"} : SecretShown(c, Closed(dialogs, name))
      BY <1>14 DEF KeySaved, ActionDone
    <2>2. Reload(c) /\ calls[c].stage = "ok"  BY <1>14 DEF KeySaved, ActionDone
    <2>3. NoneNew /\ ~BringsKey(c)'  BY <1>4, <2>2
    <2>4. CASE Op(c) \in {"create", "rotate"}
      <3>1. dialogs' = Opened(Closed(dialogs, name), "secret")  BY <2>1, <2>4 DEF SecretShown
      <3>2. Stacked(dialogs') /\ IsOpen(dialogs', "secret")
        BY <1>1, <3>1, StackedClosed, StackedOpened
      <3>3. BringsKey(c)  BY <2>2, <2>4 DEF BringsKey, InFlight
      <3> QED  BY <2>3, <3>2, <3>3, SameCalls
    <2>5. CASE Op(c) \notin {"create", "rotate"}
      BY <1>7, <2>1, <2>3, <2>5 DEF SecretShown, Dialogs
    <2> QED  BY <2>4, <2>5
  <1>15. CASE Unauthorized(c)
    <2> DEFINE new == [calls[c] EXCEPT !.stage = "failing", !.request = Simple(Op(c))]
    <2>1. calls' = [calls EXCEPT ![c] = new] /\ InFlight(c)
      BY <1>15 DEF Unauthorized, InFlight
    <2>2. new.request.op = Op(c) /\ new.beside = calls[c].beside
      BY <1>2 DEF CallShape, Simple, Request
    <2> HIDE DEF new
    <2>3. NoneNew  BY <1>5, <2>1, <2>2
    <2> QED  BY <1>8, <1>15, <2>3 DEF Unauthorized, LogOutPage
  <1>16. CASE Throws(c)
    <2>1. NoneNew
      <3>1. CASE Ended(c)  BY <1>3, <3>1
      <3>2. CASE calls' = [calls EXCEPT ![c] = Abandoned(c)]
        <4>1. Abandoned(c).request.op = Op(c) /\ Abandoned(c).beside = calls[c].beside
          BY <1>2 DEF Abandoned, CallShape, Op
        <4> QED  BY <1>5, <1>16, <3>2, <4>1 DEF Throws
      <3> QED  BY <1>16, <3>1, <3>2 DEF Throws, EndedOrAbandoned
    <2> QED  BY <1>6, <1>8, <1>16, <2>1 DEF Throws
  <1>17. CASE LoggedOut(c)  BY <1>3, <1>8, <1>17 DEF LoggedOut, LogOutPage
  <1> QED
    BY <1>10, <1>11, <1>12, <1>13, <1>14, <1>15, <1>16, <1>17 DEF Continue

LEMMA StepsGuarded ==
  SecretGuarded /\ EverythingWasRead /\ [Next]_vars => SecretGuarded'
  <1> SUFFICES ASSUME SecretGuarded, EverythingWasRead, [Next]_vars  PROVE SecretGuarded'
    OBVIOUS
  <1>1. CASE UNCHANGED <<calls, dialogs, oneTimeKey>>
    BY <1>1 DEF SecretGuarded, BringsKey, InFlight, Op
  <1>2. CASE UNCHANGED vars  BY <1>1, <1>2 DEF vars, pageVars
  <1>3. CASE OpenOrClose  BY <1>3, HandlersGuarded, PageConstantsOK
  <1>4. CASE \E k \in Keys : OtherAdmin(k)  BY <1>1, <1>4 DEF OtherAdmin, pageVars
  <1>5. ASSUME NEW c \in Slots, Press(c)  PROVE SecretGuarded'  BY <1>5, HandlersGuarded
  <1>6. ASSUME NEW c \in Slots, ServerStep(c) \/ MutateLate(c) \/ Continue(c)
        PROVE  SecretGuarded'
    BY <1>6, AnswersGuarded
  <1> QED  BY <1>2, <1>3, <1>4, <1>5, <1>6 DEF Next

LEMMA AlwaysGuarded == Spec => []SecretGuarded
  BY InitGuarded, StepsGuarded, AlwaysRead, PTL DEF Spec

-----------------------------------------------------------------------------
(* The secret stays                                                        *)

\* What may become of the key on the screen in one step.
Kept ==
  \/ Reaches("secret") /\ oneTimeKey' = NoSecret
  \/ oneTimeKey' = oneTimeKey /\ IsOpen(dialogs', "secret")
  \/ \E c \in Slots : calls[c].stage = "ok" /\ calls[c].beside

LEMMA SecretStep ==
  ASSUME SecretGuarded, SecretGuarded', Next, oneTimeKey # NoSecret  PROVE Kept
  <1>1. CASE oneTimeKey' = oneTimeKey  BY <1>1 DEF Kept, SecretGuarded
  <1>2. CASE CloseSecret  BY <1>2 DEF CloseSecret, Kept
  <1>3. ASSUME NEW c \in Slots, KeySaved(c) \/ ActionDone(c)  PROVE Kept
    <2>1. calls[c].stage = "ok" /\ \E open : SecretShown(c, open)
      BY <1>3 DEF KeySaved, ActionDone
    <2>2. CASE Op(c) \in {"create", "rotate"}
      <3>1. BringsKey(c)  BY <2>1, <2>2 DEF BringsKey, InFlight
      <3> QED  BY <2>1, <3>1 DEF Kept, SecretGuarded
    <2>3. CASE Op(c) \notin {"create", "rotate"}  BY <1>1, <2>1, <2>3 DEF SecretShown
    <2> QED  BY <2>2, <2>3
  <1>4. ASSUME NEW c \in Slots, Press(c)  PROVE Kept
    BY <1>1, <1>4 DEF Press, Refresh, SubmitKey, RunConfirmed, SubmitLogin, Logout, pageVars
  <1>5. ASSUME NEW c \in Slots, ServerStep(c) \/ MutateLate(c)  PROVE Kept
    BY <1>1, <1>5 DEF ServerStep, ListServed, Mutate, MutateLate, Answered, pageVars
  <1>6. ASSUME NEW c \in Slots, Continue(c)  PROVE Kept
    BY <1>1, <1>3, <1>6
       DEF Continue, ListArrives, LoggedIn, Unauthorized, Throws, LoggedOut
  <1>7. CASE OpenOrClose
    BY <1>1, <1>2, <1>7 DEF OpenOrClose, OpenCreate, CancelForm, CancelConfirm,
                            DismissLogin, OpenEdit, OpenConfirm
  <1>8. CASE \E k \in Keys : OtherAdmin(k)  BY <1>1, <1>8 DEF OtherAdmin, pageVars
  <1> QED  BY <1>4, <1>5, <1>6, <1>7, <1>8 DEF Next

\* A full key on the screen stays there until somebody puts it away or another
\* call that was under way together with the one that brought it replaces it.
THEOREM SecretAlwaysStays == Spec => SecretStays
  <1>1. SecretGuarded /\ SecretGuarded' /\ [Next]_vars
          => [oneTimeKey # NoSecret =>
                \/ Reaches("secret") /\ oneTimeKey' = NoSecret
                \/ oneTimeKey' = oneTimeKey /\ IsOpen(dialogs', "secret")
                \/ \E c \in Slots : calls[c].stage = "ok" /\ calls[c].beside
             ]_<<oneTimeKey, dialogs>>
    <2>1. CASE UNCHANGED vars  BY <2>1 DEF vars, pageVars
    <2>2. CASE Next  BY <2>2, SecretStep DEF Kept
    <2> QED  BY <2>1, <2>2
  <1> QED  BY <1>1, AlwaysGuarded, PTL DEF Spec, SecretStays

-----------------------------------------------------------------------------
(* The list shows the page's own changes                                   *)

\* A list brings change <<k, v>> to a table: the key as of it, or deleted since.
Brings(t, list, change) ==
  \/ list[change[1]].version >= change[2]
  \/ list[change[1]] = NoItem /\ t[change[1]].status = "revoked"

Made(t, change) == change \in Keys \X Nat /\ change[2] <= t[change[1]].version

Lister(c) == InFlight(c) /\ Op(c) = "list"

\* Nothing is expected, or one load at most is under way and it brings the change,
\* or the load is over and has brought it, unless it failed.
ChangeShown ==
  /\ \A c \in Slots :
       /\ calls[c].stage = "ok" /\ Op(c) \in Mutations => Made(rows, calls[c].answer)
       /\ calls[c].stage = "abandoned" => Op(c) \in Mutations
  /\ expected # NoSecret =>
       /\ Made(rows, expected)
       /\ \A c, d \in Slots : Lister(c) /\ Lister(d) => c = d
       /\ \A c \in Slots : calls[c].stage = "ok" /\ Op(c) = "list"
                           => Brings(rows, calls[c].answer, expected)
       /\ (/\ authenticated /\ view \in {"table", "empty"}
           /\ \A c \in Slots : ~Lister(c)) => Brings(rows, items, expected)

\* Deleted keys stay deleted, and versions only grow.
LEMMA TableGrows ==
  ASSUME EverythingWasRead, NEW r, NEW k, Applied(r, k), r.expires \in Shown
  PROVE  /\ \A change : Made(rows, change) => Made(rows', change)
         /\ \A list, change : Made(rows, change) /\ Brings(rows, list, change)
                              => Brings(rows', list, change)
         /\ Made(rows', <<k, rows[k].version + 1>>)
  <1>1. k \in Targets(r) /\ rows' = [rows EXCEPT ![k] = Changed(@, r)] /\ k \in Keys
    BY DEF Applied, Targets
  <1>2. /\ rows \in Tables /\ rows' \in Tables
        /\ \A j \in Keys : rows'[j] = rows[j] \/ rows'[j].version > rows[j].version
    BY <1>1, ChangedIsNewer DEF EverythingWasRead
  <1>3. \A j \in Keys : rows[j].version \in Nat /\ rows'[j].version \in Nat
    BY <1>2 DEF Tables, Row
  <1>4. \A change : Made(rows, change) => Made(rows', change)  BY <1>2, <1>3 DEF Made
  <1>5. rows[k].status # "revoked"  BY <1>1 DEF Targets, Accepts, Alive, NoItem
  <1>6. \A j \in Keys : rows[j].status = "revoked" => rows'[j].status = "revoked"
    BY <1>1, <1>2, <1>5 DEF Tables
  <1>7. \A list, change : Made(rows, change) /\ Brings(rows, list, change)
                         => Brings(rows', list, change)
    BY <1>6 DEF Made, Brings
  <1>8. rows'[k].version = rows[k].version + 1  BY <1>1, <1>2 DEF Changed, Tables
  <1>9. Made(rows', <<k, rows[k].version + 1>>)
    <2>1. <<k, rows[k].version + 1>> \in Keys \X Nat  BY <1>1, <1>3
    <2> QED  BY <1>1, <1>3, <1>8, <2>1 DEF Made
  <1> QED  BY <1>4, <1>7, <1>9

LEMMA InitShown == Init => ChangeShown
  <1> SUFFICES ASSUME Init  PROVE ChangeShown  OBVIOUS
  <1>1. \A c \in Slots : calls[c] = Call(Simple("list"), "none") \/ calls[c] = Free
    BY DEF Init
  <1>2. \A c \in Slots : calls[c].stage \notin {"ok", "abandoned"}  BY <1>1 DEF Call, Free
  <1> QED  BY <1>2 DEF Init, ChangeShown

\* Nothing the invariant looks at changes, except for the calls: none turns into a
\* list or is answered.
LEMMA QuietStep ==
  ASSUME ChangeShown, UNCHANGED <<rows, expected, items, authenticated, view>>,
         \A c \in Slots : Lister(c)' <=> Lister(c),
         \A c \in Slots : calls'[c].stage = "ok" =>
                           /\ calls[c].stage = "ok" /\ calls'[c].request = calls[c].request
                           /\ calls'[c].answer = calls[c].answer,
         \A c \in Slots : calls'[c].stage = "abandoned" => calls'[c].request.op \in Mutations
  PROVE  ChangeShown'
  <1>1. \A c \in Slots : calls'[c].stage = "ok" /\ Op(c)' \in Mutations
                         => Made(rows', calls'[c].answer)
    BY DEF ChangeShown, Op
  <1>2. \A c \in Slots : calls'[c].stage = "ok" /\ Op(c)' = "list"
                         => calls[c].stage = "ok" /\ Op(c) = "list"
    BY DEF Op
  <1>3. \A c \in Slots : calls'[c].stage = "abandoned" => Op(c)' \in Mutations  BY DEF Op
  <1> QED  BY <1>1, <1>2, <1>3 DEF ChangeShown

\* A load begins: what is expected of it was made, and it is alone.
LEMMA LoadShown ==
  ASSUME ChangeShown, EverythingWasRead, NEW c \in Slots, NEW button, NEW told,
         Load(c, button, told), told = NoSecret \/ Made(rows, told), UNCHANGED rows
  PROVE  ChangeShown'
  <1>1. /\ calls' = [calls EXCEPT ![c] = Call(Simple("list"), button)]
        /\ view' = "loading" /\ expected' = IF ListOverlaps(c) THEN NoSecret ELSE told
    BY DEF Load
  <1>2. calls'[c] = Call(Simple("list"), button) /\ \A d \in Slots \ {c} : calls'[d] = calls[d]
    BY <1>1 DEF EverythingWasRead, CallsKnow
  <1>3. calls'[c].stage = "sent" /\ calls'[c].request.op = "list"
    BY <1>2 DEF Call, Simple, Request
  <1>4. \A d \in Slots : calls'[d].stage = "ok" /\ Op(d)' \in Mutations
                         => Made(rows', calls'[d].answer)
    BY <1>2, <1>3 DEF ChangeShown, Op
  <1>5. \A d \in Slots : calls'[d].stage = "abandoned" => Op(d)' \in Mutations
    BY <1>2, <1>3 DEF ChangeShown, Op
  <1>6. ASSUME expected' # NoSecret
        PROVE  /\ Made(rows', expected')
               /\ \A d \in Slots \ {c} : ~Lister(d)'
    BY <1>1, <1>2, <1>6 DEF ListOverlaps, Lister, InFlight, Op
  <1> QED  BY <1>1, <1>3, <1>4, <1>5, <1>6 DEF ChangeShown, Lister, InFlight, Op

LEMMA HandlersShown ==
  ASSUME ChangeShown, EverythingWasRead, NEW c \in Slots, Press(c) \/ OpenOrClose
  PROVE  ChangeShown'
  <1>1. \A d \in Slots : calls[d] \in CallShape /\ calls = [e \in Slots |-> calls[e]]
    BY DEF EverythingWasRead, CallsKnow, CallKnows
  <1>2. CASE UNCHANGED <<calls, rows, expected, items, authenticated, view>>
    <2>1. \A d \in Slots : Lister(d)' <=> Lister(d)  BY <1>2 DEF Lister, InFlight, Op
    <2> QED  BY <1>2, <2>1, QuietStep DEF ChangeShown, Op
  <1>3. CASE Refresh(c)
    <2>1. Load(c, "none", NoSecret) /\ UNCHANGED rows  BY <1>3 DEF Refresh
    <2> QED  BY <2>1, LoadShown
  <1>4. ASSUME NEW new, ~InFlight(c), new.stage = "sent", new.request.op # "list",
               calls'[c] = new, UNCHANGED <<rows, expected, items, authenticated, view>>,
               \A d \in Slots \ {c} : /\ calls'[d].stage = calls[d].stage
                                     /\ calls'[d].request = calls[d].request
                                     /\ calls'[d].answer = calls[d].answer
        PROVE  ChangeShown'
    <2>1. \A d \in Slots : Lister(d)' <=> Lister(d)  BY <1>4 DEF Lister, InFlight, Op
    <2>2. \A d \in Slots : calls'[d].stage = "abandoned" => calls'[d].request.op \in Mutations
      BY <1>4 DEF ChangeShown, Op
    <2> QED  BY <1>4, <2>1, <2>2, QuietStep
  <1>5. ASSUME NEW request, NEW button, Submit(c, request, button), request.op # "list",
               UNCHANGED <<rows, expected, items, authenticated, view>>
        PROVE  ChangeShown'
    <2>1. /\ calls'[c].stage = "sent" /\ calls'[c].request = request /\ ~InFlight(c)
          /\ \A d \in Slots \ {c} : /\ calls'[d].stage = calls[d].stage
                                   /\ calls'[d].request = calls[d].request
                                   /\ calls'[d].answer = calls[d].answer
      BY <1>1, <1>5 DEF Submit, Call, CallShape
    <2> QED  BY <1>4, <1>5, <2>1
  <1>6. ASSUME NEW local \in Locals, SubmitKey(c, local)  PROVE ChangeShown'
    BY <1>5, <1>6 DEF SubmitKey, Request
  <1>7. CASE RunConfirmed(c)
    <2>1. PendingRequest.op # "list"
      BY <1>7 DEF RunConfirmed, EverythingWasRead, ActionKnows, PendingRequest, Request,
                  Confirmed
    <2> QED  BY <1>5, <1>7, <2>1 DEF RunConfirmed
  <1>8. CASE SubmitLogin(c)  BY <1>5, <1>8 DEF SubmitLogin, Simple, Request
  <1>9. CASE Logout(c)
    <2>1. Call(Simple("logout"), "none").stage = "sent"
          /\ Call(Simple("logout"), "none").request.op # "list"
      BY DEF Call, Simple, Request
    <2>2. calls'[c] = Call(Simple("logout"), "none")
          /\ \A d \in Slots \ {c} : calls'[d] = calls[d]
      BY <1>1, <1>9 DEF Logout
    <2>3. ~InFlight(c) /\ UNCHANGED <<rows, expected, items, authenticated, view>>
      BY <1>9 DEF Logout, pageVars
    <2> QED  BY <1>4, <2>1, <2>2, <2>3
  <1>10. CASE OpenOrClose
    BY <1>2, <1>10 DEF OpenOrClose, OpenCreate, CancelForm, CancelConfirm, DismissLogin,
                       CloseSecret, OpenEdit, OpenConfirm
  <1> QED  BY <1>3, <1>6, <1>7, <1>8, <1>9, <1>10 DEF Press

\* The table changes; of the calls, one may be answered with what it changed, or end.
LEMMA TableChangeShown ==
  ASSUME ChangeShown, EverythingWasRead, NEW r, NEW k, Applied(r, k), r.expires \in Shown,
         UNCHANGED <<expected, items, authenticated, view>>,
         \A c \in Slots : Lister(c)' <=> Lister(c),
         \A c \in Slots : calls'[c].stage = "abandoned" => calls'[c].request.op \in Mutations,
         \A c \in Slots : calls'[c].stage = "ok" =>
           \/ /\ calls[c].stage = "ok" /\ calls'[c].request = calls[c].request
              /\ calls'[c].answer = calls[c].answer
           \/ /\ calls'[c].request.op # "list"
              /\ calls'[c].answer = <<k, rows[k].version + 1>>
  PROVE  ChangeShown'
  <1>1. /\ \A change : Made(rows, change) => Made(rows', change)
        /\ \A list, change : Made(rows, change) /\ Brings(rows, list, change)
                             => Brings(rows', list, change)
        /\ Made(rows', <<k, rows[k].version + 1>>)
    BY TableGrows
  <1>2. \A c \in Slots : calls'[c].stage = "ok" /\ Op(c)' \in Mutations
                         => Made(rows', calls'[c].answer)
    BY <1>1 DEF ChangeShown, Op
  <1>3. \A c \in Slots : calls'[c].stage = "ok" /\ Op(c)' = "list"
          => calls[c].stage = "ok" /\ Op(c) = "list" /\ calls'[c].answer = calls[c].answer
    BY DEF Op
  <1>4. \A c \in Slots : calls'[c].stage = "abandoned" => Op(c)' \in Mutations  BY DEF Op
  <1> QED  BY <1>1, <1>2, <1>3, <1>4 DEF ChangeShown

LEMMA ApiShown ==
  ASSUME ChangeShown, EverythingWasRead, NEW c \in Slots,
         ServerStep(c) \/ MutateLate(c) \/ \E k \in Keys : OtherAdmin(k)
  PROVE  ChangeShown'
  <1>1. /\ calls[c] \in CallShape /\ calls = [e \in Slots |-> calls[e]]
        /\ calls[c].request.expires \in Shown
    BY DEF EverythingWasRead, CallsKnow, CallKnows, CallShape
  <1>2. \A d \in Slots : calls[d].stage = "abandoned" => calls[d].request.op \in Mutations
    BY DEF ChangeShown, Op
  <1>3. "list" \notin Mutations  BY DEF Mutations, Confirmed
  <1>4. ASSUME NEW answer, Answered(c, answer)
        PROVE  /\ calls'[c].stage = "ok" /\ calls'[c].answer = answer
               /\ calls'[c].request = Simple(Op(c)) /\ Simple(Op(c)).op = Op(c)
               /\ \A d \in Slots \ {c} : calls'[d] = calls[d]
               /\ \A d \in Slots : Lister(d)' <=> Lister(d)
               /\ UNCHANGED <<expected, items, authenticated, view>>
    <2>1. /\ calls'[c].stage = "ok" /\ calls'[c].answer = answer
          /\ calls'[c].request = Simple(Op(c))
          /\ \A d \in Slots \ {c} : calls'[d] = calls[d]
      BY <1>1, <1>4 DEF Answered, CallShape
    <2>2. Simple(Op(c)).op = Op(c)  BY DEF Simple, Request
    <2>3. \A d \in Slots : Lister(d)' <=> Lister(d)
      BY <1>4, <2>1, <2>2 DEF Answered, Lister, InFlight, Op
    <2> QED  BY <1>4, <2>1, <2>2, <2>3 DEF Answered, pageVars
  <1>5. CASE ListServed(c)
    <2>1. Answered(c, Listed) /\ UNCHANGED rows /\ Op(c) = "list"  BY <1>5 DEF ListServed
    <2>2. /\ calls'[c].answer = Listed /\ calls'[c].request.op = "list"
          /\ calls'[c].stage = "ok" /\ \A d \in Slots \ {c} : calls'[d] = calls[d]
          /\ \A d \in Slots : Lister(d)' <=> Lister(d)
          /\ UNCHANGED <<expected, items, authenticated, view>>
      BY <1>4, <2>1
    <2>3. \A change : Made(rows, change) => Brings(rows, Listed, change)
      BY DEF Made, Brings, Listed
    <2>4. \A d \in Slots :
            /\ calls'[d].stage = "ok" /\ Op(d)' \in Mutations => Made(rows', calls'[d].answer)
            /\ calls'[d].stage = "abandoned" => Op(d)' \in Mutations
      BY <1>3, <2>1, <2>2 DEF ChangeShown, Op
    <2>5. expected # NoSecret => \A d \in Slots :
            calls'[d].stage = "ok" /\ Op(d)' = "list" => Brings(rows', calls'[d].answer, expected)
      BY <2>1, <2>2, <2>3 DEF ChangeShown, Op
    <2> QED  BY <2>1, <2>2, <2>4, <2>5 DEF ChangeShown
  <1>6. CASE Mutate(c)
    <2>1. PICK k \in Keys : Applied(calls[c].request, k)
                            /\ Answered(c, <<k, rows[k].version + 1>>)
      BY <1>6 DEF Mutate
    <2>2. Op(c) # "list"  BY <1>3, <1>6 DEF Mutate
    <2>3. /\ calls'[c].stage = "ok" /\ calls'[c].answer = <<k, rows[k].version + 1>>
          /\ calls'[c].request.op # "list"
          /\ \A d \in Slots \ {c} : calls'[d] = calls[d]
          /\ \A d \in Slots : Lister(d)' <=> Lister(d)
          /\ UNCHANGED <<expected, items, authenticated, view>>
      BY <1>4, <2>1, <2>2
    <2>4. \A d \in Slots : calls'[d].stage = "abandoned" => calls'[d].request.op \in Mutations
      BY <1>2, <2>3
    <2> QED  BY <1>1, <2>1, <2>3, <2>4, TableChangeShown
  <1>7. CASE MutateLate(c)
    <2>1. /\ calls'[c] = Free /\ \A d \in Slots \ {c} : calls'[d] = calls[d]
          /\ UNCHANGED <<expected, items, authenticated, view>>
      BY <1>1, <1>7 DEF MutateLate, pageVars
    <2>2. ~Lister(c)  BY <1>2, <1>3, <1>7 DEF MutateLate, Lister, Op
    <2>3. Free.stage = "free"  BY DEF Free, Call
    <2>4. \A d \in Slots : Lister(d)' <=> Lister(d)
      BY <2>1, <2>2, <2>3 DEF Lister, InFlight, Op
    <2>5. \A d \in Slots : calls'[d].stage = "abandoned" => calls'[d].request.op \in Mutations
      BY <1>2, <2>1, <2>3
    <2>6. CASE UNCHANGED rows  BY <2>1, <2>3, <2>4, <2>5, <2>6, QuietStep
    <2>7. ASSUME NEW k \in Keys, Applied(calls[c].request, k)  PROVE ChangeShown'
      BY <1>1, <2>1, <2>3, <2>4, <2>5, <2>7, TableChangeShown
    <2> QED  BY <1>7, <2>6, <2>7 DEF MutateLate
  <1>8. ASSUME NEW k \in Keys, OtherAdmin(k)  PROVE ChangeShown'
    <2>1. PICK op \in OthersDo, t \in Expiries :
            Applied(Request(op, k, rows[k].version, t, rows[k]), k)
      BY <1>8 DEF OtherAdmin
    <2>2. Request(op, k, rows[k].version, t, rows[k]).expires \in Shown
      BY DEF Request, Shown
    <2>3. UNCHANGED <<calls, expected, items, authenticated, view>>
      BY <1>8 DEF OtherAdmin, pageVars
    <2>4. \A d \in Slots : Lister(d)' <=> Lister(d)  BY <2>3 DEF Lister, InFlight, Op
    <2> QED  BY <1>2, <2>1, <2>2, <2>3, <2>4, TableChangeShown
  <1> QED  BY <1>5, <1>6, <1>7, <1>8 DEF ServerStep

LEMMA AnswersShown ==
  ASSUME ChangeShown, EverythingWasRead, NEW c \in Slots, Continue(c)
  PROVE  ChangeShown'
  <1>1. calls[c] \in CallShape /\ calls = [e \in Slots |-> calls[e]]
    BY DEF EverythingWasRead, CallsKnow, CallKnows
  <1>2. "list" \notin Mutations  BY DEF Mutations, Confirmed
  <1> DEFINE OthersSame == \A d \in Slots \ {c} : calls'[d] = calls[d]
  <1>3. ASSUME Ended(c)
        PROVE  OthersSame /\ calls'[c].stage = "free" /\ ~Lister(c)'
    BY <1>1, <1>3 DEF Ended, Free, Call, Lister, InFlight
  \* Nobody looks at the table any more, or it is not the one that was listed.
  <1>4. ASSUME OthersSame, UNCHANGED <<rows, expected>>, Lister(c)' => Lister(c),
               calls'[c].stage \notin {"ok", "abandoned"},
               ~authenticated' \/ view' \notin {"table", "empty"}
        PROVE  ChangeShown'
    <2>1. \A d \in Slots : Lister(d)' => Lister(d)
      BY <1>4 DEF Lister, InFlight, Op
    <2>2. \A d \in Slots : calls'[d].stage = "ok" /\ Op(d)' \in Mutations
                           => Made(rows', calls'[d].answer)
      BY <1>4 DEF ChangeShown, Op
    <2>3. \A d \in Slots : calls'[d].stage = "abandoned" => Op(d)' \in Mutations
      BY <1>4 DEF ChangeShown, Op
    <2>4. expected # NoSecret => \A d \in Slots :
            calls'[d].stage = "ok" /\ Op(d)' = "list" => Brings(rows', calls'[d].answer, expected)
      BY <1>4 DEF ChangeShown, Op
    <2> QED  BY <1>4, <2>1, <2>2, <2>3, <2>4 DEF ChangeShown
  <1>5. CASE ListArrives(c)
    <2>1. /\ OthersSame /\ calls'[c].stage = "free" /\ ~Lister(c)'
          /\ Lister(c) /\ items' = calls[c].answer /\ UNCHANGED <<rows, expected>>
          /\ calls[c].stage = "ok" /\ Op(c) = "list"
      BY <1>3, <1>5 DEF ListArrives, Lister, InFlight
    <2>2. \A d \in Slots : Lister(d)' => Lister(d)  BY <2>1 DEF Lister, InFlight, Op
    <2>3. \A d \in Slots : calls'[d].stage = "ok" /\ Op(d)' \in Mutations
                           => Made(rows', calls'[d].answer)
      BY <2>1 DEF ChangeShown, Op
    <2>4. \A d \in Slots : calls'[d].stage = "abandoned" => Op(d)' \in Mutations
      BY <2>1 DEF ChangeShown, Op
    <2>5. expected # NoSecret =>
            /\ Brings(rows', items', expected)
            /\ \A d \in Slots : calls'[d].stage = "ok" /\ Op(d)' = "list"
                                => Brings(rows', calls'[d].answer, expected)
      BY <2>1 DEF ChangeShown, Op
    <2> QED  BY <2>1, <2>2, <2>3, <2>4, <2>5 DEF ChangeShown
  <1>6. CASE KeySaved(c) \/ ActionDone(c) \/ LoggedIn(c)
    <2>1. Load(c, calls[c].button, Told(c)) /\ UNCHANGED rows
      BY <1>6 DEF KeySaved, ActionDone, LoggedIn, Reload
    <2>2. Told(c) = NoSecret \/ Made(rows, Told(c))
      BY <1>6 DEF KeySaved, ActionDone, LoggedIn, Told, Mutations, Confirmed, ChangeShown
    <2> QED  BY <2>1, <2>2, LoadShown
  <1>7. CASE Unauthorized(c)
    <2>1. /\ calls'[c].stage = "failing" /\ calls'[c].request = Simple(Op(c))
          /\ OthersSame /\ ~authenticated' /\ UNCHANGED <<rows, expected>>
          /\ InFlight(c)
      BY <1>1, <1>7 DEF Unauthorized, LogOutPage, InFlight, CallShape
    <2>2. Lister(c)' => Lister(c)  BY <2>1 DEF Lister, InFlight, Op, Simple, Request
    <2> QED  BY <1>4, <2>1, <2>2
  <1>8. CASE LoggedOut(c)
    BY <1>3, <1>4, <1>8 DEF LoggedOut, LogOutPage
  <1>9. CASE Throws(c)
    <2>1. UNCHANGED <<rows, expected, items, authenticated>>
          /\ InFlight(c) /\ calls[c].stage # "abandoned"
      BY <1>9 DEF Throws
    <2>2. CASE Op(c) = "list"
      <3>1. Ended(c)  BY <1>2, <1>9, <2>2 DEF Throws, EndedOrAbandoned
      <3>2. ~authenticated' \/ view' = "error"  BY <1>9, <2>1, <2>2 DEF Throws
      <3> QED  BY <1>3, <1>4, <2>1, <3>1, <3>2
    <2>3. CASE Op(c) # "list"
      <3>1. view' = view /\ ~Lister(c)  BY <1>9, <2>3 DEF Throws, Lister
      <3>2. /\ OthersSame /\ ~Lister(c)' /\ calls'[c].stage # "ok"
            /\ calls'[c].stage = "abandoned" => calls'[c].request.op \in Mutations
        <4>1. CASE Ended(c)  BY <1>3, <4>1
        <4>2. CASE calls' = [calls EXCEPT ![c] = Abandoned(c)] /\ Op(c) \in Mutations
          <5>1. calls'[c] = Abandoned(c) /\ OthersSame  BY <1>1, <4>2
          <5>2. Abandoned(c).stage = "abandoned" /\ Abandoned(c).request = calls[c].request
            BY <1>1 DEF Abandoned, CallShape
          <5> QED  BY <1>2, <4>2, <5>1, <5>2 DEF Lister, Op
        <4> QED  BY <1>9, <4>1, <4>2 DEF Throws, EndedOrAbandoned
      <3>3. \A d \in Slots : Lister(d)' <=> Lister(d)
        BY <3>1, <3>2 DEF Lister, InFlight, Op
      <3>4. \A d \in Slots : calls'[d].stage = "abandoned" => calls'[d].request.op \in Mutations
        BY <3>2 DEF ChangeShown, Op
      <3> QED  BY <2>1, <3>1, <3>2, <3>3, <3>4, QuietStep
    <2> QED  BY <2>2, <2>3
  <1> QED  BY <1>5, <1>6, <1>7, <1>8, <1>9 DEF Continue

\* While somebody is logged in and no load is under way, the table shows every
\* change that the newest load had to bring, or the key was deleted since.
THEOREM OwnChangesAlwaysListed == Spec => []OwnChangesListed
  <1>1. EverythingWasRead /\ ChangeShown /\ [Next]_vars => ChangeShown'
    <2> SUFFICES ASSUME EverythingWasRead, ChangeShown, [Next]_vars  PROVE ChangeShown'
      OBVIOUS
    <2>1. CASE UNCHANGED vars
      <3>1. UNCHANGED <<rows, calls, expected, items, authenticated, view>>
        BY <2>1 DEF vars, pageVars
      <3>2. \A d \in Slots : Lister(d)' <=> Lister(d)  BY <3>1 DEF Lister, InFlight, Op
      <3> QED  BY <3>1, <3>2, QuietStep DEF ChangeShown, Op
    <2>2. CASE OpenOrClose  BY <2>2, HandlersShown, PageConstantsOK
    <2>3. CASE \E k \in Keys : OtherAdmin(k)  BY <2>3, ApiShown, PageConstantsOK
    <2>4. ASSUME NEW c \in Slots, Press(c)  PROVE ChangeShown'  BY <2>4, HandlersShown
    <2>5. ASSUME NEW c \in Slots, ServerStep(c) \/ MutateLate(c)  PROVE ChangeShown'
      BY <2>5, ApiShown
    <2>6. ASSUME NEW c \in Slots, Continue(c)  PROVE ChangeShown'  BY <2>6, AnswersShown
    <2> QED  BY <2>1, <2>2, <2>3, <2>4, <2>5, <2>6 DEF Next
  <1>2. ChangeShown => OwnChangesListed
    <2> SUFFICES ASSUME ChangeShown, authenticated, expected # NoSecret,
                        view \in {"table", "empty"},
                        ~\E c \in Slots : InFlight(c) /\ Op(c) = "list"
                 PROVE  Brings(rows, items, expected)
      BY DEF OwnChangesListed, Brings
    <2> QED  BY DEF ChangeShown, Lister
  <1> QED  BY <1>1, <1>2, InitShown, AlwaysRead, PTL DEF Spec

-----------------------------------------------------------------------------
(* Types                                                                   *)

\* At most one of the two dialogs that are opened from the bare page.
FormApart(d) == ~(IsOpen(d, "form") /\ IsOpen(d, "confirm"))

LEMMA ApartKept ==
  ASSUME NEW d, Stacked(d), FormApart(d), NEW name \in Dialogs
  PROVE  /\ FormApart(Closed(d, name))
         /\ name \in {"auth", "secret"} => FormApart(Opened(d, name))
  <1>1. /\ d \in Seq(Dialogs) /\ Len(d) \in Nat  BY DEF Stacked
  <1>2. ASSUME NEW other, IsOpen(Closed(d, name), other)  PROVE IsOpen(d, other)
    <2>1. CASE ~IsOpen(d, name)  BY <1>2, <2>1 DEF Closed
    <2>2. CASE IsOpen(d, name)
      <3> DEFINE p == CHOOSE i \in 1 .. Len(d) : d[i] = name
                 e == [i \in 1 .. Len(d) - 1 |-> IF i < p THEN d[i] ELSE d[i + 1]]
      <3>1. Closed(d, name) = e  BY <2>2 DEF Closed
      <3>2. Len(d) >= 1  BY <1>1, <2>2 DEF IsOpen
      <3>3. p \in 1 .. Len(d)  BY <2>2 DEF IsOpen
      <3> HIDE DEF p
      <3>4. e \in [1 .. Len(d) - 1 -> Dialogs]  BY <1>1, <3>2, <3>3
      <3>5. Len(d) - 1 \in Nat  BY <1>1, <3>2
      <3>6. Len(e) = Len(d) - 1  BY <3>4, <3>5
      <3>7. PICK i \in 1 .. Len(d) - 1 : e[i] = other  BY <1>2, <3>1, <3>6 DEF IsOpen
      <3>8. /\ i \in 1 .. Len(d) /\ i + 1 \in 1 .. Len(d)
            /\ e[i] = d[i] \/ e[i] = d[i + 1]
        BY <1>1, <3>7
      <3> QED  BY <3>7, <3>8 DEF IsOpen
    <2> QED  BY <2>1, <2>2
  <1>3. ASSUME NEW other, other # name, IsOpen(Opened(d, name), other)  PROVE IsOpen(d, other)
    <2>1. CASE IsOpen(d, name)  BY <1>3, <2>1 DEF Opened
    <2>2. CASE ~IsOpen(d, name)
      <3> DEFINE e == Append(d, name)
      <3>1. Opened(d, name) = e  BY <2>2 DEF Opened
      <3>2. /\ Len(e) = Len(d) + 1 /\ e[Len(d) + 1] = name
            /\ \A i \in 1 .. Len(d) : e[i] = d[i]
        BY <1>1
      <3> HIDE DEF e
      <3>3. PICK i \in 1 .. Len(d) + 1 : e[i] = other  BY <1>3, <3>1, <3>2 DEF IsOpen
      <3>4. i \in 1 .. Len(d)  BY <1>1, <1>3, <3>2, <3>3
      <3> QED  BY <3>2, <3>3, <3>4 DEF IsOpen
    <2> QED  BY <2>1, <2>2
  <1> QED  BY <1>2, <1>3 DEF FormApart

\* Four dialogs that differ would include both.
LEMMA AtMostThree ==
  ASSUME NEW d, Stacked(d), FormApart(d)  PROVE Len(d) <= 3
  <1> SUFFICES ASSUME Len(d) > 3  PROVE FALSE
    <2>1. Len(d) \in Nat  BY DEF Stacked
    <2> QED  BY <2>1
  <1>1. Len(d) \in Nat /\ \A i \in 1 .. Len(d) : d[i] \in Dialogs  BY DEF Stacked
  <1>2. {1, 2, 3, 4} \subseteq 1 .. Len(d)  BY <1>1
  <1>3. /\ d[1] \in Dialogs /\ d[2] \in Dialogs /\ d[3] \in Dialogs /\ d[4] \in Dialogs
        /\ d[1] # d[2] /\ d[1] # d[3] /\ d[1] # d[4]
        /\ d[2] # d[3] /\ d[2] # d[4] /\ d[3] # d[4]
    BY <1>1, <1>2 DEF Stacked
  <1>4. "form" \in {d[1], d[2], d[3], d[4]} /\ "confirm" \in {d[1], d[2], d[3], d[4]}
    BY <1>3 DEF Dialogs
  <1>5. IsOpen(d, "form") /\ IsOpen(d, "confirm")
    <2>1. \A name : name \in {d[1], d[2], d[3], d[4]} => \E i \in 1 .. Len(d) : d[i] = name
      BY <1>2
    <2> QED  BY <1>4, <2>1 DEF IsOpen
  <1> QED  BY <1>5 DEF FormApart

\* What CallShape leaves open: the bound, and that a mutation's answer names a key.
CallHeld(call) ==
  /\ call.request.version <= MaxChanges /\ call.request.seen.version <= MaxChanges
  /\ call.stage = "ok" /\ call.request.op \in Mutations => call.answer \in Secrets

\* Versions are bounded wherever they are, and an answer that brings a key names one.
PageHeld ==
  /\ authenticated \in BOOLEAN /\ logoutShown \in BOOLEAN
  /\ view \in {"loading", "error", "empty", "table"}
  /\ oneTimeKey \in Secrets \cup {NoSecret} /\ expected \in Secrets \cup {NoSecret}
  /\ \A k \in Keys : rows[k].version <= MaxChanges
  /\ \A c \in Slots : CallHeld(calls[c])
  /\ FormApart(dialogs)

\* What was read of the table is bounded with it.
LEMMA ReadIsBounded ==
  ASSUME EverythingWasRead, PageHeld, NEW k \in Keys, NEW item, Reads(rows, k, item)
  PROVE  item \in Items /\ item.version <= MaxChanges
  <1>1. item \in Row /\ rows[k] \in Row /\ item.version <= rows[k].version
    BY DEF Reads, EverythingWasRead, Tables
  <1>2. item.version \in Nat /\ rows[k].version \in Nat /\ MaxChanges \in Nat
    BY <1>1, PageConstantsOK DEF Row
  <1>3. item.version <= MaxChanges  BY <1>1, <1>2 DEF PageHeld
  <1>4. Shown = Dates  BY DEF Shown, Dates
  <1>5. item.version \in Versions  BY <1>2, <1>3 DEF Versions
  <1> QED  BY <1>1, <1>3, <1>4, <1>5 DEF Row, Items

LEMMA SimpleHeld ==
  ASSUME NEW op \in {"list", "login", "logout"}, NEW button
  PROVE  CallHeld(Call(Simple(op), button)) /\ CallHeld(Free)
  BY PageConstantsOK DEF CallHeld, Call, Simple, Request, Free, NoItem

LEMMA OneHeld ==
  ASSUME EverythingWasRead, PageHeld, NEW c \in Slots, NEW new, CallHeld(new),
         calls' = [calls EXCEPT ![c] = new]
  PROVE  \A d \in Slots : CallHeld(calls[d])'
  <1>1. calls = [d \in Slots |-> calls[d]]  BY DEF EverythingWasRead, CallsKnow
  <1>2. \A d \in Slots : calls'[d] = IF d = c THEN new ELSE calls[d]  BY <1>1
  <1> QED  BY <1>2 DEF PageHeld, CallHeld

LEMMA SubmitHeld ==
  ASSUME EverythingWasRead, PageHeld, NEW c \in Slots, NEW r, NEW button,
         Submit(c, r, button), r.version <= MaxChanges, r.seen.version <= MaxChanges
  PROVE  \A d \in Slots : CallHeld(calls[d])'
  <1>1. \A d \in Slots : calls[d] \in CallShape
    BY DEF EverythingWasRead, CallsKnow, CallKnows
  <1>2. calls'[c].request = r /\ calls'[c].stage = "sent"  BY DEF Submit, Call
  <1>3. \A d \in Slots \ {c} : /\ calls'[d].request = calls[d].request
                              /\ calls'[d].stage = calls[d].stage
                              /\ calls'[d].answer = calls[d].answer
    BY <1>1 DEF Submit, CallShape
  <1> QED  BY <1>2, <1>3 DEF PageHeld, CallHeld

LEMMA InitHeld == Init => PageHeld
  <1> SUFFICES ASSUME Init  PROVE PageHeld  OBVIOUS
  <1>1. \A c \in Slots : calls[c] = Call(Simple("list"), "none") \/ calls[c] = Free
    BY DEF Init
  <1>2. \A c \in Slots : CallHeld(calls[c])  BY <1>1, SimpleHeld
  <1>3. ASSUME NEW k \in Keys  PROVE rows[k].version <= MaxChanges
    <2>1. (k \in Stored /\ rows[k].version = 1) \/ rows[k].version = 0
      BY DEF Init, NoItem
    <2> QED  BY <2>1, PageConstantsOK
  <1>4. FormApart(<<>>)  BY DEF FormApart, IsOpen
  <1> QED  BY <1>2, <1>3, <1>4 DEF Init, PageHeld

LEMMA HandlersHeld ==
  ASSUME PageHeld, SecretGuarded, EverythingWasRead, NEW c \in Slots,
         Press(c) \/ OpenOrClose
  PROVE  PageHeld'
  <1>1. Stacked(dialogs) /\ FormApart(dialogs)  BY DEF SecretGuarded, PageHeld
  <1>2. MaxChanges \in Nat /\ NoItem.version = 0  BY PageConstantsOK DEF NoItem
  <1>3. CASE Refresh(c)
    <2>1. /\ calls' = [calls EXCEPT ![c] = Call(Simple("list"), "none")]
          /\ view' = "loading" /\ expected' = NoSecret
          /\ UNCHANGED <<authenticated, logoutShown, oneTimeKey, dialogs, rows>>
      BY <1>3 DEF Refresh, Load
    <2>2. \A d \in Slots : CallHeld(calls[d])'  BY <2>1, SimpleHeld, OneHeld
    <2> QED  BY <2>1, <2>2 DEF PageHeld
  <1>4. CASE Logout(c)
    <2>1. \A d \in Slots : CallHeld(calls[d])'  BY <1>4, SimpleHeld, OneHeld DEF Logout
    <2> QED  BY <1>4, <2>1 DEF PageHeld, Logout, pageVars
  <1>5. ASSUME NEW r, NEW button, Submit(c, r, button),
               r.version <= MaxChanges, r.seen.version <= MaxChanges,
               UNCHANGED <<authenticated, logoutShown, view, oneTimeKey, expected, dialogs,
                           rows>>
        PROVE  PageHeld'
    <2>1. \A d \in Slots : CallHeld(calls[d])'  BY <1>5, SubmitHeld
    <2> QED  BY <1>5, <2>1 DEF PageHeld
  <1>6. ASSUME NEW local \in Locals, SubmitKey(c, local)  PROVE PageHeld'
    <2>1. Current.version <= MaxChanges
      <3>1. CASE form.id = NoKey  BY <1>2, <3>1 DEF Current
      <3>2. CASE form.id # NoKey
        <4>1. form.id \in Keys  BY <3>2 DEF EverythingWasRead, KeyIds
        <4>2. Reads(rows, form.id, items[form.id])  BY <4>1 DEF EverythingWasRead, Lists
        <4> QED  BY <3>2, <4>1, <4>2, ReadIsBounded DEF Current
      <3> QED  BY <3>1, <3>2
    <2> QED  BY <1>5, <1>6, <2>1 DEF SubmitKey, Request, VersionSent
  <1>7. CASE RunConfirmed(c)
    <2>1. /\ Submit(c, PendingRequest, "confirm") /\ pendingAction # NoAction
          /\ UNCHANGED <<authenticated, logoutShown, view, oneTimeKey, expected, dialogs, rows>>
      BY <1>7 DEF RunConfirmed
    <2>2. pendingAction.id \in Keys /\ Reads(rows, pendingAction.id, pendingAction.item)
      BY <2>1 DEF EverythingWasRead, ActionKnows
    <2>3. pendingAction.item.version <= MaxChanges  BY <2>2, ReadIsBounded
    <2> QED  BY <1>5, <2>1, <2>3 DEF PendingRequest, Request
  <1>8. CASE SubmitLogin(c)
    BY <1>2, <1>5, <1>8 DEF SubmitLogin, Simple, Request
  <1>9. CASE OpenCreate \/ \E k \in Keys : OpenEdit(k) \/ \E op \in Confirmed : OpenConfirm(k, op)
    <2>1. FormApart(<<"form">>) /\ FormApart(<<"confirm">>)  BY DEF FormApart, IsOpen
    <2>2. dialogs' = <<"form">> \/ dialogs' = <<"confirm">>
      BY <1>9 DEF OpenCreate, OpenEdit, OpenConfirm
    <2>3. UNCHANGED <<authenticated, logoutShown, view, oneTimeKey, expected, rows, calls>>
      BY <1>9 DEF OpenCreate, OpenEdit, OpenConfirm
    <2> QED  BY <2>1, <2>2, <2>3 DEF PageHeld, CallHeld
  <1>10. CASE CancelForm \/ CancelConfirm \/ DismissLogin \/ CloseSecret
    <2>1. \E name \in Dialogs : dialogs' = Closed(dialogs, name)
      BY <1>10 DEF CancelForm, CancelConfirm, DismissLogin, CloseSecret, Dialogs
    <2>2. FormApart(dialogs')  BY <1>1, <2>1, ApartKept
    <2>3. /\ UNCHANGED <<authenticated, logoutShown, view, expected, rows, calls>>
          /\ oneTimeKey' = oneTimeKey \/ oneTimeKey' = NoSecret
      BY <1>10 DEF CancelForm, CancelConfirm, DismissLogin, CloseSecret
    <2> QED  BY <2>2, <2>3 DEF PageHeld, CallHeld
  <1> QED
    BY <1>3, <1>4, <1>6, <1>7, <1>8, <1>9, <1>10 DEF Press, OpenOrClose

\* A transaction raises a version that is below the bound.
LEMMA AppliedHeld ==
  ASSUME EverythingWasRead, PageHeld, NEW r, NEW k \in Keys, Applied(r, k)
  PROVE  /\ \A j \in Keys : rows'[j].version <= MaxChanges
         /\ <<k, rows[k].version + 1>> \in Secrets
  <1>1. /\ rows \in [Keys -> Row] /\ rows[k].version \in Nat /\ MaxChanges \in Nat
    BY PageConstantsOK DEF EverythingWasRead, Tables, Row
  <1>2. /\ rows' = [rows EXCEPT ![k] = Changed(rows[k], r)]
        /\ rows[k].version < MaxChanges
    BY <1>1 DEF Applied, Targets
  <1>3. Changed(rows[k], r).version = rows[k].version + 1  BY DEF Changed
  <1>4. \A j \in Keys : rows'[j] = IF j = k THEN Changed(rows[k], r) ELSE rows[j]
    BY <1>1, <1>2
  <1>5. rows[k].version + 1 \in Versions  BY <1>1, <1>2 DEF Versions
  <1> QED  BY <1>1, <1>2, <1>3, <1>4, <1>5 DEF PageHeld, Secrets

LEMMA AnswersHeld ==
  ASSUME PageHeld, SecretGuarded, EverythingWasRead, NEW c \in Slots,
         ServerStep(c) \/ MutateLate(c) \/ Continue(c)
  PROVE  PageHeld'
  <1>1. Stacked(dialogs) /\ FormApart(dialogs)  BY DEF SecretGuarded, PageHeld
  <1>2. /\ calls[c] \in CallShape /\ CallHeld(calls[c]) /\ MaxChanges \in Nat
        /\ NoItem.version = 0
    BY PageConstantsOK DEF EverythingWasRead, CallsKnow, CallKnows, PageHeld, NoItem
  <1>3. ASSUME Ended(c)  PROVE \A d \in Slots : CallHeld(calls[d])'
    BY <1>3, SimpleHeld, OneHeld DEF Ended
  <1>4. ASSUME Reload(c), calls[c].stage = "ok" \/ Op(c) \notin Mutations
        PROVE  /\ \A d \in Slots : CallHeld(calls[d])'
               /\ view' = "loading" /\ expected' \in Secrets \cup {NoSecret}
    <2>1. /\ calls' = [calls EXCEPT ![c] = Call(Simple("list"), calls[c].button)]
          /\ view' = "loading" /\ expected' \in {NoSecret, Told(c)}
      BY <1>4 DEF Reload, Load
    <2>2. \A d \in Slots : CallHeld(calls[d])'  BY <2>1, SimpleHeld, OneHeld
    <2>3. Told(c) \in Secrets \cup {NoSecret}  BY <1>2, <1>4 DEF Told, CallHeld, Op
    <2> QED  BY <2>1, <2>2, <2>3
  <1>5. ASSUME NEW answer, Answered(c, answer), Op(c) \in Mutations => answer \in Secrets
        PROVE  /\ \A d \in Slots : CallHeld(calls[d])'
               /\ UNCHANGED <<authenticated, logoutShown, view, oneTimeKey, dialogs, expected>>
    <2> DEFINE new == [calls[c] EXCEPT !.stage = "ok", !.answer = answer,
                                      !.request = Simple(Op(c))]
    <2>1. calls' = [calls EXCEPT ![c] = new]  BY <1>5 DEF Answered
    <2>2. /\ new.request = Simple(Op(c)) /\ new.answer = answer
          /\ Simple(Op(c)).op = Op(c) /\ Simple(Op(c)).version = 0
          /\ Simple(Op(c)).seen = NoItem
      BY <1>2 DEF CallShape, Simple, Request
    <2> HIDE DEF new
    <2>3. CallHeld(new)  BY <1>2, <1>5, <2>2 DEF CallHeld
    <2>4. \A d \in Slots : CallHeld(calls[d])'  BY <2>1, <2>3, OneHeld
    <2> QED  BY <1>5, <2>4 DEF Answered, pageVars
  <1>6. CASE ListServed(c)
    <2>1. Answered(c, Listed) /\ Op(c) \notin Mutations /\ UNCHANGED rows
      BY <1>6 DEF ListServed, Mutations, Confirmed
    <2> QED  BY <1>5, <2>1 DEF PageHeld
  <1>7. CASE Mutate(c)
    <2>1. PICK k \in Keys : Applied(calls[c].request, k)
                            /\ Answered(c, <<k, rows[k].version + 1>>)
      BY <1>7 DEF Mutate
    <2>2. /\ \A j \in Keys : rows'[j].version <= MaxChanges
          /\ <<k, rows[k].version + 1>> \in Secrets
      BY <2>1, AppliedHeld
    <2> QED  BY <1>5, <2>1, <2>2 DEF PageHeld
  <1>8. CASE MutateLate(c)
    <2>1. \A d \in Slots : CallHeld(calls[d])'
      BY <1>3, <1>8 DEF MutateLate, Ended
    <2>2. \A j \in Keys : rows'[j].version <= MaxChanges
      BY <1>8, AppliedHeld DEF MutateLate, PageHeld
    <2>3. UNCHANGED <<authenticated, logoutShown, view, oneTimeKey, dialogs, expected>>
      BY <1>8 DEF MutateLate, pageVars
    <2> QED  BY <2>1, <2>2, <2>3 DEF PageHeld
  <1>9. CASE ListArrives(c)
    <2>1. /\ authenticated' \in BOOLEAN /\ logoutShown' \in BOOLEAN
          /\ view' \in {"empty", "table"} /\ dialogs' = Closed(dialogs, "auth")
          /\ Ended(c) /\ UNCHANGED <<oneTimeKey, rows, expected>>
      BY <1>9 DEF ListArrives
    <2>2. FormApart(dialogs')  BY <1>1, <2>1, ApartKept DEF Dialogs
    <2> QED  BY <1>3, <2>1, <2>2 DEF PageHeld
  <1>10. ASSUME NEW name \in {"form", "confirm"}, SecretShown(c, Closed(dialogs, name)),
                calls[c].stage = "ok", Reload(c),
                UNCHANGED <<authenticated, logoutShown, rows>>
         PROVE  PageHeld'
    <2> DEFINE under == Closed(dialogs, name)
    <2>1. Stacked(under) /\ FormApart(under)
      BY <1>1, StackedClosed, ApartKept DEF Dialogs
    <2>2. FormApart(Opened(under, "secret"))  BY <2>1, ApartKept DEF Dialogs
    <2> HIDE DEF under
    <2>3. FormApart(dialogs')  BY <1>10, <2>1, <2>2 DEF SecretShown, under
    <2>4. oneTimeKey' \in Secrets \cup {NoSecret}
      <3>1. Op(c) \in {"create", "rotate"} => calls[c].answer \in Secrets
        BY <1>2, <1>10 DEF CallHeld, Op, Mutations, Confirmed
      <3> QED  BY <1>10, <3>1 DEF SecretShown, PageHeld
    <2> QED  BY <1>4, <1>10, <2>3, <2>4 DEF PageHeld
  <1>11. CASE KeySaved(c)  BY <1>10, <1>11 DEF KeySaved
  <1>12. CASE ActionDone(c)  BY <1>10, <1>12 DEF ActionDone
  <1>13. CASE LoggedIn(c)
    <2>1. Reload(c) /\ Op(c) \notin Mutations
      BY <1>13 DEF LoggedIn, Mutations, Confirmed
    <2>2. FormApart(dialogs')  BY <1>1, <1>13, ApartKept DEF LoggedIn, Dialogs
    <2>3. authenticated' \in BOOLEAN /\ UNCHANGED <<logoutShown, oneTimeKey, rows>>
      BY <1>13 DEF LoggedIn
    <2> QED  BY <1>4, <2>1, <2>2, <2>3 DEF PageHeld
  <1>14. ASSUME LogOutPage
         PROVE  /\ authenticated' \in BOOLEAN /\ logoutShown' \in BOOLEAN
                /\ FormApart(dialogs')
    BY <1>1, <1>14, ApartKept DEF LogOutPage, Dialogs
  <1>15. CASE Unauthorized(c)
    <2> DEFINE new == [calls[c] EXCEPT !.stage = "failing", !.request = Simple(Op(c))]
    <2>1. calls' = [calls EXCEPT ![c] = new]  BY <1>15 DEF Unauthorized
    <2>2. /\ new.request = Simple(Op(c)) /\ new.stage = "failing"
          /\ Simple(Op(c)).version = 0 /\ Simple(Op(c)).seen = NoItem
      BY <1>2 DEF CallShape, Simple, Request
    <2> HIDE DEF new
    <2>3. CallHeld(new)  BY <1>2, <2>2 DEF CallHeld
    <2>4. \A d \in Slots : CallHeld(calls[d])'  BY <2>1, <2>3, OneHeld
    <2> QED  BY <1>14, <1>15, <2>4 DEF Unauthorized, PageHeld
  <1>16. CASE Throws(c)
    <2>1. /\ view' \in {"error", view} /\ EndedOrAbandoned(c)
          /\ UNCHANGED <<authenticated, logoutShown, oneTimeKey, rows, expected>>
      BY <1>16 DEF Throws
    <2>2. FormApart(dialogs')
      BY <1>1, <1>16, ApartKept DEF Throws, Dialogs
    <2>3. CallHeld(Abandoned(c))
      <3>1. Abandoned(c).request = calls[c].request /\ Abandoned(c).stage = "abandoned"
        BY <1>2 DEF Abandoned, CallShape
      <3> QED  BY <1>2, <3>1 DEF CallHeld
    <2>4. \A d \in Slots : CallHeld(calls[d])'
      BY <1>3, <2>1, <2>3, OneHeld DEF EndedOrAbandoned
    <2> QED  BY <2>1, <2>2, <2>4 DEF PageHeld
  <1>17. CASE LoggedOut(c)
    <2>1. Ended(c) /\ LogOutPage /\ view' = "loading" /\ UNCHANGED <<oneTimeKey, rows, expected>>
      BY <1>17 DEF LoggedOut
    <2> QED  BY <1>3, <1>14, <2>1 DEF PageHeld
  <1> QED
    BY <1>6, <1>7, <1>8, <1>9, <1>11, <1>12, <1>13, <1>15, <1>16, <1>17
       DEF ServerStep, Continue

LEMMA StepsHeld ==
  PageHeld /\ SecretGuarded /\ EverythingWasRead /\ [Next]_vars => PageHeld'
  <1> SUFFICES ASSUME PageHeld, SecretGuarded, EverythingWasRead, [Next]_vars  PROVE PageHeld'
    OBVIOUS
  <1>1. CASE UNCHANGED vars  BY <1>1 DEF vars, pageVars, PageHeld, CallHeld
  <1>2. ASSUME NEW c \in Slots, Press(c)  PROVE PageHeld'  BY <1>2, HandlersHeld
  <1>3. ASSUME NEW c \in Slots, ServerStep(c) \/ MutateLate(c) \/ Continue(c)
        PROVE  PageHeld'
    BY <1>3, AnswersHeld
  <1>4. CASE OpenOrClose  BY <1>4, HandlersHeld, PageConstantsOK
  <1>5. ASSUME NEW k \in Keys, OtherAdmin(k)  PROVE PageHeld'
    <2>1. PICK r : Applied(r, k)  BY <1>5 DEF OtherAdmin
    <2>2. \A j \in Keys : rows'[j].version <= MaxChanges  BY <2>1, AppliedHeld
    <2>3. UNCHANGED <<authenticated, logoutShown, view, oneTimeKey, dialogs, calls, expected>>
      BY <1>5 DEF OtherAdmin, pageVars
    <2> QED  BY <2>2, <2>3 DEF PageHeld, CallHeld
  <1> QED  BY <1>1, <1>2, <1>3, <1>4, <1>5 DEF Next

\* Everything on the page has its type: whatever interleaving of handlers, answers
\* and other administrators, at most three dialogs lie on each other, and no copy of
\* a key has a version beyond those the table may have.
THEOREM PageTypeCorrect == Spec => []PageTypeOK
  <1>1. EverythingWasRead /\ SecretGuarded /\ ButtonsHeld /\ PageHeld => PageTypeOK
    <2> SUFFICES ASSUME EverythingWasRead, SecretGuarded, ButtonsHeld, PageHeld
                 PROVE  PageTypeOK
      OBVIOUS
    <2>1. ASSUME NEW k \in Keys  PROVE items[k] \in Items /\ rows[k] \in Items
      <3>1. Reads(rows, k, items[k])  BY DEF EverythingWasRead, Lists
      <3>2. Reads(rows, k, rows[k])
        <4>1. rows[k] \in Row  BY DEF EverythingWasRead, Tables
        <4>2. rows[k].version \in Nat  BY <4>1 DEF Row
        <4> QED  BY <4>1, <4>2 DEF Reads
      <3> QED  BY <3>1, <3>2, ReadIsBounded
    <2>2. items \in [Keys -> Items] /\ rows \in [Keys -> Items]
      BY <2>1 DEF EverythingWasRead, Lists, Tables
    <2>3. Shown = Dates /\ 0 \in Versions /\ NoItem \in Items
      BY PageConstantsOK DEF Shown, Dates, Versions, NoItem, Items
    <2>4. pendingAction \in [op : Confirmed \cup {"none"}, id : KeyIds, item : Items]
      <3>1. CASE pendingAction = NoAction  BY <2>3, <3>1 DEF NoAction, KeyIds
      <3>2. CASE pendingAction # NoAction
        <4>1. /\ pendingAction \in [op : Confirmed, id : Keys, item : Row]
              /\ Reads(rows, pendingAction.id, pendingAction.item)
          BY <3>2 DEF EverythingWasRead, ActionKnows
        <4>2. pendingAction.item \in Items  BY <4>1, ReadIsBounded
        <4> QED  BY <4>1, <4>2 DEF KeyIds
      <3> QED  BY <3>1, <3>2
    <2>5. form.id \in KeyIds /\ ExpirationValue(form.local) \in Dates
      BY <2>3, EnteredIsShown DEF EverythingWasRead
    <2>6. dialogs \in Seq({"auth", "form", "confirm", "secret"}) /\ Len(dialogs) <= 3
      BY AtMostThree DEF SecretGuarded, PageHeld, Stacked, Dialogs
    <2>7. ASSUME NEW c \in Slots
          PROVE  /\ calls[c].request \in Requests /\ calls[c].stage \in Stages
                 /\ calls[c].button \in Buttons \cup {"none"} /\ calls[c].beside \in BOOLEAN
      <3>1. calls[c] \in CallShape /\ CallHeld(calls[c]) /\ MaxChanges \in Nat
        BY PageConstantsOK DEF EverythingWasRead, CallsKnow, CallKnows, PageHeld
      <3> DEFINE r == calls[c].request
      <3>2. /\ r \in [op : Ops, id : KeyIds, version : Nat, expires : Shown, seen : Row]
            /\ r.version <= MaxChanges /\ r.seen.version <= MaxChanges
        BY <3>1 DEF CallShape, CallHeld
      <3> HIDE DEF r
      <3>3. r.seen \in Row /\ r.seen.version \in Nat  BY <3>2 DEF Row
      <3>4. r.version \in Versions /\ r.seen.version \in Versions
        BY <3>1, <3>2, <3>3 DEF Versions
      <3>5. r.seen \in Items  BY <2>3, <3>3, <3>4 DEF Row, Items
      <3>6. r \in Requests  BY <2>3, <3>2, <3>4, <3>5 DEF Requests
      <3> QED  BY <3>1, <3>6 DEF CallShape, r
    <2> QED
      BY <2>2, <2>4, <2>5, <2>6, <2>7 DEF PageTypeOK, PageHeld, ButtonsHeld
  <1>2. Spec => []PageHeld
    BY InitHeld, StepsHeld, AlwaysRead, AlwaysGuarded, PTL DEF Spec
  <1> QED  BY <1>1, <1>2, AlwaysRead, AlwaysGuarded, ButtonsAlwaysHeld, PTL
=============================================================================
