----------------------------- MODULE AdminPage ------------------------------
(***************************************************************************)
(* The administration page, web/admin.js: event handlers and asynchronous  *)
(* functions that share the page's state, the calls they have under way,   *)
(* the API of web/admin_api.go that answers them and other administrators  *)
(* who change the same keys.                                               *)
(*                                                                         *)
(* An asynchronous function runs without interruption up to its next       *)
(* `await fetch`; a call remembers the rest of it.  Answers arrive in any  *)
(* order, get lost, and a request the browser gave up may still reach the  *)
(* server.  Any answer may be 401: the cookie is shared with other tabs    *)
(* and tickets end for reasons the page does not see (AdminSessions).      *)
(***************************************************************************)
EXTENDS PageDates, Sequences, FiniteSetsExt

CONSTANTS
  Keys, NoKey, \* key ids, and no id
  Expiries,    \* expiry instants, or NoDate, that clients of the API choose
  Picked,      \* instants, or NoDate, whose minute is entered into the form
  Stored,      \* keys that exist when the page is opened
  OthersDo,    \* what other administrators do
  MaxChanges,  \* bound: changes to all keys
  Slots        \* bound: requests under way at once

Confirmed == {"enable", "disable", "rotate", "delete"}
Mutations == Confirmed \cup {"create", "update"}

ASSUME PageConstantsOK ==
  /\ NoKey \notin Keys /\ Expiries \cup Picked \subseteq Int \cup {NoDate}
  /\ Stored \subseteq Keys /\ OthersDo \subseteq Mutations
  /\ MaxChanges \in Nat /\ (Stored # {} => MaxChanges > 0)
  /\ Slots # {}

VARIABLES
  authenticated, items, pendingAction,  \* the script's own variables
  view,          \* the one of the four panes that is not hidden
  logoutShown,   \* the logout button is not hidden
  dialogs,       \* open modal dialogs, the topmost last
  form,          \* editingID and keyExpires as openEdit filled them
  oneTimeKey,    \* value of the field in the secret dialog
  disabled,      \* submit buttons waiting for a `finally`
  calls,         \* calls under way
  rows,          \* the table of keys
  expected       \* history: key and version that the newest load has to bring

pageVars == <<authenticated, items, pendingAction, view, logoutShown, dialogs,
              form, oneTimeKey, disabled>>
vars == <<pageVars, calls, rows, expected>>

Versions == 0 .. MaxChanges
KeyIds == Keys \cup {NoKey}
Ops == Mutations \cup {"list", "login", "logout"}
Buttons == {"save", "confirm", "auth"}
Stages == {"free", "sent", "ok", "failing", "abandoned"}
Dates == Expiries \cup {ByMinute(e) : e \in Expiries \cup Picked} \cup {NoDate}

\* A key as the API shows it.
NoItem == [status |-> "none", version |-> 0, expires |-> NoDate]
Items == [status : {"none", "active", "disabled", "revoked"}, version : Versions,
          expires : Dates]
NoItems == [k \in Keys |-> NoItem]

NoAction == [op |-> "none", id |-> NoKey, item |-> NoItem]
NoForm == [id |-> NoKey, local |-> NoDate]
NoSecret == <<NoKey, 0>>
Secrets == Keys \X Versions

\* `seen` is history: the key as the page listed it when its button was pressed.
Request(op, id, version, expires, seen) ==
  [op |-> op, id |-> id, version |-> version, expires |-> expires, seen |-> seen]
Requests == [op : Ops, id : KeyIds, version : Versions, expires : Dates, seen : Items]
Simple(op) == Request(op, NoKey, 0, NoDate, NoItem)

\* `button` is what the function behind the call enables again when it ends;
\* `beside` is history: another call that brings a full key was under way with it.
Call(request, button) ==
  [request |-> request, button |-> button, stage |-> "sent", answer |-> <<>>,
   beside |-> FALSE]
Free == [Call(Simple("list"), "none") EXCEPT !.stage = "free"]

PageTypeOK ==
  /\ authenticated \in BOOLEAN /\ logoutShown \in BOOLEAN
  /\ items \in [Keys -> Items] /\ rows \in [Keys -> Items]
  /\ pendingAction \in [op : Confirmed \cup {"none"}, id : KeyIds, item : Items]
  /\ view \in {"loading", "error", "empty", "table"}
  /\ dialogs \in Seq({"auth", "form", "confirm", "secret"}) /\ Len(dialogs) <= 3
  /\ form.id \in KeyIds /\ ExpirationValue(form.local) \in Dates
  /\ oneTimeKey \in Secrets \cup {NoSecret}
  /\ disabled \subseteq Buttons
  /\ \A c \in Slots :
       /\ calls[c].request \in Requests /\ calls[c].stage \in Stages
       /\ calls[c].button \in Buttons \cup {"none"}
       /\ calls[c].beside \in BOOLEAN
  /\ expected \in Secrets \cup {NoSecret}

-----------------------------------------------------------------------------
(* What an event handler finds                                             *)

InFlight(c) == calls[c].stage # "free"
Op(c) == calls[c].request.op

IsOpen(d, name) == \E i \in 1 .. Len(d) : d[i] = name
Opened_Again(d, name) == Append(d, name)
Opened(d, name) == IF IsOpen(d, name) THEN d ELSE Append(d, name)
Closed_All(d, name) == <<>>
Closed(d, name) ==
  LET place == CHOOSE i \in 1 .. Len(d) : d[i] = name
  IN IF IsOpen(d, name)
       THEN [i \in 1 .. Len(d) - 1 |-> IF i < place THEN d[i] ELSE d[i + 1]]
       ELSE d

\* showModal makes everything under the topmost dialog inert.
Reaches(name) == dialogs # <<>> /\ dialogs[Len(dialogs)] = name
ReachesPage == dialogs = <<>>

ListOverlaps(c) == \E d \in Slots \ {c} : InFlight(d) /\ Op(d) = "list"
BringsKey(d) == InFlight(d) /\ Op(d) \in {"create", "rotate"}

\* loadKeys up to its fetch, in slot c.  Nothing is expected of a load that is sent
\* beside another one: their answers may come in the wrong order.
Load(c, button, told) ==
  /\ view' = "loading"
  /\ calls' = [calls EXCEPT ![c] = Call(Simple("list"), button)]
  /\ expected' = IF ListOverlaps(c) THEN NoSecret ELSE told

\* A mutation is sent; its submit button stays disabled until the function ends.
Submit(c, request, button) ==
  /\ ~InFlight(c) /\ button \notin disabled
  /\ disabled' = disabled \cup {button}
  /\ LET others == IF request.op \in {"create", "rotate"}
                    THEN {d \in Slots : BringsKey(d)} ELSE {}
     IN calls' = [d \in Slots |->
                    IF d = c THEN [Call(request, button) EXCEPT !.beside = others # {}]
                    ELSE [calls[d] EXCEPT !.beside = @ \/ d \in others]]

-----------------------------------------------------------------------------
(* Event handlers                                                          *)

\* refreshButton and retryButton.
Refresh(c) ==
  /\ ReachesPage /\ ~InFlight(c)
  /\ Load(c, "none", NoSecret)
  /\ UNCHANGED <<authenticated, items, pendingAction, logoutShown, dialogs, form,
                 oneTimeKey, disabled, rows>>

OpenCreate ==
  /\ ReachesPage
  /\ form' = NoForm
  /\ dialogs' = <<"form">>
  /\ UNCHANGED <<authenticated, items, pendingAction, view, logoutShown, oneTimeKey,
                 disabled, calls, rows, expected>>

OpenEdit(k) ==
  /\ ReachesPage /\ view = "table" /\ items[k] # NoItem
  /\ form' = [id |-> k, local |-> ToLocalInput(items[k].expires)]
  /\ dialogs' = <<"form">>
  /\ UNCHANGED <<authenticated, items, pendingAction, view, logoutShown, oneTimeKey,
                 disabled, calls, rows, expected>>

\* What the list holds of the key by the time the form is submitted.
Current == IF form.id = NoKey THEN NoItem ELSE items[form.id]

\* A version is sent when the key is still in the list; the server reads 0 where
\* there is none.
VersionSent_Ignored(item) == IF form.id = NoKey THEN 0 ELSE rows[form.id].version
VersionSent(item) == item.version

\* The name and the description travel like the expiry and are left out.
SubmitKey(c, local) ==
  LET op == IF form.id = NoKey THEN "create" ELSE "update" IN
    /\ Reaches("form")
    /\ form' = [form EXCEPT !.local = local]
    /\ Submit(c, Request(op, form.id, VersionSent(Current), ExpirationValue(local),
                         Current), "save")
    /\ UNCHANGED <<authenticated, items, pendingAction, view, logoutShown, dialogs,
                   oneTimeKey, rows, expected>>

\* The cancel button and the Escape key.  Nobody reads the fields of a closed form.
CancelForm ==
  /\ Reaches("form")
  /\ dialogs' = Closed(dialogs, "form") /\ form' = NoForm
  /\ UNCHANGED <<authenticated, items, pendingAction, view, logoutShown,
                 oneTimeKey, disabled, calls, rows, expected>>

\* The buttons of a row.  A key that is shown as expired is an active one whose
\* Disable button is missing: nobody presses it.
Offered(item) ==
  (IF item.status = "none" THEN {} ELSE {"rotate", "delete"})
    \cup (IF item.status = "active" THEN {"disable"} ELSE {})
    \cup (IF item.status = "disabled" THEN {"enable"} ELSE {})

OpenConfirm(k, op) ==
  /\ ReachesPage /\ view = "table" /\ op \in Offered(items[k])
  /\ pendingAction' = [op |-> op, id |-> k, item |-> items[k]]
  /\ dialogs' = <<"confirm">>
  /\ UNCHANGED <<authenticated, items, view, logoutShown, form, oneTimeKey, disabled,
                 calls, rows, expected>>

\* The closure holds the item its row was drawn from.
PendingRequest_Newest ==
  LET a == pendingAction
  IN Request(a.op, a.id, items[a.id].version, NoDate, a.item)
PendingRequest ==
  LET a == pendingAction
  IN Request(a.op, a.id, a.item.version, NoDate, a.item)

RunConfirmed(c) ==
  /\ Reaches("confirm") /\ pendingAction # NoAction
  /\ Submit(c, PendingRequest, "confirm")
  /\ UNCHANGED <<authenticated, items, pendingAction, view, logoutShown, dialogs, form,
                 oneTimeKey, rows, expected>>

\* The cancel button; the Escape key leaves an action behind that openConfirm
\* replaces before anything reads it.
CancelConfirm ==
  /\ Reaches("confirm")
  /\ pendingAction' = NoAction
  /\ dialogs' = Closed(dialogs, "confirm")
  /\ UNCHANGED <<authenticated, items, view, logoutShown, form, oneTimeKey, disabled,
                 calls, rows, expected>>

SubmitLogin(c) ==
  /\ Reaches("auth")
  /\ Submit(c, Simple("login"), "auth")
  /\ UNCHANGED <<authenticated, items, pendingAction, view, logoutShown, dialogs, form,
                 oneTimeKey, rows, expected>>

\* The Escape key closes the login dialog like any other.
DismissLogin ==
  /\ Reaches("auth")
  /\ dialogs' = Closed(dialogs, "auth")
  /\ UNCHANGED <<authenticated, items, pendingAction, view, logoutShown, form,
                 oneTimeKey, disabled, calls, rows, expected>>

Logout(c) ==
  /\ ReachesPage /\ logoutShown /\ ~InFlight(c)
  /\ calls' = [calls EXCEPT ![c] = Call(Simple("logout"), "none")]
  /\ UNCHANGED <<pageVars, rows, expected>>

\* The close button and, through the cancel event, the Escape key.
CloseSecret ==
  /\ Reaches("secret")
  /\ oneTimeKey' = NoSecret
  /\ dialogs' = Closed(dialogs, "secret")
  /\ UNCHANGED <<authenticated, items, pendingAction, view, logoutShown, form,
                 disabled, calls, rows, expected>>

-----------------------------------------------------------------------------
(* The API                                                                 *)

Listed == [k \in Keys |-> IF rows[k].status = "revoked" THEN NoItem ELSE rows[k]]

Alive(k) == rows[k].status \in {"active", "disabled"}

\* Service.Update and its like refuse a missing and an outdated version.
Accepts_AnyVersion(r) == r.id \in Keys /\ Alive(r.id) /\ r.version >= 1
Accepts(r) ==
  r.id \in Keys /\ Alive(r.id) /\ r.version >= 1 /\ rows[r.id].version = r.version

\* The bound is on all changes together, so on those of each key as well.
SumOfVersions == MapThenSumSet(LAMBDA k : rows[k].version, Keys)
Targets(r) ==
  {k \in Keys : /\ IF r.op = "create" THEN rows[k] = NoItem ELSE k = r.id /\ Accepts(r)
                /\ rows[k].version < MaxChanges /\ SumOfVersions < MaxChanges}

\* A rotation makes a disabled key active again.
StatusAfter(op, status) ==
  CASE op \in {"create", "enable", "rotate"} -> "active"
    [] op = "disable" -> "disabled"
    [] op = "delete" -> "revoked"
    [] OTHER -> status

Changed(row, r) ==
  [status  |-> StatusAfter(r.op, row.status),
   version |-> row.version + 1,
   expires |-> IF r.op \in {"create", "update"} THEN r.expires ELSE row.expires]

\* A transaction of ApiKeyService.
Applied(r, k) == k \in Targets(r) /\ rows' = [rows EXCEPT ![k] = Changed(@, r)]

Answered(c, answer) ==
  /\ calls[c].stage = "sent"
  /\ calls' = [calls EXCEPT ![c].stage = "ok", ![c].answer = answer,
                           ![c].request = Simple(Op(c))]
  /\ UNCHANGED <<pageVars, expected>>

ListServed(c) ==
  /\ Op(c) = "list"
  /\ Answered(c, Listed)
  /\ UNCHANGED rows

Mutate(c) ==
  /\ Op(c) \in Mutations
  /\ \E k \in Keys : /\ Applied(calls[c].request, k)
                     /\ Answered(c, <<k, rows[k].version + 1>>)

\* A request that the page gave up reaches the server after all, or is dropped.
MutateLate(c) ==
  /\ calls[c].stage = "abandoned"
  /\ calls' = [calls EXCEPT ![c] = Free]
  /\ (\E k \in Keys : Applied(calls[c].request, k)) \/ UNCHANGED rows
  /\ UNCHANGED <<pageVars, expected>>

\* Another administrator, another tab or a script names the current version.
OtherAdmin(k) ==
  /\ Alive(k)
  /\ \E op \in OthersDo, t \in Expiries :
       Applied(Request(op, k, rows[k].version, t, rows[k]), k)
  /\ UNCHANGED <<pageVars, calls, expected>>

-----------------------------------------------------------------------------
(* The rest of a function, when its answer arrives                         *)

Ended(c) == calls' = [calls EXCEPT ![c] = Free]
Enabled(c) == disabled' = disabled \ {calls[c].button}

\* loadKeys shows the list that arrived, whatever happened since it was made.
ListArrives(c) ==
  /\ calls[c].stage = "ok" /\ Op(c) = "list"
  /\ authenticated' = TRUE /\ logoutShown' = TRUE
  /\ items' = calls[c].answer
  /\ view' = IF items' = NoItems THEN "empty" ELSE "table"
  /\ dialogs' = Closed(dialogs, "auth")
  /\ Ended(c) /\ Enabled(c)
  /\ UNCHANGED <<pendingAction, form, oneTimeKey, rows, expected>>

\* showSecret: the answer to a creation or a rotation brings the full key.
SecretShown(c, open) ==
  IF Op(c) \in {"create", "rotate"}
    THEN /\ oneTimeKey' = calls[c].answer
         /\ dialogs' = Opened(open, "secret")
    ELSE /\ dialogs' = open
         /\ UNCHANGED oneTimeKey

Told(c) == IF Op(c) \in Mutations THEN calls[c].answer ELSE NoSecret

\* The list is loaded again before the button is enabled.
Reload_Not(c) ==
  /\ Ended(c) /\ Enabled(c)
  /\ view' = "table" /\ expected' = Told(c)
Reload(c) == Load(c, calls[c].button, Told(c)) /\ UNCHANGED disabled

\* submitKey closes the form that is open by now.
KeySaved(c) ==
  /\ calls[c].stage = "ok" /\ Op(c) \in {"create", "update"}
  /\ SecretShown(c, Closed(dialogs, "form")) /\ form' = NoForm
  /\ Reload(c)
  /\ UNCHANGED <<authenticated, items, pendingAction, logoutShown, rows>>

\* runConfirmed forgets the action and closes the dialog that are there by now.
ActionDone(c) ==
  /\ calls[c].stage = "ok" /\ Op(c) \in Confirmed
  /\ SecretShown(c, Closed(dialogs, "confirm"))
  /\ pendingAction' = NoAction
  /\ Reload(c)
  /\ UNCHANGED <<authenticated, items, logoutShown, form, rows>>

\* The sessions themselves are AdminSessions' concern: a login succeeds or throws.
LoggedIn(c) ==
  /\ calls[c].stage = "sent" /\ Op(c) = "login"
  /\ authenticated' = TRUE
  /\ dialogs' = Closed(dialogs, "auth")
  /\ Reload(c)
  /\ UNCHANGED <<items, pendingAction, logoutShown, form, oneTimeKey, rows>>

\* setLoggedOutUI and showAuth.
LogOutPage ==
  /\ authenticated' = FALSE /\ logoutShown' = FALSE
  /\ items' = NoItems
  /\ dialogs' = Opened(dialogs, "auth")

\* request sees 401; it still has to read the body before it throws.
Unauthorized(c) ==
  /\ calls[c].stage = "sent" /\ Op(c) \notin {"login", "logout"}
  /\ LogOutPage
  /\ calls' = [calls EXCEPT ![c].stage = "failing", ![c].request = Simple(Op(c))]
  /\ UNCHANGED <<pendingAction, view, form, oneTimeKey, disabled, rows, expected>>

\* The server refuses (invalid metadata, the last active key, a conflict, too many
\* attempts, a busy database) or the network fails, and then a request that was
\* under way may still arrive.  One that changes nothing now never will: versions
\* only grow.
Abandoned(c) == [calls[c] EXCEPT !.stage = "abandoned", !.button = "none"]
EndedOrAbandoned(c) ==
  \/ Ended(c)
  \/ /\ calls[c].stage = "sent" /\ Op(c) \in Mutations
     /\ Targets(calls[c].request) # {}
     /\ calls' = [calls EXCEPT ![c] = Abandoned(c)]

EnabledAgain_Forgotten(c) == UNCHANGED disabled
EnabledAgain(c) == Enabled(c)

\* The catch of each function, then its finally.  loadKeys trusts that whoever is
\* not logged in sees the login dialog.
Throws(c) ==
  /\ InFlight(c) /\ calls[c].stage # "abandoned" /\ Op(c) # "logout"
  /\ view' = IF Op(c) = "list" /\ authenticated THEN "error" ELSE view
  /\ dialogs' = IF Op(c) = "login" THEN Opened(dialogs, "auth") ELSE dialogs
  /\ EndedOrAbandoned(c) /\ EnabledAgain(c)
  /\ UNCHANGED <<authenticated, items, pendingAction, logoutShown, form, oneTimeKey,
                 rows, expected>>

\* logout does not look at the answer.
LoggedOut(c) ==
  /\ calls[c].stage = "sent" /\ Op(c) = "logout"
  /\ LogOutPage
  /\ view' = "loading"
  /\ Ended(c)
  /\ UNCHANGED <<pendingAction, form, oneTimeKey, disabled, rows, expected>>

-----------------------------------------------------------------------------
\* The page loads the list before anybody can press a button.
Init ==
  /\ authenticated = FALSE /\ logoutShown = FALSE
  /\ items = NoItems /\ pendingAction = NoAction /\ view = "loading"
  /\ dialogs = <<>> /\ form = NoForm /\ oneTimeKey = NoSecret /\ disabled = {}
  /\ \E first \in Slots :
       calls = [c \in Slots |->
                  IF c = first THEN Call(Simple("list"), "none") ELSE Free]
  /\ \E t \in Expiries :
       rows = [k \in Keys |->
                 IF k \in Stored THEN [status |-> "active", version |-> 1, expires |-> t]
                 ELSE NoItem]
  /\ expected = NoSecret

\* The field is left as it is, or something else is entered.
Locals == {form.local} \cup {ToLocalInput(t) : t \in Picked}

Press(c) ==
  \/ Refresh(c) \/ (\E local \in Locals : SubmitKey(c, local))
  \/ RunConfirmed(c) \/ SubmitLogin(c) \/ Logout(c)

OpenOrClose ==
  \/ OpenCreate \/ CancelForm \/ CancelConfirm \/ DismissLogin \/ CloseSecret
  \/ \E k \in Keys : OpenEdit(k) \/ \E op \in Confirmed : OpenConfirm(k, op)

ServerStep(c) == ListServed(c) \/ Mutate(c)

Continue(c) ==
  \/ ListArrives(c) \/ KeySaved(c) \/ ActionDone(c) \/ LoggedIn(c)
  \/ Unauthorized(c) \/ Throws(c) \/ LoggedOut(c)

Next ==
  \/ \E c \in Slots : Press(c) \/ ServerStep(c) \/ Continue(c) \/ MutateLate(c)
  \/ OpenOrClose
  \/ \E k \in Keys : OtherAdmin(k)

Spec == Init /\ [][Next]_vars

-----------------------------------------------------------------------------
\* A request to change a key that the server would accept finds the key exactly
\* as the page listed it when the button was pressed, however late it comes,
\* after retries, reloads and other administrators' changes: nobody confirms an
\* action on a key he was not shown (the version that confirmStatus, confirmRotate,
\* confirmDelete and submitKey send; submitKey takes it from the list of the
\* moment, which may be newer than the fields of the form).
ChangesWhatWasListed ==
  \A c \in Slots :
    LET r == calls[c].request
    IN (/\ calls[c].stage \in {"sent", "abandoned"}
        /\ r.op \in Mutations \ {"create"} /\ Accepts(r)) => rows[r.id] = r.seen

\* A full key that reached the page stays in an open secret dialog until somebody
\* puts it away, whatever lists, 401s, logins and logouts come meanwhile; only a
\* call that was under way beside the one that brought it can replace it unseen
\* (showSecret; "the full key is shown only this once", admin.html:107).
SecretStays ==
  [][oneTimeKey # NoSecret =>
       \/ Reaches("secret") /\ oneTimeKey' = NoSecret
       \/ oneTimeKey' = oneTimeKey /\ IsOpen(dialogs', "secret")
       \/ \E c \in Slots : calls[c].stage = "ok" /\ calls[c].beside]_<<oneTimeKey, dialogs>>

\* While nobody is logged out, the table shows at least the versions that the
\* page's own mutations returned, and a key it created is missing only after it
\* was deleted, unless the newest load overlapped another one and their answers
\* came in the wrong order (submitKey and runConfirmed load again).
OwnChangesListed ==
  (/\ authenticated /\ expected # NoSecret /\ view \in {"table", "empty"}
   /\ ~\E c \in Slots : InFlight(c) /\ Op(c) = "list")
    => LET k == expected[1]
       IN \/ items[k].version >= expected[2]
          \/ items[k] = NoItem /\ rows[k].status = "revoked"

\* Editing a key, any number of times, never moves its expiry except by cutting
\* off its seconds: it is one that somebody chose or the minute of one
\* (toLocalInput and expirationValue).
ExpiryNeverDrifts ==
  \A k \in Keys :
    \/ rows[k].expires \in Expiries \cup {NoDate}
    \/ \E t \in (Expiries \cup Picked) \ {NoDate} : rows[k].expires = t - (t % 2)

\* A submit button is disabled only while a function is under way that will enable
\* it again, whatever was answered or lost and whichever dialog is open by now: the
\* administrator never needs to reload the page to go on (the finally blocks).
ButtonsReturn == disabled \subseteq {calls[c].button : c \in {d \in Slots : InFlight(d)}}
=============================================================================
