----------------------------- MODULE PageDates ------------------------------
(***************************************************************************)
(* How web/admin.js converts instants for its form and its table.  An      *)
(* instant counts half minutes, so that seconds can get lost; the form     *)
(* holds a minute of the browser's wall clock.                             *)
(***************************************************************************)
EXTENDS Integers

CONSTANTS
  Zone,    \* minutes the browser's wall clock is ahead of UTC
  NoDate   \* an empty date

\* The offset does not change between the instants converted (no daylight-saving
\* switch), as in Taiwan, whose time the page shows.
ASSUME DatesOK == Zone \in Int /\ NoDate \notin Int

Taipei == 8 * 60

\* toLocalInput: the shifted instant as ISO text, cut off after the minutes.
ToLocalInput_Utc(t) == IF t = NoDate THEN NoDate ELSE t \div 2
ToLocalInput(t) == IF t = NoDate THEN NoDate ELSE (t + 2 * Zone) \div 2

\* expirationValue: `new Date` reads the minute in the browser's zone.
ExpirationValue(local) == IF local = NoDate THEN NoDate ELSE 2 * (local - Zone)

\* An instant that went through the form.
ByMinute(t) == ExpirationValue(ToLocalInput(t))

\* formatDate: a Date shifted so that its local getters read Taipei time.
WallClock(t) == t + 2 * Zone
FormatDate(t) == WallClock(t - 2 * Zone + 2 * Taipei)
=============================================================================
