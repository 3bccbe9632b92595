--------------------------- MODULE DeviceHistory ---------------------------
(***************************************************************************)
(* The windows of a device history, as services/device_history.py derives   *)
(* them, the gas-day arithmetic of services/commercial_day.py, and what the *)
(* archive's reader and its purge take out of a window.                     *)
(*                                                                         *)
(* A history is a function from row ids (or positions in a request) to      *)
(* entries [device, from, until]; `until` is removed_at, with Forever for   *)
(* NULL.  Moments are half hours, hours are even, and gas day D opens at    *)
(* moment D * DayLength + ContractHour.                                     *)
(***************************************************************************)
EXTENDS Integers

CONSTANTS
  Forever,       \* later than every moment: NULL as an open end
  DayLength,     \* moments in a day
  ContractHour   \* moments from midnight to the opening of the gas day

ASSUME CalendarAssumption ==
  /\ Forever \in Nat
  /\ DayLength \in Nat \ {0}
  /\ ContractHour \in 0 .. DayLength - 1

\* Row i is followed by row j in the order of installation; equal stamps keep
\* the order they came in.
Precedes(h, i, j) ==
  \/ h[i].from < h[j].from
  \/ h[i].from = h[j].from /\ i < j

\* Moment t is before win_to of row i: its own removal, or the next installation
\* when that comes first.
EndsAfter_Removed(h, i, t) ==  \* mutant: a removal date hides the next installation
  IF h[i].until < Forever
  THEN t < h[i].until
  ELSE \A j \in DOMAIN h : Precedes(h, i, j) => t < h[j].from

EndsAfter(h, i, t) ==
  /\ t < h[i].until
  /\ \A j \in DOMAIN h : Precedes(h, i, j) => t < h[j].from

\* The row's device is in force at moment t.
Covers(h, i, t) == h[i].from <= t /\ EndsAfter(h, i, t)

\* The two half-open windows share a moment, the way the clash check asks it.
Overlaps(h, i, g, j) ==
  /\ EndsAfter(h, i, g[j].from)
  /\ EndsAfter(g, j, h[i].from)

\* One point's own history: no two installations at one stamp, no overlap.
ValidPoint(h) ==
  \A i, j \in DOMAIN h : i # j => h[i].from # h[j].from /\ ~Overlaps(h, i, h, j)

FloorHour(t) == IF t = Forever THEN t ELSE t - (t % 2)

\* ---- Gas days ----------------------------------------------------------
Opening(day) == day * DayLength + ContractHour

day_of(t) == IF t % DayLength < ContractHour THEN (t \div DayLength) - 1 ELSE t \div DayLength

\* ---- Reading -----------------------------------------------------------
\* The daily rows a window yields: the window is taken back by the contract hour
\* and a start inside a day is rounded up to the next midnight.
ReadsDay_Down(h, i, day) ==  \* mutant: the start is rounded down
  LET start == h[i].from - ContractHour
  IN  /\ (start \div DayLength) <= day
      /\ EndsAfter(h, i, Opening(day))

ReadsDay(h, i, day) ==
  LET start == h[i].from - ContractHour
      first == IF start % DayLength = 0 THEN start \div DayLength ELSE (start \div DayLength) + 1
  IN  first <= day /\ EndsAfter(h, i, Opening(day))

\* ---- Purging -----------------------------------------------------------
\* _clip: the window of a row cut to the range asked for; its end is removed_at
\* as it is stored.
ClipFrom(h, i, since) == IF h[i].from > since THEN h[i].from ELSE since
ClipTo(h, i, until)   == IF h[i].until < until THEN h[i].until ELSE until

PurgesHour(h, i, since, until, t) == ClipFrom(h, i, since) <= t /\ t < ClipTo(h, i, until)

PurgesDay_Next(h, i, since, until, day) ==  \* mutant: from the first day that opens inside
  /\ ClipFrom(h, i, since) < ClipTo(h, i, until)
  /\ day_of(ClipFrom(h, i, since)) < day
  /\ day <= day_of(ClipTo(h, i, until) - 2)

PurgesDay(h, i, since, until, day) ==
  /\ ClipFrom(h, i, since) < ClipTo(h, i, until)
  /\ day_of(ClipFrom(h, i, since)) <= day
  /\ day <= day_of(ClipTo(h, i, until) - 2)
=============================================================================
