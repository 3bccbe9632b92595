------------------------------ MODULE Register ------------------------------
(***************************************************************************)
(* The rows of enterprise_device, and who measures a point by them: the     *)
(* part of the register of metering points that everything which reads an   *)
(* archive relies on, whoever wrote the rows (MeteringPoints).              *)
(***************************************************************************)
EXTENDS DeviceHistory

CONSTANTS
  Points,   \* metering points, by id
  Horizon   \* the last moment looked at

VARIABLE history   \* enterprise_device rows of each point, by id

Days == {d \in -1 .. Horizon : Opening(d) <= Horizon}

\* A point measures through one corrector at a time, whatever the history it was
\* given and whoever wrote into it (device_history: "two devices in force at the
\* same time" cannot be true).
OneDeviceAtATime ==
  \A p \in Points : \A i, j \in DOMAIN history[p] : \A t \in 0 .. Horizon :
    Covers(history[p], i, t) /\ Covers(history[p], j, t) => i = j

Stands(p, d, t) == \E i \in DOMAIN history[p] :
  history[p][i].device = d /\ Covers(history[p], i, t)

\* A day is read where the moment it opens at was covered, so the day a corrector
\* was changed in is counted once (attribution_stamp against _read_window).
DailyReadIsAttribution ==
  \A p \in Points : \A i \in DOMAIN history[p], k \in Days :
    ReadsDay(history[p], i, k) <=> Covers(history[p], i, Opening(k))
=============================================================================
