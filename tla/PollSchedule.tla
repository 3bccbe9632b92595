---------------------------- MODULE PollSchedule ----------------------------
(***************************************************************************)
(* When one card is called: is_due and the plan, the retry budget of a      *)
(* scheduled slot, and the button that asks for a poll out of turn.         *)
(*                                                                         *)
(* There is no queue: a card is due when the last slot of its cron is later *)
(* than its last successful poll.  What the schedule may spend on a slot is *)
(* counted from the poll_attempt rows that finish writes, and finish tells  *)
(* a scheduled call from one asked for by hand by the request standing when *)
(* it ends.                                                                 *)
(*                                                                         *)
(* Time is a clock of a few minutes a tick.  Calls last at least one, plans *)
(* are fetched every few seconds and carried across none.  Who among        *)
(* several agents gets the card is PollSession's subject: here a call is    *)
(* simply running, or dead and still holding its claim.                     *)
(***************************************************************************)
EXTENDS Naturals, FiniteSets

CONSTANTS
  RetryPause,          \* RETRY_PAUSE
  MaxAttemptsPerSlot,  \* MAX_ATTEMPTS_PER_SLOT
  FailureWindow,       \* how far back get_plan loads failed attempts: a day
  Lookback,            \* LOOKBACK_HOURS
  ClaimTimeout,        \* CLAIM_TIMEOUT
  Crons,               \* schedules an operator may give the card: sets of times
  Null,
  Horizon,             \* bound on the clock
  MaxPresses,          \* bound on requests made by hand
  MaxWithdrawals,      \* bound on requests taken back
  MaxLosses,           \* bound on calls that die with their agent
  MaxEdits             \* bound on edits of the card

ASSUME ScheduleAssumption ==
  /\ {RetryPause, MaxAttemptsPerSlot, FailureWindow, Lookback, ClaimTimeout} \subseteq Nat \ {0}
  /\ {Horizon, MaxPresses, MaxWithdrawals, MaxLosses, MaxEdits} \subseteq Nat
  /\ Crons \subseteq SUBSET (0 .. Horizon)
  /\ Null \notin Nat

VARIABLES
  now,
  enabled, auto_poll, poll_cron,                 \* the operator's settings
  last_poll_at, last_attempt_at, last_status,    \* what the last calls left
  manual_requested_at,
  attempts,                                      \* poll_attempt
  call,                                          \* the call that holds the card, or Null
  left,                                          \* what the bounds leave to happen
  dialled                                        \* history: every call made

card == <<last_poll_at, last_attempt_at, last_status, manual_requested_at>>
settings == <<enabled, auto_poll, poll_cron>>
vars == <<now, settings, card, attempts, call, left, dialled>>

Times == 0 .. Horizon
Reasons == {"manual_request", "scheduled"}

Attempt == [at : Times, failed : BOOLEAN, manual : BOOLEAN]
Running == [reason : Reasons, slot : Times \cup {Null}, request : Times \cup {Null},
            began : Times, alive : BOOLEAN]
Ended   == [reason : Reasons, slot : Times \cup {Null}, request : Times \cup {Null},
            began : Times, ended : Times, outcome : {"ok", "error"}, manual : BOOLEAN]

TypeOK ==
  /\ now \in Times
  /\ enabled \in BOOLEAN /\ auto_poll \in BOOLEAN /\ poll_cron \in Crons
  /\ {last_poll_at, last_attempt_at, manual_requested_at} \subseteq Times \cup {Null}
  /\ last_status \in {"ok", "error", Null}
  /\ attempts \subseteq Attempt
  /\ call \in Running \cup {Null}
  /\ left \in [presses : 0 .. MaxPresses, withdrawals : 0 .. MaxWithdrawals,
               losses : 0 .. MaxLosses, edits : 0 .. MaxEdits]
  /\ dialled \subseteq Ended

Init ==
  /\ now = 0
  /\ enabled = TRUE /\ auto_poll = TRUE /\ poll_cron \in Crons
  /\ last_poll_at = Null /\ last_attempt_at = Null /\ last_status = Null
  /\ manual_requested_at = Null
  /\ attempts = {}
  /\ call = Null
  /\ left = [presses |-> MaxPresses, withdrawals |-> MaxWithdrawals,
             losses |-> MaxLosses, edits |-> MaxEdits]
  /\ dialled = {}

-----------------------------------------------------------------------------
(* is_due *)

\* last_fire: the latest moment named that has passed, within the lookback.
Passed == {t \in poll_cron : t <= now /\ now - t <= Lookback}
last_slot == IF Passed = {} THEN Null
             ELSE CHOOSE t \in Passed : \A u \in Passed : u <= t

Failures_Short(slot) ==  \* mutant: only the failures of the last pause are loaded
  {a \in attempts : /\ a.failed /\ ~a.manual
                    /\ a.at + RetryPause >= now /\ a.at >= slot}

\* failed_attempts_since a day ago, then those of this slot.
Failures(slot) ==
  {a \in attempts : /\ a.failed /\ ~a.manual
                    /\ a.at + FailureWindow >= now /\ a.at >= slot}

ManualRequest ==
  manual_requested_at # Null
    /\ (last_poll_at # Null => manual_requested_at > last_poll_at)

CoolingOff ==
  /\ last_status = "error"
  /\ now - last_attempt_at < RetryPause

GaveUp == Cardinality(Failures(last_slot)) >= MaxAttemptsPerSlot

Scheduled ==
  /\ auto_poll
  /\ ~CoolingOff
  /\ last_slot # Null
  /\ ~GaveUp
  /\ last_poll_at # Null => last_poll_at < last_slot

is_due == enabled /\ (ManualRequest \/ Scheduled)

-----------------------------------------------------------------------------
(* The calls *)

\* get_plan offers the card and start_session claims it.
start_session ==
  /\ is_due
  /\ call # Null => ~call.alive /\ now - call.began > ClaimTimeout
  /\ call' = [reason |-> IF ManualRequest THEN "manual_request" ELSE "scheduled",
              slot |-> IF ManualRequest THEN Null ELSE last_slot,
              request |-> IF ManualRequest THEN manual_requested_at ELSE Null,
              began |-> now, alive |-> TRUE]
  /\ UNCHANGED <<now, settings, card, attempts, left, dialled>>

answered_KeepsOnFailure(status) ==  \* mutant: a failed call leaves the request
  IF status = "ok" THEN Null ELSE manual_requested_at

\* Whatever the outcome, the session the button asked for has happened.
answered(status) == Null

\* PollingDao.finish.
finish(status) ==
  /\ call # Null
  /\ call.alive /\ now > call.began
  /\ last_attempt_at' = now
  /\ last_status' = status
  /\ last_poll_at' = IF status = "ok" THEN now ELSE last_poll_at
  /\ manual_requested_at' = answered(status)
  /\ attempts' = attempts \cup
       {[at |-> now, failed |-> status # "ok", manual |-> manual_requested_at # Null]}
  /\ call' = Null
  /\ dialled' = dialled \cup
       {[reason |-> call.reason, slot |-> call.slot, request |-> call.request,
         began |-> call.began, ended |-> now, outcome |-> status,
         manual |-> manual_requested_at # Null]}
  /\ UNCHANGED <<now, settings, left>>

\* The agent dies: nothing finishes the call, and its claim stays.
lose ==
  /\ call # Null
  /\ call.alive
  /\ left.losses > 0
  /\ call' = [call EXCEPT !.alive = FALSE]
  /\ left' = [left EXCEPT !.losses = @ - 1]
  /\ UNCHANGED <<now, settings, card, attempts, dialled>>

-----------------------------------------------------------------------------
(* The operators *)

\* No two stamps are the same microsecond.
request_manual ==
  /\ left.presses > 0
  /\ last_poll_at # now
  /\ manual_requested_at' = now
  /\ left' = [left EXCEPT !.presses = @ - 1]
  /\ UNCHANGED <<now, settings, last_poll_at, last_attempt_at, last_status, attempts,
                 call, dialled>>

\* request_poll with cancel=true, at any moment; cancel_enterprise_poll, only
\* while nobody holds the card.
cancel_manual ==
  /\ left.withdrawals > 0
  /\ manual_requested_at # Null
  /\ manual_requested_at' = Null
  /\ left' = [left EXCEPT !.withdrawals = @ - 1]
  /\ UNCHANGED <<now, settings, last_poll_at, last_attempt_at, last_status, attempts,
                 call, dialled>>

update_device ==
  /\ left.edits > 0
  /\ \/ enabled' = ~enabled /\ UNCHANGED <<auto_poll, poll_cron>>
     \/ auto_poll' = ~auto_poll /\ UNCHANGED <<enabled, poll_cron>>
     \/ poll_cron' \in Crons \ {poll_cron} /\ UNCHANGED <<enabled, auto_poll>>
  /\ left' = [left EXCEPT !.edits = @ - 1]
  /\ UNCHANGED <<now, card, attempts, call, dialled>>

\* A live call ends before its claim does.
tick ==
  /\ now < Horizon
  /\ call # Null => ~call.alive \/ now - call.began < ClaimTimeout
  /\ now' = now + 1
  /\ UNCHANGED <<settings, card, attempts, call, left, dialled>>

Next ==
  \/ start_session
  \/ \E status \in {"ok", "error"} : finish(status)
  \/ lose
  \/ request_manual \/ cancel_manual \/ update_device
  \/ tick

Spec == Init /\ [][Next]_vars

-----------------------------------------------------------------------------
(* Properties *)

CallsFor(slot) == {d \in dialled : d.reason = "scheduled" /\ d.slot = slot}

\* What the schedule spends on one slot: one success settles it, and no more
\* failures are put down to it than the budget allows (is_due, finish).
SlotSettled ==
  \A slot \in Times :
    LET calls == CallsFor(slot)
        good  == {d \in calls : d.outcome = "ok"}
        bad   == {d \in calls : d.outcome = "error" /\ ~d.manual}
    IN /\ Cardinality(good) <= 1
       /\ \A d \in good, e \in calls : e.began <= d.began
       /\ Cardinality(bad) <= MaxAttemptsPerSlot

\* The button is pressed once and the session it asked for happens once: a
\* failed call is not dialled again on the same request (finish).
RequestOnce ==
  \A d, e \in dialled :
    d.reason = "manual_request" /\ d.request = e.request => d = e
=============================================================================
