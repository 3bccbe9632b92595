------------------------ MODULE PollSchedule_proofs ------------------------
(***************************************************************************)
(* What holds of the polling schedule for every schedule, budget, window    *)
(* and bound.                                                               *)
(***************************************************************************)
EXTENDS PollSchedule, FiniteSetTheorems, WellFoundedInduction, TLAPS

\* A set of moments up to the horizon has a latest one.
LEMMA LatestExists ==
  ASSUME NEW S \in SUBSET Times, S # {}
  PROVE  \E t \in S : \A u \in S : u <= t
<1> DEFINE T == {n \in Nat : Horizon - n \in S}
<1> Horizon \in Nat
  BY ScheduleAssumption
<1>1. T # {}
  <2>1. PICK t \in S : TRUE
    OBVIOUS
  <2>2. t \in Nat /\ t <= Horizon
    BY <2>1 DEF Times
  <2>3. Horizon - t \in Nat /\ Horizon - (Horizon - t) = t
    BY <2>2
  <2>4. Horizon - t \in T
    BY <2>1, <2>3
  <2>5. QED
    BY <2>4
<1>2. \E x \in T : \A y \in T : ~(<<y, x>> \in OpToRel(<, Nat))
  <2>1. T \subseteq Nat
    OBVIOUS
  <2>2. QED
    BY <1>1, <2>1, NatLessThanWellFounded, WFMin
<1>3. PICK x \in T : \A y \in T : ~(y < x)
  <2>1. \A y, x \in Nat : y < x => <<y, x>> \in OpToRel(<, Nat)
    BY Zenon DEF OpToRel
  <2>2. QED
    BY <1>2, <2>1
<1>4. ASSUME NEW u \in S PROVE u <= Horizon - x
  <2>1. u \in Nat /\ u <= Horizon
    BY <1>4 DEF Times
  <2>2. Horizon - u \in T
    BY <2>1, <1>4
  <2>3. ~(Horizon - u < x) /\ x \in Nat
    BY <1>3, <2>2, Zenon
  <2>4. QED
    BY <2>1, <2>3
<1>5. Horizon - x \in S
  BY <1>3
<1>6. QED
  BY <1>4, <1>5

LEMMA Numbers ==
  /\ RetryPause \in Nat /\ MaxAttemptsPerSlot \in Nat /\ FailureWindow \in Nat
  /\ Lookback \in Nat /\ ClaimTimeout \in Nat /\ Horizon \in Nat
  /\ MaxPresses \in Nat /\ MaxWithdrawals \in Nat
  /\ MaxLosses \in Nat /\ MaxEdits \in Nat
  /\ Crons \subseteq SUBSET Times
  /\ \A t \in Times : t \in Nat /\ t # Null
BY ScheduleAssumption DEF Times

(* ---- Types ---- *)

LEMMA SlotType ==
  ASSUME TypeOK
  PROVE  last_slot \in Times \cup {Null}
<1>1. CASE Passed = {}
  BY <1>1 DEF last_slot
<1>2. CASE Passed # {}
  <2>1. Passed \in SUBSET Times
    BY Numbers DEF Passed, TypeOK
  <2>2. \E t \in Passed : \A u \in Passed : u <= t
    BY <1>2, <2>1, LatestExists
  <2>3. last_slot \in Passed
    BY <1>2, <2>2 DEF last_slot
  <2>4. QED
    BY <2>1, <2>3
<1>3. QED
  BY <1>1, <1>2

\* A slot that stands has come and is the latest that has.
LEMMA SlotIsPassed ==
  ASSUME TypeOK, last_slot # Null
  PROVE  /\ last_slot \in Times /\ last_slot <= now /\ last_slot \in Passed
         /\ \A u \in Passed : u <= last_slot
<1>1. Passed # {} /\ Passed \in SUBSET Times
  BY Numbers DEF last_slot, Passed, TypeOK
<1>2. \E t \in Passed : \A u \in Passed : u <= t
  BY <1>1, LatestExists
<1>3. last_slot \in Passed /\ \A u \in Passed : u <= last_slot
  BY <1>1, <1>2 DEF last_slot
<1>4. QED
  BY <1>1, <1>3 DEF Passed

\* The record start_session writes.
LEMMA RunningType ==
  ASSUME NEW r \in Reasons, NEW s \in Times \cup {Null}, NEW q \in Times \cup {Null},
         NEW b \in Times, NEW a \in BOOLEAN
  PROVE  [reason |-> r, slot |-> s, request |-> q, began |-> b, alive |-> a] \in Running
BY DEF Running

\* The records finish writes.
LEMMA AttemptType ==
  ASSUME NEW t \in Times, NEW f \in BOOLEAN, NEW m \in BOOLEAN
  PROVE  [at |-> t, failed |-> f, manual |-> m] \in Attempt
BY DEF Attempt

LEMMA EndedType ==
  ASSUME NEW c \in Running, NEW t \in Times, NEW status \in {"ok", "error"},
         NEW m \in BOOLEAN
  PROVE  [reason |-> c.reason, slot |-> c.slot, request |-> c.request, began |-> c.began,
          ended |-> t, outcome |-> status, manual |-> m] \in Ended
BY DEF Running, Ended

\* No call, operator or tick leaves a column outside its type.
LEMMA TypeStep ==
  ASSUME TypeOK, [Next]_vars
  PROVE  TypeOK'
<1>1. CASE UNCHANGED vars
  BY <1>1 DEF TypeOK, vars, settings, card
<1>2. CASE start_session
  <2>1. call' \in Running
    <3>1. last_slot \in Times \cup {Null}
      BY SlotType
    <3>2. now \in Times /\ manual_requested_at \in Times \cup {Null}
      BY DEF TypeOK
    <3>3. PICK r \in Reasons, s \in Times \cup {Null}, q \in Times \cup {Null} :
            call' = [reason |-> r, slot |-> s, request |-> q, began |-> now, alive |-> TRUE]
      <4>1. CASE ManualRequest
        BY <1>2, <3>2, <4>1 DEF start_session, Reasons
      <4>2. CASE ~ManualRequest
        BY <1>2, <3>1, <4>2 DEF start_session, Reasons
      <4>3. QED
        BY <4>1, <4>2
    <3>4. QED
      BY <3>2, <3>3, RunningType
  <2>2. QED
    BY <1>2, <2>1 DEF start_session, TypeOK, settings, card
<1>3. ASSUME NEW status \in {"ok", "error"}, finish(status) PROVE TypeOK'
  <2>1. now \in Times /\ call \in Running
    BY <1>3 DEF finish, TypeOK
  <2> DEFINE m == manual_requested_at # Null
             f == status # "ok"
  <2>2. attempts' \subseteq Attempt
    <3>1. m \in BOOLEAN /\ f \in BOOLEAN
      OBVIOUS
    <3>2. [at |-> now, failed |-> f, manual |-> m] \in Attempt
      BY <2>1, <3>1, AttemptType
    <3>3. attempts' = attempts \cup {[at |-> now, failed |-> f, manual |-> m]}
      BY <1>3 DEF finish
    <3>4. QED
      BY <3>2, <3>3 DEF TypeOK
  <2>3. dialled' \subseteq Ended
    <3> DEFINE new == [reason |-> call.reason, slot |-> call.slot,
                       request |-> call.request, began |-> call.began,
                       ended |-> now, outcome |-> status, manual |-> m]
    <3>1. new \in Ended
      BY <2>1, EndedType
    <3>2. dialled' = dialled \cup {new}
      BY <1>3 DEF finish
    <3> HIDE DEF new
    <3>3. QED
      BY <3>1, <3>2 DEF TypeOK
  <2>4. /\ last_poll_at' \in Times \cup {Null} /\ last_attempt_at' \in Times \cup {Null}
        /\ manual_requested_at' \in Times \cup {Null}
        /\ last_status' \in {"ok", "error", Null}
        /\ call' \in Running \cup {Null}
    BY <1>3, <2>1 DEF finish, answered, TypeOK
  <2>5. QED
    BY <1>3, <2>2, <2>3, <2>4 DEF finish, TypeOK, settings
<1>4. CASE lose
  <2>1. call' \in Running
    BY <1>4 DEF lose, TypeOK, Running
  <2>2. left' \in [presses : 0 .. MaxPresses, withdrawals : 0 .. MaxWithdrawals,
                   losses : 0 .. MaxLosses, edits : 0 .. MaxEdits]
    BY <1>4, Numbers DEF lose, TypeOK
  <2>3. QED
    BY <1>4, <2>1, <2>2 DEF lose, TypeOK, settings, card
<1>5. CASE request_manual
  <2>1. left' \in [presses : 0 .. MaxPresses, withdrawals : 0 .. MaxWithdrawals,
                   losses : 0 .. MaxLosses, edits : 0 .. MaxEdits]
    BY <1>5, Numbers DEF request_manual, TypeOK
  <2>2. QED
    BY <1>5, <2>1 DEF request_manual, TypeOK, settings
<1>6. CASE cancel_manual
  <2>1. left' \in [presses : 0 .. MaxPresses, withdrawals : 0 .. MaxWithdrawals,
                   losses : 0 .. MaxLosses, edits : 0 .. MaxEdits]
    BY <1>6, Numbers DEF cancel_manual, TypeOK
  <2>2. QED
    BY <1>6, <2>1 DEF cancel_manual, TypeOK, settings
<1>7. CASE update_device
  <2>1. left' \in [presses : 0 .. MaxPresses, withdrawals : 0 .. MaxWithdrawals,
                   losses : 0 .. MaxLosses, edits : 0 .. MaxEdits]
    BY <1>7, Numbers DEF update_device, TypeOK
  <2>2. enabled' \in BOOLEAN /\ auto_poll' \in BOOLEAN /\ poll_cron' \in Crons
    BY <1>7 DEF update_device, TypeOK
  <2>3. QED
    BY <1>7, <2>1, <2>2 DEF update_device, TypeOK, card
<1>8. CASE tick
  <2>1. now' \in Times
    BY <1>8, Numbers DEF tick, TypeOK, Times
  <2>2. QED
    BY <1>8, <2>1 DEF tick, TypeOK, settings, card
<1>9. QED
  BY <1>1, <1>2, <1>3, <1>4, <1>5, <1>6, <1>7, <1>8 DEF Next

LEMMA TypeInit ==
  ASSUME Init
  PROVE  TypeOK
BY Numbers DEF Init, TypeOK, Times

\* The schedule's columns, the attempts and the calls keep their types.
THEOREM TypeInvariant == Spec => []TypeOK
<1>1. Init => TypeOK
  BY TypeInit
<1>2. TypeOK /\ [Next]_vars => TypeOK'
  BY TypeStep
<1>3. QED
  BY <1>1, <1>2, PTL DEF Spec

(* ---- One press, one call ---- *)

Asked(d) == d.reason = "manual_request"

\* Why one press is one call: every request called for is older than the end of
\* its call, so neither the request that stands nor the one being called for can
\* be one of them.
RequestInv ==
  /\ \A d \in dialled : d.ended <= now /\ (Asked(d) => d.request \in Times /\ d.request < d.ended)
  /\ \A d \in dialled : ~Asked(d) => d.request = Null
  /\ manual_requested_at # Null =>
       /\ manual_requested_at <= now
       /\ \A d \in dialled : Asked(d) => d.request < manual_requested_at
  /\ call # Null /\ Asked(call) =>
       /\ call.request \in Times /\ call.request <= call.began
       /\ \A d \in dialled : Asked(d) => d.request < call.request
  /\ call # Null /\ ~Asked(call) => call.request = Null
  /\ RequestOnce

LEMMA RequestStep ==
  ASSUME TypeOK, RequestInv, [Next]_vars
  PROVE  RequestInv'
<1> USE DEF Asked
<1>1. CASE UNCHANGED vars
  BY <1>1 DEF RequestInv, RequestOnce, vars, card
<1>2. CASE start_session
  <2>1. call'.began = now
    BY <1>2, Numbers DEF start_session, TypeOK, Running
  <2>2. CASE ManualRequest
    <3>1. /\ call'.reason = "manual_request" /\ call'.request = manual_requested_at
          /\ manual_requested_at # Null
      BY <1>2, <2>2 DEF start_session, ManualRequest
    <3>2. QED
      BY <1>2, <2>1, <3>1 DEF start_session, RequestInv, RequestOnce, TypeOK, card
  <2>3. CASE ~ManualRequest
    <3>1. call'.reason = "scheduled" /\ call'.request = Null
      BY <1>2, <2>3 DEF start_session
    <3>2. QED
      BY <1>2, <2>1, <3>1 DEF start_session, RequestInv, RequestOnce, card
  <2>4. QED
    BY <2>2, <2>3
<1>3. ASSUME NEW status \in {"ok", "error"}, finish(status) PROVE RequestInv'
  <2> DEFINE new == [reason |-> call.reason, slot |-> call.slot, request |-> call.request,
                     began |-> call.began, ended |-> now, outcome |-> status,
                     manual |-> manual_requested_at # Null]
  <2>1. /\ call # Null /\ call.began < now /\ now' = now
        /\ dialled' = dialled \cup {new} /\ call' = Null /\ manual_requested_at' = Null
    BY <1>3 DEF finish, answered
  <2>2. /\ new.ended = now /\ new.request = call.request /\ new.reason = call.reason
    OBVIOUS
  <2>3. now \in Nat /\ call.began \in Nat
    BY <2>1, Numbers DEF TypeOK, Running
  <2>4. Asked(new) => /\ new.request \in Times /\ new.request < new.ended
                      /\ \A d \in dialled : Asked(d) => d.request < new.request
    BY <2>1, <2>2, <2>3, Numbers DEF RequestInv
  <2>5. ~Asked(new) => new.request = Null
    BY <2>1, <2>2 DEF RequestInv
  <2> HIDE DEF new
  <2>6. \A d \in dialled' : d.ended <= now /\ (Asked(d) => d.request \in Times /\ d.request < d.ended)
    BY <2>1, <2>2, <2>3, <2>4 DEF RequestInv
  <2>7. \A d \in dialled' : ~Asked(d) => d.request = Null
    BY <2>1, <2>5 DEF RequestInv
  <2>8. RequestOnce'
    <3> SUFFICES ASSUME NEW d \in dialled', NEW e \in dialled', Asked(d), d.request = e.request
                 PROVE  d = e
      BY DEF RequestOnce
    <3>1. Asked(e)
      BY <2>6, <2>7, Numbers
    <3>2. d.request \in Nat
      BY <2>6, Numbers
    <3>3. CASE d \in dialled /\ e \in dialled
      BY <3>3 DEF RequestInv, RequestOnce
    <3>4. CASE d = new \/ e = new
      BY <3>1, <3>2, <3>4, <2>1, <2>4
    <3>5. QED
      BY <3>3, <3>4, <2>1
  <2>9. QED
    BY <2>1, <2>6, <2>7, <2>8 DEF RequestInv
<1>4. CASE lose
  <2>1. /\ call # Null /\ call'.reason = call.reason /\ call'.request = call.request
        /\ call'.began = call.began
    BY <1>4 DEF lose, TypeOK, Running
  <2>2. QED
    BY <1>4, <2>1 DEF lose, RequestInv, RequestOnce, card
<1>5. CASE request_manual
  <2>1. \A d \in dialled : Asked(d) => d.request < now
    <3>1. ASSUME NEW d \in dialled, Asked(d) PROVE d.request < now
      <4>1. d.ended \in Nat /\ now \in Nat
        BY Numbers DEF TypeOK, Ended
      <4>2. d.ended <= now /\ d.request \in Nat /\ d.request < d.ended
        BY <3>1, Numbers DEF RequestInv
      <4>3. QED
        BY <4>1, <4>2
    <3>2. QED
      BY <3>1
  <2>2. manual_requested_at' = now /\ now' = now /\ now \in Nat
    BY <1>5, Numbers DEF request_manual, TypeOK
  <2>3. QED
    BY <1>5, <2>1, <2>2 DEF request_manual, RequestInv, RequestOnce
<1>6. CASE cancel_manual
  BY <1>6 DEF cancel_manual, RequestInv, RequestOnce
<1>7. CASE update_device
  BY <1>7 DEF update_device, RequestInv, RequestOnce, card
<1>8. CASE tick
  <2>1. now' = now + 1 /\ now \in Nat /\ \A d \in dialled : d.ended \in Nat
    BY <1>8, Numbers DEF tick, TypeOK, Ended
  <2>2. manual_requested_at # Null => manual_requested_at \in Nat
    BY Numbers DEF TypeOK
  <2>3. UNCHANGED <<dialled, call, manual_requested_at>>
    BY <1>8 DEF tick, card
  <2>4. QED
    BY <2>1, <2>2, <2>3 DEF RequestInv, RequestOnce
<1>9. QED
  BY <1>1, <1>2, <1>3, <1>4, <1>5, <1>6, <1>7, <1>8 DEF Next

\* One press of the button is one call, however it ends and whatever operators
\* and clocks do meanwhile (is_due, start_session, finish).
THEOREM OnePressOneCall == Spec => []RequestOnce
<1>1. Init => RequestInv
  BY DEF Init, RequestInv, RequestOnce
<1>2. TypeOK /\ RequestInv /\ [Next]_vars => RequestInv'
  BY RequestStep
<1>3. RequestInv => RequestOnce
  BY DEF RequestInv
<1>4. QED
  BY <1>1, <1>2, <1>3, TypeInvariant, PTL DEF Spec

(* ---- What one slot costs ---- *)

Unasked(d) == d.reason = "scheduled"
Spent(d)   == d.outcome = "error" /\ ~d.manual

\* What was put down to a slot.
GoodFor(slot) == {d \in CallsFor(slot) : d.outcome = "ok"}
BadFor(slot)  == {d \in CallsFor(slot) : Spent(d)}

\* Calls do not overlap, and each has left its mark where is_due looks: the moment of the
\* last success, and the attempts.
CallsInv ==
  /\ IsFiniteSet(attempts) /\ IsFiniteSet(dialled)
  /\ \A d \in dialled : d.began < d.ended /\ d.ended <= now
  /\ \A d \in dialled : Unasked(d) => d.slot \in Times /\ d.slot <= d.began
  /\ \A d, e \in dialled : d.ended = e.ended => d = e
  /\ \A d \in dialled : Spent(d) => [at |-> d.ended, failed |-> TRUE, manual |-> FALSE] \in attempts
  /\ \A d \in dialled : d.outcome = "ok" => last_poll_at # Null /\ d.ended <= last_poll_at
  /\ call # Null => call.began <= now /\ \A d \in dialled : d.ended <= call.began
  /\ call # Null /\ Unasked(call) => call.slot \in Times /\ call.slot <= call.began

\* A slot with a success is called no more, one with its budget spent neither.
SlotInv ==
  /\ call # Null /\ Unasked(call) =>
       /\ GoodFor(call.slot) = {}
       /\ Cardinality(BadFor(call.slot)) < MaxAttemptsPerSlot
  /\ \A slot \in Times :
       /\ \A d \in GoodFor(slot), e \in CallsFor(slot) : e.began <= d.began
       /\ \A d, e \in GoodFor(slot) : d = e
       /\ Cardinality(BadFor(slot)) <= MaxAttemptsPerSlot

LEMMA CallsStep ==
  ASSUME TypeOK, CallsInv, [Next]_vars
  PROVE  CallsInv'
<1>0. /\ now \in Nat /\ Horizon \in Nat
      /\ \A d \in dialled : d.began \in Nat /\ d.ended \in Nat
      /\ last_poll_at # Null => last_poll_at \in Nat
      /\ call # Null => call \in Running /\ call.began \in Nat
  BY Numbers DEF TypeOK, Ended, Running
<1>1. CASE UNCHANGED vars
  BY <1>1 DEF CallsInv, vars, card
<1>2. CASE start_session
  <2>1. /\ call'.began = now /\ UNCHANGED <<now, attempts, dialled, last_poll_at>>
        /\ call'.reason = "scheduled" => ~ManualRequest /\ call'.slot = last_slot
    BY <1>2 DEF start_session, card
  <2>2. Unasked(call') => call'.slot \in Times /\ call'.slot <= now
    <3> SUFFICES ASSUME Unasked(call') PROVE call'.slot \in Times /\ call'.slot <= now
      OBVIOUS
    <3>1. Scheduled /\ call'.slot = last_slot
      BY <1>2, <2>1 DEF start_session, is_due, Unasked
    <3>2. last_slot \in Times /\ last_slot <= now
      BY <3>1, SlotIsPassed DEF Scheduled
    <3>3. QED
      BY <3>1, <3>2
  <2>3. QED
    BY <1>0, <2>1, <2>2 DEF CallsInv
<1>3. ASSUME NEW status \in {"ok", "error"}, finish(status) PROVE CallsInv'
  <2> DEFINE m == manual_requested_at # Null
             f == status # "ok"
             new == [reason |-> call.reason, slot |-> call.slot, request |-> call.request,
                     began |-> call.began, ended |-> now, outcome |-> status, manual |-> m]
             a == [at |-> now, failed |-> f, manual |-> m]
  <2>1. /\ call # Null /\ call.began < now /\ now' = now
        /\ dialled' = dialled \cup {new} /\ call' = Null
        /\ attempts' = attempts \cup {a}
        /\ last_poll_at' = IF status = "ok" THEN now ELSE last_poll_at
    BY <1>3 DEF finish
  <2>2. /\ new.ended = now /\ new.began = call.began /\ new.reason = call.reason /\ new.slot = call.slot
        /\ new.outcome = status /\ (new.manual <=> m)
    OBVIOUS
  <2>3. Spent(new) => a = [at |-> new.ended, failed |-> TRUE, manual |-> FALSE]
    BY DEF Spent
  <2> HIDE DEF new, a, m, f
  <2>4. \A d \in dialled : d.ended < now
    BY <1>0, <2>1 DEF CallsInv
  <2>5. IsFiniteSet(attempts') /\ IsFiniteSet(dialled')
    BY <2>1, FS_AddElement DEF CallsInv
  <2>6. \A d \in dialled' : d.began < d.ended /\ d.ended <= now
    BY <1>0, <2>1, <2>2 DEF CallsInv
  <2>7. \A d \in dialled' : Unasked(d) => d.slot \in Times /\ d.slot <= d.began
    BY <2>1, <2>2 DEF CallsInv, Unasked
  <2>8. \A d, e \in dialled' : d.ended = e.ended => d = e
    BY <1>0, <2>1, <2>2, <2>4 DEF CallsInv
  <2>9. \A d \in dialled' : Spent(d) => [at |-> d.ended, failed |-> TRUE, manual |-> FALSE] \in attempts'
    BY <2>1, <2>3 DEF CallsInv
  <2>10. \A d \in dialled' : d.outcome = "ok" => last_poll_at' # Null /\ d.ended <= last_poll_at'
    <3>1. now # Null
      BY <1>0, Numbers DEF TypeOK
    <3>2. CASE status = "ok"
      BY <1>0, <2>1, <2>2, <2>4, <3>1, <3>2
    <3>3. CASE status # "ok"
      BY <2>1, <2>2, <3>3 DEF CallsInv
    <3>4. QED
      BY <3>2, <3>3
  <2>11. QED
    BY <2>1, <2>5, <2>6, <2>7, <2>8, <2>9, <2>10 DEF CallsInv
<1>4. CASE lose
  <2>1. /\ call # Null /\ call'.reason = call.reason /\ call'.slot = call.slot
        /\ call'.began = call.began /\ UNCHANGED <<now, attempts, dialled, last_poll_at>>
    BY <1>0, <1>4 DEF lose, Running, card
  <2>2. QED
    BY <2>1 DEF CallsInv, Unasked
<1>5. CASE request_manual \/ cancel_manual \/ update_device
  <2>1. UNCHANGED <<now, attempts, dialled, last_poll_at, call>>
    BY <1>5 DEF request_manual, cancel_manual, update_device, card
  <2>2. QED
    BY <2>1 DEF CallsInv
<1>6. CASE tick
  <2>1. now' = now + 1 /\ UNCHANGED <<attempts, dialled, last_poll_at, call>>
    BY <1>6 DEF tick, card
  <2>2. QED
    BY <1>0, <2>1 DEF CallsInv
<1>7. QED
  BY <1>1, <1>2, <1>3, <1>4, <1>5, <1>6 DEF Next

\* Every slot of a schedule is followed by another before its failures are forgotten.
SlotsAreClose ==
  \A cron \in Crons : \A t \in cron :
    t + FailureWindow >= Horizon \/ \E u \in cron : t < u /\ u <= t + FailureWindow

\* No failure of the slot that stands is older than what is loaded.
LEMMA NothingForgotten ==
  ASSUME TypeOK, SlotsAreClose, last_slot # Null
  PROVE  Failures(last_slot) = {a \in attempts : a.failed /\ ~a.manual /\ a.at >= last_slot}
<1>0. /\ now \in Nat /\ now <= Horizon /\ Horizon \in Nat /\ FailureWindow \in Nat /\ Lookback \in Nat
      /\ poll_cron \in Crons /\ poll_cron \subseteq Times
  BY Numbers DEF TypeOK, Times
<1>1. /\ last_slot \in Times /\ last_slot <= now /\ last_slot \in Passed
      /\ \A u \in Passed : u <= last_slot
  BY SlotIsPassed
<1>2. last_slot \in Nat /\ last_slot \in poll_cron /\ now - last_slot <= Lookback
  BY <1>0, <1>1, Numbers DEF Passed
<1>3. now <= last_slot + FailureWindow
  <2>1. SUFFICES ASSUME last_slot + FailureWindow < now PROVE FALSE
    BY <1>0, <1>2
  <2>2. PICK u \in poll_cron : last_slot < u /\ u <= last_slot + FailureWindow
    BY <1>0, <1>2, <2>1 DEF SlotsAreClose
  <2>3. u \in Nat
    BY <1>0, Numbers
  <2>4. u <= now /\ now - u <= Lookback
    BY <1>0, <1>2, <2>1, <2>2, <2>3
  <2>5. u \in Passed
    BY <2>4 DEF Passed
  <2>6. QED
    BY <1>1, <1>2, <2>2, <2>3, <2>5
<1>4. ASSUME NEW a \in attempts, a.at >= last_slot PROVE a.at + FailureWindow >= now
  <2>1. a.at \in Nat
    BY Numbers DEF TypeOK, Attempt
  <2>2. QED
    BY <1>0, <1>2, <1>3, <1>4, <2>1
<1>5. QED
  BY <1>4 DEF Failures

\* The failures put down to a slot are among those counted for it.
LEMMA SpentAreCounted ==
  ASSUME TypeOK, CallsInv, NEW slot \in Times
  PROVE  LET counted == {a \in attempts : a.failed /\ ~a.manual /\ a.at >= slot}
         IN  /\ IsFiniteSet(BadFor(slot)) /\ Cardinality(BadFor(slot)) \in Nat
             /\ IsFiniteSet(counted) /\ Cardinality(counted) \in Nat
             /\ Cardinality(BadFor(slot)) <= Cardinality(counted)
<1> DEFINE counted == {a \in attempts : a.failed /\ ~a.manual /\ a.at >= slot}
           B == BadFor(slot)
           mark(d) == [at |-> d.ended, failed |-> TRUE, manual |-> FALSE]
           g == [d \in B |-> mark(d)]
<1>1. IsFiniteSet(counted)
  <2>1. counted \in SUBSET attempts /\ IsFiniteSet(attempts)
    BY DEF CallsInv
  <2> HIDE DEF counted
  <2>2. QED
    BY <2>1, FS_Subset
<1>2. IsFiniteSet(B)
  <2>1. B \in SUBSET dialled /\ IsFiniteSet(dialled)
    BY DEF CallsInv, BadFor, CallsFor
  <2> HIDE DEF B
  <2>2. QED
    BY <2>1, FS_Subset
<1>3. ASSUME NEW d \in B PROVE mark(d) \in counted
  <2>1. d \in dialled /\ Unasked(d) /\ d.slot = slot /\ Spent(d)
    BY DEF BadFor, CallsFor, Unasked
  <2>2. mark(d) \in attempts /\ slot <= d.began /\ d.began < d.ended
    BY <2>1 DEF CallsInv
  <2>3. slot \in Nat /\ d.began \in Nat /\ d.ended \in Nat
    BY <2>1, Numbers DEF TypeOK, Ended
  <2>4. mark(d).at >= slot
    BY <2>2, <2>3
  <2>5. QED
    BY <2>2, <2>4
<1>4. ASSUME NEW d \in B, NEW e \in B, g[d] = g[e] PROVE d = e
  <2>1. d.ended = e.ended
    BY <1>4
  <2>2. d \in dialled /\ e \in dialled
    BY DEF BadFor, CallsFor
  <2>3. QED
    BY <2>1, <2>2 DEF CallsInv
<1>5. g \in Injection(B, counted)
  <2>1. g \in [B -> counted]
    BY <1>3
  <2> HIDE DEF g, B, counted
  <2>2. QED
    BY <1>4, <2>1 DEF Injection, IsInjective
<1> HIDE DEF g
<1>6. Cardinality(B) <= Cardinality(counted)
  <2> HIDE DEF B, counted
  <2>1. QED
    BY <1>1, <1>5, FS_Injection
<1>7. Cardinality(B) \in Nat /\ Cardinality(counted) \in Nat
  <2> HIDE DEF B, counted
  <2>1. QED
    BY <1>1, <1>2, FS_CardinalityType
<1>8. QED
  BY <1>1, <1>2, <1>6, <1>7

LEMMA SlotStep ==
  ASSUME TypeOK, CallsInv, SlotsAreClose, SlotInv, [Next]_vars
  PROVE  SlotInv'
<1>0. /\ now \in Nat /\ MaxAttemptsPerSlot \in Nat
      /\ \A d \in dialled : d.began \in Nat /\ d.ended \in Nat
      /\ last_poll_at # Null => last_poll_at \in Nat
      /\ call # Null => call \in Running /\ call.began \in Nat
  BY Numbers DEF TypeOK, Ended, Running
<1>1. CASE UNCHANGED <<dialled, call>>
  BY <1>1 DEF SlotInv, GoodFor, BadFor, CallsFor
<1>2. CASE start_session
  <2>1. /\ UNCHANGED dialled
        /\ call'.reason = "scheduled" => ~ManualRequest /\ call'.slot = last_slot
    BY <1>2 DEF start_session
  <2>2. ASSUME Unasked(call')
        PROVE  GoodFor(call'.slot) = {} /\ Cardinality(BadFor(call'.slot)) < MaxAttemptsPerSlot
    <3>1. Scheduled /\ call'.slot = last_slot
      BY <1>2, <2>1, <2>2 DEF start_session, is_due, Unasked
    <3>2. last_slot \in Times /\ last_slot \in Nat
      BY <3>1, SlotIsPassed, Numbers DEF Scheduled
    <3>3. ASSUME NEW d \in GoodFor(last_slot) PROVE FALSE
      <4>1. d \in dialled /\ Unasked(d) /\ d.slot = last_slot /\ d.outcome = "ok"
        BY DEF GoodFor, CallsFor, Unasked
      <4>2. last_slot <= d.began /\ d.began < d.ended /\ last_poll_at # Null /\ d.ended <= last_poll_at
        BY <4>1 DEF CallsInv
      <4>3. last_poll_at < last_slot
        BY <3>1, <4>2 DEF Scheduled
      <4>4. QED
        BY <1>0, <3>2, <4>1, <4>2, <4>3
    <3>4. Cardinality(BadFor(last_slot)) < MaxAttemptsPerSlot
      <4> DEFINE counted == {a \in attempts : a.failed /\ ~a.manual /\ a.at >= last_slot}
      <4>1. ~(Cardinality(counted) >= MaxAttemptsPerSlot)
        BY <3>1, NothingForgotten DEF Scheduled, GaveUp
      <4>2. /\ Cardinality(BadFor(last_slot)) \in Nat /\ Cardinality(counted) \in Nat
            /\ Cardinality(BadFor(last_slot)) <= Cardinality(counted)
        BY <3>2, SpentAreCounted
      <4>3. QED
        BY <1>0, <4>1, <4>2
    <3>5. QED
      BY <3>1, <3>3, <3>4
  <2>3. QED
    BY <2>1, <2>2 DEF SlotInv, GoodFor, BadFor, CallsFor
<1>3. ASSUME NEW status \in {"ok", "error"}, finish(status) PROVE SlotInv'
  <2> DEFINE new == [reason |-> call.reason, slot |-> call.slot, request |-> call.request,
                     began |-> call.began, ended |-> now, outcome |-> status,
                     manual |-> manual_requested_at # Null]
  <2>1. call # Null /\ dialled' = dialled \cup {new} /\ call' = Null
    BY <1>3 DEF finish
  <2>2. new.began = call.began /\ new.reason = call.reason /\ new.slot = call.slot /\ new.outcome = status
    OBVIOUS
  <2>3. \A d \in dialled : d.ended <= call.began /\ d.began < d.ended
    BY <2>1 DEF CallsInv
  <2> HIDE DEF new
  <2>4. \A d \in dialled : d.began <= new.began
    BY <1>0, <2>1, <2>2, <2>3
  <2>5. ASSUME NEW slot \in Times
        PROVE  /\ \A d \in GoodFor(slot)', e \in CallsFor(slot)' : e.began <= d.began
               /\ \A d, e \in GoodFor(slot)' : d = e
               /\ Cardinality(BadFor(slot))' <= MaxAttemptsPerSlot
    <3>0. /\ \A d \in GoodFor(slot), e \in CallsFor(slot) : e.began <= d.began
          /\ \A d, e \in GoodFor(slot) : d = e
          /\ Cardinality(BadFor(slot)) <= MaxAttemptsPerSlot
      BY DEF SlotInv
    <3>1. CASE ~(new.reason = "scheduled" /\ new.slot = slot)
      <4>1. CallsFor(slot)' = CallsFor(slot)
        BY <2>1, <3>1 DEF CallsFor
      <4>2. GoodFor(slot)' = GoodFor(slot) /\ BadFor(slot)' = BadFor(slot)
        BY <4>1 DEF GoodFor, BadFor
      <4>3. QED
        BY <3>0, <4>1, <4>2
    <3>2. CASE new.reason = "scheduled" /\ new.slot = slot
      <4>1. CallsFor(slot)' = CallsFor(slot) \cup {new}
        BY <2>1, <3>2 DEF CallsFor
      <4>2. GoodFor(slot) = {} /\ Cardinality(BadFor(slot)) < MaxAttemptsPerSlot
        BY <2>1, <2>2, <3>2 DEF SlotInv, Unasked
      <4>3. GoodFor(slot)' \subseteq {new}
        BY <4>1, <4>2 DEF GoodFor
      <4>4. \A e \in CallsFor(slot)' : e.began <= new.began
        BY <1>0, <2>1, <2>2, <2>4, <4>1 DEF CallsFor
      <4>5. Cardinality(BadFor(slot))' <= MaxAttemptsPerSlot
        <5>1. IsFiniteSet(BadFor(slot)) /\ Cardinality(BadFor(slot)) \in Nat
          BY SpentAreCounted
        <5>2. BadFor(slot)' = BadFor(slot) \/ BadFor(slot)' = BadFor(slot) \cup {new}
          BY <4>1 DEF BadFor
        <5>3. CASE BadFor(slot)' = BadFor(slot)
          BY <3>0, <5>3
        <5>4. CASE BadFor(slot)' = BadFor(slot) \cup {new}
          <6>1. Cardinality(BadFor(slot) \cup {new}) \in {Cardinality(BadFor(slot)), Cardinality(BadFor(slot)) + 1}
            BY <5>1, FS_AddElement
          <6>2. QED
            BY <1>0, <4>2, <5>1, <5>4, <6>1
        <5>5. QED
          BY <5>2, <5>3, <5>4
      <4>6. QED
        BY <4>3, <4>4, <4>5
    <3>3. QED
      BY <3>1, <3>2
  <2>6. QED
    BY <2>1, <2>5 DEF SlotInv
<1>4. CASE lose
  <2>1. call # Null /\ call'.reason = call.reason /\ call'.slot = call.slot /\ UNCHANGED dialled
    BY <1>0, <1>4 DEF lose, Running
  <2>2. QED
    BY <2>1 DEF SlotInv, GoodFor, BadFor, CallsFor, Unasked
<1>5. CASE request_manual \/ cancel_manual \/ update_device \/ tick \/ UNCHANGED vars
  BY <1>1, <1>5 DEF request_manual, cancel_manual, update_device, tick, vars
<1>6. QED
  BY <1>2, <1>3, <1>4, <1>5 DEF Next

LEMMA SlotInit == Init => CallsInv /\ SlotInv
<1> SUFFICES ASSUME Init PROVE CallsInv /\ SlotInv
  OBVIOUS
<1>1. attempts = {} /\ dialled = {} /\ call = Null
  BY DEF Init
<1>2. CallsInv
  BY <1>1, FS_EmptySet DEF CallsInv
<1>3. \A slot : CallsFor(slot) = {} /\ GoodFor(slot) = {} /\ BadFor(slot) = {}
  BY <1>1 DEF CallsFor, GoodFor, BadFor
<1>4. Cardinality({}) <= MaxAttemptsPerSlot
  BY FS_EmptySet, Numbers
<1>5. QED
  BY <1>1, <1>2, <1>3, <1>4 DEF SlotInv

\* What the schedule spends on one slot: no call after one that succeeded, and no more
\* failures than the budget, when the slots of the card are no further apart than failures
\* are remembered.  The claims of dead agents, operators' requests and edits of the schedule
\* change nothing in it (is_due, failed_attempts_since, finish).
THEOREM OneSlot ==
  ASSUME SlotsAreClose
  PROVE  Spec => []SlotSettled
<1>1. TypeOK /\ CallsInv /\ [Next]_vars => CallsInv'
  BY CallsStep
<1>2. TypeOK /\ CallsInv /\ SlotInv /\ [Next]_vars => SlotInv'
  BY SlotStep
<1>3. CallsInv /\ SlotInv => SlotSettled
  <2> SUFFICES ASSUME CallsInv, SlotInv, NEW slot \in Times
               PROVE  /\ Cardinality(GoodFor(slot)) <= 1
                      /\ \A d \in GoodFor(slot), e \in CallsFor(slot) : e.began <= d.began
                      /\ Cardinality(BadFor(slot)) <= MaxAttemptsPerSlot
    BY DEF SlotSettled, GoodFor, BadFor, Spent
  <2>1. Cardinality(GoodFor(slot)) <= 1
    <3>1. \A d, e \in GoodFor(slot) : d = e
      BY DEF SlotInv
    <3>2. CASE GoodFor(slot) = {}
      BY <3>2, FS_EmptySet
    <3>3. CASE GoodFor(slot) # {}
      <4>1. PICK d : GoodFor(slot) = {d}
        BY <3>1, <3>3
      <4>2. QED
        BY <4>1, FS_Singleton
    <3>4. QED
      BY <3>2, <3>3
  <2>2. QED
    BY <2>1 DEF SlotInv
<1>4. QED
  BY <1>1, <1>2, <1>3, SlotInit, TypeInvariant, PTL DEF Spec
=============================================================================
