--------------------------- MODULE DpdLine_proofs ---------------------------
(***************************************************************************)
(* The sums of a line's days, the holes of its hours, and what an           *)
(* initialization leaves, for every calendar, history and purge range, and  *)
(* any number of processes, jobs and troubles.                              *)
(***************************************************************************)
EXTENDS DpdLine, TLAPS, WellFoundedInduction

USE DEF CalendarAssumption, LineAssumption
USE CalendarAssumption, LineAssumption

(* ---- The largest and the smallest of a set of days ---- *)

\* A set of naturals that is not empty has a least member.
LEMMA LeastOf ==
  ASSUME NEW S \in SUBSET Nat, S # {}
  PROVE  \E x \in S : \A y \in S : x <= y
<1>1. PICK x \in S : \A y \in S : ~ (<<y, x>> \in OpToRel(<, Nat))
  BY WFMin, NatLessThanWellFounded
<1>2. ASSUME NEW y \in S PROVE x <= y
  <2>1. x \in Nat /\ y \in Nat  OBVIOUS
  <2>2. y < x => <<y, x>> \in OpToRel(<, Nat)  BY <2>1, Zenon DEF OpToRel
  <2>3. ~ (y < x)  BY <1>1, <2>2, Zenon
  <2> QED  BY <2>1, <2>3
<1> QED  BY <1>2

\* The library's Min and Max of a set of integers with a bound are among its members.
LEMMA MinIn ==
  ASSUME NEW S \in SUBSET Int, S # {}, NEW b \in Int, \A y \in S : b <= y
  PROVE  Min(S) \in S /\ \A y \in S : Min(S) <= y
<1> DEFINE T == {n \in Nat : b + n \in S}
<1>1. PICK s \in S : TRUE  OBVIOUS
<1>2. s \in Int /\ b <= s /\ s - b \in Nat /\ b + (s - b) = s  BY <1>1
<1>3. s - b \in T  BY <1>1, <1>2
<1>4. PICK x \in T : \A y \in T : x <= y  BY <1>3, LeastOf
<1>5. b + x \in S  BY <1>4
<1>6. ASSUME NEW y \in S PROVE b + x <= y
  <2>1. y \in Int /\ y - b \in Nat /\ b + (y - b) = y  OBVIOUS
  <2>2. y - b \in T  BY <2>1
  <2>3. x <= y - b /\ x \in Nat  BY <2>2, <1>4
  <2> QED  BY <2>1, <2>3
<1> QED  BY <1>5, <1>6 DEF Min

LEMMA MaxIn ==
  ASSUME NEW S \in SUBSET Int, S # {}, NEW b \in Int, \A y \in S : y <= b
  PROVE  Max(S) \in S /\ \A y \in S : Max(S) >= y
<1> DEFINE T == {n \in Nat : b - n \in S}
<1>1. PICK s \in S : TRUE  OBVIOUS
<1>2. s \in Int /\ s <= b /\ b - s \in Nat /\ b - (b - s) = s  BY <1>1
<1>3. b - s \in T  BY <1>1, <1>2
<1>4. PICK x \in T : \A y \in T : x <= y  BY <1>3, LeastOf
<1>5. b - x \in S  BY <1>4
<1>6. ASSUME NEW y \in S PROVE b - x >= y
  <2>1. y \in Int /\ b - y \in Nat /\ b - (b - y) = y  OBVIOUS
  <2>2. b - y \in T  BY <2>1
  <2>3. x <= b - y /\ x \in Nat  BY <2>2, <1>4
  <2> QED  BY <2>1, <2>3
<1> QED  BY <1>5, <1>6 DEF Max

\* The days a repair looks at are those of the write and what lies between them.
LEMMA BetweenHolds ==
  ASSUME NEW S \in SUBSET Int, NEW lo \in Int, NEW hi \in Int,
         \A y \in S : lo <= y /\ y <= hi
  PROVE  S \subseteq Between(S)
<1> SUFFICES ASSUME NEW x \in S PROVE x \in Between(S)
  OBVIOUS
<1>1. S # {}  OBVIOUS
<1>2. Min(S) \in S /\ \A y \in S : Min(S) <= y  BY ONLY <1>1, MinIn, lo \in Int, \A y \in S : lo <= y, S \in SUBSET Int
<1>3. Max(S) \in S /\ \A y \in S : Max(S) >= y  BY ONLY <1>1, MaxIn, hi \in Int, \A y \in S : y <= hi, S \in SUBSET Int
<1> QED  BY <1>1, <1>2, <1>3 DEF Between

(* ---- Gas days ---- *)

\* A moment belongs to the gas day that opened last.
LEMMA OpeningDay ==
  ASSUME NEW t \in Int, NEW k \in Int
  PROVE  day_of(t) \in Int /\ (Opening(k) <= t <=> k <= day_of(t))
<1> DEFINE L == DayLength
           q == t \div L
           m == t % L
           d == day_of(t)
<1>1. /\ L \in Nat \ {0} /\ ContractHour \in 0 .. L - 1
      /\ q \in Int /\ m \in 0 .. L - 1 /\ t = L * q + m
  OBVIOUS
<1>2. d = IF m < ContractHour THEN q - 1 ELSE q  BY DEF day_of
<1>3. d \in Int  BY <1>1, <1>2
<1>4. L * d + ContractHour <= t /\ t < L * d + L + ContractHour
  <2>1. CASE m < ContractHour
    <3>1. L * d = L * q - L  BY <1>1, <1>2, <2>1
    <3> QED  BY <1>1, <2>1, <3>1
  <2>2. CASE ~(m < ContractHour)
    BY <1>1, <1>2, <2>2
  <2> QED  BY <2>1, <2>2
<1>5. Opening(k) = L * k + ContractHour  BY <1>1 DEF Opening
<1>6. CASE k <= d
  <2>1. L * k <= L * d  BY <1>1, <1>3, <1>6
  <2>2. L * k \in Int /\ L * d \in Int  BY <1>1, <1>3
  <2> QED  BY <1>1, <1>3, <1>4, <1>5, <1>6, <2>1, <2>2
<1>7. CASE ~(k <= d)
  <2>1. L * (d + 1) <= L * k  BY <1>1, <1>3, <1>7
  <2>2. L * (d + 1) = L * d + L  BY <1>1, <1>3
  <2>3. L * k \in Int /\ L * d \in Int  BY <1>1, <1>3
  <2> QED  BY <1>1, <1>3, <1>4, <1>5, <1>7, <2>1, <2>2, <2>3
<1> QED  BY <1>3, <1>6, <1>7

(* ---- What the jobs hold ---- *)

\* What a process that runs a job is in the middle of.
Job == [kind : {"init", "update"}, at : {"begun", "asking", "storing"}, history : Histories, began : Int,
        todo : SUBSET Task, hand : SUBSET (Hours \cup Days), alone : BOOLEAN, unanswered : BOOLEAN]

TypeInv ==
  /\ now \in Int
  /\ history \in Histories
  /\ job \in [Workers -> {Idle} \cup Job]
  /\ \A w \in Workers : job[w] # Idle => \A t \in job[w].todo : t.window \in DOMAIN job[w].history
  /\ hourly \in [Hours -> {0} \cup Meters]
  /\ clearing \in {NoPurge} \cup PurgeRanges

\* Hours and days are bounded sets of integers.
LEMMA Bounds ==
  /\ Opening(0) = ContractHour /\ ContractHour \in Int
  /\ \A x \in Hours \cup Days : x \in Int /\ 0 <= x /\ (x <= Horizon \/ x <= Horizon \div DayLength)
  /\ Horizon \in Int /\ Horizon \div DayLength \in Int
<1>1. Opening(0) = ContractHour /\ ContractHour \in Int  BY DEF Opening
<1>2. Horizon \div DayLength \in Int  OBVIOUS
<1> QED  BY <1>1, <1>2 DEF Hours, Days

\* The answers of the API are of hours, or of days.
LEMMA AnswerType ==
  ASSUME NEW from, NEW until, NEW period
  PROVE  Answer(period, from, until) \subseteq Hours \cup Days
BY DEF Answer

\* The device of a task is a device of the line.
LEMMA DeviceType ==
  ASSUME TypeInv, NEW w \in Workers, job[w] # Idle, NEW t \in Head(w)
  PROVE  /\ t \in job[w].todo /\ t.period \in Periods /\ t.window \in DOMAIN job[w].history
         /\ Device(w, t) \in Meters /\ Device(w, t) # 0
<1>1. t \in job[w].todo /\ job[w] \in Job  BY DEF Head, TypeInv
<1>2. t \in Task /\ t.window \in DOMAIN job[w].history /\ job[w].history \in Histories
  BY <1>1 DEF TypeInv, Job
<1>3. job[w].history[t.window] \in [device : Meters, from : Int, until : Int]  BY <1>2
<1> QED  BY <1>1, <1>2, <1>3 DEF Device, Task

\* An installed device is one of the line's.
LEMMA ActiveType ==
  ASSUME TypeInv, NEW i \in Active(history, now)
  PROVE  i \in DOMAIN history /\ history[i].device \in Meters /\ history[i].device # 0 /\ history[i].from \in Int
<1>1. i \in DOMAIN history /\ history \in Histories  BY DEF Active, TypeInv
<1>2. history[i] \in [device : Meters, from : Int, until : Int]  BY <1>1
<1> QED  BY <1>1, <1>2

\* What a modem may push are hours or days of the archive.
LEMMA PushableType ==
  ASSUME NEW period
  PROVE  Pushable(period) \subseteq Hours \cup Days
BY DEF Pushable

LEMMA WithHoursType ==
  ASSUME hourly \in [Hours -> {0} \cup Meters], NEW rows, NEW device \in Meters
  PROVE  WithHours(rows, device) \in [Hours -> {0} \cup Meters]
BY DEF WithHours

\* What the steps make of a job: another has had its hand in the archive, or it has stored
\* what it had in hand.
LEMMA DisturbedJob ==
  ASSUME NEW j \in Job
  PROVE  LET n == [j EXCEPT !.alone = FALSE] IN n \in Job /\ n.todo = j.todo /\ n.history = j.history
BY DEF Job

LEMMA StoredJob ==
  ASSUME NEW j \in Job, NEW t
  PROVE  /\ LET n == [j EXCEPT !.at = "asking", !.todo = @ \ {t}, !.hand = {}]
            IN  n \in Job /\ n.todo = j.todo \ {t} /\ n.history = j.history
         /\ LET n == [j EXCEPT !.at = "asking", !.todo = @ \ {t}, !.hand = {}, !.alone = FALSE]
            IN  n \in Job /\ n.todo = j.todo \ {t} /\ n.history = j.history
BY DEF Job

JobsInv ==
  /\ job \in [Workers -> {Idle} \cup Job]
  /\ \A w \in Workers : job[w] # Idle => \A t \in job[w].todo : t.window \in DOMAIN job[w].history

LEMMA JobsStep ==
  ASSUME TypeInv, [Next]_vars
  PROVE  JobsInv'
<1>0. JobsInv  BY DEF TypeInv, JobsInv
<1> DEFINE Good(j) == j \in Job /\ \A t \in j.todo : t.window \in DOMAIN j.history
<1>a. \A v \in Workers : job[v] = Idle \/ Good(job[v])  BY <1>0 DEF JobsInv
<1>b. ASSUME NEW f, f = [v \in Workers |-> f[v]], \A v \in Workers : f[v] = Idle \/ Good(f[v]), job' = f
      PROVE  JobsInv'
  BY <1>b DEF JobsInv
<1>c. ASSUME NEW w \in Workers
      PROVE  \A v \in Workers : Disturbed(w)[v] = Idle \/ Good(Disturbed(w)[v])
  BY <1>a, DisturbedJob DEF Disturbed
<1>1. CASE UNCHANGED job
  BY <1>0, <1>1 DEF JobsInv
<1>2. ASSUME NEW w \in Workers, NEW kind \in {"init", "update"}, acquire(w, kind)
      PROVE  JobsInv'
  <2> DEFINE j == [kind |-> kind, at |-> "begun", history |-> history, began |-> now,
                   todo |-> {}, hand |-> {}, alone |-> TRUE, unanswered |-> FALSE]
  <2>1. Good(j)  BY DEF TypeInv, Job
  <2>2. job' = [job EXCEPT ![w] = j]  BY <1>2 DEF acquire
  <2> HIDE DEF j
  <2> QED  BY <1>0, <2>1, <2>2 DEF JobsInv
<1>3. ASSUME NEW w \in Workers, init_line_locked(w) PROVE JobsInv'
  <2> DEFINE todo == [window : DOMAIN history, period : Periods]
             j == [job[w] EXCEPT !.at = "asking", !.history = history, !.began = now, !.todo = todo]
  <2>1. job[w] \in Job  BY <1>3, <1>a DEF init_line_locked
  <2>2. todo \in SUBSET Task  BY DEF Task, TypeInv
  <2>3. j \in Job /\ j.todo = todo /\ j.history = history
    <3> HIDE DEF todo
    <3>1. history \in Histories /\ now \in Int  BY DEF TypeInv
    <3> QED  BY ONLY <2>1, <2>2, <3>1 DEF Job
  <2>4. job' = [v \in Workers |-> IF v = w THEN j ELSE Disturbed(w)[v]]
    <3>1. Disturbed(w)[w] = job[w]  BY DEF Disturbed
    <3> QED  BY <1>3, <3>1 DEF init_line_locked, Disturbed
  <2> HIDE DEF j
  <2>5. Good(j)  BY <2>3
  <2> QED  BY <1>c, <2>4, <2>5 DEF JobsInv
<1>4. ASSUME NEW w \in Workers, update_line_locked(w) PROVE JobsInv'
  <2> DEFINE todo == [window : Active(history, now), period : Periods]
             j == [job[w] EXCEPT !.at = "asking", !.history = history, !.began = now, !.todo = todo]
  <2>1. job[w] \in Job  BY <1>4, <1>a DEF update_line_locked
  <2>2. todo \in SUBSET Task /\ Active(history, now) \subseteq DOMAIN history  BY DEF Task, TypeInv, Active
  <2>3. j \in Job /\ j.todo = todo /\ j.history = history
    <3> HIDE DEF todo
    <3>1. history \in Histories /\ now \in Int  BY DEF TypeInv
    <3> QED  BY ONLY <2>1, <2>2, <3>1 DEF Job
  <2>4. \/ job' = [job EXCEPT ![w] = Idle]
        \/ job' = [job EXCEPT ![w] = j]
    BY <1>4 DEF update_line_locked, Close
  <2> HIDE DEF j
  <2>5. Good(j)  BY <2>2, <2>3
  <2> QED  BY <1>0, <2>4, <2>5 DEF JobsInv
<1>5. ASSUME NEW w \in Workers, NEW t \in Task, get_volumes(w, t) PROVE JobsInv'
  <2>1. job[w] \in Job  BY <1>5, <1>a DEF get_volumes
  <2>2. PICK failing \in SUBSET Requests(w, t) :
          job' = [job EXCEPT ![w].at = "storing",
                             ![w].hand = {s \in UNION {Answer(t.period, q[1], q[2]) : q \in Requests(w, t) \ failing} : Kept(w, t, s)},
                             ![w].unanswered = @ \/ failing # {}]
    BY <1>5 DEF get_volumes
  <2> DEFINE hand == {s \in UNION {Answer(t.period, q[1], q[2]) : q \in Requests(w, t) \ failing} : Kept(w, t, s)}
             u == job[w].unanswered \/ failing # {}
             j == [job[w] EXCEPT !.at = "storing", !.hand = hand, !.unanswered = u]
  <2>3. hand \in SUBSET (Hours \cup Days)  BY AnswerType
  <2>4. u \in BOOLEAN  OBVIOUS
  <2>5. job' = [job EXCEPT ![w] = j]
    <3> HIDE DEF hand, u
    <3>1. job' = [job EXCEPT ![w].at = "storing", ![w].hand = hand, ![w].unanswered = u]
      BY <2>2 DEF hand, u
    <3> QED  BY <3>1, <1>0 DEF JobsInv
  <2> HIDE DEF hand, u
  <2>6. j \in Job /\ j.todo = job[w].todo /\ j.history = job[w].history
    BY ONLY <2>1, <2>3, <2>4 DEF Job
  <2> HIDE DEF j
  <2>7. Good(j)  BY <1>5, <1>a, <2>6 DEF get_volumes
  <2> QED  BY <1>0, <2>5, <2>7 DEF JobsInv
<1>6. ASSUME NEW w \in Workers, NEW t \in Task, store(w, t) PROVE JobsInv'
  <2> DEFINE j == [job[w] EXCEPT !.at = "asking", !.todo = @ \ {t}, !.hand = {}]
  <2>1. job[w] \in Job  BY <1>6, <1>a DEF store
  <2>2. j \in Job /\ j.todo = job[w].todo \ {t} /\ j.history = job[w].history  BY <2>1, StoredJob
  <2>3. job' = [v \in Workers |-> IF v = w THEN j ELSE Disturbed(w)[v]]
    <3>1. Disturbed(w)[w] = job[w]  BY DEF Disturbed
    <3> QED  BY <1>6, <3>1 DEF store, Disturbed
  <2> HIDE DEF j
  <2>4. Good(j)  BY <1>6, <1>a, <2>2 DEF store
  <2> QED  BY <1>c, <2>3, <2>4 DEF JobsInv
<1>7. ASSUME NEW w \in Workers, NEW t \in Task, NEW i, push_and_store(w, t, i) PROVE JobsInv'
  <2> DEFINE j == [job[w] EXCEPT !.at = "asking", !.todo = @ \ {t}, !.hand = {}, !.alone = FALSE]
  <2>1. job[w] \in Job  BY <1>7, <1>a DEF push_and_store
  <2>2. j \in Job /\ j.todo = job[w].todo \ {t} /\ j.history = job[w].history  BY <2>1, StoredJob
  <2>3. job' = [v \in Workers |-> IF v = w THEN j ELSE Disturbed(w)[v]]
    <3>1. Disturbed(w)[w] = job[w]  BY DEF Disturbed
    <3>2. job' = [Disturbed(w) EXCEPT ![w].at = "asking", ![w].todo = @ \ {t}, ![w].hand = {},
                                      ![w].alone = FALSE]
      BY <1>7 DEF push_and_store
    <3> QED  BY <3>1, <3>2 DEF Disturbed
  <2> HIDE DEF j
  <2>4. Good(j)  BY <1>7, <1>a, <2>2 DEF push_and_store
  <2> QED  BY <1>c, <2>3, <2>4 DEF JobsInv
<1>8. CASE \E w \in Workers : finalize(w) \/ fail(w) \/ die(w)
  <2>1. PICK w \in Workers : job' = [job EXCEPT ![w] = Idle]
    BY <1>8 DEF finalize, fail, die, Close
  <2> QED  BY <1>0, <2>1 DEF JobsInv
<1>9. CASE purge \/ \E i \in DOMAIN history, period \in Periods : push_data(i, period)
  <2>1. job' = [w \in Workers |-> IF job[w] = Idle THEN Idle ELSE [job[w] EXCEPT !.alone = FALSE]]
    BY <1>9 DEF purge, push_data
  <2> QED  BY <1>a, <2>1, DisturbedJob DEF JobsInv
<1>10. CASE tick \/ (\E h \in Histories : update(h)) \/ (\E range \in PurgeRanges : refuse_busy(range))
  BY <1>0, <1>10 DEF JobsInv, tick, update, refuse_busy
<1> QED
  BY <1>1, <1>2, <1>3, <1>4, <1>5, <1>6, <1>7, <1>8, <1>9, <1>10 DEF Next, vars

(* ---- What a step writes ---- *)

Wiped == hourly' = [h \in Hours |-> 0] /\ daily' = [k \in Days |-> NoRow] /\ missed' = {}

Cleared(range) ==
  /\ hourly' = [h \in Hours |-> IF window(range, h) THEN 0 ELSE hourly[h]]
  /\ daily' = [k \in Days |-> IF k \in range[1] .. range[2] THEN NoRow ELSE daily[k]]
  /\ missed' = missed \ (range[1] .. range[2])

\* A step leaves the archive alone, wipes it, clears a range, stores rows of a device or
\* stores days and hours that do not see each other.
Writes ==
  \/ UNCHANGED <<hourly, daily, missed>>
  \/ Wiped
  \/ \E range \in PurgeRanges : Cleared(range)
  \/ \E period \in Periods, rows \in SUBSET (Hours \cup Days), device \in Meters :
       upsert_records(period, rows, device)
  \/ \E days, hours \in SUBSET (Hours \cup Days), device, other \in Meters :
       upsert_overlapping(days, hours, device, other)

LEMMA WritesStep ==
  ASSUME TypeInv, [Next]_vars
  PROVE  Writes
<1>1. ASSUME NEW w \in Workers, init_line_locked(w) PROVE Writes
  BY <1>1 DEF init_line_locked, Writes, Wiped
<1>2. ASSUME NEW w \in Workers, NEW t \in Task, store(w, t) PROVE Writes
  <2>1. job[w] # Idle /\ t \in Head(w) /\ upsert_records(t.period, job[w].hand, Device(w, t))
    BY <1>2 DEF store
  <2>2. t.period \in Periods /\ Device(w, t) \in Meters  BY <2>1, DeviceType
  <2>3. job[w].hand \in SUBSET (Hours \cup Days)  BY <2>1 DEF TypeInv, Job
  <2> QED  BY <2>1, <2>2, <2>3 DEF Writes
<1>3. ASSUME NEW w \in Workers, NEW t \in Task, NEW i \in DOMAIN history, push_and_store(w, t, i)
      PROVE  Writes
  <2>1. job[w] # Idle /\ t \in Head(w) /\ i \in Active(history, now)
    BY <1>3 DEF push_and_store
  <2>2. Device(w, t) \in Meters /\ history[i].device \in Meters  BY <2>1, DeviceType, ActiveType
  <2>3. job[w].hand \in SUBSET (Hours \cup Days)  BY <2>1 DEF TypeInv, Job
  <2>4. CASE t.period = "daily"
    <3>1. PICK rows \in SUBSET Pushable("hourly") :
            upsert_overlapping(job[w].hand, rows, Device(w, t), history[i].device)
      BY <1>3, <2>4 DEF push_and_store
    <3>2. rows \in SUBSET (Hours \cup Days)  BY PushableType
    <3> QED  BY <2>2, <2>3, <3>1, <3>2 DEF Writes
  <2>5. CASE t.period # "daily"
    <3>1. PICK rows \in SUBSET Pushable("daily") :
            upsert_overlapping(rows, job[w].hand, history[i].device, Device(w, t))
      BY <1>3, <2>5 DEF push_and_store
    <3>2. rows \in SUBSET (Hours \cup Days)  BY PushableType
    <3> QED  BY <2>2, <2>3, <3>1, <3>2 DEF Writes
  <2> QED  BY <2>4, <2>5
<1>4. ASSUME NEW i \in DOMAIN history, NEW period \in Periods, push_data(i, period)
      PROVE  Writes
  <2>1. PICK rows \in SUBSET Pushable(period) : upsert_records(period, rows, history[i].device)
    BY <1>4 DEF push_data
  <2>2. history[i].device \in Meters /\ rows \in SUBSET (Hours \cup Days)
    BY <1>4, ActiveType, PushableType DEF push_data
  <2> QED  BY <2>1, <2>2 DEF Writes
<1>5. CASE purge
  <2>1. clearing \in PurgeRanges /\ Cleared(clearing)  BY <1>5 DEF purge, TypeInv, Cleared
  <2> QED  BY <2>1 DEF Writes
<1>6. CASE UNCHANGED <<hourly, daily, missed>>
  BY <1>6 DEF Writes
<1> QED
  BY <1>1, <1>2, <1>3, <1>4, <1>5, <1>6
     DEF Next, vars, acquire, update_line_locked, get_volumes, finalize, fail, die, update, refuse_busy, tick

\* Only the operator and the clock touch the history, the clearing and the moment.
LEMMA OtherSteps ==
  ASSUME [Next]_vars
  PROVE  \/ UNCHANGED <<now, history, clearing>>
         \/ \E h \in Histories : update(h)
         \/ \E range \in PurgeRanges : refuse_busy(range)
         \/ purge \/ tick
<1> DEFINE Same == UNCHANGED <<now, history, clearing>>
<1>1. ASSUME NEW w \in Workers,
             \/ \E kind \in {"init", "update"} : acquire(w, kind)
             \/ init_line_locked(w) \/ update_line_locked(w)
             \/ finalize(w) \/ fail(w) \/ die(w)
      PROVE  Same
  BY <1>1 DEF acquire, init_line_locked, update_line_locked, finalize, fail, die
<1>2. ASSUME NEW w \in Workers, NEW t \in Task,
             get_volumes(w, t) \/ store(w, t) \/ \E i \in DOMAIN history : push_and_store(w, t, i)
      PROVE  Same
  BY <1>2 DEF get_volumes, store, push_and_store
<1>3. ASSUME NEW i, NEW period, push_data(i, period) PROVE Same
  BY <1>3 DEF push_data
<1>4. CASE UNCHANGED vars
  BY <1>4 DEF vars
<1> QED  BY <1>1, <1>2, <1>3, <1>4 DEF Next

LEMMA TypeStep ==
  ASSUME TypeInv, [Next]_vars
  PROVE  TypeInv'
<1>1. JobsInv'  BY JobsStep
<1>2. hourly' \in [Hours -> {0} \cup Meters]
  <2>1. hourly \in [Hours -> {0} \cup Meters]  BY DEF TypeInv
  <2>2. CASE UNCHANGED <<hourly, daily, missed>>  BY <2>1, <2>2
  <2>3. CASE Wiped  BY <2>3 DEF Wiped
  <2>4. ASSUME NEW range \in PurgeRanges, Cleared(range) PROVE hourly' \in [Hours -> {0} \cup Meters]
    BY <2>1, <2>4 DEF Cleared
  <2>5. ASSUME NEW period \in Periods, NEW rows \in SUBSET (Hours \cup Days), NEW device \in Meters,
               upsert_records(period, rows, device)
        PROVE  hourly' \in [Hours -> {0} \cup Meters]
    <3>1. hourly' = WithHours(rows, device) \/ hourly' = hourly  BY <2>5 DEF upsert_records
    <3> QED  BY <2>1, <3>1, WithHoursType
  <2>6. ASSUME NEW days \in SUBSET (Hours \cup Days), NEW hours \in SUBSET (Hours \cup Days),
               NEW device \in Meters, NEW other \in Meters, upsert_overlapping(days, hours, device, other)
        PROVE  hourly' \in [Hours -> {0} \cup Meters]
    <3>1. hourly' = WithHours(hours, other)  BY <2>6 DEF upsert_overlapping
    <3> QED  BY <2>1, <3>1, WithHoursType
  <2> QED
    BY <2>2, <2>3, <2>4, <2>5, <2>6, WritesStep DEF Writes
<1>3. now' \in Int /\ history' \in Histories /\ clearing' \in {NoPurge} \cup PurgeRanges
  <2> DEFINE Goal == now' \in Int /\ history' \in Histories /\ clearing' \in {NoPurge} \cup PurgeRanges
  <2>1. CASE UNCHANGED <<now, history, clearing>>
    BY <2>1 DEF TypeInv
  <2>2. ASSUME NEW h \in Histories, update(h) PROVE Goal
    BY <2>2 DEF TypeInv, update
  <2>3. ASSUME NEW range \in PurgeRanges, refuse_busy(range) PROVE Goal
    BY <2>3 DEF TypeInv, refuse_busy
  <2>4. CASE purge
    BY <2>4 DEF TypeInv, purge
  <2>5. CASE tick
    BY <2>5 DEF TypeInv, tick
  <2> QED  BY <2>1, <2>2, <2>3, <2>4, <2>5, OtherSteps
<1> QED  BY <1>1, <1>2, <1>3 DEF TypeInv, JobsInv

LEMMA TypeInit == Init => TypeInv
<1> SUFFICES ASSUME Init PROVE TypeInv  OBVIOUS
<1>1. now \in Int  BY Bounds DEF Init
<1> QED  BY <1>1 DEF Init, TypeInv

(* ---- The days that stand for their hours ---- *)

\* A day that stands for its hours has them all.
Whole(dl, hr, k) == dl[k].fix = "hours" => Complete(hr, k)

\* It is their sum, and no day that could stand for its hours is left at zero.
Summed(dl, hr, k) ==
  /\ dl[k].fix = "zeroed" => ~Complete(hr, k)
  /\ dl[k].fix = "hours" => dl[k].volume = VolumeOf(hr, k)

SumInv == \A k \in Days : Whole(daily, hourly, k) /\ (k \notin missed => Summed(daily, hourly, k))

\* The repair of a day: whole and marked, it becomes the sum; otherwise it stays.
LEMMA RepairOf ==
  ASSUME NEW dl, NEW hr, NEW days, NEW k \in Days
  PROVE  repair_days(dl, hr, days)[k] =
           IF k \in days /\ dl[k].fix # "none" /\ Complete(hr, k)
           THEN [fix |-> "hours", volume |-> VolumeOf(hr, k)] ELSE dl[k]
BY DEF repair_days

\* A day the repair does not look at stays.
LEMMA LeftAlone ==
  ASSUME NEW dl, NEW hr, NEW days, NEW k \in Days, k \notin days
  PROVE  repair_days(dl, hr, days)[k] = dl[k]
BY DEF repair_days

\* A repaired day is in order if it had its hours where it stood for them.
LEMMA RepairedDay ==
  ASSUME NEW dl, NEW hr, NEW days, NEW k \in days \cap Days, Whole(dl, hr, k)
  PROVE  Whole(repair_days(dl, hr, days), hr, k) /\ Summed(repair_days(dl, hr, days), hr, k)
<1> DEFINE d == repair_days(dl, hr, days)[k]
<1>1. d = IF dl[k].fix # "none" /\ Complete(hr, k)
          THEN [fix |-> "hours", volume |-> VolumeOf(hr, k)] ELSE dl[k]
  BY RepairOf
<1>2. CASE dl[k].fix # "none" /\ Complete(hr, k)
  BY <1>1, <1>2 DEF Whole, Summed
<1>3. CASE ~(dl[k].fix # "none" /\ Complete(hr, k))
  BY <1>1, <1>3 DEF Whole, Summed
<1> QED  BY <1>2, <1>3

\* A day whose hours stay is as whole and as much their sum as before.
LEMMA SameHours ==
  ASSUME NEW hr, NEW after, NEW k, \A h \in HoursOf(k) : after[h] = hr[h]
  PROVE  (Complete(after, k) <=> Complete(hr, k)) /\ VolumeOf(after, k) = VolumeOf(hr, k)
<1>1. Complete(after, k) <=> Complete(hr, k)  BY DEF Complete
<1>2. [h \in HoursOf(k) |-> after[h]] = [h \in HoursOf(k) |-> hr[h]]  OBVIOUS
<1> QED  BY <1>1, <1>2 DEF VolumeOf

\* Hours are stored, never taken away, and only those of the days the repair looks at.
LEMMA HoursWritten ==
  ASSUME hourly \in [Hours -> {0} \cup Meters], NEW rows \in SUBSET (Hours \cup Days), NEW device \in Meters,
         NEW k \in Days
  PROVE  /\ Complete(hourly, k) => Complete(WithHours(rows, device), k)
         /\ k \notin repair_after("hourly", rows) =>
              \A h \in HoursOf(k) : WithHours(rows, device)[h] = hourly[h]
<1>1. device # 0 /\ \A h \in HoursOf(k) : h \in Hours /\ day_of(h) = k  BY DEF HoursOf
<1>2. Complete(hourly, k) => Complete(WithHours(rows, device), k)
  BY <1>1 DEF Complete, WithHours
<1>3. ASSUME NEW h \in HoursOf(k), WithHours(rows, device)[h] # hourly[h]
      PROVE  k \in repair_after("hourly", rows)
  <2> DEFINE S == {day_of(x) : x \in rows}
             top == IF Horizon <= Horizon \div DayLength THEN Horizon \div DayLength ELSE Horizon
  <2>1. h \in rows /\ k \in S  BY <1>1, <1>3 DEF WithHours
  <2>2. ASSUME NEW y \in S PROVE y \in Int /\ -1 <= y /\ y <= day_of(top)
    <3>1. PICK x \in rows : y = day_of(x)  OBVIOUS
    <3>2. x \in Int /\ top \in Int /\ 0 <= x /\ x <= top
      <4>1. x \in Int /\ 0 <= x /\ (x <= Horizon \/ x <= Horizon \div DayLength)  BY Bounds
      <4>2. Horizon \in Int /\ Horizon \div DayLength \in Int  BY Bounds
      <4> QED  BY ONLY <4>1, <4>2
    <3>3. y \in Int /\ day_of(top) \in Int /\ Opening(y) <= x
      BY <3>1, <3>2, OpeningDay
    <3>4. Opening(-1) <= x /\ Opening(y) \in Int
      BY <3>2, <3>3 DEF Opening
    <3>5. -1 <= y  BY <3>1, <3>2, <3>4, OpeningDay
    <3>6. Opening(y) <= top  BY <3>2, <3>3, <3>4
    <3>7. y <= day_of(top)  BY <3>2, <3>3, <3>6, OpeningDay
    <3> QED  BY <3>3, <3>5, <3>7
  <2>3. S \in SUBSET Int /\ -1 \in Int /\ day_of(top) \in Int
    BY <2>2, OpeningDay, Bounds
  <2> HIDE DEF S, top
  <2>4. S \subseteq Between(S)  BY <2>2, <2>3, BetweenHolds
  <2> QED  BY <2>1, <2>4 DEF repair_after, S
<1> QED  BY <1>2, <1>3

\* A day not looked at by a write of days was not marked by it.
LEMMA DaysWritten ==
  ASSUME NEW rows \in SUBSET (Hours \cup Days), NEW device, NEW k \in Days,
         k \notin repair_after("daily", rows)
  PROVE  WithDays(rows, device)[k] = daily[k] \/ WithDays(rows, device)[k].fix = "none"
<1>1. CASE k \notin rows
  BY <1>1 DEF WithDays
<1>2. CASE k \in rows /\ k \notin SetBack
  BY <1>2 DEF WithDays, Reported
<1>3. CASE k \in rows \cap SetBack
  <2> DEFINE top == IF Horizon <= Horizon \div DayLength THEN Horizon \div DayLength ELSE Horizon
  <2>1. top \in Int /\ rows \in SUBSET Int /\ \A y \in rows : 0 <= y /\ y <= top
    <3>1. Horizon \in Int /\ Horizon \div DayLength \in Int  BY Bounds
    <3>2. \A y \in rows : y \in Int /\ 0 <= y /\ (y <= Horizon \/ y <= Horizon \div DayLength)  BY Bounds
    <3> QED  BY ONLY <3>1, <3>2
  <2> HIDE DEF top
  <2>2. rows \cap SetBack \subseteq Between(rows \cap SetBack)
    <3> DEFINE marked == rows \cap SetBack
    <3>1. marked \in SUBSET Int /\ \A y \in marked : 0 <= y /\ y <= top  BY <2>1
    <3> HIDE DEF marked
    <3>2. marked \subseteq Between(marked)  BY ONLY <2>1, <3>1, BetweenHolds, 0 \in Int
    <3> QED  BY <3>2 DEF marked
  <2> QED  BY <1>3, <2>2 DEF repair_after
<1> QED  BY <1>1, <1>2, <1>3

\* What a write of days leaves of a day that stood for its hours still has them.
LEMMA StillWhole ==
  ASSUME NEW rows, NEW device, NEW k \in Days, NEW hr, Whole(daily, hourly, k),
         Complete(hourly, k) => Complete(hr, k)
  PROVE  Whole(WithDays(rows, device), hr, k)
BY DEF Whole, WithDays, Reported

LEMMA SumStep ==
  ASSUME TypeInv, SumInv, [Next]_vars
  PROVE  SumInv'
<1> SUFFICES ASSUME NEW k \in Days
             PROVE  Whole(daily', hourly', k) /\ (k \notin missed' => Summed(daily', hourly', k))
  BY DEF SumInv, Whole, Summed, Complete, VolumeOf
<1>0. /\ hourly \in [Hours -> {0} \cup Meters]
      /\ Whole(daily, hourly, k) /\ (k \notin missed => Summed(daily, hourly, k))
  BY DEF TypeInv, SumInv
<1>1. CASE UNCHANGED <<hourly, daily, missed>>
  BY <1>0, <1>1
<1>2. CASE Wiped
  BY <1>2 DEF Wiped, NoRow, Whole, Summed
<1>3. ASSUME NEW range \in PurgeRanges, Cleared(range)
      PROVE  Whole(daily', hourly', k) /\ (k \notin missed' => Summed(daily', hourly', k))
  <2>1. CASE k \in range[1] .. range[2]
    BY <1>3, <2>1 DEF Cleared, NoRow, Whole, Summed
  <2>2. CASE k \notin range[1] .. range[2]
    <3>1. range[1] \in Int /\ range[2] \in Int /\ k \in Int  BY Bounds
    <3>2. ASSUME NEW h \in HoursOf(k) PROVE hourly'[h] = hourly[h]
      <4>1. h \in Hours /\ h \in Int /\ day_of(h) = k  BY Bounds DEF HoursOf
      <4>2. Opening(range[1]) <= h <=> range[1] <= k  BY <3>1, <4>1, OpeningDay
      <4>3. Opening(range[2] + 1) <= h <=> range[2] + 1 <= k  BY <3>1, <4>1, OpeningDay
      <4>4. Opening(range[2] + 1) \in Int  BY <3>1 DEF Opening
      <4>5. ~window(range, h)  BY <2>2, <3>1, <4>1, <4>2, <4>3, <4>4 DEF window
      <4> QED  BY <1>3, <4>1, <4>5 DEF Cleared
    <3>3. (Complete(hourly', k) <=> Complete(hourly, k)) /\ VolumeOf(hourly', k) = VolumeOf(hourly, k)
      BY <3>2, SameHours
    <3>4. daily'[k] = daily[k] /\ (k \notin missed' => k \notin missed)  BY <1>3, <2>2 DEF Cleared
    <3> QED  BY <1>0, <3>3, <3>4 DEF Whole, Summed
  <2> QED  BY <2>1, <2>2
<1>4. ASSUME NEW rows \in SUBSET (Hours \cup Days), NEW device \in Meters,
             upsert_records("hourly", rows, device)
      PROVE  Whole(daily', hourly', k) /\ (k \notin missed' => Summed(daily', hourly', k))
  <2> DEFINE hr == WithHours(rows, device)
             looked == repair_after("hourly", rows)
  <2>1. hourly' = hr /\ daily' = repair_days(daily, hr, looked) /\ missed' = missed \ looked
    BY <1>4 DEF upsert_records
  <2>2. /\ Complete(hourly, k) => Complete(hr, k)
        /\ k \notin looked => \A h \in HoursOf(k) : hr[h] = hourly[h]
    BY <1>0, HoursWritten
  <2>3. Whole(daily, hr, k)  BY <1>0, <2>2 DEF Whole
  <2> HIDE DEF hr, looked
  <2>4. CASE k \in looked
    BY <2>1, <2>3, <2>4, RepairedDay
  <2>5. CASE k \notin looked
    <3>1. k \notin missed' => k \notin missed  BY <2>1, <2>5
    <3>3. daily'[k] = daily[k]  BY <2>1, <2>5, LeftAlone
    <3>2. (Complete(hr, k) <=> Complete(hourly, k)) /\ VolumeOf(hr, k) = VolumeOf(hourly, k)
      BY <2>2, <2>5, SameHours
    <3> QED  BY <1>0, <2>1, <3>1, <3>2, <3>3 DEF Whole, Summed
  <2> QED  BY <2>4, <2>5
<1>5. ASSUME NEW rows \in SUBSET (Hours \cup Days), NEW device \in Meters,
             upsert_records("daily", rows, device)
      PROVE  Whole(daily', hourly', k) /\ (k \notin missed' => Summed(daily', hourly', k))
  <2> DEFINE dl == WithDays(rows, device)
             looked == repair_after("daily", rows)
  <2>1. hourly' = hourly /\ daily' = repair_days(dl, hourly, looked) /\ missed' = missed \ looked
    BY <1>5 DEF upsert_records
  <2>2. Whole(dl, hourly, k)  BY <1>0, StillWhole
  <2>3. k \notin looked => dl[k] = daily[k] \/ dl[k].fix = "none"  BY DaysWritten
  <2> HIDE DEF dl, looked
  <2>4. CASE k \in looked
    BY <2>1, <2>2, <2>4, RepairedDay
  <2>5. CASE k \notin looked
    <3>1. k \notin missed' => k \notin missed  BY <2>1, <2>5
    <3>2. daily'[k] = dl[k]  BY <2>1, <2>5, LeftAlone
    <3> QED  BY <1>0, <2>1, <2>3, <2>5, <3>1, <3>2 DEF Whole, Summed
  <2> QED  BY <2>4, <2>5
<1>6. ASSUME NEW days \in SUBSET (Hours \cup Days), NEW hours \in SUBSET (Hours \cup Days),
             NEW device \in Meters, NEW other \in Meters,
             upsert_overlapping(days, hours, device, other)
      PROVE  Whole(daily', hourly', k) /\ (k \notin missed' => Summed(daily', hourly', k))
  <2> DEFINE dl == WithDays(days, device)
             hr == WithHours(hours, other)
             known == {x \in Days : daily[x].fix # "none"}
             ofdays == repair_after("daily", days)
             ofhours == repair_after("hourly", hours)
             looked == ofdays \cup ofhours
  <2>1. /\ hourly' = hr
        /\ daily'[k] = IF k \in days /\ k \notin known
                       THEN repair_days(dl, hourly, ofdays)[k] ELSE repair_days(dl, hr, looked)[k]
        /\ missed' = (missed \ looked) \cup (days \ known)
    BY <1>6 DEF upsert_overlapping
  <2>2. /\ Complete(hourly, k) => Complete(hr, k)
        /\ k \notin ofhours => \A h \in HoursOf(k) : hr[h] = hourly[h]
    BY <1>0, HoursWritten
  <2>3. Whole(dl, hourly, k) /\ Whole(dl, hr, k)  BY <1>0, <2>2, StillWhole
  <2>4. k \notin ofdays => dl[k] = daily[k] \/ dl[k].fix = "none"  BY DaysWritten
  <2> HIDE DEF dl, hr, known, ofdays, ofhours
  <2>5. CASE k \in days /\ k \notin known
    <3>1. k \in missed' /\ daily'[k] = repair_days(dl, hourly, ofdays)[k]  BY <2>1, <2>5
    <3>2. Whole(repair_days(dl, hourly, ofdays), hourly, k)
      <4>1. CASE k \in ofdays  BY <2>3, <4>1, RepairedDay
      <4>2. CASE k \notin ofdays
        <5>1. repair_days(dl, hourly, ofdays)[k] = dl[k]  BY <4>2, LeftAlone
        <5> QED  BY <2>3, <5>1 DEF Whole
      <4> QED  BY <4>1, <4>2
    <3> QED  BY <2>1, <2>2, <3>1, <3>2 DEF Whole
  <2>6. CASE ~(k \in days /\ k \notin known) /\ k \in looked
    <3>1. Whole(repair_days(dl, hr, looked), hr, k) /\ Summed(repair_days(dl, hr, looked), hr, k)
      BY <2>3, <2>6, RepairedDay
    <3> QED  BY <2>1, <2>6, <3>1 DEF Whole, Summed
  <2>7. CASE ~(k \in days /\ k \notin known) /\ k \notin looked
    <3>1. daily'[k] = dl[k]  BY <2>1, <2>7, LeftAlone
    <3>3. k \notin missed' => k \notin missed  BY <2>1, <2>7
    <3>2. (Complete(hr, k) <=> Complete(hourly, k)) /\ VolumeOf(hr, k) = VolumeOf(hourly, k)
      BY <2>2, <2>7, SameHours
    <3> QED  BY <1>0, <2>1, <2>4, <2>7, <3>1, <3>2, <3>3 DEF Whole, Summed
  <2> QED  BY <2>5, <2>6, <2>7
<1> QED
  BY <1>1, <1>2, <1>3, <1>4, <1>5, <1>6, WritesStep DEF Writes, Periods

LEMMA SumInit == Init => SumInv
BY DEF Init, SumInv, Whole, Summed, NoRow

\* A day set back whose hours are all stored holds their sum, in whatever order jobs,
\* pushes and purges write: the repair of every write looks at all the days it can have
\* completed or marked (_repair_after, repair_days).  Two transactions that did not see
\* each other are told apart by missed.
THEOREM MarkedDays == Spec => []MarkedDayIsSummed
<1>1. SumInv => MarkedDayIsSummed  BY DEF SumInv, Summed, MarkedDayIsSummed
<1> QED  BY <1>1, TypeInit, TypeStep, SumInit, SumStep, PTL DEF Spec

\* No later hour, no other corrector's hour and no purge leaves an old sum behind.
THEOREM Sums == Spec => []SumIsOfItsHours
<1>1. SumInv => SumIsOfItsHours  BY DEF SumInv, Whole, Summed, SumIsOfItsHours
<1> QED  BY <1>1, TypeInit, TypeStep, SumInit, SumStep, PTL DEF Spec
(* ---- The order of a history ---- *)

\* An entry of a history: its position and its moments are numbers.
LEMMA EntryType ==
  ASSUME NEW H \in Histories, NEW i \in DOMAIN H
  PROVE  i \in Int /\ H[i].from \in Int /\ H[i].until \in Int /\ H[i].device \in Meters /\ H[i].device # 0
<1>1. H[i] \in [device : Meters, from : Int, until : Int] /\ DOMAIN H \subseteq Int  OBVIOUS
<1> QED  BY <1>1

\* The entries of a history are in one order.
LEMMA Ordered ==
  ASSUME NEW H \in Histories, NEW i \in DOMAIN H, NEW j \in DOMAIN H
  PROVE  /\ i = j \/ Precedes(H, i, j) \/ Precedes(H, j, i)
         /\ ~(Precedes(H, i, j) /\ Precedes(H, j, i))
<1>1. i \in Int /\ j \in Int /\ H[i].from \in Int /\ H[j].from \in Int  BY EntryType
<1> QED  BY ONLY <1>1 DEF Precedes

\* The stretch of an entry: from its installation to the next, whenever it was removed.
InZone(H, i, t) == H[i].from <= t /\ \A j \in DOMAIN H : Precedes(H, i, j) => t < H[j].from

\* A moment is in one stretch.
LEMMA OneZone ==
  ASSUME NEW H \in Histories, NEW i \in DOMAIN H, NEW j \in DOMAIN H, NEW t \in Int,
         InZone(H, i, t), InZone(H, j, t)
  PROVE  i = j
<1>1. H[i].from \in Int /\ H[j].from \in Int  BY EntryType
<1>2. ~Precedes(H, i, j) /\ ~Precedes(H, j, i)  BY <1>1 DEF InZone
<1> QED  BY <1>2, Ordered

\* What an entry covers is in its stretch, and with a moment all of the stretch before it.
LEMMA CoversZone ==
  ASSUME NEW H \in Histories, NEW i \in DOMAIN H, NEW t \in Int, Covers(H, i, t)
  PROVE  /\ InZone(H, i, t)
         /\ \A x \in Int : InZone(H, i, x) /\ x < t => Covers(H, i, x)
<1>1. H[i].until \in Int /\ t < H[i].until /\ H[i].from <= t
      /\ \A j \in DOMAIN H : Precedes(H, i, j) => t < H[j].from
  BY EntryType DEF Covers, EndsAfter
<1>2. ASSUME NEW x \in Int, InZone(H, i, x), x < t PROVE Covers(H, i, x)
  BY <1>1, <1>2 DEF InZone, Covers, EndsAfter
<1> QED  BY <1>1, <1>2 DEF InZone

\* At most one device is in force.
LEMMA OneActive ==
  ASSUME NEW H \in Histories, NEW t, NEW i \in Active(H, t), NEW j \in Active(H, t)
  PROVE  i = j
<1>1. i \in DOMAIN H /\ j \in DOMAIN H  BY DEF Active
<1>2. i # j => Precedes(H, i, j) /\ Precedes(H, j, i)  BY DEF Active
<1> QED  BY <1>1, <1>2, Ordered

\* A job does one task at a time.
LEMMA OneHead ==
  ASSUME TypeInv, NEW w \in Workers, job[w] # Idle, NEW t \in Head(w), NEW u \in Head(w)
  PROVE  t = u
<1> DEFINE H == job[w].history
<1>1. /\ t \in job[w].todo /\ u \in job[w].todo
      /\ t.window \in DOMAIN H /\ u.window \in DOMAIN H
      /\ job[w] \in Job
  BY DeviceType DEF TypeInv
<1>2. t \in Task /\ u \in Task /\ H \in Histories  BY <1>1 DEF Job
<1>3. ~Precedes(H, t.window, u.window) /\ ~Precedes(H, u.window, t.window)
  BY <1>1 DEF Head
<1>4. t.window = u.window
  <2> HIDE DEF H
  <2> QED  BY <1>1, <1>2, <1>3, Ordered
<1>5. t.period = u.period
  <2>1. ~(t.period = "daily" /\ u.period = "hourly") /\ ~(u.period = "daily" /\ t.period = "hourly")
    BY <1>1, <1>4 DEF Head
  <2> QED  BY <1>2, <2>1 DEF Task, Periods
<1> QED  BY <1>2, <1>4, <1>5 DEF Task

(* ---- What is asked for ---- *)

\* Gas days follow one another.
LEMMA DayGrows ==
  ASSUME NEW x \in Int, NEW y \in Int, x <= y
  PROVE  day_of(x) \in Int /\ day_of(y) \in Int /\ day_of(x) <= day_of(y)
<1>1. day_of(x) \in Int /\ day_of(y) \in Int  BY OpeningDay
<1>2. Opening(day_of(x)) <= x /\ Opening(day_of(x)) \in Int  BY <1>1, OpeningDay DEF Opening
<1>3. Opening(day_of(x)) <= y  BY <1>2
<1> QED  BY <1>1, <1>3, OpeningDay

\* An answer has the hours gone by of the gas days it was asked for.
LEMMA AnsweredHours ==
  ASSUME NEW from \in Int, NEW until \in Int, NEW x
  PROVE  x \in Answer("hourly", from, until) <=>
           x \in Hours /\ day_of(from) <= day_of(x) /\ day_of(x) <= day_of(until) /\ x < now
<1>1. day_of(from) \in Int /\ day_of(until) \in Int  BY OpeningDay
<1>2. ASSUME x \in Hours
      PROVE  x \in Span(day_of(from), day_of(until)) <=> day_of(from) <= day_of(x) /\ day_of(x) <= day_of(until)
  <2>1. x \in Int  BY <1>2, Bounds
  <2>2. /\ day_of(x) \in Int
        /\ Opening(day_of(from)) <= x <=> day_of(from) <= day_of(x)
        /\ Opening(day_of(until) + 1) <= x <=> day_of(until) + 1 <= day_of(x)
    BY <1>1, <2>1, OpeningDay
  <2>3. Opening(day_of(from)) \in Int /\ Opening(day_of(until) + 1) \in Int  BY <1>1 DEF Opening
  <2> HIDE DEF day_of, Opening
  <2> QED  BY <1>1, <2>1, <2>2, <2>3 DEF Span
<1> QED  BY <1>2 DEF Answer

\* A multiple leaves nothing over.
LEMMA Multiples ==
  ASSUME NEW L \in Nat \ {0}, NEW k \in Int
  PROVE  (L * k) % L = 0 /\ (L * k) \div L = k
<1> DEFINE q == (L * k) \div L
           r == (L * k) % L
<1>1. q \in Int /\ r \in 0 .. L - 1 /\ L * k = L * q + r /\ L * k \in Int /\ L * q \in Int
  OBVIOUS
<1> HIDE DEF q, r
<1>2. L * (k - q) = r  BY <1>1
<1>3. k - q \in Int  BY <1>1
<1>4. CASE k - q >= 1
  <2>1. L * (k - q) >= L  BY <1>3, <1>4
  <2> QED  BY <1>1, <1>2, <2>1
<1>5. CASE k - q <= -1
  <2>1. L * (k - q) <= -L  BY <1>3, <1>5
  <2> QED  BY <1>1, <1>2, <2>1
<1>6. CASE k - q = 0
  <2>1. r = 0 /\ q = k  BY <1>1, <1>2, <1>3, <1>6
  <2> QED  BY <2>1 DEF q, r
<1> QED  BY <1>3, <1>4, <1>5, <1>6

\* The pieces of a window lie in it.
LEMMA ChunkType ==
  ASSUME NEW from \in Int, NEW until \in Int, NEW q \in Chunks(from, until)
  PROVE  q[1] \in Int /\ q[2] \in Int /\ from <= q[1] /\ q[1] <= until - 1 /\ q[2] <= until
<1> DEFINE S == ChunkDays * DayLength
<1>1. S \in Int  OBVIOUS
<1> HIDE DEF S
<1>2. PICK c \in from .. until - 1 : q = <<c, Min({c + S, until})>>
  BY DEF Chunks, S
<1>3. c + S \in Int /\ c \in Int  BY <1>1, <1>2
<1>4. PICK b \in Int : b <= c + S /\ b <= until
  <2>1. CASE c + S <= until  BY <1>3, <2>1
  <2>2. CASE ~(c + S <= until)  BY <1>3, <2>2
  <2> QED  BY <2>1, <2>2
<1>5. Min({c + S, until}) \in {c + S, until} /\ \A y \in {c + S, until} : Min({c + S, until}) <= y
  <2> DEFINE P == {c + S, until}
  <2>1. P \in SUBSET Int /\ P # {} /\ \A y \in P : b <= y  BY <1>3, <1>4
  <2> HIDE DEF P
  <2>2. Min(P) \in P /\ \A y \in P : Min(P) <= y  BY <2>1, MinIn
  <2> QED  BY <2>2 DEF P
<1>6. q[1] = c /\ q[2] = Min({c + S, until})  BY <1>2
<1> QED  BY <1>2, <1>3, <1>5, <1>6

\* They leave no moment of it out.
LEMMA ChunkOf ==
  ASSUME NEW from \in Int, NEW until \in Int, NEW x \in Int, from <= x, x < until
  PROVE  \E q \in Chunks(from, until) : q[1] <= x /\ x < q[2]
<1> DEFINE S == ChunkDays * DayLength
           n == (x - from) \div S
           r == (x - from) % S
           c == x - r
<1>1. S \in Nat \ {0}
  <2>1. ChunkDays \in Nat \ {0} /\ DayLength \in Nat \ {0}  OBVIOUS
  <2>2. DayLength * ChunkDays >= ChunkDays  BY ONLY <2>1
  <2> QED  BY <2>1, <2>2
<1> HIDE DEF S
<1>2. n \in Int /\ r \in 0 .. S - 1 /\ x - from = S * n + r /\ S * n \in Int
  BY <1>1
<1>3. n >= 0
  <2>1. CASE n <= -1
    <3>1. S * n <= -S  BY <1>1, <1>2, <2>1
    <3> QED  BY <1>1, <1>2, <3>1
  <2> QED  BY <1>2, <2>1
<1>4. S * n >= 0  BY <1>1, <1>2, <1>3
<1> HIDE DEF n, r
<1>5. c \in Int /\ c - from = S * n /\ from <= c /\ c <= x /\ x < c + S
  BY <1>1, <1>2, <1>4
<1>6. (c - from) % S = 0  BY <1>1, <1>2, <1>5, Multiples
<1>7. c \in from .. until - 1  BY <1>5
<1> DEFINE q == <<c, Min({c + S, until})>>
<1> HIDE DEF c
<1>8. q \in Chunks(from, until)
  BY <1>6, <1>7 DEF Chunks, S
<1>9. Min({c + S, until}) \in {c + S, until}
  <2> DEFINE P == {c + S, until}
  <2>1. P \in SUBSET Int /\ P # {} /\ \A y \in P : c <= y  BY <1>1, <1>5
  <2> HIDE DEF P
  <2>2. Min(P) \in P  BY <1>5, <2>1, MinIn
  <2> QED  BY <2>2 DEF P
<1>10. q[1] <= x /\ x < q[2]  BY <1>5, <1>9
<1> QED  BY <1>8, <1>10

(* ---- What is brought ---- *)

\* The hours that are stored.
Filled(hr) == {h \in Hours : hr[h] # 0}

\* With an hour, a set has the hours before it of the same stretch.
Open(H, set) ==
  \A i \in DOMAIN H : \A g, h \in Hours :
    h < g /\ InZone(H, i, h) /\ InZone(H, i, g) /\ g \in set => h \in set

\* What a request brings when those that fail bring nothing.
HandOf(w, t, failing) ==
  {s \in UNION {Answer(t.period, q[1], q[2]) : q \in Requests(w, t) \ failing} : Kept(w, t, s)}

LEMMA TaskType ==
  ASSUME TypeInv, NEW w \in Workers, job[w] # Idle, NEW t \in Head(w)
  PROVE  /\ job[w].history \in Histories /\ t.window \in DOMAIN job[w].history
         /\ t \in job[w].todo /\ t.period \in Periods
         /\ job[w].history[t.window].from \in Int /\ job[w].began \in Int /\ now \in Int
<1>1. /\ t \in job[w].todo /\ t.period \in Periods /\ t.window \in DOMAIN job[w].history
      /\ job[w] \in Job /\ now \in Int
  BY DeviceType DEF TypeInv
<1>2. job[w].history \in Histories /\ job[w].began \in Int  BY <1>1 DEF Job
<1>3. job[w].history[t.window].from \in Int  BY <1>1, <1>2, EntryType
<1> QED  BY <1>1, <1>2, <1>3

\* The pieces of a window of an initialization reach over all that the window covers
\* up to the beginning of the job.
LEMMA InitRequests ==
  ASSUME TypeInv, NEW w \in Workers, job[w] # Idle, NEW t \in Head(w), job[w].kind = "init"
  PROVE  /\ \A q \in Requests(w, t) : q[1] \in Int /\ q[2] \in Int /\ job[w].history[t.window].from <= q[1]
         /\ \A q \in Requests(w, t) : \A x \in Int : job[w].history[t.window].from <= x /\ x < q[1] =>
              \E p \in Requests(w, t) : p[1] \in Int /\ p[2] \in Int /\ p[1] <= x /\ x < p[2]
         /\ \A x \in Int : Covers(job[w].history, t.window, x) /\ x < job[w].began =>
              \E p \in Requests(w, t) : p[1] \in Int /\ p[2] \in Int /\ p[1] <= x /\ x < p[2]
<1> DEFINE H == job[w].history
           i == t.window
           from == H[i].from
           to == WinTo(H, i)
           end == IF to = Forever THEN job[w].began ELSE to
<1>1. H \in Histories /\ i \in DOMAIN H /\ from \in Int /\ job[w].began \in Int
  BY TaskType
<1>2. Requests(w, t) = Chunks(from, end)
  BY DEF Requests
<1>3. to \in Int /\ (to # Forever => \E j \in DOMAIN H : Precedes(H, i, j) /\ to = H[j].from)
  <2> DEFINE F == {H[j].from : j \in {k \in DOMAIN H : Precedes(H, i, k)}}
             S == {Forever} \cup F
  <2> HIDE DEF H
  <2>1. ASSUME NEW y \in F PROVE y \in Int /\ from <= y
    <3>1. PICK j \in DOMAIN H : Precedes(H, i, j) /\ y = H[j].from  OBVIOUS
    <3>2. H[j].from \in Int  BY <1>1, EntryType
    <3> QED  BY <1>1, <3>1, <3>2 DEF Precedes
  <2>2. PICK b \in Int : b <= from /\ b <= Forever
    <3>1. CASE from <= Forever  BY <1>1, <3>1
    <3>2. CASE ~(from <= Forever)  BY <1>1, <3>2
    <3> QED  BY <3>1, <3>2
  <2>3. ASSUME NEW y \in S PROVE y \in Int /\ b <= y
    BY <1>1, <2>1, <2>2, <2>3
  <2>4. S \in SUBSET Int /\ S # {} /\ \A y \in S : b <= y  BY <2>3
  <2>5. Min(S) \in S
    <3> HIDE DEF S
    <3> QED  BY <2>4, MinIn
  <2>6. to = Min(S)  BY DEF WinTo
  <2> QED  BY <2>3, <2>5, <2>6
<1>4. end \in Int  BY <1>1, <1>3
<1>5. ASSUME NEW x \in Int, Covers(H, i, x), x < job[w].began PROVE from <= x /\ x < end
  <2>1. from <= x /\ \A j \in DOMAIN H : Precedes(H, i, j) => x < H[j].from
    BY <1>5 DEF Covers, EndsAfter
  <2> HIDE DEF H, to
  <2> QED  BY <1>3, <1>5, <2>1
<1> HIDE DEF from, end
<1>6. ASSUME NEW x \in Int, from <= x, x < end
      PROVE  \E p \in Requests(w, t) : p[1] \in Int /\ p[2] \in Int /\ p[1] <= x /\ x < p[2]
  <2>1. PICK p \in Chunks(from, end) : p[1] <= x /\ x < p[2]  BY <1>1, <1>4, <1>6, ChunkOf
  <2>2. p[1] \in Int /\ p[2] \in Int  BY <1>1, <1>4, ChunkType
  <2> QED  BY <1>2, <2>1, <2>2
<1>7. ASSUME NEW q \in Requests(w, t)
      PROVE  q[1] \in Int /\ q[2] \in Int /\ from <= q[1] /\ q[1] < end
  <2>1. q[1] \in Int /\ q[2] \in Int /\ from <= q[1] /\ q[1] <= end - 1
    BY <1>1, <1>2, <1>4, ChunkType
  <2> QED  BY <1>4, <2>1
<1>8. ASSUME NEW q \in Requests(w, t), NEW x \in Int, from <= x, x < q[1] PROVE x < end
  BY <1>4, <1>7, <1>8
<1> QED  BY <1>5, <1>6, <1>7, <1>8 DEF from

\* The hours an initialization brings are of the window; those of its gas days may go
\* beyond the beginning of the job, and none before them is left out.
LEMMA InitHand ==
  ASSUME TypeInv, NEW w \in Workers, job[w] # Idle, NEW t \in Head(w), job[w].kind = "init",
         t.period = "hourly"
  PROVE  /\ \A failing \in SUBSET Requests(w, t) : \A s \in HandOf(w, t, failing) :
              s \in Hours /\ Covers(job[w].history, t.window, s) /\ s < now
         /\ Open(job[w].history, HandOf(w, t, {}))
         /\ job[w].began <= now =>
              \A x \in Hours : Covers(job[w].history, t.window, x) /\ x < job[w].began => x \in HandOf(w, t, {})
<1> DEFINE H == job[w].history
           i == t.window
           from == H[i].from
<1>0. H \in Histories /\ i \in DOMAIN H /\ from \in Int /\ job[w].began \in Int /\ now \in Int
  BY TaskType
<1>1. ASSUME NEW failing \in SUBSET Requests(w, t), NEW s
      PROVE  s \in HandOf(w, t, failing) <=>
               /\ s \in Hours /\ Covers(H, i, s) /\ s < now
               /\ \E q \in Requests(w, t) \ failing : day_of(q[1]) <= day_of(s) /\ day_of(s) <= day_of(q[2])
  <2>1. ASSUME NEW q \in Requests(w, t)
        PROVE  s \in Answer(t.period, q[1], q[2]) <=>
                 s \in Hours /\ day_of(q[1]) <= day_of(s) /\ day_of(s) <= day_of(q[2]) /\ s < now
    <3>1. q[1] \in Int /\ q[2] \in Int  BY InitRequests
    <3> QED  BY <3>1, AnsweredHours
  <2>2. Kept(w, t, s) <=> Covers(H, i, s)
    BY DEF Kept, attribution_stamp
  <2>3. s \in HandOf(w, t, failing) <=>
          Kept(w, t, s) /\ \E q \in Requests(w, t) \ failing : s \in Answer(t.period, q[1], q[2])
    BY ONLY Zenon DEF HandOf
  <2> HIDE DEF H, i
  <2> QED  BY <2>1, <2>2, <2>3
<1>2. ASSUME NEW s \in Hours, Covers(H, i, s), s < now,
             \E q \in Requests(w, t) : day_of(q[1]) <= day_of(s) /\ day_of(s) <= day_of(q[2])
      PROVE  s \in HandOf(w, t, {})
  BY <1>1, <1>2
<1>3. ASSUME NEW x \in Int, NEW p \in Requests(w, t), p[1] \in Int, p[2] \in Int, p[1] <= x, x < p[2]
      PROVE  day_of(p[1]) <= day_of(x) /\ day_of(x) <= day_of(p[2])
  <2>1. x <= p[2]  BY <1>3
  <2> QED  BY <1>3, <2>1, DayGrows
<1>4. Open(H, HandOf(w, t, {}))
  <2> SUFFICES ASSUME NEW j \in DOMAIN H, NEW g \in Hours, NEW h \in Hours,
                      h < g, InZone(H, j, h), InZone(H, j, g), g \in HandOf(w, t, {})
               PROVE  h \in HandOf(w, t, {})
    BY DEF Open
  <2>1. g \in Int /\ h \in Int  BY Bounds
  <2>2. PICK q \in Requests(w, t) : day_of(q[1]) <= day_of(g) /\ day_of(g) <= day_of(q[2])
    BY <1>1
  <2>3. Covers(H, i, g) /\ g < now  BY <1>1
  <2>4. InZone(H, i, g)  BY <1>0, <2>1, <2>3, CoversZone
  <2>5. j = i  BY <1>0, <2>1, <2>4, OneZone
  <2>6. Covers(H, i, h)  BY <1>0, <2>1, <2>3, <2>5, CoversZone
  <2>7. from <= h /\ h < now  BY <1>0, <2>1, <2>3, <2>6 DEF Covers
  <2>8. q[1] \in Int /\ q[2] \in Int  BY InitRequests
  <2>9. CASE q[1] <= h
    <3>1. day_of(q[1]) <= day_of(h)  BY <2>1, <2>8, <2>9, DayGrows
    <3>2. h <= g  BY <2>1
    <3>3. day_of(h) \in Int /\ day_of(g) \in Int /\ day_of(h) <= day_of(g) /\ day_of(q[2]) \in Int
      BY <2>1, <2>8, <3>2, DayGrows, OpeningDay
    <3>4. day_of(h) <= day_of(q[2])  BY ONLY <2>2, <3>3
    <3> QED  BY <1>2, <2>6, <2>7, <3>1, <3>4
  <2>10. CASE ~(q[1] <= h)
    <3>1. h < q[1]  BY <2>1, <2>8, <2>10
    <3>2. PICK p \in Requests(w, t) : p[1] \in Int /\ p[2] \in Int /\ p[1] <= h /\ h < p[2]
      BY <2>1, <2>7, <3>1, InitRequests
    <3>3. day_of(p[1]) <= day_of(h) /\ day_of(h) <= day_of(p[2])  BY <1>3, <2>1, <3>2
    <3> QED  BY <1>2, <2>6, <2>7, <3>3
  <2> QED  BY <2>9, <2>10
<1>5. ASSUME job[w].began <= now, NEW x \in Hours, Covers(H, i, x), x < job[w].began
      PROVE  x \in HandOf(w, t, {})
  <2>1. x \in Int /\ x < now  BY <1>0, <1>5, Bounds
  <2>2. PICK p \in Requests(w, t) : p[1] \in Int /\ p[2] \in Int /\ p[1] <= x /\ x < p[2]
    BY <1>5, <2>1, InitRequests
  <2>3. day_of(p[1]) <= day_of(x) /\ day_of(x) <= day_of(p[2])  BY <1>3, <2>1, <2>2
  <2> QED  BY <1>2, <1>5, <2>1, <2>3
<1> QED  BY <1>1, <1>4, <1>5

\* The hours an update brings begin at the newest that is stored, or at the installation
\* of the device in force.
LEMMA UpdateHand ==
  ASSUME TypeInv, NEW w \in Workers, job[w] # Idle, NEW t \in Head(w), job[w].kind # "init",
         t.period = "hourly",
         t.window \in Active(job[w].history, job[w].began),
         \A h \in Filled(hourly) : h < job[w].began,
         Open(job[w].history, Filled(hourly)),
         NEW failing \in SUBSET Requests(w, t)
  PROVE  /\ \A s \in HandOf(w, t, failing) : s \in Hours /\ s < now
         /\ Open(job[w].history, Filled(hourly) \cup HandOf(w, t, failing))
<1> DEFINE H == job[w].history
           i == t.window
           from == H[i].from
           began == job[w].began
           kept == Filled(hourly)
           since == IF kept = {} THEN from ELSE Max({Max(kept), from})
           hand == HandOf(w, t, failing)
<1>0. H \in Histories /\ i \in DOMAIN H /\ from \in Int /\ began \in Int /\ now \in Int
  BY TaskType
<1>1. Requests(w, t) = IF since > began THEN {} ELSE {<<since, began>>}
  <2>1. Stored("hourly") = kept  BY DEF Stored, Filled
  <2> QED  BY <2>1 DEF Requests, span_from
<1>2. /\ since \in Int /\ from <= since
      /\ since = from \/ (since \in kept /\ from <= since)
  <2>1. CASE kept = {}  BY <1>0, <2>1
  <2>2. CASE kept # {}
    <3>1. kept \in SUBSET Int /\ Horizon \in Int /\ \A y \in kept : y <= Horizon
      <4>1. \A y \in Hours : y \in Int /\ y <= Horizon  BY Bounds DEF Hours
      <4> QED  BY <4>1, Bounds DEF Filled
    <3> HIDE DEF kept
    <3>2. Max(kept) \in kept /\ Max(kept) \in Int  BY <2>2, <3>1, MaxIn
    <3> DEFINE P == {Max(kept), from}
    <3>3. PICK b \in Int : Max(kept) <= b /\ from <= b
      <4>1. CASE Max(kept) <= from  BY <1>0, <3>2, <4>1
      <4>2. CASE ~(Max(kept) <= from)  BY <1>0, <3>2, <4>2
      <4> QED  BY <4>1, <4>2
    <3>4. P \in SUBSET Int /\ P # {} /\ \A y \in P : y <= b  BY <1>0, <3>2, <3>3
    <3>5. Max(P) \in P /\ \A y \in P : Max(P) >= y
      <4> HIDE DEF P
      <4> QED  BY <3>4, MaxIn
    <3>6. since = Max(P)  BY <2>2
    <3> HIDE DEF since, H
    <3> QED  BY <1>0, <3>2, <3>5, <3>6
  <2> QED  BY <2>1, <2>2
<1> HIDE DEF since
<1>3. ASSUME NEW s
      PROVE  s \in hand <=>
               /\ Requests(w, t) \ failing # {}
               /\ s \in Hours /\ from <= s /\ s < now
               /\ day_of(since) <= day_of(s) /\ day_of(s) <= day_of(began)
  <2>1. s \in Answer("hourly", since, began) <=>
          s \in Hours /\ day_of(since) <= day_of(s) /\ day_of(s) <= day_of(began) /\ s < now
    BY <1>0, <1>2, AnsweredHours
  <2>2. Kept(w, t, s) <=> from <= s
    BY DEF Kept, attribution_stamp
  <2>3. s \in hand <=> Kept(w, t, s) /\ \E q \in Requests(w, t) \ failing : s \in Answer("hourly", q[1], q[2])
    BY Zenon DEF HandOf
  <2>4. \A q \in Requests(w, t) : q[1] = since /\ q[2] = began
    BY <1>1
  <2> HIDE DEF hand, from, began
  <2> QED  BY <2>1, <2>2, <2>3, <2>4
<1>4. ASSUME NEW j \in DOMAIN H, NEW g \in Hours, NEW h \in Hours, h < g,
             InZone(H, j, h), InZone(H, j, g), g \in hand
      PROVE  h \in kept \cup hand
  <2>1. g \in Int /\ h \in Int  BY Bounds
  <2>2. from <= g /\ g < now  BY <1>3, <1>4
  <2>3. CASE since <= h
    <3>1. day_of(since) <= day_of(h)  BY <1>2, <2>1, <2>3, DayGrows
    <3>2. h <= g  BY <1>4, <2>1
    <3>3. day_of(h) \in Int /\ day_of(g) \in Int /\ day_of(h) <= day_of(g) /\ day_of(began) \in Int
      BY <1>0, <2>1, <3>2, DayGrows, OpeningDay
    <3>4. day_of(g) <= day_of(began) /\ Requests(w, t) \ failing # {}  BY <1>3, <1>4
    <3>5. day_of(h) <= day_of(began)  BY ONLY <3>3, <3>4
    <3>6. from <= h /\ h < now
      <4> HIDE DEF from
      <4> QED  BY ONLY <1>0, <1>2, <1>4, <2>1, <2>2, <2>3
    <3> QED  BY <1>3, <3>1, <3>4, <3>5, <3>6
  <2>4. CASE ~(since <= h)
    <3>1. h < since  BY <1>2, <2>1, <2>4
    <3>2. ~Precedes(H, j, i)
      <4> HIDE DEF H
      <4> QED  BY <1>0, <1>4, <2>1, <2>2 DEF InZone
    <3>3. H[j].from \in Int /\ H[j].from <= h  BY <1>0, <1>4, EntryType DEF InZone
    <3>4. CASE j = i
      <4>1. since # from
        <5> HIDE DEF from
        <5> QED  BY <1>0, <1>2, <2>1, <3>1, <3>3, <3>4 DEF from
      <4>2. since \in kept  BY <1>2, <4>1
      <4>3. since \in Hours  BY <4>2 DEF Filled
      <4>4. InZone(H, i, since)
        <5>1. since < began  BY <4>2
        <5>2. ASSUME NEW k \in DOMAIN H, Precedes(H, i, k) PROVE since < H[k].from
          <6>1. H[k].from \in Int  BY <1>0, EntryType
          <6>2. ~Precedes(H, k, i)  BY <1>0, <5>2, Ordered
          <6>3. ~(H[k].from <= began)  BY <5>2, <6>2 DEF Active
          <6> QED  BY <1>0, <1>2, <5>1, <6>1, <6>3
        <5> QED  BY <1>2, <5>2 DEF InZone
      <4> QED  BY <1>4, <3>1, <3>4, <4>2, <4>3, <4>4 DEF Open
    <3>5. CASE j # i
      <4>1. Precedes(H, i, j)  BY <1>0, <3>2, <3>5, Ordered
      <4>2. ~(H[j].from <= began)  BY <3>2, <3>5 DEF Active
      <4>3. since = from \/ since < began  BY <1>2
      <4>4. from <= H[j].from
        <5> HIDE DEF H
        <5> QED  BY <1>0, <3>3, <4>1 DEF Precedes
      <4> HIDE DEF from, began
      <4> QED  BY <1>0, <1>2, <2>1, <3>1, <3>3, <4>2, <4>3, <4>4
    <3> QED  BY <3>4, <3>5
  <2> QED  BY <2>3, <2>4
<1>5. Open(H, kept \cup hand)
  <2> HIDE DEF hand
  <2> QED  BY <1>4 DEF Open
<1> QED  BY <1>3, <1>5

(* ---- What the steps make of a job ---- *)

\* The process that goes on with its job; those beside it may lose the archive to it.
LEMMA DisturbedFields ==
  ASSUME TypeInv, NEW w \in Workers, NEW v \in Workers
  PROVE  /\ job[v] = Idle => Disturbed(w)[v] = Idle
         /\ job[v] # Idle /\ v # w =>
              Disturbed(w)[v] = [job[v] EXCEPT !.alone = FALSE] /\ ~Disturbed(w)[v].alone
         /\ Disturbed(w)[w] = job[w]
<1>1. job[v] \in {Idle} \cup Job  BY DEF TypeInv
<1>2. Disturbed(w)[v] = IF v = w \/ job[v] = Idle THEN job[v] ELSE [job[v] EXCEPT !.alone = FALSE]
  BY DEF Disturbed
<1>3. Disturbed(w)[w] = job[w]  BY DEF Disturbed
<1>4. job[v] \in Job => ~[job[v] EXCEPT !.alone = FALSE].alone  BY DEF Job
<1> QED  BY <1>1, <1>2, <1>3, <1>4

LEMMA InitFields ==
  ASSUME TypeInv, NEW w \in Workers, init_line_locked(w)
  PROVE  /\ LET n == job'[w] IN
              /\ n.kind = "init" /\ n.at = "asking" /\ n.history = history /\ n.began = now
              /\ n.todo = [window : DOMAIN history, period : Periods]
              /\ n.alone = job[w].alone /\ n.unanswered = job[w].unanswered
         /\ \A v \in Workers \ {w} : job'[v] = Disturbed(w)[v]
         /\ Wiped /\ UNCHANGED <<now, history, touched>>
<1>1. job[w] \in Job /\ job[w].kind = "init"  BY DEF TypeInv, init_line_locked
<1>2. Disturbed(w) = [v \in Workers |-> Disturbed(w)[v]] /\ Disturbed(w)[w] = job[w]  BY DEF Disturbed
<1> DEFINE D == Disturbed(w)
           todo == [window : DOMAIN history, period : Periods]
<1> HIDE DEF D, todo
<1>3. job' = [D EXCEPT ![w].at = "asking", ![w].history = history, ![w].began = now, ![w].todo = todo]
  BY DEF init_line_locked, D, todo
<1>4. D = [v \in Workers |-> D[v]] /\ D[w] = job[w]  BY <1>2 DEF D
<1>5. /\ job'[w] = [job[w] EXCEPT !.at = "asking", !.history = history, !.began = now, !.todo = todo]
      /\ \A v \in Workers \ {w} : job'[v] = D[v]
  BY ONLY <1>3, <1>4, w \in Workers
<1>6. LET n == job'[w] IN
        /\ n.kind = "init" /\ n.at = "asking" /\ n.history = history /\ n.began = now
        /\ n.todo = todo /\ n.alone = job[w].alone /\ n.unanswered = job[w].unanswered
  BY ONLY <1>1, <1>5 DEF Job
<1>7. Wiped /\ UNCHANGED <<now, history, touched>>
  BY DEF init_line_locked, Wiped
<1> QED  BY <1>5, <1>6, <1>7 DEF D, todo

LEMMA UpdateFields ==
  ASSUME TypeInv, NEW w \in Workers, update_line_locked(w)
  PROVE  /\ \/ job'[w] = Idle
            \/ LET n == job'[w] IN
                 /\ n.kind = "update" /\ n.at = "asking" /\ n.history = history /\ n.began = now
                 /\ n.todo = [window : Active(history, now), period : Periods]
         /\ \A v \in Workers \ {w} : job'[v] = job[v]
         /\ UNCHANGED <<now, history, touched, hourly, daily, missed>>
<1>1. job[w] \in Job /\ job[w].kind = "update" /\ job = [v \in Workers |-> job[v]]
  BY DEF TypeInv, update_line_locked
<1> DEFINE todo == [window : Active(history, now), period : Periods]
<1>2. \/ job' = [job EXCEPT ![w] = Idle]
      \/ job' = [job EXCEPT ![w].at = "asking", ![w].history = history, ![w].began = now, ![w].todo = todo]
  BY DEF update_line_locked, Close
<1> HIDE DEF todo
<1>3. CASE job' = [job EXCEPT ![w] = Idle]
  BY <1>1, <1>3 DEF update_line_locked
<1>4. CASE job' = [job EXCEPT ![w].at = "asking", ![w].history = history, ![w].began = now, ![w].todo = todo]
  <2>1. /\ job'[w] = [job[w] EXCEPT !.at = "asking", !.history = history, !.began = now, !.todo = todo]
        /\ \A v \in Workers \ {w} : job'[v] = job[v]
    BY ONLY <1>1, <1>4, w \in Workers
  <2>2. LET n == job'[w] IN
          /\ n.kind = "update" /\ n.at = "asking" /\ n.history = history /\ n.began = now /\ n.todo = todo
    BY ONLY <1>1, <2>1 DEF Job
  <2>3. UNCHANGED <<now, history, touched, hourly, daily, missed>>
    BY DEF update_line_locked
  <2> QED  BY <2>1, <2>2, <2>3 DEF todo
<1> QED  BY <1>2, <1>3, <1>4

LEMMA GetFields ==
  ASSUME TypeInv, NEW w \in Workers, NEW t \in Task, get_volumes(w, t)
  PROVE  /\ \E failing \in SUBSET Requests(w, t) :
              LET n == job'[w] IN
              /\ n.kind = job[w].kind /\ n.history = job[w].history /\ n.began = job[w].began
              /\ n.todo = job[w].todo /\ n.alone = job[w].alone /\ n.at = "storing"
              /\ n.hand = HandOf(w, t, failing)
              /\ n.unanswered <=> job[w].unanswered \/ failing # {}
              /\ touched' <=> touched \/ (failing # {} /\ job[w].kind = "init")
         /\ \A v \in Workers \ {w} : job'[v] = job[v]
         /\ UNCHANGED <<now, history, hourly, daily, missed>>
<1>1. job[w] \in Job /\ job = [v \in Workers |-> job[v]]
  BY DEF TypeInv, get_volumes
<1>2. PICK failing \in SUBSET Requests(w, t) :
        /\ job' = [job EXCEPT ![w].at = "storing",
                              ![w].hand = {s \in UNION {Answer(t.period, q[1], q[2]) : q \in Requests(w, t) \ failing} : Kept(w, t, s)},
                              ![w].unanswered = @ \/ failing # {}]
        /\ touched' = (touched \/ (failing # {} /\ job[w].kind = "init"))
  BY DEF get_volumes
<1> DEFINE hand == HandOf(w, t, failing)
           u == job[w].unanswered \/ failing # {}
<1>3. job' = [job EXCEPT ![w].at = "storing", ![w].hand = hand, ![w].unanswered = u]
  BY <1>2, Zenon DEF HandOf
<1> HIDE DEF hand, u
<1>4. /\ job'[w] = [job[w] EXCEPT !.at = "storing", !.hand = hand, !.unanswered = u]
      /\ \A v \in Workers \ {w} : job'[v] = job[v]
  BY ONLY <1>1, <1>3, w \in Workers
<1>5. LET n == job'[w] IN
        /\ n.kind = job[w].kind /\ n.history = job[w].history /\ n.began = job[w].began
        /\ n.todo = job[w].todo /\ n.alone = job[w].alone /\ n.at = "storing"
        /\ n.hand = hand /\ n.unanswered = u
  BY ONLY <1>1, <1>4 DEF Job
<1>6. UNCHANGED <<now, history, hourly, daily, missed>>
  BY DEF get_volumes
<1>7. touched' <=> touched \/ (failing # {} /\ job[w].kind = "init")  BY <1>2
<1> QED  BY <1>4, <1>5, <1>6, <1>7 DEF hand, u

LEMMA StoreFields ==
  ASSUME TypeInv, NEW w \in Workers, NEW t \in Task, store(w, t)
  PROVE  /\ LET n == job'[w] IN
              /\ n.kind = job[w].kind /\ n.history = job[w].history /\ n.began = job[w].began
              /\ n.todo = job[w].todo \ {t} /\ n.alone = job[w].alone /\ n.at = "asking"
              /\ n.unanswered = job[w].unanswered
         /\ \A v \in Workers \ {w} : job'[v] = Disturbed(w)[v]
         /\ UNCHANGED <<now, history, touched>>
<1>1. job[w] \in Job  BY DEF TypeInv, store
<1>2. Disturbed(w) = [v \in Workers |-> Disturbed(w)[v]] /\ Disturbed(w)[w] = job[w]  BY DEF Disturbed
<1> DEFINE D == Disturbed(w)
<1> HIDE DEF D
<1>3. job' = [D EXCEPT ![w].at = "asking", ![w].todo = @ \ {t}, ![w].hand = {}]
  BY DEF store, D
<1>4. D = [v \in Workers |-> D[v]] /\ D[w] = job[w]  BY <1>2 DEF D
<1>5. /\ job'[w] = [job[w] EXCEPT !.at = "asking", !.todo = job[w].todo \ {t}, !.hand = {}]
      /\ \A v \in Workers \ {w} : job'[v] = D[v]
  BY ONLY <1>3, <1>4, w \in Workers
<1>6. LET n == job'[w] IN
        /\ n.kind = job[w].kind /\ n.history = job[w].history /\ n.began = job[w].began
        /\ n.todo = job[w].todo \ {t} /\ n.alone = job[w].alone /\ n.at = "asking"
        /\ n.unanswered = job[w].unanswered
  BY ONLY <1>1, <1>5 DEF Job
<1>7. UNCHANGED <<now, history, touched>>  BY DEF store
<1> QED  BY <1>5, <1>6, <1>7 DEF D

(* ---- An archive nobody had his hand in ---- *)

\* What a job has in hand fits what is stored; an update has begun after the newest hour.
CalmOf(w) ==
  job[w] # Idle /\ job[w].at # "begun" =>
    /\ job[w].history = history
    /\ job[w].kind # "init" =>
         \A t \in job[w].todo :
           /\ t.window \in Active(job[w].history, job[w].began)
           /\ t.period = "hourly" => \A h \in Filled(hourly) : h < job[w].began
    /\ job[w].at = "storing" =>
         \A t \in Head(w) : t.period = "hourly" =>
           /\ Open(history, Filled(hourly) \cup job[w].hand)
           /\ \A h \in job[w].hand : h \in Hours /\ h < now

\* Whose archive is it: one job's at most.
Single == \A v, w \in Workers : job[v] # Idle /\ job[w] # Idle => v = w

Calm ==
  /\ Single
  /\ \A h \in Filled(hourly) : h < now
  /\ Open(history, Filled(hourly))
  /\ \A w \in Workers : CalmOf(w)

CalmInv == ~touched => Calm

\* A step that leaves the archive and the history leaves what is stored in order.
LEMMA CalmStays ==
  ASSUME TypeInv, Calm, UNCHANGED <<hourly, history>>, now' \in Int, now <= now'
  PROVE  /\ (\A h \in Filled(hourly) : h < now)'
         /\ Open(history, Filled(hourly))'
         /\ Filled(hourly)' = Filled(hourly)
<1>1. Filled(hourly)' = Filled(hourly)  BY DEF Filled
<1>2. ASSUME NEW h \in Filled(hourly) PROVE h < now'
  <2>1. h < now /\ h \in Hours  BY DEF Calm, Filled
  <2>2. h \in Int /\ now \in Int  BY <2>1, Bounds DEF TypeInv
  <2> QED  BY <2>1, <2>2
<1> QED  BY <1>1, <1>2 DEF Calm

\* A job that goes on asks for the same.
LEMMA HeadStays ==
  ASSUME NEW w, job'[w].todo = job[w].todo, job'[w].history = job[w].history
  PROVE  Head(w)' = Head(w)
BY DEF Head

LEMMA CalmGet ==
  ASSUME TypeInv, Calm, NEW w \in Workers, NEW t \in Task, get_volumes(w, t), ~touched'
  PROVE  Calm' /\ ~touched
<1> DEFINE H == job[w].history
<1>0. /\ job[w] # Idle /\ job[w].at = "asking" /\ t \in Head(w)
      /\ now' \in Int /\ now <= now' /\ now' = now /\ now \in Int
      /\ UNCHANGED <<hourly, history>>
  <2>1. UNCHANGED <<now, hourly, history>>  BY GetFields
  <2>2. now \in Int  BY DEF TypeInv
  <2>3. job[w] # Idle /\ job[w].at = "asking" /\ t \in Head(w)  BY DEF get_volumes
  <2> QED  BY <2>1, <2>2, <2>3
<1>1. PICK failing \in SUBSET Requests(w, t) :
        LET n == job'[w] IN
        /\ n.kind = job[w].kind /\ n.history = job[w].history /\ n.began = job[w].began
        /\ n.todo = job[w].todo /\ n.at = "storing"
        /\ n.hand = HandOf(w, t, failing)
        /\ touched' <=> touched \/ (failing # {} /\ job[w].kind = "init")
  BY GetFields
<1>2. \A v \in Workers \ {w} : job'[v] = job[v]  BY GetFields
<1>3. Single'
  BY <1>0, <1>2 DEF Calm, Single
<1>4. \A v \in Workers \ {w} : job'[v] = Idle
  BY <1>0, <1>2 DEF Calm, Single
<1>5. Head(w)' = Head(w)  BY <1>1, HeadStays
<1>6. H = history /\ CalmOf(w)
  BY <1>0 DEF Calm, CalmOf
<1>7. /\ (\A h \in Filled(hourly) : h < now)' /\ Open(history, Filled(hourly))'
      /\ Filled(hourly)' = Filled(hourly)
  BY <1>0, CalmStays
<1>8. Open(H, Filled(hourly))  BY <1>6 DEF Calm
<1>9. ASSUME NEW u \in Head(w), u.period = "hourly"
      PROVE  /\ Open(H, Filled(hourly) \cup HandOf(w, t, failing))
             /\ \A h \in HandOf(w, t, failing) : h \in Hours /\ h < now
  <2>1. u = t  BY <1>0, OneHead
  <2>2. CASE job[w].kind = "init"
    <3>1. failing = {}  BY <1>1, <2>2
    <3>2. /\ Open(H, HandOf(w, t, failing))
          /\ \A h \in HandOf(w, t, failing) : h \in Hours /\ h < now
      BY <1>0, <1>9, <2>1, <2>2, <3>1, InitHand
    <3> HIDE DEF H
    <3> QED  BY <1>8, <3>2 DEF Open
  <2>3. CASE job[w].kind # "init"
    <3>1. t \in job[w].todo  BY <1>0, TaskType
    <3>2. /\ t.window \in Active(H, job[w].began)
          /\ \A h \in Filled(hourly) : h < job[w].began
      BY <1>0, <1>6, <1>9, <2>1, <2>3, <3>1 DEF CalmOf
    <3> QED  BY <1>0, <1>8, <1>9, <2>1, <2>3, <3>2, UpdateHand
  <2> QED  BY <2>2, <2>3
<1>10. CalmOf(w)'
  <2>1. job'[w].history = history'  BY <1>0, <1>1, <1>6
  <2>2. job'[w].kind # "init" =>
          \A u \in job'[w].todo :
            /\ u.window \in Active(job'[w].history, job'[w].began)
            /\ u.period = "hourly" => \A h \in Filled(hourly) : h < job'[w].began
    BY <1>0, <1>1, <1>6 DEF CalmOf
  <2>3. \A u \in Head(w) : u.period = "hourly" =>
          /\ Open(history, Filled(hourly) \cup job'[w].hand)
          /\ \A h \in job'[w].hand : h \in Hours /\ h < now'
    <3> HIDE DEF H
    <3> QED  BY <1>0, <1>1, <1>6, <1>9
  <2> QED  BY <1>0, <1>5, <1>7, <2>1, <2>2, <2>3 DEF CalmOf
<1>11. \A v \in Workers : CalmOf(v)'
  BY <1>4, <1>10 DEF CalmOf
<1> QED  BY <1>1, <1>3, <1>7, <1>11 DEF Calm

LEMMA CalmStore ==
  ASSUME TypeInv, Calm, NEW w \in Workers, NEW t \in Task, store(w, t)
  PROVE  Calm'
<1> DEFINE H == job[w].history
           n == job'[w]
<1>0. job[w] # Idle /\ job[w].at = "storing" /\ t \in Head(w)
  BY DEF store
<1>1. /\ n.kind = job[w].kind /\ n.history = H /\ n.began = job[w].began
      /\ n.todo = job[w].todo \ {t} /\ n.at = "asking"
      /\ UNCHANGED <<now, history, touched>>
  BY StoreFields
<1>2. \A v \in Workers \ {w} : job'[v] = Idle
  <2>1. \A v \in Workers \ {w} : job[v] = Idle  BY <1>0 DEF Calm, Single
  <2>2. \A v \in Workers \ {w} : Disturbed(w)[v] = Idle  BY <2>1, DisturbedFields
  <2>3. \A v \in Workers \ {w} : job'[v] = Disturbed(w)[v]  BY StoreFields
  <2> QED  BY <2>2, <2>3
<1>3. Single'
  BY <1>2 DEF Single
<1>4. t \in job[w].todo /\ t.period \in Periods /\ t \in Task /\ H \in Histories
  BY <1>0, TaskType
<1>5. H = history /\ CalmOf(w)
  BY <1>0 DEF Calm, CalmOf
<1>6. /\ t.period # "hourly" => hourly' = hourly
      /\ t.period = "hourly" => Filled(hourly)' = Filled(hourly) \cup (job[w].hand \cap Hours)
  <2>1. upsert_records(t.period, job[w].hand, Device(w, t))  BY DEF store
  <2>2. CASE t.period # "hourly"
    BY <2>1, <2>2 DEF upsert_records
  <2>3. CASE t.period = "hourly"
    <3>1. hourly' = WithHours(job[w].hand, Device(w, t))  BY <2>1, <2>3 DEF upsert_records
    <3>2. Device(w, t) # 0  BY <1>0, DeviceType
    <3> QED  BY <2>3, <3>1, <3>2 DEF Filled, WithHours
  <2> QED  BY <2>2, <2>3
<1>7. (\A h \in Filled(hourly) : h < now)' /\ Open(history, Filled(hourly))'
  <2>1. CASE t.period # "hourly"
    <3>1. now' \in Int /\ now <= now'  BY <1>1 DEF TypeInv
    <3> QED  BY <1>1, <1>6, <2>1, <3>1, CalmStays
  <2>2. CASE t.period = "hourly"
    <3>1. /\ Open(history, Filled(hourly) \cup job[w].hand)
          /\ \A h \in job[w].hand : h \in Hours /\ h < now
      BY <1>0, <1>5, <2>2 DEF CalmOf
    <3>2. job[w].hand \cap Hours = job[w].hand  BY <3>1
    <3>3. Filled(hourly)' = Filled(hourly) \cup job[w].hand  BY <1>6, <2>2, <3>2
    <3>4. Open(history, Filled(hourly))'  BY <1>1, <3>1, <3>3
    <3> QED  BY <1>1, <3>1, <3>3, <3>4 DEF Calm
  <2> QED  BY <2>1, <2>2
<1>8. ASSUME n.kind # "init", NEW u \in n.todo
      PROVE  /\ u.window \in Active(n.history, n.began)
             /\ u.period = "hourly" => \A h \in Filled(hourly)' : h < n.began
  <2>1. u \in job[w].todo /\ u # t /\ job[w].kind # "init"  BY <1>1, <1>8
  <2>2. /\ u.window \in Active(H, job[w].began) /\ t.window \in Active(H, job[w].began)
        /\ u.period = "hourly" => \A h \in Filled(hourly) : h < job[w].began
    BY <1>0, <1>4, <1>5, <2>1 DEF CalmOf
  <2>3. u \in Task
    <3>1. job[w] \in Job  BY <1>0 DEF TypeInv
    <3> QED  BY <2>1, <3>1 DEF Job
  <2>4. u.window = t.window
    <3> HIDE DEF H
    <3> QED  BY <1>4, <2>2, OneActive
  <2>5. u.period # t.period  BY <1>4, <2>1, <2>3, <2>4 DEF Task
  <2>6. u.period = "hourly" => Filled(hourly)' = Filled(hourly)
    BY <1>6, <2>5 DEF Filled
  <2> QED  BY <1>1, <2>2, <2>6
<1>9. \A v \in Workers : CalmOf(v)'
  BY <1>1, <1>2, <1>5, <1>8 DEF CalmOf
<1> QED  BY <1>3, <1>7, <1>9 DEF Calm

\* Until another hand than its one job's is in it, the archive stays in order.
LEMMA CalmStep ==
  ASSUME TypeInv, TypeInv', CalmInv, [Next]_vars
  PROVE  CalmInv'
<1> SUFFICES ASSUME ~touched' PROVE Calm'
  BY DEF CalmInv
<1>0. now \in Int /\ now' \in Int /\ job \in [Workers -> {Idle} \cup Job]  BY DEF TypeInv
<1>1. ASSUME NEW w \in Workers, NEW kind \in {"init", "update"}, acquire(w, kind) PROVE Calm'
  <2> DEFINE j == [kind |-> kind, at |-> "begun", history |-> history, began |-> now,
                   todo |-> {}, hand |-> {}, alone |-> TRUE, unanswered |-> FALSE]
  <2>1. ~touched /\ Working = {} /\ job' = [job EXCEPT ![w] = j] /\ UNCHANGED <<now, history, hourly>>
    BY <1>1 DEF acquire
  <2>2. job'[w].at = "begun" /\ \A v \in Workers \ {w} : job'[v] = Idle
    BY <1>0, <2>1 DEF Working
  <2>3. Calm  BY <2>1 DEF CalmInv
  <2>4. Single'  BY <2>2 DEF Single
  <2>5. \A v \in Workers : CalmOf(v)'  BY <2>2 DEF CalmOf
  <2>6. now <= now'  BY <1>0, <2>1
  <2>7. (\A h \in Filled(hourly) : h < now)' /\ Open(history, Filled(hourly))'
    BY <1>0, <2>1, <2>3, <2>6, CalmStays
  <2> QED  BY <2>4, <2>5, <2>7 DEF Calm
<1>2. ASSUME NEW w \in Workers, init_line_locked(w) PROVE Calm'
  <2>1. /\ job'[w].kind = "init" /\ job'[w].at = "asking" /\ job'[w].history = history
        /\ hourly' = [h \in Hours |-> 0] /\ UNCHANGED <<history, touched>>
    BY <1>2, InitFields DEF Wiped
  <2>2. Calm /\ job[w] # Idle  BY <1>2, <2>1 DEF CalmInv, init_line_locked
  <2>3. \A v \in Workers \ {w} : job'[v] = Idle
    <3>1. \A v \in Workers \ {w} : job[v] = Idle  BY <2>2 DEF Calm, Single
    <3>2. \A v \in Workers \ {w} : Disturbed(w)[v] = Idle  BY <3>1, DisturbedFields
    <3>3. \A v \in Workers \ {w} : job'[v] = Disturbed(w)[v]  BY <1>2, InitFields
    <3> QED  BY <3>2, <3>3
  <2>4. Single'  BY <2>3 DEF Single
  <2>5. Filled(hourly)' = {}  BY <2>1 DEF Filled
  <2>6. \A v \in Workers : CalmOf(v)'  BY <2>1, <2>3 DEF CalmOf
  <2>7. (\A h \in Filled(hourly) : h < now)' /\ Open(history, Filled(hourly))'
    BY <2>5 DEF Open
  <2> QED  BY <2>4, <2>6, <2>7 DEF Calm
<1>3. ASSUME NEW w \in Workers, update_line_locked(w) PROVE Calm'
  <2>1. /\ \/ job'[w] = Idle
           \/ LET n == job'[w] IN
                /\ n.kind = "update" /\ n.at = "asking" /\ n.history = history /\ n.began = now
                /\ n.todo = [window : Active(history, now), period : Periods]
        /\ UNCHANGED <<now, history, touched, hourly>>
    BY <1>3, UpdateFields
  <2>2. Calm /\ job[w] # Idle  BY <1>3, <2>1 DEF CalmInv, update_line_locked
  <2>3. \A v \in Workers \ {w} : job'[v] = Idle
    BY <1>3, <2>2, UpdateFields DEF Calm, Single
  <2>4. Single'  BY <2>3 DEF Single
  <2>5. now <= now'  BY <1>0, <2>1
  <2>6. /\ (\A h \in Filled(hourly) : h < now)' /\ Open(history, Filled(hourly))'
        /\ Filled(hourly)' = Filled(hourly)
    BY <1>0, <2>1, <2>2, <2>5, CalmStays
  <2>7. CalmOf(w)'
    <3>1. \A h \in Filled(hourly) : h < now  BY <2>2 DEF Calm
    <3>2. CASE job'[w] = Idle  BY <3>2 DEF CalmOf
    <3>3. CASE job'[w] # Idle
      <4>1. /\ job'[w].at = "asking" /\ job'[w].history = history /\ job'[w].began = now
            /\ job'[w].todo = [window : Active(history, now), period : Periods]
        BY <2>1, <3>3
      <4>2. \A t \in job'[w].todo : t.window \in Active(history, now)  BY <4>1
      <4> QED  BY <2>1, <2>6, <3>1, <4>1, <4>2 DEF CalmOf
    <3> QED  BY <3>2, <3>3
  <2>8. \A v \in Workers : CalmOf(v)'  BY <2>3, <2>7 DEF CalmOf
  <2> QED  BY <2>4, <2>6, <2>8 DEF Calm
<1>4. ASSUME NEW w \in Workers, NEW t \in Task, get_volumes(w, t) PROVE Calm'
  <2>1. touched => touched'  BY <1>4 DEF get_volumes
  <2> QED  BY <1>4, <2>1, CalmGet DEF CalmInv
<1>5. ASSUME NEW w \in Workers, NEW t \in Task, store(w, t) PROVE Calm'
  <2>1. touched' = touched  BY <1>5 DEF store
  <2> QED  BY <1>5, <2>1, CalmStore DEF CalmInv
<1>6. ASSUME NEW w \in Workers, finalize(w) \/ fail(w) \/ die(w) PROVE Calm'
  <2>1. job' = [job EXCEPT ![w] = Idle] /\ UNCHANGED <<now, history, touched, hourly>> /\ job[w] # Idle
    BY <1>6 DEF finalize, fail, die, Close
  <2>2. Calm  BY <2>1 DEF CalmInv
  <2>3. \A v \in Workers : job'[v] = Idle
    BY <1>0, <2>1, <2>2 DEF Calm, Single
  <2>4. Single'  BY <2>3 DEF Single
  <2>5. now <= now'  BY <1>0, <2>1
  <2>6. (\A h \in Filled(hourly) : h < now)' /\ Open(history, Filled(hourly))'
    BY <1>0, <2>1, <2>2, <2>5, CalmStays
  <2>7. \A v \in Workers : CalmOf(v)'  BY <2>3 DEF CalmOf
  <2> QED  BY <2>4, <2>6, <2>7 DEF Calm
<1>7. CASE tick \/ (\E range \in PurgeRanges : refuse_busy(range)) \/ UNCHANGED vars
  <2>1. now <= now' /\ UNCHANGED <<history, job, hourly, touched>>
    <3>1. CASE tick  BY <1>0, <3>1 DEF tick
    <3>2. CASE (\E range \in PurgeRanges : refuse_busy(range)) \/ UNCHANGED vars
      <4>1. UNCHANGED <<now, history, job, hourly, touched>>  BY <3>2 DEF refuse_busy, vars
      <4> QED  BY <1>0, <4>1
    <3> QED  BY <1>7, <3>1, <3>2
  <2>2. Calm  BY <2>1 DEF CalmInv
  <2>3. Single'  BY <2>1, <2>2 DEF Calm, Single
  <2>4. /\ (\A h \in Filled(hourly) : h < now)' /\ Open(history, Filled(hourly))'
        /\ Filled(hourly)' = Filled(hourly)
    BY <1>0, <2>1, <2>2, CalmStays
  <2>5. ASSUME NEW v \in Workers PROVE CalmOf(v)'
    <3>1. CalmOf(v) /\ Head(v)' = Head(v)  BY <2>1, <2>2, HeadStays DEF Calm
    <3>2. \A h \in Hours : h < now => h < now'
      <4>1. \A h \in Hours : h \in Int  BY Bounds
      <4> QED  BY <1>0, <2>1, <4>1
    <3> QED  BY <2>1, <2>4, <3>1, <3>2 DEF CalmOf
  <2> QED  BY <2>3, <2>4, <2>5 DEF Calm
<1>8. CASE \/ \E w \in Workers, t \in Task : \E i \in DOMAIN history : push_and_store(w, t, i)
           \/ \E i \in DOMAIN history, period \in Periods : push_data(i, period)
           \/ \E h \in Histories : update(h)
           \/ purge
  BY <1>8 DEF push_and_store, push_data, update, purge
<1> QED
  BY <1>1, <1>2, <1>3, <1>4, <1>5, <1>6, <1>7, <1>8 DEF Next

LEMMA CalmInit == Init => CalmInv
BY DEF Init, CalmInv, Calm, Single, CalmOf, Filled, Open

\* Within the service of one corrector no hour is missing below a stored one, whatever jobs
\* begin, fail, die and are repeated: an initialization asks in pieces that leave nothing out
\* (init_line_locked, chunk_windows), an update from the newest hour stored
\* (update_line_locked), and its hours are of the stretch of the device in force.
THEOREM NoHole == Spec => []LineHasNoHole
<1>1. TypeInv /\ CalmInv => LineHasNoHole
  <2> SUFFICES ASSUME TypeInv, CalmInv, ~touched, NEW i \in DOMAIN history, NEW g \in Hours, NEW h \in Hours,
                      h < g, Covers(history, i, h), Covers(history, i, g), hourly[g] # 0
               PROVE  hourly[h] # 0
    BY DEF LineHasNoHole
  <2>1. g \in Int /\ h \in Int /\ history \in Histories  BY Bounds DEF TypeInv
  <2>2. InZone(history, i, h) /\ InZone(history, i, g)  BY <2>1, CoversZone
  <2>3. Open(history, Filled(hourly)) /\ g \in Filled(hourly)  BY DEF CalmInv, Calm, Filled
  <2>4. h \in Filled(hourly)  BY <2>2, <2>3 DEF Open
  <2> QED  BY <2>4 DEF Filled
<1> QED  BY <1>1, TypeInit, TypeStep, CalmInit, CalmStep, PTL DEF Spec

(* ---- What an initialization brings ---- *)

LEMMA DivGrows ==
  ASSUME NEW L \in Nat \ {0}, NEW x \in Int, NEW y \in Int, x <= y
  PROVE  x \div L \in Int /\ y \div L \in Int /\ x \div L <= y \div L
<1> DEFINE p == x \div L
           q == y \div L
           r == x % L
           s == y % L
<1>1. /\ p \in Int /\ r \in 0 .. L - 1 /\ x = L * p + r /\ L * p \in Int
      /\ q \in Int /\ s \in 0 .. L - 1 /\ y = L * q + s /\ L * q \in Int
  OBVIOUS
<1> HIDE DEF p, q, r, s
<1>2. ASSUME p >= q + 1 PROVE FALSE
  <2>1. L * p >= L * (q + 1)  BY <1>1, <1>2
  <2>2. L * (q + 1) = L * q + L  BY <1>1
  <2> QED  BY <1>1, <2>1, <2>2
<1>3. p <= q  BY <1>1, <1>2
<1> QED  BY <1>1, <1>3 DEF p, q

\* A gas day opens at its own date.
LEMMA OpeningDate ==
  ASSUME NEW k \in Int
  PROVE  Opening(k) \in Int /\ Opening(k) \div DayLength = k
<1> DEFINE L == DayLength
           c == ContractHour
           q == Opening(k) \div L
           r == Opening(k) % L
<1>1. L \in Nat \ {0} /\ c \in 0 .. L - 1 /\ L * k \in Int  OBVIOUS
<1>2. Opening(k) = L * k + c /\ Opening(k) \in Int  BY <1>1 DEF Opening
<1>3. q \in Int /\ r \in 0 .. L - 1 /\ Opening(k) = L * q + r /\ L * q \in Int
  BY <1>1, <1>2
<1> HIDE DEF q, r, L, c
<1>4. ASSUME q >= k + 1 PROVE FALSE
  <2>1. L * q >= L * (k + 1)  BY <1>1, <1>3, <1>4
  <2>2. L * (k + 1) = L * k + L  BY <1>1
  <2> QED  BY <1>1, <1>2, <1>3, <2>1, <2>2
<1>5. ASSUME q <= k - 1 PROVE FALSE
  <2>1. L * q <= L * (k - 1)  BY <1>1, <1>3, <1>5
  <2>2. L * (k - 1) = L * k - L  BY <1>1
  <2> QED  BY <1>1, <1>2, <1>3, <2>1, <2>2
<1>6. q = k  BY <1>3, <1>4, <1>5
<1> QED  BY <1>2, <1>6 DEF q, L

\* The days an initialization brings are those that open in the window, and none that
\* opened before the beginning of the job is left out.
LEMMA InitDays ==
  ASSUME TypeInv, NEW w \in Workers, job[w] # Idle, NEW t \in Head(w), job[w].kind = "init",
         t.period # "hourly"
  PROVE  /\ \A failing \in SUBSET Requests(w, t) : \A k \in HandOf(w, t, failing) :
              k \in Days /\ Covers(job[w].history, t.window, Opening(k))
         /\ job[w].began <= now =>
              \A k \in Days : Covers(job[w].history, t.window, Opening(k)) /\ Opening(k) < job[w].began =>
                k \in HandOf(w, t, {})
<1> DEFINE H == job[w].history
           i == t.window
<1>0. job[w].began \in Int /\ now \in Int
  BY TaskType
<1>1. ASSUME NEW failing \in SUBSET Requests(w, t), NEW k
      PROVE  k \in HandOf(w, t, failing) <=>
               /\ Covers(H, i, Opening(k))
               /\ \E q \in Requests(w, t) \ failing : k \in Answer(t.period, q[1], q[2])
  <2>1. Kept(w, t, k) <=> Covers(H, i, Opening(k))
    BY DEF Kept, attribution_stamp
  <2>2. k \in HandOf(w, t, failing) <=>
          Kept(w, t, k) /\ \E q \in Requests(w, t) \ failing : k \in Answer(t.period, q[1], q[2])
    BY Zenon DEF HandOf
  <2> QED  BY <2>1, <2>2
<1>2. ASSUME NEW failing \in SUBSET Requests(w, t), NEW k \in HandOf(w, t, failing)
      PROVE  k \in Days /\ Covers(H, i, Opening(k))
  <2>1. PICK q \in Requests(w, t) : k \in Answer(t.period, q[1], q[2])  BY <1>1
  <2>2. k \in Days  BY <2>1 DEF Answer
  <2> QED  BY <1>1, <2>2
<1>3. ASSUME job[w].began <= now, NEW k \in Days, Covers(H, i, Opening(k)), Opening(k) < job[w].began
      PROVE  k \in HandOf(w, t, {})
  <2>1. k \in Int  BY Bounds
  <2>2. Opening(k) \in Int /\ Opening(k) \div DayLength = k  BY <2>1, OpeningDate
  <2>3. PICK p \in Requests(w, t) : p[1] \in Int /\ p[2] \in Int /\ p[1] <= Opening(k) /\ Opening(k) < p[2]
    BY <1>3, <2>2, InitRequests
  <2>4. Opening(k) <= p[2] /\ Opening(k) < now
    <3> HIDE DEF H
    <3> QED  BY <1>0, <1>3, <2>2, <2>3
  <2>5. p[1] \div DayLength <= k /\ k <= p[2] \div DayLength
        /\ p[1] \div DayLength \in Int /\ p[2] \div DayLength \in Int
    BY <2>2, <2>3, <2>4, DivGrows
  <2>6. k \in Answer(t.period, p[1], p[2])
    <3>1. k \in p[1] \div DayLength .. p[2] \div DayLength
      <4> DEFINE a == p[1] \div DayLength
                 b == p[2] \div DayLength
      <4>1. a \in Int /\ b \in Int /\ a <= k /\ k <= b  BY <2>5
      <4> HIDE DEF a, b
      <4>2. k \in a .. b  BY <2>1, <4>1
      <4> QED  BY <4>2 DEF a, b
    <3> QED  BY <1>3, <2>4, <3>1 DEF Answer
  <2> QED  BY <1>1, <1>3, <2>6
<1> QED  BY <1>2, <1>3

(* ---- An initialization that has the archive to itself ---- *)

ToCome(j, i, period) == j.unanswered \/ [window |-> i, period |-> period] \in j.todo

\* The hours of a window are its corrector's, and all there once they are stored.
ExactHours(j, hr) ==
  \A i \in DOMAIN j.history : \A h \in Hours : Covers(j.history, i, h) =>
    /\ hr[h] \in {0, j.history[i].device}
    /\ h < j.began /\ ~ToCome(j, i, "hourly") => hr[h] = j.history[i].device

ExactDays(j, dl) ==
  \A i \in DOMAIN j.history : \A k \in Days : Covers(j.history, i, Opening(k)) =>
    /\ dl[k].fix = "none" => dl[k].volume \in {0, j.history[i].device}
    /\ Opening(k) < j.began /\ ~ToCome(j, i, "daily") => dl[k] # NoRow

\* What is in hand is of the window, and all of it when every request was answered.
InHand(j, t) ==
  /\ t.period = "hourly" =>
       /\ \A h \in j.hand : h \in Hours /\ Covers(j.history, t.window, h)
       /\ ~j.unanswered => \A h \in Hours : Covers(j.history, t.window, h) /\ h < j.began => h \in j.hand
  /\ t.period = "daily" =>
       /\ \A k \in j.hand : k \in Days /\ Covers(j.history, t.window, Opening(k))
       /\ ~j.unanswered => \A k \in Days : Covers(j.history, t.window, Opening(k)) /\ Opening(k) < j.began => k \in j.hand

Rebuilding(j) == j # Idle /\ j.kind = "init" /\ j.at # "begun" /\ j.alone

ExactOf(w) ==
  Rebuilding(job[w]) =>
    /\ job[w].began <= now
    /\ ExactHours(job[w], hourly)
    /\ ExactDays(job[w], daily)
    /\ job[w].at = "storing" => \A t \in Head(w) : InHand(job[w], t)

ExactInv == \A w \in Workers : ExactOf(w)

\* A step that leaves the job and the archive.
LEMMA ExactStays ==
  ASSUME TypeInv, NEW w \in Workers, ExactOf(w), job'[w] = job[w], UNCHANGED <<hourly, daily>>,
         now' \in Int, now <= now'
  PROVE  ExactOf(w)'
<1>1. Head(w)' = Head(w)  BY HeadStays
<1>2. ASSUME Rebuilding(job[w]) PROVE job[w].began <= now'
  <2>1. job[w] \in Job /\ now \in Int /\ job[w].began <= now  BY <1>2 DEF TypeInv, ExactOf, Rebuilding
  <2>2. job[w].began \in Int  BY <2>1 DEF Job
  <2> QED  BY <2>1, <2>2
<1> QED  BY <1>1, <1>2 DEF ExactOf

LEMMA ExactWipe ==
  ASSUME TypeInv, NEW w \in Workers, init_line_locked(w)
  PROVE  ExactOf(w)'
<1>1. LET n == job'[w] IN
        /\ n.at = "asking" /\ n.history = history /\ n.began = now
        /\ n.todo = [window : DOMAIN history, period : Periods]
  BY InitFields
<1>2. hourly' = [h \in Hours |-> 0] /\ daily' = [k \in Days |-> NoRow] /\ now' = now /\ now \in Int
  BY InitFields DEF Wiped, TypeInv
<1>3. \A i \in DOMAIN history : ToCome(job'[w], i, "hourly") /\ ToCome(job'[w], i, "daily")
  BY <1>1 DEF ToCome, Periods
<1>4. ExactHours(job'[w], hourly')  BY <1>1, <1>2, <1>3 DEF ExactHours
<1>5. ExactDays(job'[w], daily')  BY <1>1, <1>2, <1>3 DEF ExactDays, NoRow
<1>6. job'[w].began <= now'  BY <1>1, <1>2
<1> QED  BY <1>1, <1>4, <1>5, <1>6 DEF ExactOf

LEMMA ExactGet ==
  ASSUME TypeInv, NEW w \in Workers, ExactOf(w), NEW t \in Task, get_volumes(w, t)
  PROVE  ExactOf(w)'
<1> SUFFICES ASSUME Rebuilding(job'[w]) PROVE ExactOf(w)'
  BY DEF ExactOf
<1> DEFINE j == job[w]
           n == job'[w]
<1>0. j # Idle /\ j.at = "asking" /\ t \in Head(w)  BY DEF get_volumes
<1>1. PICK failing \in SUBSET Requests(w, t) :
        /\ n.kind = j.kind /\ n.history = j.history /\ n.began = j.began
        /\ n.todo = j.todo /\ n.alone = j.alone /\ n.at = "storing"
        /\ n.hand = HandOf(w, t, failing)
        /\ n.unanswered <=> j.unanswered \/ failing # {}
  BY GetFields
<1>2. UNCHANGED <<now, hourly, daily>>  BY GetFields
<1>3. Rebuilding(j)  BY <1>0, <1>1 DEF Rebuilding
<1>4. j.kind = "init" /\ j.began <= now /\ ExactHours(j, hourly) /\ ExactDays(j, daily)
  BY <1>3 DEF ExactOf, Rebuilding
<1>5. Head(w)' = Head(w)  BY <1>1, HeadStays
<1>6. \A i, period : ToCome(j, i, period) => ToCome(n, i, period)
  BY <1>1 DEF ToCome
<1>7. ExactHours(n, hourly')  BY <1>1, <1>2, <1>4, <1>6 DEF ExactHours
<1>8. ExactDays(n, daily')  BY <1>1, <1>2, <1>4, <1>6 DEF ExactDays
<1>9. ASSUME NEW u \in Head(w) PROVE InHand(n, u)
  <2>1. u = t  BY <1>0, OneHead
  <2>2. CASE t.period = "hourly"
    <3>1. /\ \A s \in n.hand : s \in Hours /\ Covers(j.history, t.window, s)
          /\ failing = {} => \A x \in Hours : Covers(j.history, t.window, x) /\ x < j.began => x \in n.hand
      <4>1. /\ \A s \in HandOf(w, t, failing) : s \in Hours /\ Covers(job[w].history, t.window, s)
            /\ \A x \in Hours : Covers(job[w].history, t.window, x) /\ x < job[w].began => x \in HandOf(w, t, {})
        BY <1>0, <1>4, <2>2, InitHand
      <4> QED  BY <1>1, <4>1
    <3> HIDE DEF j, n
    <3> QED  BY <1>1, <2>1, <2>2, <3>1 DEF InHand
  <2>3. CASE t.period # "hourly"
    <3>1. /\ \A s \in n.hand : s \in Days /\ Covers(j.history, t.window, Opening(s))
          /\ failing = {} =>
               \A x \in Days : Covers(j.history, t.window, Opening(x)) /\ Opening(x) < j.began => x \in n.hand
      <4>1. /\ \A s \in HandOf(w, t, failing) : s \in Days /\ Covers(job[w].history, t.window, Opening(s))
            /\ \A x \in Days : Covers(job[w].history, t.window, Opening(x)) /\ Opening(x) < job[w].began =>
                 x \in HandOf(w, t, {})
        BY <1>0, <1>4, <2>3, InitDays
      <4> QED  BY <1>1, <4>1
    <3> HIDE DEF j, n
    <3> QED  BY <1>1, <2>1, <2>3, <3>1 DEF InHand
  <2> QED  BY <2>2, <2>3
<1>10. n.began <= now'
  <2> HIDE DEF j, n
  <2> QED  BY <1>1, <1>2, <1>4
<1> QED  BY <1>5, <1>7, <1>8, <1>9, <1>10 DEF ExactOf

\* Two windows share no moment.
LEMMA OneWindow ==
  ASSUME NEW H \in Histories, NEW i \in DOMAIN H, NEW k \in DOMAIN H, NEW x \in Int,
         Covers(H, i, x), Covers(H, k, x)
  PROVE  i = k
BY CoversZone, OneZone

\* A repair turns a day into the sum of its hours or leaves it.
LEMMA RepairKeeps ==
  ASSUME NEW dl, NEW hr, NEW days, NEW k \in Days
  PROVE  repair_days(dl, hr, days)[k] = dl[k] \/ repair_days(dl, hr, days)[k].fix = "hours"
<1>1. repair_days(dl, hr, days)[k] =
        IF k \in days /\ dl[k].fix # "none" /\ Complete(hr, k)
        THEN [fix |-> "hours", volume |-> VolumeOf(hr, k)] ELSE dl[k]
  BY RepairOf
<1> QED  BY <1>1

LEMMA ExactStore ==
  ASSUME TypeInv, NEW w \in Workers, ExactOf(w), NEW t \in Task, store(w, t)
  PROVE  ExactOf(w)'
<1> SUFFICES ASSUME Rebuilding(job'[w]) PROVE ExactOf(w)'
  BY DEF ExactOf
<1> DEFINE j == job[w]
           n == job'[w]
           H == job[w].history
           d == Device(w, t)
<1>0. j # Idle /\ j.at = "storing" /\ t \in Head(w)  BY DEF store
<1>1. /\ n.kind = j.kind /\ n.history = H /\ n.began = j.began
      /\ n.todo = j.todo \ {t} /\ n.alone = j.alone /\ n.at = "asking"
      /\ n.unanswered = j.unanswered
      /\ now' = now
  BY StoreFields
<1>2. Rebuilding(j)  BY <1>0, <1>1 DEF Rebuilding
<1>3. j.began <= now /\ ExactHours(j, hourly) /\ ExactDays(j, daily) /\ InHand(j, t)
  BY <1>0, <1>2 DEF ExactOf
<1>4. H \in Histories /\ t.window \in DOMAIN H /\ t \in j.todo /\ t.period \in Periods /\ t \in Task
  BY <1>0, TaskType
<1>5. d = H[t.window].device /\ d # 0  BY <1>0, DeviceType DEF Device
<1>6. upsert_records(t.period, j.hand, d)  BY DEF store
<1>7. ASSUME NEW i, NEW period, ~ToCome(n, i, period)
      PROVE  \/ ~ToCome(j, i, period)
             \/ ~j.unanswered /\ t.window = i /\ t.period = period
  <2>1. ~j.unanswered /\ [window |-> i, period |-> period] \notin j.todo \ {t}
    BY <1>1, <1>7 DEF ToCome
  <2> QED  BY <2>1 DEF ToCome
<1> HIDE DEF j, n, H, d
<1>8. ExactHours(n, hourly')
  <2> SUFFICES ASSUME NEW i \in DOMAIN H, NEW h \in Hours, Covers(H, i, h)
               PROVE  /\ hourly'[h] \in {0, H[i].device}
                      /\ h < j.began /\ ~ToCome(n, i, "hourly") => hourly'[h] = H[i].device
    BY <1>1 DEF ExactHours
  <2>1. /\ hourly[h] \in {0, H[i].device}
        /\ h < j.began /\ ~ToCome(j, i, "hourly") => hourly[h] = H[i].device
    BY <1>3 DEF ExactHours, j, H
  <2>2. CASE t.period = "hourly"
    <3>1. hourly' = WithHours(j.hand, d)  BY <1>6, <2>2 DEF upsert_records
    <3>2. /\ \A x \in j.hand : x \in Hours /\ Covers(H, t.window, x)
          /\ ~j.unanswered => \A x \in Hours : Covers(H, t.window, x) /\ x < j.began => x \in j.hand
      BY <1>3, <2>2 DEF InHand, j, H
    <3>3. h \in j.hand => i = t.window
      <4>1. h \in Int  BY Bounds
      <4> QED  BY <1>4, <3>2, <4>1, OneWindow
    <3>4. hourly'[h] = IF h \in j.hand THEN d ELSE hourly[h]  BY <3>1 DEF WithHours
    <3>5. CASE h \in j.hand  BY <1>5, <3>3, <3>4, <3>5
    <3>6. CASE h \notin j.hand
      <4>1. h < j.began /\ ~ToCome(n, i, "hourly") => ~ToCome(j, i, "hourly")
        BY <1>7, <3>2, <3>6
      <4> QED  BY <2>1, <3>4, <3>6, <4>1
    <3> QED  BY <3>5, <3>6
  <2>3. CASE t.period # "hourly"
    <3>1. hourly' = hourly  BY <1>6, <2>3 DEF upsert_records
    <3> QED  BY <1>7, <2>1, <2>3, <3>1
  <2> QED  BY <2>2, <2>3
<1>9. ExactDays(n, daily')
  <2> SUFFICES ASSUME NEW i \in DOMAIN H, NEW k \in Days, Covers(H, i, Opening(k))
               PROVE  /\ daily'[k].fix = "none" => daily'[k].volume \in {0, H[i].device}
                      /\ Opening(k) < j.began /\ ~ToCome(n, i, "daily") => daily'[k] # NoRow
    BY <1>1 DEF ExactDays
  <2>1. /\ daily[k].fix = "none" => daily[k].volume \in {0, H[i].device}
        /\ Opening(k) < j.began /\ ~ToCome(j, i, "daily") => daily[k] # NoRow
    BY <1>3 DEF ExactDays, j, H
  <2>2. CASE t.period = "hourly"
    <3>1. daily' = repair_days(daily, WithHours(j.hand, d), repair_after("hourly", j.hand))
      BY <1>6, <2>2 DEF upsert_records
    <3>2. daily'[k] = daily[k] \/ daily'[k].fix = "hours"
      BY <3>1, RepairKeeps
    <3>3. ~ToCome(n, i, "daily") => ~ToCome(j, i, "daily")  BY <1>7, <2>2
    <3> QED  BY <2>1, <3>2, <3>3 DEF NoRow
  <2>3. CASE t.period # "hourly"
    <3>0. t.period = "daily"  BY <1>4, <2>3 DEF Periods
    <3>1. daily' = repair_days(WithDays(j.hand, d), hourly, repair_after("daily", j.hand))
      BY <1>6, <3>0 DEF upsert_records
    <3>2. /\ \A x \in j.hand : x \in Days /\ Covers(H, t.window, Opening(x))
          /\ ~j.unanswered => \A x \in Days : Covers(H, t.window, Opening(x)) /\ Opening(x) < j.began => x \in j.hand
      BY <1>3, <3>0 DEF InHand, j, H
    <3>3. k \in j.hand => i = t.window
      <4>1. Opening(k) \in Int  BY Bounds, OpeningDate
      <4> QED  BY <1>4, <3>2, <4>1, OneWindow
    <3>4. daily'[k] = WithDays(j.hand, d)[k] \/ daily'[k].fix = "hours"
      BY <3>1, RepairKeeps
    <3>5. WithDays(j.hand, d)[k] = IF k \in j.hand THEN Reported(d, k) ELSE daily[k]
      BY DEF WithDays
    <3>6. CASE k \in j.hand
      <4>1. Reported(d, k).fix = "none" => Reported(d, k).volume = d  BY DEF Reported
      <4>2. Reported(d, k) # NoRow
        <5>1. CASE k \in SetBack  BY <5>1 DEF Reported, NoRow
        <5>2. CASE k \notin SetBack
          <6>1. Reported(d, k).volume # 0  BY <1>5, <5>2 DEF Reported
          <6> QED  BY <6>1 DEF NoRow
        <5> QED  BY <5>1, <5>2
      <4> QED  BY <1>5, <3>3, <3>4, <3>5, <3>6, <4>1, <4>2 DEF NoRow
    <3>7. CASE k \notin j.hand
      <4>1. Opening(k) < j.began /\ ~ToCome(n, i, "daily") => ~ToCome(j, i, "daily")
        BY <1>7, <3>2, <3>7
      <4> QED  BY <2>1, <3>4, <3>5, <3>7, <4>1 DEF NoRow
    <3> QED  BY <3>6, <3>7
  <2> QED  BY <2>2, <2>3
<1>10. n.began <= now' /\ n.at # "storing"  BY <1>1, <1>3
<1> QED  BY <1>8, <1>9, <1>10 DEF ExactOf, n

\* Whoever else writes into the archive takes it from an initialization.
LEMMA NoLongerAlone ==
  ASSUME TypeInv, NEW w \in Workers, job'[w] = Idle \/ ~job'[w].alone
  PROVE  ExactOf(w)'
BY DEF ExactOf, Rebuilding

LEMMA ExactStep ==
  ASSUME TypeInv, TypeInv', ExactInv, [Next]_vars
  PROVE  ExactInv'
<1> SUFFICES ASSUME NEW w \in Workers PROVE ExactOf(w)'
  BY DEF ExactInv
<1>0. /\ now \in Int /\ now' \in Int /\ job \in [Workers -> {Idle} \cup Job]
      /\ ExactOf(w)
  BY DEF TypeInv, ExactInv
<1>1. CASE job'[w] = job[w] /\ UNCHANGED <<hourly, daily>> /\ now <= now'
  BY <1>0, <1>1, ExactStays
<1>2. ASSUME NEW v \in Workers, NEW kind \in {"init", "update"}, acquire(v, kind) PROVE ExactOf(w)'
  <2> DEFINE j == [kind |-> kind, at |-> "begun", history |-> history, began |-> now,
                   todo |-> {}, hand |-> {}, alone |-> TRUE, unanswered |-> FALSE]
  <2>1. job' = [job EXCEPT ![v] = j] /\ UNCHANGED <<now, hourly, daily>>  BY <1>2 DEF acquire
  <2>2. CASE w = v
    <3>1. job'[w].at = "begun"  BY <1>0, <2>1, <2>2
    <3> QED  BY <3>1 DEF ExactOf, Rebuilding
  <2>3. CASE w # v
    <3>1. job'[w] = job[w]  BY <1>0, <2>1, <2>3
    <3> QED  BY <1>0, <1>1, <2>1, <3>1
  <2> QED  BY <2>2, <2>3
<1>3. ASSUME NEW v \in Workers, init_line_locked(v) PROVE ExactOf(w)'
  <2>1. CASE w = v  BY <1>3, <2>1, ExactWipe
  <2>2. CASE w # v
    <3>1. job'[w] = Disturbed(v)[w]  BY <1>3, <2>2, InitFields
    <3>2. Disturbed(v)[w] = Idle \/ ~Disturbed(v)[w].alone  BY <2>2, DisturbedFields
    <3> QED  BY <3>1, <3>2, NoLongerAlone
  <2> QED  BY <2>1, <2>2
<1>4. ASSUME NEW v \in Workers, update_line_locked(v) PROVE ExactOf(w)'
  <2>1. UNCHANGED <<now, hourly, daily>>  BY <1>4, UpdateFields
  <2>2. CASE w = v
    <3>1. job'[w] = Idle \/ job'[w].kind = "update"  BY <1>4, <2>2, UpdateFields
    <3> QED  BY <3>1 DEF ExactOf, Rebuilding
  <2>3. CASE w # v
    <3>1. job'[w] = job[w]  BY <1>4, <2>3, UpdateFields
    <3> QED  BY <1>0, <1>1, <2>1, <3>1
  <2> QED  BY <2>2, <2>3
<1>5. ASSUME NEW v \in Workers, NEW t \in Task, get_volumes(v, t) PROVE ExactOf(w)'
  <2>1. CASE w = v  BY <1>0, <1>5, <2>1, ExactGet
  <2>2. CASE w # v
    <3>1. job'[w] = job[w] /\ UNCHANGED <<now, hourly, daily>>  BY <1>5, <2>2, GetFields
    <3> QED  BY <1>0, <1>1, <3>1
  <2> QED  BY <2>1, <2>2
<1>6. ASSUME NEW v \in Workers, NEW t \in Task, store(v, t) PROVE ExactOf(w)'
  <2>1. CASE w = v  BY <1>0, <1>6, <2>1, ExactStore
  <2>2. CASE w # v
    <3>1. job'[w] = Disturbed(v)[w]  BY <1>6, <2>2, StoreFields
    <3>2. Disturbed(v)[w] = Idle \/ ~Disturbed(v)[w].alone  BY <2>2, DisturbedFields
    <3> QED  BY <3>1, <3>2, NoLongerAlone
  <2> QED  BY <2>1, <2>2
<1>7. ASSUME NEW v \in Workers, NEW t \in Task, NEW i, push_and_store(v, t, i) PROVE ExactOf(w)'
  <2> DEFINE D == Disturbed(v)
  <2>1. D = [x \in Workers |-> D[x]] /\ D[v] = job[v]  BY DEF Disturbed
  <2>2. D[w] = Idle \/ w = v \/ ~D[w].alone  BY DisturbedFields
  <2>3. job' = [D EXCEPT ![v].at = "asking", ![v].todo = @ \ {t}, ![v].hand = {}, ![v].alone = FALSE]
    BY <1>7 DEF push_and_store
  <2> HIDE DEF D
  <2>4. CASE w = v
    <3>1. job[v] \in Job  BY <1>0, <1>7 DEF push_and_store
    <3>2. job'[w] = [job[v] EXCEPT !.at = "asking", !.todo = @ \ {t}, !.hand = {}, !.alone = FALSE]
      BY ONLY <2>1, <2>3, <2>4, w \in Workers
    <3>3. ~job'[w].alone  BY ONLY <3>1, <3>2 DEF Job
    <3> QED  BY <3>3, NoLongerAlone
  <2>5. CASE w # v
    <3>1. job'[w] = D[w]
      BY ONLY <2>1, <2>3, <2>5, w \in Workers
    <3> QED  BY <2>2, <2>5, <3>1, NoLongerAlone
  <2> QED  BY <2>4, <2>5
<1>8. ASSUME NEW v \in Workers, finalize(v) \/ fail(v) \/ die(v) PROVE ExactOf(w)'
  <2>1. job' = [job EXCEPT ![v] = Idle] /\ UNCHANGED <<now, hourly, daily>>
    BY <1>8 DEF finalize, fail, die, Close
  <2>2. CASE w = v
    <3>1. job'[w] = Idle  BY <1>0, <2>1, <2>2
    <3> QED  BY <3>1, NoLongerAlone
  <2>3. CASE w # v
    <3>1. job'[w] = job[w]  BY <1>0, <2>1, <2>3
    <3> QED  BY <1>0, <1>1, <2>1, <3>1
  <2> QED  BY <2>2, <2>3
<1>9. CASE purge \/ \E i \in DOMAIN history, period \in Periods : push_data(i, period)
  <2>1. job' = [v \in Workers |-> IF job[v] = Idle THEN Idle ELSE [job[v] EXCEPT !.alone = FALSE]]
    BY <1>9 DEF purge, push_data
  <2>2. job[w] = Idle \/ job[w] \in Job  BY <1>0
  <2>3. CASE job[w] = Idle
    <3>1. job'[w] = Idle  BY <2>1, <2>3
    <3> QED  BY <3>1, NoLongerAlone
  <2>4. CASE job[w] # Idle
    <3>1. job'[w] = [job[w] EXCEPT !.alone = FALSE]  BY <2>1, <2>4
    <3>2. ~job'[w].alone  BY ONLY <2>2, <2>4, <3>1 DEF Job
    <3> QED  BY <3>2, NoLongerAlone
  <2> QED  BY <2>3, <2>4
<1>10. CASE tick
  <2>1. now <= now' /\ UNCHANGED <<job, hourly, daily>>  BY <1>0, <1>10 DEF tick
  <2> QED  BY <1>1, <2>1
<1>11. CASE (\E h \in Histories : update(h)) \/ (\E range \in PurgeRanges : refuse_busy(range)) \/ UNCHANGED vars
  <2>1. UNCHANGED <<now, job, hourly, daily>>  BY <1>11 DEF update, refuse_busy, vars
  <2> QED  BY <1>0, <1>1, <2>1
<1> QED
  BY <1>2, <1>3, <1>4, <1>5, <1>6, <1>7, <1>8, <1>9, <1>10, <1>11 DEF Next

LEMMA ExactInit == Init => ExactInv
BY DEF Init, ExactInv, ExactOf, Rebuilding

\* An initialization that had the archive to itself and was answered leaves exactly what the
\* history attributes: what was stored is wiped, every window is asked for to its end or to
\* the beginning of the job, days before hours, and nothing of one window is stored under
\* another's corrector (init_line_locked, attribution_stamp, upsert_records).
THEOREM Exact == Spec => InitIsExact
<1>1. ASSUME TypeInv, ExactInv, NEW w \in Workers,
             Ends(w), job[w].kind = "init", job[w].alone, ~job[w].unanswered,
             NEW i \in DOMAIN job[w].history
      PROVE  /\ \A h \in Hours : Covers(job[w].history, i, h) =>
                  /\ h < job[w].began => hourly[h] = job[w].history[i].device
                  /\ hourly[h] \in {0, job[w].history[i].device}
             /\ \A k \in Days : Covers(job[w].history, i, Opening(k)) =>
                  /\ Opening(k) < job[w].began => daily[k] # NoRow
                  /\ daily[k].fix = "none" => daily[k].volume \in {0, job[w].history[i].device}
  <2>1. Rebuilding(job[w]) /\ job[w].todo = {}  BY <1>1 DEF Ends, Rebuilding
  <2>2. \A period : ~ToCome(job[w], i, period)  BY <1>1, <2>1 DEF ToCome
  <2>3. ExactHours(job[w], hourly) /\ ExactDays(job[w], daily)
    BY <1>1, <2>1 DEF ExactInv, ExactOf
  <2> QED  BY <2>2, <2>3 DEF ExactHours, ExactDays
<1> DEFINE Left ==
      \A w \in Workers : Ends(w) /\ job[w].kind = "init" /\ job[w].alone /\ ~job[w].unanswered =>
        \A i \in DOMAIN job[w].history :
          /\ \A h \in Hours : Covers(job[w].history, i, h) =>
               /\ h < job[w].began => hourly[h] = job[w].history[i].device
               /\ hourly[h] \in {0, job[w].history[i].device}
          /\ \A k \in Days : Covers(job[w].history, i, Opening(k)) =>
               /\ Opening(k) < job[w].began => daily[k] # NoRow
               /\ daily[k].fix = "none" => daily[k].volume \in {0, job[w].history[i].device}
<1>2. TypeInv /\ ExactInv => Left  BY <1>1
<1>3. [][Left]_vars => InitIsExact  BY DEF InitIsExact, vars
<1> HIDE DEF Left
<1> QED  BY <1>2, <1>3, TypeInit, TypeStep, ExactInit, ExactStep, PTL DEF Spec
=============================================================================
