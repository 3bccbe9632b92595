------------------------------ MODULE DpdLine ------------------------------
(***************************************************************************)
(* The archive of one DPD line: its initialization, the scheduled update,   *)
(* the rows a modem pushes, the purge and the substitution of hours for     *)
(* days whose totaliser was set back (services/dpd_line_refresh.py,         *)
(* db/dao/dpd_line_dao.py, db/dao/volume_fix.py).                           *)
(*                                                                         *)
(* Moments are hours.  A device is a number, which is also what it counts   *)
(* in an hour, so a stored volume tells whose it is.  A job may stand still *)
(* between any two of its steps, die, or lose the lock to a successor.      *)
(***************************************************************************)
EXTENDS DeviceHistory, FiniteSets, FiniteSetsExt

CONSTANTS
  Meters,       \* the devices, positive numbers
  Histories,    \* the histories an operator gives the line, the first among them
  FirstHistory,
  SetBack,      \* days whose reported volume is negative
  Workers,      \* processes that run a job of the line
  Idle,         \* no job
  Stale,        \* STALE_SECONDS
  ChunkDays,    \* CHUNK_DAYS
  PurgeRanges,  \* <<first day, last day>> an operator clears
  Horizon,      \* the last moment
  MaxJobs,      \* bound on the jobs
  MaxTroubles   \* bound on pushes, purges, edits, failures and deaths

VARIABLES
  now,
  history,   \* dpd_line_device
  row,       \* dpd_line_job
  job,       \* what each process is in the middle of
  hourly,    \* dpd_line_hourly_archive: the volume at each stamp
  daily,     \* dpd_line_daily_archive: volume and volume_fix of each day
  missed,    \* days written by two transactions that did not see each other
  touched,   \* something beside undisturbed jobs has had its hand in the archive
  edited,    \* the history was corrected
  clearing,  \* the range of a purge that found nobody at work, or NoPurge
  jobs, troubles

vars == <<now, history, row, job, hourly, daily, missed, touched, edited, clearing, jobs, troubles>>

ASSUME LineAssumption ==
  /\ Meters \subseteq Nat \ {0}
  /\ FirstHistory \in Histories
  /\ \A h \in Histories :
       /\ DOMAIN h \subseteq Int
       /\ \A i \in DOMAIN h : h[i] \in [device : Meters, from : Int, until : Int]
  /\ Stale \in Nat
  /\ ChunkDays \in Nat \ {0}
  /\ PurgeRanges \subseteq Int \X Int
  /\ Horizon \in Int

Periods == {"daily", "hourly"}
Hours   == Opening(0) .. Horizon
Days    == 0 .. Horizon \div DayLength
HoursOf(day) == {h \in Hours : day_of(h) = day}
NoPurge == <<>>
NoRow   == [fix |-> "none", volume |-> 0]
Task    == [window : UNION {DOMAIN h : h \in Histories}, period : Periods]

TypeOK ==
  /\ now \in 0 .. Horizon
  /\ history \in Histories
  /\ row.status \in {"idle", "running", "done", "error"} /\ row.updated <= now
  /\ \A w \in Workers : job[w] # Idle => job[w].todo \subseteq Task
  /\ hourly \in [Hours -> {0} \cup Meters]
  /\ DOMAIN daily = Days
  /\ \A k \in Days : daily[k].fix \in {"none", "zeroed", "hours"} /\ daily[k].volume \in Nat
  /\ clearing \in {NoPurge} \cup PurgeRanges

Init ==
  /\ now = Opening(0)
  /\ history = FirstHistory
  /\ row = [status |-> "idle", updated |-> 0]
  /\ job = [w \in Workers |-> Idle]
  /\ hourly = [h \in Hours |-> 0]
  /\ daily = [k \in Days |-> NoRow]
  /\ missed = {} /\ touched = FALSE /\ edited = FALSE
  /\ clearing = NoPurge
  /\ jobs = 0 /\ troubles = 0

Trouble == troubles < MaxTroubles /\ troubles' = troubles + 1
Working == {w \in Workers : job[w] # Idle}

\* Nobody who works on the archive but w had it to himself.
Disturbed(w) == [v \in Workers |-> IF v = w \/ job[v] = Idle THEN job[v] ELSE [job[v] EXCEPT !.alone = FALSE]]

\* ---- The lock ----------------------------------------------------------
Claimable == row.status # "running" \/ row.updated < now - Stale

acquire(w, kind) ==
  /\ job[w] = Idle
  /\ jobs < MaxJobs
  /\ Claimable
  /\ row' = [status |-> "running", updated |-> now]
  /\ job' = [job EXCEPT ![w] = [kind |-> kind, at |-> "begun", history |-> history, began |-> now,
                                todo |-> {}, hand |-> {}, alone |-> TRUE, unanswered |-> FALSE]]
  /\ touched' = (touched \/ Working # {})
  /\ jobs' = jobs + 1
  /\ UNCHANGED <<now, history, hourly, daily, missed, edited, clearing, troubles>>

Heartbeat == row' = IF row.status = "running" THEN [row EXCEPT !.updated = now] ELSE row

Close(w, status) ==
  /\ row' = IF row.status = "running" THEN [status |-> status, updated |-> now] ELSE row
  /\ job' = [job EXCEPT ![w] = Idle]

\* ---- Beginning ---------------------------------------------------------
\* The history is read, then everything stored is wiped.
init_line_locked(w) ==
  /\ job[w] # Idle
  /\ job[w].kind = "init" /\ job[w].at = "begun"
  /\ job' = [Disturbed(w) EXCEPT ![w].at = "asking", ![w].history = history, ![w].began = now,
                                 ![w].todo = [window : DOMAIN history, period : Periods]]
  /\ hourly' = [h \in Hours |-> 0]
  /\ daily' = [k \in Days |-> NoRow]
  /\ missed' = {}
  /\ Heartbeat
  /\ UNCHANGED <<now, history, touched, edited, clearing, jobs, troubles>>

\* The device in force, of those whose installation has come.
Active(h, t) == {i \in DOMAIN h : h[i].from <= t /\ \A j \in DOMAIN h : h[j].from <= t /\ i # j => Precedes(h, j, i)}

\* Without a device installed yet the job ends as done.
update_line_locked(w) ==
  /\ job[w] # Idle
  /\ job[w].kind = "update" /\ job[w].at = "begun"
  /\ IF Active(history, now) = {}
     THEN Close(w, "done")
     ELSE /\ job' = [job EXCEPT ![w].at = "asking", ![w].history = history, ![w].began = now,
                                ![w].todo = [window : Active(history, now), period : Periods]]
          /\ UNCHANGED row
  /\ UNCHANGED <<now, history, hourly, daily, missed, touched, edited, clearing, jobs, troubles>>

\* ---- Asking ------------------------------------------------------------
Span(first, last) == Opening(first) .. Opening(last + 1) - 1

Answer_Dates(period, from, until) ==  \* mutant: hours are asked for by the date of the moment
  IF period = "hourly"
  THEN {h \in Span(from \div DayLength, until \div DayLength) \cap Hours : h < now}
  ELSE {k \in from \div DayLength .. until \div DayLength : k \in Days /\ Opening(k) < now}

\* What the API has between the dates of two moments: for hours, the gas days the
\* moments lie in.
Answer(period, from, until) ==
  IF period = "hourly"
  THEN {h \in Span(day_of(from), day_of(until)) \cap Hours : h < now}
  ELSE {k \in from \div DayLength .. until \div DayLength : k \in Days /\ Opening(k) < now}

\* The moment a record is attributed at.
attribution_stamp_Midnight(period, stamp) ==  \* mutant: a day counts from its midnight
  IF period = "hourly" THEN stamp ELSE stamp * DayLength

attribution_stamp(period, stamp) == IF period = "hourly" THEN stamp ELSE Opening(stamp)

\* A window of an initialization ends where the next one begins; an update takes
\* the device in force to be the last.
Kept(w, t, stamp) ==
  LET at == attribution_stamp(t.period, stamp) IN
  IF job[w].kind = "init"
  THEN Covers(job[w].history, t.window, at)
  ELSE job[w].history[t.window].from <= at

WinTo(h, i) == Min({Forever} \cup {h[j].from : j \in {k \in DOMAIN h : Precedes(h, i, k)}})

Chunks(from, until) ==
  {<<c, Min({c + ChunkDays * DayLength, until})>> :
     c \in {m \in from .. until - 1 : (m - from) % (ChunkDays * DayLength) = 0}}

Stored(period) == IF period = "hourly" THEN {h \in Hours : hourly[h] # 0} ELSE {k \in Days : daily[k] # NoRow}

span_from(w, t, last) == Max({last, job[w].history[t.window].from})

\* The requests of a task: a window in yearly pieces, or from the newest period stored.
Requests(w, t) ==
  LET from == job[w].history[t.window].from
      kept == Stored(t.period)
      last == IF t.period = "daily" THEN Max(kept) * DayLength ELSE Max(kept)
      since == IF kept = {} THEN from ELSE span_from(w, t, last)
  IN  IF job[w].kind = "init"
      THEN Chunks(from, IF WinTo(job[w].history, t.window) = Forever
                        THEN job[w].began ELSE WinTo(job[w].history, t.window))
      ELSE IF since > job[w].began THEN {} ELSE {<<since, job[w].began>>}

\* Windows in their order, days before hours.
Head(w) ==
  {t \in job[w].todo : ~\E u \in job[w].todo :
     \/ Precedes(job[w].history, u.window, t.window)
     \/ u.window = t.window /\ u.period = "daily" /\ t.period = "hourly"}

\* A request that fails brings nothing and is not told.
get_volumes(w, t) ==
  /\ job[w] # Idle
  /\ job[w].at = "asking" /\ t \in Head(w)
  /\ \E failing \in SUBSET Requests(w, t) :
       /\ IF failing = {} THEN UNCHANGED troubles ELSE Trouble
       /\ LET brought == UNION {Answer(t.period, q[1], q[2]) : q \in Requests(w, t) \ failing}
          IN  job' = [job EXCEPT ![w].at = "storing",
                                 ![w].hand = {s \in brought : Kept(w, t, s)},
                                 ![w].unanswered = @ \/ failing # {}]
       /\ touched' = (touched \/ (failing # {} /\ job[w].kind = "init"))
  /\ UNCHANGED <<now, history, row, hourly, daily, missed, edited, clearing, jobs>>

\* ---- Storing -----------------------------------------------------------
Complete(hr, day) == HoursOf(day) # {} /\ Cardinality(HoursOf(day)) = DayLength /\ \A h \in HoursOf(day) : hr[h] # 0

SumOf(f) == MapThenSumSet(LAMBDA x : f[x], DOMAIN f)
VolumeOf(hr, day) == SumOf([h \in HoursOf(day) |-> hr[h]])

\* repair_days: a marked day whose hours are all there becomes their sum.
repair_days(dl, hr, days) ==
  [k \in Days |-> IF k \in days /\ dl[k].fix # "none" /\ Complete(hr, k)
                  THEN [fix |-> "hours", volume |-> VolumeOf(hr, k)]
                  ELSE dl[k]]

Between(days) == IF days = {} THEN {} ELSE Min(days) .. Max(days)

\* A negative volume is stored as 0 and marked.
Reported(device, day) ==
  IF day \in SetBack THEN [fix |-> "zeroed", volume |-> 0] ELSE [fix |-> "none", volume |-> device]

\* The days a write looks at: from the first to the last its hours fall in, or from the
\* first to the last it marked.
repair_after_Days(period, rows) ==  \* mutant: the hours sum nothing
  IF period = "hourly" THEN {} ELSE Between(rows \cap SetBack)

repair_after(period, rows) ==
  Between(IF period = "hourly" THEN {day_of(h) : h \in rows} ELSE rows \cap SetBack)

WithHours(rows, device) == [h \in Hours |-> IF h \in rows THEN device ELSE hourly[h]]
WithDays(rows, device)  == [k \in Days |-> IF k \in rows THEN Reported(device, k) ELSE daily[k]]

\* One transaction: the rows, then the repair.
upsert_records(period, rows, device) ==
  IF period = "hourly"
  THEN /\ hourly' = WithHours(rows, device)
       /\ daily' = repair_days(daily, WithHours(rows, device), repair_after(period, rows))
       /\ missed' = missed \ repair_after(period, rows)
  ELSE /\ daily' = repair_days(WithDays(rows, device), hourly, repair_after(period, rows))
       /\ missed' = missed \ repair_after(period, rows)
       /\ UNCHANGED hourly

\* Two transactions, one of days and one of hours, both begun before either is
\* committed.  A day marked before is waited for and summed by whichever is second; a
\* day marked by the one is unseen by the other.
upsert_overlapping(days, hours, device, other) ==
  LET dl == WithDays(days, device)
      hr == WithHours(hours, other)
      known == {k \in Days : daily[k].fix # "none"}
      looked == repair_after("daily", days) \cup repair_after("hourly", hours)
  IN  /\ hourly' = hr
      /\ daily' = [k \in Days |->
           IF k \in days /\ k \notin known
           THEN repair_days(dl, hourly, repair_after("daily", days))[k]
           ELSE repair_days(dl, hr, looked)[k]]
      /\ missed' = (missed \ looked) \cup (days \ known)

Device(w, t) == job[w].history[t.window].device

\* The rows of a task are stored, and the progress is written.
store(w, t) ==
  /\ job[w] # Idle
  /\ job[w].at = "storing" /\ t \in Head(w)
  /\ upsert_records(t.period, job[w].hand, Device(w, t))
  /\ job' = [Disturbed(w) EXCEPT ![w].at = "asking", ![w].todo = @ \ {t}, ![w].hand = {}]
  /\ Heartbeat
  /\ UNCHANGED <<now, history, touched, edited, clearing, jobs, troubles>>

\* ---- The modem ---------------------------------------------------------
\* An agent is asked for everything newer than the newest record stored, and the device
\* in force may hold what is older than its installation: nothing here bounds it below.
Pushable(period) ==
  IF period = "hourly" THEN {h \in Hours : h < now} ELSE {k \in Days : Opening(k + 1) <= now}

push_data(i, period) ==
  /\ i \in Active(history, now)
  /\ Trouble
  /\ \E rows \in (SUBSET Pushable(period)) \ {{}} : upsert_records(period, rows, history[i].device)
  /\ job' = [w \in Workers |-> IF job[w] = Idle THEN Idle ELSE [job[w] EXCEPT !.alone = FALSE]]
  /\ touched' = TRUE
  /\ UNCHANGED <<now, history, row, edited, clearing, jobs>>

\* The push of one archive while a job stores the other.
push_and_store(w, t, i) ==
  /\ job[w] # Idle
  /\ job[w].at = "storing" /\ t \in Head(w)
  /\ job[w].hand # {}
  /\ i \in Active(history, now)
  /\ Trouble
  /\ IF t.period = "daily"
     THEN \E rows \in (SUBSET Pushable("hourly")) \ {{}} :
            upsert_overlapping(job[w].hand, rows, Device(w, t), history[i].device)
     ELSE \E rows \in (SUBSET Pushable("daily")) \ {{}} :
            upsert_overlapping(rows, job[w].hand, history[i].device, Device(w, t))
  /\ job' = [Disturbed(w) EXCEPT ![w].at = "asking", ![w].todo = @ \ {t}, ![w].hand = {},
                                 ![w].alone = FALSE]
  /\ touched' = TRUE
  /\ Heartbeat
  /\ UNCHANGED <<now, history, edited, clearing, jobs>>

\* ---- The end of a job --------------------------------------------------
finalize(w) ==
  /\ job[w] # Idle
  /\ job[w].at = "asking" /\ job[w].todo = {}
  /\ Close(w, "done")
  /\ UNCHANGED <<now, history, hourly, daily, missed, touched, edited, clearing, jobs, troubles>>

\* No credentials, no login, no database: what is stored stays.
fail(w) ==
  /\ job[w] # Idle
  /\ Trouble
  /\ Close(w, "error")
  /\ UNCHANGED <<now, history, hourly, daily, missed, touched, edited, clearing, jobs>>

die(w) ==
  /\ job[w] # Idle
  /\ Trouble
  /\ job' = [job EXCEPT ![w] = Idle]
  /\ UNCHANGED <<now, history, row, hourly, daily, missed, touched, edited, clearing, jobs>>

\* ---- The operator ------------------------------------------------------
update(h) ==
  /\ h \in Histories /\ h # history
  /\ Trouble
  /\ history' = h
  /\ touched' = TRUE /\ edited' = TRUE
  /\ UNCHANGED <<now, row, job, hourly, daily, missed, clearing, jobs>>

\* Nobody is at work on the line, as far as its row tells.
refuse_busy(range) ==
  /\ clearing = NoPurge
  /\ Claimable
  /\ Trouble
  /\ clearing' = range
  /\ UNCHANGED <<now, history, row, job, hourly, daily, missed, touched, edited, jobs>>

window_Midnight(range, h) ==  \* mutant: hours are taken from midnight to midnight
  range[1] * DayLength <= h /\ h < (range[2] + 1) * DayLength

window(range, h) == Opening(range[1]) <= h /\ h < Opening(range[2] + 1)

purge ==
  /\ clearing # NoPurge
  /\ hourly' = [h \in Hours |-> IF window(clearing, h) THEN 0 ELSE hourly[h]]
  /\ daily' = [k \in Days |-> IF k \in clearing[1] .. clearing[2] THEN NoRow ELSE daily[k]]
  /\ missed' = missed \ (clearing[1] .. clearing[2])
  /\ job' = [w \in Workers |-> IF job[w] = Idle THEN Idle ELSE [job[w] EXCEPT !.alone = FALSE]]
  /\ touched' = TRUE
  /\ clearing' = NoPurge
  /\ UNCHANGED <<now, history, row, edited, jobs, troubles>>

tick ==
  /\ now < Horizon
  /\ now' = now + 1
  /\ UNCHANGED <<history, row, job, hourly, daily, missed, touched, edited, clearing, jobs, troubles>>

Next ==
  \/ \E w \in Workers :
       \/ \E kind \in {"init", "update"} : acquire(w, kind)
       \/ init_line_locked(w) \/ update_line_locked(w)
       \/ \E t \in Task :
            \/ get_volumes(w, t) \/ store(w, t)
            \/ \E i \in DOMAIN history : push_and_store(w, t, i)
       \/ finalize(w) \/ fail(w) \/ die(w)
  \/ \E i \in DOMAIN history, period \in Periods : push_data(i, period)
  \/ \E h \in Histories : update(h)
  \/ \E range \in PurgeRanges : refuse_busy(range)
  \/ purge \/ tick

Spec == Init /\ [][Next]_vars

\* ---- Properties --------------------------------------------------------
\* "Done after every write, by whichever of the two comes second": a day set back
\* whose hours are all stored holds their sum, whatever order jobs, pushes and purges
\* write in, unless two transactions did not see each other.
MarkedDayIsSummed ==
  \A k \in Days \ missed : daily[k].fix = "zeroed" => ~Complete(hourly, k)

\* A day that stands for its hours is the sum of the hours stored now: no later hour, no
\* other device and no purge leaves an old sum behind.
SumIsOfItsHours ==
  \A k \in Days \ missed : daily[k].fix = "hours" =>
    /\ Complete(hourly, k)
    /\ daily[k].volume = VolumeOf(hourly, k)

\* Within the service of one device no hour is missing below a stored one, however jobs
\* die, fail, hang and are repeated; only a lock taken over from a live job, a failed
\* request of an initialization, a modem, a purge or a correction leaves a hole.
LineHasNoHole ==
  ~touched =>
    \A i \in DOMAIN history : \A g, h \in Hours :
      h < g /\ Covers(history, i, h) /\ Covers(history, i, g) /\ hourly[g] # 0 => hourly[h] # 0

Ends(w) == job[w] # Idle /\ job'[w] = Idle /\ job[w].at = "asking" /\ job[w].todo = {}

\* An initialization that had the archive to itself and was answered leaves exactly the
\* rows its history attributes: each hour and day gone by is the one of the device in
\* force, and nothing older is left.
InitIsExact ==
  [][\A w \in Workers : Ends(w) /\ job[w].kind = "init" /\ job[w].alone /\ ~job[w].unanswered =>
       \A i \in DOMAIN job[w].history :
         /\ \A h \in Hours : Covers(job[w].history, i, h) =>
              /\ h < job[w].began => hourly[h] = job[w].history[i].device
              /\ hourly[h] \in {0, job[w].history[i].device}
         /\ \A k \in Days : Covers(job[w].history, i, Opening(k)) =>
              /\ Opening(k) < job[w].began => daily[k] # NoRow
              /\ daily[k].fix = "none" => daily[k].volume \in {0, job[w].history[i].device}]_vars
=============================================================================
