---------------------------- MODULE DpdRefresh ----------------------------
(***************************************************************************)
(* The refresh of the correctors' archive from the DPD API: its lock row,   *)
(* the schedule it runs on, what it asks for and what is stored, beside the *)
(* operators who start it, poll a corrector by hand, wipe the archive and   *)
(* move correctors.                                                         *)
(*                                                                          *)
(* A run may stand still between any two of its steps, die, or lose the     *)
(* lock to a successor while it stands.  A request to the API that fails    *)
(* looks like one that brought no records.  Moments are hours; of an        *)
(* archive only which rows it holds is kept, and of a daily row whether it  *)
(* was read after its day had closed.  Records without a volume, which the  *)
(* service may answer with and which are not stored, are left out.          *)
(***************************************************************************)
EXTENDS DeviceHistory, Sequences, FiniteSets, FiniteSetsExt, Functions

CONSTANTS
  Devices,
  Branch,        \* the branch of each device
  Runners,       \* processes that run a refresh
  Scheduler,     \* the one of the scheduler
  Idle,          \* no run
  Stale,         \* STALE_SECONDS
  ChunkDays,     \* _CHUNK_DAYS
  DefaultTimes,  \* DPD_REFRESH_TIMES
  Chosen,        \* the periods <<first day, last day>> an operator chooses
  Horizon,       \* the last moment
  MaxRuns,       \* bound on the runs
  MaxTroubles    \* bound on failures, deaths, wipes, moves and polls by hand

VARIABLES
  now,
  times,     \* dpd_refresh_job.refresh_times, hours of the day
  row,       \* the rest of dpd_refresh_job
  run,       \* what each process is in the middle of
  assigned,  \* the windows of each device, in the order it was put up
  hourly,    \* <<device, hour>> stored
  daily,     \* <<device, day>> stored
  settled,   \* those of them read after the day had closed
  lost,      \* <<period, device, day>> that a failed request, a chosen period or a
             \* request made in the night of the day left out
  astray,    \* devices wiped under a run that had its plan
  shared,    \* a lock was taken over from a run still at work
  begun,     \* when the latest run began
  runs, troubles

vars == <<now, times, row, run, assigned, hourly, daily, settled, lost, astray, shared,
          begun, runs, troubles>>
archive == <<hourly, daily, settled, lost, astray>>

ASSUME RefreshAssumption ==
  /\ Scheduler \in Runners
  /\ Idle \notin Runners
  /\ {Stale, Horizon, MaxRuns, MaxTroubles} \subseteq Nat
  /\ ChunkDays \in Nat \ {0}
  /\ DefaultTimes \in (SUBSET (0 .. DayLength - 1)) \ {{}}
  /\ Chosen \subseteq Nat \X Nat
  /\ Opening(0) <= Horizon

Never   == -2 * DayLength     \* before every slot
Periods == {"daily", "hourly"}
Hours   == Opening(0) .. Horizon
Today   == now \div DayLength
Days    == 0 .. Horizon \div DayLength

Window == [from : 0 .. Horizon, until : (0 .. Horizon) \cup {Forever}]
Poll   == [period : Periods, device : Devices, first : Days, last : Days]

TypeOK ==
  /\ now \in 0 .. Horizon
  /\ times \in (SUBSET (0 .. DayLength - 1)) \ {{}}
  /\ row.status \in {"idle", "running", "done", "error"}
  /\ row.started <= now /\ row.updated <= now
  /\ \A r \in Runners : run[r] # Idle =>
       run[r].todo \subseteq Poll /\ DOMAIN run[r].ends \subseteq Devices
  /\ \A d \in Devices : Range(assigned[d]) \subseteq Window
  /\ hourly \subseteq Devices \X Hours
  /\ settled \subseteq daily /\ daily \subseteq Devices \X Days

\* Every device has stood at another point before; nothing is stored.
Init ==
  /\ now = Opening(0)
  /\ times = DefaultTimes
  /\ row = [status |-> "idle", started |-> Never, updated |-> Never]
  /\ run = [r \in Runners |-> Idle]
  /\ assigned = [d \in Devices |-> <<[from |-> 0, until |-> now], [from |-> now, until |-> Forever]>>]
  /\ hourly = {} /\ daily = {} /\ settled = {} /\ lost = {} /\ astray = {}
  /\ shared = FALSE
  /\ begun = Never
  /\ runs = 0 /\ troubles = 0

Working == {r \in Runners : run[r] # Idle}

\* ---- The lock ----------------------------------------------------------
Claimable_Always == TRUE  \* mutant: whoever asks gets it

Claimable == row.status # "running" \/ row.updated < now - Stale

\* Job timestamps are written with the application's clock.
Clock == now

Fresh(since, until) ==
  [at |-> "begun", since |-> since, until |-> until, todo |-> {}, ends |-> [d \in {} |-> 0],
   began |-> now, clean |-> TRUE, failed |-> FALSE]

\* A run without dates has no `since`.
Routine == -1

acquire(r, since, until) ==
  /\ run[r] = Idle
  /\ runs < MaxRuns
  /\ Claimable
  /\ row' = [status |-> "running", started |-> Clock, updated |-> now]
  /\ run' = [run EXCEPT ![r] = Fresh(since, until)]
  /\ shared' = (shared \/ (Working # {} /\ row.updated < now - Stale))
  /\ begun' = now
  /\ runs' = runs + 1
  /\ UNCHANGED <<now, times, assigned, archive, troubles>>

\* trigger_archive_refresh and reread_archive
trigger(r) == r # Scheduler /\ acquire(r, Routine, Today)
reread(r, since, until) == r # Scheduler /\ since <= until /\ since <= Today /\ acquire(r, since, until)

\* ---- The schedule ------------------------------------------------------
Slots(hours) == {day * DayLength + t : day \in {Today - 1, Today}, t \in hours}
LastDue == Max({s \in Slots(times) : s <= now})

maybe_refresh_dpd == row.started < LastDue /\ acquire(Scheduler, Routine, Today)

\* An empty choice puts the default back in charge.
Times(hours) == IF hours = {} THEN DefaultTimes ELSE hours

write_refresh_times(hours) ==
  /\ troubles < MaxTroubles
  /\ times' = Times(hours)
  /\ times' # times
  /\ troubles' = troubles + 1
  /\ UNCHANGED <<now, row, run, assigned, archive, shared, begun, runs>>

\* ---- The plan ----------------------------------------------------------
Stamps(period, d) ==
  {IF period = "daily" THEN x[2] ELSE x[2] \div DayLength :
     x \in {y \in IF period = "daily" THEN daily ELSE hourly : y[1] = d}}

carry_on_from_Next(period, d, since) ==  \* mutant: the newest period is skipped past
  IF since # Routine THEN since
  ELSE IF Stamps(period, d) = {} THEN 0 ELSE Max(Stamps(period, d)) + 1

\* The newest stored period is read again: it may have been running.
carry_on_from(period, d, since) ==
  IF since # Routine THEN since
  ELSE IF Stamps(period, d) = {} THEN 0 ELSE Max(Stamps(period, d))

\* The assignments that touch the period of a run.
Considered(d, since, window_to) ==
  {i \in DOMAIN assigned[d] :
     /\ assigned[d][i].from < Opening(window_to + 1)
     /\ assigned[d][i].until > (IF since = Routine THEN 0 ELSE since) * DayLength}

\* The last day worth asking for: today while the device stands somewhere, else the
\* day its last service ended.
served_until(d, since, window_to) ==
  Max({IF assigned[d][i].until = Forever
       THEN window_to
       ELSE Min({assigned[d][i].until \div DayLength, window_to}) :
         i \in Considered(d, since, window_to)})

Chunks(period, d, start, final) ==
  {[period |-> period, device |-> d, first |-> f, last |-> Min({f + ChunkDays - 1, final})] :
     f \in {g \in start .. final : (g - start) % ChunkDays = 0}}

final_Served(since, window_to, ends) == ends  \* mutant: a chosen period ends with the service too

final(since, window_to, ends) == IF since # Routine THEN window_to ELSE ends

\* What a run asks about one device; a device taken off whose archive reaches the
\* day it came off is asked nothing.
plan_device(d, since, window_to) ==
  LET stop == final(since, window_to, served_until(d, since, window_to)) IN
  UNION {LET start == carry_on_from(period, d, since) IN
         IF start > stop \/ (since = Routine /\ stop < window_to /\ start = stop)
         THEN {}
         ELSE Chunks(period, d, start, stop) : period \in Periods}

plan(r) ==
  /\ run[r] # Idle
  /\ run[r].at = "begun"
  /\ LET since  == run[r].since
         to     == IF since = Routine THEN Today ELSE Min({run[r].until, Today})
         asked  == {d \in Devices : Considered(d, since, to) # {}}
     IN  run' = [run EXCEPT ![r].at = "polling",
                            ![r].until = to,
                            ![r].began = now,
                            ![r].ends = [d \in asked |-> served_until(d, since, to)],
                            ![r].todo = UNION {plan_device(d, since, to) : d \in asked}]
  /\ row' = IF row.status = "running" THEN [row EXCEPT !.updated = now] ELSE row
  /\ UNCHANGED <<now, times, assigned, archive, shared, begun, runs, troubles>>

\* ---- Polling -----------------------------------------------------------
span_Calendar(first, last) ==  \* mutant: cut at midnight, as the days of a calendar are
  first * DayLength + ContractHour .. (last + 1) * DayLength - 1

\* The hours of the gas days first..last.
span(first, last) == Opening(first) .. Opening(last + 1) - 1

\* What the API has of a device: the hours gone by and the days begun.
AnswerHours(d, first, last) == {d} \X {h \in span(first, last) : h < now /\ h \in Hours}
AnswerDays(d, first, last)  == {d} \X {k \in first .. last : Opening(k) < now}
Closed == {x \in Devices \X Days : Opening(x[2] + 1) <= now}

Store(period, d, first, last) ==
  /\ hourly' = IF period = "hourly" THEN hourly \cup AnswerHours(d, first, last) ELSE hourly
  /\ daily' = IF period = "daily" THEN daily \cup AnswerDays(d, first, last) ELSE daily
  /\ settled' = IF period = "daily"
                THEN settled \cup (AnswerDays(d, first, last) \cap Closed)
                ELSE settled

\* The days a chosen period leaves out between the end of the archive and itself.
Skipped(period, d, first) ==
  {period} \X {d} \X
    {k \in Days : k < first /\ \A s \in Stamps(period, d) :
                    s <= IF period = "daily" THEN k ELSE k + 1}

\* The days a request finds in their last night: begun the date before, not closed.
\* The next routine run starts from the date of the hours it brings, which is after
\* what is left of the night; so does a later chunk of the same run.
InTheirNight(period, d, first, last) ==
  {period} \X {d} \X {k \in first .. last : k < Today /\ now < Opening(k + 1)}

Asked(p) == {p.period} \X {p.device} \X (p.first .. p.last)

\* Days before hours, the chunks of a device in order.
Before(p, q) ==
  /\ Branch[p.device] = Branch[q.device]
  /\ \/ p.period = "daily" /\ q.period = "hourly"
     \/ p.period = q.period /\ p.device = q.device /\ p.first < q.first

Heartbeat == row' = IF row.status = "running" THEN [row EXCEPT !.updated = now] ELSE row

\* One poll of a batch: asked, stored and a heartbeat sent.  A failure stores
\* nothing and is not told.
refresh_branch(r, p, answered) ==
  /\ run[r] # Idle
  /\ run[r].at = "polling"
  /\ p \in run[r].todo
  /\ ~\E q \in run[r].todo : Before(q, p)
  /\ run' = [run EXCEPT ![r].todo = @ \ {p}, ![r].clean = @ /\ answered]
  /\ IF answered
     THEN /\ Store(p.period, p.device, p.first, p.last)
          /\ lost' = (lost \ Asked(p))
                       \cup InTheirNight(p.period, p.device, p.first, p.last)
                       \cup IF run[r].since = Routine THEN {} ELSE Skipped(p.period, p.device, p.first)
          /\ UNCHANGED troubles
     ELSE /\ troubles < MaxTroubles
          /\ troubles' = troubles + 1
          /\ lost' = lost \cup Asked(p)
          /\ UNCHANGED <<hourly, daily, settled>>
  /\ Heartbeat
  /\ UNCHANGED <<now, times, assigned, astray, shared, begun, runs>>

\* No credentials or no login: the rest of the branch is dropped, the others go on.
branch_fails(r, b) ==
  /\ run[r] # Idle
  /\ run[r].at = "polling"
  /\ troubles < MaxTroubles
  /\ LET dropped == {p \in run[r].todo : Branch[p.device] = b} IN
     /\ dropped # {}
     /\ run' = [run EXCEPT ![r].todo = @ \ dropped, ![r].clean = FALSE, ![r].failed = TRUE]
  /\ troubles' = troubles + 1
  /\ UNCHANGED <<now, times, row, assigned, archive, shared, begun, runs>>

finalize(r) ==
  /\ run[r] # Idle
  /\ run[r].at = "polling"
  /\ run[r].todo = {}
  /\ run' = [run EXCEPT ![r] = Idle]
  /\ row' = IF row.status = "running"
            THEN [row EXCEPT !.status = IF run[r].failed THEN "error" ELSE "done", !.updated = now]
            ELSE row
  /\ UNCHANGED <<now, times, assigned, archive, shared, begun, runs, troubles>>

die(r) ==
  /\ run[r] # Idle
  /\ troubles < MaxTroubles
  /\ run' = [run EXCEPT ![r] = Idle]
  /\ troubles' = troubles + 1
  /\ UNCHANGED <<now, times, row, assigned, archive, shared, begun, runs>>

\* ---- Beside it ---------------------------------------------------------
\* A poll by hand, or a modem's push: written without asking whether a run is on.
run_backfill(d, period, first, last) ==
  /\ troubles < MaxTroubles
  /\ first <= last /\ last <= Today
  /\ Store(period, d, first, last)
  /\ lost' = (lost \ Asked([period |-> period, device |-> d, first |-> first, last |-> last]))
               \cup InTheirNight(period, d, first, last) \cup Skipped(period, d, first)
  /\ troubles' = troubles + 1
  /\ UNCHANGED <<now, times, row, run, assigned, astray, shared, begun, runs>>

\* The wipe does not look at the job: a run that has its plan goes on with it.
clear_all ==
  /\ troubles < MaxTroubles
  /\ hourly' = {} /\ daily' = {} /\ settled' = {} /\ lost' = {}
  /\ astray' = IF Working = {} THEN {} ELSE Devices
  /\ troubles' = troubles + 1
  /\ UNCHANGED <<now, times, row, run, assigned, shared, begun, runs>>

LastWindow(d) == assigned[d][Len(assigned[d])]

\* A corrector is taken off, or put up again somewhere.
replace_history(d) ==
  /\ troubles < MaxTroubles
  /\ assigned' = [assigned EXCEPT ![d] =
       IF LastWindow(d).until = Forever
       THEN [@ EXCEPT ![Len(@)].until = now]
       ELSE Append(@, [from |-> now, until |-> Forever])]
  /\ troubles' = troubles + 1
  /\ UNCHANGED <<now, times, row, run, archive, shared, begun, runs>>

tick ==
  /\ now < Horizon
  /\ now' = now + 1
  /\ UNCHANGED <<times, row, run, assigned, archive, shared, begun, runs, troubles>>

Next ==
  \/ maybe_refresh_dpd
  \/ \E hours \in SUBSET (0 .. DayLength - 1) : write_refresh_times(hours)
  \/ \E r \in Runners :
       \/ trigger(r)
       \/ \E c \in Chosen : reread(r, c[1], c[2])
       \/ plan(r) \/ finalize(r) \/ die(r)
       \/ \E p \in Poll, answered \in BOOLEAN : refresh_branch(r, p, answered)
       \/ \E b \in Range(Branch) : branch_fails(r, b)
  \/ \E d \in Devices :
       \/ replace_history(d)
       \/ \E period \in Periods, c \in Chosen : run_backfill(d, period, c[1], c[2])
  \/ clear_all \/ tick

Spec == Init /\ [][Next]_vars

\* ---- Properties --------------------------------------------------------
\* "Only one refresh runs at a time across all workers and the scheduler", until a
\* run that stands still is overtaken; whatever dies or is left behind before that.
OneRun == ~shared => Cardinality(Working) <= 1

\* An hour missing below the newest one stored was asked for by a request that
\* failed: runs that die, overlap, drop a branch or are cut into chunks leave none.
HolesAreBlamed ==
  \A d \in Devices \ astray : \A h \in Hours :
    (\E g \in Hours : h < g /\ <<d, g>> \in hourly) =>
      <<d, h>> \in hourly \/ <<"hourly", d, day_of(h)>> \in lost

\* The hours of the service that a run had to know of when it made its plan.
Reached(r, d) == {h \in Hours : h < run[r].began /\ h < run[r].ends[d] * DayLength}

Ends(r) == run[r] # Idle /\ run'[r] = Idle /\ run[r].todo = {} /\ run[r].at = "polling"

\* A routine run whose requests were all answered leaves every device it knew of
\* with all hours up to the last day of its service, and no day half read that
\* had closed before the run began.
CatchesUp ==
  [][\A r \in Runners : Ends(r) /\ run[r].clean /\ run[r].since = Routine =>
       \A d \in DOMAIN run[r].ends \ astray :
         /\ \A h \in Reached(r, d) :
              <<d, h>> \in hourly \/ <<"hourly", d, day_of(h)>> \in lost
         /\ \A k \in Days : k < run[r].ends[d] /\ Opening(k + 1) <= run[r].began =>
              <<d, k>> \in settled \/ <<"daily", d, k>> \in lost]_vars

\* "That is what closes a stretch DPD never delivered": after a dated re-read whose
\* requests were answered no hour of its period is missing, whatever was before.
RereadCloses ==
  [][\A r \in Runners : Ends(r) /\ run[r].clean /\ run[r].since # Routine =>
       \A d \in DOMAIN run[r].ends \ astray : \A h \in Hours :
         /\ Opening(run[r].since) <= h
         /\ h < Opening(run[r].until + 1)
         /\ h < run[r].began
         => <<d, h>> \in hourly]_vars

\* "A process that hung and then woke up must not write its result over the run that
\* replaced it": the row is closed by the run that began last.
ClosedByItsRun ==
  [][\A r \in Runners : Ends(r) /\ row'.status # row.status =>
       \A o \in Working : run[o].began <= run[r].began]_vars

\* "The upsert is idempotent and no hour falls between two chunks", and every device is
\* "carried on from the newest period its own archive holds": with nothing but
\* answered routine runs an archive has no hole.
NoHourFallsBetween ==
  \A d \in Devices : \A g, h \in Hours : h < g /\ <<d, g>> \in hourly => <<d, h>> \in hourly
=============================================================================
