# HLViewer in TLA+

HLViewer is the web system of a gas transport operator: a FastAPI backend, a
React frontend, a scheduler process and a PostgreSQL database, with polling
agents on Windows workstations that read flow computers over GSM modems, and an
updater that takes the server from one version to the next.  This directory holds
specifications of the parts of it that run concurrently, fail half-way, hold
something for a long time or merge what several sources say, the TLC runs that
explore them, and proofs of the properties that matter most.

Contents: [1 Inventory](#1-inventory) · [2 Modules](#2-modules) ·
[3 Runs](#3-runs) · [4 Bounds](#4-bounds) · [5 Fairness](#5-fairness) ·
[6 Proofs](#6-proofs) · [7 Disagreements](#7-where-the-code-and-its-comments-disagree) ·
[8 Not modelled](#8-what-is-not-modelled) · [9 Plan](#9-plan)

## 1 Inventory

Paths are under `src/`; line numbers are in `PROJECT.json`, with the hazards at
the lines where they bite.

### GSM polling protocol — `backend/api/endpoints/polling_agent_ep.py`, `polling_ep.py`, `backend/db/dao/polling_dao.py`

*State.*  One `poll_device` row per card: who holds it (`polling_agent_id`), since
when (`polling_since`), a stop flag (`cancel_requested_at`), a standing request
(`manual_requested_at`), the stamps of the last calls.  `poll_agent` accounts,
`poll_agent_device` assignments.  On each workstation, the last plan and the
modem.
*Operations.*  Agents: plan, start, log, data, finish.  Operators: ask for a poll,
take the request back, cancel, delete or deactivate an agent, reassign cards.
*Interaction.*  Everything meets in the `poll_device` row.  Every handler is an
async transaction which loads the row, awaits, and writes back only the columns
it changed, so two handlers interleave column by column.
*Hard.*  Several agents share a card and may all hold a plan with it; an agent may
be switched off mid-call; nothing renews a claim, only its age frees the card;
the stop flag belongs to the card and not to a call.
*Correct when.*  One modem per card; the readings of two sessions never mix; a
dead agent delays a card by at most its claim; a request and a slot are answered.

### Polling schedule — `backend/services/poll_schedule.py`, `cron_schedule.py`, `PollingDao.finish`

*State.*  The cron of the card, the stamps of the last success and the last attempt,
the `poll_attempt` journal, a standing request.
*Operations.*  `is_due` (pure), start, finish with or without success, the button,
its withdrawal, edits of the card.
*Hard.*  There is no queue: what is due is computed from stamps.  The retry budget
is counted from journal rows which say "manual" or not by what the card said when
the call *ended*; operators press and take back while the call runs.
*Correct when.*  A slot that succeeded is not called again, one that fails is
called at most the budget, one press is one call.

### Modem readings and gap search — `polling_dao.archive_gaps`, `polling_agent_ep.push_data`, `services/archive_gaps.py`

*State.*  The hourly and daily archives of correctors and of DPD lines; what the
correctors still hold, which is theirs wherever they stand.
*Operations.*  Name what to read (newer than the newest record, and the holes behind
it), push it, choose the archive it belongs to, compare the serial.
*Hard.*  The corrector is moved and the move is registered days later; records come
one by one and some do not come; the DPD refresh writes the same hours.
*Correct when.*  A reading is stored under its own corrector, a hole is filled with
what was measured there, and no hour the corrector holds stays unread for ever.

### HOSTLIB import lock — `backend/hl_engine/update_job_lock.py`

*State.*  One `update_job` row: status, token, the time of the last heartbeat.  The
temporary directories of the runs.
*Operations.*  acquire, heartbeat, finalize, reset by an administrator, the sweep of
orphaned directories.
*Interaction.*  Taken by API workers, by the scheduler and read by the updater.
*Hard.*  A run may stand still past the stale window and wake up beside its
successor; heartbeats may fail silently; `finalize` may fail.
*Correct when.*  It is a lease: only the holder gives it back or renews it, and a
run that keeps beating never loses it.

### File-arrival poller — `backend/hl_engine/scheduler_runner.py`, `main.py`, `utils/files_utils.py`

*State.*  `hostlib_archive_log` and what one poll carries from step to step.
*Operations.*  list the share, wait for files to settle, test the archives, run the
import path by path under the lock, write down what happened, forget rows of
files long gone.
*Interaction.*  The network share, the import lock, updates asked for by hand.
*Hard.*  Files are replaced and removed between listing and reading; the share goes
away; paths and engines fail separately; the process dies between the import and
the log.
*Correct when.*  Every whole archive is read, and read once.

### HOSTLIB readers, upserts, line cleanup and the composition report — `hl_engine/*_engine.py`, `db/dao/basic_dao.py`, `services/line_archive_cleanup.py`, `services/fhp_*.py`

*State.*  `hourly_archive` and `edit_archive` by line; nothing else, the report is
computed from them on every request.
*Operations.*  Unpack exports and let the engines commit what they hold, side by side;
clear a stretch; seed, step, average, sum.  The gas of a ring is the sum of its lines.
*Hard.*  Exports overlap and reach unevenly far; a clock set back gives an hour two
records; engines fail apart; the composition of an hour rests on a change that may
be years older than the hour, and a value holds until a change that is read later.
*Correct when.*  The report gives what the computers had in force, its days hold each
hour once, and nothing in it is changed by a later reading.

### Metering points and device histories — `services/device_history.py`, `enterprise_excel.py`, `archive_cleanup.py`, `api/endpoints/enterprise_ep.py`

*State.*  `enterprise_device`: which corrector stood at which point from when; the
end of a stay is derived from whoever came next.  An Excel workbook outside the server.
*Operations.*  Edit a history (check against the other points, delete, insert), export,
edit and import a workbook, purge what a point's windows cover, read days and hours.
*Hard.*  The check and the writes are separate statements under READ COMMITTED;
windows are derived, so an edit at one point moves the windows of the others' reads;
a day belongs to whoever stood there at its contract hour.
*Correct when.*  One device at a place, one place for a device, every hour and day
counted once, and a workbook comes back as it went.

### DPD archive refresh — `services/dpd_archive_refresh.py`, `dpd_client.py`

*State.*  One `dpd_refresh_job` row without a token, the plan of a run, the archives by
corrector.
*Operations.*  acquire, plan each device from what it holds, poll branch by branch,
heartbeat, finalize; a re-read of chosen days; a poll by hand; a wipe.
*Interaction.*  Scheduler, API workers, and edits of histories which change the windows.
*Hard.*  A request that fails looks like one without records; a run that stood still
wakes up beside its successor; a day read before it closed must be read again.
*Correct when.*  One run at a time, and after it every hour that was there is stored.

### DPD lines — `services/dpd_line_refresh.py`, `db/dao/dpd_line_dao.py`, `volume_fix.py`, `dpd_line_archive_cleanup.py`

*State.*  A line's own history of correctors, its archives, one job row; days whose
totaliser was set back, marked and summed from their hours.
*Operations.*  initialization (clears and reads all), update (carries on), pushes by a
modem, purge, correction of the history, `repair_after` behind every write.
*Hard.*  A corrector replaced inside a gas day; days and hours that arrive in any order
in transactions that do not see each other; a job that lost its lock.
*Correct when.*  A marked day is the sum of the hours stored now, and each hour is the
one of the corrector in force.

### Branch configuration transfer — `services/branch_config_transfer.py`

*State.*  Ten tables of a branch on two servers with unrelated ids; a JSON file.
*Operations.*  Export by natural keys; import: find the branch, match or create every
row, report what the file does not have.
*Hard.*  Both servers are edited between; names and numbers change on one side; unique
keys of other branches; points without a key of their own.
*Correct when.*  The file arrives whole, importing it again is silent, nothing is left
unseen and no other branch is touched.

### Server updater — `updater/pipeline.py`, `ops.py`, `store.py`, `main.py`

*State.*  Two checkouts, image tags (latest, prev, next), three containers, the
database and its schema revision, the job and what it has done so far.
*Operations.*  prepare, build, back up, switch, verify, roll back.
*Interaction.*  docker (which restarts containers by itself), git, alembic (run by
the backend whenever it starts), `pg_dump`/`pg_restore`, the import lock.
*Hard.*  Any command of any step fails, also in the rollback; the code of the
backend is mounted from the checkout, so what a container runs depends on when
it last started.
*Correct when.*  What a job reports is what the server is, and no stored data is
lost without it being said.

### The rest

Polling journal and settings, accounts and sessions, reference data and screens,
Telegram, migrations, operator scripts and research notebooks, the polling agent:
see section 8.

## 2 Modules

| Module | Models | Extends / instantiates |
|---|---|---|
| `PollSession` | the card protocol, handlers interleaving | |
| `PollSchedule` | `is_due`, the budget, the button | |
| `ModemArchive` | what a call asks for, pushes and stores | |
| `Lease` | what a long job's lock promises (abstract) | |
| `UpdateJob` | the import lock, its runs and their directories | `Lease` (refinement) |
| `HostlibPoller` | the poller, the share and the log | `Lease` (as its lock) |
| `LineArchive` | engines, clearing, the composition report, charts of rings | `DeviceHistory` |
| `DeviceHistory` | windows, gas days and attribution, without state | |
| `Register` | the rows of the points' histories and who measures by them | `DeviceHistory` |
| `MeteringPoints` | edits of the register, workbook, purge, reads | `Register` |
| `DpdRefresh` | the refresh of correctors' archives | `DeviceHistory` |
| `DpdLine` | one DPD line's jobs, pushes, repairs | `DeviceHistory` |
| `BranchTransfer` | export and import of a branch, edits between | |
| `Updater` | the update pipeline and its rollback | |
| `…_proofs` | theorems of `PollSession`, `PollSchedule`, `ModemArchive`, `DpdRefresh`, `DpdLine`, `Updater` | the module named |
| `HostlibImport_proofs` | theorems of the import's lock and of the archive it fills | `UpdateJob`, `LineArchive` |
| `RegisterAndFiles_proofs` | theorems of the register and of the two ways files come in; they share no state | `Register`, `BranchTransfer`, `HostlibPoller` |
| `MC…` | definitions TLC needs: schedules, histories, file layouts, symmetry | the module named |

Each module names, in its head, what it leaves out; `PROJECT.json` has the lines
behind each definition.

### PollSession

A *worker* is an open transaction.  A handler is two steps: `…_read` loads the
card, checks it and opens a transaction that remembers the loaded columns the
handler goes on to use; the commit step (`claim`, `finish_commit`,
`request_manual` …) writes the columns that differ from the loaded values.  This is
what SQLAlchemy's unit of work does, and it is where a request committed inside
somebody else's `finish` survives or is lost.  `claim` is the exception: its
`UPDATE … WHERE` (`Claimable`) reads and writes in one statement.

| Variable | Code |
|---|---|
| `polling_agent_id`, `polling_since`, `cancel_requested_at`, `manual_requested_at` | columns of `poll_device`; times are ages in ticks, capped just past the limit they are compared with |
| `slotDue` | the schedule's part of `is_due`, whatever it is (PollSchedule has it in full) |
| `account`, `assigned` | `poll_agent`, `poll_agent_device` |
| `plan`, `line`, `lineAge` | the agent: what it was offered, the card its modem is on, for how long |
| `tx` | open transactions |
| `early`, `overran` | history: the transactions that were past their check when another claim of the card was made; whether a call has outlived its claim |
| `claimer`, `takenBack` | history, read by no guard |

The agent is a Windows program outside the repository.  It is modelled by the calls
the server accepts: fetch a plan when idle, start, push, finish, hang up when
refused.  `push_log`'s only effect that changes state is the refusal; told to stop
by its answer, the agent goes on to finish like any call.

### PollSchedule

A real clock (`now`), a schedule as the set of its moments, `is_due` as written
(manual branch first, then the pause after an error, the budget, the comparison of
the last success with the last slot).  `finish` labels the attempt by the request
standing when it ends.  Who gets the card is PollSession's subject: here a call runs
or is dead and still holds its claim.

### ModemArchive

One agent with one modem, so one call at a time (PollSession is about several).
`stands` is where a corrector is, `registered` what the server believes, `ring` what
each corrector still holds with the place it was measured at.  `get_plan` computes
the hours newer than the newest record and the holes (`archive_gaps`), `answer` is
the corrector that picks up and says its serial or does not.  The handler of a push
reads the register twice and nothing holds it still in between: `push_data` compares
the serial (`Expected`), or has nothing to compare, and leaves the batch in `push`;
`store_batch` chooses the archive (`archive_of`) and upserts.  `move`, `register` and
`take_out` change what stands and what is entered, between the two as well.
`upsert_dpd` is the refresh beside it: it does not overwrite what a modem brought.

### Lease, UpdateJob

`Lease` is the abstract promise: granted when free or lapsed, renewed and returned by
its holder alone, lost to others only by lapsing or by a reset.  A holder that lost
it may still be at work (`active`), which the code cannot prevent.  `UpdateJob` has the
row with its WHERE clauses, runs that hang, go mute, wake, crash or fail to
finalize, and `_cleanup_orphan_temp_dirs`.  The mapping is at the end of the
module: the owner is the token while the status is `running`, the lease has lapsed
when the row is older than the window.

### HostlibPoller

One poll is `list`, `scan`, `acquire`, a `process_path_group` per path, `finalize`,
`log_`; `crash` may come between any two.  The share changes at any moment.  The
lock is `Lease`, which UpdateJob implements; updates by hand are its other holder.
`Targets` keeps the detail that a path without new archives is not a key of
`archives_by_path`, and that no key means every archive.

### LineArchive

An export holds every line from the beginning to the moment the server last called
it; `export` adds one.  A run takes the exports the poller has not read, or all of
them, and starts the engine of the hours and the engine of the changes, which commit
or fail apart (`commit`, `fail`).  `merge_same_period` and `bulk_upsert_via_copy` say
what becomes of an hour with two records.  `purge` clears a stretch.

The report is a value, not a step: `build_route_report(range, daily)` over the rows
stored.  `build_param_series` seeds a line with the last change before the range, or
with what the first change inside replaced, and turns the changes into steps;
`hourly_series` averages them by the time in force; `reference_series`, `deviations`,
`spread_series` and `staleness` are the block of a quantity; `HourlyDelta` and
`fold_sum` give the corrected volumes.  Values that the code takes for sensor errors
are values outside `Plausible`.  The equation of state is a difference: zero where the
compositions agree and in proportion to the gas, which is what the sums need.
`get_archive` is what a chart shows when lines and rings are asked for together.

### DeviceHistory, Register, MeteringPoints

`DeviceHistory` has no state: `Precedes` is the order of installations, `Covers` the
windows derived from it, `Opening` and `day_of` the gas day with its contract hour,
`ReadsDay` the bounds a daily read uses.  `Register` has the `enterprise_device` rows by
id and what has to hold of them whoever wrote them; `MeteringPoints` is who does.  An edit by a `session` is `validate_history` (the check against the other
points), `begin_delete` (the rows it saw), `insert` (waits for whoever holds one of
them), `commit` or `fail` over a unique stamp.  `import` folds `upsert` over the lines of
a workbook that was exported earlier and edited (`Handed`).  `purge` takes the hours and
days that the windows of a point cover.

### DpdRefresh

| Variable | Code |
|---|---|
| `row`, `times` | `dpd_refresh_job`: status, stamps, the hours of the day it runs at |
| `run` | what each process has in memory: when it began, the requests left, by device the end of service it saw, whether every request was answered |
| `assigned` | the windows of each device, from the register |
| `hourly`, `daily`, `settled` | rows stored; a daily row read after its day had closed |
| `lost`, `astray`, `shared` | history: requests that failed, devices whose archive was wiped or polled by hand, whether a run was overtaken |

`maybe_refresh_dpd` is the scheduler's test, `trigger` and `reread` the screens',
`plan` the whole of `_plan_branch`, `refresh_branch` one request with its heartbeat,
`branch_fails` a branch that raises, `finalize` the close of the row, `die` and a tick
between any two steps a process that stops or stands still.

### DpdLine

One line with its job row.  `acquire`, `init_line_locked` (clears, then asks for
everything) and `update_line_locked` (carries on), `get_volumes` and `store` for each
request; `push_data` may land between them.  `upsert_records` writes and runs
`repair_after`; `upsert_overlapping` is two transactions that do not see each other's
rows (`missed` names their days).  A corrector counts as many units in an hour as its
number, so a stored volume says whose it is.

### BranchTransfer

`db[server]` has the ten tables; ids begin with the serial of the step that made them,
so ids of two servers mean nothing to each other.  `Export` is the file; `import_branch`
is the import: `Stand` finds or makes the row each name of the file stands for (`LumgId`,
`CalcId`, `LineId`, `RowId`, `PointId`), `Write` lays the file's rows over the tables in
the code's order (`LumgRows` … `PointRows`), `Left` and `Extra` fill the report; `Refused`
and `Collides` are its errors and unique indexes.  `Sound` is what the foreign keys and
the unique indexes keep of the tables.  Administrators choose a target and a mapping
(`Choices`; `FromFile` leaves the target to the file).  Eleven edits by hand run on
either server.

### Updater

`job.step` is the place in the pipeline, and the other fields of `job` are the
attributes of `Update` which the rollback consults (`built`, `swapped`, `merged`,
the old revision, the copy of the database).  A container is the code and the image
it runs and whether it came up.  Starting the backend migrates (`CanUpgrade`,
`Upgraded`): all pending migrations in one transaction.  Every command has a failing
outcome that leaves what a failing command can leave: a stop that reports a failure
after having stopped the container, a first tag without the second, a fast-forward
that wrote part of the files.

## 3 Runs

| Run | Asks | Properties |
|---|---|---|
| `poll_safety` | Two agents, one card, two open transactions, operators at work, agents that crash, are deleted, deactivated and reassigned, calls that outlive their claims | `OneCallPerCard`, `LoserStops` |
| `poll_live` | The same with one transaction at a time, under fairness | `RequestAnswered`, `SlotAnswered` |
| `schedule_budget` | One card through several slots with failures, dead agents, presses, withdrawals, an edited schedule | `SlotSettled`, `RequestOnce` |
| `modem` | A site and a line whose correctors are swapped with a spare one, registered late, taken out of the register, switched off, read with losses or without a serial, beside the refresh | `MisfiledOnlyBetweenTheReads`, `HolesAreTheLines`, `ModemIsTheTruth`, `EveryHourIsRead` |
| `job_lock` | Three runs of the import that hang, go mute, crash, fail to finalize, are reset | `FitRunOwns`, `SweepIsSafe`, `IsALease` (refinement) |
| `poller` | A file on each of two paths, one of them replaced, whole or cut, with a trouble at any step | `AgainElsewhere`, `OnlyBlamedAreShutOut`, `EveryArchiveIsRead` |
| `report` | Two lines of a route and two rings, exports that overlap, engines that fail, an hour read twice, a clearing | `ReportIsTheRecord`, `DaysAddUp`, `ReportedIsFinal` |
| `register` | Two requests, a workbook and purges on two points and two correctors | `OneDeviceAtATime`, `DailyReadIsAttribution`, `FreshEditKeepsPlaces`, `FreshEditIsExact`, `PurgeIsWhole`, `RoundTripKeeps` |
| `refresh` | Two processes refresh one corrector through two gas days, hang, die, are overtaken, fail, beside wipes, polls by hand and moves | `OneRun`, `HolesAreBlamed`, `CatchesUp`, `RereadCloses` |
| `line` | Three jobs of two processes on a line whose corrector is replaced inside a gas day set back | `MarkedDayIsSummed`, `SumIsOfItsHours`, `LineHasNoHole`, `InitIsExact` |
| `transfer` | A branch on its own server and one where it was typed in by hand, five steps of export, import with every choice, and edits | `ImportCarries`, `SecondImportIsSilent`, `LeftoversAreTold`, `OthersUntouched` |
| `updater` | Two updates over three versions, failing commands, containers that restart by themselves, imports, writers | `OutcomeIsTrue`, `NoSilentLoss`, `SchedulerKnowsSchema` |

What they show.

*Polling.*  While no call outlives its claim, no interleaving of handlers lets
two modems dial one card; and no crash or deletion keeps a card from the agents that
are left.  An agent that did outlive its claim and lost the card to another gets in at
most the one request that was past the check when the card was claimed, as long as the
other holds the card; what it may do after that is in section 7.  A slot ends with one success
or at most the budget of failures, however the button is used meanwhile; a press is
one call even when it fails.  A reading gets under another corrector's name in one way
only, by an edit of the register between the comparison of the serial and the choice of
the archive, or with no serial to compare; moves and late entries during a call do not
bring it about.  A hole of a line is filled with what was measured on the line, as long
as there was something to compare; the refresh does not overwrite the
modem; and an hour lost on the way is read by a later call.

*HOSTLIB.*  The import lock is a lease: nothing a run does after having lost it
touches its successor's row, and the sweep deletes a directory in use only if one of
the two runs had gone silent or was reset.  The poller reads every whole archive that
stays on the share, except those that one of three failures strikes, which the log
writes down as read or broken (`blamed`).  It reads an archive again only in a run whose
new archives all lie on other paths (section 7): ages, forgetting, failures and crashes
make it read none twice.  In whatever order
exports overlap, engines fail and stretches are cleared, an hour of gas is stored once;
where a line's changes are all stored, the report gives what its computer had in force,
and of a line that is up to date it gives nothing that a later reading would change.
Hours, days and totals of a report agree, and a ring has the gas of all its lines.

*DPD.*  An edit of a point's history that nobody outran since it was checked leaves
one place to a device and exactly the history asked for; a day is read once, where its
opening was covered; a workbook imported back changes nothing while every corrector is
where it shows it.  Runs of the refresh do not double until a lock is taken over from
one that stands still; an hour missing below the newest one was in a request that
failed or was made in the night of its day; a run that was answered throughout catches
up, and a re-read closes what was open.  On a line, a day set back is the sum of the
hours stored now, whatever wrote last, except where two transactions did not see each
other; an undisturbed initialization is exact and updates leave no hole.

*Transfer.*  Whatever was edited on either side and whatever the administrator chooses,
an import that is not refused brings every row of the file with its references, tells
what the file does not have, touches no other branch, and is silent when repeated, but
for namesakes (section 7).

*Updater.*  Whatever command fails, a job that says *updated*, *rolled back* or
*not done* tells the truth about checkouts, images, containers and schema, with three
exceptions that `OutcomeIsTrue` names.

Every property is violated when one definition of its module is replaced by a
plausible mistake; those mistakes stand beside the definitions they replace, marked
`mutant`.  The type invariants are stated in every module; they are proved for
`PollSession`, `PollSchedule`, `UpdateJob`, `HostlibPoller`, `ModemArchive`, `DpdRefresh`,
`DpdLine` and `Updater`, in those modules' words or finer ones.

## 4 Bounds

| Bound | Value | Why it is enough |
|---|---|---|
| agents, cards (PollSession) | 2, 1 | a conflict needs two agents and one card: the only thing cards share is the agents' modems, one per agent; the proofs hold for any number |
| open transactions | 2 (`live`: 1) | two let every handler run inside every other; a third cannot see anything the second could not leave behind in the row |
| `ClaimTimeout`, `CancelWindow` | 1 tick | what matters is before, at and after the limit: ages 0, 1, 2 |
| `MaxDisruptions` | 2 (`live`: 1) | one to break a call, one to strike its successor |
| `Overrunners` | both agents (`live`: none) | a loser, the one that took its card, and both late at once; `live` asks how long a card can wait for an agent that keeps to its claim |
| `Horizon`, `FailureWindow`, `Crons` | 7, 5, slots five apart | two slots, at one of two hours of the day, with room for pauses and a budget of 2 within the day whose failures are counted |
| presses, withdrawals, losses, edits | 2, 1, 1, 1 | one press relabels a call, a second one shows it is not two |
| correctors, places, hours (ModemArchive) | 3, 2, 0–4 | one for each place and one to swap in; a corrector overwrites its first hours (`Depth` 3) while they are still missing |
| moves, troubles (ModemArchive) | 1, 1 | a swap while a call runs, before or after it is registered; one hour lost, off or brought by the refresh, one answer without a serial, or a corrector taken out of the register |
| runs, `StaleSeconds`, `MaxTroubles` (UpdateJob) | 3, 2, 3 | a loser, its successor and the successor's successor |
| files, paths, copies, troubles (HostlibPoller) | 2, 2, up to 2, 1 | a path with new archives beside one without; one file is replaced.  A row is forgotten only while its path lists another file, which one file to a path never brings about: there the run shows that nothing is forgotten too early, and the proofs, for any files and paths, cover the rest |
| `RetryAfter`, `ForgetAfter` | 1, 2 ticks | a retry within and after the pause, a row kept and dropped |
| lines, references, rings (LineArchive) | 2, 1, 2 | a line compared and one it is compared with; a line two rings share |
| `Clock`, `DayLength`, `ContractHour` | 8 half hours, 4, 2 | two gas days of two hours, the second cut by the end; days and dates differ |
| logs | two of the compared line | changes within an hour, on the hour, two at one moment, before the first day, values out of range first and in between |
| exports, runs, clearings (LineArchive) | 2, 2, 1 | overlapping exports read in one run, in two, or twice; a clearing between any two commits |
| points, correctors, requests (MeteringPoints) | 2, 2, 2 | an edit checked against a point another edit is changing |
| histories | six | stays that end, chains of two, a change inside a day, stamps finer than an hour, none |
| `Horizon`, `MaxFiles` (MeteringPoints) | 10 half hours, 1 | two days of two hours; one workbook or purge beside the requests |
| corrector, processes, runs (DpdRefresh) | 1, 2, 2 | devices meet only in a branch that fails, which `branch_fails` drops whole; a run and the one that overtakes it |
| `Horizon`, `Stale`, `MaxTroubles` (DpdRefresh) | 6 hours, 1, 1 | two gas days of three hours with a night between them; one failure, death or overtaking |
| correctors, processes, jobs (DpdLine) | 2, 2, 3 | a replacement inside a day; an initialization, its update and a job that takes over |
| `Horizon`, `SetBack`, `MaxTroubles` (DpdLine) | 4 hours, day 0, 1 | two gas days, one of them set back and shared by two correctors |
| servers, branches, points (BranchTransfer) | 2, 1 and 2, 2 and 1 | a branch that must find itself under another id, a branch beside it with a code and a name in common, two points of one name |
| steps, edits (BranchTransfer) | 5, 1 | export, an edit on either side, import, import again, back |
| versions, updates, troubles (Updater) | 0–2, 2, 3 | an update after a rolled-back one; three failures reach the second attempt of a rollback's start and its own failure |

Moments are half hours in `MeteringPoints` and `LineArchive`, where something happens
inside an hour, and hours in `DpdRefresh`, `DpdLine` and `ModemArchive`.

Where a bound only keeps the model finite (presses, edits, horizon, jobs, exports) the
run may come to its end, and its configuration does not look for deadlock; the
protocols themselves (`poll_safety`, `poll_live`, `poller`, `modem`) never stop.
Symmetry is used of agents and transactions (`poll_safety`), sessions (`register`) and
processes (`line`), in runs without liveness and over definitions that do not tell
them apart.

## 5 Fairness

`PollSession!FairSpec`.  An agent asks for its plan every few seconds (weak fairness
of `get_plan`), takes what the plan offers and ends its calls, which modem timeouts
bound; a handler the server began is completed (weak fairness of `Commit`).  Strong
fairness is assumed of the two steps that need a free transaction and of the clock,
since the slot of an open transaction may be taken by others again and again while a
real server has many.  Nothing is assumed of operators, crashes or slots.  A crashed
agent comes back, because a workstation asks for its plan as soon as it is on; one
that does not is covered by the other agent, and the properties except a card nobody
active is assigned to.  `SlotAnswered` also ends when somebody raises the stop flag:
operators may do so forever.

`ModemArchive!FairSpec`.  Strong fairness of `get_plan(p)` for each place: the plan is
sorted by the oldest poll (`polling_agent_ep.get_plan`), so no place that is due waits
for ever behind others; weak fairness of answering, pushing and ending the call, which
the agent goes on doing, and of storing the batch, which the handler goes on to.  None of
moves, their registration, the refresh or the clock.

`HostlibPoller!FairSpec`.  The poller loops with a pause and docker restarts it (weak
fairness of its steps together: one process); a run by hand ends or its heartbeat
goes stale; clocks run; an unreachable share is mounted again some day.  No fairness
of the source that copies files: `EveryArchiveIsRead` says that whatever lies there
is, again and again, either read or gone.

The other runs ask nothing that needs fairness.

## 6 Proofs

Checked by TLAPS, for every value of the constants that meets the assumptions.

| Theorem | States |
|---|---|
| `PollSession_proofs!TypeInvariant` | `Spec => []TypeOK` |
| `PollSession_proofs!SessionInvariant`, `OneCall`, `HoldersRunOut` | until a call outlives its claim: `SessionInv`, and from it `OneCallPerCard`, `HolderHasSince` |
| `PollSession_proofs!LosersStop` | `LoserStops`, calls that outlive their claims included |
| `PollSchedule_proofs!TypeInvariant`, `OnePressOneCall` | `TypeOK`, `RequestOnce` |
| `PollSchedule_proofs!OneSlot` | with `SlotsAreClose`: `SlotSettled` |
| `HostlibImport_proofs!TypeInvariant`, `FitRunsOwn`, `SweepsAreSafe`, `JobIsALease` | `TypeOK`, `FitRunOwns`, `SweepIsSafe`, and the refinement `Spec => Lock!Spec` |
| `HostlibImport_proofs!ArchiveTypes`, `NothingReportedChanges` | `ArchiveTypeOK`, `ReportedIsFinal` |
| `RegisterAndFiles_proofs!PollerTypes`, `ShutOut` | `TypeOK`, `OnlyBlamedAreShutOut` |
| `RegisterAndFiles_proofs!OnlyElsewhere` | `AgainElsewhere`: with any number of folders |
| `RegisterAndFiles_proofs!OneDevice`, `DailyRead` | `Stamped => OneDeviceAtATime`, `Stamped => DailyReadIsAttribution` |
| `RegisterAndFiles_proofs!TransferTypes` | `TransferTypeOK`, with it the soundness of every server's tables |
| `RegisterAndFiles_proofs!OnlyItsBranch`, `EveryRowComes`, `NothingIsLeftUnseen`, `AnotherImportIsSilent` | `OthersUntouched`, `ImportCarries`, `LeftoversAreTold`, `SecondImportIsSilent` |
| `ModemArchive_proofs!TypeInvariant`, `OnlyBetweenTheReads`, `TruthStands`, `LinesHoles` | `TypeOK`, `MisfiledOnlyBetweenTheReads`, `ModemIsTheTruth`, `HolesAreTheLines` |
| `DpdRefresh_proofs!TypeCorrect`, `OnlyOneRun`, `Blamed`, `CaughtUp`, `Closes` | the types, `OneRun`, `HolesAreBlamed`, `CatchesUp`, `RereadCloses` |
| `DpdLine_proofs!MarkedDays`, `Sums`, `NoHole`, `Exact` | `MarkedDayIsSummed`, `SumIsOfItsHours`, `LineHasNoHole`, `InitIsExact` |
| `Updater_proofs!TypeCorrect`, `SchedulerKnows`, `NoLoss`, `Outcome` | the types, `SchedulerKnowsSchema`, `NoSilentLoss`, `OutcomeIsTrue` |

Every inductive invariant below was first checked by TLC on the states of the run that
checks the property, and the properties of `[][…]_vars` are proved of each step from the
same invariant.

**The assumptions.**  Each stands in the module that declares the constants.  Bounds and
limits are naturals, lengths of days, chunks and windows positive.  `Nobody`, `None`, `Null`,
`Idle`, `Torn` are none of the values they stand beside.  A calendar has whole days with
the contract hour inside (`CalendarAssumption`).  `ArchiveAssumption` starts each place
with one corrector and lets the search for holes reach back at least as far as a corrector
remembers, which is what `GAP_HOURS_BACK` is chosen for.  `LineAssumption` and
`RefreshAssumption` say of histories and chosen periods only that they are made of whole
numbers: windows may overlap, be empty or end before they begin.  `LineArchive`'s
`ArchiveAssumption` says that the computers' logs hold changes at moments, in any order, and none of them twice.
`TransferAssumption` says that every server begins with `Sound` tables and that names,
numbers and histories are of their kinds; `Null` is no id, name or server.
Nothing is assumed of
how many correctors, processes, files, versions, runs or troubles there are.

**The card protocol.**  `OneCallPerCard` is not inductive: that two agents are
not on one line says nothing of the claim that keeps the second one away.
`SessionInv` adds what connects them.  `CallOwnsClaim`: an agent on the line is the
one whose claim succeeded last, and the age of the claim is the age of the call, so
it has not run out.  `TxOwnsClaim` and `TxDistinct` say the same of an open
`push_data` or `finish_session`, which may go on in the server after its agent has
crashed.  `StartAlone` and `OneAnswer`: an agent waits for one answer at a time.  A
claim then succeeds only on a card whose claim has aged past the limit, and by the
invariant no call or open handler has one so old.  That calls end within
`CLAIM_TIMEOUT` is the code's own expectation and nothing enforces it, so the invariant
holds until `overran`, the first call that does not; no agent is assumed to be quick.
`LosersStop` needs none of it.  An open `push_data` or `finish_session` whose card is
somebody else's was past the check when that somebody's claim was committed (`LateInv`:
such a handler is in `early`, for the check admits only the holder or, of a card nobody
holds, anybody), and an agent waits for one answer at a time.

**One press, one call.**  `RequestInv`: every request a call was made for is older than
the end of that call, older than the request now standing and older than the one
being called for, so none can be called for again.
It rests on two facts of the model: a call lasts at least a tick and no plan is
carried across one.

**One slot, one success.**  `CallsInv` ties the history of calls to what `is_due` reads:
calls do not overlap, the last success is where `last_poll_at` says, and every failure
put down to a slot is an attempt the query would find.  `SlotInv` is the property with the
case it needs: a slot that is still callable has no success and less than a budget of
failures.  `is_due` counts the failures of one day only, so the slot they belong to must be
over by then: `SlotsAreClose` says that a slot is followed by the next within that window,
which holds of every schedule that calls daily or more often.  Of a weekly schedule the
property is not true: its budget starts over each day until the slot is three days old.
Only failures the journal does not call manual are counted: a button pressed before the
call ends relabels its failure, and the slot may then have one more.

**The import lock.**  `OwnerInv`: a fit run at work is the one in the row, and the row is
at most a tick old, which is within the window however short that is.  `Held` is what the
refinement needs: while the row says running, its token is a run's.  Each
action of `UpdateJob` is a step of `Lease` or leaves its variables alone.

**The poller.**  That nothing is read twice is a matter of four things that hold together
(`KnownInv`): what is known as read lies where it lay; the one row of its key says so, and
keeps saying so as it ages, for a row is dropped only where the folder lists something and
not the file; a listing names the known copy of a file and no older one; and a run takes no
file of which a copy is known, even if the copy it was to read was replaced meanwhile.
`NamedAlone` then says that a folder with new archives unpacks only those, and a run has at
least one; what is read again therefore lies in another folder, which is `OnlyElsewhere`.  `ShutOut` follows a copy from
`_process_path_group` to `_log` (`WorkDone`) and needs that a copy which was replaced never
comes back (`Versioned`, `StaysGone`).

**What a report rests on.**  `ReportedIsFinal` looks ahead: no change still to be read may
lie before the end of a report.  `ArchiveInv` says why none does where a line is up to
date.  What a run has unzipped is an export as it was written (`ExportsOK`), and every
change of a line before the moment its changes are `known` to is stored (`StoredAsKnown`):
a commit of the changes brings all of an export or nothing, an older export takes nothing
back, and a clearing that takes changes away sets the moment back.  A report ends at the
newest hour stored of any line (`Horizon`), which for a line that is up to date is its own
(`ReportEndsInTheKnown`); the hours of a line may be ahead of its changes, for the two are
committed apart, and then it is not up to date.

**The transfer of a branch.**  `TransferInv` is `TransferTypeOK` (on every server the tables
are `Sound`: ids made before the next step, keys unique within their parent, references to
rows there are) with `FilesOK` (a file names only what it holds, each name once).  It is
inductive because an import is three facts deep.  `StandsFor`: whatever the administrator
chose, as long as it was not refused, each name of the file stands for one row, either the
only one of the branch that bears the name or a new one, and two names never for the same
(`MergeStands`; this is where `LumgsRefused`, `Ambiguous` and the unique keys are needed).
`Written`: each table afterwards, row by row, is the file's where its ids are and the old
one elsewhere (`WriteIs`).  `Sound` again: no two rows end with one key
(`WrittenSound`).  The eleven edits keep `Sound` each by a lemma of its own.
`OnlyItsBranch` then needs that ids of another branch are not among those of the file
(`OthersStay`); `NothingIsLeftUnseen` that a row of the branch whose id is not among them is
in `Left`, or what it hangs from is; `EveryRowComes` that a row's name in the file, carried
to its id and exported again, is the same name (`RowsCarried`; for points, of which several
may bear one name, an injection between finite sets, `PointsCarried`).
`AnotherImportIsSilent` is the deepest: on the tables the first import left, the file finds
its branch by transfer id and each row by its key (`FoundAgain`), a point by name and
correctors, or by name where it kept an entry of its own and nobody shares the name
(`PointFoundAgain`); the same ids written a second time change nothing (`WrittenAgain`).
Edits clear the report and an export changes no table, so the property is established by
imports alone.

**The register.**  The two theorems are about every history and every calendar, not about
those an edit can reach: that the order of installations is total, so of two windows one
ends where the other begins; and that rounding a window's start up to the next midnight,
taken back by the contract hour, keeps exactly the days that open inside it.  `Stamped`
says only that row ids and stamps are numbers.  That `MeteringPoints!Spec` keeps it is
checked by TLC: the import folds over the lines of a workbook, and what a fold computes
for every workbook is induction over data, which the prover does not reach.

**A modem's readings.**  `BaseInv`: one corrector at a place, an answer holds only
hours its corrector has recorded and kept, none of them to come, and a batch on its way
was compared, if it has a serial, with its own or with none entered (`PushInv`).  That
gives `OnlyBetweenTheReads`, and `upsert`'s condition `TruthStands`.  Holes
need `LineInv`: since it came, the corrector on the line records there (`SinceInv`); if the
corrector entered has recorded elsewhere since the moment entered for it, then it is away and
nothing is stored from that hour on (`FloorInv`), so the search, which goes no further back
than that moment and no further on than the newest hour stored, asks for none of those
(`NewInv`, `HolesInv`).  All this rests on the comparison: a line called with nothing
entered, or answered without a serial, is excepted (`unchecked`), and until then every
call to the line is for an entered corrector and is answered by it (`ToldInv`).  The
other exception, `returned`, came out of the proof: see section 7.

**The refresh.**  `AloneInv`: until a lock is overtaken, a run at work is the only one and
its row says running.  `HoleInv`: below the newest hour stored, and up to the gas day that
opens on its date, every hour is stored or told by a failed request; likewise for days.
`RunsInv` says of each run in progress that no request of it reaches past the day it was
planned on (`ReachOf`), that the requests left are in an order in which what lies below
each is told or asked for before it (`OrderOf`), and that what it must have brought at its
end it has brought or still asks for (`CatchOf`, `RereadOf`).  Everything told only grows
(`Grows`), whatever another run, a poll by hand or a death does; a request is answered,
fails or is skipped (`Answers`, `Fails`, `Skips`); the two planners establish the
invariant (`PlanRoutine`, `PlanReread`).

**A line.**  `SumInv`: a day that stands for its hours has all of them, and is their sum
unless two transactions that did not see each other left it (`missed`).  `repair_after`
restores it behind every write because it looks at each day the write touched.  `CalmInv`
is about an archive nobody had his hand in: it has one job at most, what is stored and in
hand leaves no hole in anybody's service (`Open`), and an update's requests begin behind
the newest hour.  `ExactInv` is about an initialization that had the archive to itself: each
hour and day of a window that has been asked for is stored and is its corrector's, the rest
is still asked for (`ToCome`).  The chunks of a window cover it (`ChunkOf`, `Multiples`).

**An update.**  `IInv` has one part for each thing a command touches: the files are of the
commit checked out or torn (`TreeInv`); a scheduler that is up works on its own schema
(`SchedInv`); the database and its copy hold nothing nobody wrote, and what they miss is
told or will be (`DataInv`, `TablesInv`); what the server is while no job has begun to
change it (`RestInv`); the commits and tags a job has moved at each step, in the order of
the pipeline and its rollback (`JobInv`, `StepInv`); where the schema is (`RevInv`); and
which containers run on what (`VerifiedInv`, `RunInv`).  `OutcomeIsTrue` is then read off
the last step.  Migrations are sets of versions of any size; their greatest member exists
by the well-foundedness of the naturals (`LeastOf`, `LatestIs`), with no induction over an
operator.

Only model-checked, and why:

- `RequestAnswered`, `SlotAnswered`, `EveryArchiveIsRead`, `EveryHourIsRead`: liveness under
  fairness, which the prover does not reach.
- `FreshEditKeepsPlaces`, `FreshEditIsExact`, `RoundTripKeeps`: the rows they speak of have
  gone through the fold of an import, so even their types are induction over data.
  `PurgeIsWhole` needs of the stamps that they are whole hours, which is the same.
- `ReportIsTheRecord`, `DaysAddUp` of `LineArchive`: sums and series are folds over
  sequences of any length.

## 7 Where the code and its comments disagree

None of the following is among the runs.  Those with a name are stated in their module
and fail when the property is put in the place of those of the run given.

| Property | Shown |
|---|---|
| `PollSession!WithdrawnIsNotDialled` (`poll_safety`) | The answer to a withdrawal says that an agent which already took the request will not dial (`polling_ep.py:597`).  The flag is spent by the first of the carriers that reaches start; the second dials. |
| `PollSession!StandingRequestIsDue` (`poll_safety`) | "The agent picks it up with its next plan."  A request committed between finish's load and its commit stays standing but is older than the success, so it is never due (`polling_dao.py:477`).  `RequestAnswered` is therefore checked with one transaction at a time. |
| `HostlibPoller!LoggedIsRead` (`poller`) | "Logged as done only where the update succeeded" (`scheduler_runner.py:280`).  An engine that fails outside the routed mode, or an error before the groups, is caught without naming the path (`main.py:185`). |
| `HostlibPoller!ReadOnce` (`poller`) | "An archive that is in it is not read again" (`scheduler_runner.py:13`).  A path without new archives gets no names, and no names means all of them (`main.py:202`). |
| `Updater!ImportIsNotCut` (`updater`) | "An update must not cut it off."  Whether an import runs is asked once, before the images are built. |
| `MeteringPoints!RoundTripAlwaysKeeps` (`register`) | "A re-import of this file does not change the history."  It does where a corrector was moved on and the point it left still shows it in its last row. |
| `MeteringPoints!PurgeSparesOthers` (`register`) | "Deleting the archive of this enterprise by device alone would take another enterprise's gas with it": the purge ends a window at the removal as stored, the reader at the next installation too, so a purge reaches past what its point reads. |
| `DpdRefresh!ClosedByItsRun` (`refresh`, `MaxRuns = 3`) | "A process that hung and then woke up must not write its result over the run that replaced it" (`dpd_archive_refresh.py:251`): the row has no token, and a run replaced by one that runs still is closed by the sleeper.  `dpd_line_refresh._finalize` argues in the same words. |
| `DpdRefresh!NoHourFallsBetween` (`refresh`, `MaxTroubles = 0`, `Chosen = {}`) | "No hour falls between two chunks" (`dpd_archive_refresh.py:342`): a run in the night, between midnight and the contract hour, stores hours of a new date; the next carries on from that date's contract hour and leaves out the rest of the night. |
| `BranchTransfer!AgainIsSilent` (`transfer`) | A file imported again is promised to update nothing (`branch_config_transfer.py:1633`): a point that kept an entry of its own beside a namesake is not found again and is made once more. |

Seen while modelling, not stated as a property:

- An agent that lost its claim "must stop writing", for otherwise "two sessions would
  interleave into one log and one archive" (`polling_agent_ep.py:221`).  It gets in the
  one request that was past the check (`LoserStops`).  If that is its `finish`, it frees
  the card its successor is dialling, so the card may be claimed again beside it
  while its own claim is fresh; and once nobody holds the card, the check admits the late agent
  again.
- "A reply from another device is not written and not silently accepted"
  (`polling_agent_ep.py:521`), and storing by "the same resolution the plan uses" means
  that "a poll and its storage can never disagree" (`polling_dao.py:646`).  The serial
  and the archive are looked up by two statements, each of which sees what is committed
  by then: with an edit in between, the old corrector's rows are stored under the new
  one.  With no serial in the answer, or nothing entered, nothing is compared.  A row
  that got under another's name also hides the hole from the search for holes.
- A failure of a slot is put down to the button when the card says so at the end of the
  call (`polling_dao.py:1015`), and is then not counted against the slot.
- Two edits of the register that overlap may leave a corrector at two points
  (`enterprise_ep.py:1317`) or both histories at one (`enterprise_dao.py:183`); the
  properties of `register` speak of edits nobody outran.
- Of a line whose hours were imported and whose changes were not, because one engine
  failed, a report gives values the next import replaces (`main.py:120`).
- A line's first calls have no floor: the hours newer than the newest record are asked
  for from the beginning, and a corrector brings what it recorded elsewhere
  (`polling_agent_ep.py:336`).  The steps: a corrector records an hour elsewhere, is put
  on an empty line, is registered, called, answers, and its row is stored; `_archive_of`
  says that the months it spent elsewhere "must not land in this line's archive"
  (`polling_dao.py:703`), and only the search for holes keeps to that.
- The holes of a line are asked for from the moment entered for its corrector
  (`polling_dao.py:703`).  A corrector that leaves the line and is back before anybody has
  entered its absence keeps the moment of its first arrival, and the hours of its absence
  count as the line's holes.  `HolesAreTheLines` excepts it by `ModemArchive!returned`; it
  takes two moves where the run makes one, and the theorem any number.  Hours of an earlier
  stay on the line, on the other hand, are never asked for, so `EveryHourIsRead` speaks of
  those since the corrector last came.
- The composition before a line's first change is what that change replaced; where that
  cannot be read the code takes the first plausible one of a *later* change, so hours
  before it get a value set after them (`fhp_route_service.py:448`).  `Readable` keeps
  those ranges out of `ReportIsTheRecord`.
- "Nothing re-reads them by themselves" (`line_archive_cleanup.py:26`): the next export
  of the month brings a cleared stretch back.  Clearing takes changes away that hold
  beyond the stretch, and the report of the days after it goes on with an older value.
- Of two exports of one name the larger is read, although the smaller may be the newer
  (`files_utils.py:174`).  When one engine fails the others are not stopped
  (`main.py:118`), and go on without the lock.
- "By whichever of the two comes second" (`volume_fix.py:16`) holds of transactions that
  follow each other; of two that overlap neither sums the day (`DpdLine!missed`).
- A corrector taken off is dropped once its archive reaches the day it came off:
  "Nothing more will ever arrive for it" (`dpd_archive_refresh.py:442`), although that
  day may have been read before it was over.
- "Everything refused here" (`branch_config_transfer.py:709`): the names of calculators
  are only refused by the database, in the middle of the import.  A management section
  moved to another branch unties its points at the branch's own re-import.
- Two saves of one ring at once (delete the members, insert them) can leave the members
  of both.  A ring without flow in an hour is shown with a pressure, a temperature and
  a density of zero.
- Past 256 KB the polling journal's live view numbers lines by their place in the tail
  (`poll_journal.py:205`) and stops moving; a call that never began its own journal ends
  in the file of the one before.
- Two edits of rights at once both pass the check that an administrator is left and both
  raise the version of the same rights by one (`auth_ep.py:649`).
- A fast-forward that breaks off leaves files of the new version under the old commit,
  for the rollback resets only what was merged; `pg_restore --clean` leaves the tables
  the copy does not hold.

## 8 What is not modelled

*Of the modelled parts.*

- Polling: creating and editing cards, the agent version gate and `touch_agent` (one
  request, one row); `parse` and `matches` of a cron expression and the cap on gap
  fills; batches of more than one hour, and of an agent that pushes on without waiting for
  the answer; the values in a row, the search for missing days (the same over dates) and the
  backfill on demand.
- HOSTLIB: the size limits of an extraction; the parsing of binary records; the daily,
  system and parameter archives, read like the changes; a change logged again with the
  same values in the same second, which the unique key of `edit_archive` drops; the equation of state, the
  tolerances and the statistics of a report, a ring's pressure and temperature.
- Points and lines: a point's line, flags and modem card; names and units of lines.
- DPD: the values of rows in `DpdRefresh`; answered records without a volume or with an
  unreadable stamp, which `_rows_from` drops, so that an hour of which the service has only
  such a record stays missing without a failed request; progress counters, the bulk purge of lines.
- Transfer: columns that are only copied, data paths, the DPD access, device mappings,
  files edited outside the program.
- Updater: the check of the remotes, the job files and their log, the settings.

*Whole parts.*

| Component | Why |
|---|---|
| Polling journal and settings | stores and formats what an agent reports; nothing reads it to decide |
| Accounts and sessions | checks of one request over one row |
| Reference data and screens | single rows; an import's view of them is in `BranchTransfer` |
| Telegram notifier | sends messages, keeps nothing |
| Schema migrations | data definition, run once; when and by whom they run is in `Updater` |
| Operator scripts, research notebooks | statistics and tools run by hand, outside the program; together with the migrations they are nearly a third of its lines |
| Polling agent | a binary; `PollSession` and `ModemArchive` model it through the calls it may make |

## 9 Plan

Modelled, in this order: `PollSession`, `PollSchedule`, `Lease`, `UpdateJob`,
`HostlibPoller`, `Updater`; then `DeviceHistory`, `MeteringPoints`, `DpdRefresh`,
`DpdLine`, `BranchTransfer`, `ModemArchive`, `LineArchive`.

Next proofs, the most valuable first:

1. The lookups behind `LineArchive!ReportIsTheRecord`: the value in force at a moment is
   that of the last change before it.
2. `SlotSettled` for the schedules whose failures are forgotten: which bound holds instead.
3. `FreshEditKeepsPlaces` for registers without an import, where the types can be had.

Next to model: `cron_schedule` as functions against a reference, in the place of the
set of moments in `PollSchedule`; the updater's job files across a restart
(`recover_interrupted`); the journal of a call beside its live view.
