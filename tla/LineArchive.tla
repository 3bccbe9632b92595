---------------------------- MODULE LineArchive ----------------------------
(***************************************************************************)
(* The archive of the HOSTLIB lines of one route: the engines that read the *)
(* exports into it, the clearing of a stretch of it, and the report «Звірка *)
(* ФХП» that is computed from it.                                           *)
(*                                                                          *)
(* A computer keeps hours of gas and a log of the changes of a quantity     *)
(* [at, old, new], none of them twice, for the unique key of edit_archive   *)
(* would drop the second.  An export holds, line by line, what the server   *)
(* had read by then, from the beginning.  The engine of the hours and the   *)
(* engine of the changes commit apart.  A mean is kept times MeanScale, so  *)
(* that halves are whole numbers.  The report is one step: nothing that is  *)
(* committed while its statements run lies before the horizon it read       *)
(* first, unless a line was behind.                                         *)
(***************************************************************************)
EXTENDS DeviceHistory, FiniteSets, SequencesExt, TLC

CONSTANTS
  Lines,
  References,   \* is_reference: the lines the others are compared with
  Rings,        \* the active virtual lines, each with its lines
  Logs,         \* what the computers may have logged, a sequence for each line
  Plausible,    \* values within PLAUSIBLE
  Twice,        \* hours a computer wrote as two records when the clock went back
  Hollow,       \* hours with an empty record beside the real one
  StaleAfter,   \* stale_after_hours, in moments
  Clock,        \* the last moment looked at
  Clearings,    \* what somebody may clear: lines, first day and last
  MaxExports, MaxRuns, MaxPurges  \* bounds on what the environment does

ASSUME ArchiveAssumption ==
  /\ Clock \in Nat /\ MaxExports \in Nat
  /\ \A logged \in Logs : \A l \in Lines : \A i \in DOMAIN logged[l] : logged[l][i].at \in Nat
  /\ \A logged \in Logs : \A l \in Lines : \A i, j \in DOMAIN logged[l] :
       logged[l][i] = logged[l][j] => i = j

VARIABLES
  now,
  log,       \* the changes each computer logs over the whole time looked at
  exports,   \* archives on the path: how far each line reaches, by export
  unread,    \* exports the poller has not read
  run,       \* the exports being read, or {}
  runs,      \* runs begun so far
  tasks,     \* engines that have not committed yet
  rows,      \* hourly_archive: line, hour -> gas
  edits,     \* edit_archive: the indices of log that are stored, in its order
  purges,    \* clearings so far
  known      \* history: how far the changes stored reach without a gap

archive == <<now, log, exports, unread, run, runs, tasks, rows, edits, purges, known>>

MeanScale == 4

Least(a, b) == IF a < b THEN a ELSE b
Most(a, b)  == IF a > b THEN a ELSE b

Hours == {t \in 0 .. Clock : t % 2 = 0}
Days  == 0 .. day_of(Clock)

NoRows == [h \in {} |-> 0]

ArchiveTypeOK ==
  /\ now \in Hours
  /\ log \in Logs
  /\ Len(exports) <= MaxExports
  /\ unread \subseteq DOMAIN exports /\ run \subseteq DOMAIN exports
  /\ \A l \in Lines : DOMAIN rows[l] \subseteq Hours /\ edits[l] \subseteq DOMAIN log[l]
  /\ known \in [Lines -> 0 .. Clock]

ArchiveInit ==
  /\ now = 0
  /\ log \in Logs
  /\ exports = <<>>
  /\ unread = {} /\ run = {} /\ runs = 0 /\ tasks = {}
  /\ rows = [l \in Lines |-> NoRows]
  /\ edits = [l \in Lines |-> {}]
  /\ purges = 0
  /\ known = [l \in Lines |-> 0]

-----------------------------------------------------------------------------
(* Reading exports *)

Reached(l) == IF exports = <<>> THEN 0 ELSE Last(exports)[l]

\* Time passes; the server has called some of the lines, and saves what it holds.
export(called, moment) ==
  /\ Len(exports) < MaxExports
  /\ now <= moment /\ Opening(0) < moment   \* nothing is reported of what is before
  /\ now' = moment
  /\ exports' = Append(exports, [l \in Lines |-> IF l \in called THEN moment ELSE Reached(l)])
  /\ unread' = unread \cup {Len(exports')}
  /\ UNCHANGED <<log, run, runs, tasks, rows, edits, purges, known>>

\* Of the files of one name the largest is unpacked: what it reaches, line by line.
unzip_files(batch) ==
  [l \in Lines |-> exports[CHOOSE i \in batch : \A j \in batch : exports[j][l] <= exports[i][l]][l]]

\* update_hostlibs for the poller, or for somebody who asks for everything on the
\* path to be read again; the lock keeps a second run out.
update_hostlibs(batch) ==
  /\ run = {} /\ batch # {}
  /\ runs < MaxRuns
  /\ run' = batch
  /\ runs' = runs + 1
  /\ tasks' = tasks \cup {[engine |-> e, run |-> runs', files |-> unzip_files(batch)] :
                            e \in {"hourly", "edit"}}
  /\ UNCHANGED <<now, log, exports, unread, rows, edits, purges, known>>

Flow(h) == h + 1

Records(h) ==
  (IF h \in Hollow THEN <<0>> ELSE <<>>) \o <<Flow(h)>> \o (IF h \in Twice THEN <<Flow(h)>> ELSE <<>>)

Total(s) == FoldLeft(LAMBDA a, b : a + b, 0, s)

\* The records of one hour in one file: the flowing ones are summed.
merge_same_period(records) ==
  LET flowing == SelectSeq(records, LAMBDA v : v > 0)
  IN  IF flowing # <<>> THEN Total(flowing) ELSE Last(records)

FileHours(upto) == {h \in Hours : h + 2 <= upto}

\* bulk_upsert_via_copy with overwrite_on = volume: a row is added, or replaced by
\* what a later export says of it.
bulk_upsert_via_copy(l, upto) ==
  [h \in DOMAIN rows[l] \cup FileHours(upto) |->
     IF h \in FileHours(upto) THEN merge_same_period(Records(h)) ELSE rows[l][h]]

commit_hourly(t) ==
  /\ t.engine = "hourly"
  /\ rows' = [l \in Lines |-> bulk_upsert_via_copy(l, t.files[l])]
  /\ UNCHANGED <<edits, known>>

\* edit_all_constraint: a change that is stored already is left alone.
commit_edit(t) ==
  /\ t.engine = "edit"
  /\ edits' = [l \in Lines |-> edits[l] \cup {i \in DOMAIN log[l] : log[l][i].at < t.files[l]}]
  /\ known' = [l \in Lines |-> Most(known[l], t.files[l])]
  /\ UNCHANGED rows

\* An engine ends well; when it is the last of its run, so does the run.
commit(t) ==
  /\ commit_hourly(t) \/ commit_edit(t)
  /\ tasks' = tasks \ {t}
  /\ IF run # {} /\ {u \in tasks : u.run = runs} = {t}
     THEN run' = {} /\ unread' = unread \ run
     ELSE UNCHANGED <<run, unread>>
  /\ UNCHANGED <<now, log, exports, runs, purges>>

\* An engine fails.  gather gives the run up at once and does not stop the other
\* engine, which goes on without the run's lock and may still commit, or find its
\* files removed.  In the direct mode the exports are logged as read all the same.
fail(t, routed) ==
  /\ tasks' = tasks \ {t}
  /\ IF run # {} /\ t.run = runs
     THEN run' = {} /\ unread' = IF routed THEN unread ELSE unread \ run
     ELSE UNCHANGED <<run, unread>>
  /\ UNCHANGED <<now, log, exports, runs, rows, edits, purges, known>>

-----------------------------------------------------------------------------
(* Clearing a stretch *)

\* _window: from the opening of the first day to the opening after the last.
InWindow(t, since, until) == Opening(since) <= t /\ t < Opening(until + 1)

purge(lines, since, until) ==
  /\ purges < MaxPurges
  /\ since <= until
  /\ rows' = [l \in Lines |->
       IF l \in lines
       THEN [h \in {g \in DOMAIN rows[l] : ~InWindow(g, since, until)} |-> rows[l][h]]
       ELSE rows[l]]
  /\ edits' = [l \in Lines |->
       IF l \in lines
       THEN {i \in edits[l] : ~InWindow(log[l][i].at, since, until)}
       ELSE edits[l]]
  /\ known' = [l \in Lines |-> IF l \in lines THEN 0 ELSE known[l]]
  /\ purges' = purges + 1
  /\ UNCHANGED <<now, log, exports, unread, run, runs, tasks>>

ArchiveNext ==
  \/ \E called \in (SUBSET Lines) \ {{}}, moment \in Hours : export(called, moment)
  \/ update_hostlibs(unread)
  \/ update_hostlibs(DOMAIN exports)
  \/ \E t \in tasks : commit(t) \/ \E routed \in BOOLEAN : fail(t, routed)
  \/ \E c \in Clearings : purge(c.lines, c.since, c.until)

ArchiveSpec == ArchiveInit /\ [][ArchiveNext]_archive

-----------------------------------------------------------------------------
(* The report, over the days r[1] to r[2] *)

Ranges == {r \in Days \X Days : r[1] <= r[2]}

Stored == UNION {DOMAIN rows[l] : l \in Lines}

Horizon_Now == now  \* mutant: the end is where the clock is

\* The end of the last hour the archive holds, or the clock where it holds none.
Horizon ==
  IF Stored = {} THEN now
  ELSE Least(now, (CHOOSE h \in Stored : \A g \in Stored : g <= h) + 2)

RangeFrom(r) == Opening(r[1])
RangeTo(r)   == Least(Opening(r[2] + 1), Horizon)

\* Otherwise a RouteReportError says how far the data reach.
Answers(r) == RangeFrom(r) < RangeTo(r)

AskedHours(r) == {h \in Hours : RangeFrom(r) <= h /\ h < RangeTo(r)}

\* days_in_range, up to the day of the last hour.
ReportDays(r) == r[1] .. Least(r[2], day_of(RangeTo(r) - 2))

changes_in_range(l, r) ==
  LET inside == {i \in edits[l] : RangeFrom(r) <= log[l][i].at /\ log[l][i].at < RangeTo(r)}
      order  == SelectSeq([i \in DOMAIN log[l] |-> i], LAMBDA i : i \in inside)
  IN  [k \in DOMAIN order |-> log[l][order[k]]]

\* The last change before the range, if there is one.
seed_changes(l, r) ==
  LET past == {i \in edits[l] : log[l][i].at < RangeFrom(r)}
  IN  {log[l][i] : i \in {j \in past : \A k \in past : k <= j}}

build_steps_First(walk) ==  \* mutant: of two changes at one moment the first stays
  [at \in {walk[k].at : k \in DOMAIN walk} |->
     walk[CHOOSE k \in DOMAIN walk : walk[k].at = at /\ \A j \in DOMAIN walk : walk[j].at = at => k <= j].value]

\* The steps of a walk over the changes, from their moments to their values: a
\* later row of the same moment wins.
build_steps(walk) ==
  [at \in {walk[k].at : k \in DOMAIN walk} |->
     walk[CHOOSE k \in DOMAIN walk : walk[k].at = at /\ \A j \in DOMAIN walk : walk[j].at = at => j <= k].value]

\* The seed: the last change before the range, or what the first change inside it
\* replaced; values that are not plausible are passed over.
Opened(l, r) ==
  LET seeds == {c \in seed_changes(l, r) : c.new \in Plausible}
      olds  == SelectSeq(changes_in_range(l, r), LAMBDA c : c.old \in Plausible)
  IN  IF seeds # {} THEN LET c == CHOOSE c \in seeds : TRUE IN <<[at |-> c.at, value |-> c.new]>>
      ELSE IF olds # <<>> THEN <<[at |-> RangeFrom(r), value |-> Head(olds).old]>>
      ELSE <<>>

build_param_series(l, r) ==
  LET news == SelectSeq(changes_in_range(l, r), LAMBDA c : c.new \in Plausible)
  IN  build_steps(Opened(l, r) \o [k \in DOMAIN news |-> [at |-> news[k].at, value |-> news[k].new]])

\* How long the step of moment m was in force in the hour h.
Span(steps, m, h) ==
  Cardinality({t \in {h, h + 1} : m <= t /\ \A n \in DOMAIN steps : n <= t => n <= m})

Seconds(steps, h)  == MapThenSumSet(LAMBDA m : Span(steps, m, h), DOMAIN steps)
Weighted(steps, h) == MapThenSumSet(LAMBDA m : steps[m] * Span(steps, m, h), DOMAIN steps)

\* The mean of each hour, weighted by the time each value was in force.
hourly_series(steps, hours) ==
  [h \in {g \in hours : Seconds(steps, g) > 0} |->
     (MeanScale * Weighted(steps, h)) \div Seconds(steps, h)]

\* A function as a table of its values, once and for all.
Kept(f) == f @@ NoRows

\* The series of the lines are built once, for the blocks and the volumes.
series_by_line(r) ==
  Kept([l \in Lines |-> Kept(hourly_series(build_param_series(l, r), AskedHours(r)))])

\* The hours whose value in force is older than the limit.
staleness(steps, hours) ==
  {h \in hours : \E m \in DOMAIN steps :
     /\ m <= h
     /\ \A n \in DOMAIN steps : n <= h => n <= m
     /\ h - m > StaleAfter}

HoursOf(series, day) == {h \in DOMAIN series : Opening(day) <= h /\ h < Opening(day + 1)}
HoursPresent(series, day) == Cardinality(HoursOf(series, day))

\* A plain mean of the hours that carry a value, for the days that have one.
daily_series(series, days) ==
  [d \in {x \in days : HoursPresent(series, x) > 0} |->
     MapThenSumSet(LAMBDA h : series[h], HoursOf(series, d)) \div HoursPresent(series, d)]

\* The mean over the reference lines that have a value in the period.
reference_series(series) ==
  LET backing(p) == {l \in References : p \in DOMAIN series[l]}
  IN  [p \in UNION {DOMAIN series[l] : l \in References} |->
         MapThenSumSet(LAMBDA l : series[l][p], backing(p)) \div Cardinality(backing(p))]

deviations(series, reference) ==
  [p \in DOMAIN series \cap DOMAIN reference |-> series[p] - reference[p]]

\* The least and the greatest value among the lines.
spread_series(series) ==
  LET at(p) == {series[l][p] : l \in {k \in Lines : p \in DOMAIN series[k]}}
  IN  [p \in UNION {DOMAIN series[l] : l \in Lines} |->
         [least |-> CHOOSE v \in at(p) : \A w \in at(p) : v <= w,
          most  |-> CHOOSE v \in at(p) : \A w \in at(p) : w <= v]]

Compared == IF References = {} THEN {} ELSE Lines \ References

\* The table of a quantity, by the hour or by the gas day.
build_block(r, hourly, daily) ==
  LET values    == IF daily THEN Kept([l \in Lines |-> Kept(daily_series(hourly[l], ReportDays(r)))]) ELSE hourly
      reference == IF Compared = {} THEN NoRows ELSE Kept(reference_series(values))
  IN  [values    |-> values,
       reference |-> reference,
       deltas    |-> [l \in Compared |-> deviations(values[l], reference)],
       spread    |-> spread_series(values),
       stale     |-> [l \in Lines |->
                        IF daily THEN {} ELSE staleness(build_param_series(l, r), AskedHours(r))]]

\* The equation of state, as far as its sign goes: nothing to correct where the
\* compositions agree, and in proportion to the gas.
volume_delta(volume, entered, reference) == volume * (reference - entered)

HourlyVolume(l, r) == [h \in DOMAIN rows[l] \cap AskedHours(r) |-> rows[l][h]]

HourlyDelta(l, r, entered, reference) ==
  [h \in DOMAIN HourlyVolume(l, r) \cap DOMAIN entered \cap DOMAIN reference |->
     volume_delta(rows[l][h], entered[h], reference[h])]

SumOf(series) == MapThenSumSet(LAMBDA p : series[p], DOMAIN series)

fold_sum_Midnight(series, r, daily) ==  \* mutant: hours are put under their calendar date
  LET hours(d) == {h \in DOMAIN series : h \div DayLength = d}
  IN  IF ~daily THEN series
      ELSE [d \in {x \in ReportDays(r) : hours(x) # {}} |-> SumOf([h \in hours(d) |-> series[h]])]

\* Hours as they are, or summed into the gas day they belong to.
fold_sum(series, r, daily) ==
  LET hours(d) == {h \in DOMAIN series : day_of(h) = d}
  IN  IF ~daily THEN series
      ELSE [d \in {x \in ReportDays(r) : hours(x) # {}} |-> SumOf([h \in hours(d) |-> series[h]])]

\* What each line's gas would have been on the reference composition: always by
\* the hour, and summed.
build_volume_block(r, hourly, daily) ==
  LET reference == Kept(reference_series(hourly))
      volume(l) == Kept(HourlyVolume(l, r))
      delta(l)  == Kept(HourlyDelta(l, r, hourly[l], reference))
  IN  Kept([l \in Compared |->
             [volume |-> fold_sum(volume(l), r, daily), delta |-> fold_sum(delta(l), r, daily),
              total_volume |-> SumOf(volume(l)),        total_delta |-> SumOf(delta(l))]])

build_route_report(r, daily) ==
  LET hourly == series_by_line(r)
  IN  [param |-> build_block(r, hourly, daily), volume |-> build_volume_block(r, hourly, daily)]

-----------------------------------------------------------------------------
(* Charts of lines and of rings, from one hour to another, both shown *)

\* The lines whose rows are read for what a chart asks.
resolve_virtual_to_physical(asked) ==
  (asked \cap Lines) \cup UNION {Rings[v] : v \in asked \cap DOMAIN Rings}

Archives(asked, from, to) ==
  Kept([l \in resolve_virtual_to_physical(asked) |->
          Kept([h \in {g \in DOMAIN rows[l] : from <= g /\ g <= to} |-> rows[l][h]])])

\* A ring's hour is the sum over those of its lines that have it; a line feeds every
\* ring it belongs to, and is shown itself when it was asked for.
aggregate_to_virtual_lines(archives, asked) ==
  LET having(v, h) == {l \in Rings[v] : h \in DOMAIN archives[l]}
      ring(v) == [h \in UNION {DOMAIN archives[l] : l \in Rings[v]} |->
                    MapThenSumSet(LAMBDA l : archives[l][h], having(v, h))]
  IN  [x \in asked |-> IF x \in Lines THEN archives[x] ELSE ring(x)]

get_archive(asked, from, to) ==
  aggregate_to_virtual_lines(Archives(asked, from, to), asked)

-----------------------------------------------------------------------------
(* Properties *)

\* The computer's last change before the range, and its first, can be read.
Readable(l, r) ==
  LET past == {i \in DOMAIN log[l] : log[l][i].at < RangeFrom(r)}
  IN  IF past # {} THEN log[l][CHOOSE i \in past : \A j \in past : j <= i].new \in Plausible
      ELSE log[l] # <<>> => log[l][1].old \in Plausible

\* The last value a computer had set by moment m that can be read.
Sets(l, m) == {i \in DOMAIN log[l] : log[l][i].at <= m /\ log[l][i].new \in Plausible}
SetBy(l, m) == CHOOSE i \in Sets(l, m) : \A j \in Sets(l, m) : j <= i

\* It is in force at m, or else what the first change of all replaced, once that
\* change lies inside the range.
InForce(l, m, r) ==
  IF Sets(l, m) # {} THEN {log[l][SetBy(l, m)].new}
  ELSE {log[l][i].old : i \in {j \in DOMAIN log[l] : j = 1 /\ log[l][j].at < RangeTo(r)}}

TrueMeans(l, r) ==
  [h \in {g \in AskedHours(r) : InForce(l, g + 1, r) # {}} |->
     LET at(m) == CHOOSE v \in InForce(l, m, r) : TRUE
     IN  (MeanScale * (at(h) + at(h + 1))) \div 2]

LongHeld(l, r) ==
  {h \in AskedHours(r) : Sets(l, h) # {} /\ h - log[l][SetBy(l, h)].at > StaleAfter}

\* The changes the computer logged before the end of the range are stored.
Complete(l, r) == \A i \in DOMAIN log[l] : log[l][i].at < RangeTo(r) => i \in edits[l]

\* The composition of an hour is the mean of what the computer had in force, and
\* what is shown as old has been held that long, however the exports overlapped,
\* whatever failed and was cleared before (fhp_series: hourly_series, staleness).
ReportIsTheRecord ==
  \A r \in Ranges : Answers(r) =>
    LET table == build_route_report(r, FALSE).param
    IN  \A l \in Lines : Complete(l, r) /\ Readable(l, r) =>
          /\ table.values[l] = TrueMeans(l, r)
          /\ table.stale[l] = LongHeld(l, r)

Gas(h) == IF h \in Twice THEN 2 * Flow(h) ELSE Flow(h)

\* The gas of an hour is what flowed in it, read once or many times, and the days
\* of a report hold each hour of it once: day by day and hour by hour the volumes,
\* the corrections and the hours present come to the same, the totals too, and by
\* either the reference lies within the spread drawn around it (archive_merge,
\* _build_volume_block: "Daily figures are the SUM of these").  A chart gives every
\* ring the gas of all its lines, whatever else it was asked to show (the aggregator:
\* "the last ring silently steal a shared line").
DaysAddUp ==
  /\ \A l \in Lines : \A h \in DOMAIN rows[l] : rows[l][h] = Gas(h)
  /\ \A r \in Ranges : Answers(r) =>
       LET days  == build_route_report(r, TRUE)
           hours == build_route_report(r, FALSE)
       IN  /\ \A l \in Compared :
                /\ SumOf(days.volume[l].volume) = SumOf(hours.volume[l].volume)
                /\ SumOf(days.volume[l].volume) = days.volume[l].total_volume
                /\ SumOf(days.volume[l].delta) = SumOf(hours.volume[l].delta)
                /\ SumOf(days.volume[l].delta) = days.volume[l].total_delta
                /\ MapThenSumSet(LAMBDA d : HoursPresent(hours.param.values[l], d), ReportDays(r))
                     = Cardinality(DOMAIN hours.param.values[l])
           /\ \A table \in {days.param, hours.param} : \A p \in DOMAIN table.reference :
                table.reference[p] \in table.spread[p].least .. table.spread[p].most
  /\ \A asked \in SUBSET (DOMAIN Rings \cup Lines) :
       LET chart == get_archive(asked, Opening(0), Clock)
           gas(l) == MapThenSumSet(Gas, {h \in DOMAIN rows[l] : Opening(0) <= h})
       IN  \A v \in asked \cap DOMAIN Rings : SumOf(chart[v]) = MapThenSumSet(gas, Rings[v])

\* The hours and the changes of the line are stored as far as those of any line.
UpToDate(l) == \E h \in DOMAIN rows[l] : (\A g \in Stored : g <= h) /\ h + 2 <= known[l]

\* Of a line that is up to date the report leaves no moment whose changes are
\* still to come: it ends where the archive does, not where the clock is, so that
\* no hour is given on a value that a later reading turns out to have replaced
\* (build_route_report: horizon).
ReportedIsFinal ==
  \A r \in Ranges, l \in Lines : Answers(r) /\ UpToDate(l) => Complete(l, r)
=============================================================================
