--------------------------- MODULE MeteringPoints ---------------------------
(***************************************************************************)
(* The register of metering points: the enterprise screen that edits which  *)
(* corrector stood where and when, the Excel workbook that is exported,     *)
(* edited and imported back, and the purge of a point's archive.            *)
(*                                                                         *)
(* A request that carries a history checks it against the other points and  *)
(* then replaces the point's rows, all under READ COMMITTED: the DELETE     *)
(* takes the rows it saw when it began, and waits for the transaction that  *)
(* holds one of them.  A `session` is one such transaction.  An import is   *)
(* one step: its file is read before, and its transaction is short.         *)
(***************************************************************************)
EXTENDS Register, FiniteSets, SequencesExt

CONSTANTS
  Devices, Sessions, Names,
  Null,
  Histories,    \* the histories an operator may ask for
  Epoch,        \* EPOCH_INSTALLED_FROM
  MaxRequests,  \* bound on the requests that pass their check
  MaxFiles      \* bound on the uses of the workbook, and on purges

VARIABLES
  enterprise,   \* the name of each point, or Null where there is none
  nextId,       \* the serial of those rows
  tx,           \* what each session is in the middle of
  file,         \* the workbook on the operator's disk
  hourly,       \* dpd_hourly_archive: <<device, moment>>
  daily,        \* dpd_daily_archive: <<device, day>>
  requests,     \* requests that passed their check so far
  uses          \* uses of the workbook and purges so far

vars == <<enterprise, history, nextId, tx, file, hourly, daily, requests, uses>>

NoRows == [i \in {} |-> Null]
Idle   == [at |-> "idle", point |-> Null, new |-> FALSE, ask |-> <<>>, gone |-> {}, fresh |-> FALSE]

Hours == {t \in 0 .. Horizon : t % 2 = 0}

Existing == {p \in Points : enterprise[p] # Null}

Entry == [device : Devices, from : 0 .. Horizon, until : (0 .. Horizon) \cup {Forever}]

TypeOK ==
  /\ enterprise \in [Points -> Names \cup {Null}]
  /\ \A p \in Points :
       /\ DOMAIN history[p] \subseteq 1 .. nextId - 1
       /\ Range(history[p]) \subseteq Entry
       /\ enterprise[p] = Null => history[p] = NoRows
       /\ \A i, j \in DOMAIN history[p] : history[p][i].from = history[p][j].from => i = j
  /\ \A s \in Sessions : tx[s].at \in {"idle", "checked", "deleting", "inserted"}
  /\ hourly \subseteq Devices \X Hours
  /\ daily \subseteq Devices \X Days

\* The rows of a request, to the hour and under ids of their own.
Floored(h) ==
  [i \in DOMAIN h |-> [h[i] EXCEPT !.from = FloorHour(@), !.until = FloorHour(@)]]
Inserted(h, id) == [i \in id .. id + Len(h) - 1 |-> h[i - id + 1]]

\* One point stands there already, with one of the histories.
Init ==
  /\ \E p \in {CHOOSE q \in Points : TRUE}, n \in Names,
        h \in {g \in Histories : ValidPoint(Floored(g))} :
       /\ enterprise = [q \in Points |-> IF q = p THEN n ELSE Null]
       /\ history = [q \in Points |-> IF q = p THEN Inserted(Floored(h), 1) ELSE NoRows]
       /\ nextId = Len(h) + 1
  /\ tx = [s \in Sessions |-> Idle]
  /\ file = <<>>
  /\ hourly = Devices \X Hours
  /\ daily = Devices \X Days
  /\ requests = 0
  /\ uses = 0

\* ---- Editing a point ---------------------------------------------------
\* The other points that hold one of the history's devices at the same time.
clashing_points_Last(p, h) ==  \* mutant: the devices are compared, not their windows
  {q \in Points \ {p} : \E j \in DOMAIN history[q], i \in DOMAIN h :
     /\ history[q][j].device = h[i].device
     /\ history[q][j].until = Forever
     /\ h[i].until = Forever}

clashing_points(p, h) ==
  {q \in Points \ {p} : \E j \in DOMAIN history[q], i \in DOMAIN h :
     /\ history[q][j].device = h[i].device
     /\ Overlaps(Floored(h), i, history[q], j)}

Taken(p) == \E s \in Sessions : tx[s].at # "idle" /\ tx[s].point = p

\* create_enterprise and update_enterprise up to the end of _validate_history; a
\* point that is being created has an id nobody else has.
validate_history(s, p, h) ==
  /\ tx[s].at = "idle"
  /\ requests < MaxRequests
  /\ enterprise[p] = Null => ~Taken(p)
  /\ ValidPoint(h)
  /\ clashing_points(p, h) = {}
  /\ tx' = [tx EXCEPT ![s] = [at |-> "checked", point |-> p, new |-> enterprise[p] = Null,
                                ask |-> h, gone |-> {}, fresh |-> TRUE]]
  /\ requests' = requests + 1
  /\ UNCHANGED <<enterprise, history, nextId, file, hourly, daily, uses>>

begin_delete_Later(s) ==  \* mutant: the rows before the first new one are kept
  /\ tx[s].at = "checked"
  /\ tx' = [tx EXCEPT ![s].at = "deleting",
                      ![s].gone = {i \in DOMAIN history[tx[s].point] : \E j \in DOMAIN tx[s].ask :
                                     tx[s].ask[j].from <= history[tx[s].point][i].from}]
  /\ UNCHANGED <<enterprise, history, nextId, file, hourly, daily, requests, uses>>

\* replace_history: the DELETE begins, and sees the rows committed by now.
begin_delete(s) ==
  /\ tx[s].at = "checked"
  /\ tx' = [tx EXCEPT ![s].at = "deleting", ![s].gone = DOMAIN history[tx[s].point]]
  /\ UNCHANGED <<enterprise, history, nextId, file, hourly, daily, requests, uses>>

SameStamp(h, g) == \E i \in DOMAIN h, j \in DOMAIN g : h[i].from = g[j].from

Left(s) == [i \in DOMAIN history[tx[s].point] \ tx[s].gone |-> history[tx[s].point][i]]
Asked(s) == Floored(tx[s].ask)

\* The row locks and the unique index make a session wait for another's end.
Waits(s) == \E o \in Sessions \ {s} :
  /\ tx[o].at = "inserted"
  /\ tx[o].point = tx[s].point
  /\ (tx[o].gone \cap tx[s].gone # {} \/ SameStamp(Asked(o), Asked(s)))

\* uq_enterprise_device_from refuses a row, or the point is gone: a raw 500.
Refused(s) ==
  \/ \E i, j \in DOMAIN Asked(s) : i # j /\ Asked(s)[i].from = Asked(s)[j].from
  \/ SameStamp(Asked(s), Left(s))
  \/ ~tx[s].new /\ enterprise[tx[s].point] = Null

insert(s) ==
  /\ tx[s].at = "deleting"
  /\ ~Waits(s)
  /\ ~Refused(s)
  /\ tx' = [tx EXCEPT ![s].at = "inserted"]
  /\ UNCHANGED <<enterprise, history, nextId, file, hourly, daily, requests, uses>>

fail(s) ==
  /\ tx[s].at = "deleting"
  /\ ~Waits(s)
  /\ Refused(s)
  /\ tx' = [tx EXCEPT ![s] = Idle]
  /\ UNCHANGED <<enterprise, history, nextId, file, hourly, daily, requests, uses>>

\* Somebody committed: what the open sessions checked is no longer the latest.
Outdated(rest) == [s \in Sessions |-> [rest[s] EXCEPT !.fresh = FALSE]]

Joined(h, g) == [i \in DOMAIN h \cup DOMAIN g |-> IF i \in DOMAIN h THEN h[i] ELSE g[i]]

commit(s, n) ==
  /\ tx[s].at = "inserted"
  /\ ~tx[s].new => n = enterprise[tx[s].point]
  /\ history' = [history EXCEPT ![tx[s].point] = Joined(Left(s), Inserted(Asked(s), nextId))]
  /\ enterprise' = IF tx[s].new
                   THEN [enterprise EXCEPT ![tx[s].point] = n]
                   ELSE enterprise
  /\ nextId' = nextId + Len(tx[s].ask)
  /\ tx' = Outdated([tx EXCEPT ![s] = Idle])
  /\ UNCHANGED <<file, hourly, daily, requests, uses>>

\* update_enterprise without a history: the rows are left alone.
rename(p, n) ==
  /\ enterprise[p] \notin {Null, n}
  /\ requests < MaxRequests
  /\ enterprise' = [enterprise EXCEPT ![p] = n]
  /\ requests' = requests + 1
  /\ UNCHANGED <<history, nextId, tx, file, hourly, daily, uses>>

\* delete_enterprise takes the history with it, the archive stays; a session that
\* has inserted rows for the point holds it.
delete_enterprise(p) ==
  /\ enterprise[p] # Null
  /\ requests < MaxRequests
  /\ ~\E s \in Sessions : tx[s].at = "inserted" /\ tx[s].point = p
  /\ enterprise' = [enterprise EXCEPT ![p] = Null]
  /\ history' = [history EXCEPT ![p] = NoRows]
  /\ tx' = Outdated(tx)
  /\ requests' = requests + 1
  /\ UNCHANGED <<nextId, file, hourly, daily, uses>>

\* ---- The workbook ------------------------------------------------------
LastRow(p) == CHOOSE i \in DOMAIN history[p] :
             \A j \in DOMAIN history[p] : history[p][j].from <= history[p][i].from

\* build_export_workbook: a line for each point, with the last row of its history;
\* a line without a corrector is not read back, and is left out.
Exported ==
  LET shown == SetToSortSeq({p \in Existing : history[p] # NoRows},
                            LAMBDA p, q : enterprise[p] < enterprise[q])
  IN  [k \in DOMAIN shown |->
         [name |-> enterprise[shown[k]],
          device |-> history[shown[k]][LastRow(shown[k])].device,
          from |-> history[shown[k]][LastRow(shown[k])].from]]

export ==
  /\ file' = Exported
  /\ UNCHANGED <<enterprise, history, nextId, tx, hourly, daily, requests, uses>>

\* What parse_upload makes of the workbook the operator hands in: as it was, with a
\* name or a serial typed over or the date cleared in one line, or without a line
\* whose serial, maker or model it cannot read.
Handed ==
  {file} \cup {RemoveAt(file, k) : k \in DOMAIN file}
         \cup {[file EXCEPT ![k] = [name |-> n, device |-> d, from |-> t]] :
                 k \in DOMAIN file, n \in Names, d \in Devices,
                 t \in {Epoch} \cup {file[i].from : i \in DOMAIN file}}

\* The newest assignment of a device, as <<point, row>>.
Newest(h, d) ==
  LET held == {a \in Points \X (1 .. nextId + Cardinality(Points)) :
                 a[2] \in DOMAIN h[a[1]] /\ h[a[1]][a[2]].device = d}
  IN  {a \in held : \A b \in held : h[b[1]][b[2]].from <= h[a[1]][a[2]].from}

\* One line of upsert_enterprises; st is the register as the lines before left it.
Claimed(st, line) == line.device \in st.claimed

Update_DayOnly(st, line, p, i) ==  \* mutant: the hour column is not read
  LET from == IF line.from = Epoch THEN st.h[p][i].from ELSE Opening(line.from \div DayLength)
  IN  [st EXCEPT !.e[p] = line.name,
                 !.h[p][i].from = from,
                 !.claimed = @ \cup {line.device},
                 !.ok = @ /\ \A j \in DOMAIN st.h[p] \ {i} : st.h[p][j].from # from]

Update(st, line, p, i) ==
  LET from == IF line.from = Epoch THEN st.h[p][i].from ELSE line.from
  IN  [st EXCEPT !.e[p] = line.name,
                 !.h[p][i].from = from,
                 !.claimed = @ \cup {line.device},
                 !.ok = @ /\ \A j \in DOMAIN st.h[p] \ {i} : st.h[p][j].from # from]

Create(st, line, p) ==
  [st EXCEPT !.e[p] = line.name,
             !.h[p] = [i \in {st.next} |->
                         [device |-> line.device, from |-> line.from, until |-> Forever]],
             !.next = @ + 1,
             !.claimed = @ \cup {line.device}]

upsert(st, line) ==
  LET newest == Newest(st.h, line.device)
      free   == {p \in Points : st.e[p] = Null /\ ~Taken(p)}
  IN  IF Claimed(st, line) THEN st
      ELSE IF newest # {} THEN LET a == CHOOSE a \in newest : TRUE IN Update(st, line, a[1], a[2])
      ELSE IF \E p \in Points : st.e[p] = line.name THEN st
      ELSE IF free = {} THEN [st EXCEPT !.full = TRUE]
      ELSE Create(st, line, CHOOSE p \in free : TRUE)

Upserted(lines) ==
  FoldLeft(upsert, [e |-> enterprise, h |-> history, next |-> nextId,
                   claimed |-> {}, ok |-> TRUE, full |-> FALSE], lines)

\* upload_enterprises; a unique violation undoes it whole, and its updates wait for
\* a session that holds rows.  An import that would need more points than the
\* instance has is not looked at.
import(lines) ==
  LET done == Upserted(lines) IN
  /\ uses < MaxFiles
  /\ \A s \in Sessions : tx[s].at # "inserted"
  /\ file # <<>>
  /\ ~done.full
  /\ done.ok
  /\ enterprise' = done.e
  /\ history' = done.h
  /\ nextId' = done.next
  /\ uses' = uses + 1
  /\ tx' = Outdated(tx)
  /\ UNCHANGED <<file, hourly, daily, requests>>

\* ---- The archive -------------------------------------------------------
\* The rows a point reads, hour by hour and day by day.
OwnHours(p) == {r \in Devices \X Hours : \E i \in DOMAIN history[p] :
                  history[p][i].device = r[1] /\ Covers(history[p], i, r[2])}
OwnDays(p)  == {r \in Devices \X Days : \E i \in DOMAIN history[p] :
                  history[p][i].device = r[1] /\ ReadsDay(history[p], i, r[2])}

Ranges == {<<0, Forever>>} \cup {<<Opening(k), Opening(k + 1)>> : k \in Days}

purge(p, range) ==
  /\ uses < MaxFiles
  /\ enterprise[p] # Null
  /\ LET since == range[1]  until == range[2]  h == history[p]
     IN  /\ hourly' = {r \in hourly : ~\E i \in DOMAIN h :
                          h[i].device = r[1] /\ PurgesHour(h, i, since, until, r[2])}
         /\ daily' = {r \in daily : ~\E i \in DOMAIN h :
                          h[i].device = r[1] /\ PurgesDay(h, i, since, until, r[2])}
  /\ uses' = uses + 1
  /\ UNCHANGED <<enterprise, history, nextId, tx, file, requests>>

Next ==
  \/ \E s \in Sessions :
       \/ \E p \in Points, h \in Histories : validate_history(s, p, h)
       \/ begin_delete(s) \/ insert(s) \/ fail(s)
       \/ \E n \in Names : commit(s, n)
  \/ \E p \in Points :
       \/ \E n \in Names : rename(p, n)
       \/ delete_enterprise(p)
       \/ \E r \in Ranges : purge(p, r)
  \/ export
  \/ \E lines \in Handed : import(lines)

Spec == Init /\ [][Next]_vars

\* ---- Properties --------------------------------------------------------
OnePlace == \A d \in Devices, t \in 0 .. Horizon : \A p, q \in Points :
  Stands(p, d, t) /\ Stands(q, d, t) => p = q

Commits(s) == tx[s].at = "inserted" /\ tx'[s].at = "idle"
Fails(s)   == tx[s].at = "deleting" /\ tx'[s].at = "idle"

\* "One corrector cannot stand at two metering points at once" (clashing_points):
\* an edit that nobody outran since it was checked keeps it so, for the hour
\* precision it is stored with and the windows the other points derive.
FreshEditKeepsPlaces ==
  [][\A s \in Sessions : Commits(s) /\ tx[s].fresh /\ OnePlace => OnePlace']_vars

\* "Set a point's history to exactly `devices`" (replace_history): such an edit
\* leaves the rows asked for and no others, and it fails only over stamps finer
\* than an hour that fall together once they are stored.
FreshEditIsExact ==
  [][\A s \in Sessions : tx[s].fresh =>
       /\ Commits(s) => Range(history'[tx[s].point]) = Range(Asked(s))
       /\ Fails(s) => \E i \in DOMAIN tx[s].ask : tx[s].ask[i].from # Asked(s)[i].from]_vars

\* A purge of everything leaves nothing a point reads, however its windows ended.
PurgeIsWhole ==
  [][\A p \in Points : purge(p, <<0, Forever>>) =>
       OwnHours(p) \cap hourly' = {} /\ OwnDays(p) \cap daily' = {}]_vars

\* "Deleting the archive of this enterprise by device alone would take another
\* enterprise's gas with it": no purge takes an hour another point reads.
PurgeSparesOthers ==
  [][hourly' # hourly => \A p, q \in Points, r \in Ranges :
       purge(p, r) /\ p # q => OwnHours(q) \cap (hourly \ hourly') = {}]_vars

\* No corrector was moved on from the point whose last row it is.
NobodyMoved == \A p \in Existing : history[p] # NoRows =>
  LET d == history[p][LastRow(p)].device IN Newest(history, d) = {<<p, LastRow(p)>>}

\* Export and import back: nothing changes, history, names or flags, while every
\* corrector is still where the workbook shows it.
RoundTripKeeps ==
  [][uses' > uses /\ import(Exported) /\ NobodyMoved => UNCHANGED <<enterprise, history>>]_vars

\* "A re-import of this file does not change the history" (the export's comment).
RoundTripAlwaysKeeps ==
  [][uses' > uses /\ import(Exported) => UNCHANGED <<enterprise, history>>]_vars
=============================================================================
