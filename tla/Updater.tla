------------------------------ MODULE Updater ------------------------------
(***************************************************************************)
(* The updater: it takes the server from one commit of the backend and of   *)
(* the frontend to another, and back when the new one does not come up.     *)
(*                                                                         *)
(* The code of the backend and of the scheduler is mounted from a checkout: *)
(* a container runs what lay on disk when it last started, with the image   *)
(* it was created from.  The backend migrates the database whenever it      *)
(* starts, alembic running all pending migrations in one transaction.  The  *)
(* frontend's code is in its image.                                         *)
(*                                                                         *)
(* A version is a commit, newer ones being greater.  Every docker, git and  *)
(* database command may fail; what it leaves is the action's to say.  After *)
(* a job that ended as failed the server is the administrator's to repair,  *)
(* and no other is started.                                                 *)
(***************************************************************************)
EXTENDS Naturals, FiniteSets

CONSTANTS
  LastVersion,
  Migrates,     \* versions that bring a migration
  Rebuilds,     \* versions that change what the backend image is built from
  Edited,       \* checkouts with files edited on the server
  Null,
  Torn,         \* a checkout whose fast-forward broke off half-way
  MaxJobs,      \* bound on updates
  MaxTroubles,  \* bound on things that go wrong
  MaxWrites     \* bound on what users and agents store

Kinds    == {"backend", "frontend"}
Services == {"backend", "scheduler", "frontend"}
Versions == 0 .. LastVersion

ASSUME UpdaterAssumption ==
  /\ {LastVersion, MaxJobs, MaxTroubles, MaxWrites} \subseteq Nat
  /\ Migrates \subseteq 1 .. LastVersion /\ Rebuilds \subseteq 1 .. LastVersion
  /\ Edited \subseteq Kinds
  /\ Null \notin Nat /\ Torn \notin Nat /\ Torn # Null

VARIABLES
  head, tree, edited,  \* the checkouts: commit, files on disk, local edits
  tags,                \* the images behind the tags latest, prev and next
  services,            \* the containers
  db,                  \* the database
  import,              \* the service at work on a HOSTLIB import, or Null
  job,                 \* the update, running or the last one
  jobs, troubles,
  \* history
  written,             \* what users and agents stored
  told,                \* a job has said that it took the database from its copy
  strayed,             \* a failure struck the stop or the start of the scheduler
  cut                  \* the update cut an import off

checkouts == <<head, tree, edited>>
server    == <<checkouts, tags, services, db, import>>
bounds    == <<jobs, troubles>>
ghost     == <<written, told, strayed, cut>>
vars      == <<server, job, bounds, ghost>>

Trees     == Versions \cup {Torn}
Container == [code : Trees, image : Versions, up : BOOLEAN]
Tags      == [latest : Versions, prev : Versions \cup {Null}, next : Versions \cup {Null}]
Database  == [rev : Versions, tables : SUBSET Migrates, data : 0 .. MaxWrites]

\* No container, and no copy of the database.
ASSUME NullAssumption == Null \notin Container /\ Null \notin Database

Steps == {"none", "prepare", "build", "backup", "dump", "undo",
          "swap", "merge", "restart", "verify", "scheduler", "frontend",
          "rollback", "rollback_db", "rollback_code", "rollback_start",
          "rollback_ready", "rollback_scheduler", "rollback_frontend"}
Results == {Null, "updated", "up_to_date", "rolled_back", "not_done", "failed"}
Job == [step : Steps, result : Results, discard : BOOLEAN,
        old : [Kinds -> Versions], new : [Kinds -> Versions],
        changed : SUBSET Kinds, todo : SUBSET Kinds,
        built : SUBSET Kinds, swapped : SUBSET Kinds, merged : SUBSET Kinds,
        stopped : BOOLEAN, oldRev : Versions, dump : Database \cup {Null},
        restored : BOOLEAN]

TypeOK ==
  /\ head \in [Kinds -> Versions] /\ tree \in [Kinds -> Trees] /\ edited \subseteq Kinds
  /\ tags \in [Kinds -> Tags]
  /\ services \in [Services -> Container \cup {Null}]
  /\ db \in Database
  /\ import \in {"backend", "scheduler", Null}
  /\ job \in Job
  /\ jobs \in 0 .. MaxJobs /\ troubles \in 0 .. MaxTroubles
  /\ written \in 0 .. MaxWrites
  /\ told \in BOOLEAN /\ strayed \in BOOLEAN /\ cut \in BOOLEAN

NewJob(target, discard) ==
  [step |-> "prepare", result |-> Null, discard |-> discard,
   old |-> target, new |-> target, changed |-> {}, todo |-> {},
   built |-> {}, swapped |-> {}, merged |-> {},
   stopped |-> FALSE, oldRev |-> 0, dump |-> Null, restored |-> FALSE]

Init ==
  /\ head = [k \in Kinds |-> 0] /\ tree = [k \in Kinds |-> 0] /\ edited = Edited
  /\ tags = [k \in Kinds |-> [latest |-> 0, prev |-> Null, next |-> Null]]
  /\ services = [s \in Services |-> [code |-> 0, image |-> 0, up |-> TRUE]]
  /\ db = [rev |-> 0, tables |-> {}, data |-> 0]
  /\ import = Null
  /\ job = [NewJob(head, FALSE) EXCEPT !.step = "none"]
  /\ jobs = 0 /\ troubles = 0
  /\ written = 0 /\ told = FALSE /\ strayed = FALSE /\ cut = FALSE

-----------------------------------------------------------------------------
(* Versions, containers and the database *)

Latest(S, v) == CHOOSE u \in S \cup {0} : u <= v /\ \A w \in S : w <= v => w <= u

\* The head of the migrations of a version, and the image its containers need.
Schema(v)   == Latest(Migrates, v)
ImageOf(k, v) == IF k = "frontend" THEN v ELSE Latest(Rebuilds, v)

Between(u, v) == {m \in Migrates : u < m /\ m <= v}

\* alembic upgrade head, on the code that starts: nothing to do, a revision it
\* does not know, or the migrations, which a table already there stops.
CanUpgrade(code) ==
  IF code = Torn THEN TRUE
  ELSE db.rev <= Schema(code) /\ Between(db.rev, code) \cap db.tables = {}

Upgraded(code) ==
  IF code = Torn THEN db
  ELSE [db EXCEPT !.rev = Schema(code), !.tables = @ \cup Between(db.rev, code)]

Downgraded(rev) ==
  [db EXCEPT !.rev = rev, !.tables = @ \ Between(rev, db.rev)]

\* pg_restore --clean replaces what the copy holds and leaves what it does not.
Restored(dump) == [dump EXCEPT !.tables = @ \cup db.tables]

\* The backend starts: migrates and comes up, or does not.
StartBackend(image) ==
  LET code == tree["backend"]  up == CanUpgrade(code) IN
  /\ services' = [services EXCEPT !["backend"] = [code |-> code, image |-> image, up |-> up]]
  /\ db' = IF up THEN Upgraded(code) ELSE db

Recreated(s) ==
  IF s = "frontend"
    THEN [code |-> tags[s].latest, image |-> tags[s].latest, up |-> TRUE]
    ELSE [code |-> tree["backend"], image |-> tags["backend"].latest, up |-> TRUE]

\* The update takes the containers of S away under whatever runs in them.
Interrupt(S) ==
  /\ import' = IF import \in S THEN Null ELSE import
  /\ cut' = (cut \/ import \in S)

-----------------------------------------------------------------------------
(* Steps of a job *)

Trouble == troubles < MaxTroubles /\ troubles' = troubles + 1
Maybe(ok) == IF ok THEN UNCHANGED troubles ELSE Trouble

First(S) == IF "backend" \in S THEN "backend" ELSE "frontend"
Changed(kind) == kind \in job.changed
Go(step) == job' = [job EXCEPT !.step = step]

\* Runs over the images built, then the commits, then the containers.
AfterBackup == [job EXCEPT !.step = IF job.built = {} THEN "merge" ELSE "swap",
                           !.todo = IF job.built = {} THEN job.changed ELSE job.built]
AfterScheduler == [job EXCEPT !.step = IF Changed("frontend") THEN "frontend" ELSE "none",
                              !.result = IF Changed("frontend") THEN Null ELSE "updated"]

finish(result) ==
  /\ job' = [job EXCEPT !.step = "none", !.result = result]
  /\ told' = (told \/ (result = "rolled_back" /\ job.restored))

start(target, discard) ==
  /\ job.step = "none" /\ job.result # "failed"
  /\ jobs < MaxJobs
  /\ jobs' = jobs + 1
  /\ job' = NewJob(target, discard)
  /\ UNCHANGED <<server, troubles, ghost>>

\* A checkout whose files are not those of its commit.
Dirty(k) == k \in edited \/ tree[k] # head[k]

ImportSeen == import # Null

\* _prepare: it looks before it touches anything, and clears the checkouts last.
prepare ==
  LET changed == {k \in Kinds : job.new[k] # head[k]}
      hindered == \E k \in changed :
        \/ job.new[k] < head[k]
        \/ Dirty(k) /\ ~job.discard
  IN
  /\ job.step = "prepare"
  /\ \/ /\ changed = {}
        /\ finish("up_to_date")
        /\ UNCHANGED <<tree, edited, troubles>>
     \/ /\ changed # {}
        /\ hindered \/ ("backend" \in changed /\ ImportSeen)
        /\ finish("not_done")
        /\ UNCHANGED <<tree, edited, troubles>>
     \/ /\ changed # {} /\ Trouble       \* no space, or a command fails
        /\ finish("not_done")
        /\ UNCHANGED <<tree, edited>>
     \/ /\ changed # {} /\ ~hindered
        /\ IF "backend" \in changed /\ ImportSeen
           THEN Trouble                  \* psql fails: taken for no import
           ELSE UNCHANGED troubles
        /\ tree' = [k \in Kinds |-> IF k \in changed THEN head[k] ELSE tree[k]]
        /\ edited' = edited \ changed
        /\ job' = [job EXCEPT !.step = "build", !.old = head, !.changed = changed,
                              !.todo = changed, !.oldRev = db.rev]
        /\ UNCHANGED told
  /\ UNCHANGED <<head, tags, services, db, import, jobs, written, strayed, cut>>

\* _build: the images, the one of the backend only if its inputs changed.
build(ok) ==
  LET k == First(job.todo)
      needed == ImageOf(k, job.new[k]) # ImageOf(k, job.old[k])
      left == job.todo \ {k}
  IN
  /\ job.step = "build"
  /\ ok \/ needed
  /\ Maybe(ok)
  /\ IF ok
     THEN /\ tags' = IF needed THEN [tags EXCEPT ![k].next = ImageOf(k, job.new[k])] ELSE tags
          /\ job' = [job EXCEPT !.built = IF needed THEN @ \cup {k} ELSE @, !.todo = left,
                                !.step = IF left = {} THEN "backup" ELSE "build"]
     ELSE Go("undo") /\ UNCHANGED tags
  /\ UNCHANGED <<checkouts, services, db, import, jobs, ghost>>

backup_KeepsScheduler(ok) ==  \* mutant: the copy is made under a running scheduler
  /\ job.step = "backup" /\ ok
  /\ job' = IF Changed("backend") THEN [job EXCEPT !.step = "dump"] ELSE AfterBackup
  /\ UNCHANGED <<server, bounds, ghost>>

\* _backup: the scheduler is stopped before the copy is made.  A stop that fails
\* may have stopped it all the same.
backup(ok) ==
  /\ job.step = "backup"
  /\ IF Changed("backend")
     THEN /\ Maybe(ok)
          /\ job' = [job EXCEPT !.step = IF ok THEN "dump" ELSE "undo", !.stopped = ok]
          /\ strayed' = (strayed \/ ~ok)
          /\ \/ services' = [services EXCEPT !["scheduler"] = Null] /\ Interrupt({"scheduler"})
             \/ ~ok /\ UNCHANGED <<services, import, cut>>
     ELSE /\ ok
          /\ job' = AfterBackup
          /\ UNCHANGED <<services, import, cut, strayed, troubles>>
  /\ UNCHANGED <<checkouts, tags, db, jobs, written, told>>

dump(ok) ==
  /\ job.step = "dump"
  /\ Maybe(ok)
  /\ job' = IF ok THEN [AfterBackup EXCEPT !.dump = db] ELSE [job EXCEPT !.step = "undo"]
  /\ UNCHANGED <<server, jobs, ghost>>

\* _undo_preparation, and the job is not done.
undo(ok) ==
  /\ job.step = "undo"
  /\ ok \/ job.stopped
  /\ Maybe(ok)
  /\ tags' = [k \in Kinds |-> IF k \in job.built THEN [tags[k] EXCEPT !.next = Null] ELSE tags[k]]
  /\ services' = IF job.stopped /\ ok
                   THEN [services EXCEPT !["scheduler"] = Recreated("scheduler")] ELSE services
  /\ strayed' = (strayed \/ ~ok)
  /\ finish("not_done")
  /\ UNCHANGED <<checkouts, db, import, jobs, written, cut>>

\* _switch: latest becomes prev, then next becomes latest; the second tag may fail.
swap_images(ok) ==
  LET k == First(job.todo)  left == job.todo \ {k} IN
  /\ job.step = "swap"
  /\ Maybe(ok)
  /\ \/ tags' = [tags EXCEPT ![k].prev = tags[k].latest,
                             ![k].latest = IF ok THEN tags[k].next ELSE @]
     \/ ~ok /\ UNCHANGED tags
  /\ job' = IF ok
       THEN [job EXCEPT !.swapped = @ \cup {k},
                        !.step = IF left = {} THEN "merge" ELSE "swap",
                        !.todo = IF left = {} THEN job.changed ELSE left]
       ELSE [job EXCEPT !.step = "rollback"]
  /\ UNCHANGED <<checkouts, services, db, import, jobs, ghost>>

\* The fast-forward; one that fails may have written part of the files.
merge_ff(ok) ==
  LET k == First(job.todo)  left == job.todo \ {k} IN
  /\ job.step = "merge"
  /\ Maybe(ok)
  /\ IF ok
     THEN /\ head' = [head EXCEPT ![k] = job.new[k]]
          /\ tree' = [tree EXCEPT ![k] = job.new[k]]
          /\ job' = [job EXCEPT !.merged = @ \cup {k}, !.todo = left,
               !.step = IF left # {} THEN "merge"
                        ELSE IF Changed("backend") THEN "restart" ELSE "frontend"]
     ELSE /\ tree' \in {tree, [tree EXCEPT ![k] = Torn]}
          /\ Go("rollback")
          /\ UNCHANGED head
  /\ UNCHANGED <<edited, tags, services, db, import, jobs, ghost>>

restart_backend(ok) ==
  /\ job.step = "restart"
  /\ Maybe(ok)
  /\ IF ok
     THEN /\ StartBackend(tags["backend"].latest)
          /\ Interrupt({"backend"})
          /\ Go("verify")
     ELSE Go("rollback") /\ UNCHANGED <<services, db, import, cut>>
  /\ UNCHANGED <<checkouts, tags, jobs, written, told, strayed>>

\* _verify: the backend answers and the database is where its migrations end.
verify_backend(ok) ==
  /\ job.step = "verify"
  /\ Maybe(ok)
  /\ Go(IF ok /\ services["backend"].up /\ db.rev = Schema(job.new["backend"])
          THEN "scheduler" ELSE "rollback")
  /\ UNCHANGED <<server, jobs, ghost>>

verify_scheduler(ok) ==
  /\ job.step = "scheduler"
  /\ Maybe(ok)
  /\ \/ services' = [services EXCEPT !["scheduler"] = Recreated("scheduler")]
     \/ ~ok /\ UNCHANGED services
  /\ job' = IF ok THEN AfterScheduler ELSE [job EXCEPT !.step = "rollback"]
  /\ UNCHANGED <<checkouts, tags, db, import, jobs, ghost>>

verify_frontend(ok) ==
  /\ job.step = "frontend"
  /\ Maybe(ok)
  /\ \/ services' = [services EXCEPT !["frontend"] = Recreated("frontend")]
     \/ ~ok /\ UNCHANGED services
  /\ IF ok THEN finish("updated") ELSE Go("rollback") /\ UNCHANGED told
  /\ UNCHANGED <<checkouts, tags, db, import, jobs, written, strayed, cut>>

-----------------------------------------------------------------------------
(* _rollback: whatever fails in it ends the job as failed *)

GiveUp == Trouble /\ finish("failed")

rollback_stop ==
  /\ job.step = "rollback"
  /\ \/ /\ IF Changed("backend")
           THEN /\ services' = [services EXCEPT !["backend"] = Null, !["scheduler"] = Null]
                /\ Interrupt({"backend", "scheduler"})
           ELSE UNCHANGED <<services, import, cut>>
        /\ Go(IF "backend" \in job.merged THEN "rollback_db" ELSE "rollback_code")
        /\ UNCHANGED <<told, troubles>>
     \/ GiveUp /\ UNCHANGED <<services, import, cut>>
  /\ UNCHANGED <<checkouts, tags, db, jobs, written, strayed>>

\* _rollback_database: nothing moved, or down by the new code's migrations, or,
\* when they fail, from the copy.
rollback_database ==
  /\ job.step = "rollback_db"
  /\ \/ /\ db.rev = job.oldRev
        /\ Go("rollback_code")
        /\ UNCHANGED <<db, told, troubles>>
     \/ /\ db.rev # job.oldRev /\ db.rev <= Schema(tree["backend"])
        /\ db' = Downgraded(job.oldRev)
        /\ Go("rollback_code")
        /\ UNCHANGED <<told, troubles>>
     \/ /\ db.rev # job.oldRev
        /\ IF db.rev <= Schema(tree["backend"]) THEN Trouble ELSE UNCHANGED troubles
        /\ db' = Restored(job.dump)
        /\ job' = [job EXCEPT !.step = "rollback_code", !.restored = TRUE]
        /\ UNCHANGED told
     \/ GiveUp /\ UNCHANGED db
  /\ UNCHANGED <<checkouts, tags, services, import, jobs, written, strayed, cut>>

rollback_code_SwappedOnly ==  \* mutant: the commits move back only with an image
  /\ job.step = "rollback_code"
  /\ LET back == job.merged \cap job.swapped IN
     /\ head' = [k \in Kinds |-> IF k \in back THEN job.old[k] ELSE head[k]]
     /\ tree' = [k \in Kinds |-> IF k \in back THEN job.old[k] ELSE tree[k]]
  /\ tags' = [k \in Kinds |-> IF k \in job.swapped
                THEN [tags[k] EXCEPT !.latest = tags[k].prev] ELSE tags[k]]
  /\ Go(IF Changed("backend") THEN "rollback_start" ELSE "rollback_frontend")
  /\ UNCHANGED <<edited, services, db, import, bounds, ghost>>

\* reset_hard of what was merged, restore_image of what was swapped.
rollback_code ==
  /\ job.step = "rollback_code"
  /\ \/ /\ head' = [k \in Kinds |-> IF k \in job.merged THEN job.old[k] ELSE head[k]]
        /\ tree' = [k \in Kinds |-> IF k \in job.merged THEN job.old[k] ELSE tree[k]]
        /\ tags' = [k \in Kinds |-> IF k \in job.swapped
                      THEN [tags[k] EXCEPT !.latest = tags[k].prev] ELSE tags[k]]
        /\ Go(IF Changed("backend") THEN "rollback_start" ELSE "rollback_frontend")
        /\ UNCHANGED <<told, troubles>>
     \/ GiveUp /\ UNCHANGED <<head, tree, tags>>
  /\ UNCHANGED <<edited, services, db, import, jobs, written, strayed, cut>>

rollback_start ==
  /\ job.step = "rollback_start"
  /\ \/ /\ StartBackend(tags["backend"].latest)
        /\ Go("rollback_ready")
        /\ UNCHANGED <<told, troubles>>
     \/ GiveUp /\ UNCHANGED <<services, db>>
  /\ UNCHANGED <<checkouts, tags, import, jobs, written, strayed, cut>>

rollback_ready_Silent(ok) ==  \* mutant: the copy is used and nobody told
  LET ready == ok /\ services["backend"].up IN
  /\ job.step = "rollback_ready"
  /\ Maybe(ok)
  /\ IF ready
     THEN Go("rollback_scheduler") /\ UNCHANGED <<services, db, import, cut>>
     ELSE /\ db' = Restored(job.dump)
          /\ services' = [services EXCEPT !["backend"] = Null]
          /\ Go("rollback_start")
          /\ Interrupt({"backend"})
  /\ UNCHANGED <<checkouts, tags, jobs, written, told, strayed>>

\* The old version does not answer either: once, the database is taken from
\* the copy, with the backend stopped; then the rollback has failed.
rollback_ready(ok) ==
  LET ready == ok /\ services["backend"].up IN
  /\ job.step = "rollback_ready"
  /\ Maybe(ok)
  /\ IF ready
     THEN Go("rollback_scheduler") /\ UNCHANGED <<services, db, told, import, cut>>
     ELSE IF ~job.restored /\ job.dump # Null
     THEN /\ db' = Restored(job.dump)
          /\ services' = [services EXCEPT !["backend"] = Null]
          /\ job' = [job EXCEPT !.step = "rollback_start", !.restored = TRUE]
          /\ Interrupt({"backend"})
          /\ UNCHANGED told
     ELSE finish("failed") /\ UNCHANGED <<services, db, import, cut>>
  /\ UNCHANGED <<checkouts, tags, jobs, written, strayed>>

rollback_scheduler ==
  /\ job.step = "rollback_scheduler"
  /\ \/ /\ services' = [services EXCEPT !["scheduler"] = Recreated("scheduler")]
        /\ IF Changed("frontend") THEN Go("rollback_frontend") /\ UNCHANGED told
                                  ELSE finish("rolled_back")
        /\ UNCHANGED troubles
     \/ GiveUp /\ UNCHANGED services
  /\ UNCHANGED <<checkouts, tags, db, import, jobs, written, strayed, cut>>

rollback_frontend ==
  /\ job.step = "rollback_frontend"
  /\ \/ /\ services' = [services EXCEPT !["frontend"] = Recreated("frontend")]
        /\ finish("rolled_back")
        /\ UNCHANGED troubles
     \/ GiveUp /\ UNCHANGED services
  /\ UNCHANGED <<checkouts, tags, db, import, jobs, written, strayed, cut>>

\* The updater itself dies: recover_interrupted marks its job as failed.
recover_interrupted ==
  /\ job.step # "none"
  /\ GiveUp
  /\ UNCHANGED <<server, jobs, written, strayed, cut>>

-----------------------------------------------------------------------------
(* The server at work *)

Up(s) == services[s] # Null /\ services[s].up

begin_import(s) ==
  /\ import = Null /\ Up(s)
  /\ import' = s
  /\ UNCHANGED <<checkouts, tags, services, db, job, bounds, ghost>>

end_import ==
  /\ import # Null
  /\ import' = Null
  /\ UNCHANGED <<checkouts, tags, services, db, job, bounds, ghost>>

store ==
  /\ Up("backend") /\ written < MaxWrites
  /\ db' = [db EXCEPT !.data = @ + 1]
  /\ written' = written + 1
  /\ UNCHANGED <<checkouts, tags, services, import, job, bounds, told, strayed, cut>>

\* docker restarts a container that exited (restart: always), with the code now
\* on disk; one that does not come up is restarted over and over.
restart(s) ==
  /\ services[s] # Null
  /\ IF Up(s) THEN Trouble ELSE UNCHANGED troubles
  /\ CASE s = "backend"   -> StartBackend(services[s].image)
       [] s = "scheduler" -> /\ services' = [services EXCEPT ![s].code = tree["backend"]]
                             /\ UNCHANGED db
       [] s = "frontend"  -> UNCHANGED <<services, db>>
  /\ import' = IF import = s THEN Null ELSE import
  /\ UNCHANGED <<checkouts, tags, job, jobs, ghost>>

Next ==
  \/ \E target \in [Kinds -> Versions], discard \in BOOLEAN : start(target, discard)
  \/ prepare
  \/ \E ok \in BOOLEAN :
       \/ build(ok) \/ backup(ok) \/ dump(ok) \/ undo(ok)
       \/ swap_images(ok) \/ merge_ff(ok) \/ restart_backend(ok)
       \/ verify_backend(ok) \/ verify_scheduler(ok) \/ verify_frontend(ok)
       \/ rollback_ready(ok)
  \/ rollback_stop \/ rollback_database \/ rollback_code
  \/ rollback_start \/ rollback_scheduler \/ rollback_frontend
  \/ recover_interrupted
  \/ \E s \in {"backend", "scheduler"} : begin_import(s)
  \/ end_import \/ store
  \/ \E s \in Services : restart(s)

Spec == Init /\ [][Next]_vars

-----------------------------------------------------------------------------
(* Properties *)

Runs(s, k, v) == services[s] = [code |-> v, image |-> ImageOf(k, v), up |-> TRUE]

\* The server is at these versions, as a whole.
IsAt(v) ==
  /\ head = v
  /\ \A k \in Kinds : Runs(k, k, v[k]) /\ tags[k].latest = ImageOf(k, v[k])
  /\ services["scheduler"] = Null \/ Runs("scheduler", "backend", v["backend"])
  /\ services["scheduler"] = Null => strayed
  /\ db.rev = Schema(v["backend"])
  /\ db.tables = Between(0, db.rev) \/ told

\* A checkout broke off half-way and still shows.
TornAbout ==
  \/ \E k \in Kinds : tree[k] = Torn
  \/ \E s \in Services : services[s] # Null /\ services[s].code = Torn

\* What a job says is what the server is: updated, as before, or not touched.
\* A torn checkout, a failure to stop or start the scheduler and the tables a
\* database taken from its copy keeps of the failed version aside.
OutcomeIsTrue ==
  job.step = "none" /\ job.result \in {"updated", "up_to_date", "rolled_back", "not_done"}
    => \/ TornAbout
       \/ IsAt(IF job.result = "updated" THEN job.new
               ELSE IF job.result = "rolled_back" THEN job.old ELSE head)

\* Nothing users or agents stored is lost unless a job has said so.
NoSilentLoss ==
  job.step = "none" /\ job.result # "failed" => db.data = written \/ told

\* The scheduler never works on a schema that is not its own code's.
SchedulerKnowsSchema ==
  LET s == services["scheduler"] IN
  s # Null /\ s.code # Torn => db.rev = Schema(s.code)

\* An update does not cut off an import (data_update_running).
ImportIsNotCut == ~cut
=============================================================================
