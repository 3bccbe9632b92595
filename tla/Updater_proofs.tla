--------------------------- MODULE Updater_proofs ---------------------------
(***************************************************************************)
(* What an update leaves of the server, for any number of versions,         *)
(* migrations, updates, failing commands and restarts.                      *)
(***************************************************************************)
EXTENDS Updater, TLAPS, WellFoundedInduction

USE UpdaterAssumption, NullAssumption DEF UpdaterAssumption, NullAssumption

(* ---- Versions and their migrations ---- *)

\* A set of naturals that is not empty has a least member.
LEMMA LeastOf ==
  ASSUME NEW S \in SUBSET Nat, S # {}
  PROVE  \E x \in S : \A y \in S : x <= y
<1>1. PICK x \in S : \A y \in S : ~ (<<y, x>> \in OpToRel(<, Nat))
  BY WFMin, NatLessThanWellFounded
<1>2. ASSUME NEW y \in S PROVE x <= y
  <2>1. x \in Nat /\ y \in Nat  OBVIOUS
  <2>2. y < x => <<y, x>> \in OpToRel(<, Nat)  BY <2>1, Zenon DEF OpToRel
  <2>3. ~ (y < x)  BY <1>1, <2>2, Zenon
  <2> QED  BY <2>1, <2>3
<1> QED  BY <1>2

\* Latest is the greatest member of a set that is not above a version, or 0.
LEMMA LatestIs ==
  ASSUME NEW S \in SUBSET Nat, NEW v \in Nat
  PROVE  /\ Latest(S, v) \in S \cup {0}
         /\ Latest(S, v) <= v
         /\ \A w \in S : w <= v => w <= Latest(S, v)
<1> DEFINE T == {n \in 0 .. v : v - n \in S \cup {0}}
<1>1. v \in T /\ T \in SUBSET Nat  OBVIOUS
<1>2. PICK n \in T : \A y \in T : n <= y  BY <1>1, LeastOf
<1>3. v - n \in S \cup {0} /\ v - n \in Nat /\ v - n <= v  BY <1>2
<1>4. ASSUME NEW w \in S, w <= v PROVE w <= v - n
  <2>1. w \in Nat /\ v - w \in 0 .. v /\ v - (v - w) = w  BY <1>4
  <2>2. v - w \in T  BY <2>1
  <2>3. n <= v - w  BY <1>2, <2>2
  <2> QED  BY <2>1, <2>3, <1>1, <1>2
<1>5. \E u \in S \cup {0} : u <= v /\ \A w \in S : w <= v => w <= u
  BY <1>3, <1>4
<1> HIDE DEF T
<1> QED  BY <1>5 DEF Latest

LEMMA VersionsAre == Versions \subseteq Nat /\ 0 \in Versions /\ Migrates \subseteq Versions
BY DEF Versions

\* The schema of a version is that of its last migration.
LEMMA SchemaIs ==
  ASSUME NEW v \in Versions
  PROVE  /\ Schema(v) \in Versions /\ Schema(v) <= v
         /\ \A m \in Migrates : m <= v => m <= Schema(v)
<1>1. Migrates \in SUBSET Nat /\ v \in Nat  BY VersionsAre
<1> QED  BY <1>1, LatestIs, VersionsAre DEF Schema

LEMMA ImageIs ==
  ASSUME NEW k \in Kinds, NEW v \in Versions
  PROVE  ImageOf(k, v) \in Versions /\ ImageOf("frontend", v) = v
<1>1. Rebuilds \in SUBSET Nat /\ Rebuilds \subseteq Versions /\ v \in Nat  BY VersionsAre DEF Versions
<1> QED  BY <1>1, LatestIs, VersionsAre DEF ImageOf

\* A newer version's schema is no older.
LEMMA SchemaGrows ==
  ASSUME NEW u \in Versions, NEW v \in Versions, u <= v
  PROVE  Schema(u) <= Schema(v)
<1>1. Schema(u) \in Migrates \cup {0}
  BY LatestIs, VersionsAre DEF Schema
<1>2. Schema(u) <= u /\ Schema(u) \in Nat /\ Schema(v) \in Nat /\ u \in Nat /\ v \in Nat
  BY SchemaIs, VersionsAre
<1> QED  BY <1>1, <1>2, SchemaIs

\* A database at the schema of a version has nothing left to migrate for it.
LEMMA NothingLeft ==
  ASSUME NEW v \in Versions
  PROVE  Between(Schema(v), v) = {}
<1> SUFFICES ASSUME NEW m \in Migrates, Schema(v) < m, m <= v PROVE FALSE
  BY DEF Between
<1>1. m \in Nat /\ Schema(v) \in Nat  BY SchemaIs, VersionsAre
<1>2. m <= Schema(v)  BY SchemaIs
<1> QED  BY <1>1, <1>2

\* Migrations run up to a version, or down to a revision, leave just the tables below.
LEMMA TablesUp ==
  ASSUME NEW r \in Versions, NEW v \in Versions, r <= Schema(v)
  PROVE  Between(0, r) \cup Between(r, v) = Between(0, Schema(v))
<1>1. r \in Nat /\ v \in Nat /\ Schema(v) \in Nat /\ Schema(v) <= v  BY SchemaIs, VersionsAre
<1>2. ASSUME NEW m \in Migrates
      PROVE  (0 < m /\ m <= r) \/ (r < m /\ m <= v) <=> 0 < m /\ m <= Schema(v)
  <2>1. m \in Nat /\ 0 < m  BY VersionsAre
  <2>2. m <= v => m <= Schema(v)  BY SchemaIs
  <2> QED  BY <1>1, <2>1, <2>2
<1> QED  BY <1>2 DEF Between

LEMMA TablesDown ==
  ASSUME NEW r \in Versions, NEW q \in Versions, q <= r
  PROVE  Between(0, r) \ Between(q, r) = Between(0, q)
<1>1. ASSUME NEW m \in Migrates
      PROVE  (0 < m /\ m <= r) /\ ~(q < m /\ m <= r) <=> 0 < m /\ m <= q
  <2>1. m \in Nat /\ 0 < m /\ r \in Nat /\ q \in Nat  BY VersionsAre
  <2> QED  BY <2>1
<1> QED  BY <1>1 DEF Between

(* ---- The inductive invariant ---- *)

AfterCode == {"rollback_start", "rollback_ready", "rollback_scheduler", "rollback_frontend"}
AfterDb   == {"rollback_code"} \cup AfterCode
Rollback  == {"rollback", "rollback_db"} \cup AfterDb
Working   == Steps \ {"none", "prepare"}

\* No update is on its way, and none has left the server to the administrator.
AtRest == job.step = "prepare" \/ (job.step = "none" /\ job.result # "failed")

\* The copy of the database is in use and nobody has been told yet.
Untold == job.restored /\ (job.step \in AfterDb \/ (job.step = "none" /\ job.result = "failed"))

JobT   == job \in Job
ServT  == services \in [Services -> Container \cup {Null}]
TagsT  == tags \in [Kinds -> Tags]
CodeT  == head \in [Kinds -> Versions] /\ tree \in [Kinds -> Trees] /\ edited \subseteq Kinds
CountT == jobs \in 0 .. MaxJobs /\ troubles \in 0 .. MaxTroubles /\ written \in 0 .. MaxWrites
FlagT  == told \in BOOLEAN /\ strayed \in BOOLEAN /\ cut \in BOOLEAN /\ import \in {"backend", "scheduler", Null}

BaseT  == db \in Database
Typed  == JobT /\ ServT /\ TagsT /\ CodeT /\ CountT /\ FlagT /\ BaseT

\* Files of another commit than the one checked out are those of a broken fast-forward.
TreeInv == \A k \in Kinds : tree[k] \in {head[k], Torn}

\* A scheduler at work works on its own schema, and would after a restart.
SchedInv ==
  services["scheduler"] # Null =>
    /\ tree["backend"] # Torn => db.rev = Schema(tree["backend"])
    /\ services["scheduler"].code # Torn => db.rev = Schema(services["scheduler"].code)

\* Nothing is stored that nobody wrote, in the database or in its copy.
DataInv ==
  /\ db.data = written \/ told \/ Untold
  /\ db.data <= written
  /\ job.dump # Null => job.dump.data <= written

TablesInv == db.tables = Between(0, db.rev) \/ told \/ Untold

\* A container of the backend's image, on this version or on a torn checkout.
Fits(s, v) ==
  /\ services[s] \in Container
  /\ services[s].code \in {v, Torn} /\ services[s].image = ImageOf("backend", v) /\ services[s].up
SchedulerFits(v) == (services["scheduler"] = Null /\ strayed) \/ Fits("scheduler", v)
FrontendFits(v) == services["frontend"] = [code |-> v, image |-> v, up |-> TRUE]

RestInv ==
  AtRest =>
    /\ \A k \in Kinds : tags[k].latest = ImageOf(k, head[k])
    /\ Fits("backend", head["backend"])
    /\ SchedulerFits(head["backend"])
    /\ FrontendFits(head["frontend"])
    /\ db.rev = Schema(head["backend"])
    /\ job.step = "prepare" =>
         job.built = {} /\ job.swapped = {} /\ job.merged = {} /\ job.dump = Null /\ ~job.stopped /\ ~job.restored
    /\ job.step = "none" /\ job.result = "updated" => head = job.new
    /\ job.step = "none" /\ job.result = "rolled_back" => head = job.old

\* What the job has done so far: the commits and the tags it has moved.
JobInv ==
  job.step \in Working =>
    /\ job.changed = {k \in Kinds : job.new[k] # job.old[k]} /\ job.changed # {}
    /\ \A k \in Kinds : job.old[k] <= job.new[k]
    /\ job.oldRev = Schema(job.old["backend"])
    /\ job.merged \subseteq job.changed /\ job.swapped \subseteq job.built /\ job.built \subseteq job.changed
    /\ \A k \in Kinds :
         head[k] = IF k \in job.merged /\ job.step \notin AfterCode THEN job.new[k] ELSE job.old[k]
    /\ \A k \in Kinds :
         /\ tags[k].latest = ImageOf(k, IF k \in job.swapped /\ job.step \notin AfterCode THEN job.new[k] ELSE job.old[k])
         /\ k \in job.swapped /\ job.step \notin AfterCode => tags[k].prev = ImageOf(k, job.old[k])
         /\ k \in job.built \ job.swapped => tags[k].next = ImageOf(k, job.new[k])
    /\ job.dump # Null => job.dump.rev = job.oldRev

\* What is left to do at each step.
StepInv ==
  /\ job.step = "build" =>
       /\ job.todo # {} /\ job.todo \subseteq job.changed
       /\ job.built \cap job.todo = {}
       /\ \A k \in job.changed \ (job.built \cup job.todo) : ImageOf(k, job.new[k]) = ImageOf(k, job.old[k])
  /\ job.step \in Working \ ({"build", "undo"} \cup Rollback) =>
       \A k \in job.changed \ job.built : ImageOf(k, job.new[k]) = ImageOf(k, job.old[k])
  /\ job.step \in {"build", "backup", "dump", "undo"} => job.swapped = {}
  /\ job.step \in {"build", "backup", "dump", "undo", "swap"} => job.merged = {}
  /\ job.step = "swap" => job.todo # {} /\ job.todo = job.built \ job.swapped
  /\ job.step \in {"merge", "restart", "verify", "scheduler", "frontend"} => job.swapped = job.built
  /\ job.step = "merge" => job.todo # {} /\ job.todo = job.changed \ job.merged
  /\ job.step \in Working \ Rollback => \A k \in job.changed : tree[k] = head[k]
  /\ job.step \in {"restart", "verify", "scheduler", "frontend"} => job.merged = job.changed
  /\ job.step \in {"dump", "restart", "verify", "scheduler", "rollback_db",
                   "rollback_start", "rollback_ready", "rollback_scheduler"} => Changed("backend")
  /\ job.step \in {"frontend", "rollback_frontend"} => Changed("frontend")
  /\ job.step = "rollback_db" => "backend" \in job.merged
  /\ job.step \in {"build", "backup"} => ~job.stopped
  /\ job.step = "dump" => job.stopped
  /\ Changed("backend") /\ job.step \in {"swap", "merge"} => job.dump # Null
  /\ job.step \in Working /\ "backend" \in job.merged => job.dump # Null

\* Where the database stands.
RevInv ==
  job.step \in Working =>
    IF "backend" \in job.merged /\ job.step \notin AfterDb
    THEN db.rev \in {job.oldRev, Schema(job.new["backend"])}
    ELSE db.rev = job.oldRev

VerifiedInv ==
  job.step \in {"scheduler", "frontend"} => db.rev = Schema(job.new["backend"])

\* What runs in the middle of a job.
RunInv ==
  job.step \in Working =>
    /\ Changed("backend") /\ job.step \in {"dump", "swap", "merge", "restart", "verify", "scheduler"}
                                       \cup {"rollback_db", "rollback_code", "rollback_start",
                                             "rollback_ready", "rollback_scheduler"}
         => services["scheduler"] = Null
    /\ job.step = "undo" /\ job.stopped => services["scheduler"] = Null
    /\ (\/ ~Changed("backend") \/ job.step \in {"build", "backup", "rollback_frontend"}
        \/ job.step = "undo" /\ ~job.stopped)
         => SchedulerFits(job.old["backend"])
    /\ Changed("backend") /\ job.step = "frontend" => SchedulerFits(job.new["backend"])
    /\ (\/ ~Changed("backend")
        \/ "backend" \notin job.merged /\ job.step \notin Rollback
        \/ job.step \in {"rollback_ready", "rollback_scheduler", "rollback_frontend"})
         => Fits("backend", job.old["backend"])
    /\ Changed("backend") /\ job.step \in {"scheduler", "frontend"} => Fits("backend", job.new["backend"])
    /\ Changed("backend") /\ job.step \in {"rollback_db", "rollback_code", "rollback_start"} => services["backend"] = Null
    /\ job.step = "verify" =>
         /\ services["backend"] \in Container
         /\ services["backend"].code = job.new["backend"]
         /\ services["backend"].image = ImageOf("backend", job.new["backend"])
    /\ ~Changed("frontend") \/ job.step \notin Rollback => FrontendFits(job.old["frontend"])

IInv ==
  /\ Typed /\ TreeInv /\ SchedInv /\ DataInv /\ TablesInv /\ RestInv
  /\ JobInv /\ StepInv /\ RevInv /\ VerifiedInv /\ RunInv

(* ---- Types ---- *)

LEMMA Types == Typed => TypeOK
BY DEF Typed, TypeOK, JobT, ServT, TagsT, CodeT, CountT, FlagT, BaseT

LEMMA GoTypes == ASSUME JobT, NEW step \in Steps, Go(step) PROVE JobT'
BY DEF Go, Job, JobT

LEMMA FinishTypes == ASSUME JobT, FlagT, NEW r \in Results, finish(r) PROVE JobT' /\ told' \in BOOLEAN
BY DEF finish, Job, JobT, Steps, FlagT

LEMMA TroubleTypes == ASSUME CountT, Trouble PROVE troubles' \in 0 .. MaxTroubles
BY DEF CountT, Trouble

LEMMA MaybeTypes == ASSUME CountT, NEW ok \in BOOLEAN, Maybe(ok) PROVE troubles' \in 0 .. MaxTroubles
BY DEF CountT, Maybe, Trouble

LEMMA UpgradedTypes ==
  ASSUME db \in Database, NEW code \in Trees
  PROVE  Upgraded(code) \in Database /\ CanUpgrade(code) \in BOOLEAN
<1>1. code # Torn => Schema(code) \in Versions  BY SchemaIs DEF Trees
<1> QED  BY <1>1 DEF Upgraded, CanUpgrade, Database, Between

LEMMA DowngradedTypes == ASSUME db \in Database, NEW rev \in Versions PROVE Downgraded(rev) \in Database
BY DEF Downgraded, Database, Between

LEMMA RestoredTypes == ASSUME db \in Database, NEW copy \in Database PROVE Restored(copy) \in Database
BY DEF Restored, Database

LEMMA StartTypes ==
  ASSUME ServT, CodeT, db \in Database, NEW image \in Versions, StartBackend(image)
  PROVE  ServT' /\ db' \in Database
<1>1. tree["backend"] \in Trees  BY DEF CodeT, Kinds
<1> QED  BY <1>1, UpgradedTypes DEF StartBackend, ServT, Container, Services

LEMMA RecreatedTypes == ASSUME TagsT, CodeT, NEW s \in Services PROVE Recreated(s) \in Container
BY DEF Recreated, TagsT, CodeT, Tags, Container, Kinds, Services, Trees

LEMMA LatestTypes == ASSUME TagsT, NEW k \in Kinds PROVE tags[k].latest \in Versions
BY DEF TagsT, Tags

LEMMA InterruptTypes == ASSUME FlagT, NEW S, Interrupt(S) PROVE import' \in {"backend", "scheduler", Null} /\ cut' \in BOOLEAN
BY DEF FlagT, Interrupt

LEMMA FirstTypes ==
  ASSUME NEW S \in SUBSET Kinds, S # {}
  PROVE  First(S) \in S
BY DEF First, Kinds


(* ---- Steps that end a job as failed, and the server at work ---- *)

LEMMA GoFields ==
  ASSUME JobT, NEW step \in Steps, Go(step)
  PROVE  /\ job'.step = step /\ job'.result = job.result /\ job'.old = job.old /\ job'.new = job.new
         /\ job'.changed = job.changed /\ job'.todo = job.todo /\ job'.built = job.built
         /\ job'.swapped = job.swapped /\ job'.merged = job.merged /\ job'.stopped = job.stopped
         /\ job'.oldRev = job.oldRev /\ job'.dump = job.dump /\ job'.restored = job.restored
BY DEF JobT, Job, Go

LEMMA FinishFields ==
  ASSUME JobT, NEW r \in Results, finish(r)
  PROVE  /\ job'.step = "none" /\ job'.result = r /\ job'.old = job.old /\ job'.new = job.new
         /\ job'.restored = job.restored /\ job'.dump = job.dump
BY DEF JobT, Job, finish

\* What a job that ends as failed leaves is what it found.
LEMMA Fails ==
  ASSUME IInv, finish("failed"), troubles' \in 0 .. MaxTroubles,
         UNCHANGED <<server, jobs, written, strayed, cut>>
  PROVE  IInv'
<1> USE DEF server, checkouts
<1>1. JobT /\ FlagT /\ "failed" \in Results  BY DEF IInv, Typed, Results
<1>2. job'.step = "none" /\ job'.result = "failed" /\ job'.restored = job.restored /\ job'.dump = job.dump
  BY <1>1, FinishFields
<1>9. told' <=> told  BY DEF finish
<1>3. Typed'
  BY <1>1, FinishTypes DEF IInv, Typed, ServT, TagsT, CodeT, CountT, FlagT, BaseT
<1>4. TreeInv' /\ SchedInv'  BY DEF IInv, TreeInv, SchedInv, Schema
<1>5. DataInv' /\ TablesInv'  BY <1>2, <1>9 DEF IInv, DataInv, TablesInv, Untold, Between
<1>6. RestInv'  BY <1>2 DEF RestInv, AtRest
<1>7. JobInv' /\ StepInv' /\ RevInv' /\ VerifiedInv' /\ RunInv'
  BY <1>2 DEF JobInv, StepInv, RevInv, VerifiedInv, RunInv, Working, Rollback, AfterDb, AfterCode
<1> QED  BY <1>3, <1>4, <1>5, <1>6, <1>7 DEF IInv

\* Imports come and go.
LEMMA Imports ==
  ASSUME IInv, import' \in {"backend", "scheduler", Null},
         troubles' \in 0 .. MaxTroubles,
         UNCHANGED <<checkouts, tags, services, db, job, jobs, ghost>>
  PROVE  IInv'
<1> USE DEF checkouts, ghost
<1>1. Typed'  BY DEF IInv, Typed, BaseT, JobT, ServT, TagsT, CodeT, CountT, FlagT
<1>2. TreeInv' /\ SchedInv' /\ DataInv' /\ TablesInv'
  BY DEF IInv, TreeInv, SchedInv, DataInv, TablesInv, Untold, Between, Schema
<1>3. RestInv'  BY DEF IInv, RestInv, AtRest, Fits, SchedulerFits, FrontendFits, ImageOf, Schema
<1>4. JobInv' /\ RevInv' /\ VerifiedInv'  BY DEF IInv, JobInv, RevInv, VerifiedInv, ImageOf, Schema
<1>5. StepInv'  BY DEF IInv, StepInv, ImageOf, Changed
<1>6. RunInv'  BY DEF IInv, RunInv, ImageOf, Changed, Fits, SchedulerFits, FrontendFits
<1> QED  BY <1>1, <1>2, <1>3, <1>4, <1>5, <1>6 DEF IInv

LEMMA Stores ==
  ASSUME IInv, store
  PROVE  IInv'
<1> USE DEF checkouts, bounds, ghost, store
<1>1. /\ db \in Database /\ written \in Nat /\ MaxWrites \in Nat /\ db.data \in Nat /\ db.data <= written
      /\ job.dump # Null => job.dump.data \in Nat
  BY DEF IInv, Typed, BaseT, CountT, Database, DataInv, JobT, Job
<1>2. db'.rev = db.rev /\ db'.tables = db.tables /\ db'.data = db.data + 1  BY <1>1 DEF Database
<1>3. Typed'  BY <1>1, <1>2 DEF Database, IInv, Typed, BaseT, JobT, ServT, TagsT, CodeT, CountT, FlagT
<1>4. TreeInv' /\ SchedInv' /\ DataInv' /\ TablesInv'
  BY <1>1, <1>2 DEF IInv, TreeInv, SchedInv, DataInv, TablesInv, Untold, Between, Schema
<1>5. RestInv'  BY <1>2 DEF IInv, RestInv, AtRest, Fits, SchedulerFits, FrontendFits, ImageOf, Schema
<1>6. JobInv' /\ RevInv' /\ VerifiedInv'  BY <1>2 DEF IInv, JobInv, RevInv, VerifiedInv, ImageOf, Schema
<1>7. StepInv'  BY DEF IInv, StepInv, ImageOf, Changed
<1>8. RunInv'  BY DEF IInv, RunInv, ImageOf, Changed, Fits, SchedulerFits, FrontendFits
<1> QED  BY <1>3, <1>4, <1>5, <1>6, <1>7, <1>8 DEF IInv

\* The backend starts: it migrates what its code asks for, all of it or nothing.
LEMMA Starting ==
  ASSUME Typed, NEW image \in Versions, StartBackend(image)
  PROVE  /\ services'["backend"] = [code |-> tree["backend"], image |-> image, up |-> CanUpgrade(tree["backend"])]
         /\ \A s \in Services \ {"backend"} : services'[s] = services[s]
         /\ db'.data = db.data
         /\ tree["backend"] = Torn \/ db.rev = Schema(tree["backend"]) =>
              db' = db /\ CanUpgrade(tree["backend"])
         /\ db' = db \/ db'.rev = Schema(tree["backend"])
         /\ tree["backend"] # Torn /\ CanUpgrade(tree["backend"]) => db'.rev = Schema(tree["backend"])
         /\ db.tables = Between(0, db.rev) => db'.tables = Between(0, db'.rev)
<1> DEFINE code == tree["backend"]
<1>1. /\ db \in Database /\ db.rev \in Versions /\ code \in Versions \cup {Torn}
      /\ services \in [Services -> Container \cup {Null}]
  BY DEF Typed, BaseT, Database, CodeT, Kinds, Trees, ServT
<1>2. /\ services'["backend"] = [code |-> code, image |-> image, up |-> CanUpgrade(code)]
      /\ \A s \in Services \ {"backend"} : services'[s] = services[s]
      /\ db' = IF CanUpgrade(code) THEN Upgraded(code) ELSE db
  BY <1>1 DEF StartBackend, Services
<1>3. CASE code = Torn
  BY <1>2, <1>3 DEF CanUpgrade, Upgraded
<1>4. CASE code # Torn
  <2>1. code \in Versions /\ Schema(code) \in Versions  BY <1>1, <1>4, SchemaIs
  <2>2. /\ Upgraded(code).rev = Schema(code) /\ Upgraded(code).data = db.data
        /\ Upgraded(code).tables = db.tables \cup Between(db.rev, code)
    BY <1>1, <1>4 DEF Upgraded, Database
  <2>3. ASSUME db.rev = Schema(code) PROVE CanUpgrade(code) /\ Upgraded(code) = db
    <3>1. Between(db.rev, code) = {}  BY <2>1, <2>3, NothingLeft
    <3>4. Between(db.rev, code) \cap db.tables = {}  BY <3>1
    <3>6. Schema(code) \in Nat /\ db.rev \in Nat  BY <1>1, <2>1, VersionsAre
    <3>5. db.rev <= Schema(code)  BY <3>6, <2>3
    <3>2. CanUpgrade(code)  BY <1>4, <3>4, <3>5 DEF CanUpgrade
    <3>3. Upgraded(code) = db  BY <1>1, <1>4, <2>3, <3>1 DEF Upgraded, Database
    <3> QED  BY <3>2, <3>3
  <2>4. CanUpgrade(code) => db.rev <= Schema(code)  BY <1>4 DEF CanUpgrade
  <2>5. CanUpgrade(code) /\ db.tables = Between(0, db.rev)
          => Upgraded(code).tables = Between(0, Schema(code))
    BY <1>1, <2>1, <2>2, <2>4, TablesUp
  <2> HIDE DEF code
  <2>6. CASE CanUpgrade(code)
    BY <1>2, <2>2, <2>3, <2>5, <2>6, <1>4 DEF code
  <2>7. CASE ~CanUpgrade(code)
    BY <1>2, <2>3, <2>7, <1>4 DEF code
  <2> QED  BY <2>6, <2>7
<1> QED  BY <1>3, <1>4

\* docker restarts the scheduler: the code now on disk.
LEMMA RestartsScheduler ==
  ASSUME IInv, restart("scheduler")
  PROVE  IInv'
<1> USE DEF checkouts, ghost
<1>1. /\ services["scheduler"] \in Container /\ tree["backend"] \in Trees /\ tree["backend"] \in {head["backend"], Torn}
      /\ services["scheduler"] # Null
      /\ services' = [services EXCEPT !["scheduler"].code = tree["backend"]]
      /\ UNCHANGED <<checkouts, tags, db, job, jobs, ghost>>
      /\ import' \in {"backend", "scheduler", Null} /\ troubles' \in 0 .. MaxTroubles
  BY DEF IInv, Typed, ServT, CodeT, CountT, FlagT, Services, Kinds, TreeInv, restart, Trouble
<1>2. /\ \A s \in Services \ {"scheduler"} : services'[s] = services[s]
      /\ services'["scheduler"] \in Container
      /\ services'["scheduler"].code = tree["backend"]
      /\ services'["scheduler"].image = services["scheduler"].image
      /\ services'["scheduler"].up = services["scheduler"].up
  BY <1>1 DEF IInv, Typed, ServT, Services, Container
<1>3. Typed'  BY <1>1, <1>2 DEF IInv, Typed, BaseT, JobT, ServT, TagsT, CodeT, CountT, FlagT, Services
<1>4. TreeInv' /\ SchedInv' /\ DataInv' /\ TablesInv'
  BY <1>1, <1>2 DEF IInv, TreeInv, SchedInv, DataInv, TablesInv, Untold, Between, Schema
<1>5. RestInv'  BY <1>1, <1>2 DEF IInv, RestInv, AtRest, Fits, SchedulerFits, FrontendFits, ImageOf, Schema, Services
<1>6. JobInv' /\ RevInv' /\ VerifiedInv'  BY <1>1 DEF IInv, JobInv, RevInv, VerifiedInv, ImageOf, Schema
<1>7. StepInv'  BY <1>1 DEF IInv, StepInv, ImageOf, Changed
<1>8. RunInv'
  <2>1. ASSUME job.step \in Working PROVE head["backend"] = IF "backend" \in job.merged /\ job.step \notin AfterCode
                                                           THEN job.new["backend"] ELSE job.old["backend"]
    BY <2>1 DEF IInv, JobInv, Kinds
  <2>2. ASSUME job.step \in Working, ~Changed("backend") \/ job.step \in {"build", "backup", "undo", "rollback_frontend"}
        PROVE  head["backend"] = job.old["backend"]
    BY <2>1, <2>2 DEF IInv, JobInv, StepInv, Changed, AfterCode
  <2>3. job.step = "frontend" /\ Changed("backend") => head["backend"] = job.new["backend"]
    BY <2>1 DEF IInv, StepInv, Changed, AfterCode, Working, Steps
  <2> QED  BY <1>1, <1>2, <2>2, <2>3 DEF IInv, RunInv, ImageOf, Changed, Fits, SchedulerFits, FrontendFits, Services
<1> QED  BY <1>3, <1>4, <1>5, <1>6, <1>7, <1>8 DEF IInv

\* docker restarts the backend: its database is at the schema of the code on disk, except
\* between the merge of a backend and the end of its rollback.
LEMMA RestartsBackend ==
  ASSUME IInv, restart("backend")
  PROVE  IInv'
<1> USE DEF checkouts, ghost
<1> DEFINE code == tree["backend"]
           box  == services["backend"]
           same == db' = db /\ CanUpgrade(code)
<1>1. /\ box \in Container /\ box # Null /\ box.image \in Versions
      /\ code \in {head["backend"], Torn} /\ head["backend"] \in Versions
      /\ StartBackend(box.image)
      /\ UNCHANGED <<checkouts, tags, job, jobs, ghost>>
      /\ import' \in {"backend", "scheduler", Null} /\ troubles' \in 0 .. MaxTroubles
  BY DEF IInv, Typed, ServT, CodeT, CountT, FlagT, Services, Container, Kinds, TreeInv, restart, Trouble
<1>2. /\ services'["backend"] = [code |-> code, image |-> box.image, up |-> CanUpgrade(code)]
      /\ \A s \in Services \ {"backend"} : services'[s] = services[s]
      /\ db'.data = db.data
      /\ code = Torn \/ db.rev = Schema(code) => same
      /\ db' = db \/ db'.rev = Schema(code)
      /\ db.tables = Between(0, db.rev) => db'.tables = Between(0, db'.rev)
  BY <1>1, Starting DEF IInv
<1>3. Typed'
  <2>1. ServT' /\ BaseT'  BY <1>1, StartTypes DEF IInv, Typed, BaseT
  <2> QED  BY <1>1, <2>1 DEF IInv, Typed, JobT, TagsT, CodeT, CountT, FlagT
<1>4. services'["backend"].code = code /\ services'["backend"].image = box.image /\ services'["backend"].up = CanUpgrade(code)
  BY <1>2
<1>5. services'["scheduler"] = services["scheduler"] /\ services'["frontend"] = services["frontend"]
  BY <1>2 DEF Services
<1>6. services'["backend"] \in Container
  BY <1>1, <1>2, UpgradedTypes DEF IInv, Typed, BaseT, CodeT, Kinds, Container, Trees
<1> HIDE DEF code, box
<1>7. ASSUME job.step \in Working
      PROVE  /\ head["backend"] = IF "backend" \in job.merged /\ job.step \notin AfterCode
                                  THEN job.new["backend"] ELSE job.old["backend"]
             /\ job.oldRev = Schema(job.old["backend"])
             /\ ~Changed("backend") => "backend" \notin job.merged /\ job.new["backend"] = job.old["backend"]
  BY <1>7 DEF IInv, JobInv, Kinds, Changed
\* Where nothing is to be migrated.
<1>8. ASSUME job.step \in Working,
             ~("backend" \in job.merged /\ job.step \notin AfterDb \cup {"scheduler", "frontend"})
      PROVE  same
  <2>1. job.step # "rollback_code" \/ "backend" \notin job.merged
    BY <1>1 DEF IInv, RunInv, JobInv, Changed, box, Working, Steps
  <2>2. db.rev = Schema(head["backend"])
    BY <1>7, <1>8, <2>1 DEF IInv, RevInv, VerifiedInv, AfterDb
  <2> QED  BY <1>1, <1>2, <2>2
<1>9. TreeInv' /\ DataInv' /\ TablesInv'
  BY <1>1, <1>2 DEF IInv, TreeInv, DataInv, TablesInv, Untold
<1>10. SchedInv'
  BY <1>1, <1>2, <1>5 DEF IInv, SchedInv, code
<1>11. RestInv'
  BY <1>1, <1>2, <1>4, <1>5, <1>6 DEF IInv, RestInv, AtRest, Fits, SchedulerFits, FrontendFits, box
<1>12. JobInv'  BY <1>1 DEF IInv, JobInv
<1>13. StepInv'  BY <1>1 DEF IInv, StepInv, Changed
<1>14. RevInv' /\ VerifiedInv'
  <2>1. ASSUME job.step \in Working, "backend" \in job.merged, job.step \notin AfterDb
        PROVE  db'.rev \in {job.oldRev, Schema(job.new["backend"])}
    <3>1. head["backend"] = job.new["backend"]  BY <1>7, <2>1 DEF AfterDb
    <3> QED  BY <1>1, <1>2, <2>1, <3>1 DEF IInv, RevInv
  <2> QED  BY <1>1, <1>8, <2>1 DEF IInv, RevInv, VerifiedInv, AfterDb, Working, Steps
<1>15. RunInv'
  <2>2. ASSUME job.step \in Working,
               \/ ~Changed("backend")
               \/ "backend" \notin job.merged /\ job.step \notin Rollback
               \/ job.step \in {"rollback_ready", "rollback_scheduler", "rollback_frontend"}
        PROVE  Fits("backend", job.old["backend"])'
    <3>1. same /\ head["backend"] = job.old["backend"]
      BY <1>7, <1>8, <2>2 DEF AfterCode, AfterDb, Rollback
    <3> QED  BY <1>1, <1>4, <1>6, <2>2, <3>1 DEF IInv, RunInv, Fits, box
  <2>3. ASSUME job.step \in Working, Changed("backend"), job.step \in {"scheduler", "frontend"}
        PROVE  Fits("backend", job.new["backend"])'
    <3>1. same /\ head["backend"] = job.new["backend"]
      BY <1>7, <1>8, <2>3 DEF IInv, StepInv, Changed, AfterCode
    <3> QED  BY <1>1, <1>4, <1>6, <2>3, <3>1 DEF IInv, RunInv, Fits, box
  <2>4. job.step = "verify" => code = job.new["backend"]
    BY <1>7 DEF IInv, StepInv, Changed, code, Working, Rollback, AfterDb, AfterCode, Steps
  <2>5. \A v : (SchedulerFits(v) => SchedulerFits(v)') /\ (FrontendFits(v) => FrontendFits(v)')
    BY <1>1, <1>5 DEF SchedulerFits, FrontendFits, Fits
  <2>6. ~(Changed("backend") /\ job.step \in {"rollback_db", "rollback_code", "rollback_start"} /\ job.step \in Working)
    BY <1>1 DEF IInv, RunInv, box
  <2> QED  BY <1>1, <1>4, <1>5, <1>6, <2>2, <2>3, <2>4, <2>5, <2>6 DEF IInv, RunInv, Changed, box
<1> QED  BY <1>3, <1>9, <1>10, <1>11, <1>12, <1>13, <1>14, <1>15 DEF IInv

LEMMA Restarts ==
  ASSUME IInv, NEW s \in Services, restart(s)
  PROVE  IInv'
<1>1. CASE s = "frontend"
  <2>1. /\ import' \in {"backend", "scheduler", Null} /\ troubles' \in 0 .. MaxTroubles
        /\ UNCHANGED <<checkouts, tags, services, db, job, jobs, ghost>>
    BY <1>1 DEF restart, Trouble, IInv, Typed, FlagT, CountT
  <2> QED  BY <2>1, Imports
<1> QED  BY <1>1, RestartsScheduler, RestartsBackend DEF Services

(* ---- The steps of an update ---- *)

LEMMA Starts ==
  ASSUME IInv, NEW target \in [Kinds -> Versions], NEW discard \in BOOLEAN, start(target, discard)
  PROVE  IInv'
<1> USE DEF server, checkouts, ghost
<1>1. /\ UNCHANGED <<server, troubles, ghost>> /\ jobs' \in 0 .. MaxJobs /\ job' = NewJob(target, discard)
      /\ job.step = "none" /\ job.result # "failed"
  BY DEF IInv, Typed, CountT, start
<1>2. /\ job'.step = "prepare" /\ job'.dump = Null /\ ~job'.restored /\ ~job'.stopped
      /\ job'.built = {} /\ job'.swapped = {} /\ job'.merged = {}
  BY <1>1 DEF NewJob
<1>3. JobT'  BY <1>1, VersionsAre DEF JobT, Job, NewJob, Steps, Results
<1>4. Typed'  BY <1>1, <1>3 DEF IInv, Typed, ServT, TagsT, CodeT, CountT, FlagT, BaseT
<1>5. TreeInv' /\ SchedInv'  BY <1>1 DEF IInv, TreeInv, SchedInv
<1>6. DataInv' /\ TablesInv'  BY <1>1, <1>2 DEF IInv, DataInv, TablesInv, Untold, AfterDb, AfterCode
<1>7. RestInv'  BY <1>1, <1>2 DEF IInv, RestInv, AtRest, Fits, SchedulerFits, FrontendFits
<1>8. JobInv' /\ StepInv' /\ RevInv' /\ VerifiedInv' /\ RunInv'
  BY <1>2 DEF JobInv, StepInv, RevInv, VerifiedInv, RunInv, Working, Rollback, AfterDb, AfterCode
<1> QED  BY <1>4, <1>5, <1>6, <1>7, <1>8 DEF IInv

\* A job that is not begun leaves the server at rest.
LEMMA NotBegun ==
  ASSUME IInv, job.step = "prepare", NEW r \in {"up_to_date", "not_done"}, finish(r),
         troubles' \in 0 .. MaxTroubles, UNCHANGED <<server, jobs, written, strayed, cut>>
  PROVE  IInv'
<1> USE DEF server, checkouts
<1>1. JobT /\ FlagT /\ r \in Results  BY DEF IInv, Typed, Results
<1>2. job'.step = "none" /\ job'.result = r /\ job'.restored = job.restored /\ job'.dump = job.dump
  BY <1>1, FinishFields
<1>3. told' <=> told  BY DEF finish
<1>4. Typed'
  BY <1>1, FinishTypes DEF IInv, Typed, ServT, TagsT, CodeT, CountT, FlagT, BaseT
<1>5. TreeInv' /\ SchedInv'  BY DEF IInv, TreeInv, SchedInv
<1>6. DataInv' /\ TablesInv'  BY <1>2, <1>3 DEF IInv, DataInv, TablesInv, Untold, AfterDb, AfterCode
<1>7. RestInv'  BY <1>2 DEF IInv, RestInv, AtRest, Fits, SchedulerFits, FrontendFits
<1>8. JobInv' /\ StepInv' /\ RevInv' /\ VerifiedInv' /\ RunInv'
  BY <1>2 DEF JobInv, StepInv, RevInv, VerifiedInv, RunInv, Working, Rollback, AfterDb, AfterCode
<1> QED  BY <1>4, <1>5, <1>6, <1>7, <1>8 DEF IInv

\* A job that is begun: what it will change, from where the server is.
LEMMA Prepares ==
  ASSUME IInv, prepare
  PROVE  IInv'
<1> USE DEF checkouts, server
<1> DEFINE changed == {k \in Kinds : job.new[k] # head[k]}
<1>1. CASE job'.step # "build"
  <2>1. JobT /\ CountT  BY DEF IInv, Typed
  <2>2. job.step = "prepare" /\ UNCHANGED <<head, tags, services, db, import, jobs, written, strayed, cut>>
    BY DEF prepare
  <2>3. /\ finish("up_to_date") \/ finish("not_done")
        /\ UNCHANGED <<tree, edited>> /\ (UNCHANGED troubles \/ Trouble)
    BY <1>1, <2>1 DEF prepare, JobT, Job
  <2>4. troubles' \in 0 .. MaxTroubles  BY <2>1, <2>3, TroubleTypes DEF CountT
  <2> QED  BY <2>2, <2>3, <2>4, NotBegun
<1>2. CASE job'.step = "build"
  <2>1. JobT /\ CountT /\ CodeT /\ FlagT /\ db.rev \in Versions /\ job.step = "prepare"
    BY DEF IInv, Typed, BaseT, Database, prepare
  <2>2. /\ changed # {}
        /\ \A k \in changed : head[k] <= job.new[k]
        /\ tree' = [k \in Kinds |-> IF k \in changed THEN head[k] ELSE tree[k]]
        /\ edited' = edited \ changed
        /\ job' = [job EXCEPT !.step = "build", !.old = head, !.changed = changed,
                              !.todo = changed, !.oldRev = db.rev]
        /\ UNCHANGED <<head, tags, services, db, import, jobs, written, strayed, cut, told>>
        /\ UNCHANGED troubles \/ Trouble
    <3>1. \A k \in Kinds : job.new[k] \in Nat /\ head[k] \in Nat
      BY <2>1, VersionsAre DEF JobT, Job, CodeT
    <3>2. job'.step = "none" \/ ~(finish("up_to_date") \/ finish("not_done"))
      BY <2>1 DEF finish, JobT, Job
    <3> QED  BY <1>2, <3>1, <3>2 DEF prepare
  <2> HIDE DEF changed
  <2>3. /\ job'.step = "build" /\ job'.old = head /\ job'.new = job.new /\ job'.changed = changed /\ job'.todo = changed
        /\ job'.built = job.built /\ job'.swapped = job.swapped /\ job'.merged = job.merged
        /\ job'.dump = job.dump /\ job'.restored = job.restored /\ job'.oldRev = db.rev /\ job'.stopped = job.stopped
    BY <2>1, <2>2 DEF JobT, Job
  <2>4. changed \in SUBSET Kinds /\ \A k \in Kinds : k \in changed <=> job.new[k] # head[k]
    BY DEF changed
  <2>5. Typed'
    <3>1. JobT'  BY <2>1, <2>2, <2>4 DEF JobT, Job, Steps, CodeT
    <3>2. CodeT'  BY <2>1, <2>2, <2>4 DEF CodeT, Trees
    <3>3. CountT'  BY <2>1, <2>2, TroubleTypes DEF CountT
    <3> QED  BY <2>2, <3>1, <3>2, <3>3 DEF IInv, Typed, ServT, TagsT, FlagT, BaseT
  <2>6. TreeInv' /\ SchedInv'
    BY <2>1, <2>2 DEF IInv, TreeInv, SchedInv, RestInv, AtRest, CodeT, Kinds
  <2>7. DataInv' /\ TablesInv'
    BY <2>1, <2>2, <2>3 DEF IInv, DataInv, TablesInv, Untold, AfterDb, AfterCode
  <2>8. RestInv'  BY <2>3 DEF RestInv, AtRest
  <2>11. job.built = {} /\ job.swapped = {} /\ job.merged = {} /\ job.dump = Null /\ ~job.stopped
    BY <2>1 DEF IInv, RestInv, AtRest
  <2>12. /\ \A k \in Kinds : head[k] \in Nat /\ job.new[k] \in Nat /\ head[k] <= job.new[k]
        /\ db.rev = Schema(head["backend"])
        /\ \A k \in Kinds : tags[k].latest = ImageOf(k, head[k])
    BY <2>1, <2>2, <2>4, VersionsAre DEF IInv, RestInv, AtRest, JobT, Job, CodeT
  <2>9. JobInv'
    BY <2>2, <2>3, <2>4, <2>11, <2>12 DEF JobInv, AfterCode, changed
  <2>10. StepInv' /\ RevInv' /\ VerifiedInv'
    BY <2>2, <2>3, <2>4, <2>11 DEF StepInv, RevInv, VerifiedInv, Working, Rollback, AfterCode, AfterDb, Changed
  <2>13. RunInv'
    BY <2>1, <2>2, <2>3, <2>4, <2>11 DEF IInv, RunInv, RestInv, AtRest, Working, Rollback, AfterCode,
       AfterDb, Changed, Fits, SchedulerFits, FrontendFits
  <2> QED  BY <2>5, <2>6, <2>7, <2>8, <2>9, <2>10, <2>13 DEF IInv
<1> QED  BY <1>1, <1>2

\* Nothing but the job and the images of the next version changes while an update is prepared.
LEMMA Preparing ==
  ASSUME IInv, JobT', TagsT', troubles' \in 0 .. MaxTroubles,
         job.step \in {"build", "backup", "dump"}, job'.step \in {"build", "backup", "swap", "merge", "undo"},
         UNCHANGED <<checkouts, services, db, import, jobs, ghost>>,
         job'.old = job.old, job'.new = job.new, job'.changed = job.changed, job'.oldRev = job.oldRev,
         job'.swapped = job.swapped, job'.merged = job.merged, job'.restored = job.restored,
         job'.dump # Null => job'.dump = db \/ job'.dump = job.dump
  PROVE  Typed' /\ TreeInv' /\ SchedInv' /\ DataInv' /\ TablesInv' /\ RestInv' /\ RevInv' /\ VerifiedInv'
<1> USE DEF checkouts, ghost
<1>1. Typed'  BY DEF IInv, Typed, ServT, CodeT, CountT, FlagT, BaseT
<1>2. TreeInv' /\ SchedInv'  BY DEF IInv, TreeInv, SchedInv
<1>3. DataInv' /\ TablesInv'  BY DEF IInv, DataInv, TablesInv, Untold, AfterDb, AfterCode
<1>4. RestInv' /\ VerifiedInv'  BY DEF RestInv, AtRest, VerifiedInv
<1>5. RevInv'
  BY DEF IInv, RevInv, StepInv, Working, Steps, AfterDb, AfterCode
<1> QED  BY <1>1, <1>2, <1>3, <1>4, <1>5

LEMMA Builds ==
  ASSUME IInv, NEW ok \in BOOLEAN, build(ok)
  PROVE  IInv'
<1> USE DEF checkouts, ghost
<1> DEFINE k == First(job.todo)
           needed == ImageOf(k, job.new[k]) # ImageOf(k, job.old[k])
           left == job.todo \ {k}
<1>1. /\ JobT /\ TagsT /\ CountT /\ job.step = "build" /\ job.merged = {} /\ job.swapped = {}
      /\ k \in job.todo /\ k \in Kinds /\ k \in job.changed /\ k \notin job.built
      /\ ImageOf(k, job.new[k]) \in Versions
      /\ UNCHANGED <<checkouts, services, db, import, jobs, ghost>>
  <2>1. JobT /\ TagsT /\ CountT /\ job.step = "build" /\ StepInv /\ job.todo \in SUBSET Kinds /\ job.new \in [Kinds -> Versions]
    BY DEF IInv, Typed, JobT, Job, build
  <2>2. k \in job.todo  BY <2>1, FirstTypes DEF StepInv
  <2> QED  BY <2>1, <2>2, ImageIs DEF StepInv, build
<1>2. troubles' \in 0 .. MaxTroubles  BY <1>1, MaybeTypes DEF build
<1>3. CASE ok
  <2>1. /\ tags' = IF needed THEN [tags EXCEPT ![k].next = ImageOf(k, job.new[k])] ELSE tags
        /\ job' = [job EXCEPT !.built = IF needed THEN @ \cup {k} ELSE @, !.todo = left,
                              !.step = IF left = {} THEN "backup" ELSE "build"]
    BY <1>3 DEF build
  <2> HIDE DEF k, needed, left
  <2>2. /\ job'.step = (IF left = {} THEN "backup" ELSE "build") /\ job'.todo = left
        /\ job'.built = IF needed THEN job.built \cup {k} ELSE job.built
        /\ job'.old = job.old /\ job'.new = job.new /\ job'.changed = job.changed /\ job'.oldRev = job.oldRev
        /\ job'.swapped = job.swapped /\ job'.merged = job.merged /\ job'.restored = job.restored /\ job'.dump = job.dump
        /\ job'.stopped = job.stopped
    BY <1>1, <2>1 DEF JobT, Job
  <2>3. JobT'  BY <1>1, <2>1 DEF JobT, Job, Steps, left
  <2>4. /\ TagsT' /\ \A j \in Kinds : tags'[j].latest = tags[j].latest /\ tags'[j].prev = tags[j].prev
        /\ \A j \in Kinds : tags'[j].next = IF needed /\ j = k THEN ImageOf(k, job.new[k]) ELSE tags[j].next
    BY <1>1, <2>1 DEF TagsT, Tags
  <2>5. job'.step \in {"build", "backup"}  BY <2>2
  <2>6. Typed' /\ TreeInv' /\ SchedInv' /\ DataInv' /\ TablesInv' /\ RestInv' /\ RevInv' /\ VerifiedInv'
    BY <1>1, <1>2, <2>2, <2>3, <2>4, <2>5, Preparing
  <2>7. JobInv'
    BY <1>1, <2>2, <2>4, <2>5 DEF IInv, JobInv, Working, AfterCode, Steps
  <2>8. StepInv'
    BY <1>1, <2>2, <2>5 DEF IInv, StepInv, Working, Steps, Rollback, AfterDb, AfterCode, Changed, needed, left
  <2>9. RunInv'
    BY <1>1, <2>2, <2>5 DEF IInv, RunInv, Working, Steps, Rollback, AfterDb, AfterCode, Changed, Fits, SchedulerFits, FrontendFits
  <2> QED  BY <2>6, <2>7, <2>8, <2>9 DEF IInv
<1>4. CASE ~ok
  <2>1. Go("undo") /\ UNCHANGED tags /\ "undo" \in Steps  BY <1>4 DEF build, Steps
  <2>2. /\ job'.step = "undo"
        /\ job'.built = job.built
        /\ job'.old = job.old /\ job'.new = job.new /\ job'.changed = job.changed /\ job'.oldRev = job.oldRev
        /\ job'.swapped = job.swapped /\ job'.merged = job.merged /\ job'.restored = job.restored /\ job'.dump = job.dump
        /\ job'.stopped = job.stopped
    BY <1>1, <2>1, GoFields
  <2>3. JobT' /\ TagsT'  BY <1>1, <2>1, GoTypes DEF TagsT
  <2>6. Typed' /\ TreeInv' /\ SchedInv' /\ DataInv' /\ TablesInv' /\ RestInv' /\ RevInv' /\ VerifiedInv'
    BY <1>1, <1>2, <2>2, <2>3, Preparing
  <2>7. JobInv'
    BY <1>1, <2>1, <2>2 DEF IInv, JobInv, Working, AfterCode, Steps
  <2>8. StepInv'
    BY <1>1, <2>2 DEF IInv, StepInv, Working, Steps, Rollback, AfterDb, AfterCode, Changed
  <2>9. RunInv'
    BY <1>1, <2>2 DEF IInv, RunInv, StepInv, Working, Steps, Rollback, AfterDb, AfterCode, Changed, Fits, SchedulerFits, FrontendFits
  <2> QED  BY <2>6, <2>7, <2>8, <2>9 DEF IInv
<1> QED  BY <1>3, <1>4

\* After the backup come the images, if any were built, or else the commits.
LEMMA AfterBackupFields ==
  ASSUME JobT
  PROVE  /\ AfterBackup \in Job /\ AfterBackup.step = (IF job.built = {} THEN "merge" ELSE "swap")
         /\ AfterBackup.todo = (IF job.built = {} THEN job.changed ELSE job.built)
         /\ AfterBackup.old = job.old /\ AfterBackup.new = job.new /\ AfterBackup.changed = job.changed
         /\ AfterBackup.built = job.built /\ AfterBackup.swapped = job.swapped /\ AfterBackup.merged = job.merged
         /\ AfterBackup.oldRev = job.oldRev /\ AfterBackup.dump = job.dump /\ AfterBackup.restored = job.restored
BY DEF JobT, Job, AfterBackup, Steps

\* The copy is made, or not needed: on to the images and the commits.
LEMMA OnFromBackup ==
  ASSUME IInv,
         \/ job.step = "backup" /\ ~Changed("backend") /\ job' = AfterBackup
         \/ job.step = "dump" /\ job' = [AfterBackup EXCEPT !.dump = db],
         troubles' \in 0 .. MaxTroubles, UNCHANGED <<server, jobs, ghost>>
  PROVE  IInv'
<1> USE DEF checkouts, ghost, server
<1>1. JobT /\ db \in Database /\ JobInv /\ StepInv /\ RevInv /\ RunInv /\ job.step \in {"backup", "dump"}
  BY DEF IInv, Typed, BaseT
<1>2. /\ job'.step = (IF job.built = {} THEN "merge" ELSE "swap")
      /\ job'.todo = (IF job.built = {} THEN job.changed ELSE job.built)
      /\ job'.old = job.old /\ job'.new = job.new /\ job'.changed = job.changed /\ job'.oldRev = job.oldRev
      /\ job'.built = job.built /\ job'.swapped = job.swapped /\ job'.merged = job.merged
      /\ job'.restored = job.restored
      /\ job'.dump \in {job.dump, db} /\ (job.step = "dump" => job'.dump = db)
      /\ JobT'
  BY <1>1, AfterBackupFields DEF JobT, Job
<1>3. job'.step \in {"swap", "merge"} /\ TagsT'  BY <1>2 DEF IInv, Typed, TagsT
<1>4. Typed' /\ TreeInv' /\ SchedInv' /\ DataInv' /\ TablesInv' /\ RestInv' /\ RevInv' /\ VerifiedInv'
  BY <1>1, <1>2, <1>3, Preparing
<1>5. JobInv'
  BY <1>1, <1>2, <1>3 DEF JobInv, RevInv, StepInv, Working, AfterCode, AfterDb, Steps
<1>6. StepInv'
  <2>1. /\ job.swapped = {} /\ job.merged = {} /\ job.built \subseteq job.changed /\ job.changed # {}
        /\ \A k \in job.changed \ job.built : ImageOf(k, job.new[k]) = ImageOf(k, job.old[k])
        /\ \A k \in job.changed : tree[k] = head[k]
    BY <1>1 DEF StepInv, JobInv, Working, Steps, Rollback, AfterDb, AfterCode
  <2>2. Changed("backend") => job'.dump # Null
    BY <1>1, <1>2
  <2>3. CASE job.built = {}
    BY <1>2, <2>1, <2>2, <2>3 DEF StepInv, Working, Steps, Rollback, AfterDb, AfterCode, Changed
  <2>4. CASE job.built # {}
    BY <1>2, <2>1, <2>2, <2>4 DEF StepInv, Working, Steps, Rollback, AfterDb, AfterCode, Changed
  <2> QED  BY <2>3, <2>4
<1>7. RunInv'
  BY <1>1, <1>2, <1>3 DEF RunInv, StepInv, Working, Steps, Rollback, AfterDb, AfterCode, Changed, Fits, SchedulerFits, FrontendFits
<1> QED  BY <1>4, <1>5, <1>6, <1>7 DEF IInv

LEMMA BacksUp ==
  ASSUME IInv, NEW ok \in BOOLEAN, backup(ok)
  PROVE  IInv'
<1> USE DEF checkouts, ghost, server
<1>1. JobT /\ CountT /\ FlagT /\ ServT /\ JobInv /\ StepInv /\ RevInv /\ RunInv /\ job.step = "backup"
  BY DEF IInv, Typed, backup
<1>2. CASE ~Changed("backend")
  <2>1. job' = AfterBackup /\ UNCHANGED <<server, jobs, ghost, troubles>>  BY <1>2 DEF backup
  <2>2. troubles' \in 0 .. MaxTroubles  BY <1>1, <2>1 DEF CountT
  <2>3. job.step = "backup" /\ ~Changed("backend") /\ job' = AfterBackup  BY <1>1, <1>2, <2>1
  <2>4. UNCHANGED <<server, jobs, ghost>>  BY <2>1
  <2> QED  BY ONLY IInv, <2>2, <2>3, <2>4, OnFromBackup, Zenon
<1>3. CASE Changed("backend")
  <2>1. /\ Maybe(ok) /\ job' = [job EXCEPT !.step = IF ok THEN "dump" ELSE "undo", !.stopped = ok]
        /\ strayed' = (strayed \/ ~ok)
        /\ \/ services' = [services EXCEPT !["scheduler"] = Null] /\ Interrupt({"scheduler"})
           \/ ~ok /\ UNCHANGED <<services, import, cut>>
        /\ UNCHANGED <<checkouts, tags, db, jobs, written, told>>
    BY <1>3 DEF backup
  <2>2. /\ job'.step = (IF ok THEN "dump" ELSE "undo") /\ job'.stopped = ok
        /\ job'.old = job.old /\ job'.new = job.new /\ job'.changed = job.changed /\ job'.oldRev = job.oldRev
        /\ job'.built = job.built /\ job'.swapped = job.swapped /\ job'.merged = job.merged
        /\ job'.restored = job.restored
        /\ job'.dump = job.dump /\ JobT'
    BY <1>1, <2>1 DEF JobT, Job, Steps
  <2>3. /\ services'["scheduler"] = Null \/ (~ok /\ services'["scheduler"] = services["scheduler"])
        /\ \A s \in Services \ {"scheduler"} : services'[s] = services[s]
        /\ ServT'
    BY <1>1, <2>1 DEF ServT, Services
  <2>4. FlagT'
    <3>1. strayed' \in BOOLEAN  BY <2>1
    <3> QED  BY <1>1, <2>1, <3>1, InterruptTypes DEF FlagT
  <2>5. CountT'  BY <1>1, <2>1, MaybeTypes DEF CountT
  <2>6. Typed'  BY <2>1, <2>2, <2>3, <2>4, <2>5 DEF IInv, Typed, CodeT, TagsT, BaseT
  <2>7. TreeInv' /\ SchedInv'  BY <2>1, <2>3 DEF IInv, TreeInv, SchedInv
  <2>8. DataInv' /\ TablesInv'  BY <1>1, <2>1, <2>2 DEF IInv, DataInv, TablesInv, Untold, AfterDb, AfterCode
  <2>9. RestInv' /\ VerifiedInv'  BY <2>2 DEF RestInv, AtRest, VerifiedInv
  <2>10. RevInv'  BY <1>1, <2>1, <2>2 DEF RevInv, StepInv, Working, Steps, AfterDb, AfterCode
  <2>11. JobInv'  BY <1>1, <2>1, <2>2 DEF JobInv, Working, AfterCode, Steps
  <2>12. StepInv'
    BY <1>1, <1>3, <2>1, <2>2 DEF StepInv, Working, Steps, Rollback, AfterDb, AfterCode, Changed
  <2>13. RunInv'
    <3>1. \A v : (Fits("backend", v) => Fits("backend", v)') /\ (FrontendFits(v) => FrontendFits(v)')
      BY <2>3 DEF Fits, FrontendFits, Services
    <3>2. ~ok => SchedulerFits(job.old["backend"])'
      <4>1. SchedulerFits(job.old["backend"])  BY <1>1 DEF RunInv, Working, Steps
      <4> QED  BY <2>1, <2>2, <2>3, <4>1 DEF SchedulerFits, Fits
    <3>3. ok => services'["scheduler"] = Null  BY <2>3
    <3> QED
      BY <1>1, <1>3, <2>2, <3>1, <3>2, <3>3 DEF RunInv, StepInv, Working, Steps, Rollback, AfterDb, AfterCode, Changed
  <2> QED  BY <2>6, <2>7, <2>8, <2>9, <2>10, <2>11, <2>12, <2>13 DEF IInv
<1> QED  BY <1>2, <1>3

LEMMA Dumps ==
  ASSUME IInv, NEW ok \in BOOLEAN, dump(ok)
  PROVE  IInv'
<1> USE DEF checkouts, ghost, server
<1>1. /\ JobT /\ CountT /\ JobInv /\ StepInv /\ RevInv /\ RunInv /\ TagsT' /\ job.step = "dump"
      /\ UNCHANGED <<server, jobs, ghost>> /\ troubles' \in 0 .. MaxTroubles
  BY MaybeTypes DEF IInv, Typed, dump, TagsT
<1>2. CASE ok
  BY <1>1, <1>2, OnFromBackup DEF dump
<1>3. CASE ~ok
  <2>1. job' = [job EXCEPT !.step = "undo"]  BY <1>3 DEF dump
  <2>2. /\ job'.step = "undo" /\ job'.stopped = job.stopped
        /\ job'.old = job.old /\ job'.new = job.new /\ job'.changed = job.changed /\ job'.oldRev = job.oldRev
        /\ job'.built = job.built /\ job'.swapped = job.swapped /\ job'.merged = job.merged
        /\ job'.restored = job.restored
        /\ job'.dump = job.dump /\ JobT'
    BY <1>1, <2>1 DEF JobT, Job, Steps
  <2>3. Typed' /\ TreeInv' /\ SchedInv' /\ DataInv' /\ TablesInv' /\ RestInv' /\ RevInv' /\ VerifiedInv'
    BY <1>1, <2>2, Preparing
  <2>4. JobInv'  BY <1>1, <2>2 DEF JobInv, Working, AfterCode, Steps
  <2>5. StepInv'  BY <1>1, <2>2 DEF StepInv, Working, Steps, Rollback, AfterDb, AfterCode, Changed
  <2>6. RunInv'
    BY <1>1, <2>2 DEF RunInv, StepInv, Working, Steps, Rollback, AfterDb, AfterCode, Changed, Fits, SchedulerFits, FrontendFits
  <2> QED  BY <2>3, <2>4, <2>5, <2>6 DEF IInv
<1> QED  BY <1>2, <1>3

\* What was prepared is undone, and the scheduler is back or its start has failed.
LEMMA Undoes ==
  ASSUME IInv, NEW ok \in BOOLEAN, undo(ok)
  PROVE  IInv'
<1> USE DEF checkouts
<1>1. /\ JobT /\ CountT /\ FlagT /\ ServT /\ TagsT /\ CodeT /\ JobInv /\ StepInv /\ RevInv /\ RunInv /\ job.step = "undo"
      /\ Maybe(ok) /\ (ok \/ job.stopped) /\ finish("not_done") /\ "not_done" \in Results
      /\ strayed' = (strayed \/ ~ok)
      /\ UNCHANGED <<checkouts, db, import, jobs, written, cut>>
  BY DEF IInv, Typed, undo, Results
<1>2. job'.step = "none" /\ job'.result = "not_done" /\ job'.restored = job.restored /\ job'.dump = job.dump
  BY <1>1, FinishFields
<1>3. told' <=> told  BY <1>1 DEF finish
<1>4. TagsT' /\ \A k \in Kinds : tags'[k].latest = tags[k].latest
  BY <1>1 DEF undo, TagsT, Tags
<1>5. /\ ServT'
      /\ \A s \in Services \ {"scheduler"} : services'[s] = services[s]
      /\ services'["scheduler"] = IF job.stopped /\ ok THEN Recreated("scheduler") ELSE services["scheduler"]
  BY <1>1, RecreatedTypes DEF undo, ServT, Services
<1>6. strayed' \in BOOLEAN /\ JobT' /\ told' \in BOOLEAN /\ CountT'
  BY <1>1, FinishTypes, MaybeTypes DEF CountT
<1>7. Typed'  BY <1>1, <1>4, <1>5, <1>6 DEF IInv, Typed, CodeT, FlagT, BaseT
<1>8. /\ head["backend"] = job.old["backend"] /\ head["frontend"] = job.old["frontend"]
      /\ \A k \in Kinds : head[k] = job.old[k]
      /\ \A k \in Kinds : tags[k].latest = ImageOf(k, head[k])
      /\ db.rev = Schema(head["backend"])
  BY <1>1 DEF JobInv, StepInv, RevInv, Working, Steps, AfterCode, Kinds
<1>9. /\ Recreated("scheduler") \in Container /\ Recreated("scheduler").code = tree["backend"]
      /\ Recreated("scheduler").image = ImageOf("backend", head["backend"]) /\ Recreated("scheduler").up
      /\ tree["backend"] \in {head["backend"], Torn}
  BY <1>1, <1>8, RecreatedTypes DEF Recreated, Services, IInv, TreeInv, Kinds
<1>10. TreeInv' /\ SchedInv'
  BY <1>1, <1>5, <1>8, <1>9 DEF IInv, TreeInv, SchedInv
<1>11. DataInv' /\ TablesInv'
  BY <1>1, <1>2, <1>3 DEF IInv, DataInv, TablesInv, Untold, AfterDb, AfterCode
<1>12. RestInv'
  <2>1. Fits("backend", head["backend"])'
    BY <1>1, <1>5, <1>8 DEF RunInv, StepInv, Fits, Services, Working, Steps, Rollback, AfterDb, AfterCode
  <2>2. FrontendFits(head["frontend"])'
    BY <1>1, <1>5, <1>8 DEF RunInv, FrontendFits, Services, Working, Steps, Rollback, AfterDb, AfterCode
  <2>3. CASE ~job.stopped
    <3>1. SchedulerFits(head["backend"])  BY <1>1, <1>8, <2>3 DEF RunInv, Working, Steps
    <3> QED  BY <1>1, <1>2, <1>4, <1>5, <1>8, <2>1, <2>2, <2>3, <3>1 DEF RestInv, AtRest, SchedulerFits, Fits
  <2>4. CASE job.stopped
    <3>1. services["scheduler"] = Null  BY <1>1, <2>4 DEF RunInv, Working, Steps
    <3>2. SchedulerFits(head["backend"])'
      BY <1>1, <1>5, <1>9, <2>4, <3>1 DEF SchedulerFits, Fits
    <3> QED  BY <1>1, <1>2, <1>4, <1>8, <2>1, <2>2, <3>2 DEF RestInv, AtRest
  <2> QED  BY <2>3, <2>4
<1>13. JobInv' /\ StepInv' /\ RevInv' /\ VerifiedInv' /\ RunInv'
  BY <1>2 DEF JobInv, StepInv, RevInv, VerifiedInv, RunInv, Working, Rollback, AfterDb, AfterCode
<1> QED  BY <1>7, <1>10, <1>11, <1>12, <1>13 DEF IInv

\* A step that fails after the backup leads to the rollback.  It may have left a tag of an
\* image not yet in use, a torn checkout, or a container that the rollback takes away.
LEMMA ToRollback ==
  ASSUME IInv, Go("rollback"), job.step \in {"swap", "merge", "restart", "verify", "scheduler", "frontend"},
         troubles' \in 0 .. MaxTroubles, TagsT', ServT', CodeT', TreeInv', SchedInv',
         UNCHANGED <<head, edited, db, import, jobs, ghost>>,
         \A k \in Kinds :
           /\ tags'[k].latest = tags[k].latest /\ tags'[k].next = tags[k].next
           /\ k \in job.swapped => tags'[k].prev = tags[k].prev,
         services'["backend"] = services["backend"],
         ~Changed("backend") => services'["scheduler"] = services["scheduler"],
         ~Changed("frontend") => services'["frontend"] = services["frontend"]
  PROVE  IInv'
<1> USE DEF ghost
<1>1. JobT /\ "rollback" \in Steps /\ JobInv /\ StepInv /\ RevInv /\ RunInv
  BY DEF IInv, Typed, Steps
<1>2. /\ job'.step = "rollback"
      /\ job'.old = job.old /\ job'.new = job.new /\ job'.changed = job.changed /\ job'.oldRev = job.oldRev
      /\ job'.built = job.built /\ job'.swapped = job.swapped /\ job'.merged = job.merged
      /\ job'.restored = job.restored /\ job'.dump = job.dump
  BY <1>1, GoFields
<1>3. JobT'  BY <1>1, GoTypes
<1>4. Typed'  BY <1>3 DEF IInv, Typed, CountT, FlagT, BaseT
<1>5. DataInv' /\ TablesInv'  BY <1>2 DEF IInv, DataInv, TablesInv, Untold, AfterDb, AfterCode
<1>6. RestInv' /\ VerifiedInv'  BY <1>2 DEF RestInv, AtRest, VerifiedInv
<1>7. JobInv'
  <2>1. /\ job.step \in Working /\ job.step \notin AfterCode
        /\ job'.step \in Working /\ job'.step \notin AfterCode
    BY <1>2 DEF Working, Steps, AfterCode
  <2> QED  BY <1>1, <1>2, <2>1 DEF JobInv
<1>8. StepInv'  BY <1>1, <1>2 DEF StepInv, Working, Steps, Rollback, AfterDb, AfterCode, Changed
<1>9. RevInv'  BY <1>1, <1>2 DEF RevInv, Working, Steps, AfterDb, AfterCode
<1>10. RunInv'
  <2>1. ~Changed("backend") => SchedulerFits(job.old["backend"])' /\ Fits("backend", job.old["backend"])'
    BY <1>1, <1>2 DEF RunInv, Working, Steps, SchedulerFits, Fits
  <2>2. ~Changed("frontend") => FrontendFits(job.old["frontend"])'
    BY <1>1, <1>2 DEF RunInv, Working, Steps, FrontendFits
  <2> QED  BY <1>2, <2>1, <2>2 DEF RunInv, Changed, Rollback
<1> QED  BY <1>4, <1>5, <1>6, <1>7, <1>8, <1>9, <1>10 DEF IInv

LEMMA Swaps ==
  ASSUME IInv, NEW ok \in BOOLEAN, swap_images(ok)
  PROVE  IInv'
<1> USE DEF checkouts, ghost
<1> DEFINE k == First(job.todo)
           left == job.todo \ {k}
<1>1. /\ JobT /\ TagsT /\ ServT /\ CodeT /\ job.step = "swap" /\ job.merged = {}
      /\ JobInv /\ StepInv /\ RevInv /\ RunInv
      /\ k \in job.todo /\ k \in Kinds /\ k \in job.changed /\ k \in job.built /\ k \notin job.swapped
      /\ troubles' \in 0 .. MaxTroubles
      /\ UNCHANGED <<checkouts, services, db, import, jobs, ghost>>
  <2>1. JobT /\ TagsT /\ ServT /\ CodeT /\ CountT /\ job.step = "swap" /\ JobInv /\ StepInv /\ RevInv /\ RunInv /\ job.todo \in SUBSET Kinds
    BY DEF IInv, Typed, JobT, Job, swap_images
  <2>2. k \in job.todo  BY <2>1, FirstTypes DEF StepInv
  <2>3. job.built \subseteq job.changed  BY <2>1 DEF JobInv, Working, Steps
  <2> QED  BY <2>1, <2>2, <2>3, MaybeTypes DEF StepInv, swap_images
<1>2. /\ tags[k].next = ImageOf(k, job.new[k]) /\ tags[k].latest = ImageOf(k, job.old[k])
      /\ ImageOf(k, job.new[k]) \in Versions /\ ImageOf(k, job.old[k]) \in Versions
  <2>1. job.new[k] \in Versions /\ job.old[k] \in Versions  BY <1>1 DEF JobT, Job
  <2> QED  BY <1>1, <2>1, ImageIs DEF JobInv, Working, Steps
<1>3. CASE ok
  <2>1. /\ tags' = [tags EXCEPT ![k].prev = tags[k].latest, ![k].latest = tags[k].next]
        /\ job' = [job EXCEPT !.swapped = @ \cup {k}, !.step = IF left = {} THEN "merge" ELSE "swap",
                              !.todo = IF left = {} THEN job.changed ELSE left]
    BY <1>1, <1>3 DEF swap_images, TagsT, Tags
  <2> HIDE DEF k, left
  <2>2. /\ job'.step = (IF left = {} THEN "merge" ELSE "swap") /\ job'.todo = (IF left = {} THEN job.changed ELSE left)
        /\ job'.swapped = job.swapped \cup {k}
        /\ job'.old = job.old /\ job'.new = job.new /\ job'.changed = job.changed /\ job'.oldRev = job.oldRev
        /\ job'.built = job.built /\ job'.merged = job.merged
        /\ job'.restored = job.restored /\ job'.dump = job.dump
    BY <1>1, <2>1 DEF JobT, Job
  <2>3. JobT'  BY <1>1, <2>1 DEF JobT, Job, Steps, left
  <2>4. /\ TagsT' /\ tags'[k].latest = ImageOf(k, job.new[k]) /\ tags'[k].prev = ImageOf(k, job.old[k])
        /\ \A j \in Kinds \ {k} : tags'[j] = tags[j]
    BY <1>1, <1>2, <2>1 DEF TagsT, Tags
  <2>5. job'.step \in {"swap", "merge"}  BY <2>2
  <2>6. Typed'  BY <1>1, <2>3, <2>4 DEF IInv, Typed, ServT, CodeT, CountT, FlagT, BaseT
  <2>7. TreeInv' /\ SchedInv' /\ DataInv' /\ TablesInv'
    BY <1>1, <2>2 DEF IInv, TreeInv, SchedInv, DataInv, TablesInv, Untold, AfterDb, AfterCode
  <2>8. RestInv' /\ VerifiedInv'  BY <2>5 DEF RestInv, AtRest, VerifiedInv
  <2>9. RevInv'  BY <1>1, <2>2, <2>5 DEF RevInv, Working, Steps, AfterDb, AfterCode
  <2>10. JobInv'
    BY <1>1, <2>2, <2>4, <2>5 DEF JobInv, Working, Steps, AfterCode
  <2>11. StepInv'
    <3>1. /\ job.todo = job.built \ job.swapped /\ job.changed # {}
          /\ \A j \in job.changed \ job.built : ImageOf(j, job.new[j]) = ImageOf(j, job.old[j])
          /\ \A j \in job.changed : tree[j] = head[j]
          /\ Changed("backend") => job.dump # Null
      BY <1>1 DEF StepInv, JobInv, Working, Steps, Rollback, AfterDb, AfterCode
    <3>2. left = job.built \ (job.swapped \cup {k}) /\ (left = {} => job.swapped \cup {k} = job.built)
      <4>1. job.swapped \subseteq job.built  BY <1>1 DEF JobInv, Working, Steps
      <4> QED  BY <1>1, <3>1, <4>1 DEF left
    <3>3. CASE left = {}
      BY <1>1, <2>2, <3>1, <3>2, <3>3 DEF StepInv, Working, Steps, Rollback, AfterDb, AfterCode, Changed
    <3>4. CASE left # {}
      BY <1>1, <2>2, <3>1, <3>2, <3>4 DEF StepInv, Working, Steps, Rollback, AfterDb, AfterCode, Changed
    <3> QED  BY <3>3, <3>4
  <2>12. RunInv'
    BY <1>1, <2>2, <2>5 DEF RunInv, Working, Steps, Rollback, AfterDb, AfterCode, Changed, Fits, SchedulerFits, FrontendFits
  <2> QED  BY <2>6, <2>7, <2>8, <2>9, <2>10, <2>11, <2>12 DEF IInv
<1>4. CASE ~ok
  <2>1. Go("rollback")  BY <1>4 DEF swap_images, Go
  <2>2. tags' = tags \/ tags' = [tags EXCEPT ![k].prev = tags[k].latest]
    BY <1>1, <1>4 DEF swap_images, TagsT, Tags
  <2> HIDE DEF k, left
  <2>3. /\ TagsT'
        /\ \A j \in Kinds :
             /\ tags'[j].latest = tags[j].latest /\ tags'[j].next = tags[j].next
             /\ j # k => tags'[j].prev = tags[j].prev
    BY <1>1, <1>2, <2>2 DEF TagsT, Tags
  <2>4. /\ ServT' /\ CodeT' /\ TreeInv' /\ SchedInv'
        /\ UNCHANGED <<head, edited, db, import, jobs, ghost>> /\ services' = services
    BY <1>1 DEF IInv, ServT, CodeT, TreeInv, SchedInv
  <2> QED  BY <1>1, <2>1, <2>3, <2>4, ToRollback
<1> QED  BY <1>3, <1>4

\* A commit is merged: its kind's checkout is at the new version, or torn.
LEMMA Merges ==
  ASSUME IInv, NEW ok \in BOOLEAN, merge_ff(ok)
  PROVE  IInv'
<1> USE DEF ghost
<1> DEFINE k == First(job.todo)
           left == job.todo \ {k}
<1>1. /\ JobT /\ TagsT /\ ServT /\ CodeT /\ CountT /\ JobInv /\ StepInv /\ RevInv /\ RunInv /\ TreeInv /\ SchedInv
      /\ job.step = "merge" /\ job.step \in Working
      /\ UNCHANGED <<edited, tags, services, db, import, jobs, ghost>>
  BY DEF IInv, Typed, merge_ff, Working, Steps
<1>2. /\ k \in job.todo /\ k \in Kinds /\ k \in job.changed /\ k \notin job.merged
      /\ job.todo = job.changed \ job.merged /\ job.todo \in SUBSET Kinds /\ job.new[k] \in Versions
      /\ job.merged \subseteq job.changed
  <2>1. job.todo \in SUBSET Kinds /\ job.new \in [Kinds -> Versions] /\ job.todo # {} /\ job.todo = job.changed \ job.merged
        /\ job.merged \subseteq job.changed
    BY <1>1 DEF JobT, Job, StepInv, JobInv
  <2>2. k \in job.todo  BY <2>1, FirstTypes
  <2> QED  BY <2>1, <2>2
<1>3. troubles' \in 0 .. MaxTroubles  BY <1>1, MaybeTypes DEF merge_ff
<1>4. CASE ok
  <2>1. /\ head' = [head EXCEPT ![k] = job.new[k]]
        /\ tree' = [tree EXCEPT ![k] = job.new[k]]
        /\ job' = [job EXCEPT !.merged = @ \cup {k}, !.todo = left,
               !.step = IF left # {} THEN "merge"
                        ELSE IF Changed("backend") THEN "restart" ELSE "frontend"]
    BY <1>4 DEF merge_ff
  <2> HIDE DEF k, left
  <2>2. /\ job'.step = (IF left # {} THEN "merge" ELSE IF Changed("backend") THEN "restart" ELSE "frontend")
        /\ job'.todo = left /\ job'.merged = job.merged \cup {k}
        /\ job'.old = job.old /\ job'.new = job.new /\ job'.changed = job.changed /\ job'.oldRev = job.oldRev
        /\ job'.built = job.built /\ job'.swapped = job.swapped
        /\ job'.restored = job.restored /\ job'.dump = job.dump /\ JobT'
    BY <1>1, <1>2, <2>1 DEF JobT, Job, Steps, left
  <2>3. /\ head' \in [Kinds -> Versions] /\ tree' \in [Kinds -> Trees]
        /\ head'[k] = job.new[k] /\ tree'[k] = job.new[k]
        /\ \A j \in Kinds \ {k} : head'[j] = head[j] /\ tree'[j] = tree[j]
    BY <1>1, <1>2, <2>1 DEF CodeT, Trees
  <2>4. job'.step \in {"merge", "restart", "frontend"}  BY <2>2
  <2>5. Typed'  BY <1>1, <1>3, <2>2, <2>3 DEF IInv, Typed, CodeT, ServT, TagsT, CountT, FlagT, BaseT
  <2>6. TreeInv'  BY <1>1, <2>3 DEF TreeInv
  <2>7. SchedInv'
    <3>1. Changed("backend") => services["scheduler"] = Null  BY <1>1 DEF RunInv
    <3>2. ~Changed("backend") => tree'["backend"] = tree["backend"]  BY <1>2, <2>3 DEF Changed, Kinds
    <3> QED  BY <1>1, <3>1, <3>2 DEF SchedInv
  <2>8. DataInv' /\ TablesInv'
    BY <1>1, <2>2, <2>4 DEF IInv, DataInv, TablesInv, Untold, AfterDb, AfterCode
  <2>9. RestInv'  BY <2>4 DEF RestInv, AtRest
  <2>10. RevInv' /\ VerifiedInv'
    <3>1. db.rev = job.oldRev \/ db.rev = Schema(job.new["backend"])
      BY <1>1 DEF RevInv
    <3>2. "backend" \notin job.merged => db.rev = job.oldRev
      BY <1>1 DEF RevInv
    <3>3. ~Changed("backend") => job.new["backend"] = job.old["backend"] /\ "backend" \notin job'.merged
      BY <1>1, <1>2, <2>2 DEF JobInv, Changed, Kinds
    <3>4. job.oldRev = Schema(job.old["backend"])  BY <1>1 DEF JobInv
    <3>5. "backend" \notin job'.merged => "backend" \notin job.merged  BY <2>2
    <3>6. job'.step \notin AfterDb  BY <2>4 DEF AfterDb, AfterCode
    <3>7. job'.step = "frontend" => ~Changed("backend")  BY <2>2
    <3>8. job'.step # "scheduler"  BY <2>4
    <3> HIDE DEF AfterDb
    <3> QED  BY <1>1, <2>2, <3>1, <3>2, <3>3, <3>4, <3>5, <3>6, <3>7, <3>8 DEF RevInv, VerifiedInv
  <2>11. JobInv'
    <3>1. job'.step \notin AfterCode /\ job.step \notin AfterCode  BY <1>1, <2>4 DEF AfterCode
    <3>2. \A j \in Kinds : head'[j] = IF j \in job'.merged THEN job'.new[j] ELSE job'.old[j]
      BY <1>1, <2>2, <2>3, <3>1 DEF JobInv
    <3> HIDE DEF AfterCode
    <3> QED  BY <1>1, <1>2, <2>2, <3>1, <3>2 DEF JobInv
  <2>12. StepInv'
    <3>1. /\ \A j \in job.changed \ job.built : ImageOf(j, job.new[j]) = ImageOf(j, job.old[j])
          /\ \A j \in job.changed : tree[j] = head[j]
          /\ job.changed \in SUBSET Kinds
          /\ Changed("backend") => job.dump # Null
          /\ job.swapped = job.built
      BY <1>1 DEF StepInv, JobT, Job, Working, Steps, Rollback, AfterDb, AfterCode
    <3>2. left = job.changed \ job'.merged /\ (left = {} => job'.merged = job.changed)
          /\ \A j \in job.changed : tree'[j] = head'[j]
      BY <1>2, <2>2, <2>3, <3>1 DEF left
    <3>3. job'.step = "frontend" => "frontend" \in job.changed
      BY <1>2, <2>2, <3>1 DEF Changed, Kinds
    <3>4. "backend" \in job'.merged => Changed("backend")  BY <1>2, <2>2 DEF Changed
    <3>5. CASE left # {}
      BY <1>1, <2>2, <3>1, <3>2, <3>4, <3>5 DEF StepInv, Working, Steps, Rollback, AfterDb, AfterCode, Changed
    <3>6. CASE left = {}
      BY <1>1, <2>2, <3>1, <3>2, <3>3, <3>4, <3>6 DEF StepInv, Working, Steps, Rollback, AfterDb, AfterCode, Changed
    <3> QED  BY <3>5, <3>6
  <2>13. RunInv'
    <3>1. /\ Changed("backend") => services["scheduler"] = Null
          /\ ~Changed("backend") => SchedulerFits(job.old["backend"])
          /\ "backend" \notin job.merged => Fits("backend", job.old["backend"])
          /\ FrontendFits(job.old["frontend"])
      BY <1>1 DEF RunInv, Rollback, AfterDb, AfterCode
    <3>2. \A v : (Fits("backend", v) => Fits("backend", v)') /\ (FrontendFits(v) => FrontendFits(v)')
                 /\ (SchedulerFits(v) => SchedulerFits(v)')
      BY <1>1 DEF Fits, FrontendFits, SchedulerFits
    <3>3. ~Changed("backend") => "backend" \notin job.merged  BY <1>2 DEF Changed
    <3>4. "backend" \notin job'.merged => "backend" \notin job.merged  BY <2>2
    <3>5. job'.step = "frontend" => ~Changed("backend")  BY <2>2
    <3> QED
      BY <1>1, <2>2, <2>4, <3>1, <3>2, <3>3, <3>4, <3>5 DEF RunInv, Working, Steps, Rollback, AfterDb, AfterCode, Changed
  <2> QED  BY <2>5, <2>6, <2>7, <2>8, <2>9, <2>10, <2>11, <2>12, <2>13 DEF IInv
<1>5. CASE ~ok
  <2>1. Go("rollback") /\ UNCHANGED head /\ tree' \in {tree, [tree EXCEPT ![k] = Torn]}  BY <1>5 DEF merge_ff
  <2> HIDE DEF k
  <2>2. /\ tree' \in [Kinds -> Trees]
        /\ \A j \in Kinds : tree'[j] = tree[j] \/ (j = k /\ tree'[j] = Torn)
    BY <1>1, <1>2, <2>1 DEF CodeT, Trees
  <2>3. TreeInv' /\ CodeT'  BY <1>1, <2>1, <2>2 DEF TreeInv, CodeT
  <2>4. SchedInv'
    <3>1. Changed("backend") => services["scheduler"] = Null  BY <1>1 DEF RunInv
    <3>2. ~Changed("backend") => tree'["backend"] = tree["backend"]  BY <1>2, <2>2 DEF Changed, Kinds
    <3> QED  BY <1>1, <3>1, <3>2 DEF SchedInv
  <2>5. TagsT' /\ ServT'  BY <1>1 DEF TagsT, ServT
  <2> QED  BY <1>1, <1>3, <2>1, <2>3, <2>4, <2>5, ToRollback
<1> QED  BY <1>4, <1>5

\* Once everything is merged the checkouts and the images are those of the new version.
LEMMA Switched ==
  ASSUME IInv, job.step \in {"restart", "verify", "scheduler", "frontend"}
  PROVE  /\ head = job.new
         /\ \A k \in Kinds : tags[k].latest = ImageOf(k, job.new[k])
         /\ \A k \in job.changed : tree[k] = job.new[k]
<1>1. /\ job.step \in Working /\ job.step \notin AfterCode /\ JobInv /\ StepInv
      /\ job.step \in Working \ Rollback /\ job.step \in Working \ ({"build", "undo"} \cup Rollback)
      /\ job.new \in [Kinds -> Versions] /\ head \in [Kinds -> Versions]
  BY DEF IInv, Typed, JobT, Job, CodeT, Working, Steps, Rollback, AfterDb, AfterCode
<1>2. /\ job.merged = job.changed /\ job.swapped = job.built
      /\ \A k \in Kinds : k \notin job.changed => job.new[k] = job.old[k]
  BY <1>1 DEF StepInv, JobInv
<1>3. \A k \in Kinds : head[k] = job.new[k]  BY <1>1, <1>2 DEF JobInv
<1>4. head = job.new  BY <1>1, <1>3
<1>5. ASSUME NEW k \in Kinds PROVE tags[k].latest = ImageOf(k, job.new[k])
  <2>1. CASE k \in job.swapped  BY <1>1, <2>1 DEF JobInv
  <2>2. CASE k \notin job.swapped
    <3>1. tags[k].latest = ImageOf(k, job.old[k])  BY <1>1, <2>2 DEF JobInv
    <3>2. ImageOf(k, job.new[k]) = ImageOf(k, job.old[k])
      BY <1>1, <1>2, <2>2 DEF StepInv
    <3> QED  BY <3>1, <3>2
  <2> QED  BY <2>1, <2>2
<1>6. \A k \in job.changed : tree[k] = head[k]  BY <1>1 DEF StepInv
<1>7. job.changed \in SUBSET Kinds  BY DEF IInv, Typed, JobT, Job
<1> QED  BY <1>3, <1>4, <1>5, <1>6, <1>7

\* The step after the last of the backend's.
LEMMA RestartsIt ==
  ASSUME IInv, NEW ok \in BOOLEAN, restart_backend(ok)
  PROVE  IInv'
<1> USE DEF checkouts
<1>1. /\ JobT /\ TagsT /\ ServT /\ CodeT /\ CountT /\ FlagT /\ JobInv /\ StepInv /\ RevInv /\ RunInv /\ TreeInv /\ SchedInv
      /\ job.step = "restart" /\ job.step \in Working /\ Changed("backend") /\ Typed
      /\ UNCHANGED <<checkouts, tags, jobs, written, told, strayed>>
  BY DEF IInv, Typed, restart_backend, StepInv, Working, Steps
<1>2. troubles' \in 0 .. MaxTroubles  BY <1>1, MaybeTypes DEF restart_backend
<1>3. CASE ok
  <2>1. StartBackend(tags["backend"].latest) /\ Interrupt({"backend"}) /\ Go("verify")
    BY <1>3 DEF restart_backend
  <2>2. tags["backend"].latest \in Versions  BY <1>1, LatestTypes DEF Kinds
  <2>3. /\ head = job.new /\ tree["backend"] = job.new["backend"]
        /\ tags["backend"].latest = ImageOf("backend", job.new["backend"])
    BY <1>1, Switched DEF Changed, Kinds
  <2>15. /\ services'["backend"] =
                 [code |-> tree["backend"], image |-> tags["backend"].latest, up |-> CanUpgrade(tree["backend"])]
         /\ \A s \in Services \ {"backend"} : services'[s] = services[s]
         /\ db'.data = db.data
         /\ db' = db \/ db'.rev = Schema(tree["backend"])
         /\ db.tables = Between(0, db.rev) => db'.tables = Between(0, db'.rev)
    BY <1>1, <2>1, <2>2, Starting
  <2>16. services'["backend"] \in Container
    <3>1. CanUpgrade(tree["backend"]) \in BOOLEAN /\ tree["backend"] \in Trees
      BY <1>1, UpgradedTypes DEF Typed, BaseT, CodeT, Kinds
    <3> QED  BY <2>2, <2>15, <3>1 DEF Container
  <2>4. /\ services'["backend"].code = tree["backend"] /\ services'["backend"].image = tags["backend"].latest
        /\ services'["scheduler"] = services["scheduler"] /\ services'["frontend"] = services["frontend"]
        /\ db'.data = db.data
        /\ db' = db \/ db'.rev = Schema(tree["backend"])
        /\ db.tables = Between(0, db.rev) => db'.tables = Between(0, db'.rev)
    BY <2>15 DEF Services
  <2>5. /\ job'.step = "verify"
        /\ job'.old = job.old /\ job'.new = job.new /\ job'.changed = job.changed /\ job'.oldRev = job.oldRev
        /\ job'.built = job.built /\ job'.swapped = job.swapped /\ job'.merged = job.merged
        /\ job'.restored = job.restored /\ job'.dump = job.dump /\ JobT'
    BY <1>1, <2>1, GoFields, GoTypes DEF Steps
  <2>6. Typed'
    <3>1. ServT' /\ BaseT'  BY <1>1, <2>1, <2>2, StartTypes DEF Typed, BaseT
    <3>2. FlagT'  BY <1>1, <2>1, InterruptTypes DEF FlagT
    <3> QED  BY <1>1, <1>2, <2>5, <3>1, <3>2 DEF Typed, CodeT, TagsT, CountT
  <2>7. services["scheduler"] = Null  BY <1>1 DEF RunInv
  <2>8. TreeInv' /\ SchedInv'  BY <1>1, <2>4, <2>7 DEF TreeInv, SchedInv
  <2>9. DataInv' /\ TablesInv'
    BY <1>1, <2>4, <2>5 DEF IInv, DataInv, TablesInv, Untold, AfterDb, AfterCode
  <2>10. RestInv' /\ VerifiedInv'  BY <2>5 DEF RestInv, AtRest, VerifiedInv
  <2>11. RevInv'  BY <1>1, <2>3, <2>4, <2>5 DEF RevInv, StepInv, Changed, Working, Steps, AfterDb, AfterCode
  <2>12. JobInv'  BY <1>1, <2>5 DEF JobInv, Working, Steps, AfterCode
  <2>13. StepInv'  BY <1>1, <2>5 DEF StepInv, Working, Steps, Rollback, AfterDb, AfterCode, Changed
  <2>14. RunInv'
    <3>1. FrontendFits(job.old["frontend"])'
      BY <1>1, <2>4, <2>5 DEF RunInv, FrontendFits, Rollback, AfterDb, AfterCode
    <3>2. "backend" \in job.merged  BY <1>1 DEF StepInv, Changed
    <3> QED
      BY <1>1, <2>3, <2>4, <2>5, <2>7, <2>16, <3>1, <3>2 DEF RunInv, Working, Steps, Rollback, AfterDb, AfterCode, Changed
  <2> QED  BY <2>6, <2>8, <2>9, <2>10, <2>11, <2>12, <2>13, <2>14 DEF IInv
<1>4. CASE ~ok
  <2>1. Go("rollback") /\ UNCHANGED <<services, db, import, cut>>  BY <1>4 DEF restart_backend
  <2>2. TagsT' /\ ServT' /\ CodeT' /\ TreeInv' /\ SchedInv'
    BY <1>1, <2>1 DEF TagsT, ServT, CodeT, TreeInv, SchedInv
  <2>3. UNCHANGED <<head, edited, db, import, jobs, ghost>>  BY <1>1, <2>1 DEF ghost
  <2> QED  BY <1>1, <1>2, <2>1, <2>2, <2>3, ToRollback
<1> QED  BY <1>3, <1>4

\* The backend answers and its database is where the new version's migrations end.
LEMMA Verifies ==
  ASSUME IInv, NEW ok \in BOOLEAN, verify_backend(ok)
  PROVE  IInv'
<1> USE DEF checkouts, server, ghost
<1>1. /\ JobT /\ TagsT /\ ServT /\ CodeT /\ CountT /\ JobInv /\ StepInv /\ RevInv /\ RunInv /\ TreeInv /\ SchedInv
      /\ job.step = "verify" /\ job.step \in Working /\ Changed("backend")
      /\ UNCHANGED <<server, jobs, ghost>>
  BY DEF IInv, Typed, verify_backend, StepInv, Working, Steps
<1>2. troubles' \in 0 .. MaxTroubles  BY <1>1, MaybeTypes DEF verify_backend
<1>3. CASE Go("scheduler") /\ services["backend"].up /\ db.rev = Schema(job.new["backend"])
  <2>1. /\ job'.step = "scheduler"
        /\ job'.old = job.old /\ job'.new = job.new /\ job'.changed = job.changed /\ job'.oldRev = job.oldRev
        /\ job'.built = job.built /\ job'.swapped = job.swapped /\ job'.merged = job.merged
        /\ job'.restored = job.restored /\ job'.dump = job.dump /\ JobT'
    BY <1>1, <1>3, GoFields, GoTypes DEF Steps
  <2>2. Typed'  BY <1>1, <1>2, <2>1 DEF IInv, Typed, CodeT, TagsT, ServT, CountT, FlagT, BaseT
  <2>3. TreeInv' /\ SchedInv'  BY <1>1 DEF TreeInv, SchedInv
  <2>4. DataInv' /\ TablesInv'
    BY <1>1, <2>1 DEF IInv, DataInv, TablesInv, Untold, AfterDb, AfterCode
  <2>5. RestInv' /\ VerifiedInv'  BY <1>1, <1>3, <2>1 DEF RestInv, AtRest, VerifiedInv
  <2>6. RevInv'  BY <1>1, <2>1 DEF RevInv, StepInv, Changed, Working, Steps, AfterDb, AfterCode
  <2>7. JobInv'  BY <1>1, <2>1 DEF JobInv, Working, Steps, AfterCode
  <2>8. StepInv'  BY <1>1, <2>1 DEF StepInv, Working, Steps, Rollback, AfterDb, AfterCode, Changed
  <2>9. RunInv'
    <3>1. FrontendFits(job.old["frontend"])'
      BY <1>1, <2>1 DEF RunInv, FrontendFits, Rollback, AfterDb, AfterCode
    <3>2. "backend" \in job.merged  BY <1>1 DEF StepInv, Changed
    <3>3. services["scheduler"] = Null  BY <1>1 DEF RunInv
    <3>4. services["backend"].code = job.new["backend"] /\ services["backend"].image = ImageOf("backend", job.new["backend"])
      BY <1>1 DEF RunInv
    <3>5. services["backend"] \in Container
      BY <1>1 DEF RunInv
    <3>6. Fits("backend", job.new["backend"])'
      BY <1>1, <1>3, <2>1, <3>4, <3>5 DEF Fits
    <3> QED
      BY <1>1, <2>1, <3>1, <3>2, <3>3, <3>6 DEF RunInv, Working, Steps, Rollback, AfterDb, AfterCode, Changed
  <2> QED  BY <2>2, <2>3, <2>4, <2>5, <2>6, <2>7, <2>8, <2>9 DEF IInv
<1>4. CASE Go("rollback")
  <2>1. TagsT' /\ ServT' /\ CodeT' /\ TreeInv' /\ SchedInv'
    BY <1>1 DEF TagsT, ServT, CodeT, TreeInv, SchedInv
  <2> QED  BY <1>1, <1>2, <1>4, <2>1, ToRollback
<1> QED  BY <1>3, <1>4 DEF verify_backend

\* Where all is switched and the database verified.
LEMMA Verified ==
  ASSUME IInv, job.step \in {"scheduler", "frontend"}
  PROVE  /\ head = job.new /\ \A k \in Kinds : tags[k].latest = ImageOf(k, head[k])
         /\ db.rev = Schema(head["backend"])
         /\ Fits("backend", head["backend"])
         /\ ~Changed("frontend") => FrontendFits(head["frontend"])
         /\ job.step = "frontend" => SchedulerFits(head["backend"])
         /\ Changed("backend") => tree["backend"] = head["backend"]
<1>1. /\ job.step \in Working /\ job.step \notin Rollback /\ JobInv /\ RunInv /\ VerifiedInv
      /\ job.changed \in SUBSET Kinds
  BY DEF IInv, Typed, JobT, Job, Working, Steps, Rollback, AfterDb, AfterCode
<1>2. \A k \in Kinds : k \notin job.changed => job.new[k] = job.old[k]  BY <1>1 DEF JobInv
<1>3. head = job.new /\ \A k \in Kinds : tags[k].latest = ImageOf(k, head[k])  BY Switched
<1>4. Changed("backend") => tree["backend"] = head["backend"]  BY <1>3, Switched DEF Changed
<1>5. db.rev = Schema(head["backend"])  BY <1>1, <1>3 DEF VerifiedInv
<1>6. "backend" \in Kinds /\ "frontend" \in Kinds  BY DEF Kinds
<1>7. CASE Changed("backend")
  BY <1>1, <1>2, <1>3, <1>4, <1>5, <1>6, <1>7 DEF RunInv, Changed
<1>8. CASE ~Changed("backend")
  BY <1>1, <1>2, <1>3, <1>5, <1>6, <1>8 DEF RunInv, Changed
<1> QED  BY <1>7, <1>8

\* What a recreated container is where the images are those of the commits.
LEMMA RecreatedIs ==
  ASSUME Typed, TreeInv, NEW k \in Kinds, tags[k].latest = ImageOf(k, head[k])
  PROVE  /\ k = "frontend" =>
              Recreated("frontend") = [code |-> head["frontend"], image |-> head["frontend"], up |-> TRUE]
         /\ k = "backend" =>
              /\ Recreated("scheduler") \in Container /\ Recreated("scheduler").code = tree["backend"]
              /\ Recreated("scheduler").image = ImageOf("backend", head["backend"]) /\ Recreated("scheduler").up
              /\ tree["backend"] \in {head["backend"], Torn}
<1>1. head[k] \in Versions /\ "scheduler" \in Services  BY DEF Typed, CodeT, Services
<1>2. TagsT /\ CodeT  BY DEF Typed
<1>3. CASE k = "frontend"  BY <1>1, <1>3, ImageIs DEF Recreated
<1>4. CASE k = "backend"  BY <1>1, <1>2, <1>4, RecreatedTypes DEF Recreated, TreeInv
<1> QED  BY <1>3, <1>4 DEF Kinds

\* A job that ends as updated or rolled back leaves the server at rest at its versions.
LEMMA Finishes ==
  ASSUME IInv, NEW r \in {"updated", "rolled_back"}, finish(r),
         IF r = "updated" THEN job.step \in {"scheduler", "frontend"} /\ head = job.new
                          ELSE job.step \in AfterDb /\ head = job.old,
         troubles' \in 0 .. MaxTroubles, ServT', SchedInv',
         UNCHANGED <<checkouts, tags, db, import, jobs, written, strayed, cut>>,
         \A k \in Kinds : tags[k].latest = ImageOf(k, head[k]),
         db.rev = Schema(head["backend"]),
         Fits("backend", head["backend"])', SchedulerFits(head["backend"])', FrontendFits(head["frontend"])'
  PROVE  IInv'
<1> USE DEF checkouts
<1>1. JobT /\ FlagT /\ r \in Results  BY DEF IInv, Typed, Results
<1>2. /\ job'.step = "none" /\ job'.result = r /\ job'.restored = job.restored /\ job'.dump = job.dump
      /\ job'.old = job.old /\ job'.new = job.new
  BY <1>1, FinishFields
<1>3. told' <=> told \/ (r = "rolled_back" /\ job.restored)  BY DEF finish
<1>4. Typed'
  BY <1>1, FinishTypes DEF IInv, Typed, TagsT, CodeT, CountT, FlagT, BaseT
<1>5. TreeInv'  BY DEF IInv, TreeInv
<1>6. told \/ Untold => told'
  BY <1>3 DEF Untold, AfterDb, AfterCode
<1>7. DataInv' /\ TablesInv'
  BY <1>2, <1>6 DEF IInv, DataInv, TablesInv
<1>8. RestInv'  BY <1>2 DEF RestInv, AtRest
<1>9. JobInv' /\ StepInv' /\ RevInv' /\ VerifiedInv' /\ RunInv'
  BY <1>2 DEF JobInv, StepInv, RevInv, VerifiedInv, RunInv, Working, Rollback, AfterDb, AfterCode
<1> QED  BY <1>4, <1>5, <1>7, <1>8, <1>9 DEF IInv

\* The scheduler is recreated, on the new schema, and the job goes on to the frontend or ends.
LEMMA VerifiesScheduler ==
  ASSUME IInv, NEW ok \in BOOLEAN, verify_scheduler(ok)
  PROVE  IInv'
<1> USE DEF checkouts
<1>1. /\ JobT /\ TagsT /\ ServT /\ CodeT /\ CountT /\ FlagT /\ BaseT /\ JobInv /\ StepInv /\ RevInv /\ RunInv
      /\ VerifiedInv /\ TreeInv /\ SchedInv /\ Typed
      /\ job.step = "scheduler" /\ job.step \in Working /\ Changed("backend")
      /\ UNCHANGED <<checkouts, tags, db, import, jobs, ghost>>
  BY DEF IInv, Typed, verify_scheduler, StepInv, Working, Steps
<1>2. troubles' \in 0 .. MaxTroubles  BY <1>1, MaybeTypes DEF verify_scheduler
<1>3. /\ head = job.new /\ \A k \in Kinds : tags[k].latest = ImageOf(k, head[k])
      /\ db.rev = Schema(head["backend"]) /\ tree["backend"] = head["backend"]
      /\ Fits("backend", head["backend"]) /\ (~Changed("frontend") => FrontendFits(head["frontend"]))
  BY <1>1, Verified
<1>4. /\ Recreated("scheduler") \in Container /\ Recreated("scheduler").code = tree["backend"]
      /\ Recreated("scheduler").image = ImageOf("backend", head["backend"]) /\ Recreated("scheduler").up
  <2>1. "backend" \in Kinds  BY DEF Kinds
  <2> QED  BY <1>1, <1>3, <2>1, RecreatedIs
<1>5. /\ \A s \in Services \ {"scheduler"} : services'[s] = services[s]
      /\ services'["scheduler"] \in {Recreated("scheduler"), services["scheduler"]}
      /\ ok => services'["scheduler"] = Recreated("scheduler")
      /\ ServT'
  BY <1>1, <1>4 DEF verify_scheduler, ServT, Services
<1>6. services'["backend"] = services["backend"] /\ services'["frontend"] = services["frontend"]
  BY <1>5 DEF Services
<1>7. SchedInv'  BY <1>1, <1>3, <1>4, <1>5 DEF SchedInv
<1>8. CASE ~ok
  <2>1. Go("rollback")  BY <1>8 DEF verify_scheduler, Go
  <2>2. TagsT' /\ CodeT' /\ TreeInv'  BY <1>1 DEF TagsT, CodeT, TreeInv
  <2> QED  BY <1>1, <1>2, <1>5, <1>6, <1>7, <2>1, <2>2, ToRollback
<1>9. ASSUME ok PROVE SchedulerFits(head["backend"])' /\ Fits("backend", head["backend"])'
  BY <1>1, <1>3, <1>4, <1>5, <1>6, <1>9 DEF SchedulerFits, Fits
<1>10. CASE ok /\ ~Changed("frontend")
  <2>1. finish("updated")
    <3>1. job' = [job EXCEPT !.step = "none", !.result = "updated"]
      BY <1>10 DEF verify_scheduler, AfterScheduler
    <3>2. told' = (told \/ ("updated" = "rolled_back" /\ job.restored))
      BY <1>1 DEF ghost, FlagT
    <3> QED  BY <3>1, <3>2 DEF finish
  <2>2. FrontendFits(head["frontend"])'  BY <1>1, <1>3, <1>6, <1>10 DEF FrontendFits
  <2>3. UNCHANGED <<checkouts, tags, db, import, jobs, written, strayed, cut>>  BY <1>1 DEF ghost
  <2> QED  BY <1>1, <1>2, <1>3, <1>5, <1>7, <1>9, <1>10, <2>1, <2>2, <2>3, Finishes
<1>11. CASE ok /\ Changed("frontend")
  <2> USE DEF ghost
  <2>1. job' = [job EXCEPT !.step = "frontend", !.result = Null]
    BY <1>11 DEF verify_scheduler, AfterScheduler
  <2>2. /\ job'.step = "frontend"
        /\ job'.old = job.old /\ job'.new = job.new /\ job'.changed = job.changed /\ job'.oldRev = job.oldRev
        /\ job'.built = job.built /\ job'.swapped = job.swapped /\ job'.merged = job.merged
        /\ job'.restored = job.restored /\ job'.dump = job.dump /\ JobT'
    BY <1>1, <2>1 DEF JobT, Job, Steps, Results
  <2>3. Typed'  BY <1>1, <1>2, <1>5, <2>2 DEF Typed, CodeT, TagsT, CountT, FlagT, BaseT
  <2>4. TreeInv'  BY <1>1 DEF TreeInv
  <2>5. DataInv' /\ TablesInv'
    BY <1>1, <2>2 DEF IInv, DataInv, TablesInv, Untold, AfterDb, AfterCode
  <2>6. RestInv' /\ VerifiedInv'  BY <1>1, <2>2 DEF RestInv, AtRest, VerifiedInv
  <2>7. RevInv'  BY <1>1, <2>2 DEF RevInv, StepInv, Changed, Working, Steps, AfterDb, AfterCode
  <2>8. JobInv'  BY <1>1, <2>2 DEF JobInv, Working, Steps, AfterCode
  <2>9. StepInv'
    BY <1>1, <1>11, <2>2 DEF StepInv, Working, Steps, Rollback, AfterDb, AfterCode, Changed
  <2>10. RunInv'
    <3>1. FrontendFits(job.old["frontend"])'
      BY <1>1, <1>6, <2>2 DEF RunInv, FrontendFits, Rollback, AfterDb, AfterCode
    <3>2. "backend" \in job.merged  BY <1>1 DEF StepInv, Changed
    <3>3. SchedulerFits(job.new["backend"])' /\ Fits("backend", job.new["backend"])'
      BY <1>1, <1>3, <1>9, <1>11, <2>2
    <3> QED
      BY <1>1, <2>2, <3>1, <3>2, <3>3 DEF RunInv, Working, Steps, Rollback, AfterDb, AfterCode, Changed
  <2> QED  BY <1>7, <2>3, <2>4, <2>5, <2>6, <2>7, <2>8, <2>9, <2>10 DEF IInv
<1> QED  BY <1>8, <1>10, <1>11

LEMMA VerifiesFrontend ==
  ASSUME IInv, NEW ok \in BOOLEAN, verify_frontend(ok)
  PROVE  IInv'
<1> USE DEF checkouts
<1>1. /\ TagsT /\ ServT /\ CodeT /\ CountT /\ JobT /\ StepInv /\ TreeInv /\ SchedInv /\ Typed
      /\ job.step = "frontend" /\ Changed("frontend") /\ "frontend" \in Kinds
      /\ UNCHANGED <<checkouts, tags, db, import, jobs, written, strayed, cut>>
  BY DEF IInv, Typed, verify_frontend, StepInv, Kinds
<1>2. troubles' \in 0 .. MaxTroubles  BY <1>1, MaybeTypes DEF verify_frontend
<1>3. /\ head = job.new /\ \A k \in Kinds : tags[k].latest = ImageOf(k, head[k])
      /\ db.rev = Schema(head["backend"])
      /\ Fits("backend", head["backend"]) /\ SchedulerFits(head["backend"])
  BY <1>1, Verified
<1>4. Recreated("frontend") = [code |-> head["frontend"], image |-> head["frontend"], up |-> TRUE]
  BY <1>1, <1>3, RecreatedIs
<1>5. Recreated("frontend") \in Container  BY <1>1, RecreatedTypes DEF Services
<1>6. /\ \A s \in Services \ {"frontend"} : services'[s] = services[s]
      /\ ok => services'["frontend"] = Recreated("frontend")
      /\ ServT'
  BY <1>1, <1>5 DEF verify_frontend, ServT, Services
<1>7. services'["backend"] = services["backend"] /\ services'["scheduler"] = services["scheduler"]
  BY <1>6 DEF Services
<1>8. SchedInv'  BY <1>1, <1>7 DEF SchedInv
<1>9. CASE ~ok
  <2>1. Go("rollback") /\ UNCHANGED told  BY <1>9 DEF verify_frontend
  <2>2. TagsT' /\ CodeT' /\ TreeInv'  BY <1>1 DEF TagsT, CodeT, TreeInv
  <2>3. UNCHANGED <<head, edited, db, import, jobs, ghost>>  BY <1>1, <2>1 DEF ghost
  <2>4. services'["scheduler"] = services["scheduler"] /\ services'["backend"] = services["backend"]
    BY <1>7
  <2> QED  BY <1>1, <1>2, <1>6, <1>8, <2>1, <2>2, <2>3, <2>4, ToRollback
<1>10. CASE ok
  <2>1. finish("updated")  BY <1>10 DEF verify_frontend
  <2>2. FrontendFits(head["frontend"])'  BY <1>1, <1>4, <1>6, <1>10 DEF FrontendFits
  <2>3. SchedulerFits(head["backend"])' /\ Fits("backend", head["backend"])'
    BY <1>1, <1>3, <1>7 DEF SchedulerFits, Fits
  <2> QED  BY <1>1, <1>2, <1>3, <1>6, <1>8, <2>1, <2>2, <2>3, Finishes
<1> QED  BY <1>9, <1>10

(* ---- The rollback ---- *)

LEMMA GivesUp ==
  ASSUME IInv, GiveUp, UNCHANGED <<server, jobs, written, strayed, cut>>
  PROVE  IInv'
<1>1. CountT  BY DEF IInv, Typed
<1>2. troubles' \in 0 .. MaxTroubles /\ finish("failed")  BY <1>1, TroubleTypes DEF GiveUp
<1> QED  BY <1>2, Fails

LEMMA Stops ==
  ASSUME IInv, rollback_stop
  PROVE  IInv'
<1> USE DEF checkouts
<1>1. /\ JobT /\ ServT /\ FlagT /\ CountT /\ JobInv /\ StepInv /\ RevInv /\ RunInv /\ TreeInv /\ SchedInv
      /\ job.step = "rollback" /\ job.step \in Working
      /\ UNCHANGED <<checkouts, tags, db, jobs, written, strayed>>
  BY DEF IInv, Typed, rollback_stop, Working, Steps
<1>2. CASE Go(IF "backend" \in job.merged THEN "rollback_db" ELSE "rollback_code")
  <2> DEFINE next == IF "backend" \in job.merged THEN "rollback_db" ELSE "rollback_code"
  <2>1. next \in Steps /\ next \in {"rollback_db", "rollback_code"} /\ Go(next)  BY <1>2 DEF Steps
  <2>2. /\ IF Changed("backend")
           THEN /\ services' = [services EXCEPT !["backend"] = Null, !["scheduler"] = Null]
                /\ Interrupt({"backend", "scheduler"})
           ELSE UNCHANGED <<services, import, cut>>
        /\ UNCHANGED <<told, troubles>>
    <3>1. ~finish("failed")
      BY <1>1, <2>1 DEF finish, Go, JobT, Job
    <3> QED  BY <3>1 DEF rollback_stop, GiveUp
  <2>3. /\ job'.step = next
        /\ job'.old = job.old /\ job'.new = job.new /\ job'.changed = job.changed /\ job'.oldRev = job.oldRev
        /\ job'.built = job.built /\ job'.swapped = job.swapped /\ job'.merged = job.merged
        /\ job'.restored = job.restored /\ job'.dump = job.dump /\ JobT'
    <3> HIDE DEF next
    <3> QED  BY <1>1, <2>1, GoFields, GoTypes
  <2>4. next = "rollback_db" <=> "backend" \in job.merged  OBVIOUS
  <2> HIDE DEF next
  <2>5. /\ ServT'
        /\ Changed("backend") => services'["backend"] = Null /\ services'["scheduler"] = Null
        /\ ~Changed("backend") => services'["backend"] = services["backend"] /\ services'["scheduler"] = services["scheduler"]
        /\ services'["frontend"] = services["frontend"]
    BY <1>1, <2>2 DEF ServT, Services
  <2>6. FlagT'
    <3>1. CASE Changed("backend")
      <4>1. Interrupt({"backend", "scheduler"})  BY <2>2, <3>1
      <4> QED  BY <1>1, <2>2, <4>1, InterruptTypes DEF FlagT
    <3>2. CASE ~Changed("backend")
      BY <1>1, <2>2, <3>2 DEF FlagT
    <3> QED  BY <3>1, <3>2
  <2>7. Typed'  BY <1>1, <2>2, <2>3, <2>5, <2>6 DEF IInv, Typed, CodeT, TagsT, CountT, BaseT
  <2>8. TreeInv' /\ SchedInv'  BY <1>1, <2>5 DEF TreeInv, SchedInv
  <2>9. DataInv' /\ TablesInv'
    BY <1>1, <2>2, <2>3 DEF IInv, DataInv, TablesInv, Untold, AfterDb, AfterCode
  <2>10. RestInv' /\ VerifiedInv'  BY <2>1, <2>3 DEF RestInv, AtRest, VerifiedInv
  <2>11. RevInv'  BY <1>1, <2>1, <2>3, <2>4 DEF RevInv, AfterDb, AfterCode
  <2>12. JobInv'
    <3>1. /\ job.step \notin AfterCode /\ job'.step \notin AfterCode
      BY <1>1, <2>1, <2>3 DEF AfterCode
    <3> QED  BY <1>1, <2>3, <3>1 DEF JobInv
  <2>13. StepInv'
    <3>1. /\ "backend" \in job.merged => Changed("backend") /\ job.dump # Null
      BY <1>1 DEF JobInv, StepInv, Changed
    <3> QED  BY <1>1, <2>1, <2>3, <2>4, <3>1 DEF StepInv, Working, Steps, Rollback, AfterDb, AfterCode, Changed
  <2>14. RunInv'
    <3>1. ~Changed("backend") => SchedulerFits(job.old["backend"])' /\ Fits("backend", job.old["backend"])'
      BY <1>1, <2>3, <2>5 DEF RunInv, SchedulerFits, Fits
    <3>2. ~Changed("frontend") => FrontendFits(job.old["frontend"])'
      BY <1>1, <2>3, <2>5 DEF RunInv, FrontendFits
    <3> QED  BY <2>1, <2>3, <2>5, <3>1, <3>2 DEF RunInv, Changed, Rollback, AfterDb, AfterCode
  <2> QED  BY <2>7, <2>8, <2>9, <2>10, <2>11, <2>12, <2>13, <2>14 DEF IInv
<1>3. CASE ~Go(IF "backend" \in job.merged THEN "rollback_db" ELSE "rollback_code")
  <2>1. GiveUp /\ UNCHANGED <<server, jobs, written, strayed, cut>>
    BY <1>1, <1>3 DEF rollback_stop, server
  <2> QED  BY <2>1, GivesUp
<1> QED  BY <1>2, <1>3

\* The database is back at the revision it had: down by the migrations, or from its copy.
LEMMA RollsDatabaseBack ==
  ASSUME IInv, rollback_database
  PROVE  IInv'
<1> USE DEF checkouts
<1>1. /\ JobT /\ ServT /\ FlagT /\ CountT /\ BaseT /\ JobInv /\ StepInv /\ RevInv /\ RunInv /\ TreeInv /\ DataInv /\ TablesInv
      /\ job.step = "rollback_db" /\ job.step \in Working /\ Changed("backend") /\ "backend" \in job.merged
      /\ UNCHANGED <<checkouts, tags, services, import, jobs, written, strayed, cut>>
  BY DEF IInv, Typed, rollback_database, StepInv, Working, Steps
<1>2. CASE GiveUp /\ UNCHANGED db
  <2>1. UNCHANGED <<server, jobs, written, strayed, cut>>  BY <1>1, <1>2 DEF server
  <2> QED  BY <1>2, <2>1, GivesUp
<1>3. CASE ~(GiveUp /\ UNCHANGED db)
  <2>1. /\ db \in Database /\ db.rev \in {job.oldRev, Schema(job.new["backend"])}
        /\ job.oldRev = Schema(job.old["backend"]) /\ job.old["backend"] <= job.new["backend"]
        /\ job.old["backend"] \in Versions /\ job.new["backend"] \in Versions /\ job.oldRev \in Versions
        /\ job.dump \in Database /\ job.dump.rev = job.oldRev /\ job.dump.data <= written
        /\ services["scheduler"] = Null
    BY <1>1 DEF BaseT, RevInv, JobInv, StepInv, DataInv, RunInv, JobT, Job, Kinds, AfterDb, AfterCode
  <2>2. job.oldRev <= db.rev /\ db.rev \in Versions
    <3>1. Schema(job.old["backend"]) <= Schema(job.new["backend"])  BY <2>1, SchemaGrows
    <3>2. job.oldRev \in Nat  BY <2>1, VersionsAre
    <3>3. job.oldRev <= job.oldRev  BY <3>2
    <3> QED  BY <2>1, <3>1, <3>3 DEF Database
  <2>3. /\ job'.step = "rollback_code"
        /\ job'.old = job.old /\ job'.new = job.new /\ job'.changed = job.changed /\ job'.oldRev = job.oldRev
        /\ job'.built = job.built /\ job'.swapped = job.swapped /\ job'.merged = job.merged
        /\ job'.dump = job.dump /\ JobT'
        /\ (UNCHANGED troubles \/ Trouble) /\ UNCHANGED told
        /\ (job.restored => job'.restored)
    <3>1. /\ \/ job' = [job EXCEPT !.step = "rollback_code"]
             \/ job' = [job EXCEPT !.step = "rollback_code", !.restored = TRUE]
          /\ (UNCHANGED troubles \/ Trouble) /\ UNCHANGED told
      BY <1>1, <1>3 DEF rollback_database, Go
    <3>2. "rollback_code" \in Steps /\ job \in Job  BY <1>1 DEF JobT, Steps
    <3>3. CASE job' = [job EXCEPT !.step = "rollback_code"]
      BY <3>1, <3>2, <3>3 DEF JobT, Job
    <3>4. CASE job' = [job EXCEPT !.step = "rollback_code", !.restored = TRUE]
      BY <3>1, <3>2, <3>4 DEF JobT, Job
    <3> QED  BY <3>1, <3>3, <3>4
  <2>4. \/ db' = db
        \/ db' = Downgraded(job.oldRev)
        \/ db' = Restored(job.dump) /\ job'.restored
    BY <1>1, <1>3 DEF rollback_database, JobT, Job
  <2>5. /\ db' \in Database
        /\ db'.rev = job.oldRev /\ db'.data <= written
        /\ job'.restored \/ (db'.data = db.data /\ (db.tables = Between(0, db.rev) => db'.tables = Between(0, db'.rev)))
    <3>1. CASE db' = db
      <4>1. db.rev = job.oldRev
        <5>1. CASE db.rev = job.oldRev  BY <5>1
        <5>2. CASE db.rev # job.oldRev
          <6>1. Downgraded(job.oldRev).rev = job.oldRev /\ Restored(job.dump).rev = job.oldRev
            BY <2>1 DEF Downgraded, Restored, Database
          <6>2. db' = Downgraded(job.oldRev) \/ db' = Restored(job.dump)
            BY <1>1, <1>3, <5>2 DEF rollback_database
          <6> QED  BY <3>1, <6>1, <6>2
        <5> QED  BY <5>1, <5>2
      <4> QED  BY <1>1, <2>1, <3>1, <4>1 DEF DataInv
    <3>2. CASE db' = Downgraded(job.oldRev)
      <4>1. /\ Downgraded(job.oldRev).rev = job.oldRev /\ Downgraded(job.oldRev).data = db.data
            /\ Downgraded(job.oldRev).tables = db.tables \ Between(job.oldRev, db.rev)
            /\ Downgraded(job.oldRev) \in Database
        BY <2>1, DowngradedTypes DEF Downgraded, Database
      <4>2. Between(0, db.rev) \ Between(job.oldRev, db.rev) = Between(0, job.oldRev)
        BY <2>1, <2>2, TablesDown
      <4> QED  BY <1>1, <3>2, <4>1, <4>2 DEF DataInv
    <3>3. CASE db' = Restored(job.dump) /\ job'.restored
      <4>1. /\ Restored(job.dump).rev = job.oldRev /\ Restored(job.dump).data = job.dump.data
            /\ Restored(job.dump) \in Database
        BY <2>1, RestoredTypes DEF Restored, Database
      <4> QED  BY <2>1, <3>3, <4>1
    <3> QED  BY <2>4, <3>1, <3>2, <3>3
  <2>6. Typed'
    BY <1>1, <2>3, <2>5, TroubleTypes DEF IInv, Typed, CodeT, TagsT, ServT, FlagT, CountT, BaseT
  <2>7. TreeInv' /\ SchedInv'  BY <1>1, <2>1 DEF TreeInv, SchedInv
  <2>8. DataInv' /\ TablesInv'
    <3>1. "rollback_code" \in AfterDb /\ (Untold => job.restored)  BY DEF AfterDb, Untold
    <3>2. job'.restored => Untold'  BY <2>3, <3>1 DEF Untold
    <3>3. DataInv'
      BY <1>1, <2>1, <2>3, <2>5, <3>1, <3>2 DEF DataInv
    <3>4. TablesInv'
      BY <1>1, <2>1, <2>3, <2>5, <3>1, <3>2 DEF TablesInv
    <3> QED  BY <3>3, <3>4
  <2>9. RestInv' /\ VerifiedInv'  BY <2>3 DEF RestInv, AtRest, VerifiedInv
  <2>10. RevInv'  BY <2>3, <2>5 DEF RevInv, AfterDb
  <2>11. JobInv'
    <3>1. /\ job.step \notin AfterCode /\ job'.step \notin AfterCode
      BY <1>1, <2>3 DEF AfterCode
    <3> QED  BY <1>1, <2>3, <3>1 DEF JobInv
  <2>12. StepInv'  BY <1>1, <2>1, <2>3 DEF StepInv, Working, Steps, Rollback, AfterDb, AfterCode, Changed
  <2>13. RunInv'
    BY <1>1, <2>1, <2>3 DEF RunInv, Changed, Rollback, AfterDb, AfterCode, FrontendFits, SchedulerFits, Fits
  <2> QED  BY <2>6, <2>7, <2>8, <2>9, <2>10, <2>11, <2>12, <2>13 DEF IInv
<1> QED  BY <1>2, <1>3

\* The commits and the images are back at the old version.
LEMMA RollsCodeBack ==
  ASSUME IInv, rollback_code
  PROVE  IInv'
<1> USE DEF checkouts
<1>1. /\ JobT /\ ServT /\ FlagT /\ CountT /\ BaseT /\ CodeT /\ TagsT
      /\ JobInv /\ StepInv /\ RevInv /\ RunInv /\ TreeInv /\ SchedInv
      /\ job.step = "rollback_code" /\ job.step \in Working
      /\ UNCHANGED <<edited, services, db, import, jobs, written, strayed, cut>>
  BY DEF IInv, Typed, rollback_code, Working, Steps
<1>2. CASE GiveUp /\ UNCHANGED <<head, tree, tags>>
  <2>1. UNCHANGED <<server, jobs, written, strayed, cut>>  BY <1>1, <1>2 DEF server
  <2> QED  BY <1>2, <2>1, GivesUp
<1>3. CASE ~(GiveUp /\ UNCHANGED <<head, tree, tags>>)
  <2> DEFINE next == IF Changed("backend") THEN "rollback_start" ELSE "rollback_frontend"
  <2>1. /\ head' = [k \in Kinds |-> IF k \in job.merged THEN job.old[k] ELSE head[k]]
        /\ tree' = [k \in Kinds |-> IF k \in job.merged THEN job.old[k] ELSE tree[k]]
        /\ tags' = [k \in Kinds |-> IF k \in job.swapped
                      THEN [tags[k] EXCEPT !.latest = tags[k].prev] ELSE tags[k]]
        /\ Go(next) /\ UNCHANGED <<told, troubles>>
    BY <1>3 DEF rollback_code
  <2>2. next \in Steps /\ next \in {"rollback_start", "rollback_frontend"} /\ (next = "rollback_start" <=> Changed("backend"))
    BY DEF Steps
  <2> HIDE DEF next
  <2>3. /\ job'.step = next
        /\ job'.old = job.old /\ job'.new = job.new /\ job'.changed = job.changed /\ job'.oldRev = job.oldRev
        /\ job'.built = job.built /\ job'.swapped = job.swapped /\ job'.merged = job.merged
        /\ job'.restored = job.restored /\ job'.dump = job.dump /\ JobT'
    BY <1>1, <2>1, <2>2, GoFields, GoTypes
  <2>4. /\ job.old \in [Kinds -> Versions] /\ job.step \notin AfterCode /\ next \in AfterCode /\ next \in AfterDb
        /\ job.merged \subseteq job.changed
    BY <1>1, <2>2 DEF JobT, Job, JobInv, AfterCode, AfterDb
  <2>5. \A k \in Kinds : head'[k] = job.old[k]
    BY <1>1, <2>1, <2>4 DEF JobInv
  <2>6. \A k \in Kinds : tree'[k] = IF k \in job.merged THEN job.old[k] ELSE tree[k]
    BY <2>1
  <2>7. CodeT'  BY <1>1, <2>1, <2>4 DEF CodeT, Trees
  <2>8. ASSUME NEW k \in Kinds
        PROVE  /\ tags'[k] \in Tags /\ tags'[k].latest = ImageOf(k, job.old[k])
               /\ tags'[k].prev = tags[k].prev /\ tags'[k].next = tags[k].next
    <3>1. job.old[k] \in Versions /\ ImageOf(k, job.old[k]) \in Versions /\ tags[k] \in Tags
      BY <1>1, <2>4, ImageIs DEF TagsT
    <3>2. /\ k \in job.swapped => tags[k].prev = ImageOf(k, job.old[k])
          /\ k \notin job.swapped => tags[k].latest = ImageOf(k, job.old[k])
      BY <1>1, <2>4 DEF JobInv
    <3> QED  BY <2>1, <3>1, <3>2 DEF Tags
  <2>9. TagsT'  BY <2>1, <2>8 DEF TagsT
  <2>10. Typed'  BY <1>1, <2>1, <2>3, <2>7, <2>9 DEF Typed, ServT, FlagT, CountT, BaseT
  <2>11. TreeInv'
    <3>1. \A k \in Kinds : k \notin job.merged => head[k] = job.old[k]  BY <1>1 DEF JobInv
    <3> QED  BY <1>1, <2>5, <2>6, <3>1 DEF TreeInv
  <2>12. SchedInv'
    <3>1. Changed("backend") => services["scheduler"] = Null  BY <1>1 DEF RunInv
    <3>2. ~Changed("backend") => tree'["backend"] = tree["backend"]  BY <2>4, <2>6 DEF Changed, Kinds
    <3> QED  BY <1>1, <3>1, <3>2 DEF SchedInv
  <2>13. DataInv' /\ TablesInv'
    <3>1. Untold => Untold'  BY <1>1, <2>3, <2>4 DEF Untold
    <3>2. UNCHANGED <<db, told, written>> /\ job'.dump = job.dump  BY <1>1, <2>1, <2>3
    <3> QED  BY <3>1, <3>2 DEF IInv, DataInv, TablesInv
  <2>14. RestInv' /\ VerifiedInv'  BY <2>2, <2>3 DEF RestInv, AtRest, VerifiedInv
  <2>15. RevInv'
    <3>1. db.rev = job.oldRev  BY <1>1 DEF RevInv, AfterDb
    <3> QED  BY <1>1, <2>3, <2>4, <3>1 DEF RevInv
  <2>16. JobInv'
    BY <1>1, <2>3, <2>4, <2>5, <2>8 DEF JobInv
  <2>17. StepInv'
    <3>1. ~Changed("backend") => Changed("frontend")
      BY <1>1 DEF JobInv, Changed, Kinds
    <3>2. "backend" \in job.merged => job.dump # Null  BY <1>1 DEF StepInv
    <3> QED  BY <2>2, <2>3, <3>1, <3>2 DEF StepInv, Working, Steps, Rollback, AfterDb, AfterCode, Changed
  <2>18. RunInv'
    <3>1. /\ ~Changed("backend") => SchedulerFits(job.old["backend"])' /\ Fits("backend", job.old["backend"])'
          /\ ~Changed("frontend") => FrontendFits(job.old["frontend"])'
      BY <1>1, <2>3 DEF RunInv, SchedulerFits, Fits, FrontendFits
    <3>2. Changed("backend") => services["scheduler"] = Null /\ services["backend"] = Null
      BY <1>1 DEF RunInv
    <3> QED  BY <1>1, <2>2, <2>3, <3>1, <3>2 DEF RunInv, Changed, Rollback, AfterDb, AfterCode
  <2> QED  BY <2>10, <2>11, <2>12, <2>13, <2>14, <2>15, <2>16, <2>17, <2>18 DEF IInv
<1> QED  BY <1>2, <1>3

\* Once the code is back, the server's versions, images and schema are the old ones.
LEMMA Back ==
  ASSUME IInv, job.step \in AfterCode
  PROVE  /\ head = job.old /\ \A k \in Kinds : tags[k].latest = ImageOf(k, head[k])
         /\ db.rev = Schema(head["backend"]) /\ db.rev = job.oldRev
         /\ tree["backend"] \in {head["backend"], Torn}
<1>1. /\ job.step \in Working /\ job.step \in AfterDb /\ JobInv /\ RevInv /\ TreeInv
      /\ head \in [Kinds -> Versions] /\ job.old \in [Kinds -> Versions] /\ "backend" \in Kinds
  BY DEF IInv, Typed, JobT, Job, CodeT, Working, Steps, AfterDb, AfterCode, Kinds
<1>2. \A k \in Kinds : head[k] = job.old[k]  BY <1>1 DEF JobInv
<1>3. head = job.old  BY <1>1, <1>2
<1>4. \A k \in Kinds : tags[k].latest = ImageOf(k, head[k])  BY <1>1, <1>2 DEF JobInv
<1>5. db.rev = job.oldRev /\ job.oldRev = Schema(job.old["backend"])  BY <1>1 DEF RevInv, JobInv
<1> QED  BY <1>1, <1>3, <1>4, <1>5 DEF TreeInv

\* A step between the last ones of the rollback: what it must leave of the containers.
LEMMA RollsOn ==
  ASSUME IInv, job.step \in AfterCode, job'.step \in AfterCode, JobT', ServT', FlagT', BaseT',
         troubles' \in 0 .. MaxTroubles,
         job'.old = job.old, job'.new = job.new, job'.changed = job.changed, job'.oldRev = job.oldRev,
         job'.built = job.built, job'.swapped = job.swapped, job'.merged = job.merged, job'.dump = job.dump,
         UNCHANGED <<checkouts, tags, jobs, written, told, strayed>>,
         \/ db' = db /\ (job.restored => job'.restored)
         \/ db' = Restored(job.dump) /\ job.dump # Null /\ job'.restored,
         IF job'.step = "rollback_frontend" THEN Changed("frontend") ELSE Changed("backend"),
         services'["frontend"] = services["frontend"], SchedInv', RunInv'
  PROVE  IInv'
<1> USE DEF checkouts
<1>1. Typed'  BY DEF IInv, Typed, CodeT, TagsT, CountT
<1>2. TreeInv'  BY DEF IInv, TreeInv
<1>3. /\ Untold <=> job.restored
      /\ Untold' <=> job'.restored
  BY DEF Untold, AfterDb
<1>4. /\ db'.rev = job.oldRev /\ db'.data <= written
      /\ job'.restored \/ (db' = db /\ ~job.restored)
  <2>1. db.rev = job.oldRev  BY Back
  <2>2. db.data <= written  BY DEF IInv, DataInv
  <2>3. job.dump # Null => job.dump \in Database /\ job.dump.rev = job.oldRev /\ job.dump.data <= written
    BY DEF IInv, Typed, JobT, Job, DataInv, JobInv, Working, Steps, AfterCode
  <2>4. job.dump # Null => Restored(job.dump).rev = job.oldRev /\ Restored(job.dump).data <= written
    BY <2>3 DEF Restored, Database
  <2>5. CASE db' = db /\ (job.restored => job'.restored)
    <3>1. db'.rev = job.oldRev /\ db'.data <= written  BY <2>1, <2>2, <2>5
    <3> QED  BY <2>5, <3>1, Zenon
  <2>6. CASE db' = Restored(job.dump) /\ job.dump # Null /\ job'.restored
    BY <2>4, <2>6
  <2> QED  BY <2>5, <2>6
<1>5. DataInv' /\ TablesInv'
  BY <1>3, <1>4 DEF IInv, DataInv, TablesInv
<1>6. RestInv' /\ VerifiedInv'  BY DEF RestInv, AtRest, VerifiedInv, AfterCode
<1>7. RevInv'
  <2>1. job'.step \in AfterDb  BY DEF AfterDb
  <2>2. db'.rev = job'.oldRev  BY <1>4
  <2> QED  BY ONLY <2>1, <2>2 DEF RevInv
<1>8. JobInv'
  BY DEF IInv, JobInv, Working, Steps, AfterCode
<1>9. StepInv'
  BY DEF IInv, StepInv, Working, Steps, Rollback, AfterDb, AfterCode, Changed
<1> QED  BY <1>1, <1>2, <1>5, <1>6, <1>7, <1>8, <1>9 DEF IInv

\* The old backend starts on the old schema: it has nothing to migrate.
LEMMA RollsStart ==
  ASSUME IInv, rollback_start
  PROVE  IInv'
<1> USE DEF checkouts
<1>1. /\ JobT /\ ServT /\ FlagT /\ CountT /\ BaseT /\ CodeT /\ TagsT /\ Typed /\ JobInv
      /\ StepInv /\ RunInv /\ SchedInv
      /\ job.step = "rollback_start" /\ job.step \in AfterCode /\ job.step \in Working /\ Changed("backend")
      /\ UNCHANGED <<checkouts, tags, import, jobs, written, strayed, cut>>
  BY DEF IInv, Typed, rollback_start, StepInv, AfterCode, Working, Steps
<1>2. CASE GiveUp /\ UNCHANGED <<services, db>>
  <2>1. UNCHANGED <<server, jobs, written, strayed, cut>>  BY <1>1, <1>2 DEF server
  <2> QED  BY <1>2, <2>1, GivesUp
<1>3. CASE ~(GiveUp /\ UNCHANGED <<services, db>>)
  <2>1. StartBackend(tags["backend"].latest) /\ Go("rollback_ready") /\ UNCHANGED <<told, troubles>>
    BY <1>3 DEF rollback_start
  <2>2. /\ head = job.old /\ tags["backend"].latest = ImageOf("backend", head["backend"])
        /\ db.rev = Schema(head["backend"]) /\ tree["backend"] \in {head["backend"], Torn}
        /\ tags["backend"].latest \in Versions
    BY <1>1, Back, LatestTypes DEF Kinds
  <2>3. /\ services'["backend"] =
                [code |-> tree["backend"], image |-> tags["backend"].latest, up |-> CanUpgrade(tree["backend"])]
        /\ \A s \in Services \ {"backend"} : services'[s] = services[s]
        /\ tree["backend"] = Torn \/ db.rev = Schema(tree["backend"]) => db' = db /\ CanUpgrade(tree["backend"])
    BY <1>1, <2>1, <2>2, Starting
  <2>4. db' = db /\ CanUpgrade(tree["backend"])  BY <2>2, <2>3
  <2>5. /\ job'.step = "rollback_ready"
        /\ job'.old = job.old /\ job'.new = job.new /\ job'.changed = job.changed /\ job'.oldRev = job.oldRev
        /\ job'.built = job.built /\ job'.swapped = job.swapped /\ job'.merged = job.merged
        /\ job'.restored = job.restored /\ job'.dump = job.dump /\ JobT'
    BY <1>1, <2>1, GoFields, GoTypes DEF Steps
  <2>6. ServT' /\ BaseT' /\ FlagT' /\ CountT'
    BY <1>1, <2>1, <2>2, StartTypes DEF BaseT, FlagT, CountT
  <2>7. /\ services'["backend"].code = tree["backend"] /\ services'["backend"].image = tags["backend"].latest
        /\ services'["scheduler"] = services["scheduler"] /\ services'["frontend"] = services["frontend"]
        /\ services'["backend"].up <=> CanUpgrade(tree["backend"])
    BY <2>3 DEF Services
  <2>11. services'["backend"] \in Container
    <3>1. CanUpgrade(tree["backend"]) \in BOOLEAN /\ tree["backend"] \in Trees
      BY <1>1, UpgradedTypes DEF BaseT, CodeT, Kinds
    <3> QED  BY <2>2, <2>3, <3>1 DEF Container
  <2>8. services["scheduler"] = Null  BY <1>1 DEF RunInv
  <2>9. SchedInv'  BY <2>7, <2>8 DEF SchedInv
  <2>10. RunInv'
    <3>1. Fits("backend", job.old["backend"])'
      BY <1>1, <2>2, <2>4, <2>5, <2>7, <2>11 DEF Fits
    <3>2. ~Changed("frontend") => FrontendFits(job.old["frontend"])'
      BY <1>1, <2>5, <2>7 DEF RunInv, FrontendFits
    <3> QED  BY <1>1, <2>5, <2>7, <2>8, <3>1, <3>2 DEF RunInv, Changed, Rollback, AfterDb, AfterCode
  <2>12. job'.step \in AfterCode  BY <2>5 DEF AfterCode
  <2>13. troubles' \in 0 .. MaxTroubles  BY <2>6 DEF CountT
  <2>14. db' = db /\ (job.restored => job'.restored)  BY <2>4, <2>5
  <2>15. IF job'.step = "rollback_frontend" THEN Changed("frontend") ELSE Changed("backend")
    BY <1>1, <2>5
  <2>16. UNCHANGED <<checkouts, tags, jobs, written, told, strayed>>  BY <1>1, <2>1
  <2> QED  BY <1>1, <2>5, <2>6, <2>7, <2>9, <2>10, <2>12, <2>13, <2>14, <2>15, <2>16, RollsOn
<1> QED  BY <1>2, <1>3

\* It answers, or the database is once more taken from its copy, or the rollback has failed.
LEMMA RollsReady ==
  ASSUME IInv, NEW ok \in BOOLEAN, rollback_ready(ok)
  PROVE  IInv'
<1> USE DEF checkouts
<1>1. /\ JobT /\ ServT /\ FlagT /\ CountT /\ BaseT /\ Typed /\ JobInv /\ StepInv /\ RunInv /\ SchedInv
      /\ job.step = "rollback_ready" /\ job.step \in AfterCode /\ job.step \in Working /\ Changed("backend")
      /\ UNCHANGED <<checkouts, tags, jobs, written, strayed>> /\ services["scheduler"] = Null
  BY DEF IInv, Typed, rollback_ready, StepInv, RunInv, AfterCode, Working, Steps
<1>2. troubles' \in 0 .. MaxTroubles  BY <1>1, MaybeTypes DEF rollback_ready
<1>3. \/ finish("failed") /\ UNCHANGED <<services, db, import, cut>>
      \/ Go("rollback_scheduler") /\ UNCHANGED <<services, db, told, import, cut>>
      \/ /\ db' = Restored(job.dump) /\ job.dump # Null
         /\ services' = [services EXCEPT !["backend"] = Null]
         /\ job' = [job EXCEPT !.step = "rollback_start", !.restored = TRUE]
         /\ Interrupt({"backend"})
         /\ UNCHANGED told
  BY DEF rollback_ready
<1>4. CASE finish("failed") /\ UNCHANGED <<services, db, import, cut>>
  <2>1. UNCHANGED <<server, jobs, written, strayed, cut>>  BY <1>1, <1>4 DEF server
  <2> QED  BY <1>2, <1>4, <2>1, Fails
<1>5. CASE Go("rollback_scheduler") /\ UNCHANGED <<services, db, told, import, cut>>
  <2>1. /\ job'.step = "rollback_scheduler"
        /\ job'.old = job.old /\ job'.new = job.new /\ job'.changed = job.changed /\ job'.oldRev = job.oldRev
        /\ job'.built = job.built /\ job'.swapped = job.swapped /\ job'.merged = job.merged
        /\ job'.restored = job.restored /\ job'.dump = job.dump /\ JobT'
    BY <1>1, <1>5, GoFields, GoTypes DEF Steps
  <2>2. ServT' /\ FlagT' /\ BaseT' /\ SchedInv'  BY <1>1, <1>5 DEF ServT, FlagT, BaseT, SchedInv
  <2>3. RunInv'
    <3>1. Fits("backend", job.old["backend"])'
      BY <1>1, <1>5, <2>1 DEF RunInv, Fits
    <3>2. ~Changed("frontend") => FrontendFits(job.old["frontend"])'
      BY <1>1, <1>5, <2>1 DEF RunInv, FrontendFits
    <3> QED  BY <1>1, <1>5, <2>1, <3>1, <3>2 DEF RunInv, Changed, Rollback, AfterDb, AfterCode
  <2>4. job'.step \in AfterCode  BY <2>1 DEF AfterCode
  <2>5. db' = db /\ (job.restored => job'.restored)  BY <1>5, <2>1
  <2>6. IF job'.step = "rollback_frontend" THEN Changed("frontend") ELSE Changed("backend")
    BY <1>1, <2>1
  <2>7. UNCHANGED <<checkouts, tags, jobs, written, told, strayed>>  BY <1>1, <1>5
  <2>8. services'["frontend"] = services["frontend"]  BY <1>5
  <2> QED  BY <1>1, <1>2, <2>1, <2>2, <2>3, <2>4, <2>5, <2>6, <2>7, <2>8, RollsOn
<1>6. CASE /\ db' = Restored(job.dump) /\ job.dump # Null
           /\ services' = [services EXCEPT !["backend"] = Null]
           /\ job' = [job EXCEPT !.step = "rollback_start", !.restored = TRUE]
           /\ Interrupt({"backend"})
           /\ UNCHANGED told
  <2>1. /\ job'.step = "rollback_start"
        /\ job'.old = job.old /\ job'.new = job.new /\ job'.changed = job.changed /\ job'.oldRev = job.oldRev
        /\ job'.built = job.built /\ job'.swapped = job.swapped /\ job'.merged = job.merged
        /\ job'.restored /\ job'.dump = job.dump /\ JobT'
    BY <1>1, <1>6 DEF JobT, Job, Steps
  <2>2. /\ ServT' /\ services'["backend"] = Null
        /\ services'["scheduler"] = services["scheduler"] /\ services'["frontend"] = services["frontend"]
    BY <1>1, <1>6 DEF ServT, Services
  <2>3. job.dump \in Database  BY <1>1, <1>6 DEF JobT, Job
  <2>4. BaseT'  BY <1>1, <1>6, <2>3, RestoredTypes DEF BaseT
  <2>5. FlagT'  BY <1>1, <1>6, InterruptTypes DEF FlagT
  <2>6. SchedInv'  BY <1>1, <2>2 DEF SchedInv
  <2>7. RunInv'
    <3>1. ~Changed("frontend") => FrontendFits(job.old["frontend"])'
      BY <1>1, <2>1, <2>2 DEF RunInv, FrontendFits
    <3> QED  BY <1>1, <2>1, <2>2, <3>1 DEF RunInv, Changed, Rollback, AfterDb, AfterCode
  <2>8. job'.step \in AfterCode  BY <2>1 DEF AfterCode
  <2> QED  BY <1>1, <1>2, <1>6, <2>1, <2>2, <2>4, <2>5, <2>6, <2>7, <2>8, RollsOn
<1> QED  BY <1>3, <1>4, <1>5, <1>6

LEMMA RollsScheduler ==
  ASSUME IInv, rollback_scheduler
  PROVE  IInv'
<1> USE DEF checkouts
<1>1. /\ JobT /\ ServT /\ FlagT /\ CountT /\ BaseT /\ Typed /\ JobInv /\ StepInv /\ RunInv /\ TreeInv
      /\ job.step = "rollback_scheduler" /\ job.step \in AfterCode /\ job.step \in AfterDb
      /\ job.step \in Working /\ Changed("backend")
      /\ UNCHANGED <<checkouts, tags, db, import, jobs, written, strayed, cut>>
  BY DEF IInv, Typed, rollback_scheduler, StepInv, AfterDb, AfterCode, Working, Steps
<1>2. CASE GiveUp /\ UNCHANGED services
  <2>1. UNCHANGED <<server, jobs, written, strayed, cut>>  BY <1>1, <1>2 DEF server
  <2> QED  BY <1>2, <2>1, GivesUp
<1>3. CASE ~(GiveUp /\ UNCHANGED services)
  <2>1. /\ services' = [services EXCEPT !["scheduler"] = Recreated("scheduler")]
        /\ IF Changed("frontend") THEN Go("rollback_frontend") /\ UNCHANGED told ELSE finish("rolled_back")
        /\ UNCHANGED troubles
    BY <1>3 DEF rollback_scheduler
  <2>2. /\ head = job.old /\ \A k \in Kinds : tags[k].latest = ImageOf(k, head[k])
        /\ db.rev = Schema(head["backend"])
    BY <1>1, Back
  <2>3. /\ Recreated("scheduler") \in Container /\ Recreated("scheduler").code = tree["backend"]
        /\ Recreated("scheduler").image = ImageOf("backend", head["backend"]) /\ Recreated("scheduler").up
        /\ tree["backend"] \in {head["backend"], Torn}
    <3>1. "backend" \in Kinds  BY DEF Kinds
    <3> QED  BY <1>1, <2>2, <3>1, RecreatedIs
  <2>4. /\ ServT' /\ services'["scheduler"] = Recreated("scheduler")
        /\ services'["backend"] = services["backend"] /\ services'["frontend"] = services["frontend"]
    BY <1>1, <2>1, <2>3 DEF ServT, Services
  <2>5. SchedInv'  BY <1>1, <2>2, <2>3, <2>4 DEF SchedInv
  <2>6. troubles' \in 0 .. MaxTroubles  BY <1>1, <2>1 DEF CountT
  <2>7. SchedulerFits(head["backend"])' /\ Fits("backend", head["backend"])'
    <3>1. Fits("backend", head["backend"])  BY <1>1, <2>2 DEF RunInv
    <3> QED  BY <1>1, <2>3, <2>4, <3>1 DEF SchedulerFits, Fits
  <2>8. CASE ~Changed("frontend")
    <3>1. finish("rolled_back")  BY <2>1, <2>8
    <3>2. FrontendFits(head["frontend"])'
      BY <1>1, <2>2, <2>4, <2>8 DEF RunInv, FrontendFits
    <3> QED  BY <1>1, <2>2, <2>4, <2>5, <2>6, <2>7, <3>1, <3>2, Finishes
  <2>9. CASE Changed("frontend")
    <3>1. Go("rollback_frontend") /\ UNCHANGED told  BY <2>1, <2>9
    <3>2. /\ job'.step = "rollback_frontend"
          /\ job'.old = job.old /\ job'.new = job.new /\ job'.changed = job.changed /\ job'.oldRev = job.oldRev
          /\ job'.built = job.built /\ job'.swapped = job.swapped /\ job'.merged = job.merged
          /\ job'.restored = job.restored /\ job'.dump = job.dump /\ JobT'
      BY <1>1, <3>1, GoFields, GoTypes DEF Steps
    <3>3. FlagT' /\ BaseT'  BY <1>1, <3>1 DEF FlagT, BaseT
    <3>4. RunInv'
      <4>1. Fits("backend", job.old["backend"])' /\ SchedulerFits(job.old["backend"])'
        BY <1>1, <2>2, <2>7, <3>2
      <4> QED  BY <1>1, <2>9, <3>2, <4>1 DEF RunInv, Changed, Rollback, AfterDb, AfterCode
    <3>5. job'.step \in AfterCode  BY <3>2 DEF AfterCode
    <3>6. db' = db /\ (job.restored => job'.restored)  BY <1>1, <3>2
    <3>7. IF job'.step = "rollback_frontend" THEN Changed("frontend") ELSE Changed("backend")
      BY <2>9, <3>2
    <3>8. UNCHANGED <<checkouts, tags, jobs, written, told, strayed>>  BY <1>1, <3>1
    <3> QED  BY <1>1, <2>4, <2>5, <2>6, <3>2, <3>3, <3>4, <3>5, <3>6, <3>7, <3>8, RollsOn
  <2> QED  BY <2>8, <2>9
<1> QED  BY <1>2, <1>3

LEMMA RollsFrontend ==
  ASSUME IInv, rollback_frontend
  PROVE  IInv'
<1> USE DEF checkouts
<1>1. /\ ServT /\ CountT /\ Typed /\ JobInv /\ StepInv /\ RunInv /\ TreeInv /\ SchedInv /\ TagsT /\ CodeT
      /\ job.step = "rollback_frontend" /\ job.step \in AfterCode /\ job.step \in AfterDb /\ job.step \in Working
      /\ UNCHANGED <<checkouts, tags, db, import, jobs, written, strayed, cut>> /\ "frontend" \in Kinds
  BY DEF IInv, Typed, rollback_frontend, AfterDb, AfterCode, Working, Steps, Kinds
<1>2. CASE GiveUp /\ UNCHANGED services
  <2>1. UNCHANGED <<server, jobs, written, strayed, cut>>  BY <1>1, <1>2 DEF server
  <2> QED  BY <1>2, <2>1, GivesUp
<1>3. CASE ~(GiveUp /\ UNCHANGED services)
  <2>1. /\ services' = [services EXCEPT !["frontend"] = Recreated("frontend")]
        /\ finish("rolled_back") /\ UNCHANGED troubles
    BY <1>3 DEF rollback_frontend
  <2>2. /\ head = job.old /\ \A k \in Kinds : tags[k].latest = ImageOf(k, head[k])
        /\ db.rev = Schema(head["backend"])
    BY <1>1, Back
  <2>3. Recreated("frontend") = [code |-> head["frontend"], image |-> head["frontend"], up |-> TRUE]
    BY <1>1, <2>2, RecreatedIs
  <2>4. Recreated("frontend") \in Container  BY <1>1, RecreatedTypes DEF Services
  <2>5. /\ ServT' /\ services'["frontend"] = Recreated("frontend")
        /\ services'["backend"] = services["backend"] /\ services'["scheduler"] = services["scheduler"]
    BY <1>1, <2>1, <2>4 DEF ServT, Services
  <2>6. SchedInv'  BY <1>1, <2>5 DEF SchedInv
  <2>7. troubles' \in 0 .. MaxTroubles  BY <1>1, <2>1 DEF CountT
  <2>8. FrontendFits(head["frontend"])'  BY <1>1, <2>3, <2>5 DEF FrontendFits
  <2>9. SchedulerFits(head["backend"])' /\ Fits("backend", head["backend"])'
    <3>1. SchedulerFits(head["backend"]) /\ Fits("backend", head["backend"])  BY <1>1, <2>2 DEF RunInv
    <3> QED  BY <1>1, <2>5, <3>1 DEF SchedulerFits, Fits
  <2> QED  BY <1>1, <2>1, <2>2, <2>5, <2>6, <2>7, <2>8, <2>9, Finishes
<1> QED  BY <1>2, <1>3

(* ---- The theorems ---- *)

LEMMA Initially == Init => IInv
<1> SUFFICES ASSUME Init PROVE IInv  OBVIOUS
<1> USE DEF Init
<1>1. /\ job = [NewJob(head, FALSE) EXCEPT !.step = "none"] /\ head = [k \in Kinds |-> 0] /\ 0 \in Versions
      /\ head \in [Kinds -> Versions]
  BY VersionsAre
<1>2. /\ job.step = "none" /\ job.result = Null /\ job.dump = Null /\ job.old = head /\ job.new = head
      /\ JobT
  BY <1>1 DEF NewJob, JobT, Job, Steps, Results
<1>3. Schema(0) = 0 /\ \A k \in Kinds : ImageOf(k, 0) = 0
  <2>1. Schema(0) \in Nat /\ Schema(0) <= 0  BY <1>1, SchemaIs, VersionsAre
  <2>2. Rebuilds \in SUBSET Nat  BY VersionsAre
  <2>3. Latest(Rebuilds, 0) \in Rebuilds \cup {0} /\ Latest(Rebuilds, 0) <= 0
    BY <2>2, LatestIs
  <2> QED  BY <2>1, <2>2, <2>3 DEF ImageOf
<1>4. Between(0, 0) = {}
  <2>1. \A m \in Migrates : m \in Nat /\ 0 < m  BY VersionsAre
  <2> QED  BY <2>1 DEF Between
<1>5. Typed
  <2>1. ServT /\ TagsT  BY <1>1 DEF ServT, TagsT, Tags, Trees, Container
  <2>2. CodeT  BY <1>1 DEF CodeT, Trees
  <2>3. 0 \in 0 .. MaxWrites /\ 0 \in 0 .. MaxJobs /\ 0 \in 0 .. MaxTroubles  OBVIOUS
  <2>4. CountT /\ FlagT  BY <2>3 DEF CountT, FlagT
  <2>5. BaseT  BY <1>1, <2>3 DEF BaseT, Database
  <2> QED  BY <1>2, <2>1, <2>2, <2>4, <2>5 DEF Typed
<1>6. TreeInv /\ SchedInv  BY <1>1, <1>3 DEF TreeInv, SchedInv, Kinds, Services
<1>7. DataInv /\ TablesInv
  <2>1. db.rev = 0 /\ db.tables = {} /\ db.data = 0 /\ written = 0 /\ db.data <= written  OBVIOUS
  <2> QED  BY <1>2, <1>4, <2>1 DEF DataInv, TablesInv
<1>8. RestInv
  <2>1. [code |-> 0, image |-> 0, up |-> TRUE] \in Container  BY <1>1 DEF Container, Trees
  <2> QED  BY <1>1, <1>2, <1>3, <2>1 DEF RestInv, AtRest, Fits, SchedulerFits, FrontendFits, Kinds, Services, Results
<1>9. JobInv /\ StepInv /\ RevInv /\ VerifiedInv /\ RunInv
  BY <1>2 DEF JobInv, StepInv, RevInv, VerifiedInv, RunInv, Working, Rollback, AfterDb, AfterCode
<1> QED  BY <1>5, <1>6, <1>7, <1>8, <1>9 DEF IInv

LEMMA Recovers ==
  ASSUME IInv, recover_interrupted
  PROVE  IInv'
<1>1. GiveUp /\ UNCHANGED <<server, jobs, written, strayed, cut>>  BY DEF recover_interrupted
<1> QED  BY <1>1, GivesUp

LEMMA ImportsStep ==
  ASSUME IInv, end_import \/ \E s \in {"backend", "scheduler"} : begin_import(s)
  PROVE  IInv'
<1>1. /\ import' \in {"backend", "scheduler", Null} /\ troubles' \in 0 .. MaxTroubles
      /\ UNCHANGED <<checkouts, tags, services, db, job, jobs, ghost>>
  BY DEF begin_import, end_import, IInv, Typed, CountT, bounds
<1> QED  BY <1>1, Imports

LEMMA Idles == ASSUME IInv, UNCHANGED vars PROVE IInv'
<1>1. /\ import' \in {"backend", "scheduler", Null} /\ troubles' \in 0 .. MaxTroubles
      /\ UNCHANGED <<checkouts, tags, services, db, job, jobs, ghost>>
  BY DEF vars, server, bounds, IInv, Typed, CountT, FlagT
<1> QED  BY <1>1, Imports

\* IInv is inductive.
LEMMA Inductive == IInv /\ [Next]_vars => IInv'
<1> SUFFICES ASSUME IInv, [Next]_vars PROVE IInv'  OBVIOUS
<1>1. CASE UNCHANGED vars  BY <1>1, Idles
<1>2. CASE \E target \in [Kinds -> Versions], discard \in BOOLEAN : start(target, discard)
  BY <1>2, Starts
<1>3. CASE \E ok \in BOOLEAN :
             \/ build(ok) \/ backup(ok) \/ dump(ok) \/ undo(ok)
             \/ swap_images(ok) \/ merge_ff(ok) \/ restart_backend(ok)
             \/ verify_backend(ok) \/ verify_scheduler(ok) \/ verify_frontend(ok)
             \/ rollback_ready(ok)
  BY <1>3, Builds, BacksUp, Dumps, Undoes, Swaps, Merges, RestartsIt, Verifies, VerifiesScheduler,
     VerifiesFrontend, RollsReady
<1>4. CASE prepare  BY <1>4, Prepares
<1>5. CASE rollback_stop \/ rollback_database \/ rollback_code
  BY <1>5, Stops, RollsDatabaseBack, RollsCodeBack
<1>6. CASE rollback_start \/ rollback_scheduler \/ rollback_frontend
  BY <1>6, RollsStart, RollsScheduler, RollsFrontend
<1>7. CASE recover_interrupted  BY <1>7, Recovers
<1>8. CASE end_import \/ \E s \in {"backend", "scheduler"} : begin_import(s)
  BY <1>8, ImportsStep
<1>9. CASE store  BY <1>9, Stores
<1>10. CASE \E s \in Services : restart(s)  BY <1>10, Restarts
<1> QED  BY <1>1, <1>2, <1>3, <1>4, <1>5, <1>6, <1>7, <1>8, <1>9, <1>10 DEF Next

LEMMA Always == Spec => []IInv
BY Initially, Inductive, PTL DEF Spec

\* Every variable of the updater, its jobs and the server they act on keeps its type.
THEOREM TypeCorrect == Spec => []TypeOK
<1>1. IInv => TypeOK  BY Types DEF IInv
<1> QED  BY <1>1, Always, PTL

\* Through every update, rollback and restart, the scheduler only ever works on the schema
\* of its own code: it is away while the backend migrates the database or it is put back.
THEOREM SchedulerKnows == Spec => []SchedulerKnowsSchema
<1>1. IInv => SchedulerKnowsSchema  BY DEF IInv, SchedInv, SchedulerKnowsSchema
<1> QED  BY <1>1, Always, PTL

\* Nothing users or agents stored is lost by a job that does not say that it took the database
\* from its copy; a job that ended as failed is the administrator's.
THEOREM NoLoss == Spec => []NoSilentLoss
<1>1. IInv => NoSilentLoss
  BY DEF IInv, DataInv, NoSilentLoss, Untold, AfterDb, AfterCode
<1> QED  BY <1>1, Always, PTL

\* What a job says at its end is what the server is: commits, images, containers, schema and
\* tables, for any number of versions and of commands that fail.
THEOREM Outcome == Spec => []OutcomeIsTrue
<1>1. IInv => OutcomeIsTrue
  <2> SUFFICES ASSUME IInv, job.step = "none",
                      job.result \in {"updated", "up_to_date", "rolled_back", "not_done"},
                      ~TornAbout
               PROVE  /\ IsAt(head)
                      /\ (job.result = "updated" => head = job.new)
                      /\ (job.result = "rolled_back" => head = job.old)
    BY DEF OutcomeIsTrue
  <2>1. AtRest /\ RestInv /\ ServT /\ head \in [Kinds -> Versions] /\ TablesInv
    BY DEF AtRest, IInv, Typed, CodeT
  <2>2. /\ Fits("backend", head["backend"]) /\ SchedulerFits(head["backend"])
        /\ FrontendFits(head["frontend"]) /\ db.rev = Schema(head["backend"])
        /\ \A k \in Kinds : tags[k].latest = ImageOf(k, head[k])
        /\ (job.result = "updated" => head = job.new) /\ (job.result = "rolled_back" => head = job.old)
    BY <2>1 DEF RestInv
  <2>3. \A s \in Services : services[s] # Null => services[s].code # Torn  BY DEF TornAbout
  <2>4. Runs("backend", "backend", head["backend"])
    BY <2>2, <2>3 DEF Fits, Runs, Container, Services
  <2>5. services["scheduler"] = Null \/ Runs("scheduler", "backend", head["backend"])
    BY <2>2, <2>3 DEF SchedulerFits, Fits, Runs, Container, Services
  <2>6. services["scheduler"] = Null => strayed
    BY <2>2 DEF SchedulerFits, Fits
  <2>7. Runs("frontend", "frontend", head["frontend"])
    BY <2>1, <2>2, ImageIs DEF FrontendFits, Runs, Kinds
  <2>8. db.tables = Between(0, db.rev) \/ told
    BY <2>1 DEF TablesInv, Untold, AfterDb, AfterCode
  <2> QED  BY <2>2, <2>4, <2>5, <2>6, <2>7, <2>8 DEF IsAt, Kinds
<1> QED  BY <1>1, Always, PTL
=============================================================================
