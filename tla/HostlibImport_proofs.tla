------------------------ MODULE HostlibImport_proofs ------------------------
(***************************************************************************)
(* What holds of the HOSTLIB import: of its lock, for any number of runs and *)
(* troubles and any stale window; and of the archive it fills, for any       *)
(* lines, computers' logs, exports, runs and clearings.                      *)
(***************************************************************************)
EXTENDS UpdateJob, LineArchive, TLAPS, WellFoundedInduction

(* ---------------- The lock ---------------- *)

LEMMA OlderType ==
  ASSUME NEW age \in Ages \cup {Null}
  PROVE  /\ Older(age) \in Ages \cup {Null}
         /\ age # Null => Older(age) \in Ages
BY StaleAssumption, RunsAssumption DEF Older, Ages

LEMMA TypeStep ==
  ASSUME TypeOK, [Next]_vars
  PROVE  TypeOK'
<1> USE StaleAssumption
<1>1. CASE UNCHANGED vars
  BY <1>1 DEF TypeOK, vars, job, ghost
<1>2. ASSUME NEW r \in Runs, acquire(r) PROVE TypeOK'
  BY <1>2 DEF acquire, TypeOK, ghost, Ages
<1>3. ASSUME NEW r \in Runs, heartbeat(r) PROVE TypeOK'
  BY <1>3 DEF heartbeat, TypeOK, ghost, Ages
<1>4. ASSUME NEW r \in Runs, NEW result \in {"done", "error"}, finalize(r, result)
      PROVE  TypeOK'
  BY <1>4 DEF finalize, TypeOK, ghost, Ages
<1>5. ASSUME NEW r \in Runs, NEW swept, Begin(r, swept) PROVE TypeOK'
  BY <1>5 DEF Begin, TypeOK, job, Ages
<1>6. ASSUME NEW r \in Runs, end_work(r) PROVE TypeOK'
  BY <1>6 DEF end_work, TypeOK, job, ghost
<1>7. ASSUME NEW r \in Runs, NEW how \in {"mute", "hung"}, fall_ill(r, how) PROVE TypeOK'
  BY <1>7 DEF fall_ill, Trouble, TypeOK, job
<1>8. ASSUME NEW r \in Runs, wake(r) PROVE TypeOK'
  BY <1>8 DEF wake, TypeOK, job, ghost
<1>9. ASSUME NEW r \in Runs, crash(r) PROVE TypeOK'
  BY <1>9 DEF crash, Trouble, TypeOK, job, ghost
<1>10. ASSUME NEW r \in Runs, finalize_fails(r) PROVE TypeOK'
  BY <1>10 DEF finalize_fails, Trouble, TypeOK, job, ghost
<1>11. CASE reset_update_status
  BY <1>11 DEF reset_update_status, TypeOK, Ages
<1>12. CASE tick
  <2>1. Older(updated_at) \in Ages
    <3>1. updated_at \in Ages
      BY DEF TypeOK
    <3>2. updated_at # Null
      BY <3>1, RunsAssumption DEF Ages
    <3>3. QED
      BY <3>1, <3>2, OlderType
  <2>2. [r \in Runs |-> Older(temp[r])] \in [Runs -> Ages \cup {Null}]
    BY OlderType DEF TypeOK
  <2>3. QED
    BY <1>12, <2>1, <2>2 DEF tick, TypeOK, ghost
<1>13. QED
  BY <1>1, <1>2, <1>3, <1>4, <1>5, <1>6, <1>7, <1>8, <1>9, <1>10, <1>11, <1>12
     DEF Next, begin_update, begin_direct

\* The row, the runs and their directories keep their types.
THEOREM TypeInvariant == Spec => []TypeOK
<1>1. Init => TypeOK
  BY StaleAssumption DEF Init, TypeOK, Ages
<1>2. TypeOK /\ [Next]_vars => TypeOK'
  BY TypeStep
<1>3. QED
  BY <1>1, <1>2, PTL DEF Spec

(* ---- Who owns the job ---- *)

\* A fit run at work owns a row that has been beaten since the last tick or the
\* one before, which no other run's WHERE clause matches.
OwnerInv ==
  /\ \A r \in fit : health[r] = "well"
  /\ \A r \in fit \cap Active : Mine(r) /\ updated_at <= 1
  /\ SweepIsSafe

LEMMA OwnerStep ==
  ASSUME TypeOK, OwnerInv, [Next]_vars
  PROVE  OwnerInv'
<1> USE StaleAssumption
<1>1. CASE UNCHANGED vars
  BY <1>1 DEF OwnerInv, SweepIsSafe, Active, Mine, vars, job, ghost
<1>2. ASSUME NEW r \in Runs, acquire(r) PROVE OwnerInv'
  <2>1. fit \cap Active = {}
    BY <1>2 DEF acquire, Claimable, OwnerInv, Mine, TypeOK, Ages
  <2>2. Active' = Active \cup {r}
    BY <1>2 DEF acquire, Active, TypeOK
  <2>3. Mine(r)' /\ updated_at' <= 1
    BY <1>2 DEF acquire, Mine
  <2>4. fit' = fit /\ sweptBy' = sweptBy /\ health' = health
    BY <1>2 DEF acquire, ghost
  <2>5. QED
    BY <2>1, <2>2, <2>3, <2>4 DEF OwnerInv, SweepIsSafe
<1>3. ASSUME NEW r \in Runs, heartbeat(r) PROVE OwnerInv'
  BY <1>3 DEF heartbeat, OwnerInv, SweepIsSafe, Active, Mine, TypeOK, Ages, ghost
<1>4. ASSUME NEW r \in Runs, NEW result \in {"done", "error"}, finalize(r, result)
      PROVE  OwnerInv'
  <2>1. Active' = Active \ {r}
    BY <1>4 DEF finalize, Active, TypeOK
  <2>2. \A o \in fit \cap Active' : Mine(o)' /\ updated_at' <= 1
    <3> SUFFICES ASSUME NEW o \in fit \cap Active' PROVE Mine(o)' /\ updated_at' <= 1
      OBVIOUS
    <3>1. o # r /\ Mine(o) /\ updated_at <= 1
      BY <2>1 DEF OwnerInv
    <3>2. ~Mine(r)
      BY <3>1 DEF Mine
    <3>3. QED
      BY <3>1, <3>2, <1>4 DEF finalize, Mine
  <2>3. fit' = fit /\ sweptBy' = sweptBy /\ health' = health
    BY <1>4 DEF finalize, ghost
  <2>4. QED
    BY <2>2, <2>3 DEF OwnerInv, SweepIsSafe
<1>5. ASSUME NEW r \in Runs, NEW swept, Begin(r, swept) PROVE OwnerInv'
  <2>1. Active' = Active /\ r \in Active
    BY <1>5 DEF Begin, Active, TypeOK
  <2>2. fit' = fit /\ health' = health /\ UNCHANGED job
    BY <1>5 DEF Begin
  <2>3. SweepIsSafe'
    <3> SUFFICES ASSUME NEW o \in Runs, sweptBy'[o] # Null
                 PROVE  ~({o, sweptBy'[o]} \subseteq fit)
      BY <2>2 DEF SweepIsSafe
    <3>1. CASE o \in swept /\ phase[o] = "working"
      <4>1. sweptBy'[o] = r /\ o # r /\ o \in Active
        BY <1>5, <3>1 DEF Begin, Active, TypeOK
      <4>2. QED
        BY <4>1, <2>1 DEF OwnerInv, Mine
    <3>2. CASE ~(o \in swept /\ phase[o] = "working")
      <4>1. sweptBy'[o] = sweptBy[o]
        BY <1>5, <3>2 DEF Begin
      <4>2. QED
        BY <4>1 DEF OwnerInv, SweepIsSafe
    <3>3. QED
      BY <3>1, <3>2
  <2>4. QED
    BY <2>1, <2>2, <2>3 DEF OwnerInv, Mine, job
<1>6. ASSUME NEW r \in Runs, end_work(r) PROVE OwnerInv'
  <2>1. Active' = Active
    BY <1>6 DEF end_work, Active, TypeOK
  <2>2. QED
    BY <1>6, <2>1 DEF end_work, OwnerInv, SweepIsSafe, Mine, job, ghost
<1>7. ASSUME NEW r \in Runs, NEW how \in {"mute", "hung"}, fall_ill(r, how) PROVE OwnerInv'
  BY <1>7 DEF fall_ill, OwnerInv, SweepIsSafe, Active, Mine, TypeOK, job
<1>8. ASSUME NEW r \in Runs, wake(r) PROVE OwnerInv'
  BY <1>8 DEF wake, OwnerInv, SweepIsSafe, Active, Mine, TypeOK, job, ghost
<1>9. ASSUME NEW r \in Runs, crash(r) PROVE OwnerInv'
  BY <1>9 DEF crash, OwnerInv, SweepIsSafe, Active, Mine, TypeOK, job, ghost
<1>10. ASSUME NEW r \in Runs, finalize_fails(r) PROVE OwnerInv'
  BY <1>10 DEF finalize_fails, OwnerInv, SweepIsSafe, Active, Mine, TypeOK, job, ghost
<1>11. CASE reset_update_status
  <2>1. Active' = Active /\ fit' \subseteq fit
    BY <1>11 DEF reset_update_status, Active
  <2>2. fit' \cap Active' = {}
    BY <1>11, <2>1 DEF reset_update_status, OwnerInv, Mine
  <2>3. QED
    BY <1>11, <2>1, <2>2 DEF reset_update_status, OwnerInv, SweepIsSafe
<1>12. CASE tick
  <2>1. Active' = Active /\ fit' = fit /\ health' = health /\ sweptBy' = sweptBy
    BY <1>12 DEF tick, Active, ghost
  <2>2. \A r \in fit \cap Active : Mine(r)' /\ updated_at' <= 1
    <3> SUFFICES ASSUME NEW r \in fit \cap Active PROVE Mine(r)' /\ updated_at' <= 1
      OBVIOUS
    <3>1. Mine(r) /\ health[r] = "well" /\ r \in Runs
      BY DEF OwnerInv, Active
    <3>2. updated_at = 0
      BY <1>12, <3>1 DEF tick, Prompt
    <3>3. updated_at' = 1
      BY <1>12, <3>2, RunsAssumption DEF tick, Older
    <3>4. QED
      BY <1>12, <3>1, <3>3 DEF tick, Mine
  <2>3. QED
    BY <2>1, <2>2 DEF OwnerInv, SweepIsSafe
<1>13. QED
  BY <1>1, <1>2, <1>3, <1>4, <1>5, <1>6, <1>7, <1>8, <1>9, <1>10, <1>11, <1>12
     DEF Next, begin_update, begin_direct

LEMMA OwnerInit ==
  ASSUME Init
  PROVE  OwnerInv
BY DEF Init, OwnerInv, SweepIsSafe, Active, Mine

\* A run that never went silent and was never reset holds the job for as long as
\* it works, so no two such runs are at work at once (acquire, run_job).
THEOREM FitRunsOwn == Spec => []FitRunOwns
<1>1. Init => OwnerInv
  BY OwnerInit
<1>2. TypeOK /\ OwnerInv /\ [Next]_vars => OwnerInv'
  BY OwnerStep
<1>3. OwnerInv => FitRunOwns
  BY DEF OwnerInv, FitRunOwns
<1>4. QED
  BY <1>1, <1>2, <1>3, TypeInvariant, PTL DEF Spec

\* No run deletes the directory of another while neither has gone silent nor
\* been reset (_cleanup_orphan_temp_dirs).
THEOREM SweepsAreSafe == Spec => []SweepIsSafe
<1>1. Init => OwnerInv
  BY OwnerInit
<1>2. TypeOK /\ OwnerInv /\ [Next]_vars => OwnerInv'
  BY OwnerStep
<1>3. OwnerInv => SweepIsSafe
  BY DEF OwnerInv
<1>4. QED
  BY <1>1, <1>2, <1>3, TypeInvariant, PTL DEF Spec

(* ---- The row is a lease ---- *)

Owner == IF status = "running" THEN run_token ELSE Null
Lapsed == status = "running" /\ updated_at > StaleSeconds

\* A running job is somebody's.
Held == status = "running" => run_token \in Runs

LEMMA HeldStep ==
  ASSUME TypeOK, Held, [Next]_vars
  PROVE  Held'
BY DEF Held, Next, acquire, heartbeat, finalize, begin_update, begin_direct, Begin,
       end_work, fall_ill, wake, crash, finalize_fails, reset_update_status, tick, vars, job

\* The lease's three variables are left alone.
LEMMA Stutter ==
  ASSUME UNCHANGED Owner, UNCHANGED Lapsed, UNCHANGED Active
  PROVE  UNCHANGED Lock!vars
BY DEF Lock!vars, Owner, Lapsed

LEMMA LeaseStep ==
  ASSUME TypeOK, Held, [Next]_vars
  PROVE  [Lock!Next]_(Lock!vars)
<1> USE StaleAssumption, RunsAssumption
<1>1. CASE UNCHANGED vars
  BY <1>1, Stutter DEF vars, job, Owner, Lapsed, Active
<1>2. ASSUME NEW r \in Runs, acquire(r) PROVE Lock!Grant(r)
  <2>1. Active' = Active \cup {r} /\ r \notin Active
    BY <1>2 DEF acquire, Active, TypeOK
  <2>2. Owner' = r /\ ~Lapsed'
    BY <1>2 DEF acquire, Owner, Lapsed
  <2>3. Owner = Null \/ Lapsed
    BY <1>2 DEF acquire, Claimable, Owner, Lapsed
  <2>4. QED
    BY <2>1, <2>2, <2>3 DEF Lock!Grant, Lock!Free, Owner, Lapsed
<1>3. ASSUME NEW r \in Runs, heartbeat(r) PROVE Lock!Renew(r) \/ UNCHANGED Lock!vars
  <2>1. Active' = Active /\ r \in Active
    BY <1>3 DEF heartbeat, Active
  <2>2. CASE Mine(r)
    <3>1. Owner = r /\ Owner' = r /\ ~Lapsed'
      BY <1>3, <2>2 DEF heartbeat, Mine, Owner, Lapsed
    <3>2. QED
      BY <2>1, <3>1 DEF Lock!Renew, Owner, Lapsed
  <2>3. CASE ~Mine(r)
    BY <1>3, <2>1, <2>3, Stutter DEF heartbeat, Owner, Lapsed
  <2>4. QED
    BY <2>2, <2>3
<1>4. ASSUME NEW r \in Runs, NEW result \in {"done", "error"}, finalize(r, result)
      PROVE  Lock!Return(r)
  <2>1. Active' = Active \ {r} /\ r \in Active
    BY <1>4 DEF finalize, Active, TypeOK
  <2>2. CASE Mine(r)
    <3>1. Owner = r /\ Owner' = Null /\ ~Lapsed'
      BY <1>4, <2>2 DEF finalize, Mine, Owner, Lapsed
    <3>2. QED
      BY <2>1, <3>1 DEF Lock!Return, Owner, Lapsed
  <2>3. CASE ~Mine(r)
    <3>1. Owner' = Owner /\ Lapsed' = Lapsed
      BY <1>4, <2>3 DEF finalize, Owner, Lapsed
    <3>2. Owner # r
      BY <2>3 DEF Owner, Mine
    <3>3. QED
      BY <2>1, <3>1, <3>2 DEF Lock!Return, Owner, Lapsed
  <2>4. QED
    BY <2>2, <2>3
<1>5. ASSUME NEW r \in Runs, NEW swept, Begin(r, swept) PROVE UNCHANGED Lock!vars
  BY <1>5, Stutter DEF Begin, Owner, Lapsed, Active, TypeOK, job
<1>6. ASSUME NEW r \in Runs, end_work(r) PROVE UNCHANGED Lock!vars
  BY <1>6, Stutter DEF end_work, Owner, Lapsed, Active, TypeOK, job
<1>7. ASSUME NEW r \in Runs, NEW how \in {"mute", "hung"}, fall_ill(r, how)
      PROVE  UNCHANGED Lock!vars
  BY <1>7, Stutter DEF fall_ill, Owner, Lapsed, Active, job
<1>8. ASSUME NEW r \in Runs, wake(r) PROVE UNCHANGED Lock!vars
  BY <1>8, Stutter DEF wake, Owner, Lapsed, Active, job
<1>9. ASSUME NEW r \in Runs, crash(r) \/ finalize_fails(r) PROVE Lock!Die(r)
  <2>1. Active' = Active \ {r} /\ r \in Active
    BY <1>9 DEF crash, finalize_fails, Active, TypeOK
  <2>2. Owner' = Owner /\ Lapsed' = Lapsed
    BY <1>9 DEF crash, finalize_fails, Owner, Lapsed, job
  <2>3. QED
    BY <2>1, <2>2 DEF Lock!Die, Owner, Lapsed
<1>10. ASSUME reset_update_status PROVE Lock!Reset
  <2>1. Active' = Active /\ Owner' = Null /\ ~Lapsed'
    BY <1>10 DEF reset_update_status, Active, Owner, Lapsed
  <2>2. QED
    BY <2>1 DEF Lock!Reset, Owner, Lapsed
<1>11. ASSUME tick PROVE Lock!Lapse \/ UNCHANGED Lock!vars
  <2>1. Active' = Active /\ Owner' = Owner
    BY <1>11 DEF tick, Active, Owner
  <2>2. Lapsed => Lapsed'
    BY <1>11 DEF tick, Lapsed, Older
  <2>3. CASE Lapsed \/ ~Lapsed'
    <3>1. Lapsed' = Lapsed
      BY <2>2, <2>3 DEF Lapsed
    <3>2. QED
      BY <2>1, <3>1, Stutter
  <2>4. CASE Lapsed' /\ ~Lapsed
    <3>1. Owner # Null
      BY <1>11, <2>4 DEF tick, Lapsed, Held, Owner
    <3>2. QED
      BY <2>1, <2>4, <3>1 DEF Lock!Lapse, Owner, Lapsed
  <2>5. QED
    BY <2>2, <2>3, <2>4
<1>12. QED
  BY <1>1, <1>2, <1>3, <1>4, <1>5, <1>6, <1>7, <1>8, <1>9, <1>10, <1>11
     DEF Next, begin_update, begin_direct, Lock!Next

\* The update_job row implements the lease: whatever hangs, crashes or is reset,
\* only the run that holds it gives it back or keeps it warm.
THEOREM JobIsALease == Spec => IsALease
<1>1. Init => Lock!Init
  BY DEF Init, Lock!Init, Active
<1>2. Init => Held
  BY DEF Init, Held
<1>3. TypeOK /\ Held /\ [Next]_vars => Held'
  BY HeldStep
<1>4. TypeOK /\ Held /\ [Next]_vars => [Lock!Next]_(Lock!vars)
  BY LeaseStep
<1>5. QED
  BY <1>1, <1>2, <1>3, <1>4, TypeInvariant, PTL DEF Spec, IsALease, Lock!Spec

(* ---------------- The archive ---------------- *)

USE DEF CalendarAssumption, ArchiveAssumption

\* The exports reach to hours, and so does what the engines have unpacked of them.
ExportsOK ==
  /\ exports \in Seq([Lines -> Hours]) /\ Len(exports) <= MaxExports
  /\ unread \subseteq DOMAIN exports /\ run \subseteq DOMAIN exports
  /\ \A t \in tasks : t.files \in [Lines -> Hours]

\* The rows stored are of hours, and the clock stands at one.
RowsOK ==
  /\ now \in Hours
  /\ \A l \in Lines : DOMAIN rows[l] \subseteq Hours

\* A line's changes are stored as far as `known` says, whichever engine failed and
\* whatever was cleared.
StoredAsKnown ==
  /\ log \in Logs
  /\ known \in [Lines -> Hours]
  /\ \A l \in Lines :
       /\ edits[l] \subseteq DOMAIN log[l]
       /\ \A i \in DOMAIN log[l] : log[l][i].at < known[l] => i \in edits[l]

ArchiveInv == ExportsOK /\ RowsOK /\ StoredAsKnown

\* A set of naturals that is not empty has a least member.
LEMMA LeastOf ==
  ASSUME NEW S \in SUBSET Nat, S # {}
  PROVE  \E x \in S : \A y \in S : x <= y
<1>1. PICK x \in S : \A y \in S : ~ (<<y, x>> \in OpToRel(<, Nat))
  BY WFMin, NatLessThanWellFounded
<1>2. ASSUME NEW y \in S PROVE x <= y
  <2>1. x \in Nat /\ y \in Nat
    OBVIOUS
  <2>2. y < x => <<y, x>> \in OpToRel(<, Nat)
    BY <2>1, Zenon DEF OpToRel
  <2>3. ~ (y < x)
    BY <1>1, <2>2, Zenon
  <2>4. QED
    BY <2>1, <2>3
<1>3. QED
  BY <1>2

\* Of a batch there is a file that reaches furthest for a line.
LEMMA LargestFile ==
  ASSUME ExportsOK, NEW batch \in SUBSET DOMAIN exports, batch # {}, NEW l \in Lines
  PROVE  \E i \in batch : \A j \in batch : exports[j][l] <= exports[i][l]
<1> DEFINE left == {Clock - exports[i][l] : i \in batch}
<1>1. \A i \in batch : exports[i][l] \in 0 .. Clock
  BY DEF ExportsOK, Hours
<1>2. left \in SUBSET Nat /\ left # {}
  BY <1>1, ArchiveAssumption
<1>3. PICK x \in left : \A y \in left : x <= y
  BY <1>2, LeastOf
<1>4. PICK i \in batch : x = Clock - exports[i][l]
  BY <1>3
<1>5. ASSUME NEW j \in batch PROVE exports[j][l] <= exports[i][l]
  <2>1. Clock - exports[i][l] <= Clock - exports[j][l]
    BY <1>3, <1>4
  <2>2. exports[i][l] \in Int /\ exports[j][l] \in Int /\ Clock \in Int
    BY <1>1, ArchiveAssumption
  <2>3. QED
    BY <2>1, <2>2
<1>6. QED
  BY <1>5

LEMMA UnzippedOK ==
  ASSUME ExportsOK, NEW batch \in SUBSET DOMAIN exports, batch # {}
  PROVE  unzip_files(batch) \in [Lines -> Hours]
<1> SUFFICES ASSUME NEW l \in Lines PROVE unzip_files(batch)[l] \in Hours
  BY DEF unzip_files
<1> DEFINE i == CHOOSE i \in batch : \A j \in batch : exports[j][l] <= exports[i][l]
<1>1. i \in batch
  BY LargestFile
<1>2. exports[i][l] \in Hours
  BY <1>1 DEF ExportsOK
<1>3. QED
  BY <1>2 DEF unzip_files

LEMMA ExportKeeps ==
  ASSUME ArchiveInv, NEW called, NEW moment \in Hours, export(called, moment)
  PROVE  ArchiveInv'
<1>1. RowsOK' /\ StoredAsKnown'
  BY DEF export, ArchiveInv, RowsOK, StoredAsKnown, Hours
<1>2. \A l \in Lines : Reached(l) \in Hours
  <2>1. 0 \in Hours
    BY ArchiveAssumption DEF Hours
  <2>2. ASSUME exports # <<>> PROVE Last(exports) \in [Lines -> Hours]
    BY <2>2 DEF ArchiveInv, ExportsOK, Last
  <2>3. QED
    BY <2>1, <2>2 DEF Reached
<1> DEFINE file == [l \in Lines |-> IF l \in called THEN moment ELSE Reached(l)]
<1>3. file \in [Lines -> Hours]
  BY <1>2
<1>4. exports' = Append(exports, file) /\ Len(exports) < MaxExports
  BY DEF export
<1> HIDE DEF file
<1>5. exports' \in Seq([Lines -> Hours]) /\ Len(exports') = Len(exports) + 1
  BY <1>3, <1>4 DEF ArchiveInv, ExportsOK
<1>6. DOMAIN exports \subseteq DOMAIN exports' /\ Len(exports') \in DOMAIN exports'
  BY <1>5 DEF ArchiveInv, ExportsOK
<1>7. ExportsOK'
  <2>1. Len(exports') <= MaxExports
    BY <1>4, <1>5, ArchiveAssumption DEF ArchiveInv, ExportsOK
  <2>2. unread' = unread \cup {Len(exports')} /\ run' = run /\ tasks' = tasks
    BY DEF export
  <2>3. QED
    BY <1>5, <1>6, <2>1, <2>2 DEF ArchiveInv, ExportsOK, Hours
<1>8. QED
  BY <1>1, <1>7 DEF ArchiveInv

LEMMA UpdateKeeps ==
  ASSUME ArchiveInv, NEW batch \in SUBSET DOMAIN exports, update_hostlibs(batch)
  PROVE  ArchiveInv'
<1>1. RowsOK' /\ StoredAsKnown'
  BY DEF update_hostlibs, ArchiveInv, RowsOK, StoredAsKnown, Hours
<1>2. unzip_files(batch) \in [Lines -> Hours]
  BY UnzippedOK DEF update_hostlibs, ArchiveInv
<1>3. \A t \in tasks' : t.files \in [Lines -> Hours]
  BY <1>2 DEF update_hostlibs, ArchiveInv, ExportsOK
<1>4. ExportsOK'
  BY <1>3 DEF update_hostlibs, ArchiveInv, ExportsOK, Hours
<1>5. QED
  BY <1>1, <1>4 DEF ArchiveInv

LEMMA CommitKeeps ==
  ASSUME ArchiveInv, NEW t \in tasks, commit(t)
  PROVE  ArchiveInv'
<1>1. now' = now /\ log' = log
  BY DEF commit
<1>2. ExportsOK'
  BY DEF commit, ArchiveInv, ExportsOK, Hours
<1>3. CASE commit_hourly(t)
  <2>1. edits' = edits /\ known' = known
    BY <1>3 DEF commit_hourly
  <2>2. ASSUME NEW l \in Lines PROVE DOMAIN rows'[l] \subseteq Hours
    <3>1. rows'[l] = bulk_upsert_via_copy(l, t.files[l])
      BY <1>3 DEF commit_hourly
    <3>2. DOMAIN rows'[l] = DOMAIN rows[l] \cup FileHours(t.files[l])
      BY <3>1 DEF bulk_upsert_via_copy
    <3>3. QED
      BY <3>2 DEF FileHours, ArchiveInv, RowsOK
  <2>3. QED
    BY <1>1, <1>2, <2>1, <2>2 DEF ArchiveInv, RowsOK, StoredAsKnown, Hours
<1>4. CASE commit_edit(t)
  <2>1. rows' = rows
    BY <1>4 DEF commit_edit
  <2>2. ASSUME NEW l \in Lines
        PROVE  /\ known'[l] \in Hours
               /\ edits'[l] \subseteq DOMAIN log[l]
               /\ \A i \in DOMAIN log[l] : log[l][i].at < known'[l] => i \in edits'[l]
    <3>1. known'[l] = Most(known[l], t.files[l])
      BY <1>4 DEF commit_edit
    <3>2. edits'[l] = edits[l] \cup {j \in DOMAIN log[l] : log[l][j].at < t.files[l]}
      BY <1>4 DEF commit_edit
    <3>3. known[l] \in Hours /\ t.files[l] \in Hours
      BY DEF ArchiveInv, StoredAsKnown, ExportsOK
    <3>4. \A i \in DOMAIN log[l] :
            log[l][i].at < known'[l] => log[l][i].at < known[l] \/ log[l][i].at < t.files[l]
      BY <3>1 DEF Most
    <3>5. QED
      BY <3>1, <3>2, <3>3, <3>4 DEF ArchiveInv, StoredAsKnown, Most
  <2>3. known' \in [Lines -> Hours]
    BY <1>4, <2>2 DEF commit_edit
  <2>4. QED
    BY <1>1, <1>2, <2>1, <2>2, <2>3 DEF ArchiveInv, RowsOK, StoredAsKnown, Hours
<1>5. QED
  BY <1>3, <1>4 DEF commit

LEMMA PurgeKeeps ==
  ASSUME ArchiveInv, NEW lines, NEW since, NEW until, purge(lines, since, until)
  PROVE  ArchiveInv'
<1>1. now' = now /\ log' = log
  BY DEF purge
<1>2. ExportsOK'
  BY DEF purge, ArchiveInv, ExportsOK, Hours
<1>3. ASSUME NEW l \in Lines PROVE DOMAIN rows'[l] \subseteq DOMAIN rows[l]
  BY DEF purge
<1>4. known' \in [Lines -> Hours]
  <2>1. 0 \in Hours
    BY ArchiveAssumption DEF Hours
  <2>2. QED
    BY <2>1 DEF purge, ArchiveInv, StoredAsKnown
<1>5. ASSUME NEW l \in Lines PROVE edits'[l] \subseteq edits[l]
  BY DEF purge
<1>6. ASSUME NEW l \in Lines, NEW i \in DOMAIN log[l], log[l][i].at < known'[l]
      PROVE  i \in edits'[l]
  <2>1. CASE l \in lines
    <3>1. known'[l] = 0
      BY <2>1 DEF purge
    <3>2. log[l][i].at \in Nat
      BY ArchiveAssumption DEF ArchiveInv, StoredAsKnown
    <3>3. QED
      BY <1>6, <3>1, <3>2
  <2>2. CASE l \notin lines
    BY <1>6, <2>2 DEF purge, ArchiveInv, StoredAsKnown
  <2>3. QED
    BY <2>1, <2>2
<1>7. QED
  BY <1>1, <1>2, <1>3, <1>4, <1>5, <1>6 DEF ArchiveInv, RowsOK, StoredAsKnown, Hours

LEMMA ArchiveStep ==
  ASSUME ArchiveInv, [ArchiveNext]_archive
  PROVE  ArchiveInv'
<1>1. CASE UNCHANGED archive
  BY <1>1 DEF archive, ArchiveInv, ExportsOK, RowsOK, StoredAsKnown, Hours
<1>2. ASSUME NEW called, NEW moment \in Hours, export(called, moment) PROVE ArchiveInv'
  BY <1>2, ExportKeeps
<1>3. ASSUME NEW batch \in {unread, DOMAIN exports}, update_hostlibs(batch) PROVE ArchiveInv'
  <2>1. batch \in SUBSET DOMAIN exports
    BY DEF ArchiveInv, ExportsOK
  <2>2. QED
    BY <1>3, <2>1, UpdateKeeps
<1>4. ASSUME NEW t \in tasks, commit(t) PROVE ArchiveInv'
  BY <1>4, CommitKeeps
<1>5. ASSUME NEW t \in tasks, NEW routed \in BOOLEAN, fail(t, routed) PROVE ArchiveInv'
  BY <1>5 DEF fail, ArchiveInv, ExportsOK, RowsOK, StoredAsKnown, Hours
<1>6. ASSUME NEW c \in Clearings, purge(c.lines, c.since, c.until) PROVE ArchiveInv'
  BY <1>6, PurgeKeeps
<1>7. QED
  BY <1>1, <1>2, <1>3, <1>4, <1>5, <1>6 DEF ArchiveNext

LEMMA ArchiveInvariant == ArchiveSpec => []ArchiveInv
<1>1. ArchiveInit => ArchiveInv
  <2> SUFFICES ASSUME ArchiveInit PROVE ArchiveInv
    OBVIOUS
  <2>1. \A l \in Lines : \A i \in DOMAIN log[l] : ~(log[l][i].at < 0)
    BY ArchiveAssumption DEF ArchiveInit
  <2>2. 0 \in Hours
    BY ArchiveAssumption DEF Hours
  <2>3. ExportsOK
    BY ArchiveAssumption DEF ArchiveInit, ExportsOK
  <2>4. RowsOK
    BY <2>2 DEF ArchiveInit, RowsOK, NoRows
  <2>5. StoredAsKnown
    BY <2>1, <2>2 DEF ArchiveInit, StoredAsKnown
  <2>6. QED
    BY <2>3, <2>4, <2>5 DEF ArchiveInv
<1>2. ArchiveInv /\ [ArchiveNext]_archive => ArchiveInv'
  BY ArchiveStep
<1>3. QED
  BY <1>1, <1>2, PTL DEF ArchiveSpec

\* The archive and what is read into it keep their types.
THEOREM ArchiveTypes == ArchiveSpec => []ArchiveTypeOK
<1>1. ArchiveInv => ArchiveTypeOK
  BY ArchiveAssumption DEF ArchiveInv, ExportsOK, RowsOK, StoredAsKnown, ArchiveTypeOK, Hours
<1>2. QED
  BY <1>1, ArchiveInvariant, PTL

LEMMA OpeningIsAMoment == \A day \in Int : Opening(day) \in Int
BY CalendarAssumption DEF Opening

\* Where a line is up to date, the report ends before what is known of the line
\* does, whatever the other lines hold.
LEMMA ReportEndsInTheKnown ==
  ASSUME ArchiveInv, NEW r \in Ranges, NEW l \in Lines, UpToDate(l)
  PROVE  /\ RangeTo(r) \in Int
         /\ \E h \in DOMAIN rows[l] : RangeTo(r) <= h + 2 /\ h + 2 <= known[l]
<1>1. PICK h \in DOMAIN rows[l] : (\A g \in Stored : g <= h) /\ h + 2 <= known[l]
  BY DEF UpToDate
<1>2. h \in Stored /\ Stored \subseteq Int
  BY DEF Stored, ArchiveInv, RowsOK, Hours
<1>3. now \in Int
  BY DEF ArchiveInv, RowsOK, Hours
<1> DEFINE last == CHOOSE u \in Stored : \A g \in Stored : g <= u
<1>4. last \in Stored /\ \A g \in Stored : g <= last
  BY <1>1, <1>2
<1> HIDE DEF last
<1>5. last = h
  <2>1. last <= h /\ h <= last /\ last \in Int /\ h \in Int
    BY <1>1, <1>2, <1>4
  <2>2. QED
    BY <2>1
<1>6. Horizon = Least(now, h + 2)
  BY <1>2, <1>5 DEF Horizon, last
<1>7. Horizon \in Int /\ Horizon <= h + 2
  BY <1>2, <1>3, <1>6 DEF Least
<1>8. Opening(r[2] + 1) \in Int
  <2>1. r[2] \in Int
    BY DEF Ranges, Days
  <2>2. QED
    BY <2>1, OpeningIsAMoment
<1>9. RangeTo(r) \in Int /\ RangeTo(r) <= h + 2
  BY <1>2, <1>7, <1>8 DEF RangeTo, Least
<1>10. QED
  BY <1>1, <1>9

\* A report gives no hour of a line that is up to date on a value that a change
\* still to be read replaces: its end is the archive's, and up to there every change
\* is stored, although hours and changes are committed apart, one engine may fail
\* without the other, and a stretch may be cleared between.
THEOREM NothingReportedChanges == ArchiveSpec => []ReportedIsFinal
<1>1. ArchiveInv => ReportedIsFinal
  <2> SUFFICES ASSUME ArchiveInv, NEW r \in Ranges, NEW l \in Lines, UpToDate(l),
                      NEW i \in DOMAIN log[l], log[l][i].at < RangeTo(r)
               PROVE  i \in edits[l]
    BY DEF ReportedIsFinal, Complete
  <2>1. PICK h \in DOMAIN rows[l] : RangeTo(r) <= h + 2 /\ h + 2 <= known[l]
    BY ReportEndsInTheKnown
  <2>2. h \in Int /\ RangeTo(r) \in Int
    BY ReportEndsInTheKnown DEF ArchiveInv, RowsOK, Hours
  <2>3. log[l][i].at \in Nat
    BY ArchiveAssumption DEF ArchiveInv, StoredAsKnown
  <2>4. known[l] \in Int
    BY DEF ArchiveInv, StoredAsKnown, Hours
  <2>5. log[l][i].at < known[l]
    BY <2>1, <2>2, <2>3, <2>4
  <2>6. QED
    BY <2>5 DEF ArchiveInv, StoredAsKnown
<1>2. QED
  BY <1>1, ArchiveInvariant, PTL
=============================================================================
