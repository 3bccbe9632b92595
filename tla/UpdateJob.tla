----------------------------- MODULE UpdateJob -----------------------------
(***************************************************************************)
(* The HOSTLIB import job: the update_job row that every process shares,    *)
(* the runs that claim it, and the temporary directories they unpack into.  *)
(*                                                                         *)
(* A run is one call of run_job, in an API worker or in the scheduler; its  *)
(* name is the token acquire gave it.  A running job beats every second and *)
(* a half; a tick is a large part of the stale window, so a run that is     *)
(* well has beaten since the last one.  A run may hang (its process stands  *)
(* still) or go mute (it works on while its heartbeats fail, for _beat      *)
(* swallows the error), and it may wake again.                              *)
(***************************************************************************)
EXTENDS Naturals

CONSTANTS
  Runs,          \* runs there may be, by token
  Null,
  StaleSeconds,  \* STALE_SECONDS, in ticks
  MaxTroubles    \* bound on hangs, failed writes, crashes and resets

ASSUME StaleAssumption == StaleSeconds \in Nat \ {0} /\ MaxTroubles \in Nat
ASSUME RunsAssumption == Null \notin Runs \cup Nat

VARIABLES
  status, run_token, updated_at,  \* the update_job row; its stamp is an age
  phase,                          \* how far each run is
  health,                         \* "well", "mute" or "hung"
  temp,                           \* age of each run's temporary directory, or Null
  troubles,
  \* history
  fit,                            \* runs that were never hung, mute or reset
  sweptBy                         \* the run that deleted a directory in use

job   == <<status, run_token, updated_at>>
ghost == <<fit, sweptBy>>
vars  == <<job, phase, health, temp, troubles, ghost>>

Ages == 0 .. StaleSeconds + 1
Active == {r \in Runs : phase[r] \in {"claimed", "working", "closing"}}

TypeOK ==
  /\ status \in {"idle", "running", "done", "error"}
  /\ run_token \in Runs \cup {Null}
  /\ updated_at \in Ages
  /\ phase \in [Runs -> {"new", "claimed", "working", "closing", "over", "dead"}]
  /\ health \in [Runs -> {"well", "mute", "hung"}]
  /\ temp \in [Runs -> Ages \cup {Null}]
  /\ troubles \in 0 .. MaxTroubles
  /\ fit \subseteq Runs
  /\ sweptBy \in [Runs -> Runs \cup {Null}]

Init ==
  /\ status = "idle" /\ run_token = Null /\ updated_at = 0
  /\ phase = [r \in Runs |-> "new"]
  /\ health = [r \in Runs |-> "well"]
  /\ temp = [r \in Runs |-> Null]
  /\ troubles = 0
  /\ fit = Runs
  /\ sweptBy = [r \in Runs |-> Null]

-----------------------------------------------------------------------------
(* update_job_lock *)

Claimable_Fresh ==  \* mutant: the comparison with the window the wrong way round
  status # "running" \/ updated_at < StaleSeconds

\* The WHERE clause of acquire.
Claimable == status # "running" \/ updated_at > StaleSeconds

acquire(r) ==
  /\ phase[r] = "new"
  /\ Claimable
  /\ status' = "running" /\ run_token' = r /\ updated_at' = 0
  /\ phase' = [phase EXCEPT ![r] = "claimed"]
  /\ UNCHANGED <<health, temp, troubles, ghost>>

\* The WHERE clause of heartbeat and finalize.
Mine(r) == status = "running" /\ run_token = r

heartbeat(r) ==
  /\ phase[r] = "working"
  /\ health[r] = "well"
  /\ updated_at' = IF Mine(r) THEN 0 ELSE updated_at
  /\ UNCHANGED <<status, run_token, phase, health, temp, troubles, ghost>>

finalize_ByStatus(r, result) ==  \* mutant: the row is matched by its status alone
  /\ phase[r] = "closing"
  /\ health[r] # "hung"
  /\ status' = IF status = "running" THEN result ELSE status
  /\ updated_at' = IF status = "running" THEN 0 ELSE updated_at
  /\ phase' = [phase EXCEPT ![r] = "over"]
  /\ UNCHANGED <<run_token, health, temp, troubles, ghost>>

finalize(r, result) ==
  /\ phase[r] = "closing"
  /\ health[r] # "hung"
  /\ status' = IF Mine(r) THEN result ELSE status
  /\ updated_at' = IF Mine(r) THEN 0 ELSE updated_at
  /\ phase' = [phase EXCEPT ![r] = "over"]
  /\ UNCHANGED <<run_token, health, temp, troubles, ghost>>

\* reset_update_status: the token stays on the row.
reset_update_status ==
  /\ troubles < MaxTroubles
  /\ status' = "idle" /\ updated_at' = 0
  /\ fit' = IF status = "running" THEN fit \ {run_token} ELSE fit
  /\ troubles' = troubles + 1
  /\ UNCHANGED <<run_token, phase, health, temp, sweptBy>>

-----------------------------------------------------------------------------
(* The work *)

\* _cleanup_orphan_temp_dirs deletes every directory that old, whoever uses it.
Orphans == {o \in Runs : temp[o] # Null /\ temp[o] >= StaleSeconds}

Begin(r, swept) ==
  /\ phase[r] = "claimed"
  /\ health[r] # "hung"
  /\ temp' = [o \in Runs |-> IF o = r THEN 0 ELSE IF o \in swept THEN Null ELSE temp[o]]
  /\ sweptBy' = [o \in Runs |-> IF o \in swept /\ phase[o] = "working" THEN r ELSE sweptBy[o]]
  /\ phase' = [phase EXCEPT ![r] = "working"]
  /\ UNCHANGED <<job, health, troubles, fit>>

\* update_hostlibs, and update_direct, which sweeps nothing.
begin_update(r) == Begin(r, Orphans)
begin_direct(r) == Begin(r, {})

\* The work ends, with or without an error; its directory goes with it.
end_work(r) ==
  /\ phase[r] = "working"
  /\ health[r] # "hung"
  /\ phase' = [phase EXCEPT ![r] = "closing"]
  /\ temp' = [temp EXCEPT ![r] = Null]
  /\ UNCHANGED <<job, health, troubles, ghost>>

-----------------------------------------------------------------------------
(* Troubles *)

Trouble == troubles < MaxTroubles /\ troubles' = troubles + 1

fall_ill(r, how) ==
  /\ r \in Active /\ health[r] = "well"
  /\ Trouble
  /\ health' = [health EXCEPT ![r] = how]
  /\ fit' = fit \ {r}
  /\ UNCHANGED <<job, phase, temp, sweptBy>>

wake(r) ==
  /\ r \in Active /\ health[r] # "well"
  /\ health' = [health EXCEPT ![r] = "well"]
  /\ UNCHANGED <<job, phase, temp, troubles, ghost>>

crash(r) ==
  /\ r \in Active
  /\ Trouble
  /\ phase' = [phase EXCEPT ![r] = "dead"]
  /\ UNCHANGED <<job, health, temp, ghost>>

\* "Failed to persist final job state": the run is over and the row says running.
finalize_fails(r) ==
  /\ phase[r] = "closing"
  /\ health[r] # "hung"
  /\ Trouble
  /\ phase' = [phase EXCEPT ![r] = "over"]
  /\ UNCHANGED <<job, health, temp, ghost>>

Older(age) == IF age = Null \/ age > StaleSeconds THEN age ELSE age + 1

\* A run that is well begins, beats and closes within a tick.
Prompt(r) ==
  r \in Active /\ health[r] = "well" =>
    phase[r] = "working" /\ (Mine(r) => updated_at = 0)

tick ==
  /\ \A r \in Runs : Prompt(r)
  /\ updated_at' = Older(updated_at)
  /\ temp' = [r \in Runs |-> Older(temp[r])]
  /\ UNCHANGED <<status, run_token, phase, health, troubles, ghost>>

Next ==
  \/ \E r \in Runs :
       \/ acquire(r) \/ heartbeat(r)
       \/ \E result \in {"done", "error"} : finalize(r, result)
       \/ begin_update(r) \/ begin_direct(r) \/ end_work(r)
       \/ \E how \in {"mute", "hung"} : fall_ill(r, how)
       \/ wake(r) \/ crash(r) \/ finalize_fails(r)
  \/ reset_update_status
  \/ tick

Spec == Init /\ [][Next]_vars

-----------------------------------------------------------------------------
(* Properties *)

\* A run that never went silent and was never reset still holds the job, so no
\* two such runs are at work at once (acquire, run_job).
FitRunOwns == \A r \in fit \cap Active : Mine(r)

\* A directory in use is only deleted by, or under, a run that went silent or
\* was reset (_cleanup_orphan_temp_dirs).
SweepIsSafe == \A r \in Runs : sweptBy[r] # Null => ~({r, sweptBy[r]} \subseteq fit)

\* The row is a lease: a run that lost it can neither give it back nor renew it.
Lock == INSTANCE Lease WITH
  Holders <- Runs,
  owner   <- IF status = "running" THEN run_token ELSE Null,
  lapsed  <- status = "running" /\ updated_at > StaleSeconds,
  active  <- Active
IsALease == Lock!Spec
=============================================================================
