--------------------------- MODULE HostlibPoller ---------------------------
(***************************************************************************)
(* The file-arrival poller: archives that come and go on a network share,   *)
(* the log of those already read, and the runs that read them under the     *)
(* lock of the import job, which updates asked for by hand take too.        *)
(*                                                                         *)
(* A copy of a file has a version, standing for the size and the time that  *)
(* tell it from the copies before.  It is "whole", "cut" (it does not open  *)
(* as a zip) or "torn" (it opens, and breaks off while it is unpacked).     *)
(* Ages of log rows are in ticks, far longer than a poll: a file not        *)
(* written to for a tick has settled.                                       *)
(***************************************************************************)
EXTENDS Naturals

CONSTANTS
  Files, Paths,
  PathOf,       \* the path each file lies on
  None,
  RetryAfter,   \* RETRY_AFTER, in ticks
  ForgetAfter,  \* FORGET_AFTER, in ticks
  Kinds,        \* what copies may be like
  MaxCopies,    \* bound on copies, by file
  MaxTroubles   \* bound on failures, crashes, interruptions of the share and
                \* updates asked for by hand, together

ASSUME PollerAssumption ==
  /\ PathOf \in [Files -> Paths]
  /\ Kinds \subseteq {"whole", "torn", "cut"}
  /\ MaxCopies \in [Files -> Nat]
  /\ {RetryAfter, ForgetAfter, MaxTroubles} \subseteq Nat

VARIABLES
  share,      \* the copy of each file on the share, or None
  copies,     \* how many copies of each file there have been
  reachable,  \* paths whose files the share shows
  log,        \* hostlib_archive_log
  step, listing, pending, failed, grouped,  \* the poller
  owner, lapsed, active,                    \* the lock of the import job
  troubles,
  \* history
  read,       \* copies whose data is in the database
  known,      \* copies logged as read that have lain on the share ever since
  again,      \* copies of those the poller unpacked once more
  blamed      \* copies a failure the log keeps silent about struck

disk   == <<share, copies, reachable>>
poller == <<step, listing, pending, failed, grouped>>
lock   == <<owner, lapsed, active>>
ghost  == <<read, known, again, blamed>>
vars   == <<disk, log, poller, lock, troubles, ghost>>

Lock == INSTANCE Lease WITH Holders <- {"poller", "manual"}, Null <- None

Versions == UNION {1 .. MaxCopies[f] : f \in Files}
Copies == [version : Versions, kind : Kinds, settled : BOOLEAN]
Keys   == Files \X Versions
Row    == [key : Keys, status : {"ok", "error", "broken"}, age : 0 .. ForgetAfter + 1]
Steps  == {"idle", "listed", "scanned", "working", "ending", "logging"}

\* No file is not a copy of one.
ASSUME NoneAssumption == None \notin Copies

TypeOK ==
  /\ share \in [Files -> Copies \cup {None}]
  /\ copies \in [Files -> {0} \cup Versions]
  /\ reachable \subseteq Paths
  /\ log \subseteq Row
  /\ step \in Steps
  /\ listing \subseteq [key : Keys, settled : BOOLEAN]
  /\ pending \subseteq Keys
  /\ failed \subseteq Paths /\ grouped \subseteq Paths
  /\ Lock!TypeOK
  /\ troubles \in 0 .. MaxTroubles
  /\ read \subseteq Keys /\ known \subseteq Keys /\ again \subseteq Keys /\ blamed \subseteq Keys

Init ==
  /\ share = [f \in Files |-> None]
  /\ copies = [f \in Files |-> 0]
  /\ reachable = Paths
  /\ log = {}
  /\ step = "idle" /\ listing = {} /\ pending = {} /\ failed = {} /\ grouped = {}
  /\ Lock!Init
  /\ troubles = 0
  /\ read = {} /\ known = {} /\ again = {} /\ blamed = {}

-----------------------------------------------------------------------------
(* The share *)

Trouble == troubles < MaxTroubles /\ troubles' = troubles + 1

Key(f) == <<f, share[f].version>>
Visible(f) == share[f] # None /\ PathOf[f] \in reachable
Opens(f) == Visible(f) /\ share[f].kind # "cut"

\* The source writes a file, anew or over the copy that lay there.
copy(f, kind) ==
  /\ copies[f] < MaxCopies[f]
  /\ copies' = [copies EXCEPT ![f] = @ + 1]
  /\ share' = [share EXCEPT ![f] =
                 [version |-> copies'[f], kind |-> kind, settled |-> FALSE]]
  /\ known' = {k \in known : k[1] # f}
  /\ UNCHANGED <<reachable, log, poller, lock, troubles, read, again, blamed>>

\* It moves a file to its archive folders.
remove(f) ==
  /\ share[f] # None
  /\ share' = [share EXCEPT ![f] = None]
  /\ known' = {k \in known : k[1] # f}
  /\ UNCHANGED <<copies, reachable, log, poller, lock, troubles, read, again, blamed>>

blink(p) ==
  /\ p \in reachable
  /\ Trouble
  /\ reachable' = reachable \ {p}
  /\ UNCHANGED <<share, copies, log, poller, lock, ghost>>

remount(p) ==
  /\ p \notin reachable
  /\ reachable' = reachable \cup {p}
  /\ UNCHANGED <<share, copies, log, poller, lock, troubles, ghost>>

-----------------------------------------------------------------------------
(* _pending *)

\* _candidates, path by path, with the time each file was written.
list ==
  /\ step = "idle"
  /\ step' = "listed"
  /\ listing' = {[key |-> Key(f), settled |-> share[f].settled] : f \in {g \in Files : Visible(g)}}
  /\ UNCHANGED <<disk, log, pending, failed, grouped, lock, troubles, ghost>>

\* Newest row wins.
Newest(rows) == {r \in rows : \A s \in rows : s.key = r.key => r.age <= s.age}

Handled_Errors(key) ==  \* mutant: a failed update counts as handled
  \E r \in Newest(log) : r.key = key

\* Read, or broken, or a failed update still within RETRY_AFTER.
Handled(key) ==
  \E r \in Newest(log) : r.key = key /\ (r.status # "error" \/ r.age <= RetryAfter)

Wanted == {l.key : l \in {m \in listing : m.settled /\ ~Handled(m.key)}}

Forgotten_Aged ==  \* mutant: a row is dropped for its age alone
  {r \in Newest(log) : r.age > ForgetAfter}

\* Rows of files that left a folder which still lists something.
Forgotten ==
  LET here == {l.key[1] : l \in listing} IN
  {r \in Newest(log) : /\ \E f \in here : PathOf[f] = PathOf[r.key[1]]
                       /\ r.key[1] \notin here
                       /\ r.age > ForgetAfter}

\* zip_is_complete, _mark_broken and _forget_what_is_gone.
scan ==
  /\ step = "listed"
  /\ LET broken == {k \in Wanted : ~Opens(k[1])} IN
     /\ pending' = Wanted \ broken
     /\ log' = (log \ Forgotten) \cup
                 {[key |-> k, status |-> "broken", age |-> 0] : k \in broken}
     /\ blamed' = blamed \cup {k \in broken : PathOf[k[1]] \notin reachable}
  /\ step' = IF pending' = {} THEN "idle" ELSE "scanned"
  /\ listing' = {}
  /\ UNCHANGED <<disk, failed, grouped, lock, troubles, read, known, again>>

-----------------------------------------------------------------------------
(* poll_once *)

\* run_guarded_update: if somebody holds the lock, the same archives are
\* pending on the next poll.
acquire ==
  /\ step = "scanned"
  /\ IF Lock!Free
     THEN Lock!Grant("poller") /\ step' = "working" /\ UNCHANGED pending
     ELSE step' = "idle" /\ pending' = {} /\ UNCHANGED lock
  /\ failed' = {} /\ grouped' = {}
  /\ UNCHANGED <<disk, log, listing, troubles, ghost>>

PendingOn(p) == {k \in pending : PathOf[k[1]] = p}

\* What a run unpacks on a path: the archives named for it, or, where none are
\* named, all of them.
Targets(p) ==
  IF PendingOn(p) # {} THEN {k[1] : k \in PendingOn(p)}
                       ELSE {f \in Files : PathOf[f] = p /\ share[f] # None}

Unpacked(p) == {Key(f) : f \in {g \in Targets(p) : Visible(g) /\ share[g].kind = "whole"}}

\* _process_path_group.  The path is gone; or the engines read what could be
\* unpacked; or one of them fails, which only the routed mode reports.
path_missing(p) ==
  /\ p \notin reachable
  /\ failed' = failed \cup {p}
  /\ UNCHANGED <<troubles, read, again, blamed>>

ingest(p) ==
  /\ read' = read \cup Unpacked(p)
  /\ again' = again \cup (Unpacked(p) \cap known)
  /\ blamed' = IF p \in reachable THEN blamed ELSE blamed \cup PendingOn(p)
  /\ UNCHANGED <<failed, troubles>>

engine_fails(p, routed) ==
  /\ Trouble
  /\ failed' = IF routed THEN failed \cup {p} ELSE failed
  /\ blamed' = IF routed THEN blamed ELSE blamed \cup PendingOn(p)
  /\ UNCHANGED <<read, again>>

process_path_group(p) ==
  /\ step = "working" /\ p \notin grouped
  /\ path_missing(p) \/ ingest(p) \/ \E routed \in BOOLEAN : engine_fails(p, routed)
  /\ grouped' = grouped \cup {p}
  /\ step' = IF grouped' = Paths THEN "ending" ELSE "working"
  /\ UNCHANGED <<disk, log, listing, pending, lock, known>>

\* An error outside the groups: run_job keeps it to itself.
update_raises ==
  /\ step = "working" /\ grouped = {}
  /\ Trouble
  /\ blamed' = blamed \cup pending
  /\ step' = "ending"
  /\ UNCHANGED <<disk, log, listing, pending, failed, grouped, lock, read, known, again>>

\* finalize, which may fail.
finalize ==
  /\ step = "ending"
  /\ \/ Lock!Return("poller") /\ UNCHANGED troubles
     \/ Lock!Die("poller") /\ Trouble
  /\ step' = "logging"
  /\ UNCHANGED <<disk, log, listing, pending, failed, grouped, ghost>>

log_status_NoPath(key) == "ok"  \* mutant: failed paths are logged like the others

log_status(key) == IF PathOf[key[1]] \in failed THEN "error" ELSE "ok"

\* _log: the rows of a file are replaced.
log_ ==
  /\ step = "logging"
  /\ log' = {r \in log : \A k \in pending : k[1] # r.key[1]} \cup
              {[key |-> k, status |-> log_status(k), age |-> 0] : k \in pending}
  /\ known' = known \cup
       {k \in pending : log_status(k) = "ok" /\ share[k[1]] # None /\ Key(k[1]) = k}
  /\ step' = "idle" /\ pending' = {}
  /\ UNCHANGED <<disk, listing, failed, grouped, lock, troubles, read, again, blamed>>

\* The scheduler process dies and is started again.
crash ==
  /\ step # "idle"
  /\ Trouble
  /\ step' = "idle" /\ listing' = {} /\ pending' = {} /\ failed' = {} /\ grouped' = {}
  /\ IF "poller" \in active THEN Lock!Die("poller") ELSE UNCHANGED lock
  /\ UNCHANGED <<disk, log, ghost>>

-----------------------------------------------------------------------------
(* The other users of the lock *)

manual_begin ==
  /\ Lock!Grant("manual")
  /\ Trouble
  /\ UNCHANGED <<disk, log, poller, ghost>>

\* It reads everything on every path, or fails, or dies.
manual_end ==
  /\ Lock!Return("manual") \/ Lock!Die("manual")
  /\ \/ read' = read \cup {Key(f) : f \in {g \in Files : Visible(g) /\ share[g].kind = "whole"}}
     \/ UNCHANGED read
  /\ UNCHANGED <<disk, log, poller, troubles, known, again, blamed>>

\* The heartbeat of a dead run grows stale; that of a live one may too.
lapse ==
  /\ ~lapsed
  /\ Lock!Lapse
  /\ IF owner \in active THEN Trouble ELSE UNCHANGED troubles
  /\ UNCHANGED <<disk, log, poller, ghost>>

Older(age) == IF age > ForgetAfter THEN age ELSE age + 1

tick ==
  /\ log' = {[r EXCEPT !.age = Older(@)] : r \in log}
  /\ share' = [f \in Files |-> IF share[f] = None THEN None
                               ELSE [share[f] EXCEPT !.settled = TRUE]]
  /\ UNCHANGED <<copies, reachable, poller, lock, troubles, ghost>>

PollerNext ==
  \/ list \/ scan \/ acquire
  \/ \E p \in Paths : process_path_group(p)
  \/ update_raises \/ finalize \/ log_

Next ==
  \/ \E f \in Files : (\E kind \in Kinds : copy(f, kind)) \/ remove(f)
  \/ \E p \in Paths : blink(p) \/ remount(p)
  \/ PollerNext \/ crash
  \/ manual_begin \/ manual_end \/ lapse \/ tick

Spec == Init /\ [][Next]_vars

\* The poller loops, clocks run, a share comes back, a run ends or goes stale.
Fairness ==
  /\ WF_vars(PollerNext) /\ WF_vars(manual_end) /\ WF_vars(lapse) /\ WF_vars(tick)
  /\ \A p \in Paths : WF_vars(remount(p))

FairSpec == Spec /\ Fairness

-----------------------------------------------------------------------------
(* Properties *)

Lying(key) == share[key[1]] # None /\ Key(key[1]) = key
Whole(key) == Lying(key) /\ share[key[1]].kind = "whole"

\* Logged as done only where the update succeeded (poll_once).
LoggedIsRead == \A r \in log : r.status = "ok" /\ Whole(r.key) => r.key \in read

\* An archive that is in the log is not read again while it lies on the share
\* (the head of scheduler_runner.py).  This fails where archives lie on several paths.
ReadOnce == again = {}

\* It is not read again, with that one exception: a run that has new archives in some folders names
\* none in the others, and no names mean all of them.  The log itself, its ages, the
\* forgetting of its rows, failed runs and crashes give none out twice.
AgainElsewhere == [][\A k \in again' \ again : PendingOn(PathOf[k[1]]) = {} /\ pending # {}]_vars

\* The log shuts out a whole copy that was never read only when the share was
\* away, a run failed as a whole, or an engine failed outside the routed mode.
OnlyBlamedAreShutOut ==
  \A r \in log : r.status # "error" /\ Whole(r.key) => r.key \in read \cup blamed

\* Every whole archive left on the share is read in the end, through crashes,
\* failed runs and updates asked for by hand, unless one of those failures
\* struck it (poll_once, acquire).
Unread(f) == Whole(Key(f)) /\ Key(f) \notin read \cup blamed
EveryArchiveIsRead == \A f \in Files : []<>(share[f] # None => ~Unread(f))
=============================================================================
