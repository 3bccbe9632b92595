------------------------------- MODULE Lease -------------------------------
(***************************************************************************)
(* What the lock of a long job promises: it is granted to one holder at a   *)
(* time, only its holder gives it back, and it passes to another without    *)
(* that only once the holder has gone silent or an administrator has taken  *)
(* it away.  A holder that lost it may still be at work.                    *)
(***************************************************************************)
CONSTANTS
  Holders,
  Null      \* nobody; not a holder

VARIABLES
  owner,   \* who holds the lease, or Null
  lapsed,  \* its owner has been silent for too long
  active   \* holders at work, whether or not the lease is still theirs

vars == <<owner, lapsed, active>>

TypeOK ==
  /\ owner \in Holders \cup {Null}
  /\ lapsed \in BOOLEAN
  /\ active \subseteq Holders

Init == owner = Null /\ lapsed = FALSE /\ active = {}

Free == owner = Null \/ lapsed

Grant(h) ==
  /\ h \notin active
  /\ Free
  /\ owner' = h /\ lapsed' = FALSE
  /\ active' = active \cup {h}

Renew(h) ==
  /\ h \in active /\ owner = h
  /\ lapsed' = FALSE
  /\ UNCHANGED <<owner, active>>

\* The lease of somebody else stays as it is.
Return(h) ==
  /\ h \in active
  /\ active' = active \ {h}
  /\ owner' = IF owner = h THEN Null ELSE owner
  /\ lapsed' = (lapsed /\ owner # h)

\* The holder dies, or fails to give the lease back: it stays granted.
Die(h) ==
  /\ h \in active
  /\ active' = active \ {h}
  /\ UNCHANGED <<owner, lapsed>>

Lapse ==
  /\ owner # Null
  /\ lapsed' = TRUE
  /\ UNCHANGED <<owner, active>>

Reset ==
  /\ owner' = Null /\ lapsed' = FALSE
  /\ UNCHANGED active

Next ==
  \/ \E h \in Holders : Grant(h) \/ Renew(h) \/ Return(h) \/ Die(h)
  \/ Lapse \/ Reset

Spec == Init /\ [][Next]_vars
=============================================================================
