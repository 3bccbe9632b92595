-------------------------- MODULE MCHostlibPoller --------------------------
(* A file on each of two paths, for TLC. *)
EXTENDS HostlibPoller, TLC

CONSTANTS f1, f2, p1, p2

TwoPaths == [f \in Files |-> IF f = f1 THEN p1 ELSE p2]
Recopied == [f \in Files |-> IF f = f1 THEN 2 ELSE 1]
=============================================================================
