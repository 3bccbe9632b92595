------------------------- MODULE MCMeteringPoints -------------------------
(* Two points, two correctors, two days of two hours. *)
EXTENDS MeteringPoints, TLC

CONSTANTS d1, d2

Put(d, from, until) == [device |-> d, from |-> from, until |-> until]

\* Whole stays, stays that end, a replacement chained or written down, changes
\* inside a gas day, and stamps finer than an hour.
MCHistories == {
  <<Put(d1, 2, 6)>>, <<Put(d1, 6, Forever)>>,
  <<Put(d1, 2, Forever), Put(d2, 6, Forever)>>,
  <<Put(d2, 0, 4), Put(d1, 8, Forever)>>,
  <<Put(d1, 4, Forever), Put(d2, 5, Forever)>>,
  <<>> }

Symmetry == Permutations(Sessions)
===========================================================================
