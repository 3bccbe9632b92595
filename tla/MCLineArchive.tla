--------------------------- MODULE MCLineArchive ---------------------------
EXTENDS LineArchive

C(at, old, new) == [at |-> at, old |-> old, new |-> new]

\* What the compared line logs: in the middle of an hour, on the hour, twice at one
\* moment, before the first day, with values nobody can read (9) among them.
ComparedLogs ==
  {<<C(1, 1, 2), C(4, 2, 3), C(4, 3, 1)>>, <<C(0, 1, 2), C(3, 2, 9), C(5, 9, 1)>>}

Baseline == {<<C(3, 2, 1)>>}

CLogs == {[l \in Lines |-> IF l \in References THEN b ELSE c] : b \in Baseline, c \in ComparedLogs}

\* A line that two rings share.
CRings == [main |-> {"ref", "line"}, side |-> {"line"}]

\* Everything of one line, a day of the whole route.
CClearings ==
  {[lines |-> {"line"}, since |-> 0, until |-> 1], [lines |-> Lines, since |-> 0, until |-> 0]}
=============================================================================
