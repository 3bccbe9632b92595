--------------------------- MODULE MCPollSession ---------------------------
(* Small fleets for TLC. *)
EXTENDS PollSession, TLC

\* Agents that differ in nothing, and interchangeable transactions.
Symmetry == Permutations(Agents) \cup Permutations(Workers)
=============================================================================
