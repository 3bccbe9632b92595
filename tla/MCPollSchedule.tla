--------------------------- MODULE MCPollSchedule ---------------------------
(* Schedules for TLC: slots a day of five ticks apart, at one hour or another. *)
EXTENDS PollSchedule

Daily == {{0, 5}, {1, 6}}
=============================================================================
