---------------------------- MODULE MCUpdateJob ----------------------------
(* Three runs of the import job for TLC. *)
EXTENDS UpdateJob
=============================================================================
