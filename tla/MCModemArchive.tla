--------------------------- MODULE MCModemArchive ---------------------------
(* A site, a DPD line and a corrector more than they need. *)
EXTENDS ModemArchive, TLC

CONSTANTS fitted, metering, spare

MCStanding == fitted :> Site @@ metering :> Line @@ spare :> Elsewhere
=============================================================================
