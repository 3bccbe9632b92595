--------------------------- MODULE MCDpdRefresh ---------------------------
EXTENDS DpdRefresh, TLC

CONSTANTS a

MCBranch == [d \in Devices |-> IF d = a THEN 1 ELSE 2]
MCChosen == {<<0, 1>>, <<1, 1>>}
===========================================================================
