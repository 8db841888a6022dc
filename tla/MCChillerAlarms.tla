--------------------------- MODULE MCChillerAlarms ---------------------------
(* Instances of ChillerAlarms for TLC.                                     *)
EXTENDS ChillerAlarms

CONSTANTS NoLink, Pump, Foreign, chiller1

MCKnown == {NoLink, Pump}
MCUnknown == {Foreign}
MCOthers == {chiller1}
====
