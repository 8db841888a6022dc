---------------------------- MODULE MCPolledReads ----------------------------
(* Instances of PolledReads for TLC.                                       *)
EXTENDS PolledReads, TLC

CONSTANTS a1, a2

MCAttr == {a1, a2}

\* a1 is read on every poll, a2 once and whenever it is written: the default
\* and the ".inf" of the device definitions.
AlwaysAndOnce == a1 :> 0 @@ a2 :> Inf
====
