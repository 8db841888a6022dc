------------------------- MODULE MCAttributePolling -------------------------
(* Instances of AttributePolling for TLC.                                  *)
EXTENDS AttributePolling, TLC

CONSTANTS a1, a2

MCAttr == {a1, a2}

\* a1 is read on every second poll or so, and nothing else keeps the link busy.
RarelyAndOnce == a1 :> 1 @@ a2 :> Inf

\* ProXRDevice gives every relay the poll rate as its period.
EveryPeriod == a1 :> 1 @@ a2 :> 1
====
