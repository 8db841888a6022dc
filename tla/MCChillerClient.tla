--------------------------- MODULE MCChillerClient ---------------------------
(* An instance of ChillerClient for TLC: this chiller with one variable that is *)
(* an attribute, another chiller with the same one, and a variable without name. *)
EXTENDS ChillerClient

CONSTANTS chiller1, chiller2, state, hidden, ChillerState

MCKey == {<<chiller1, state>>, <<chiller2, state>>, <<chiller1, hidden>>}
MCDeviceName == [d \in {chiller1, chiller2} |-> d]
MCAttributeName == [k \in MCKey |-> IF k[2] = state THEN ChillerState ELSE None]
MCDetail == {ChillerState}
MCControlled == <<chiller1, state>>
====
