---------------------------- MODULE RelayExchange ----------------------------
(***************************************************************************)
(* What a poll of ProXRComponentManager takes for granted of an exchange   *)
(* with the relay board, without frames, streams and connections: it is    *)
(* about the relay that was asked about, a write that is answered has been *)
(* carried out, an answer to a read is true, and an exchange that fails    *)
(* has done what it was asked to do or nothing.  AttributePolling's        *)
(* ProXRWrite and ProXRRead are an Ask with what follows it.               *)
(***************************************************************************)
CONSTANTS Relay, None

VARIABLES
    relays,   \* relays[r]: whether relay r of the board is on
    asked,    \* what the client waits for: [relay, command], or None
    heard     \* what it was told last: [relay, status], or None

vars == <<relays, asked, heard>>

Init ==
    /\ relays = [r \in Relay |-> FALSE]
    /\ asked = None
    /\ heard = None

\* command: the value to write, or None to read.
Ask(r, command) ==
    /\ asked = None
    /\ asked' = [relay |-> r, command |-> command]
    /\ heard' = None
    /\ UNCHANGED relays

Switch ==
    /\ asked # None
    /\ asked.command # None
    /\ relays' = [relays EXCEPT ![asked.relay] = asked.command]
    /\ UNCHANGED <<asked, heard>>

AnswerWrite ==
    /\ asked # None
    /\ asked.command # None
    /\ relays[asked.relay] = asked.command
    /\ asked' = None
    /\ heard' = None
    /\ UNCHANGED relays

AnswerRead ==
    /\ asked # None
    /\ asked.command = None
    /\ heard' = [relay |-> asked.relay, status |-> relays[asked.relay]]
    /\ asked' = None
    /\ UNCHANGED relays

Fail ==
    /\ asked' = None
    /\ heard' = None
    /\ UNCHANGED relays

Next ==
    \/ \E r \in Relay, command \in BOOLEAN \cup {None} : Ask(r, command)
    \/ Switch
    \/ AnswerWrite
    \/ AnswerRead
    \/ Fail

Spec == Init /\ [][Next]_vars
====
