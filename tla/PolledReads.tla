----------------------------- MODULE PolledReads -----------------------------
(***************************************************************************)
(* AttributePolling with a history of what each poll could have read: the  *)
(* attributes that answers left out, and the values the hardware held      *)
(* while it was being polled.  A history variable follows the steps of     *)
(* AttributePolling and constrains none of them.                           *)
(***************************************************************************)
EXTENDS AttributePolling

VARIABLES
    omitted,     \* attributes that the last answer about them left out
    held         \* held[a]: what the hardware held of a during the last poll

readVars == <<vars, omitted, held>>

ReadInit ==
    /\ Init
    /\ omitted = {}
    /\ held = [a \in Attr |-> {}]

\* The attributes asked for by an exchange that was answered, if this step is one.
Asked == IF pc = "poll" /\ pc' = "poll" THEN reads \ reads' ELSE {}

Built == pc = "drain" /\ pc' # "drain"

Polling == pc \in {"connect", "poll", "hung"}

ReadStep ==
    /\ omitted' = (omitted \ Asked) \cup {a \in Asked : response'[a] = None}
    /\ held' = [a \in Attr |-> IF Built THEN {hw[a]}
                               ELSE IF Polling THEN held[a] \cup {hw'[a]}
                               ELSE held[a]]

ReadNext == Next /\ ReadStep

ReadSpec == ReadInit /\ [][ReadNext]_readVars

-----------------------------------------------------------------------------
\* Between polls no client reads ATTR_INVALID while communication is
\* ESTABLISHED, except of an attribute that the hardware left out of its last
\* answer: an attribute without a value is asked for by every poll, whatever its
\* period, because poll_failed(), a restart and an answer without its value keep
\* _last_polled and _component_state consistent.
InvalidOnlyIfOmitted ==
    comm = "ESTABLISHED" /\ pc \in {"sleep", "drain"} =>
        \A a \in Attr : value[a] # None \/ a \in omitted

\* An attribute polled every time shows, when a poll has been reported, what the
\* hardware held at some moment of that poll, unless the hardware left it out of
\* the answer: never what it held before the poll was requested, and never what a
\* client has written and the hardware has refused or not yet done.
CacheCoherent ==
    comm = "ESTABLISHED" /\ pc = "sleep" =>
        \A a \in Attr : Period[a] = 0 => value[a] \in held[a] \/ a \in omitted
==============================================================================
