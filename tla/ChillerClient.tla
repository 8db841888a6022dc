---------------------------- MODULE ChillerClient ----------------------------
(***************************************************************************)
(* Values and commands of the MTA chiller device:                          *)
(*   mta_chiller_device/xweb_evo_client.py    XWebEvoClient                *)
(*   mta_chiller_device/utils.py              the transformations          *)
(*   mta_chiller_device/device_manager.py     datapoints and commands      *)
(*   mta_chiller_device/mta_chiller_device.py reads, writes, commands      *)
(*                                                                         *)
(* The monitor thread logs in, loads the configuration, opens a websocket  *)
(* and keeps the session.  The socket thread turns messages into the       *)
(* values that clients read.  The server first sends the values of all     *)
(* variables on a new websocket, and then what changes, on every websocket *)
(* it still has; a reconnection does not close the one before.  The Tango  *)
(* thread sends commands in the same session.  State, alarms and stopping  *)
(* are left to other modules.                                              *)
(***************************************************************************)
EXTENDS Integers, Sequences

CONSTANTS
    Key,            \* the variables of the server: <<device id, variable id>>
    DeviceName,     \* the configuration: the name of a device id
    AttributeName,  \* the name of a variable, None when it has none
    ChillerName,    \* the device_name property of this device
    Detail,         \* _attribute_details: names that have a format_fn
    Controlled,     \* the variable of this chiller that commands change
    None,           \* Python's None
    MaxChanges,     \* bound: changes of values, those by commands apart
    MaxCommands     \* bound: commands of clients

ASSUME ConstantsAssumption ==
    /\ Controlled \in Key
    /\ None \notin Detail
    /\ None \notin Nat
    /\ None \notin {"raised", "failed", "accepted", "refused"}
    /\ MaxChanges \in Nat
    /\ MaxCommands \in Nat

\* The server has one variable of each of these names for this chiller.
ASSUME VariablesAssumption ==
    \A n \in Detail : \E k \in Key : \A j \in Key :
        (DeviceName[j[1]] = ChillerName /\ AttributeName[j] = n) <=> j = k

Command == 1..MaxCommands

VARIABLES
    \* the server and the network
    up,          \* the server can be reached and answers within a minute
    value,       \* the value of every variable, numbered in order of changes
    plugin,      \* the user has the plugin that takes commands
    requests,    \* commands on their way: [command, valid session]
    done,        \* done[c]: times command c was carried out
    \* XWebEvoClient
    session,     \* _sses: none, or held and accepted or not by the server
    plgid,       \* _command_plgid is there
    devices,     \* the configuration, once it is loaded
    socket,      \* _socket: the server sends on it, messages not yet received
    \* the threads
    monitor,     \* where the monitor thread is
    reconnect,   \* reconnect_event
    thread,      \* where the socket thread is
    old,         \* the replaced websocket it still receives on, or None
    batch,       \* the datapoints of its message yet to be processed
    cache,       \* _attribute_cache, for Detail
    call,        \* the command the Tango thread is at, and where
    outcome,     \* outcome[c]: what the client of command c got
    \* history, not part of the code: actions read past only to number values
    past,        \* past[k]: all values k has had
    base,        \* the values when the current websocket was opened
    replaced,    \* batch comes from a websocket that was replaced since
    fresh        \* the first message of the current websocket was processed

server   == <<up, value, plugin, requests, done, past>>
client   == <<session, plgid, devices, socket, base>>
threads  == <<monitor, reconnect, thread, old, batch, cache, replaced, fresh>>
commands == <<call, outcome>>
vars == <<server, client, threads, commands>>

-----------------------------------------------------------------------------
NoMessage == [k \in {} |-> None]
NoSocket  == [live |-> FALSE, queue |-> <<>>]
NoCall    == [command |-> 0, at |-> "idle"]

Sent(s, message) == IF s # None /\ s.live THEN [s EXCEPT !.queue = Append(@, message)] ELSE s

\* transform_to_credentials(): the session, and the plugin among the user's.
Credentials == [sses |-> "valid", plgid |-> plugin]

\* transform_to_config(): the names of a device and of its variable, by their ids.
Config == [k \in Key |-> [device |-> DeviceName[k[1]], attribute |-> AttributeName[k]]]
NoDevices == [k \in {} |-> None]

\* transform_socket_message(): the datapoints that have a name.
Datapoints(message) ==
    [k \in {k \in DOMAIN message \cap DOMAIN devices : devices[k].attribute # None} |->
        message[k]]

\* Defect: any chiller's variable of that name is taken.
IsOwnByName(k) == devices[k].attribute \in Detail

\* A datapoint is this chiller's, and has an attribute.
IsOwn(k) == devices[k].device = ChillerName /\ devices[k].attribute \in Detail

\* lookup_device() and lookup_command(): None has no id.
LookupSucceeds == \E k \in DOMAIN devices : devices[k].device = ChillerName

Own(name) == CHOOSE k \in Key : DeviceName[k[1]] = ChillerName /\ AttributeName[k] = name

\* The read methods of the device: None is INVALID.
Readable(name) == cache[name] # None

-----------------------------------------------------------------------------
Init ==
    /\ up = TRUE
    /\ value = [k \in Key |-> 0]
    /\ requests = {}
    /\ done = [c \in Command |-> 0]
    /\ session = "none"
    /\ plgid = FALSE
    /\ devices = NoDevices
    /\ plugin \in BOOLEAN
    /\ socket = NoSocket
    /\ monitor = "wait"
    /\ reconnect = TRUE
    /\ thread = "check"
    /\ old = None
    /\ batch = NoMessage
    /\ cache = [n \in Detail |-> None]
    /\ call = NoCall
    /\ outcome = [c \in Command |-> None]
    /\ past = [k \in Key |-> {0}]
    /\ base = value
    /\ replaced = FALSE
    /\ fresh = FALSE

-----------------------------------------------------------------------------
(* The server and the network                                                *)

Stamps == UNION {past[k] : k \in Key}
Newest == CHOOSE n \in Stamps : \A m \in Stamps : m <= n

\* A variable gets a new value, of which every websocket is told.
Changes(k) ==
    LET message == [j \in {k} |-> Newest + 1]
    IN  /\ value' = [value EXCEPT ![k] = Newest + 1]
        /\ past' = [past EXCEPT ![k] = @ \cup {Newest + 1}]
        /\ socket' = Sent(socket, message)
        /\ old' = Sent(old, message)

VariableChanges(k) ==
    /\ Newest < MaxChanges
    /\ Changes(k)
    /\ UNCHANGED <<up, plugin, requests, done, session, plgid, devices, base, monitor,
                   reconnect, thread, batch, cache, replaced, fresh, commands>>

\* A websocket breaks; what was under way may be lost.
Breaks ==
    /\ \/ /\ socket.live
          /\ \E q \in {<<>>, socket.queue} : socket' = [live |-> FALSE, queue |-> q]
          /\ UNCHANGED old
       \/ /\ old # None /\ old.live
          /\ \E q \in {<<>>, old.queue} : old' = [live |-> FALSE, queue |-> q]
          /\ UNCHANGED socket
    /\ UNCHANGED <<server, session, plgid, devices, base, monitor, reconnect,
                   thread, batch, cache, replaced, fresh, commands>>

SessionExpires ==
    /\ session = "valid"
    /\ session' = "expired"
    /\ UNCHANGED <<server, plgid, devices, socket, base, threads, commands>>

UpFlips ==
    /\ up' = ~up
    /\ UNCHANGED <<value, plugin, requests, done, past, client, threads, commands>>

\* A command arrives, possibly when nobody waits for its answer any more; it
\* changes the chiller or, like muting the alarms, nothing that is modelled.
Executes(r) ==
    /\ r.valid
    /\ requests' = requests \ {r}
    /\ done' = [done EXCEPT ![r.command] = @ + 1]
    /\ \/ Changes(Controlled)
       \/ UNCHANGED <<value, past, socket, old>>
    /\ call' = IF call.command = r.command THEN [call EXCEPT !.at = "accepted"] ELSE call
    /\ UNCHANGED <<up, plugin, session, plgid, devices, base, monitor, reconnect, thread,
                   batch, cache, replaced, fresh, outcome>>

Refuses(r) ==
    /\ requests' = requests \ {r}
    /\ call' = IF call.command = r.command THEN [call EXCEPT !.at = "refused"] ELSE call
    /\ UNCHANGED <<up, value, plugin, done, past, client, threads, outcome>>

-----------------------------------------------------------------------------
(* The monitor thread                                                        *)

MonitorMoves(from, to) ==
    /\ monitor = from
    /\ monitor' = to
    /\ UNCHANGED <<server, thread, batch, cache, commands>>

\* Defect: a client that has a session does not log in again.
MonitorWakesNoLogin ==
    /\ MonitorMoves("wait", IF ~reconnect THEN "maintain"
                            ELSE IF devices # NoDevices THEN "open" ELSE "login")
    /\ UNCHANGED <<client, reconnect, old, replaced, fresh>>

\* The polling period is over: start() if asked to reconnect.
MonitorWakes ==
    /\ MonitorMoves("wait", IF reconnect THEN "login" ELSE "maintain")
    /\ UNCHANGED <<client, reconnect, old, replaced, fresh>>

Login ==
    /\ up
    /\ MonitorMoves("login", "config")
    /\ session' = Credentials.sses
    /\ plgid' = Credentials.plgid
    /\ UNCHANGED <<devices, socket, base, reconnect, old, replaced, fresh>>

LoadConfig ==
    /\ up
    /\ session = "valid"
    /\ MonitorMoves("config", "open")
    /\ devices' = Config
    /\ UNCHANGED <<session, plgid, socket, base, reconnect, old, replaced, fresh>>

\* Defect: messages not received yet are carried over to the new websocket.
OpenSocketCarryOver ==
    /\ up
    /\ MonitorMoves("open", "clear")
    /\ socket' = [live |-> TRUE, queue |-> <<value>> \o socket.queue]
    /\ base' = value
    /\ old' = IF thread = "recv" /\ old = None THEN socket ELSE old
    /\ replaced' = (thread = "process")
    /\ fresh' = FALSE
    /\ UNCHANGED <<session, plgid, devices, reconnect>>

\* A new websocket, on which all values come first.  If the socket thread is
\* in recv(), it stays there, on the one before.
OpenSocket ==
    /\ up
    /\ MonitorMoves("open", "clear")
    /\ socket' = [live |-> TRUE, queue |-> <<value>>]
    /\ base' = value
    /\ old' = IF thread = "recv" /\ old = None THEN socket ELSE old
    /\ replaced' = (thread = "process")
    /\ fresh' = FALSE
    /\ UNCHANGED <<session, plgid, devices, reconnect>>

ClearReconnect ==
    /\ MonitorMoves("clear", "alarms")
    /\ reconnect' = FALSE
    /\ UNCHANGED <<client, old, replaced, fresh>>

Maintain ==
    /\ up
    /\ session = "valid"
    /\ MonitorMoves("maintain", "alarms")
    /\ UNCHANGED <<client, reconnect, old, replaced, fresh>>

GetAlarms ==
    /\ up
    /\ session = "valid"
    /\ MonitorMoves("alarms", "wait")
    /\ UNCHANGED <<client, reconnect, old, replaced, fresh>>

\* Any of them fails for the network, or for the session where it needs one.
RequestFails ==
    /\ monitor \in {"login", "config", "open", "maintain", "alarms"}
    /\ ~up \/ (monitor \in {"config", "maintain", "alarms"} /\ session # "valid")
    /\ MonitorMoves(monitor, "wait")
    /\ reconnect' = TRUE
    /\ UNCHANGED <<client, old, replaced, fresh>>

\* An OSError of connect() is not caught.
OpenSocketKills ==
    /\ ~up
    /\ MonitorMoves("open", "dead")
    /\ UNCHANGED <<client, reconnect, old, replaced, fresh>>

-----------------------------------------------------------------------------
(* The socket thread                                                         *)

SocketMoves(from, to) ==
    /\ thread = from
    /\ thread' = to
    /\ UNCHANGED <<server, session, plgid, devices, base, monitor, commands>>

\* recieve_socket() takes the _socket of this moment.
Receives ==
    /\ ~reconnect
    /\ SocketMoves("check", "recv")
    /\ old' = None
    /\ UNCHANGED <<socket, reconnect, batch, cache, replaced, fresh>>

ReceivesMessage ==
    LET source == IF old = None THEN socket ELSE old
        points == Datapoints(Head(source.queue))
    IN  /\ up
        /\ source.queue # <<>>
        /\ SocketMoves("recv", IF points = NoMessage THEN "check" ELSE "process")
        /\ batch' = points
        /\ socket' = IF old = None THEN [socket EXCEPT !.queue = Tail(@)] ELSE socket
        /\ old' = None
        /\ replaced' = (old # None /\ points # NoMessage)
        /\ UNCHANGED <<reconnect, cache, fresh>>

\* The socket was closed, or nothing came for a minute.
ReceiveFails ==
    LET source == IF old = None THEN socket ELSE old
    IN  /\ ~up \/ source.queue = <<>>
        /\ SocketMoves("recv", "check")
        /\ reconnect' = TRUE
        /\ old' = None
        /\ UNCHANGED <<socket, batch, cache, replaced, fresh>>

\* _process_new_datapoint()
ProcessesDatapoint(k) ==
    LET rest == [j \in DOMAIN batch \ {k} |-> batch[j]]
    IN  /\ k \in DOMAIN batch
        /\ SocketMoves("process", IF rest = NoMessage THEN "check" ELSE "process")
        /\ cache' = IF IsOwn(k) THEN [cache EXCEPT ![devices[k].attribute] = batch[k]] ELSE cache
        /\ batch' = rest
        /\ replaced' = (replaced /\ rest # NoMessage)
        /\ fresh' = (fresh \/ (rest = NoMessage /\ ~replaced))
        /\ UNCHANGED <<socket, old, reconnect>>

\* A value the format function does not take, or a variable that is an alarm.
DatapointKills(k) ==
    /\ k \in DOMAIN batch
    /\ IsOwn(k)
    /\ SocketMoves("process", "dead")
    /\ batch' = NoMessage
    /\ replaced' = FALSE
    /\ UNCHANGED <<socket, old, reconnect, cache, fresh>>

-----------------------------------------------------------------------------
(* Commands, in the Tango thread                                             *)

\* Writing chiller_state, mute_alarms and reset_alarms.  Before the configuration
\* is there, nothing is found, and the client gets the exception.
LookUp(c) ==
    /\ call = NoCall
    /\ outcome[c] = None
    /\ \A b \in Command : b < c => outcome[b] # None
    /\ IF LookupSucceeds
       THEN call' = [command |-> c, at |-> "send"] /\ UNCHANGED outcome
       ELSE outcome' = [outcome EXCEPT ![c] = "raised"] /\ UNCHANGED call
    /\ UNCHANGED <<server, client, threads>>

\* send_command() in the session of this moment.
SendCommand ==
    /\ call.at = "send"
    /\ plgid
    /\ call' = [call EXCEPT !.at = "waiting"]
    /\ requests' = IF up
                   THEN requests \cup {[command |-> call.command, valid |-> session = "valid"]}
                   ELSE requests
    /\ UNCHANGED <<up, value, plugin, done, past, client, threads, outcome>>

\* Without the plugin an assertion fails, which the client gets too.
CannotSend ==
    /\ call.at = "send"
    /\ ~plgid
    /\ outcome' = [outcome EXCEPT ![call.command] = "raised"]
    /\ call' = NoCall
    /\ UNCHANGED <<server, client, threads>>

Answered ==
    /\ call.at \in {"accepted", "refused"}
    /\ up
    /\ outcome' = [outcome EXCEPT ![call.command] = call.at]
    /\ call' = NoCall
    /\ UNCHANGED <<server, client, threads>>

\* Defect: the exceptions of the request are passed on to the client.
GivesUpRaising ==
    /\ call.at \in {"waiting", "accepted", "refused"}
    /\ outcome' = [outcome EXCEPT ![call.command] = "raised"]
    /\ call' = NoCall
    /\ UNCHANGED <<server, client, threads>>

\* No answer in a minute, or no connection: the exception is swallowed.
GivesUp ==
    /\ call.at \in {"waiting", "accepted", "refused"}
    /\ outcome' = [outcome EXCEPT ![call.command] = "failed"]
    /\ call' = NoCall
    /\ UNCHANGED <<server, client, threads>>

-----------------------------------------------------------------------------
MonitorThread ==
    \/ MonitorWakes
    \/ Login
    \/ LoadConfig
    \/ OpenSocket
    \/ ClearReconnect
    \/ Maintain
    \/ GetAlarms
    \/ RequestFails
    \/ OpenSocketKills

SocketThread ==
    \/ Receives
    \/ ReceivesMessage
    \/ ReceiveFails
    \/ \E k \in Key : ProcessesDatapoint(k) \/ DatapointKills(k)

TangoThread ==
    \/ \E c \in Command : LookUp(c)
    \/ SendCommand
    \/ CannotSend
    \/ Answered
    \/ GivesUp

Server ==
    \/ \E k \in Key : VariableChanges(k)
    \/ \E r \in requests : Executes(r) \/ Refuses(r)
    \/ UpFlips

\* What a reconnection must repair.
Disturbance == Breaks \/ SessionExpires

Next == MonitorThread \/ SocketThread \/ TangoThread \/ Server \/ Disturbance

Spec == Init /\ [][Next]_vars

\* Threads are scheduled; requests and recv() have a timeout of a minute.
Fairness == WF_vars(MonitorThread) /\ WF_vars(SocketThread)

FairSpec == Spec /\ Fairness
-----------------------------------------------------------------------------
(* Safety                                                                    *)

\* A client reads only values this chiller's variable of that name has had,
\* although all chillers' variables come over the same websocket.
OwnValuesOnly ==
    \A n \in Detail : Readable(n) => cache[n] \in past[Own(n)]

\* Once the first message of a websocket has been processed, clients read
\* nothing older than that websocket, whatever was lost with the ones before,
\* is still in their queues, or was half processed when they were replaced.
NotOlderThanConnection ==
    fresh => \A n \in Detail : Readable(n) /\ cache[n] >= base[Own(n)]

\* What a client can conclude from a command: if it raised, the chiller has not
\* done it and will not; if the server accepted it, it was done.  No command is
\* done twice, whenever an answer is lost or late.
CommandOutcome ==
    \A c \in Command :
        /\ done[c] <= 1
        /\ outcome[c] = "raised" => done[c] = 0 /\ \A r \in requests : r.command # c
        /\ outcome[c] = "accepted" => done[c] = 1

-----------------------------------------------------------------------------
(* Liveness, under FairSpec                                                  *)

Alive == monitor # "dead" /\ thread # "dead"

\* When the server stays up and neither session nor websocket is disturbed any
\* more, the client holds a valid session again and the values of all variables
\* are right, also of those that changed while there was no connection and of
\* those that commands changed.
ClientRecovers ==
    <>[](up /\ Alive) /\ <>[][~Disturbance]_vars =>
        <>[](session = "valid" /\ \A n \in Detail : cache[n] = value[Own(n)])
====
