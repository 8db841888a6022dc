-------------------------- MODULE ChillerConnection --------------------------
(***************************************************************************)
(* The connection life cycle of the MTA chiller device:                    *)
(*   mta_chiller_device/device_manager.py     MTAChillerManager            *)
(*   mta_chiller_device/mta_chiller_device.py MTAChiller                   *)
(*   mta_chiller_device/xweb_evo_client.py    XWebEvoClient                *)
(*                                                                         *)
(* Every init_device() makes a new manager with a monitor thread, which    *)
(* logs in, keeps the session alive and retries, and a socket thread,      *)
(* which waits for websocket messages.  The Tango thread starts and stops  *)
(* them.  All of them report through the callbacks of the one device.      *)
(* The values and alarms they carry are left to another module.            *)
(***************************************************************************)
EXTENDS Naturals

CONSTANTS
    MaxStarts,        \* bound: managers made, by the server start and by Init
    ConstructorFirst  \* TRUE: no connection is made before __init__ returns

ASSUME ConstantsAssumption ==
    /\ MaxStarts \in Nat \ {0}
    /\ ConstructorFirst \in BOOLEAN

Manager == 1..MaxStarts

\* The threads that call back into the device.
Main       == <<"main", 0>>
Monitor(m) == <<"monitor", m>>
Socket(m)  == <<"socket", m>>
Thread == {Main} \cup ({"monitor", "socket"} \X Manager)

VARIABLES
    \* the Tango device
    comm,        \* _communication_state
    power,       \* _component_power
    devState,    \* the Tango state
    fields,      \* __init__ has assigned _component_power and _fault
    report,      \* report[t]: how far t is in _update_state()
    main,        \* where the Tango thread is
    \* the managers
    current,     \* the manager the device holds
    monitor,     \* monitor[m]: where the monitor thread is
    socket,      \* socket[m]: where the socket thread is
    shutdown,    \* shutdown[m]: _shutdown_event
    reconnect,   \* reconnect[m]: reconnect_event
    sock,        \* sock[m]: the client's _socket, None before the first connect
    stale,       \* stale[m]: the socket thread receives on a replaced _socket
    \* the network is up and the XWeb Evo server answers and sends in time
    link

device  == <<comm, power, devState, fields, report>>
threads == <<monitor, socket>>
events  == <<shutdown, reconnect>>
client  == <<sock, stale>>
vars == <<device, main, current, threads, events, client, link>>

-----------------------------------------------------------------------------
Init ==
    /\ comm = "NOT_ESTABLISHED"
    /\ power = "OFF"
    /\ devState = "UNKNOWN"
    /\ fields = FALSE
    /\ report = [t \in Thread |-> "idle"]
    /\ main = "start"
    /\ current = 1
    /\ monitor = [m \in Manager |-> IF m = 1 THEN "begin" ELSE "none"]
    /\ socket = [m \in Manager |-> "none"]
    /\ shutdown = [m \in Manager |-> FALSE]
    /\ reconnect = [m \in Manager |-> TRUE]
    /\ sock = [m \in Manager |-> "None"]
    /\ stale = [m \in Manager |-> FALSE]
    /\ link = TRUE

-----------------------------------------------------------------------------
(* Reports to the device                                                   *)

\* The operational state matrix; nothing ever sets _fault.
OpState ==
    IF comm = "DISABLED" THEN "DISABLE"
    ELSE IF comm = "NOT_ESTABLISHED" THEN "UNKNOWN"
    ELSE IF power = "ON" THEN "ON" ELSE "OFF"

\* update_communication_state() stores its argument, then updates the state.
ReportComm(t, c) ==
    /\ report[t] = "idle"
    /\ comm' = c
    /\ report' = [report EXCEPT ![t] = "decide"]
    /\ UNCHANGED <<power, devState, fields>>

\* Defect: the manager was given its two callbacks in the wrong order.
ReportPowerAsComm(t, p) ==
    /\ report[t] = "idle"
    /\ comm' = p
    /\ report' = [report EXCEPT ![t] = "decide"]
    /\ UNCHANGED <<power, devState, fields>>

\* update_component_state(power=...), likewise.
ReportPower(t, p) ==
    /\ report[t] = "idle"
    /\ power' = p
    /\ report' = [report EXCEPT ![t] = "decide"]
    /\ UNCHANGED <<comm, devState, fields>>

\* Thread t dies of an uncaught exception; the Tango thread's caller gets it.
Dies(t) ==
    /\ main' = IF t = Main THEN "raised" ELSE main
    /\ monitor' = [m \in Manager |-> IF t = Monitor(m) THEN "dead" ELSE monitor[m]]
    /\ socket' = [m \in Manager |-> IF t = Socket(m) THEN "dead" ELSE socket[m]]

\* _update_state() reads the stored states ... _fault does not exist yet when
\* the constructor has not returned from init_device().
Decide(t) ==
    /\ report[t] = "decide"
    /\ IF comm = "ESTABLISHED" /\ ~fields
       THEN Dies(t) /\ report' = [report EXCEPT ![t] = "idle"]
       ELSE /\ report' = [report EXCEPT ![t] = OpState]
            /\ UNCHANGED <<main, threads>>
    /\ UNCHANGED <<comm, power, devState, fields, current, events, client, link>>

\* ... and calls set_state() with what they gave.
SetState(t) ==
    /\ report[t] \notin {"idle", "decide"}
    /\ devState' = report[t]
    /\ report' = [report EXCEPT ![t] = "idle"]
    /\ UNCHANGED <<comm, power, fields, main, current, threads, events, client, link>>

-----------------------------------------------------------------------------
(* The Tango thread                                                        *)

\* start_communicating(): the monitor already runs when the state is reported.
StartReports ==
    /\ main = "start"
    /\ ReportComm(Main, "NOT_ESTABLISHED")
    /\ main' = IF fields THEN "running" ELSE "construct"
    /\ UNCHANGED <<current, threads, events, client, link>>

\* MTAChiller.__init__(): its own assignments follow super().__init__(), which
\* has called init_device().
Construct ==
    /\ main = "construct"
    /\ report[Main] = "idle"
    /\ main' = "running"
    /\ comm' = "NOT_ESTABLISHED"
    /\ power' = "OFF"
    /\ fields' = TRUE
    /\ UNCHANGED <<devState, report, current, threads, events, client, link>>

\* stop_communicating(), from delete_device(): on Init and at server exit.
Stop ==
    /\ main = "running"
    /\ report[Main] = "idle"
    /\ main' = "join"
    /\ shutdown' = [shutdown EXCEPT ![current] = TRUE]
    /\ UNCHANGED <<device, current, threads, reconnect, client, link>>

\* Defect: the monitor is not waited for.
JoinMonitorNot ==
    /\ main = "join"
    /\ main' = "close"
    /\ UNCHANGED <<device, current, threads, events, client, link>>

JoinMonitor ==
    /\ main = "join"
    /\ monitor[current] \in {"ended", "dead"}
    /\ main' = "close"
    /\ UNCHANGED <<device, current, threads, events, client, link>>

\* XWebEvoClient.close(): None has no close() when nothing was ever connected.
CloseClient ==
    /\ main = "close"
    /\ IF sock[current] = "None"
       THEN main' = "raised" /\ UNCHANGED sock
       ELSE main' = "disable" /\ sock' = [sock EXCEPT ![current] = "closed"]
    /\ UNCHANGED <<device, current, threads, events, stale, link>>

Disable ==
    /\ main = "disable"
    /\ ReportComm(Main, "DISABLED")
    /\ main' = "stopped"
    /\ UNCHANGED <<current, threads, events, client, link>>

\* The Init command goes on with init_device(): a new manager for the device.
InitDevice ==
    /\ main = "stopped"
    /\ report[Main] = "idle"
    /\ current < MaxStarts
    /\ current' = current + 1
    /\ devState' = "UNKNOWN"
    /\ monitor' = [monitor EXCEPT ![current'] = "begin"]
    /\ main' = "start"
    /\ UNCHANGED <<comm, power, fields, report, socket, events, client, link>>

-----------------------------------------------------------------------------
(* The monitor thread of manager m                                         *)

\* It is at `from`, done with its last report, and goes to `to`.
MonitorMoves(m, from, to) ==
    /\ monitor[m] = from
    /\ report[Monitor(m)] = "idle"
    /\ monitor' = [monitor EXCEPT ![m] = to]

MonitorBegins(m) ==
    /\ MonitorMoves(m, "begin", "check")
    /\ socket' = [socket EXCEPT ![m] = "check"]
    /\ UNCHANGED <<device, main, current, events, client, link>>

MonitorChecks(m) ==
    /\ MonitorMoves(m, "check", IF shutdown[m] THEN "join"
                                ELSE IF reconnect[m] THEN "connect" ELSE "maintain")
    /\ UNCHANGED <<device, main, current, socket, events, client, link>>

\* XWebEvoClient.start(): login, configuration, a new websocket in the place of
\* the old one, which is not closed.
Connects(m) ==
    /\ link
    /\ ConstructorFirst => fields
    /\ MonitorMoves(m, "connect", "established")
    /\ sock' = [sock EXCEPT ![m] = "open"]
    /\ stale' = [stale EXCEPT ![m] = socket[m] = "recv"]
    /\ UNCHANGED <<device, main, current, socket, events, link>>

ConnectFails(m) ==
    /\ ~link
    /\ MonitorMoves(m, "connect", "wait")
    /\ reconnect' = [reconnect EXCEPT ![m] = TRUE]
    /\ UNCHANGED <<device, main, current, socket, shutdown, client, link>>

\* connect() of websockets raises an OSError when the network refuses, and
\* none of the exceptions that are caught is an OSError but TimeoutError.
ConnectKills(m) ==
    /\ ~link
    /\ MonitorMoves(m, "connect", "dead")
    /\ UNCHANGED <<device, main, current, socket, events, client, link>>

ReportsEstablished(m) ==
    /\ MonitorMoves(m, "established", "power")
    /\ ReportComm(Monitor(m), "ESTABLISHED")
    /\ UNCHANGED <<main, current, socket, events, client, link>>

ReportsPower(m) ==
    /\ MonitorMoves(m, "power", "clear")
    /\ ReportPower(Monitor(m), "ON")
    /\ UNCHANGED <<main, current, socket, events, client, link>>

\* Defect: the event stays set after a reconnection.
ClearsReconnectNot(m) ==
    /\ MonitorMoves(m, "clear", "alarms")
    /\ UNCHANGED <<device, main, current, socket, events, client, link>>

ClearsReconnect(m) ==
    /\ MonitorMoves(m, "clear", "alarms")
    /\ reconnect' = [reconnect EXCEPT ![m] = FALSE]
    /\ UNCHANGED <<device, main, current, socket, shutdown, client, link>>

\* get_alarms() after a reconnection: a failure is not reported.
ReadsAlarms(m) ==
    /\ MonitorMoves(m, "alarms", "wait")
    /\ reconnect' = IF link THEN reconnect ELSE [reconnect EXCEPT ![m] = TRUE]
    /\ UNCHANGED <<device, main, current, socket, shutdown, client, link>>

\* maintain_session() and get_alarms() on a connection that was up.
Maintains(m) ==
    /\ MonitorMoves(m, "maintain", IF link THEN "wait" ELSE "lost")
    /\ UNCHANGED <<device, main, current, socket, events, client, link>>

MonitorReportsLoss(m) ==
    /\ MonitorMoves(m, "lost", "reconnect")
    /\ ReportComm(Monitor(m), "NOT_ESTABLISHED")
    /\ UNCHANGED <<main, current, socket, events, client, link>>

\* Defect: the loss is reported and nothing is done about it.
MonitorForgetsReconnect(m) ==
    /\ MonitorMoves(m, "reconnect", "wait")
    /\ UNCHANGED <<device, main, current, socket, events, client, link>>

MonitorSetsReconnect(m) ==
    /\ MonitorMoves(m, "reconnect", "wait")
    /\ reconnect' = [reconnect EXCEPT ![m] = TRUE]
    /\ UNCHANGED <<device, main, current, socket, shutdown, client, link>>

\* A polling period has passed, or the shutdown event ends the wait.
MonitorWakes(m) ==
    /\ MonitorMoves(m, "wait", "check")
    /\ UNCHANGED <<device, main, current, socket, events, client, link>>

\* Defect: the monitor closes the client under the socket thread.
MonitorJoinsNot(m) ==
    /\ MonitorMoves(m, "join", "close")
    /\ UNCHANGED <<device, main, current, socket, events, client, link>>

MonitorJoins(m) ==
    /\ socket[m] \in {"ended", "dead"}
    /\ MonitorMoves(m, "join", "close")
    /\ UNCHANGED <<device, main, current, socket, events, client, link>>

MonitorCloses(m) ==
    /\ MonitorMoves(m, "close", IF sock[m] = "None" THEN "dead" ELSE "ended")
    /\ sock' = IF sock[m] = "None" THEN sock ELSE [sock EXCEPT ![m] = "closed"]
    /\ UNCHANGED <<device, main, current, socket, events, stale, link>>

-----------------------------------------------------------------------------
(* The socket thread of manager m                                          *)

SocketMoves(m, from, to) ==
    /\ socket[m] = from
    /\ report[Socket(m)] = "idle"
    /\ socket' = [socket EXCEPT ![m] = to]

\* Defect: the shutdown event is looked at only while connected.
SocketEndsConnected(m) ==
    /\ shutdown[m]
    /\ ~reconnect[m]
    /\ SocketMoves(m, "check", "ended")
    /\ UNCHANGED <<device, main, current, monitor, events, client, link>>

SocketEnds(m) ==
    /\ shutdown[m]
    /\ SocketMoves(m, "check", "ended")
    /\ UNCHANGED <<device, main, current, monitor, events, client, link>>

\* Defect: the event is not looked at.
ReceivesAnyway(m) ==
    /\ ~shutdown[m]
    /\ SocketMoves(m, "check", "recv")
    /\ UNCHANGED <<device, main, current, monitor, events, client, link>>

\* While the connection is being restored the loop spins; then it calls
\* recieve_socket(), which takes the client's _socket of this moment.
Receives(m) ==
    /\ ~shutdown[m]
    /\ ~reconnect[m]
    /\ SocketMoves(m, "check", "recv")
    /\ UNCHANGED <<device, main, current, monitor, events, client, link>>

\* A message arrives and is processed.
MessageArrives(m) ==
    /\ link
    /\ SocketMoves(m, "recv", "check")
    /\ stale' = [stale EXCEPT ![m] = FALSE]
    /\ UNCHANGED <<device, main, current, monitor, events, sock, link>>

\* A message arrives that cannot be processed: a KeyError or a ValueError.
MessageKills(m) ==
    /\ link
    /\ SocketMoves(m, "recv", "dead")
    /\ stale' = [stale EXCEPT ![m] = FALSE]
    /\ UNCHANGED <<device, main, current, monitor, events, sock, link>>

\* recv() raises ConnectionClosed, or TimeoutError after a minute without link.
ReceiveFails(m) ==
    /\ ~link \/ stale[m] \/ sock[m] = "closed"
    /\ SocketMoves(m, "recv", "lost")
    /\ stale' = [stale EXCEPT ![m] = FALSE]
    /\ UNCHANGED <<device, main, current, monitor, events, sock, link>>

SocketReportsLoss(m) ==
    /\ SocketMoves(m, "lost", "reconnect")
    /\ ReportComm(Socket(m), "NOT_ESTABLISHED")
    /\ UNCHANGED <<main, current, monitor, events, client, link>>

SocketSetsReconnect(m) ==
    /\ SocketMoves(m, "reconnect", "check")
    /\ reconnect' = [reconnect EXCEPT ![m] = TRUE]
    /\ UNCHANGED <<device, main, current, monitor, shutdown, client, link>>

-----------------------------------------------------------------------------
LinkFlips ==
    /\ link' = ~link
    /\ UNCHANGED <<device, main, current, threads, events, client>>

TangoThread ==
    \/ StartReports
    \/ Construct
    \/ JoinMonitor
    \/ CloseClient
    \/ Disable

MonitorThread(m) ==
    \/ MonitorBegins(m)
    \/ MonitorChecks(m)
    \/ Connects(m)
    \/ ConnectFails(m)
    \/ ConnectKills(m)
    \/ ReportsEstablished(m)
    \/ ReportsPower(m)
    \/ ClearsReconnect(m)
    \/ ReadsAlarms(m)
    \/ Maintains(m)
    \/ MonitorReportsLoss(m)
    \/ MonitorSetsReconnect(m)
    \/ MonitorWakes(m)
    \/ MonitorJoins(m)
    \/ MonitorCloses(m)

SocketThread(m) ==
    \/ SocketEnds(m)
    \/ Receives(m)
    \/ MessageArrives(m)
    \/ MessageKills(m)
    \/ ReceiveFails(m)
    \/ SocketReportsLoss(m)
    \/ SocketSetsReconnect(m)

\* The callback thread t is in.
UpdateState(t) == Decide(t) \/ SetState(t)

Next ==
    \/ TangoThread
    \/ Stop
    \/ InitDevice
    \/ \E m \in Manager : MonitorThread(m) \/ SocketThread(m)
    \/ \E t \in Thread : UpdateState(t)
    \/ LinkFlips

Spec == Init /\ [][Next]_vars

\* Threads are scheduled and calls to the network end: requests and recv() have
\* a timeout of a minute, Event.wait() that of the polling period.
Fairness ==
    /\ WF_vars(TangoThread)
    /\ \A m \in Manager : WF_vars(MonitorThread(m)) /\ WF_vars(SocketThread(m))
    /\ \A t \in Thread : WF_vars(UpdateState(t))

FairSpec == Spec /\ Fairness

-----------------------------------------------------------------------------
(* Safety                                                                  *)

\* Every variable holds what the code can put in it.
TypeOK ==
    /\ comm \in {"DISABLED", "NOT_ESTABLISHED", "ESTABLISHED"}
    /\ power \in {"OFF", "ON"}
    /\ devState \in {"DISABLE", "UNKNOWN", "OFF", "ON"}
    /\ fields \in BOOLEAN
    /\ report \in [Thread -> {"idle", "decide", "DISABLE", "UNKNOWN", "OFF", "ON"}]
    /\ main \in {"start", "construct", "running", "join", "close", "disable",
                 "stopped", "raised"}
    /\ current \in Manager
    /\ monitor \in [Manager -> {"none", "begin", "check", "connect", "established",
                               "power", "clear", "alarms", "maintain", "lost",
                               "reconnect", "wait", "join", "close", "ended", "dead"}]
    /\ socket \in [Manager -> {"none", "check", "recv", "lost", "reconnect",
                              "ended", "dead"}]
    /\ shutdown \in [Manager -> BOOLEAN]
    /\ reconnect \in [Manager -> BOOLEAN]
    /\ sock \in [Manager -> {"None", "open", "closed"}]
    /\ stale \in [Manager -> BOOLEAN]
    /\ link \in BOOLEAN

MonitorOver(m) == monitor[m] \in {"ended", "dead"} /\ report[Monitor(m)] = "idle"
SocketOver(m)  == socket[m] \in {"ended", "dead"} /\ report[Socket(m)] = "idle"

\* The monitor of manager m has died of an exception, and nobody waits for its
\* socket thread any more.
Orphaned(m) == monitor[m] = "dead"

\* The socket thread never calls recv() on a _socket that is still None: the
\* reconnect event, cleared after the first connect, is what keeps it out.
ReceiveNeedsSocket == \A m \in Manager : socket[m] = "recv" => sock[m] # "None"

\* Nobody closes the websocket under a receiving thread: the monitor joins the
\* socket thread before it closes the client, and the Tango thread the monitor.
\* Otherwise a late ConnectionClosed would report NOT_ESTABLISHED.
NoCloseUnderReceive ==
    \A m \in Manager : sock[m] = "closed" => SocketOver(m) \/ Orphaned(m)

\* When Init makes a new manager, both threads of the one before have gone and
\* none of their reports is on its way to the device.
OneManagerAtATime ==
    \A m \in Manager :
        m < current => MonitorOver(m) /\ (SocketOver(m) \/ Orphaned(m))

\* A device whose manager has stopped is and remains DISABLEd; no report of a
\* connection lost meanwhile comes in late.
StoppedStaysDisabled ==
    /\ main = "stopped" /\ report[Main] = "idle"
    /\ \A m \in Manager : ~Orphaned(m)
    => devState = "DISABLE"

-----------------------------------------------------------------------------
(* Liveness, under FairSpec                                                *)

Wanted == main \in {"start", "construct", "running"}

\* When the network comes back for good, the manager reconnects and stays
\* connected: two threads setting the event do not keep each other reconnecting.
ConnectionSettles ==
    <>[](link /\ Wanted) =>
        <>[](\E m \in Manager : m = current /\ (~reconnect[m] \/ Orphaned(m)))

\* When the network is lost for good, the manager goes and stays in reconnection,
\* although a reconnection may be half done when that happens.
OutageDetected ==
    <>[](~link /\ Wanted) =>
        <>[](\E m \in Manager : m = current /\ (reconnect[m] \/ Orphaned(m)))

\* A device that is asked to stop is done with it, whatever its threads and the
\* network do: the joins do not wait on each other.
StopCompletes == main = "join" ~> main \in {"stopped", "raised"}

-----------------------------------------------------------------------------
(* What a comment says and the code does not do                            *)

\* The threads of the current manager are at rest and on a working connection.
Settled ==
    /\ main = "running"
    /\ monitor[current] = "wait"
    /\ socket[current] \in {"check", "recv"}
    /\ ~reconnect[current]
    /\ \A t \in Thread : report[t] = "idle"

\* start_communicating(): "should have state ON once communication has been
\* established".  The loss of an old connection, noticed while the new one is
\* made, is reported after it, and the event it sets is cleared.
EstablishedIsOn == Settled => devState = "ON"
====
