------------------------ MODULE ChillerConnection_proofs ------------------------
(***************************************************************************)
(* Proofs about ChillerConnection: type correctness and the safety of the  *)
(* connection's life cycle, for every number of managers the device makes  *)
(* in its life, and whether or not the constructor wins its race.          *)
(***************************************************************************)
EXTENDS ChillerConnection, TLAPS

-----------------------------------------------------------------------------
(* The threads                                                             *)

\* Every thread is the Tango thread, a monitor or a socket thread ...
LEMMA ThreadKinds ==
    /\ Main \in Thread
    /\ \A m \in Manager : Monitor(m) \in Thread /\ Socket(m) \in Thread
    /\ \A t \in Thread :
           t = Main \/ \E m \in Manager : t = Monitor(m) \/ t = Socket(m)
BY DEF Thread, Main, Monitor, Socket

\* ... and only one of them.
LEMMA ThreadsDiffer ==
    /\ \A m : Main # Monitor(m) /\ Main # Socket(m)
    /\ \A m, n : /\ Monitor(m) # Socket(n)
                 /\ Monitor(m) = Monitor(n) => m = n
                 /\ Socket(m) = Socket(n) => m = n
BY DEF Main, Monitor, Socket

-----------------------------------------------------------------------------
(* Type correctness                                                        *)

\* What the operational state matrix gives.
LEMMA OpStateIs ==
    /\ OpState \in {"DISABLE", "UNKNOWN", "OFF", "ON"}
    /\ comm = "DISABLED" => OpState = "DISABLE"
BY DEF OpState

\* A report is on its way in a thread's callback and nowhere else.
LEMMA UpdateStateType ==
    ASSUME TypeOK, NEW t \in Thread, UpdateState(t)
    PROVE  TypeOK'
<1>1. CASE Decide(t) /\ comm = "ESTABLISHED" /\ ~fields
  BY <1>1 DEF TypeOK, Decide, Dies, events, client
<1>2. CASE Decide(t) /\ ~(comm = "ESTABLISHED" /\ ~fields)
  BY <1>2, OpStateIs DEF TypeOK, Decide, threads, events, client
<1>3. CASE SetState(t)
  BY <1>3 DEF TypeOK, SetState, threads, events, client
<1> QED
  BY <1>1, <1>2, <1>3 DEF UpdateState

LEMMA TangoThreadType ==
    ASSUME TypeOK, TangoThread \/ Stop \/ InitDevice
    PROVE  TypeOK'
<1> USE ThreadKinds, ConstantsAssumption DEF TypeOK, device, threads, events, client
<1>1. CASE StartReports
  BY <1>1 DEF StartReports, ReportComm
<1>2. CASE Construct
  BY <1>2 DEF Construct
<1>3. CASE Stop
  BY <1>3 DEF Stop
<1>4. CASE JoinMonitor
  BY <1>4 DEF JoinMonitor
<1>5. CASE CloseClient
  BY <1>5 DEF CloseClient
<1>6. CASE Disable
  BY <1>6 DEF Disable, ReportComm
<1>7. CASE InitDevice
  BY <1>7 DEF InitDevice, Manager
<1> QED
  BY <1>1, <1>2, <1>3, <1>4, <1>5, <1>6, <1>7 DEF TangoThread

LEMMA MonitorThreadType ==
    ASSUME TypeOK, NEW m \in Manager, MonitorThread(m)
    PROVE  TypeOK'
<1> USE ThreadKinds DEF TypeOK, device, threads, events, client, MonitorMoves
<1>1. CASE MonitorBegins(m)
  BY <1>1 DEF MonitorBegins
<1>2. CASE MonitorChecks(m)
  BY <1>2 DEF MonitorChecks
<1>3. CASE Connects(m)
  BY <1>3 DEF Connects
<1>4. CASE ConnectFails(m)
  BY <1>4 DEF ConnectFails
<1>5. CASE ConnectKills(m)
  BY <1>5 DEF ConnectKills
<1>6. CASE ReportsEstablished(m) \/ MonitorReportsLoss(m)
  BY <1>6 DEF ReportsEstablished, MonitorReportsLoss, ReportComm
<1>7. CASE ReportsPower(m)
  BY <1>7 DEF ReportsPower, ReportPower
<1>8. CASE ClearsReconnect(m)
  BY <1>8 DEF ClearsReconnect
<1>9. CASE ReadsAlarms(m)
  BY <1>9 DEF ReadsAlarms
<1>10. CASE Maintains(m)
  BY <1>10 DEF Maintains
<1>11. CASE MonitorSetsReconnect(m)
  BY <1>11 DEF MonitorSetsReconnect
<1>12. CASE MonitorWakes(m) \/ MonitorJoins(m)
  BY <1>12 DEF MonitorWakes, MonitorJoins
<1>13. CASE MonitorCloses(m)
  BY <1>13 DEF MonitorCloses
<1> QED
  BY <1>1, <1>2, <1>3, <1>4, <1>5, <1>6, <1>7, <1>8, <1>9, <1>10, <1>11, <1>12, <1>13
  DEF MonitorThread

LEMMA SocketThreadType ==
    ASSUME TypeOK, NEW m \in Manager, SocketThread(m)
    PROVE  TypeOK'
<1> USE ThreadKinds DEF TypeOK, device, threads, events, client, SocketMoves
<1>1. CASE SocketEnds(m) \/ Receives(m)
  BY <1>1 DEF SocketEnds, Receives
<1>2. CASE MessageArrives(m)
  BY <1>2 DEF MessageArrives
<1>3. CASE MessageKills(m)
  BY <1>3 DEF MessageKills
<1>4. CASE ReceiveFails(m)
  BY <1>4 DEF ReceiveFails
<1>5. CASE SocketReportsLoss(m)
  BY <1>5 DEF SocketReportsLoss, ReportComm
<1>6. CASE SocketSetsReconnect(m)
  BY <1>6 DEF SocketSetsReconnect
<1> QED
  BY <1>1, <1>2, <1>3, <1>4, <1>5, <1>6 DEF SocketThread

LEMMA InitType == Init => TypeOK
<1> SUFFICES ASSUME Init PROVE TypeOK
  OBVIOUS
<1>1. current \in Manager
  BY ConstantsAssumption DEF Init, Manager
<1> QED
  BY <1>1 DEF Init, TypeOK

LEMMA NextType ==
    ASSUME TypeOK, [Next]_vars
    PROVE  TypeOK'
<1>1. CASE LinkFlips
  BY <1>1 DEF LinkFlips, TypeOK, device, threads, events, client
<1>2. CASE UNCHANGED vars
  BY <1>2 DEF vars, TypeOK, device, threads, events, client
<1> QED
  BY <1>1, <1>2, TangoThreadType, MonitorThreadType, SocketThreadType,
     UpdateStateType DEF Next

\* The variables always hold what the code can put in them.
THEOREM TypeCorrect == Spec => []TypeOK
BY InitType, NextType, PTL DEF Spec

-----------------------------------------------------------------------------
(* The inductive invariant                                                 *)

\* A report is on its way only where the thread waits for its callback.
ReportsInPlace ==
    /\ report[Main] # "idle" => main \in {"construct", "running", "stopped"}
    /\ \A m \in Manager :
           /\ report[Monitor(m)] # "idle" => monitor[m] \in {"power", "clear", "reconnect"}
           /\ report[Socket(m)] # "idle" => socket[m] = "reconnect"

\* The monitors are made in turn, and each makes its socket thread.
MadeInTurn ==
    \A m \in Manager :
        /\ monitor[m] = "none" <=> current < m
        /\ monitor[m] \in {"none", "begin"} => socket[m] = "none"

\* The joins: who has joined a thread finds it over, and so it remains.
JoinsHold ==
    /\ \A m \in Manager : monitor[m] \in {"close", "ended"} => socket[m] \in {"ended", "dead"}
    /\ main \in {"close", "disable", "stopped"} => monitor[current] \in {"ended", "dead"}
    /\ \A m \in Manager : m < current => monitor[m] \in {"ended", "dead"}

\* The client has a _socket wherever the reconnect event is clear or about to be.
ConnectedBefore ==
    \A m \in Manager :
        ~reconnect[m] \/ monitor[m] \in {"established", "power", "clear"}
        => sock[m] # "None"

\* What the last report of a stopped device leaves there.
StoppedReports ==
    main = "stopped" /\ (\A m \in Manager : ~Orphaned(m)) =>
        /\ comm = "DISABLED"
        /\ \/ report[Main] \in {"decide", "DISABLE"}
           \/ report[Main] = "idle" /\ devState = "DISABLE"

ConnectionInv ==
    /\ TypeOK
    /\ ReportsInPlace
    /\ MadeInTurn
    /\ JoinsHold
    /\ ConnectedBefore
    /\ ReceiveNeedsSocket
    /\ NoCloseUnderReceive
    /\ StoppedReports

\* A stopped device hears no thread any more, unless it has an orphan.
LEMMA QuietWhenStopped ==
    ASSUME ConnectionInv, main = "stopped", \A m \in Manager : ~Orphaned(m)
    PROVE  \A m \in Manager : /\ monitor[m] \in {"none", "ended"}
                              /\ socket[m] \in {"none", "ended", "dead"}
                              /\ report[Monitor(m)] = "idle"
                              /\ report[Socket(m)] = "idle"
<1> SUFFICES ASSUME NEW m \in Manager
             PROVE  monitor[m] \in {"none", "ended"}
  BY DEF ConnectionInv, ReportsInPlace, MadeInTurn, JoinsHold
<1>1. current < m \/ m = current \/ m < current
  BY DEF ConnectionInv, TypeOK, Manager
<1> QED
  BY <1>1 DEF ConnectionInv, MadeInTurn, JoinsHold, Orphaned

LEMMA TangoThreadInv ==
    ASSUME ConnectionInv, TangoThread \/ Stop \/ InitDevice
    PROVE  ConnectionInv'
<1>0. TypeOK'
  BY TangoThreadType DEF ConnectionInv
<1> USE <1>0, ThreadKinds, ThreadsDiffer
    DEF ConnectionInv, TypeOK, device, threads, events, client,
        ReportsInPlace, MadeInTurn, JoinsHold, ConnectedBefore,
        ReceiveNeedsSocket, NoCloseUnderReceive, StoppedReports, SocketOver, Orphaned
<1>1. CASE StartReports
  BY <1>1 DEF StartReports, ReportComm
<1>2. CASE Construct
  BY <1>2 DEF Construct
<1>3. CASE Stop
  BY <1>3 DEF Stop
<1>4. CASE JoinMonitor
  BY <1>4 DEF JoinMonitor
<1>5. CASE CloseClient
  BY <1>5 DEF CloseClient
<1>6. CASE Disable
  BY <1>6 DEF Disable, ReportComm
<1>7. CASE InitDevice
  BY <1>7, SMTT(20) DEF InitDevice, Manager
<1> QED
  BY <1>1, <1>2, <1>3, <1>4, <1>5, <1>6, <1>7 DEF TangoThread

LEMMA MonitorThreadInv ==
    ASSUME ConnectionInv, NEW m \in Manager, MonitorThread(m)
    PROVE  ConnectionInv'
<1>0. TypeOK'
  BY MonitorThreadType DEF ConnectionInv
<1> USE <1>0, ThreadKinds, ThreadsDiffer
    DEF ConnectionInv, TypeOK, device, threads, events, client, MonitorMoves,
        ReportsInPlace, MadeInTurn, JoinsHold, ConnectedBefore,
        ReceiveNeedsSocket, NoCloseUnderReceive, StoppedReports, SocketOver, Orphaned
<1>1. CASE MonitorBegins(m)
  BY <1>1 DEF MonitorBegins
<1>2. CASE MonitorChecks(m)
  BY <1>2 DEF MonitorChecks
<1>3. CASE Connects(m)
  BY <1>3 DEF Connects
<1>4. CASE ConnectFails(m)
  BY <1>4 DEF ConnectFails
<1>5. CASE ConnectKills(m)
  BY <1>5 DEF ConnectKills
<1>6. CASE ReportsEstablished(m)
  BY <1>6, QuietWhenStopped DEF ReportsEstablished, ReportComm
<1>7. CASE ReportsPower(m)
  BY <1>7 DEF ReportsPower, ReportPower
<1>8. CASE ClearsReconnect(m)
  BY <1>8 DEF ClearsReconnect
<1>9. CASE ReadsAlarms(m)
  BY <1>9 DEF ReadsAlarms
<1>10. CASE Maintains(m)
  BY <1>10 DEF Maintains
<1>11. CASE MonitorReportsLoss(m)
  BY <1>11, QuietWhenStopped DEF MonitorReportsLoss, ReportComm
<1>12. CASE MonitorSetsReconnect(m)
  BY <1>12 DEF MonitorSetsReconnect
<1>13. CASE MonitorWakes(m)
  BY <1>13 DEF MonitorWakes
<1>14. CASE MonitorJoins(m)
  BY <1>14 DEF MonitorJoins
<1>15. CASE MonitorCloses(m)
  BY <1>15 DEF MonitorCloses
<1> QED
  BY <1>1, <1>2, <1>3, <1>4, <1>5, <1>6, <1>7, <1>8, <1>9, <1>10, <1>11, <1>12, <1>13, <1>14, <1>15 DEF MonitorThread

LEMMA SocketThreadInv ==
    ASSUME ConnectionInv, NEW m \in Manager, SocketThread(m)
    PROVE  ConnectionInv'
<1>0. TypeOK'
  BY SocketThreadType DEF ConnectionInv
<1> USE <1>0, ThreadKinds, ThreadsDiffer
    DEF ConnectionInv, TypeOK, device, threads, events, client, SocketMoves,
        ReportsInPlace, MadeInTurn, JoinsHold, ConnectedBefore,
        ReceiveNeedsSocket, NoCloseUnderReceive, StoppedReports, SocketOver, Orphaned
<1>1. CASE SocketEnds(m)
  BY <1>1 DEF SocketEnds
<1>2. CASE Receives(m)
  BY <1>2 DEF Receives
<1>3. CASE MessageArrives(m)
  BY <1>3 DEF MessageArrives
<1>4. CASE MessageKills(m)
  BY <1>4 DEF MessageKills
<1>5. CASE ReceiveFails(m)
  BY <1>5 DEF ReceiveFails
<1>6. CASE SocketReportsLoss(m)
  BY <1>6, QuietWhenStopped DEF SocketReportsLoss, ReportComm
<1>7. CASE SocketSetsReconnect(m)
  BY <1>7 DEF SocketSetsReconnect
<1> QED
  BY <1>1, <1>2, <1>3, <1>4, <1>5, <1>6, <1>7 DEF SocketThread

\* A report changes the device and, when it dies, the thread that makes it.
LEMMA UpdateStateInv ==
    ASSUME ConnectionInv, NEW t \in Thread, UpdateState(t)
    PROVE  ConnectionInv'
<1>0. TypeOK'
  BY UpdateStateType DEF ConnectionInv
<1> USE <1>0, ThreadKinds, ThreadsDiffer
    DEF ConnectionInv, TypeOK, device, threads, events, client,
        ReportsInPlace, MadeInTurn, JoinsHold, ConnectedBefore,
        ReceiveNeedsSocket, NoCloseUnderReceive, StoppedReports, SocketOver, Orphaned
<1>1. CASE Decide(t) /\ comm = "ESTABLISHED" /\ ~fields
  <2>1. CASE t = Main
    BY <1>1, <2>1 DEF Decide, Dies
  <2>2. ASSUME NEW m \in Manager, t = Monitor(m) PROVE ConnectionInv'
    BY <1>1, <2>2, SMTT(20) DEF Decide, Dies
  <2>3. ASSUME NEW m \in Manager, t = Socket(m) PROVE ConnectionInv'
    BY <1>1, <2>3 DEF Decide, Dies
  <2> QED
    BY <2>1, <2>2, <2>3
<1>2. CASE Decide(t) /\ ~(comm = "ESTABLISHED" /\ ~fields)
  BY <1>2, OpStateIs, QuietWhenStopped DEF Decide
<1>3. CASE SetState(t)
  BY <1>3, QuietWhenStopped DEF SetState
<1> QED
  BY <1>1, <1>2, <1>3 DEF UpdateState

LEMMA InitInv == Init => ConnectionInv
<1> SUFFICES ASSUME Init PROVE ConnectionInv
  OBVIOUS
<1>1. TypeOK
  BY InitType
<1>2. ReportsInPlace
  BY ThreadKinds DEF Init, ReportsInPlace
<1>3. MadeInTurn
  BY DEF Init, MadeInTurn, Manager
<1>4. JoinsHold
  BY DEF Init, JoinsHold, Manager
<1>5. ConnectedBefore /\ ReceiveNeedsSocket /\ NoCloseUnderReceive /\ StoppedReports
  BY DEF Init, ConnectedBefore, ReceiveNeedsSocket, NoCloseUnderReceive, StoppedReports
<1> QED
  BY <1>1, <1>2, <1>3, <1>4, <1>5 DEF ConnectionInv

LEMMA NextInv ==
    ASSUME ConnectionInv, [Next]_vars
    PROVE  ConnectionInv'
<1>1. CASE LinkFlips \/ UNCHANGED vars
  BY <1>1, NextType
  DEF LinkFlips, vars, device, threads, events, client, ConnectionInv, ReportsInPlace,
      MadeInTurn, JoinsHold, ConnectedBefore, ReceiveNeedsSocket,
      NoCloseUnderReceive, StoppedReports, SocketOver, Orphaned
<1> QED
  BY <1>1, TangoThreadInv, MonitorThreadInv, SocketThreadInv, UpdateStateInv DEF Next

LEMMA ConnectionInvariant == Spec => []ConnectionInv
BY InitInv, NextInv, PTL DEF Spec

-----------------------------------------------------------------------------
(* The safety properties                                                   *)

\* The socket thread never calls recv() on a _socket that is still None.
THEOREM ReceiveNeedsSocketAlways == Spec => []ReceiveNeedsSocket
<1>1. ConnectionInv => ReceiveNeedsSocket
  BY DEF ConnectionInv
<1> QED
  BY <1>1, ConnectionInvariant, PTL

\* Nobody closes the websocket under a receiving thread, whichever of the
\* monitor and the Tango thread gets to close() first, but for an orphan.
THEOREM NoCloseUnderReceiveAlways == Spec => []NoCloseUnderReceive
<1>1. ConnectionInv => NoCloseUnderReceive
  BY DEF ConnectionInv
<1> QED
  BY <1>1, ConnectionInvariant, PTL

\* However often Init is called, the threads of the managers before have gone,
\* and none of their reports is on its way to the device.
THEOREM OneManagerAtATimeAlways == Spec => []OneManagerAtATime
<1>1. ConnectionInv => OneManagerAtATime
  BY DEF ConnectionInv, ReportsInPlace, JoinsHold, OneManagerAtATime,
         MonitorOver, SocketOver, Orphaned
<1> QED
  BY <1>1, ConnectionInvariant, PTL

\* A device whose manager has stopped is DISABLEd and no late report changes it.
THEOREM StoppedStaysDisabledAlways == Spec => []StoppedStaysDisabled
<1>1. ConnectionInv => StoppedStaysDisabled
  BY DEF ConnectionInv, StoppedReports, StoppedStaysDisabled
<1> QED
  BY <1>1, ConnectionInvariant, PTL
=============================================================================
