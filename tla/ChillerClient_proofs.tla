-------------------------- MODULE ChillerClient_proofs --------------------------
(***************************************************************************)
(* Proofs about ChillerClient: what a client can conclude from a command,  *)
(* whose values it reads and how old they may be, for every configuration  *)
(* of the server, and for every number of changes and commands.            *)
(***************************************************************************)
EXTENDS ChillerClient, TLAPS

-----------------------------------------------------------------------------
(* Commands: the inductive invariant                                       *)

Outcome == {"raised", "failed", "accepted", "refused"}
Request == [command : Command, valid : BOOLEAN]

CommandType ==
    /\ requests \subseteq Request
    /\ done \in [Command -> 0..1]
    /\ outcome \in [Command -> Outcome \cup {None}]
    /\ \/ call = NoCall
       \/ call \in [command : Command, at : {"send", "waiting", "accepted", "refused"}]

\* The server has not done command c and no request for it is on its way.
Untouched(c) == done[c] = 0 /\ \A r \in requests : r.command # c

\* A request is on its way once, and not after it was carried out.
RequestedOnce ==
    \A r \in requests :
        /\ done[r.command] = 0
        /\ \A q \in requests : q.command = r.command => q = r

\* Nothing is done for a command before it is sent; what the Tango thread has
\* been told is so.
CallIs ==
    call # NoCall =>
        /\ outcome[call.command] = None
        /\ call.at = "send" => Untouched(call.command)
        /\ call.at = "accepted" => done[call.command] = 1

\* ... and so is what it has told the client.
OutcomeIs ==
    \A c \in Command :
        /\ outcome[c] = "raised" => Untouched(c)
        /\ outcome[c] = "accepted" => done[c] = 1
        /\ outcome[c] = None /\ call.command # c => Untouched(c)

CommandInv == CommandType /\ RequestedOnce /\ CallIs /\ OutcomeIs

CommandVars == <<requests, done, call, outcome>>

-----------------------------------------------------------------------------
(* Commands: the steps                                                     *)

LEMMA CommandInit == Init => CommandInv
<1> SUFFICES ASSUME Init PROVE CommandInv
  OBVIOUS
<1> USE ConstantsAssumption DEF Init
<1>1. CommandType
  BY DEF CommandType
<1>2. RequestedOnce /\ CallIs
  BY DEF RequestedOnce, CallIs
<1>3. OutcomeIs
  BY DEF OutcomeIs, Untouched
<1> QED
  BY <1>1, <1>2, <1>3 DEF CommandInv

\* A call is never for command 0.
LEMMA CallInCommand ==
    ASSUME CommandInv, call.at # "idle"
    PROVE  /\ call # NoCall /\ call.command \in Command
           /\ call \in [command : Command, at : {"send", "waiting", "accepted", "refused"}]
BY DEF CommandInv, CommandType, NoCall

LEMMA NoCallIs == NoCall.command = 0 /\ NoCall.at = "idle" /\ 0 \notin Command
BY DEF NoCall, Command

LEMMA LookUpCommand ==
    ASSUME CommandInv, NEW c \in Command, LookUp(c)
    PROVE  CommandInv'
<1> USE NoCallIs, ConstantsAssumption DEF CommandInv, LookUp, server
<1>1. Untouched(c)
  BY DEF OutcomeIs
<1>2. CASE LookupSucceeds
  <2>1. call' = [command |-> c, at |-> "send"] /\ UNCHANGED <<requests, done, outcome>>
    BY <1>2
  <2>2. CommandType'
    BY <2>1 DEF CommandType
  <2>3. RequestedOnce' /\ CallIs' /\ OutcomeIs'
    BY <1>1, <2>1 DEF RequestedOnce, CallIs, OutcomeIs, Untouched
  <2> QED
    BY <2>2, <2>3
<1>3. CASE ~LookupSucceeds
  <2>1. outcome' = [outcome EXCEPT ![c] = "raised"] /\ UNCHANGED <<requests, done, call>>
    BY <1>3
  <2>2. CommandType'
    BY <2>1 DEF CommandType, Outcome
  <2>3. RequestedOnce' /\ CallIs' /\ OutcomeIs'
    BY <1>1, <2>1 DEF CommandType, RequestedOnce, CallIs, OutcomeIs, Untouched
  <2> QED
    BY <2>2, <2>3
<1> QED
  BY <1>2, <1>3

LEMMA SendCommandCommand ==
    ASSUME CommandInv, SendCommand
    PROVE  CommandInv'
<1> DEFINE c == call.command
           r == [command |-> c, valid |-> session = "valid"]
<1> USE NoCallIs, ConstantsAssumption DEF CommandInv
<1>1. c \in Command /\ call # NoCall /\ call.at = "send" /\ Untouched(c)
  BY CallInCommand DEF SendCommand, CallIs
<1>2. r \in Request /\ r.command = c
  BY <1>1 DEF Request
<1>3. /\ call' = [call EXCEPT !.at = "waiting"]
      /\ requests' \in {requests, requests \cup {r}}
      /\ UNCHANGED <<done, outcome>>
  BY DEF SendCommand
<1>4. call' \in [command : Command, at : {"waiting"}] /\ call'.command = c
  BY <1>1, <1>3, CallInCommand
<1> HIDE DEF c, r
<1>5. CommandType'
  BY <1>2, <1>3, <1>4 DEF CommandType
<1>6. RequestedOnce'
  BY <1>1, <1>2, <1>3 DEF RequestedOnce, Untouched
<1>7. CallIs'
  BY <1>1, <1>3, <1>4 DEF CallIs, c
<1>8. OutcomeIs'
  BY <1>1, <1>2, <1>3, <1>4 DEF OutcomeIs, Untouched, CallIs, c
<1> QED
  BY <1>5, <1>6, <1>7, <1>8

\* The call ends with an outcome that is so.
LEMMA CallEndsCommand ==
    ASSUME CommandInv, call.at # "idle", NEW o \in Outcome,
           outcome' = [outcome EXCEPT ![call.command] = o],
           call' = NoCall, UNCHANGED <<requests, done>>,
           o = "raised" => call.at = "send",
           o = "accepted" => call.at = "accepted"
    PROVE  CommandInv'
<1> USE NoCallIs, CallInCommand, ConstantsAssumption DEF CommandInv
<1>1. CommandType'
  BY DEF CommandType
<1>2. RequestedOnce' /\ CallIs'
  BY DEF RequestedOnce, CallIs
<1>3. OutcomeIs'
  BY DEF OutcomeIs, CallIs, Untouched, CommandType, Outcome
<1> QED
  BY <1>1, <1>2, <1>3

LEMMA ServerCommand ==
    ASSUME CommandInv, NEW r \in requests, Executes(r) \/ Refuses(r)
    PROVE  CommandInv'
<1> USE NoCallIs, ConstantsAssumption DEF CommandInv
<1>1. r \in Request /\ r.command \in Command /\ done[r.command] = 0
  BY DEF CommandType, RequestedOnce, Request
<1>2. /\ requests' = requests \ {r}
      /\ \A q \in requests' : q.command # r.command
      /\ outcome' = outcome
  BY DEF Executes, Refuses, RequestedOnce, commands
<1>3. call.command = r.command => /\ call # NoCall
                                 /\ call.at # "send"
                                 /\ outcome[r.command] = None
  BY <1>1 DEF CallIs, Untouched
<1>4. /\ outcome[r.command] # "raised"
      /\ outcome[r.command] # "accepted"
      /\ outcome[r.command] = None => call.command = r.command
  BY <1>1 DEF OutcomeIs, Untouched
<1>5. CASE Executes(r)
  <2>1. /\ done' = [done EXCEPT ![r.command] = 1]
        /\ call' = IF call.command = r.command THEN [call EXCEPT !.at = "accepted"] ELSE call
    BY <1>1, <1>5 DEF Executes, CommandType
  <2>2. call'.command = call.command /\ (call = NoCall => call' = NoCall)
    BY <1>3, <2>1 DEF CommandType, NoCall
  <2>3. CommandType'
    BY <1>1, <1>2, <1>3, <2>1 DEF CommandType
  <2>4. RequestedOnce'
    BY <1>1, <1>2, <2>1 DEF RequestedOnce, CommandType
  <2>5. CallIs'
    BY <1>1, <1>2, <1>3, <2>1, <2>2 DEF CallIs, CommandType, Untouched
  <2>6. OutcomeIs'
    BY <1>1, <1>2, <1>3, <1>4, <2>1, <2>2 DEF OutcomeIs, CommandType, Untouched
  <2> QED
    BY <2>3, <2>4, <2>5, <2>6
<1>6. CASE Refuses(r)
  <2>1. /\ done' = done
        /\ call' = IF call.command = r.command THEN [call EXCEPT !.at = "refused"] ELSE call
    BY <1>6 DEF Refuses
  <2>2. call'.command = call.command /\ (call = NoCall => call' = NoCall)
    BY <1>3, <2>1 DEF CommandType, NoCall
  <2>3. CommandType'
    BY <1>1, <1>2, <1>3, <2>1 DEF CommandType
  <2>4. RequestedOnce'
    BY <1>1, <1>2, <2>1 DEF RequestedOnce
  <2>5. CallIs'
    BY <1>1, <1>2, <1>3, <2>1, <2>2 DEF CallIs, CommandType, Untouched
  <2>6. OutcomeIs'
    BY <1>1, <1>2, <1>3, <1>4, <2>1, <2>2 DEF OutcomeIs, Untouched
  <2> QED
    BY <2>3, <2>4, <2>5, <2>6
<1> QED
  BY <1>5, <1>6

\* The Tango thread, all of it.
LEMMA TangoThreadCommand ==
    ASSUME CommandInv, TangoThread
    PROVE  CommandInv'
<1>1. CASE CannotSend
  <2>1. call.at = "send" /\ outcome' = [outcome EXCEPT ![call.command] = "raised"]
    BY <1>1 DEF CannotSend
  <2> QED
    BY <1>1, <2>1, CallEndsCommand DEF CannotSend, server, Outcome
<1>2. CASE Answered
  <2>1. /\ call.at \in {"accepted", "refused"}
        /\ outcome' = [outcome EXCEPT ![call.command] = call.at]
    BY <1>2 DEF Answered
  <2> QED
    BY <1>2, <2>1, CallEndsCommand DEF Answered, server, Outcome
<1>3. CASE GivesUp
  <2>1. /\ call.at \in {"waiting", "accepted", "refused"}
        /\ outcome' = [outcome EXCEPT ![call.command] = "failed"]
    BY <1>3 DEF GivesUp
  <2> QED
    BY <1>3, <2>1, CallEndsCommand DEF GivesUp, server, Outcome
<1> QED
  BY <1>1, <1>2, <1>3, LookUpCommand, SendCommandCommand DEF TangoThread

\* No other step has to do with commands.
LEMMA OtherStepsCommand ==
    \/ MonitorThread \/ SocketThread \/ Disturbance \/ UNCHANGED vars
    \/ UpFlips \/ \E k \in Key : VariableChanges(k)
    => UNCHANGED CommandVars
<1> USE DEF CommandVars, server, client, threads, commands
<1>1. MonitorThread => UNCHANGED CommandVars
  BY DEF MonitorThread, MonitorMoves, MonitorWakes, Login, LoadConfig, OpenSocket,
         ClearReconnect, Maintain, GetAlarms, RequestFails, OpenSocketKills
<1>2. SocketThread => UNCHANGED CommandVars
  BY DEF SocketThread, SocketMoves, Receives, ReceivesMessage, ReceiveFails,
         ProcessesDatapoint, DatapointKills
<1>3. Disturbance \/ UpFlips \/ UNCHANGED vars => UNCHANGED CommandVars
  BY DEF Disturbance, Breaks, SessionExpires, UpFlips, vars
<1>4. (\E k \in Key : VariableChanges(k)) => UNCHANGED CommandVars
  BY DEF VariableChanges
<1> QED
  BY <1>1, <1>2, <1>3, <1>4

LEMMA CommandNext ==
    ASSUME CommandInv, [Next]_vars
    PROVE  CommandInv'
<1>1. CASE UNCHANGED CommandVars
  BY <1>1 DEF CommandVars, CommandInv, CommandType, RequestedOnce, CallIs, OutcomeIs,
              Untouched
<1> QED
  BY <1>1, OtherStepsCommand, TangoThreadCommand, ServerCommand DEF Next, Server

LEMMA CommandInvariant == Spec => []CommandInv
BY CommandInit, CommandNext, PTL DEF Spec

\* What a client can conclude from a command: one that raised was not and will
\* not be done, one that was accepted was done, and none is done twice, whether
\* answers are lost, late or to a client that has given up.
THEOREM CommandOutcomeAlways == Spec => []CommandOutcome
<1>1. CommandInv => CommandOutcome
  BY DEF CommandInv, CommandType, OutcomeIs, Untouched, CommandOutcome
<1> QED
  BY <1>1, CommandInvariant, PTL

-----------------------------------------------------------------------------
(* Values: the inductive invariant                                         *)

Message == UNION {[S -> Nat] : S \in SUBSET Key}
Websocket == [live : BOOLEAN, queue : Seq(Message)]

ValueType ==
    /\ value \in [Key -> Nat] /\ base \in [Key -> Nat]
    /\ past \in [Key -> SUBSET Nat]
    /\ devices \in {NoDevices, Config}
    /\ socket \in Websocket
    /\ old \in Websocket \cup {None}
    /\ batch \in Message /\ DOMAIN batch \subseteq DOMAIN devices
    /\ cache \in [Detail -> Nat \cup {None}]

\* Values are numbered in order, and the past remembers them.
Numbered ==
    /\ \E n \in Stamps : \A m \in Stamps : m <= n
    /\ \A k \in Key : value[k] \in past[k] /\ base[k] \in past[k]

\* A message tells of values the variables had.
Had(message) == \A k \in DOMAIN message : message[k] \in past[k]

FromServer ==
    /\ \A i \in 1..Len(socket.queue) : Had(socket.queue[i])
    /\ old # None => \A i \in 1..Len(old.queue) : Had(old.queue[i])
    /\ Had(batch)

\* The configuration is there before there is a websocket.
ConfiguredFirst ==
    socket.live \/ socket.queue # <<>> \/ monitor = "open" => devices = Config

\* Where the socket thread can have a replaced websocket, or a batch.
InPlace ==
    /\ old # None => thread = "recv"
    /\ replaced \/ batch # NoMessage => thread = "process"
    /\ fresh => old = None /\ ~replaced

\* A message tells of values no older than the current websocket.
Since(message) == \A k \in DOMAIN message : message[k] >= base[k]

SinceConnection ==
    /\ \A i \in 1..Len(socket.queue) : Since(socket.queue[i])
    /\ ~replaced => Since(batch)

\* Until the socket thread gets to it, the first message of the current
\* websocket is the one about all variables, unless it was lost with the websocket.
AllComeFirst ==
    Detail # {} /\ ~fresh /\ (replaced \/ thread \in {"check", "recv"}) =>
        /\ socket.live => socket.queue # <<>>
        /\ socket.queue # <<>> => DOMAIN Head(socket.queue) = Key

Recent(n) == Readable(n) /\ cache[n] >= base[Own(n)]

\* While that message is processed, what is not cached is still to come.
FirstProcessed ==
    thread = "process" /\ ~replaced /\ ~fresh =>
        \A n \in Detail : Own(n) \in DOMAIN batch \/ Recent(n)

ValueInv == ValueType /\ Numbered /\ FromServer /\ OwnValuesOnly

FreshInv ==
    /\ ConfiguredFirst
    /\ InPlace
    /\ SinceConnection
    /\ AllComeFirst
    /\ FirstProcessed
    /\ NotOlderThanConnection

-----------------------------------------------------------------------------
(* Values: what the helpers give                                           *)

LEMMA MessageIs ==
    \A m : m \in Message <=> DOMAIN m \subseteq Key /\ m \in [DOMAIN m -> Nat]
BY DEF Message

LEMMA NoMessageIs ==
    /\ NoMessage \in Message /\ DOMAIN NoMessage = {}
    /\ \A m \in Message : DOMAIN m = {} => m = NoMessage
<1>1. NoMessage \in Message /\ DOMAIN NoMessage = {}
  BY MessageIs DEF NoMessage
<1>2. ASSUME NEW m \in Message, DOMAIN m = {} PROVE m = NoMessage
  BY <1>1, <1>2, MessageIs
<1> QED
  BY <1>1, <1>2

\* A message without some of its variables.
LEMMA RestrictedIs ==
    ASSUME NEW m \in Message, NEW S \in SUBSET DOMAIN m
    PROVE  /\ [j \in S |-> m[j]] \in Message
           /\ DOMAIN [j \in S |-> m[j]] = S
           /\ \A j \in S : [k \in S |-> m[k]][j] = m[j]
BY MessageIs

LEMMA DevicesIs ==
    /\ DOMAIN NoDevices = {} /\ DOMAIN Config = Key
    /\ \A k \in Key : /\ Config[k].device = DeviceName[k[1]]
                      /\ Config[k].attribute = AttributeName[k]
BY DEF NoDevices, Config

\* The variable of an attribute, which the configuration knows.
LEMMA OwnIs ==
    /\ \A n \in Detail : /\ Own(n) \in Key
                         /\ DeviceName[Own(n)[1]] = ChillerName
                         /\ AttributeName[Own(n)] = n
    /\ \A k \in Key : DeviceName[k[1]] = ChillerName /\ AttributeName[k] \in Detail
                      => Own(AttributeName[k]) = k
<1>1. ASSUME NEW n \in Detail
      PROVE  \E k \in Key : /\ DeviceName[k[1]] = ChillerName /\ AttributeName[k] = n
                            /\ \A j \in Key :
                                 DeviceName[j[1]] = ChillerName /\ AttributeName[j] = n
                                 => j = k
  BY VariablesAssumption
<1>2. ASSUME NEW n \in Detail
      PROVE  /\ Own(n) \in Key
             /\ DeviceName[Own(n)[1]] = ChillerName
             /\ AttributeName[Own(n)] = n
  BY <1>1, Zenon DEF Own
<1> QED
  BY <1>1, <1>2

\* Of a message, the datapoints that have a name; an attribute's has one.
LEMMA DatapointsIs ==
    ASSUME NEW m \in Message, devices \in {NoDevices, Config}
    PROVE  /\ Datapoints(m) \in Message
           /\ DOMAIN Datapoints(m) \subseteq DOMAIN m \cap DOMAIN devices
           /\ \A k \in DOMAIN Datapoints(m) : Datapoints(m)[k] = m[k]
           /\ devices = Config => \A n \in Detail :
                  Own(n) \in DOMAIN m => Own(n) \in DOMAIN Datapoints(m)
<1> DEFINE S == {k \in DOMAIN m \cap DOMAIN devices : devices[k].attribute # None}
<1>1. Datapoints(m) = [k \in S |-> m[k]]
  BY DEF Datapoints
<1>2. devices = Config => \A n \in Detail : Own(n) \in DOMAIN m => Own(n) \in S
  BY OwnIs, DevicesIs, ConstantsAssumption
<1>3. S \in SUBSET DOMAIN m /\ S \subseteq DOMAIN devices
  OBVIOUS
<1> HIDE DEF S
<1> QED
  BY <1>1, <1>2, <1>3, RestrictedIs

\* A message is sent on a websocket, unless it is broken.
LEMMA SentIs ==
    ASSUME NEW s \in Websocket, NEW m \in Message
    PROVE  /\ Sent(s, m) \in Websocket
           /\ Sent(s, m).live = s.live
           /\ \A i \in 1..Len(Sent(s, m).queue) :
                  \/ Sent(s, m).queue[i] = m
                  \/ \E j \in 1..Len(s.queue) : Sent(s, m).queue[i] = s.queue[j]
           /\ s.queue # <<>> => /\ Sent(s, m).queue # <<>>
                                /\ Head(Sent(s, m).queue) = Head(s.queue)
           /\ Sent(s, m).queue # <<>> => s.live \/ s.queue # <<>>
<1>1. s.queue \in Seq(Message) /\ s.live \in BOOLEAN
  BY DEF Websocket
<1>2. CASE s # None /\ s.live
  <2> DEFINE q == Append(s.queue, m)
  <2>1. Sent(s, m) = [s EXCEPT !.queue = q]
    BY <1>2 DEF Sent
  <2>2. /\ q \in Seq(Message) /\ q # <<>>
        /\ \A i \in 1..Len(q) : q[i] = m \/ \E j \in 1..Len(s.queue) : q[i] = s.queue[j]
        /\ s.queue # <<>> => Head(q) = Head(s.queue)
    <3>1. /\ q \in Seq(Message) /\ Len(q) = Len(s.queue) + 1
          /\ \A i \in 1..Len(s.queue) : q[i] = s.queue[i]
          /\ q[Len(q)] = m
      BY <1>1
    <3>2. \A i \in 1..Len(q) : i = Len(q) \/ i \in 1..Len(s.queue)
      BY <1>1, <3>1
    <3>3. s.queue # <<>> => Head(q) = Head(s.queue)
      BY <1>1
    <3> HIDE DEF q
    <3> QED
      BY <1>1, <3>1, <3>2, <3>3
  <2>3. [s EXCEPT !.queue = q] = [live |-> s.live, queue |-> q]
    BY DEF Websocket
  <2> HIDE DEF q
  <2> QED
    BY <1>1, <1>2, <2>1, <2>2, <2>3 DEF Websocket
<1>3. CASE ~(s # None /\ s.live)
  BY <1>1, <1>3 DEF Sent
<1> QED
  BY <1>2, <1>3

LEMMA NewestIs ==
    ASSUME ValueType, Numbered
    PROVE  Newest \in Nat /\ \A k \in Key : \A m \in past[k] : m <= Newest
<1>1. Newest \in Stamps /\ \A m \in Stamps : m <= Newest
  BY Zenon DEF Numbered, Newest
<1>2. Stamps \subseteq Nat /\ \A k \in Key : past[k] \subseteq Stamps
  BY DEF ValueType, Stamps
<1> QED
  BY <1>1, <1>2

-----------------------------------------------------------------------------
(* Values: the steps                                                       *)

ValueVars == <<value, base, past, devices, socket, old, batch, cache>>
FreshVars == <<ValueVars, thread, replaced, fresh>>

LEMMA ValueInit == Init => ValueInv /\ FreshInv
<1> SUFFICES ASSUME Init PROVE ValueInv /\ FreshInv
  OBVIOUS
<1> USE NoMessageIs, DevicesIs DEF Init
<1>1. ValueType
  BY DEF ValueType, Websocket, NoSocket
<1>2. Numbered
  <2>1. 0 \in Stamps /\ \A m \in Stamps : m = 0
    BY ConstantsAssumption DEF Stamps
  <2> QED
    BY <2>1 DEF Numbered
<1>3. FromServer /\ OwnValuesOnly
  BY DEF FromServer, Had, NoSocket, OwnValuesOnly, Readable
<1>4. ConfiguredFirst /\ InPlace /\ SinceConnection /\ AllComeFirst
  BY DEF ConfiguredFirst, InPlace, SinceConnection, Since, AllComeFirst, NoSocket
<1>5. FirstProcessed /\ NotOlderThanConnection
  BY DEF FirstProcessed, NotOlderThanConnection
<1> QED
  BY <1>1, <1>2, <1>3, <1>4, <1>5 DEF ValueInv, FreshInv

\* Most steps have nothing to do with values.
LEMMA OtherStepsValue ==
    ASSUME ValueInv, FreshInv, UNCHANGED FreshVars, monitor' = "open" => monitor = "open"
    PROVE  ValueInv' /\ FreshInv'
<1> USE DEF FreshVars, ValueVars
<1>1. ValueInv'
  BY DEF ValueInv, ValueType, Numbered, Stamps, FromServer, Had, OwnValuesOnly, Readable
<1>2. FreshInv'
  BY DEF FreshInv, ConfiguredFirst, InPlace, SinceConnection, Since, AllComeFirst,
         FirstProcessed, Recent, NotOlderThanConnection, Readable
<1> QED
  BY <1>1, <1>2

LEMMA LoadConfigValue ==
    ASSUME ValueInv, FreshInv, LoadConfig
    PROVE  ValueInv' /\ FreshInv'
<1> USE DevicesIs, MessageIs DEF LoadConfig, MonitorMoves, server, commands
<1>1. ValueInv'
  BY DEF ValueInv, ValueType, Numbered, Stamps, FromServer, Had, OwnValuesOnly, Readable
<1>2. FreshInv'
  BY DEF FreshInv, ConfiguredFirst, InPlace, SinceConnection, Since, AllComeFirst,
         FirstProcessed, Recent, NotOlderThanConnection, Readable
<1> QED
  BY <1>1, <1>2

\* A new websocket starts with the values of this moment, for all variables;
\* what the socket thread is at comes from the one before.
LEMMA OpenSocketValue ==
    ASSUME ValueInv, FreshInv, OpenSocket
    PROVE  ValueInv' /\ FreshInv'
<1> USE DEF OpenSocket, MonitorMoves, server, commands
<1>1. value \in Message /\ DOMAIN value = Key
  BY MessageIs DEF ValueInv, ValueType
<1>2. /\ socket'.queue = <<value>> /\ socket'.live = TRUE
      /\ socket' \in Websocket
      /\ base' = value /\ ~fresh' /\ monitor' # "open"
  BY <1>1 DEF Websocket
<1>3. /\ Len(socket'.queue) = 1 /\ socket'.queue[1] = value
      /\ Head(socket'.queue) = value /\ socket'.queue # <<>>
  BY <1>2
<1>4. old' \in {old, socket} /\ (old' = old \/ thread = "recv")
  OBVIOUS
<1>5. ValueType' /\ Numbered'
  BY <1>2, <1>4 DEF ValueInv, ValueType, Numbered, Stamps
<1>6. FromServer' /\ OwnValuesOnly'
  <2>1. Had(value)'
    BY <1>1 DEF ValueInv, Numbered, Had
  <2>2. (\A i \in 1..Len(socket.queue) : Had(socket.queue[i]))'
    BY <1>3, <2>1 DEF Had
  <2>3. (old # None => \A i \in 1..Len(old.queue) : Had(old.queue[i]))'
    BY <1>4 DEF ValueInv, FromServer, Had
  <2> QED
    BY <2>2, <2>3 DEF ValueInv, FromServer, Had, OwnValuesOnly, Readable
<1>7. ConfiguredFirst' /\ InPlace'
  BY <1>2, <1>4 DEF FreshInv, ConfiguredFirst, InPlace
<1>8. SinceConnection'
  <2>1. (\A i \in 1..Len(socket.queue) : Since(socket.queue[i]))'
    BY <1>1, <1>2, <1>3 DEF Since, ValueInv, ValueType
  <2>2. ~replaced' => Since(batch)'
    BY NoMessageIs DEF FreshInv, InPlace, Since
  <2> QED
    BY <2>1, <2>2 DEF SinceConnection
<1>9. AllComeFirst' /\ FirstProcessed' /\ NotOlderThanConnection'
  BY <1>1, <1>2, <1>3 DEF AllComeFirst, FirstProcessed, NotOlderThanConnection
<1> QED
  BY <1>5, <1>6, <1>7, <1>8, <1>9 DEF ValueInv, FreshInv

\* A change gets a number of its own, and every websocket is told.
LEMMA ChangesValue ==
    ASSUME ValueInv, FreshInv, NEW k \in Key, Changes(k),
           UNCHANGED <<base, devices, batch, cache, monitor, thread, replaced, fresh>>
    PROVE  ValueInv' /\ FreshInv'
<1> DEFINE new == Newest + 1
           message == [j \in {k} |-> new]
<1>1. /\ new \in Nat /\ \A j \in Key : \A m \in past[j] : m < new
      /\ message \in Message /\ DOMAIN message = {k} /\ message[k] = new
  <2>1. Newest \in Nat /\ \A j \in Key : \A m \in past[j] : m \in Nat /\ m <= Newest
    BY NewestIs DEF ValueInv, ValueType
  <2>2. new \in Nat /\ \A j \in Key : \A m \in past[j] : m < new
    BY <2>1
  <2> HIDE DEF new
  <2> QED
    BY <2>2, MessageIs
<1>2. /\ value' = [value EXCEPT ![k] = new]
      /\ past' = [past EXCEPT ![k] = past[k] \cup {new}]
      /\ socket' = Sent(socket, message)
      /\ old' = Sent(old, message)
  BY DEF Changes
<1> HIDE DEF new, message
<1>3. /\ socket' \in Websocket
      /\ old' \in Websocket \cup {None} /\ (old' # None => old # None)
  BY <1>1, <1>2, SentIs DEF ValueInv, ValueType, Sent
<1>4. ValueType'
  BY <1>1, <1>2, <1>3 DEF ValueInv, ValueType
<1>5. /\ Stamps' = Stamps \cup {new}
      /\ Stamps \subseteq Nat /\ \A m \in Stamps : m < new
  BY <1>1, <1>2 DEF Stamps, ValueInv, ValueType
<1>6. Numbered'
  <2>1. new \in Stamps' /\ \A m \in Stamps' : m <= new
    <3>1. new \in Nat
      BY <1>1
    <3>2. \A m \in Stamps' : m = new \/ (m \in Nat /\ m < new)
      BY <1>5
    <3> QED  BY <1>5, <3>1, <3>2
  <2>2. \A j \in Key : value'[j] \in past'[j] /\ base'[j] \in past'[j]
    BY <1>1, <1>2 DEF ValueInv, ValueType, Numbered
  <2> QED
    BY <2>1, <2>2 DEF Numbered
<1>7. /\ \A j \in DOMAIN message : message[j] \in past'[j]
      /\ \A m \in Message : Had(m) => \A j \in DOMAIN m : m[j] \in past'[j]
  <2>1. \A j \in Key : past[j] \subseteq past'[j]
    BY <1>2 DEF ValueInv, ValueType
  <2>2. new \in past'[k]
    BY <1>2 DEF ValueInv, ValueType
  <2>3. \A j \in DOMAIN message : message[j] \in past'[j]
    BY <1>1, <2>2
  <2>4. ASSUME NEW m \in Message, Had(m) PROVE \A j \in DOMAIN m : m[j] \in past'[j]
    BY <2>1, <2>4, MessageIs DEF Had
  <2> QED
    BY <2>3, <2>4
<1>8. /\ \A i \in 1..Len(socket'.queue) :
             \/ socket'.queue[i] = message
             \/ \E j \in 1..Len(socket.queue) : socket'.queue[i] = socket.queue[j]
      /\ old' # None => \A i \in 1..Len(old'.queue) :
             \/ old'.queue[i] = message
             \/ \E j \in 1..Len(old.queue) : old'.queue[i] = old.queue[j]
  <2>1. socket \in Websocket /\ (old' # None => old \in Websocket)
    BY <1>3 DEF ValueInv, ValueType
  <2> QED
    BY <1>1, <1>2, <2>1, SentIs
<1>9. FromServer'
  <2>1. \A i \in 1..Len(socket.queue) : socket.queue[i] \in Message /\ Had(socket.queue[i])
    BY DEF ValueInv, ValueType, Websocket, FromServer
  <2>2. (\A i \in 1..Len(socket.queue) : Had(socket.queue[i]))'
    BY <1>7, <1>8, <2>1 DEF Had
  <2>3. ASSUME old' # None PROVE (\A i \in 1..Len(old.queue) : Had(old.queue[i]))'
    <3>1. old \in Websocket
      BY <1>3, <2>3 DEF ValueInv, ValueType
    <3>2. \A i \in 1..Len(old.queue) : old.queue[i] \in Message /\ Had(old.queue[i])
      BY <1>3, <2>3, <3>1 DEF ValueInv, FromServer, Websocket
    <3> QED
      BY <1>7, <1>8, <2>3, <3>2 DEF Had
  <2>4. Had(batch)'
    BY <1>7 DEF Had, ValueInv, ValueType, FromServer
  <2> QED
    BY <2>2, <2>3, <2>4 DEF FromServer
<1>10. OwnValuesOnly'
  BY <1>2, OwnIs DEF OwnValuesOnly, Readable, ValueInv, ValueType
<1>11. ConfiguredFirst' /\ InPlace' /\ AllComeFirst'
  BY <1>1, <1>2, <1>3, SentIs
  DEF FreshInv, ConfiguredFirst, InPlace, AllComeFirst, ValueInv, ValueType
<1>12. SinceConnection'
  <2>1. Since(message)
    BY <1>1 DEF Since, ValueInv, ValueType, Numbered
  <2>2. (\A i \in 1..Len(socket.queue) : Since(socket.queue[i]))'
    BY <1>8, <2>1 DEF Since, FreshInv, SinceConnection
  <2>3. (~replaced => Since(batch))'
    BY DEF Since, FreshInv, SinceConnection
  <2> QED
    BY <2>2, <2>3 DEF SinceConnection
<1>13. FirstProcessed' /\ NotOlderThanConnection'
  BY DEF FreshInv, FirstProcessed, NotOlderThanConnection, Recent, Readable
<1> QED
  BY <1>4, <1>6, <1>9, <1>10, <1>11, <1>12, <1>13 DEF ValueInv, FreshInv

\* A websocket breaks with all or none of what was on its way.
LEMMA BreaksValue ==
    ASSUME ValueInv, FreshInv, Breaks
    PROVE  ValueInv' /\ FreshInv'
<1> USE DEF server, commands
<1> DEFINE lost(w) == [live |-> FALSE, queue |-> <<>>]
           kept(w) == [live |-> FALSE, queue |-> w.queue]
<1>1. /\ socket' \in {socket, lost(socket), kept(socket)}
      /\ old' = old \/ (old # None /\ old' \in {lost(old), kept(old)})
      /\ UNCHANGED <<value, past, base, devices, monitor, batch, cache, thread, replaced, fresh>>
  <2>1. ASSUME NEW w, NEW q \in {<<>>, w.queue}
        PROVE  [live |-> FALSE, queue |-> q] \in {lost(w), kept(w)}
    <3>1. q = <<>> \/ q = w.queue
      BY <2>1
    <3> QED
      BY <3>1
  <2> QED
    BY <2>1, Zenon DEF Breaks
<1>2. \A w \in Websocket : /\ lost(w) \in Websocket /\ lost(w).queue = <<>> /\ ~lost(w).live
                           /\ kept(w) \in Websocket /\ kept(w).queue = w.queue /\ ~kept(w).live
  BY DEF Websocket
<1> HIDE DEF lost, kept
<1>3. socket' \in Websocket /\ (socket'.queue = <<>> \/ socket'.queue = socket.queue)
  BY <1>1, <1>2 DEF ValueInv, ValueType
<1>4. /\ old' \in Websocket \cup {None}
      /\ old' # None => old # None /\ (old'.queue = <<>> \/ old'.queue = old.queue)
      /\ old = None => old' = None
  BY <1>1, <1>2 DEF ValueInv, ValueType
<1>5. socket'.live => socket.live /\ socket'.queue = socket.queue
  BY <1>1, <1>2 DEF ValueInv, ValueType
<1>6. ValueType' /\ Numbered' /\ OwnValuesOnly'
  BY <1>1, <1>3, <1>4
  DEF ValueInv, ValueType, Numbered, Stamps, OwnValuesOnly, Readable
<1>7. FromServer'
  BY <1>1, <1>3, <1>4 DEF ValueInv, FromServer, Had
<1>8. ConfiguredFirst' /\ InPlace' /\ AllComeFirst'
  BY <1>1, <1>3, <1>4, <1>5 DEF FreshInv, ConfiguredFirst, InPlace, AllComeFirst
<1>9. SinceConnection' /\ FirstProcessed' /\ NotOlderThanConnection'
  BY <1>1, <1>3
  DEF FreshInv, SinceConnection, Since, FirstProcessed, NotOlderThanConnection, Recent, Readable
<1> QED
  BY <1>6, <1>7, <1>8, <1>9 DEF ValueInv, FreshInv

LEMMA ReceiveEndsValue ==
    ASSUME ValueInv, FreshInv, Receives \/ ReceiveFails
    PROVE  ValueInv' /\ FreshInv'
<1>1. /\ UNCHANGED <<value, past, base, devices, socket, monitor, batch, cache, replaced, fresh>>
      /\ old' = None
      /\ thread \in {"check", "recv"} /\ thread' \in {"check", "recv"}
  BY DEF Receives, ReceiveFails, SocketMoves, server
<1>2. ValueInv'
  BY <1>1
  DEF ValueInv, ValueType, Numbered, Stamps, FromServer, Had, OwnValuesOnly, Readable
<1>3. FreshInv'
  BY <1>1
  DEF FreshInv, ConfiguredFirst, InPlace, SinceConnection, Since, AllComeFirst,
      FirstProcessed, Recent, NotOlderThanConnection, Readable
<1> QED
  BY <1>2, <1>3

\* A message from a replaced websocket makes a replaced batch; the first one of
\* the current websocket is about all variables.
LEMMA ReceivesMessageValue ==
    ASSUME ValueInv, FreshInv, ReceivesMessage
    PROVE  ValueInv' /\ FreshInv'
<1> DEFINE source == IF old = None THEN socket ELSE old
           message == Head(source.queue)
           points == Datapoints(message)
           received == [socket EXCEPT !.queue = Tail(socket.queue)]
<1>1. /\ source \in Websocket /\ source.queue # <<>>
      /\ message \in Message /\ Had(message)
      /\ old = None => Since(message)
  <2>1. /\ source \in Websocket /\ source.queue # <<>>
        /\ \A i \in 1..Len(source.queue) : Had(source.queue[i])
        /\ old = None => \A i \in 1..Len(source.queue) : Since(source.queue[i])
    BY DEF ReceivesMessage, ValueInv, ValueType, FromServer, FreshInv, SinceConnection
  <2>2. source.queue \in Seq(Message)
    BY <2>1 DEF Websocket
  <2> HIDE DEF source
  <2>3. message = source.queue[1] /\ 1 \in 1..Len(source.queue) /\ message \in Message
    BY <2>1, <2>2
  <2> QED
    BY <2>1, <2>3
<1>2. /\ points \in Message
      /\ DOMAIN points \subseteq DOMAIN message \cap DOMAIN devices
      /\ \A k \in DOMAIN points : points[k] = message[k]
      /\ devices = Config => \A n \in Detail :
             Own(n) \in DOMAIN message => Own(n) \in DOMAIN points
  <2>1. devices \in {NoDevices, Config}
    BY DEF ValueInv, ValueType
  <2> QED
    BY <1>1, <2>1, DatapointsIs
<1>3. Had(points) /\ (old = None => Since(points))
  BY <1>1, <1>2 DEF Had, Since
<1>4. old = None =>
          /\ received \in Websocket /\ received.live = socket.live
          /\ \A i \in 1..Len(received.queue) : \E j \in 1..Len(socket.queue) :
                 received.queue[i] = socket.queue[j]
  <2> DEFINE q == socket.queue
  <2> HAVE old = None
  <2>1. socket \in Websocket /\ q # <<>>
    BY <1>1 DEF ValueInv, ValueType
  <2>2. q \in Seq(Message) /\ socket.live \in BOOLEAN
    BY <2>1 DEF Websocket
  <2>3. received = [live |-> socket.live, queue |-> Tail(q)]
    BY <2>1 DEF Websocket
  <2> HIDE DEF q, received
  <2>4. /\ Tail(q) \in Seq(Message) /\ Len(q) \in Nat
        /\ Len(Tail(q)) = Len(q) - 1
        /\ \A i \in 1..Len(Tail(q)) : Tail(q)[i] = q[i + 1]
    BY <2>1, <2>2
  <2>5. \A i \in 1..(Len(q) - 1) : i + 1 \in 1..Len(q)
    BY <2>4
  <2> QED
    BY <2>2, <2>3, <2>4, <2>5 DEF Websocket, q
<1>5. /\ UNCHANGED <<value, past, base, devices, monitor, cache, fresh>>
      /\ thread = "recv" /\ thread' = IF points = NoMessage THEN "check" ELSE "process"
      /\ batch' = points
      /\ socket' = IF old = None THEN received ELSE socket
      /\ old' = None
      /\ replaced' = (old # None /\ points # NoMessage)
  BY DEF ReceivesMessage, SocketMoves, server
<1>6. old = None /\ Detail # {} /\ ~fresh
      => /\ DOMAIN message = Key /\ devices = Config
         /\ \A n \in Detail : Own(n) \in DOMAIN points
  <2>1. ASSUME old = None, Detail # {}, ~fresh
        PROVE  DOMAIN message = Key /\ devices = Config
    BY <1>1, <1>5, <2>1 DEF FreshInv, AllComeFirst, ConfiguredFirst
  <2> QED
    BY <1>2, <2>1, OwnIs
<1> HIDE DEF source, message, points, received
<1>7. ValueInv'
  <2>1. ValueType' /\ Numbered' /\ OwnValuesOnly'
    BY <1>2, <1>4, <1>5
    DEF ValueInv, ValueType, Numbered, Stamps, OwnValuesOnly, Readable
  <2>2. FromServer'
    BY <1>3, <1>4, <1>5 DEF ValueInv, FromServer, Had
  <2> QED
    BY <2>1, <2>2 DEF ValueInv
<1>8. ConfiguredFirst' /\ InPlace'
  <2>1. socket'.live \/ socket'.queue # <<>> => socket.live \/ socket.queue # <<>>
    BY <1>1, <1>4, <1>5 DEF source
  <2> QED
    BY <1>5, <2>1 DEF FreshInv, ConfiguredFirst, InPlace
<1>9. SinceConnection'
  <2>1. \A i \in 1..Len(socket'.queue) :
            \E j \in 1..Len(socket.queue) : socket'.queue[i] = socket.queue[j]
    BY <1>4, <1>5
  <2>2. (\A i \in 1..Len(socket.queue) : Since(socket.queue[i]))'
    BY <1>5, <2>1 DEF FreshInv, SinceConnection, Since
  <2>3. replaced' \/ old = None \/ points = NoMessage
    BY <1>5
  <2>4. ~replaced' => Since(batch)'
    BY <1>3, <1>5, <2>3, NoMessageIs DEF Since
  <2> QED
    BY <2>2, <2>4 DEF SinceConnection
<1>10. AllComeFirst'
  <2>1. CASE old = None /\ Detail # {} /\ ~fresh
    <3>1. points # NoMessage
      BY <1>6, <2>1, NoMessageIs
    <3> QED
      BY <1>5, <2>1, <3>1 DEF AllComeFirst
  <2>2. CASE old # None \/ Detail = {} \/ fresh
    BY <1>5, <2>2 DEF FreshInv, AllComeFirst
  <2> QED
    BY <2>1, <2>2
<1>11. FirstProcessed'
  BY <1>5, <1>6 DEF FirstProcessed
<1>12. NotOlderThanConnection'
  BY <1>5 DEF FreshInv, NotOlderThanConnection, Readable
<1> QED
  BY <1>7, <1>8, <1>9, <1>10, <1>11, <1>12 DEF FreshInv

LEMMA ProcessesDatapointValue ==
    ASSUME ValueInv, FreshInv, NEW k \in Key, ProcessesDatapoint(k)
    PROVE  ValueInv' /\ FreshInv'
<1> DEFINE rest == [j \in DOMAIN batch \ {k} |-> batch[j]]
<1>1. /\ UNCHANGED <<value, past, base, devices, monitor, socket, old>>
      /\ k \in DOMAIN batch
      /\ thread = "process" /\ thread' = IF rest = NoMessage THEN "check" ELSE "process"
      /\ cache' = IF IsOwn(k) THEN [cache EXCEPT ![devices[k].attribute] = batch[k]] ELSE cache
      /\ batch' = rest
      /\ replaced' = (replaced /\ rest # NoMessage)
      /\ fresh' = (fresh \/ (rest = NoMessage /\ ~replaced))
  BY DEF ProcessesDatapoint, SocketMoves, server
<1>2. /\ rest \in Message /\ DOMAIN rest = DOMAIN batch \ {k}
      /\ \A j \in DOMAIN rest : rest[j] = batch[j]
      /\ batch[k] \in Nat /\ batch[k] \in past[k]
  BY <1>1, RestrictedIs, MessageIs DEF ValueInv, ValueType, FromServer, Had
<1> HIDE DEF rest
<1>3. \* the attribute whose variable this is
      /\ devices = Config
      /\ IsOwn(k) => AttributeName[k] \in Detail /\ Own(AttributeName[k]) = k
      /\ \A n \in Detail : Own(n) = k => IsOwn(k) /\ AttributeName[k] = n
  <2>1. devices = Config
    BY <1>1, DevicesIs DEF ValueInv, ValueType
  <2> QED
    BY <2>1, DevicesIs, OwnIs DEF IsOwn
<1>4. \A n \in Detail : cache'[n] = IF Own(n) = k THEN batch[k] ELSE cache[n]
  BY <1>1, <1>3, DevicesIs DEF ValueInv, ValueType
<1>5. cache' \in [Detail -> Nat \cup {None}]
  BY <1>1, <1>2, <1>3, DevicesIs DEF ValueInv, ValueType
<1>6. ValueInv'
  <2>1. ValueType' /\ Numbered'
    BY <1>1, <1>2, <1>5 DEF ValueInv, ValueType, Numbered, Stamps
  <2>2. FromServer'
    BY <1>1, <1>2 DEF ValueInv, FromServer, Had
  <2>3. OwnValuesOnly'
    BY <1>1, <1>2, <1>4 DEF ValueInv, OwnValuesOnly, Readable
  <2> QED
    BY <2>1, <2>2, <2>3 DEF ValueInv
<1>7. ConfiguredFirst' /\ SinceConnection'
  BY <1>1, <1>2, NoMessageIs
  DEF FreshInv, ConfiguredFirst, SinceConnection, Since, InPlace
<1>8. InPlace'
  BY <1>1 DEF FreshInv, InPlace
<1>9. AllComeFirst'
  BY <1>1 DEF FreshInv, AllComeFirst
<1>10. ~replaced => \A n \in Detail : Recent(n) \/ Own(n) = k => Recent(n)'
  <2>1. ASSUME ~replaced PROVE batch[k] >= base[k] /\ batch[k] # None
    BY <1>1, <1>2, <2>1, ConstantsAssumption DEF FreshInv, SinceConnection, Since
  <2> QED
    BY <1>1, <1>4, <2>1 DEF Recent, Readable
<1>11. FirstProcessed'
  BY <1>1, <1>2, <1>10 DEF FreshInv, FirstProcessed
<1>12. NotOlderThanConnection'
  <2>1. CASE fresh
    BY <1>1, <1>10, <2>1 DEF FreshInv, InPlace, NotOlderThanConnection, Recent, Readable
  <2>2. CASE ~fresh /\ fresh'
    <3>1. ~replaced /\ DOMAIN batch = {k}
      BY <1>1, <1>2, <2>2, NoMessageIs
    <3>2. \A n \in Detail : Own(n) = k \/ Recent(n)
      BY <1>1, <2>2, <3>1 DEF FreshInv, FirstProcessed
    <3> QED
      BY <1>10, <3>1, <3>2 DEF NotOlderThanConnection, Recent, Readable
  <2> QED
    BY <2>1, <2>2 DEF NotOlderThanConnection
<1> QED
  BY <1>6, <1>7, <1>8, <1>9, <1>11, <1>12 DEF FreshInv

\* A thread that has died has nothing more to do with values.
LEMMA DatapointKillsValue ==
    ASSUME ValueInv, FreshInv, NEW k \in Key, DatapointKills(k)
    PROVE  ValueInv' /\ FreshInv'
<1> USE NoMessageIs DEF DatapointKills, SocketMoves, server
<1>1. ValueInv'
  BY DEF ValueInv, ValueType, Numbered, Stamps, FromServer, Had, OwnValuesOnly, Readable
<1>2. FreshInv'
  BY DEF FreshInv, ConfiguredFirst, InPlace, SinceConnection, Since, AllComeFirst,
         FirstProcessed, Recent, NotOlderThanConnection, Readable
<1> QED
  BY <1>1, <1>2

-----------------------------------------------------------------------------
LEMMA ValueNext ==
    ASSUME ValueInv, FreshInv, [Next]_vars
    PROVE  ValueInv' /\ FreshInv'
<1> DEFINE Idle == UNCHANGED FreshVars /\ (monitor' = "open" => monitor = "open")
<1> USE DEF FreshVars, ValueVars, server, client, threads, commands
<1>1. MonitorThread => Idle \/ LoadConfig \/ OpenSocket
  BY DEF MonitorThread, MonitorMoves, MonitorWakes, Login, ClearReconnect, Maintain,
         GetAlarms, RequestFails, OpenSocketKills
<1>2. TangoThread \/ UpFlips \/ SessionExpires \/ UNCHANGED vars => Idle
  BY DEF TangoThread, LookUp, SendCommand, CannotSend, Answered, GivesUp, UpFlips,
         SessionExpires, vars
<1>3. ASSUME NEW r \in requests, Executes(r) \/ Refuses(r)
      PROVE  ValueInv' /\ FreshInv'
  <2>1. CASE Executes(r) /\ Changes(Controlled)
    BY <2>1, ChangesValue, ConstantsAssumption DEF Executes
  <2>2. CASE Idle
    BY <2>2, OtherStepsValue
  <2> QED
    BY <1>3, <2>1, <2>2 DEF Executes, Refuses
<1>4. ASSUME NEW k \in Key, VariableChanges(k)
      PROVE  ValueInv' /\ FreshInv'
  BY <1>4, ChangesValue DEF VariableChanges
<1>5. SocketThread => ValueInv' /\ FreshInv'
  BY ReceiveEndsValue, ReceivesMessageValue, ProcessesDatapointValue,
     DatapointKillsValue DEF SocketThread
<1> QED
  BY <1>1, <1>2, <1>3, <1>4, <1>5, OtherStepsValue, LoadConfigValue, OpenSocketValue,
     BreaksValue DEF Next, Server, Disturbance

LEMMA ValueInvariant == Spec => [](ValueInv /\ FreshInv)
BY ValueInit, ValueNext, PTL DEF Spec

\* A client reads only values that this chiller's variable of that name has had.
THEOREM OwnValuesOnlyAlways == Spec => []OwnValuesOnly
<1>1. ValueInv => OwnValuesOnly
  BY DEF ValueInv
<1> QED
  BY <1>1, ValueInvariant, PTL

\* Once the first message of a websocket has been processed, clients read nothing
\* older than that websocket, although its predecessors are not closed and what
\* they brought may be half processed.
THEOREM NotOlderThanConnectionAlways == Spec => []NotOlderThanConnection
<1>1. FreshInv => NotOlderThanConnection
  BY DEF FreshInv
<1> QED
  BY <1>1, ValueInvariant, PTL
=============================================================================
