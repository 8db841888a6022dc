-------------------------- MODULE AttributePolling --------------------------
(***************************************************************************)
(* The attribute-polling component manager and its Tango device:           *)
(*   ska_low_itf_devices/attribute_polling_component_manager.py            *)
(*   ska_low_itf_devices/attribute_polling_device.py                       *)
(* with the two poll() implementations that plug into it, SNMP (chunked    *)
(* PDUs) and ProXR (one relay per exchange over a fresh TCP connection).   *)
(*                                                                         *)
(* Two threads share the manager.  The Tango thread admits a client write  *)
(* and enqueues it; the polling thread drains the queue, talks to the      *)
(* hardware and reports.  A third party (the operator) asks the poller to  *)
(* start and stop, and the hardware becomes unreachable and changes.       *)
(***************************************************************************)
EXTENDS Naturals, Sequences, FiniteSets

CONSTANTS
    Attr,        \* the dynamic attributes of the device
    Period,      \* Period[a]: polling_period of a in ticks; Inf is ".inf"
    MaxAge,      \* ages saturate here: no finite period is longer
    Transport,   \* which poll() runs: "snmp" or "proxr"
    MaxObjects,  \* SNMP: objects per PDU (MaxObjectsPerSNMPCmd)
    Drift,       \* TRUE: the hardware also changes its values by itself
    MaxStamp,    \* bound: client writes plus hardware changes explored
    None         \* Python's None

\* Longer than every finite age; time.time() - float("-inf") in the code.
Inf == MaxAge + 1

ASSUME ConstantsAssumption ==
    /\ MaxAge \in Nat
    /\ Period \in [Attr -> 0..Inf]
    /\ Transport \in {"snmp", "proxr"}
    /\ MaxObjects \in Nat \ {0}
    /\ Drift \in BOOLEAN
    /\ MaxStamp \in Nat
    /\ None \notin Attr
    /\ None \notin Nat

VARIABLES
    \* the manager
    pending,     \* _pending_writes, a dict: entries in insertion order
    comm,        \* communication_state
    power,       \* _component_state["power"]
    value,       \* _component_state[a]: the value clients read, None at first
    age,         \* now - _last_polled[a]
    poller,      \* what was last asked of the poller: "POLLING" or "STOPPED"
    \* the polling thread
    pc,          \* where it is
    writes,      \* entries of the request not yet sent to the hardware
    reads,       \* attributes of the request not yet queried
    response,    \* response[a]: value read so far in this poll, or None
    \* the Tango device
    opState,     \* the device State attribute
    admitted,    \* a write that passed is_allowed and is not yet enqueued
    \* the hardware
    hw,          \* hw[a]: the value it holds, and answers with
    taking,      \* taking[a]: a value it accepted and does not hold yet, or None
    reachable,   \* whether exchanges come to anything
    \* history: what became of the client writes, none of it read by an action
    stamp,       \* number of values issued; each value is unique
    latest,      \* latest[a]: newest write of a accepted from a client
    sent,        \* sent[a]: newest write of a put on the wire
    lost         \* lost[a]: newest write of a thrown away by a failed poll

manager  == <<comm, power, value, age>>
thread   == <<pc, writes, reads, response>>
hardware == <<hw, taking, reachable>>
history  == <<stamp, latest, sent, lost>>
vars == <<pending, manager, poller, thread, opState, admitted, hardware, history>>

-----------------------------------------------------------------------------
(* Python dictionaries whose insertion order matters.                      *)

Entry == [attr : Attr, ver : Nat]

Keys(d) == {d[i].attr : i \in 1..Len(d)}

\* d[a], for a key a of d.
Lookup(d, a) == d[CHOOSE i \in 1..Len(d) : d[i].attr = a].ver

\* Defect: the superseded write keeps its value.
AssignIfAbsent(d, e) == IF e.attr \in Keys(d) THEN d ELSE Append(d, e)

\* Defect: a list of writes instead of a dict, so nothing is superseded.
AppendAlways(d, e) == Append(d, e)

\* d[e.attr] = e.ver: a key keeps its place.
Assign(d, e) ==
    IF e.attr \in Keys(d)
    THEN [i \in 1..Len(d) |-> IF d[i].attr = e.attr THEN e ELSE d[i]]
    ELSE Append(d, e)

\* f overridden with the entries of d.
Overlay(f, d) == [a \in Attr |-> IF a \in Keys(d) THEN Lookup(d, a) ELSE f[a]]

Least(m, n) == IF m <= n THEN m ELSE n

NoResponse == [a \in Attr |-> None]

-----------------------------------------------------------------------------
(* What the base classes of ska-tango-base do on a change of state.        *)

\* A changed communication state drives the operational state, except that
\* on ESTABLISHED the device waits to be told about the component.
SetComm(c) ==
    /\ comm' = c
    /\ opState' = CASE c = comm              -> opState
                    [] c = "DISABLED"        -> "DISABLE"
                    [] c = "NOT_ESTABLISHED" -> "UNKNOWN"
                    [] OTHER                 -> opState

\* Only a power state that differs from the recorded one is reported.
SetPower(p) ==
    /\ power' = p
    /\ opState' = CASE p = power -> opState
                    [] p = "ON"  -> "ON"
                    [] OTHER     -> "UNKNOWN"

-----------------------------------------------------------------------------
Init ==
    /\ pending = <<>>
    /\ comm = "DISABLED"
    /\ power = "UNKNOWN"
    /\ value = [a \in Attr |-> None]
    /\ age = [a \in Attr |-> Inf]
    /\ poller = "STOPPED"
    /\ pc = "stopped"
    /\ writes = <<>>
    /\ reads = {}
    /\ response = NoResponse
    /\ opState = "DISABLE"
    /\ admitted = None
    /\ hw = [a \in Attr |-> 0]
    /\ taking = [a \in Attr |-> None]
    /\ reachable = TRUE
    /\ stamp = 0
    /\ latest = [a \in Attr |-> 0]
    /\ sent = [a \in Attr |-> 0]
    /\ lost = [a \in Attr |-> 0]

-----------------------------------------------------------------------------
(* The Tango thread                                                        *)

\* _dynamic_is_allowed(): the check Tango makes before it calls fset.
Admit(a) ==
    /\ admitted = None
    /\ comm = "ESTABLISHED"
    /\ admitted' = a
    /\ UNCHANGED <<pending, manager, poller, thread, opState, hardware, history>>

\* _dynamic_set(), enqueue_write(): a pending write of the same attribute is
\* superseded where it stands in the queue.
EnqueueWrite ==
    /\ admitted # None
    /\ stamp < MaxStamp
    /\ stamp' = stamp + 1
    /\ latest' = [latest EXCEPT ![admitted] = stamp']
    /\ pending' = Assign(pending, [attr |-> admitted, ver |-> stamp'])
    /\ admitted' = None
    /\ UNCHANGED <<manager, poller, thread, opState, hardware, sent, lost>>

\* from_python() raises: the client gets the error and nothing is queued.
RejectWrite ==
    /\ admitted # None
    /\ admitted' = None
    /\ UNCHANGED <<pending, manager, poller, thread, opState, hardware, history>>

-----------------------------------------------------------------------------
(* The operator: adminMode ONLINE and OFFLINE, through ska-tango-base.     *)

StartCommunicating ==
    /\ poller = "STOPPED"
    /\ poller' = "POLLING"
    /\ UNCHANGED <<pending, manager, thread, opState, admitted, hardware, history>>

StopCommunicating ==
    /\ poller = "POLLING"
    /\ poller' = "STOPPED"
    /\ UNCHANGED <<pending, manager, thread, opState, admitted, hardware, history>>

-----------------------------------------------------------------------------
(* The polling thread                                                      *)

PollingStarted ==
    /\ pc = "stopped"
    /\ poller = "POLLING"
    /\ SetComm("NOT_ESTABLISHED")
    /\ pc' = "drain"
    /\ UNCHANGED <<pending, power, value, age, poller, writes, reads, response,
                   admitted, hardware, history>>

\* Defect: pop one write and clear the dict.
PopWriteAndClear ==
    /\ pc = "drain"
    /\ pending # <<>>
    /\ writes' = Assign(writes, pending[Len(pending)])
    /\ pending' = <<>>
    /\ UNCHANGED <<manager, poller, pc, reads, response, opState, admitted,
                   hardware, history>>

\* get_request(): one popitem() of the drain.  Only a single pop is atomic;
\* the Tango thread may enqueue between two of them.
PopWrite ==
    /\ pc = "drain"
    /\ pending # <<>>
    /\ writes' = Assign(writes, pending[Len(pending)])
    /\ pending' = SubSeq(pending, 1, Len(pending) - 1)
    /\ UNCHANGED <<manager, poller, pc, reads, response, opState, admitted,
                   hardware, history>>

\* Defect: "longer than" its period; inf is not longer than inf.
DueStrict == {a \in Attr : age[a] > Period[a] \/ a \in Keys(writes)}

\* An attribute is read when its period has elapsed since it was last read
\* successfully, and once more in the poll that writes it.
Due == {a \in Attr : age[a] >= Period[a] \/ a \in Keys(writes)}

\* Defect: the drain takes what was there at one moment, newest first.
BuildRequestEarly ==
    /\ pc = "drain"
    /\ reads' = Due
    /\ pc' = IF Transport = "proxr" THEN "connect" ELSE "poll"
    /\ UNCHANGED <<pending, manager, poller, writes, response, opState, admitted,
                   hardware, history>>

\* get_request(): popitem() raises KeyError, the drain is over.
BuildRequest ==
    /\ pc = "drain"
    /\ pending = <<>>
    /\ reads' = Due
    /\ pc' = IF Transport = "proxr" THEN "connect" ELSE "poll"
    /\ UNCHANGED <<pending, manager, poller, writes, response, opState, admitted,
                   hardware, history>>

\* Defect: poll() catches the error and returns what it has.
RaiseSwallowed(unsent) ==
    /\ pc' = "succeeded"
    /\ lost' = Overlay(lost, unsent)
    /\ writes' = <<>>
    /\ reads' = {}
    /\ UNCHANGED response

\* poll() raises.  The poller keeps nothing of the request, so the writes in
\* unsent are never seen again, nor is what was read so far.
Raise(unsent) ==
    /\ pc' = "failed"
    /\ lost' = Overlay(lost, unsent)
    /\ writes' = <<>>
    /\ reads' = {}
    /\ response' = NoResponse

\* ProXR opens a connection before it looks at the request.
Connect ==
    /\ pc = "connect"
    /\ IF reachable
       THEN /\ pc' = "poll"
            /\ UNCHANGED <<writes, reads, response, lost>>
       ELSE Raise(writes)
    /\ UNCHANGED <<pending, manager, poller, opState, admitted, hardware, stamp,
                   latest, sent>>

\* Defect: nothing is asked of the hardware and the new value is assumed.
SendWritesAssumed(n) ==
    LET chunk == SubSeq(writes, 1, n)
        rest  == SubSeq(writes, n + 1, Len(writes))
    IN  /\ pc = "poll"
        /\ writes # <<>>
        /\ sent' = Overlay(sent, chunk)
        /\ taking' \in {taking, Overlay(taking, chunk)}
        /\ IF reachable
           THEN /\ writes' = rest
                /\ reads' = reads \ Keys(chunk)
                /\ response' = Overlay(response, chunk)
                /\ UNCHANGED <<pc, lost>>
           ELSE Raise(rest)
        /\ UNCHANGED <<pending, manager, poller, opState, admitted, hw, reachable,
                       stamp, latest>>

\* One exchange carrying the first n writes.  A request that reaches the
\* hardware may still be refused by it (an SNMP errorStatus, a ProXR reply
\* other than success): nobody looks at that part of the reply.  What it takes
\* it need not hold yet when it replies.  When no reply comes back, the request
\* may or may not have arrived.
SendWrites(n) ==
    LET chunk == SubSeq(writes, 1, n)
        rest  == SubSeq(writes, n + 1, Len(writes))
    IN  /\ pc = "poll"
        /\ writes # <<>>
        /\ sent' = Overlay(sent, chunk)
        /\ taking' \in {taking, Overlay(taking, chunk)}
        /\ IF reachable
           THEN /\ writes' = rest
                /\ UNCHANGED <<pc, reads, response, lost>>
           ELSE Raise(rest)
        /\ UNCHANGED <<pending, manager, poller, opState, admitted, hw, reachable,
                       stamp, latest>>

\* The attributes of a chunk that a reply may bring a value for.  The reply to
\* an SNMP GET counts as an answer whatever its errorStatus, and then may carry
\* no value at all; and of attributes that name the same object only one gets
\* the value.  A ProXR reply is the state of the one relay asked for.
Valued(chunk) == IF Transport = "proxr" THEN {chunk} ELSE SUBSET chunk

\* One exchange asking for n of the attributes still to be read.
Query(n) ==
    /\ pc = "poll"
    /\ writes = <<>>
    /\ reads # {}
    /\ \E chunk \in SUBSET reads :
        /\ Cardinality(chunk) = Least(n, Cardinality(reads))
        /\ IF reachable
           THEN \E valued \in Valued(chunk) :
                   /\ reads' = reads \ chunk
                   /\ response' = [a \in Attr |-> IF a \in valued THEN hw[a]
                                                  ELSE response[a]]
                   /\ UNCHANGED <<pc, writes, lost>>
           ELSE Raise(<<>>)
    /\ UNCHANGED <<pending, manager, poller, opState, admitted, hardware, stamp,
                   latest, sent>>

SNMPSet == Transport = "snmp" /\ SendWrites(Least(MaxObjects, Len(writes)))
SNMPGet == Transport = "snmp" /\ Query(MaxObjects)
ProXRWrite == Transport = "proxr" /\ SendWrites(1)
ProXRRead == Transport = "proxr" /\ Query(1)

\* recv() on the ProXR socket has no timeout: with the peer gone it may never
\* return, and the polling thread is stuck in it after its request went out.
ProXRHang ==
    LET n     == Least(1, Len(writes))
        chunk == SubSeq(writes, 1, n)
    IN  /\ Transport = "proxr"
        /\ pc = "poll"
        /\ writes # <<>> \/ reads # {}
        /\ ~reachable
        /\ pc' = "hung"
        /\ sent' = Overlay(sent, chunk)
        /\ taking' \in {taking, Overlay(taking, chunk)}
        /\ writes' = SubSeq(writes, n + 1, Len(writes))
        /\ UNCHANGED <<pending, manager, poller, reads, response, opState,
                       admitted, hw, reachable, stamp, latest, lost>>

\* poll() returns.  ProXR shuts its socket down first, which raises when the
\* peer has reset the connection, although every reply was received.
PollReturns ==
    /\ pc = "poll"
    /\ writes = <<>>
    /\ reads = {}
    /\ \/ /\ pc' = "succeeded"
          /\ UNCHANGED <<writes, reads, response, lost>>
       \/ /\ Transport = "proxr"
          /\ ~reachable
          /\ Raise(<<>>)
    /\ UNCHANGED <<pending, manager, poller, opState, admitted, hardware, stamp,
                   latest, sent>>

\* poll_succeeded(): the base class reports ESTABLISHED first.
ReportEstablished ==
    /\ pc = "succeeded"
    /\ SetComm("ESTABLISHED")
    /\ pc' = "update"
    /\ UNCHANGED <<pending, power, value, age, poller, writes, reads, response,
                   admitted, hardware, history>>

\* Defect: the component state is replaced by the response.
UpdateComponentReplaced ==
    LET answered == {a \in Attr : response[a] # None}
    IN  /\ pc = "update"
        /\ age' = [a \in Attr |-> IF a \in answered THEN 0 ELSE age[a]]
        /\ value' = [a \in answered |-> response[a]]
        /\ SetPower("ON")
        /\ response' = NoResponse
        /\ pc' = "sleep"
        /\ UNCHANGED <<pending, comm, poller, writes, reads, admitted, hardware,
                       history>>

\* Defect: a poll that brought no values says nothing of the power.
UpdateComponentValued ==
    LET answered == {a \in Attr : response[a] # None}
    IN  /\ pc = "update"
        /\ age' = [a \in Attr |-> IF a \in answered THEN 0 ELSE age[a]]
        /\ value' = [a \in Attr |-> IF a \in answered THEN response[a]
                                                      ELSE value[a]]
        /\ SetPower(IF answered = {} THEN power ELSE "ON")
        /\ response' = NoResponse
        /\ pc' = "sleep"
        /\ UNCHANGED <<pending, comm, poller, writes, reads, admitted, hardware,
                       history>>

\* poll_succeeded(): then the poll times and the component state follow.
UpdateComponent ==
    LET answered == {a \in Attr : response[a] # None}
    IN  /\ pc = "update"
        /\ age' = [a \in Attr |-> IF a \in answered THEN 0 ELSE age[a]]
        /\ value' = [a \in Attr |-> IF a \in answered THEN response[a]
                                                      ELSE value[a]]
        /\ SetPower("ON")
        /\ response' = NoResponse
        /\ pc' = "sleep"
        /\ UNCHANGED <<pending, comm, poller, writes, reads, admitted, hardware,
                       history>>

\* poll_failed(): the base class reports NOT_ESTABLISHED first.
ReportNotEstablished ==
    /\ pc = "failed"
    /\ SetComm("NOT_ESTABLISHED")
    /\ pc' = "unknown"
    /\ UNCHANGED <<pending, power, value, age, poller, writes, reads, response,
                   admitted, hardware, history>>

\* Defect: without the override the power stays ON through a failure.
PowerUnknownMissing ==
    /\ pc = "unknown"
    /\ pc' = "sleep"
    /\ UNCHANGED <<pending, manager, poller, writes, reads, response, opState,
                   admitted, hardware, history>>

\* poll_failed(): then the override records that the power is unknown.
PowerUnknown ==
    /\ pc = "unknown"
    /\ SetPower("UNKNOWN")
    /\ pc' = "sleep"
    /\ UNCHANGED <<pending, comm, value, age, poller, writes, reads, response,
                   admitted, hardware, history>>

\* Defect: the loop does not look at what was asked of it.
WakeAlways ==
    /\ pc = "sleep"
    /\ pc' = "drain"
    /\ UNCHANGED <<pending, manager, poller, writes, reads, response, opState,
                   admitted, hardware, history>>

\* The poll rate has elapsed, or the poller was asked to stop.
Wake ==
    /\ pc = "sleep"
    /\ IF poller = "POLLING"
       THEN /\ pc' = "drain"
            /\ UNCHANGED <<power, opState>>
       ELSE /\ pc' = "stopping"
            /\ SetPower("UNKNOWN")
    /\ UNCHANGED <<pending, comm, value, age, poller, writes, reads, response,
                   admitted, hardware, history>>

PollingStopped ==
    /\ pc = "stopping"
    /\ SetComm("DISABLED")
    /\ pc' = "stopped"
    /\ UNCHANGED <<pending, power, value, age, poller, writes, reads, response,
                   admitted, hardware, history>>

-----------------------------------------------------------------------------
(* The hardware and the clock                                              *)

HardwareChanges(a) ==
    /\ Drift
    /\ stamp < MaxStamp
    /\ stamp' = stamp + 1
    /\ hw' = [hw EXCEPT ![a] = stamp']
    /\ UNCHANGED <<pending, manager, poller, thread, opState, admitted, taking,
                   reachable, latest, sent, lost>>

\* "The internal state of the device as returned by a GET may not have changed
\* yet": what a write set changes some time after its reply.
TakesEffect(a) ==
    /\ taking[a] # None
    /\ hw' = [hw EXCEPT ![a] = taking[a]]
    /\ taking' = [taking EXCEPT ![a] = None]
    /\ UNCHANGED <<pending, manager, poller, thread, opState, admitted, reachable,
                   history>>

LinkFlips ==
    /\ reachable' = ~reachable
    /\ UNCHANGED <<pending, manager, poller, thread, opState, admitted, hw, taking,
                   history>>

Tick ==
    /\ age' = [a \in Attr |-> IF age[a] = Inf THEN Inf
                                              ELSE Least(age[a] + 1, MaxAge)]
    /\ UNCHANGED <<pending, comm, power, value, poller, thread, opState, admitted,
                   hardware, history>>

-----------------------------------------------------------------------------
TangoThread == (\E a \in Attr : Admit(a)) \/ EnqueueWrite \/ RejectWrite

Exchange == SNMPSet \/ SNMPGet \/ ProXRWrite \/ ProXRRead

PollingThread ==
    \/ PollingStarted
    \/ PopWrite
    \/ BuildRequest
    \/ Connect
    \/ Exchange
    \/ ProXRHang
    \/ PollReturns
    \/ ReportEstablished
    \/ UpdateComponent
    \/ ReportNotEstablished
    \/ PowerUnknown
    \/ Wake
    \/ PollingStopped

Operator == StartCommunicating \/ StopCommunicating

Environment ==
    \/ \E a \in Attr : HardwareChanges(a) \/ TakesEffect(a)
    \/ LinkFlips
    \/ Tick

Next == TangoThread \/ PollingThread \/ Operator \/ Environment

Spec == Init /\ [][Next]_vars

\* The polling thread keeps running, time passes, and a client request that
\* was admitted is carried out.
Fairness ==
    /\ WF_vars(PollingThread)
    /\ WF_vars(Tick)
    /\ WF_vars(EnqueueWrite \/ RejectWrite)

FairSpec == Spec /\ Fairness

-----------------------------------------------------------------------------
(* Safety                                                                  *)

\* Every variable holds what the code can put in it.
TypeOK ==
    /\ pending \in Seq(Entry)
    /\ comm \in {"DISABLED", "NOT_ESTABLISHED", "ESTABLISHED"}
    /\ power \in {"UNKNOWN", "ON"}
    /\ value \in [Attr -> Nat \cup {None}]
    /\ age \in [Attr -> 0..Inf]
    /\ poller \in {"POLLING", "STOPPED"}
    /\ pc \in {"stopped", "drain", "connect", "poll", "hung", "succeeded", "update",
               "failed", "unknown", "sleep", "stopping"}
    /\ writes \in Seq(Entry)
    /\ reads \in SUBSET Attr
    /\ response \in [Attr -> Nat \cup {None}]
    /\ opState \in {"DISABLE", "UNKNOWN", "ON"}
    /\ admitted \in Attr \cup {None}
    /\ hw \in [Attr -> Nat]
    /\ taking \in [Attr -> Nat \cup {None}]
    /\ reachable \in BOOLEAN
    /\ stamp \in Nat
    /\ latest \in [Attr -> Nat]
    /\ sent \in [Attr -> Nat]
    /\ lost \in [Attr -> Nat]

\* A dictionary holds a key once.
UniqueKeys(d) ==
    \A i, j \in 1..Len(d) : d[i].attr = d[j].attr => i = j

\* The write queue is a last-write-wins mailbox although it is drained, newest
\* first and item by item, while clients keep writing: what is pending is the
\* newest write of its attribute, what is being sent is older than that and
\* newer than everything sent or thrown away before.
WriteOrder ==
    /\ UniqueKeys(pending)
    /\ UniqueKeys(writes)
    /\ \A i \in 1..Len(pending) :
        /\ pending[i].ver = latest[pending[i].attr]
        /\ sent[pending[i].attr] < pending[i].ver
        /\ lost[pending[i].attr] < pending[i].ver
    /\ \A i \in 1..Len(writes) :
        /\ writes[i].ver <= latest[writes[i].attr]
        /\ sent[writes[i].attr] < writes[i].ver
        /\ lost[writes[i].attr] < writes[i].ver
    /\ \A i \in 1..Len(writes), j \in 1..Len(pending) :
        writes[i].attr = pending[j].attr => writes[i].ver < pending[j].ver
    /\ \A a \in Attr :
        /\ sent[a] <= latest[a]
        /\ lost[a] <= latest[a]
        /\ latest[a] <= stamp

\* Writes of different attributes may be reordered within one request and
\* never between requests: once the drain is over, whatever a client enqueues
\* is newer than all that is being sent.
BatchOrder ==
    pc # "drain" =>
        \A i \in 1..Len(writes), j \in 1..Len(pending) :
            writes[i].ver < pending[j].ver

\* The newest accepted write of an attribute is in the queue, in the request,
\* on the wire, or was thrown away by a failed poll; no interleaving of
\* enqueue_write() with the drain in get_request() makes it vanish.
NoWriteVanishes ==
    \A a \in Attr :
        \/ latest[a] \in {sent[a], lost[a]}
        \/ [attr |-> a, ver |-> latest[a]] \in {pending[i] : i \in 1..Len(pending)}
        \/ [attr |-> a, ver |-> latest[a]] \in {writes[i] : i \in 1..Len(writes)}

\* The device is ON exactly while communication is ESTABLISHED, except between
\* the two reports of one poll.  State follows power and communication
\* through separate callbacks, and unchanged values are not reported: this is
\* what poll_failed() is overridden for.
StateAgreesWithComm ==
    pc \notin {"update", "stopping"} => (opState = "ON" <=> comm = "ESTABLISHED")

\* An older write of an attribute never follows a newer one onto the wire.
SentNeverRegresses == [][\A a \in Attr : sent'[a] >= sent[a]]_vars

\* What the clients of the write queue may rely on, whatever the transport,
\* the polls and the failures: WriteMailbox.
Mailbox == INSTANCE WriteMailbox WITH accepted <- latest, delivered <- sent

ImplementsMailbox == Mailbox!Spec

-----------------------------------------------------------------------------
(* Liveness, under FairSpec                                                *)

Online == reachable /\ poller = "POLLING"

\* When the hardware answers from some point on, the device turns ON and stays
\* ON, however it failed before.
RecoversWhenReachable == <>[]Online => <>[](opState = "ON")

\* Strong fairness of the hardware: of an attribute that it is asked for again
\* and again, it brings a value again and again.
KeepsAnswering(a) == []<>(a \in reads) => []<>(response[a] # None)

\* Then every attribute that the hardware keeps answering for ends up with a
\* value, and with the hardware's value if its period is finite, whichever polls
\* failed after which writes and whatever answers left it out, once what the
\* hardware took has taken effect.
AttributesConverge ==
    \A a \in Attr :
        <>[]Online /\ KeepsAnswering(a) /\ <>[](taking[a] = None) =>
            <>[](value[a] # None /\ (Period[a] < Inf => value[a] = hw[a]))

\* When the hardware stays silent, the device does not stay ON, although a
\* poll in which nothing is due succeeds without asking the hardware.
OutageNoticed ==
    <>[](~reachable /\ poller = "POLLING") => <>[](opState # "ON")

\* A device that is asked to stop becomes DISABLEd.
StopDisables == <>[](poller = "STOPPED") => <>[](opState = "DISABLE")

\* While polling goes on, every accepted write ends: it or a newer one is put
\* on the wire, or a failed poll throws it away.
EveryWriteConcludes ==
    <>[](poller = "POLLING") =>
        <>[](\A a \in Attr : latest[a] \in {sent[a], lost[a]})
====
