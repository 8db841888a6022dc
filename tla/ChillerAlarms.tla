---------------------------- MODULE ChillerAlarms ----------------------------
(***************************************************************************)
(* How the MTA chiller device learns of alarms:                            *)
(*   mta_chiller_device/device_manager.py     _process_new_alarms()        *)
(*   mta_chiller_device/utils.py              generate_alarms_list()       *)
(*                                                                         *)
(* Two sources feed one cache of alarm attributes.  The monitor thread     *)
(* polls the list of all active alarms and overwrites everything; the      *)
(* socket thread gets messages about single alarms and only ever raises.   *)
(* Each of them writes the cache, which clients read, and then pushes the  *)
(* event, which clients subscribe to, alarm by alarm and without a lock.   *)
(***************************************************************************)
EXTENDS Naturals, Sequences

CONSTANTS
    Known,      \* the alarm codes of _attribute_details
    Unknown,    \* other codes of the server
    Self,       \* the chiller of this device
    Others,     \* the other chillers of the same server
    None,       \* Python's None
    MaxRaises   \* bound: alarms raised

ASSUME ConstantsAssumption ==
    /\ Known \cap Unknown = {}
    /\ Self \notin Others
    /\ None \notin Known
    /\ None \notin BOOLEAN
    /\ MaxRaises \in Nat

Alarm == ({Self} \cup Others) \X (Known \cup Unknown)

Source == {"poll", "message"}

VARIABLES
    active,     \* the alarms that are active now, on the server
    up,         \* the server answers
    wire,       \* messages under way on the websocket, each a set of alarms
    cache,      \* _attribute_cache[c], read by clients
    event,      \* the value last pushed to the subscribers of c
    monitor,    \* where the monitor thread is
    answer,     \* the alarms in the answer to its request
    todo,       \* todo[s]: what the thread of s has still to apply
    half,       \* half[s]: the alarm it has cached and not yet pushed
    raises,     \* number of alarms raised
    \* history, read by no action
    past,       \* every alarm that was active at some time
    held,       \* the alarms of the answer that have been active ever since
    confirmed   \* the same, of the last answer that was applied

server  == <<active, up, wire, raises>>
history == <<past, held, confirmed>>
vars == <<server, cache, event, monitor, answer, todo, half, history>>

-----------------------------------------------------------------------------
Nothing == [c \in {} |-> TRUE]

\* Defect: the chiller an alarm belongs to is not looked at.
GenerateForAll(alarms, fromSocket) ==
    LET raised == {a[2] : a \in alarms} \cap Known
    IN  [c \in IF fromSocket THEN raised ELSE Known |-> c \in raised]

\* Defect: a poll reports the alarms in its answer and clears none.
GenerateRaisedOnly(alarms, fromSocket) ==
    LET raised == {c \in Known : <<Self, c>> \in alarms}
    IN  [c \in raised |-> TRUE]

\* Defect: a message clears what it does not mention.
GenerateClearing(alarms, fromSocket) ==
    [c \in Known |-> <<Self, c>> \in alarms]

\* generate_alarms_list(): an answer to a poll clears every alarm it does not
\* have; a message raises the ones it has.
Generate(alarms, fromSocket) ==
    LET raised == {c \in Known : <<Self, c>> \in alarms}
    IN  [c \in IF fromSocket THEN raised ELSE Known |-> c \in raised]

\* The read methods of the alarm attributes.
Quality(c) == IF cache[c] = None THEN "INVALID" ELSE IF cache[c] THEN "ALARM" ELSE "VALID"

Without(f, c) == [d \in DOMAIN f \ {c} |-> f[d]]

-----------------------------------------------------------------------------
Init ==
    /\ active = {}
    /\ up = TRUE
    /\ wire = <<>>
    /\ cache = [c \in Known |-> None]
    /\ event = [c \in Known |-> None]
    /\ monitor = "wait"
    /\ answer = {}
    /\ todo = [s \in Source |-> Nothing]
    /\ half = [s \in Source |-> None]
    /\ raises = 0
    /\ past = {}
    /\ held = {}
    /\ confirmed = {}

-----------------------------------------------------------------------------
(* The server                                                              *)

\* An alarm is raised; its message is sent, or lost with the websocket.
RaiseAlarm(a) ==
    /\ raises < MaxRaises
    /\ a \notin active
    /\ raises' = raises + 1
    /\ active' = active \cup {a}
    /\ past' = past \cup {a}
    /\ wire' \in {wire, Append(wire, {a})}
    /\ UNCHANGED <<up, cache, event, monitor, answer, todo, half, held, confirmed>>

\* An alarm ends; transform_socket_message() drops the message that says so.
EndAlarm(a) ==
    /\ a \in active
    /\ active' = active \ {a}
    /\ held' = held \ {a}
    /\ confirmed' = confirmed \ {a}
    /\ UNCHANGED <<up, wire, raises, cache, event, monitor, answer, todo, half, past>>

UpFlips ==
    /\ up' = ~up
    /\ UNCHANGED <<active, wire, raises, cache, event, monitor, answer, todo, half,
                   history>>

-----------------------------------------------------------------------------
(* The monitor thread                                                      *)

\* get_alarms(): the server makes its answer, or the request fails.
Poll ==
    /\ monitor = "wait"
    /\ up
    /\ answer' = active
    /\ held' = active
    /\ monitor' = "answered"
    /\ UNCHANGED <<server, cache, event, todo, half, past, confirmed>>

\* The answer has arrived.
StartPollUpdate ==
    /\ monitor = "answered"
    /\ todo' = [todo EXCEPT !["poll"] = Generate(answer, FALSE)]
    /\ monitor' = "apply"
    /\ UNCHANGED <<server, cache, event, answer, half, history>>

EndPollUpdate ==
    /\ monitor = "apply"
    /\ todo["poll"] = Nothing
    /\ monitor' = "wait"
    /\ answer' = {}
    /\ confirmed' = held
    /\ UNCHANGED <<server, cache, event, todo, half, past, held>>

-----------------------------------------------------------------------------
(* The socket thread                                                       *)

ReceiveMessage ==
    /\ wire # <<>>
    /\ todo["message"] = Nothing
    /\ todo' = [todo EXCEPT !["message"] = Generate(Head(wire), TRUE)]
    /\ wire' = Tail(wire)
    /\ UNCHANGED <<active, up, raises, cache, event, monitor, answer, half, history>>

-----------------------------------------------------------------------------
(* The loop of _process_new_alarms(), in either thread                     *)

\* Defect: the alarm is dropped as soon as it is cached, before its event.
WriteCacheAndDrop(s) ==
    /\ half[s] = None
    /\ \E c \in DOMAIN todo[s] :
        /\ cache' = [cache EXCEPT ![c] = todo[s][c]]
        /\ half' = [half EXCEPT ![s] = c]
        /\ todo' = [todo EXCEPT ![s] = Without(todo[s], c)]
    /\ UNCHANGED <<server, event, monitor, answer, history>>

\* The new value goes to the cache ...
WriteCache(s) ==
    /\ half[s] = None
    /\ \E c \in DOMAIN todo[s] :
        /\ cache' = [cache EXCEPT ![c] = todo[s][c]]
        /\ half' = [half EXCEPT ![s] = c]
    /\ UNCHANGED <<server, event, monitor, answer, todo, history>>

\* ... and then to the subscribers.
PushEvent(s) ==
    /\ half[s] # None
    /\ event' = [event EXCEPT ![half[s]] = todo[s][half[s]]]
    /\ todo' = [todo EXCEPT ![s] = Without(todo[s], half[s])]
    /\ half' = [half EXCEPT ![s] = None]
    /\ UNCHANGED <<server, cache, monitor, answer, history>>

-----------------------------------------------------------------------------
MonitorThread ==
    \/ Poll
    \/ StartPollUpdate
    \/ WriteCache("poll")
    \/ PushEvent("poll")
    \/ EndPollUpdate

SocketThread ==
    \/ ReceiveMessage
    \/ WriteCache("message")
    \/ PushEvent("message")

Server == (\E a \in Alarm : RaiseAlarm(a) \/ EndAlarm(a)) \/ UpFlips

Next == MonitorThread \/ SocketThread \/ Server

Spec == Init /\ [][Next]_vars

\* Both threads run; requests have a timeout.
Fairness == WF_vars(MonitorThread) /\ WF_vars(SocketThread)

FairSpec == Spec /\ Fairness

-----------------------------------------------------------------------------
(* Safety                                                                  *)

Value == {TRUE, FALSE, None}
Update == UNION {[S -> BOOLEAN] : S \in SUBSET Known}

\* Every variable holds what the code can put in it.
TypeOK ==
    /\ active \subseteq Alarm
    /\ up \in BOOLEAN
    /\ wire \in Seq(SUBSET Alarm)
    /\ cache \in [Known -> Value]
    /\ event \in [Known -> Value]
    /\ monitor \in {"wait", "answered", "apply"}
    /\ answer \subseteq Alarm
    /\ todo \in [Source -> Update]
    /\ half \in [Source -> Known \cup {None}]
    /\ \A s \in Source : half[s] # None => half[s] \in DOMAIN todo[s]
    /\ raises \in 0..MaxRaises
    /\ past \subseteq Alarm /\ held \subseteq Alarm /\ confirmed \subseteq Alarm

\* No client reads or is told of an alarm this chiller never had, although the
\* server lists the alarms of every chiller and codes that mean nothing here.
OnlyOwnAlarms ==
    \A c \in Known :
        cache[c] = TRUE \/ event[c] = TRUE => <<Self, c>> \in past

\* An alarm that a poll has seen stays reported while it is active, whatever
\* messages and answers are applied in whatever order.
ConfirmedAlarmStays ==
    \A c \in Known : <<Self, c>> \in confirmed => Quality(c) = "ALARM"

-----------------------------------------------------------------------------
(* Liveness, under FairSpec                                                *)

\* While the server answers and the alarms no longer change, the cache ends up
\* showing exactly the active ones; a message that was delayed until after its
\* alarm's end is put right by a later poll.
CacheConverges ==
    <>[]up => <>[](\A c \in Known : cache[c] = (<<Self, c>> \in active))
====
