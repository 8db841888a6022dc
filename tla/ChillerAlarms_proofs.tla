-------------------------- MODULE ChillerAlarms_proofs --------------------------
(***************************************************************************)
(* Proofs about ChillerAlarms: type correctness and the two safety         *)
(* properties of the alarm cache, for every set of alarm codes and         *)
(* chillers, and for every number of alarms raised.                        *)
(***************************************************************************)
EXTENDS ChillerAlarms, TLAPS

-----------------------------------------------------------------------------
(* What the helpers give                                                   *)

LEMMA UpdateIs ==
    \A f : f \in Update <=> DOMAIN f \subseteq Known /\ f \in [DOMAIN f -> BOOLEAN]
BY DEF Update

\* An answer to a poll says of every alarm whether it is in it ...
LEMMA GenerateFromPoll ==
    ASSUME NEW alarms
    PROVE  /\ Generate(alarms, FALSE) \in Update
           /\ DOMAIN Generate(alarms, FALSE) = Known
           /\ \A c \in Known : Generate(alarms, FALSE)[c] = (<<Self, c>> \in alarms)
<1> DEFINE raised == {c \in Known : <<Self, c>> \in alarms}
<1>1. Generate(alarms, FALSE) = [c \in Known |-> c \in raised]
  BY DEF Generate
<1>2. \A c \in Known : (c \in raised) = (<<Self, c>> \in alarms)
  OBVIOUS
<1>3. \A c \in Known : (c \in raised) \in BOOLEAN
  OBVIOUS
<1> HIDE DEF raised
<1> QED
  BY <1>1, <1>2, <1>3, UpdateIs, Zenon

\* ... and a message says of the alarms in it that they are raised.
LEMMA GenerateFromMessage ==
    ASSUME NEW alarms
    PROVE  /\ Generate(alarms, TRUE) \in Update
           /\ DOMAIN Generate(alarms, TRUE) = {c \in Known : <<Self, c>> \in alarms}
           /\ \A c \in DOMAIN Generate(alarms, TRUE) : Generate(alarms, TRUE)[c] = TRUE
BY UpdateIs, Zenon DEF Generate

\* An alarm that is dropped leaves the others as they were.
LEMMA WithoutIs ==
    ASSUME NEW f \in Update, NEW c
    PROVE  /\ Without(f, c) \in Update
           /\ DOMAIN Without(f, c) = DOMAIN f \ {c}
           /\ \A d \in DOMAIN f \ {c} : Without(f, c)[d] = f[d]
BY UpdateIs DEF Without

LEMMA NothingIs == Nothing \in Update /\ DOMAIN Nothing = {}
BY UpdateIs DEF Nothing

-----------------------------------------------------------------------------
(* The inductive invariant                                                 *)

\* Whatever travels to the cache was once active on the server.
FromThePast ==
    /\ active \subseteq past /\ answer \subseteq past
    /\ \A i \in 1..Len(wire) : wire[i] \subseteq past
    /\ \A s \in Source : \A c \in DOMAIN todo[s] :
           todo[s][c] = TRUE => <<Self, c>> \in past

\* A message only raises; an update from a poll is what its answer says.
TodoIs ==
    /\ \A c \in DOMAIN todo["message"] : todo["message"][c] = TRUE
    /\ \A c \in DOMAIN todo["poll"] : todo["poll"][c] = (<<Self, c>> \in answer)
    /\ monitor # "apply" => todo["poll"] = Nothing

\* An alarm that was confirmed and is still active is in every later answer.
StillHeld ==
    /\ held \subseteq active
    /\ confirmed \subseteq held
    /\ monitor = "wait" => confirmed = held
    /\ monitor # "wait" => held \subseteq answer

\* What a poll has cached of its answer stays there until the next one.
Cached ==
    \A c \in Known :
        /\ monitor = "apply"
        /\ c \notin DOMAIN todo["poll"] \/ c = half["poll"]
        /\ <<Self, c>> \in held
        => cache[c] = TRUE

\* ... and so does what the last one had confirmed.
ConfirmedCached == \A c \in Known : <<Self, c>> \in confirmed => cache[c] = TRUE

AlarmsInv ==
    /\ TypeOK
    /\ FromThePast
    /\ OnlyOwnAlarms
    /\ TodoIs
    /\ StillHeld
    /\ Cached
    /\ ConfirmedCached

-----------------------------------------------------------------------------
(* The initial states                                                      *)

LEMMA InitInv == Init => AlarmsInv
<1> SUFFICES ASSUME Init PROVE AlarmsInv
  OBVIOUS
<1>1. TypeOK
  BY NothingIs, ConstantsAssumption DEF Init, TypeOK, Value
<1>2. FromThePast /\ TodoIs
  BY NothingIs DEF Init, Source, FromThePast, TodoIs
<1>3. OnlyOwnAlarms
  BY ConstantsAssumption DEF Init, OnlyOwnAlarms
<1>4. StillHeld /\ Cached /\ ConfirmedCached
  BY DEF Init, StillHeld, Cached, ConfirmedCached
<1> QED
  BY <1>1, <1>2, <1>3, <1>4 DEF AlarmsInv

-----------------------------------------------------------------------------
(* The server                                                              *)

LEMMA RaiseAlarmInv ==
    ASSUME AlarmsInv, NEW a \in Alarm, RaiseAlarm(a)
    PROVE  AlarmsInv'
<1> USE DEF AlarmsInv, RaiseAlarm
<1>1. wire \in Seq(SUBSET Alarm) /\ {a} \in SUBSET Alarm /\ wire' \in {wire, Append(wire, {a})}
  BY DEF TypeOK
<1>2. wire' \in Seq(SUBSET Alarm)
  BY <1>1
<1>3. TypeOK'
  BY <1>2, ConstantsAssumption DEF TypeOK
<1>4. \A i \in 1..Len(wire') : wire'[i] \subseteq past'
  <2>1. \A i \in 1..Len(wire) : wire[i] \subseteq past'
    BY DEF FromThePast
  <2> QED
    BY <1>1, <2>1
<1>5. FromThePast' /\ OnlyOwnAlarms'
  BY <1>4 DEF FromThePast, OnlyOwnAlarms
<1>6. TodoIs' /\ StillHeld' /\ Cached' /\ ConfirmedCached'
  BY DEF TodoIs, StillHeld, Cached, ConfirmedCached
<1> QED
  BY <1>3, <1>5, <1>6

LEMMA EndAlarmInv ==
    ASSUME AlarmsInv, NEW a \in Alarm, EndAlarm(a)
    PROVE  AlarmsInv'
<1> USE DEF AlarmsInv, EndAlarm
<1>1. TypeOK'
  BY DEF TypeOK
<1>2. FromThePast' /\ OnlyOwnAlarms' /\ TodoIs'
  BY DEF FromThePast, OnlyOwnAlarms, TodoIs
<1>3. StillHeld' /\ Cached' /\ ConfirmedCached'
  BY DEF StillHeld, Cached, ConfirmedCached
<1> QED
  BY <1>1, <1>2, <1>3

-----------------------------------------------------------------------------
(* The monitor thread                                                      *)

LEMMA PollInv ==
    ASSUME AlarmsInv, Poll
    PROVE  AlarmsInv'
<1> USE DEF AlarmsInv, Poll, server
<1>1. TypeOK'
  BY DEF TypeOK
<1>2. FromThePast' /\ OnlyOwnAlarms'
  BY DEF FromThePast, OnlyOwnAlarms
<1>3. TodoIs'
  BY NothingIs DEF TodoIs
<1>4. StillHeld' /\ Cached' /\ ConfirmedCached'
  BY DEF StillHeld, Cached, ConfirmedCached
<1> QED
  BY <1>1, <1>2, <1>3, <1>4

LEMMA StartPollUpdateInv ==
    ASSUME AlarmsInv, StartPollUpdate
    PROVE  AlarmsInv'
<1> USE DEF AlarmsInv, StartPollUpdate, server, history
<1>1. /\ todo'["poll"] = Generate(answer, FALSE)
      /\ todo'["message"] = todo["message"]
      /\ todo' \in [Source -> Update]
  BY GenerateFromPoll DEF TypeOK, Source
<1>2. half["poll"] = None
  BY NothingIs DEF TypeOK, TodoIs, Source
<1>3. TypeOK'
  BY <1>1, <1>2 DEF TypeOK, Source
<1>4. \A c \in DOMAIN todo'["poll"] : todo'["poll"][c] = (<<Self, c>> \in answer)
  <2> DEFINE new == Generate(answer, FALSE)
  <2>1. DOMAIN new = Known /\ \A c \in Known : new[c] = (<<Self, c>> \in answer)
    BY GenerateFromPoll
  <2>2. todo'["poll"] = new
    BY <1>1
  <2> HIDE DEF new
  <2> QED
    BY <2>1, <2>2
<1>5. FromThePast' /\ OnlyOwnAlarms'
  <2>1. \A s \in Source : \A c \in DOMAIN todo'[s] :
            todo'[s][c] = TRUE => <<Self, c>> \in past
    BY <1>1, <1>4, Zenon DEF FromThePast, Source
  <2> QED
    BY <2>1 DEF FromThePast, OnlyOwnAlarms
<1>6. TodoIs'
  BY <1>1, <1>4, Zenon DEF TodoIs
<1>7. StillHeld'
  BY DEF StillHeld
<1>8. DOMAIN todo'["poll"] = Known /\ half' = half /\ cache' = cache
  BY <1>1, GenerateFromPoll
<1>9. Cached'
  BY <1>2, <1>8, ConstantsAssumption DEF Cached
<1>10. ConfirmedCached'
  BY <1>8 DEF ConfirmedCached
<1> QED
  BY <1>3, <1>5, <1>6, <1>7, <1>9, <1>10

\* All of the answer is cached when it has been applied, so it is confirmed.
LEMMA EndPollUpdateInv ==
    ASSUME AlarmsInv, EndPollUpdate
    PROVE  AlarmsInv'
<1> USE DEF AlarmsInv, EndPollUpdate, server
<1>1. TypeOK'
  BY DEF TypeOK
<1>2. FromThePast' /\ OnlyOwnAlarms'
  BY DEF FromThePast, OnlyOwnAlarms
<1>3. TodoIs'
  BY NothingIs DEF TodoIs
<1>4. StillHeld' /\ Cached'
  BY DEF StillHeld, Cached
<1>5. ConfirmedCached'
  BY NothingIs DEF Cached, ConfirmedCached
<1> QED
  BY <1>1, <1>2, <1>3, <1>4, <1>5

-----------------------------------------------------------------------------
(* The socket thread                                                       *)

LEMMA ReceiveMessageInv ==
    ASSUME AlarmsInv, ReceiveMessage
    PROVE  AlarmsInv'
<1> USE DEF AlarmsInv, ReceiveMessage, history
<1>1. /\ todo'["message"] = Generate(Head(wire), TRUE)
      /\ todo'["poll"] = todo["poll"]
      /\ todo' \in [Source -> Update]
  BY GenerateFromMessage DEF TypeOK, Source
<1>2. half["message"] = None
  BY NothingIs DEF TypeOK, Source
<1>3. /\ wire' \in Seq(SUBSET Alarm)
      /\ Len(wire) > 0 /\ Head(wire) = wire[1]
      /\ Len(wire') = Len(wire) - 1
      /\ \A i \in 1..Len(wire') : wire'[i] = wire[i + 1]
  BY DEF TypeOK
<1>4. TypeOK'
  BY <1>1, <1>2, <1>3 DEF TypeOK, Source
<1>5. Head(wire) \subseteq past /\ \A i \in 1..Len(wire') : wire'[i] \subseteq past
  BY <1>3 DEF FromThePast
<1>6. /\ \A c \in DOMAIN todo'["message"] : todo'["message"][c] = TRUE
      /\ \A c \in DOMAIN todo'["message"] : <<Self, c>> \in Head(wire)
  <2> DEFINE new == Generate(Head(wire), TRUE)
  <2>1. /\ \A c \in DOMAIN new : new[c] = TRUE
        /\ \A c \in DOMAIN new : <<Self, c>> \in Head(wire)
    BY GenerateFromMessage
  <2>2. todo'["message"] = new
    BY <1>1
  <2> HIDE DEF new
  <2> QED
    BY <2>1, <2>2
<1>7. \A s \in Source : \A c \in DOMAIN todo'[s] :
          todo'[s][c] = TRUE => <<Self, c>> \in past
  <2>1. \A c \in DOMAIN todo'["message"] : <<Self, c>> \in past
    BY <1>5, <1>6
  <2> QED
    BY <1>1, <2>1 DEF FromThePast, Source
<1>8. FromThePast' /\ OnlyOwnAlarms'
  BY <1>5, <1>7 DEF FromThePast, OnlyOwnAlarms
<1>9. TodoIs'
  BY <1>1, <1>6, Zenon DEF TodoIs
<1>10. StillHeld' /\ Cached' /\ ConfirmedCached'
  BY <1>1 DEF StillHeld, Cached, ConfirmedCached
<1> QED
  BY <1>4, <1>8, <1>9, <1>10

-----------------------------------------------------------------------------
(* The loop that both threads run                                          *)

\* A message writes TRUE; a poll writes FALSE only where its answer allows it.
LEMMA WriteCacheInv ==
    ASSUME AlarmsInv, NEW s \in Source, WriteCache(s)
    PROVE  AlarmsInv'
<1> USE DEF AlarmsInv, server, history
<1>1. PICK c \in DOMAIN todo[s] : /\ cache' = [cache EXCEPT ![c] = todo[s][c]]
                                 /\ half' = [half EXCEPT ![s] = c]
  BY DEF WriteCache
<1>2. c \in Known /\ todo[s][c] \in BOOLEAN
  BY UpdateIs DEF TypeOK
<1>3. UNCHANGED <<active, up, wire, raises, event, monitor, answer, todo, past, held, confirmed>>
  BY DEF WriteCache
<1>4. TypeOK'
  BY <1>1, <1>2, <1>3 DEF TypeOK, Value
<1>5. FromThePast' /\ TodoIs' /\ StillHeld'
  BY <1>3 DEF FromThePast, TodoIs, StillHeld
<1>6. OnlyOwnAlarms'
  BY <1>1, <1>2, <1>3 DEF TypeOK, FromThePast, OnlyOwnAlarms
<1>7. <<Self, c>> \in held => todo[s][c] = TRUE \/ monitor # "apply"
  BY DEF Source, TodoIs, StillHeld
<1>8. <<Self, c>> \in confirmed => todo[s][c] = TRUE
  BY <1>7, NothingIs DEF Source, TodoIs, StillHeld
<1>9. Cached' /\ ConfirmedCached'
  BY <1>1, <1>2, <1>3, <1>7, <1>8 DEF TypeOK, Source, Cached, ConfirmedCached
<1> QED
  BY <1>4, <1>5, <1>6, <1>9

LEMMA PushEventInv ==
    ASSUME AlarmsInv, NEW s \in Source, PushEvent(s)
    PROVE  AlarmsInv'
<1> DEFINE c == half[s]
<1> USE DEF AlarmsInv, server, history
<1>1. c \in DOMAIN todo[s] /\ c \in Known /\ todo[s][c] \in BOOLEAN
  BY UpdateIs, ConstantsAssumption DEF TypeOK, PushEvent
<1>2. /\ event' = [event EXCEPT ![c] = todo[s][c]]
      /\ todo' = [todo EXCEPT ![s] = Without(todo[s], c)]
      /\ half' = [half EXCEPT ![s] = None]
      /\ UNCHANGED <<active, up, wire, raises, cache, monitor, answer, past, held, confirmed>>
  BY DEF PushEvent
<1>3. todo[s] \in Update
  BY DEF TypeOK
<1>4. /\ todo' \in [Source -> Update]
      /\ DOMAIN todo'[s] = DOMAIN todo[s] \ {c}
      /\ \A d \in DOMAIN todo'[s] : todo'[s][d] = todo[s][d]
      /\ \A r \in Source \ {s} : todo'[r] = todo[r]
  <2>1. /\ Without(todo[s], c) \in Update
        /\ DOMAIN Without(todo[s], c) = DOMAIN todo[s] \ {c}
        /\ \A d \in DOMAIN todo[s] \ {c} : Without(todo[s], c)[d] = todo[s][d]
    BY <1>3, WithoutIs
  <2>2. todo'[s] = Without(todo[s], c) /\ \A r \in Source \ {s} : todo'[r] = todo[r]
    BY <1>2 DEF TypeOK
  <2>3. todo' \in [Source -> Update]
    BY <1>2, <2>1 DEF TypeOK
  <2> QED
    BY <2>1, <2>2, <2>3
<1>5. TypeOK'
  BY <1>1, <1>2, <1>4 DEF TypeOK, Value
<1>6. FromThePast' /\ StillHeld'
  BY <1>2, <1>4 DEF FromThePast, StillHeld
<1>7. OnlyOwnAlarms'
  BY <1>1, <1>2 DEF TypeOK, FromThePast, OnlyOwnAlarms
<1>8. TodoIs'
  BY <1>1, <1>2, <1>4, NothingIs DEF TodoIs, Source
<1>9. Cached'
  <2>1. CASE s = "poll"
    <3>1. half'["poll"] = None
      BY <1>2, <2>1 DEF TypeOK
    <3> QED
      BY <1>2, <1>4, <2>1, <3>1, ConstantsAssumption DEF Cached
  <2>2. CASE s = "message"
    BY <1>2, <1>4, <2>2 DEF TypeOK, Source, Cached
  <2> QED
    BY <2>1, <2>2 DEF Source
<1>10. ConfirmedCached'
  BY <1>2 DEF ConfirmedCached
<1> QED
  BY <1>10, <1>5, <1>6, <1>7, <1>8, <1>9

-----------------------------------------------------------------------------
LEMMA NextInv ==
    ASSUME AlarmsInv, [Next]_vars
    PROVE  AlarmsInv'
<1>1. CASE MonitorThread \/ SocketThread
  BY <1>1, PollInv, StartPollUpdateInv, EndPollUpdateInv, ReceiveMessageInv,
     WriteCacheInv, PushEventInv DEF MonitorThread, SocketThread, Source
<1>2. CASE \E a \in Alarm : RaiseAlarm(a) \/ EndAlarm(a)
  BY <1>2, RaiseAlarmInv, EndAlarmInv
<1>3. CASE UpFlips \/ UNCHANGED vars
  BY <1>3 DEF UpFlips, vars, server, history, AlarmsInv, TypeOK, FromThePast,
              OnlyOwnAlarms, TodoIs, StillHeld, Cached, ConfirmedCached
<1> QED
  BY <1>1, <1>2, <1>3 DEF Next, Server

LEMMA AlarmsInvariant == Spec => []AlarmsInv
BY InitInv, NextInv, PTL DEF Spec

\* The variables always hold what the code can put in them: the loop never
\* pushes an alarm that it has not to apply.
THEOREM TypeCorrect == Spec => []TypeOK
<1>1. AlarmsInv => TypeOK
  BY DEF AlarmsInv
<1> QED
  BY <1>1, AlarmsInvariant, PTL

\* No client reads or is told of an alarm this chiller never had.
THEOREM OnlyOwnAlarmsAlways == Spec => []OnlyOwnAlarms
<1>1. AlarmsInv => OnlyOwnAlarms
  BY DEF AlarmsInv
<1> QED
  BY <1>1, AlarmsInvariant, PTL

\* An alarm that a poll has seen stays reported while it is active, whatever
\* messages and answers the two threads apply in whatever order.
THEOREM ConfirmedAlarmStaysAlways == Spec => []ConfirmedAlarmStays
<1>1. AlarmsInv => ConfirmedAlarmStays
  BY ConstantsAssumption DEF AlarmsInv, ConfirmedCached, ConfirmedAlarmStays, Quality
<1> QED
  BY <1>1, AlarmsInvariant, PTL
=============================================================================
