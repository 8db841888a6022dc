----------------------- MODULE AttributePolling_proofs -----------------------
(***************************************************************************)
(* Proofs about AttributePolling: type correctness, the safety of the      *)
(* write queue, the reports to the Tango device, and the refinement of     *)
(* WriteMailbox, for every set of attributes, period, PDU size and         *)
(* transport, and for every number of writes.                              *)
(***************************************************************************)
EXTENDS PolledReads, TLAPS

-----------------------------------------------------------------------------
(* Insertion-ordered dictionaries                                          *)

\* d[e.attr] = e.ver keeps a dictionary a dictionary.
LEMMA AssignType ==
    ASSUME NEW d \in Seq(Entry), NEW e \in Entry
    PROVE  Assign(d, e) \in Seq(Entry)
<1>1. CASE e.attr \in Keys(d)
  <2> DEFINE D == [i \in 1..Len(d) |-> IF d[i].attr = e.attr THEN e ELSE d[i]]
  <2>1. Len(d) \in Nat /\ \A i \in 1..Len(d) : d[i] \in Entry
    OBVIOUS
  <2>2. D \in [1..Len(d) -> Entry]
    BY <2>1
  <2>3. D \in Seq(Entry)
    BY <2>1, <2>2
  <2> QED
    BY <1>1, <2>3 DEF Assign
<1>2. CASE e.attr \notin Keys(d)
  BY <1>2 DEF Assign
<1> QED
  BY <1>1, <1>2

\* What d[e.attr] = e.ver leaves in d: e itself and the entries of other keys.
LEMMA AssignEntries ==
    ASSUME NEW d \in Seq(Entry), NEW e \in Entry
    PROVE  /\ \A i \in 1..Len(Assign(d, e)) :
               \/ Assign(d, e)[i] = e
               \/ \E j \in 1..Len(d) : Assign(d, e)[i] = d[j] /\ d[j].attr # e.attr
           /\ \E i \in 1..Len(Assign(d, e)) : Assign(d, e)[i] = e
           /\ \A j \in 1..Len(d) : d[j].attr # e.attr =>
               \E i \in 1..Len(Assign(d, e)) : Assign(d, e)[i] = d[j]
<1>1. CASE e.attr \in Keys(d)
  <2>1. PICK k \in 1..Len(d) : d[k].attr = e.attr
    BY <1>1 DEF Keys
  <2> DEFINE D == [i \in 1..Len(d) |-> IF d[i].attr = e.attr THEN e ELSE d[i]]
  <2>2. Assign(d, e) = D /\ Len(D) = Len(d)
    BY <1>1 DEF Assign, Entry
  <2>3. \A i \in 1..Len(d) : D[i] = IF d[i].attr = e.attr THEN e ELSE d[i]
    OBVIOUS
  <2> HIDE DEF D
  <2> QED
    BY <2>1, <2>2, <2>3
<1>2. CASE e.attr \notin Keys(d)
  <2>1. Assign(d, e) = Append(d, e)
    BY <1>2 DEF Assign
  <2>2. \A j \in 1..Len(d) : d[j].attr # e.attr
    BY <1>2 DEF Keys
  <2> QED
    BY <2>1, <2>2
<1> QED
  BY <1>1, <1>2

\* ... and no key appears twice in it.
LEMMA AssignUnique ==
    ASSUME NEW d \in Seq(Entry), NEW e \in Entry, UniqueKeys(d)
    PROVE  UniqueKeys(Assign(d, e))
<1>1. CASE e.attr \in Keys(d)
  <2> DEFINE D == [i \in 1..Len(d) |-> IF d[i].attr = e.attr THEN e ELSE d[i]]
  <2>1. Assign(d, e) = D /\ Len(D) = Len(d)
    BY <1>1 DEF Assign, Entry
  <2>2. \A i \in 1..Len(d) : D[i].attr = d[i].attr
    OBVIOUS
  <2> HIDE DEF D
  <2> QED
    BY <2>1, <2>2 DEF UniqueKeys
<1>2. CASE e.attr \notin Keys(d)
  <2>1. \A j \in 1..Len(d) : d[j].attr # e.attr
    BY <1>2 DEF Keys
  <2>2. Assign(d, e) = Append(d, e)
    BY <1>2 DEF Assign
  <2> QED
    BY <2>1, <2>2 DEF UniqueKeys
<1> QED
  BY <1>1, <1>2

\* Overlay(f, d) differs from f only where d has an entry, and agrees with d there.
LEMMA OverlayValue ==
    ASSUME NEW f, NEW d \in Seq(Entry), UniqueKeys(d), NEW a \in Attr
    PROVE  /\ a \notin Keys(d) => Overlay(f, d)[a] = f[a]
           /\ \A i \in 1..Len(d) : d[i].attr = a => Overlay(f, d)[a] = d[i].ver
<1>1. a \notin Keys(d) => Overlay(f, d)[a] = f[a]
  BY DEF Overlay
<1>2. ASSUME NEW i \in 1..Len(d), d[i].attr = a
      PROVE  Overlay(f, d)[a] = d[i].ver
  <2>1. a \in Keys(d)
    BY <1>2 DEF Keys
  <2> DEFINE k == CHOOSE j \in 1..Len(d) : d[j].attr = a
  <2>2. k \in 1..Len(d) /\ d[k].attr = a
    BY <1>2
  <2>3. k = i
    BY <1>2, <2>2 DEF UniqueKeys
  <2> QED
    BY <2>1, <2>3 DEF Overlay, Lookup
<1> QED
  BY <1>1, <1>2

\* Writing the entries of d over values that may be naturals leaves such values.
LEMMA OverlayType ==
    ASSUME NEW S, Nat \subseteq S, NEW f \in [Attr -> S], NEW d \in Seq(Entry)
    PROVE  Overlay(f, d) \in [Attr -> S]
<1> SUFFICES ASSUME NEW a \in Attr, a \in Keys(d)
             PROVE  Lookup(d, a) \in Nat
  BY DEF Overlay
<1> DEFINE k == CHOOSE j \in 1..Len(d) : d[j].attr = a
<1>1. k \in 1..Len(d)
  BY DEF Keys
<1>2. d[k] \in Entry
  BY <1>1
<1>3. Lookup(d, a) = d[k].ver
  BY DEF Lookup
<1> HIDE DEF k
<1> QED
  BY <1>2, <1>3 DEF Entry

\* The first n entries of a dictionary and the others.
LEMMA Chunks ==
    ASSUME NEW d \in Seq(Entry), NEW n \in 0..Len(d)
    PROVE  LET chunk == SubSeq(d, 1, n)
               rest  == SubSeq(d, n + 1, Len(d))
           IN  /\ chunk \in Seq(Entry) /\ rest \in Seq(Entry)
               /\ Len(chunk) = n /\ Len(rest) = Len(d) - n
               /\ \A i \in 1..n : chunk[i] = d[i]
               /\ \A i \in 1..(Len(d) - n) : rest[i] = d[n + i]
<1> QED
  OBVIOUS

\* The same of the writes of a request, of which the first n are in a PDU.
LEMMA WriteChunks ==
    ASSUME TypeOK, NEW n \in 0..Len(writes)
    PROVE  LET chunk == SubSeq(writes, 1, n)
               rest  == SubSeq(writes, n + 1, Len(writes))
           IN  /\ chunk \in Seq(Entry) /\ rest \in Seq(Entry)
               /\ Len(chunk) = n /\ Len(rest) = Len(writes) - n
               /\ \A i \in 1..n : chunk[i] = writes[i]
               /\ \A i \in 1..(Len(writes) - n) : rest[i] = writes[n + i]
               /\ n \in Nat /\ Len(writes) \in Nat
<1>1. writes \in Seq(Entry)
  BY DEF TypeOK
<1>2. n \in Nat /\ Len(writes) \in Nat
  BY <1>1
<1> QED
  BY <1>1, <1>2, Chunks

\* Python's min().
LEMMA LeastBounds ==
    ASSUME NEW m \in Nat, NEW n \in Nat
    PROVE  Least(m, n) \in 0..n
BY DEF Least

-----------------------------------------------------------------------------
(* Type correctness                                                        *)

\* The initial values have their types.
LEMMA TypeInit == Init => TypeOK
BY ConstantsAssumption DEF Init, TypeOK, Entry, Inf, NoResponse

\* A poll that raises leaves an empty request and remembers what it threw away.
LEMMA TypeRaise ==
    ASSUME TypeOK, NEW d \in Seq(Entry), Raise(d)
    PROVE  /\ pc' = "failed"
           /\ lost' \in [Attr -> Nat]
           /\ writes' = <<>> /\ writes' \in Seq(Entry)
           /\ reads' = {} /\ reads' \in SUBSET Attr
           /\ response' \in [Attr -> Nat \cup {None}]
<1>1. lost \in [Attr -> Nat]
  BY DEF TypeOK
<1>2. Overlay(lost, d) \in [Attr -> Nat]
  BY <1>1, OverlayType
<1>3. <<>> \in Seq(Entry)
  OBVIOUS
<1> QED
  BY <1>2, <1>3 DEF Raise, NoResponse

\* What an exchange that carries the first n writes leaves in the queue and in
\* the history has its type, whether or not the reply comes.
LEMMA TypeSendWrites ==
    ASSUME TypeOK, NEW n \in 0..Len(writes), SendWrites(n)
    PROVE  TypeOK'
<1> DEFINE chunk == SubSeq(writes, 1, n)
           rest  == SubSeq(writes, n + 1, Len(writes))
<1>1. chunk \in Seq(Entry) /\ rest \in Seq(Entry)
  BY WriteChunks
<1>2. /\ Overlay(sent, chunk) \in [Attr -> Nat]
      /\ Overlay(taking, chunk) \in [Attr -> Nat \cup {None}]
  <2>1. sent \in [Attr -> Nat] /\ taking \in [Attr -> Nat \cup {None}]
    BY DEF TypeOK
  <2> QED
    BY <1>1, <2>1, OverlayType
<1>3. /\ sent' = Overlay(sent, chunk)
      /\ taking' \in {taking, Overlay(taking, chunk)}
      /\ \/ writes' = rest /\ UNCHANGED <<pc, reads, response, lost>>
         \/ Raise(rest)
      /\ UNCHANGED <<pending, manager, poller, opState, admitted, hw, reachable,
                     stamp, latest>>
  BY DEF SendWrites
<1> HIDE DEF chunk, rest
<1>4. CASE writes' = rest /\ UNCHANGED <<pc, reads, response, lost>>
  <2>1. sent' \in [Attr -> Nat] /\ taking' \in [Attr -> Nat \cup {None}]
    BY <1>2, <1>3 DEF TypeOK
  <2>2. writes' \in Seq(Entry)
    BY <1>1, <1>4
  <2>3. UNCHANGED <<pending, comm, power, value, age, poller, opState, admitted,
                    hw, reachable, stamp, latest, pc, reads, response, lost>>
    BY <1>3, <1>4 DEF manager
  <2> QED
    BY SMTT(30), <2>1, <2>2, <2>3 DEF TypeOK
<1>5. CASE Raise(rest)
  <2>1. /\ pc' = "failed"
        /\ lost' \in [Attr -> Nat]
        /\ writes' \in Seq(Entry)
        /\ reads' \in SUBSET Attr
        /\ response' \in [Attr -> Nat \cup {None}]
    BY <1>1, <1>5, TypeRaise
  <2> QED
    BY <1>2, <1>3, <2>1 DEF TypeOK, manager
<1> QED
  BY <1>3, <1>4, <1>5

\* So does a read exchange.
LEMMA TypeQuery ==
    ASSUME TypeOK, NEW n, Query(n)
    PROVE  TypeOK'
<1>1. UNCHANGED <<pending, manager, poller, opState, admitted, hardware, stamp,
                  latest, sent>>
  BY DEF Query
<1>2. CASE Raise(<<>>)
  <2>1. <<>> \in Seq(Entry)
    OBVIOUS
  <2> QED
    BY <1>1, <1>2, <2>1, TypeRaise DEF TypeOK, manager, hardware
<1>3. ASSUME NEW chunk \in SUBSET reads, NEW valued,
             reads' = reads \ chunk,
             response' = [a \in Attr |-> IF a \in valued THEN hw[a] ELSE response[a]],
             UNCHANGED <<pc, writes, lost>>
      PROVE  TypeOK'
  BY <1>1, <1>3 DEF TypeOK, manager, hardware
<1> QED
  BY <1>2, <1>3 DEF Query

\* Every action keeps the types.
LEMMA TypeNext == TypeOK /\ [Next]_vars => TypeOK'
<1> SUFFICES ASSUME TypeOK, [Next]_vars
             PROVE  TypeOK'
  OBVIOUS
<1> USE DEF TypeOK, manager, thread, hardware, history
<1>1. ASSUME NEW a \in Attr, Admit(a)
      PROVE  TypeOK'
  BY <1>1 DEF Admit
<1>2. CASE EnqueueWrite
  <2> DEFINE e == [attr |-> admitted, ver |-> stamp']
  <2>1. e \in Entry
    BY <1>2 DEF EnqueueWrite, Entry
  <2>2. pending' \in Seq(Entry)
    BY <1>2, <2>1, AssignType DEF EnqueueWrite
  <2> QED
    BY SMTT(30), <1>2, <2>2 DEF EnqueueWrite
<1>3. CASE RejectWrite
  BY <1>3 DEF RejectWrite
<1>4. CASE PollingStarted
  BY <1>4 DEF PollingStarted, SetComm
<1>5. CASE PopWrite
  <2>1. Len(pending) \in Nat \ {0} /\ pending[Len(pending)] \in Entry
    BY <1>5 DEF PopWrite
  <2>2. writes' \in Seq(Entry)
    BY <1>5, <2>1, AssignType DEF PopWrite
  <2>3. pending' \in Seq(Entry)
    BY <1>5, <2>1 DEF PopWrite
  <2> QED
    BY <1>5, <2>2, <2>3 DEF PopWrite
<1>6. CASE BuildRequest
  BY <1>6 DEF BuildRequest, Due
<1>7. CASE Connect
  <2>1. CASE Raise(writes)
    BY <1>7, <2>1, TypeRaise DEF Connect
  <2>2. CASE ~Raise(writes)
    BY <1>7, <2>2 DEF Connect
  <2> QED
    BY <2>1, <2>2
<1>8. CASE Exchange
  <2>1. Len(writes) \in Nat /\ MaxObjects \in Nat
    BY ConstantsAssumption
  <2>2. CASE SNMPSet
    BY <2>1, <2>2, LeastBounds, TypeSendWrites DEF SNMPSet
  <2>3. CASE SNMPGet
    BY <2>3, TypeQuery DEF SNMPGet
  <2>4. CASE ProXRWrite
    <3>1. 1 \in 0..Len(writes)
      BY <2>1, <2>4 DEF ProXRWrite, SendWrites
    <3> QED
      BY <3>1, <2>4, TypeSendWrites DEF ProXRWrite
  <2>5. CASE ProXRRead
    BY <2>5, TypeQuery DEF ProXRRead
  <2> QED
    BY <1>8, <2>2, <2>3, <2>4, <2>5 DEF Exchange
<1>9. CASE ProXRHang
  <2> DEFINE n     == Least(1, Len(writes))
             chunk == SubSeq(writes, 1, n)
             rest  == SubSeq(writes, n + 1, Len(writes))
  <2>1. n \in 0..Len(writes)
    BY LeastBounds
  <2>2. chunk \in Seq(Entry) /\ rest \in Seq(Entry)
    BY <2>1, WriteChunks
  <2>3. /\ Overlay(sent, chunk) \in [Attr -> Nat]
        /\ Overlay(taking, chunk) \in [Attr -> Nat \cup {None}]
    BY <2>2, OverlayType
  <2>4. /\ pc' = "hung"
        /\ sent' = Overlay(sent, chunk)
        /\ taking' \in {taking, Overlay(taking, chunk)}
        /\ writes' = rest
        /\ UNCHANGED <<pending, manager, poller, reads, response, opState,
                       admitted, hw, reachable, stamp, latest, lost>>
    BY <1>9 DEF ProXRHang
  <2> HIDE DEF chunk, rest
  <2> QED
    BY <2>2, <2>3, <2>4
<1>10. CASE PollReturns
  <2>1. CASE Raise(<<>>)
    <3>1. <<>> \in Seq(Entry)
      OBVIOUS
    <3> QED
      BY <1>10, <2>1, <3>1, TypeRaise DEF PollReturns
  <2>2. CASE ~Raise(<<>>)
    BY <1>10, <2>2 DEF PollReturns
  <2> QED
    BY <2>1, <2>2
<1>11. CASE ReportEstablished
  BY <1>11 DEF ReportEstablished, SetComm
<1>12. CASE UpdateComponent
  <2>1. Inf \in Nat
    BY ConstantsAssumption DEF Inf
  <2>2. age' \in [Attr -> 0..Inf]
    BY <1>12, <2>1 DEF UpdateComponent
  <2>3. value' \in [Attr -> Nat \cup {None}]
    BY <1>12 DEF UpdateComponent
  <2>4. response' \in [Attr -> Nat \cup {None}]
    BY <1>12 DEF UpdateComponent, NoResponse
  <2>5. power' \in {"UNKNOWN", "ON"} /\ opState' \in {"DISABLE", "UNKNOWN", "ON"}
    BY <1>12 DEF UpdateComponent, SetPower
  <2> QED
    BY <1>12, <2>2, <2>3, <2>4, <2>5 DEF UpdateComponent
<1>13. CASE ReportNotEstablished
  BY <1>13 DEF ReportNotEstablished, SetComm
<1>14. CASE PowerUnknown
  BY <1>14 DEF PowerUnknown, SetPower
<1>15. CASE Wake
  BY <1>15 DEF Wake, SetPower
<1>16. CASE PollingStopped
  BY <1>16 DEF PollingStopped, SetComm
<1>17. CASE StartCommunicating
  BY <1>17 DEF StartCommunicating
<1>18. CASE StopCommunicating
  BY <1>18 DEF StopCommunicating
<1>19. ASSUME NEW a \in Attr, HardwareChanges(a)
       PROVE  TypeOK'
  <2>1. stamp' \in Nat /\ hw' \in [Attr -> Nat]
    BY <1>19 DEF HardwareChanges
  <2>2. UNCHANGED <<pending, comm, power, value, age, poller, opState, admitted,
                    taking, reachable, pc, writes, reads, response, latest, sent,
                    lost>>
    BY <1>19 DEF HardwareChanges
  <2>3. /\ pending' \in Seq(Entry) /\ writes' \in Seq(Entry)
        /\ latest' \in [Attr -> Nat] /\ sent' \in [Attr -> Nat]
        /\ lost' \in [Attr -> Nat]
    BY <2>2
  <2>4. /\ comm' \in {"DISABLED", "NOT_ESTABLISHED", "ESTABLISHED"}
        /\ power' \in {"UNKNOWN", "ON"}
        /\ value' \in [Attr -> Nat \cup {None}]
        /\ age' \in [Attr -> 0..Inf]
        /\ poller' \in {"POLLING", "STOPPED"}
    BY <2>2
  <2>5. /\ pc' = pc
        /\ reads' \in SUBSET Attr
        /\ response' \in [Attr -> Nat \cup {None}]
        /\ opState' \in {"DISABLE", "UNKNOWN", "ON"}
        /\ admitted' \in Attr \cup {None}
        /\ taking' \in [Attr -> Nat \cup {None}]
        /\ reachable' \in BOOLEAN
    BY <2>2
  <2> QED
    BY <2>1, <2>3, <2>4, <2>5
<1>20. CASE LinkFlips
  BY <1>20 DEF LinkFlips
<1>21. CASE Tick
  <2>1. MaxAge \in Nat /\ Inf = MaxAge + 1
    BY ConstantsAssumption DEF Inf
  <2>2. ASSUME NEW a \in Attr
        PROVE  (IF age[a] = Inf THEN Inf ELSE Least(age[a] + 1, MaxAge)) \in 0..Inf
    BY SMTT(30), <2>1 DEF Least
  <2>3. age' \in [Attr -> 0..Inf]
    BY <1>21, <2>2 DEF Tick
  <2> QED
    BY SMTT(30), <1>21, <2>3 DEF Tick
<1>22. CASE UNCHANGED vars
  BY <1>22 DEF vars
<1>23. ASSUME NEW a \in Attr, TakesEffect(a)
       PROVE  TypeOK'
  <2>1. hw' \in [Attr -> Nat] /\ taking' \in [Attr -> Nat \cup {None}]
    BY <1>23 DEF TakesEffect
  <2>2. UNCHANGED <<pending, comm, power, value, age, poller, opState, admitted,
                    reachable, pc, writes, reads, response, stamp, latest, sent,
                    lost>>
    BY <1>23 DEF TakesEffect
  <2>3. /\ pending' \in Seq(Entry) /\ writes' \in Seq(Entry)
        /\ latest' \in [Attr -> Nat] /\ sent' \in [Attr -> Nat]
        /\ lost' \in [Attr -> Nat] /\ stamp' \in Nat
    BY <2>2
  <2>4. /\ comm' \in {"DISABLED", "NOT_ESTABLISHED", "ESTABLISHED"}
        /\ power' \in {"UNKNOWN", "ON"}
        /\ value' \in [Attr -> Nat \cup {None}]
        /\ age' \in [Attr -> 0..Inf]
        /\ poller' \in {"POLLING", "STOPPED"}
    BY <2>2
  <2>5. /\ pc' = pc
        /\ reads' \in SUBSET Attr
        /\ response' \in [Attr -> Nat \cup {None}]
        /\ opState' \in {"DISABLE", "UNKNOWN", "ON"}
        /\ admitted' \in Attr \cup {None}
        /\ reachable' \in BOOLEAN
    BY <2>2
  <2> QED
    BY <2>1, <2>3, <2>4, <2>5
<1> QED
  BY <1>1, <1>2, <1>3, <1>4, <1>5, <1>6, <1>7, <1>8, <1>9, <1>10, <1>11, <1>12,
     <1>13, <1>14, <1>15, <1>16, <1>17, <1>18, <1>19, <1>20, <1>21, <1>22, <1>23
     DEF Next, TangoThread, PollingThread, Operator, Environment

\* The manager, its polling thread, the device and the hardware always hold
\* values of their types, for every number of writes and polls.
THEOREM TypeCorrect == Spec => []TypeOK
<1> QED
  BY TypeInit, TypeNext, PTL DEF Spec

-----------------------------------------------------------------------------
(* The write queue                                                         *)

\* The first n writes go out; the rest is kept or, when the poll fails, lost.
Transmit(n) ==
    LET chunk == SubSeq(writes, 1, n)
        rest  == SubSeq(writes, n + 1, Len(writes))
    IN  /\ pc # "drain"
        /\ sent' = Overlay(sent, chunk)
        /\ \/ writes' = rest /\ lost' = lost
           \/ writes' = <<>> /\ lost' = Overlay(lost, rest)
        /\ UNCHANGED <<pending, stamp, latest>>

\* The queue and its history stay as they are, and a drain ends only when
\* nothing is pending.
QueueIdle ==
    /\ UNCHANGED <<pending, writes, latest, sent, lost>>
    /\ stamp' >= stamp
    /\ pc' # "drain" => pc # "drain" \/ pending = <<>>

\* The entry of d that Overlay takes for a, if it takes one.
LEMMA OverlayCases ==
    ASSUME NEW f, NEW d \in Seq(Entry), UniqueKeys(d), NEW a \in Attr
    PROVE  \/ a \notin Keys(d) /\ Overlay(f, d)[a] = f[a]
           \/ \E i \in 1..Len(d) : d[i].attr = a /\ Overlay(f, d)[a] = d[i].ver
BY OverlayValue DEF Keys

\* Nothing is overridden with an empty dictionary.
LEMMA OverlayEmpty ==
    ASSUME NEW f \in [Attr -> Nat]
    PROVE  Overlay(f, <<>>) = f
<1>1. Keys(<<>>) = {}
  BY DEF Keys
<1> QED
  BY <1>1 DEF Overlay

\* A poll that raises with the writes of the request unsent.
LEMMA RaiseTransmits ==
    ASSUME TypeOK, Raise(writes), pc # "drain",
           UNCHANGED <<pending, stamp, latest, sent>>
    PROVE  Transmit(0) /\ 0 \in 0..Len(writes)
<1>1. SubSeq(writes, 1, 0) = <<>> /\ SubSeq(writes, 0 + 1, Len(writes)) = writes
  BY DEF TypeOK
<1>2. sent' = Overlay(sent, SubSeq(writes, 1, 0))
  BY <1>1, OverlayEmpty DEF TypeOK
<1>3. 0 \in 0..Len(writes)
  BY DEF TypeOK
<1> QED
  BY <1>1, <1>2, <1>3 DEF Transmit, Raise

\* A write exchange, in either transport.
LEMMA SendTransmits ==
    ASSUME TypeOK, NEW n \in 0..Len(writes), SendWrites(n)
    PROVE  Transmit(n)
BY DEF SendWrites, Transmit, Raise, TypeOK

\* A read exchange does not touch the queue.
LEMMA QueryKeepsQueue ==
    ASSUME TypeOK, NEW n, Query(n)
    PROVE  QueueIdle
<1>1. Overlay(lost, <<>>) = lost
  BY OverlayEmpty DEF TypeOK
<1> QED
  BY <1>1 DEF Query, Raise, QueueIdle, TypeOK

\* Every step enqueues a write, pops one, transmits some or leaves the queue.
LEMMA QueueSteps ==
    ASSUME TypeOK, [Next]_vars
    PROVE  \/ EnqueueWrite
           \/ PopWrite
           \/ \E n \in 0..Len(writes) : Transmit(n)
           \/ QueueIdle
<1> USE DEF TypeOK, manager, thread, hardware, history, QueueIdle
<1>1. ASSUME NEW a \in Attr, Admit(a)
      PROVE  QueueIdle
  BY <1>1 DEF Admit
<1>2. RejectWrite => QueueIdle
  BY DEF RejectWrite
<1>3. PollingStarted => QueueIdle
  BY DEF PollingStarted
<1>4. BuildRequest => QueueIdle
  BY DEF BuildRequest
<1>5. Connect => QueueIdle \/ (0 \in 0..Len(writes) /\ Transmit(0))
  BY RaiseTransmits DEF Connect
<1>6. Exchange => QueueIdle \/ \E n \in 0..Len(writes) : Transmit(n)
  <2>1. Len(writes) \in Nat /\ MaxObjects \in Nat
    BY ConstantsAssumption
  <2>2. ASSUME SNMPSet
        PROVE  \E n \in 0..Len(writes) : Transmit(n)
    BY <2>1, <2>2, LeastBounds, SendTransmits DEF SNMPSet
  <2>3. SNMPGet => QueueIdle
    BY QueryKeepsQueue DEF SNMPGet
  <2>4. ASSUME ProXRWrite
        PROVE  \E n \in 0..Len(writes) : Transmit(n)
    <3>1. 1 \in 0..Len(writes)
      BY <2>1, <2>4 DEF ProXRWrite, SendWrites
    <3> QED
      BY <3>1, <2>4, SendTransmits DEF ProXRWrite
  <2>5. ProXRRead => QueueIdle
    BY QueryKeepsQueue DEF ProXRRead
  <2> QED
    BY <2>2, <2>3, <2>4, <2>5 DEF Exchange
<1>7. ASSUME ProXRHang
      PROVE  \E n \in 0..Len(writes) : Transmit(n)
  <2>1. Least(1, Len(writes)) \in 0..Len(writes)
    BY LeastBounds
  <2>2. Transmit(Least(1, Len(writes)))
    BY <1>7 DEF ProXRHang, Transmit
  <2> QED
    BY <2>1, <2>2
<1>8. PollReturns => QueueIdle
  <2>1. Overlay(lost, <<>>) = lost
    BY OverlayEmpty
  <2> QED
    BY <2>1 DEF PollReturns, Raise
<1>9. ReportEstablished => QueueIdle
  BY DEF ReportEstablished
<1>10. UpdateComponent => QueueIdle
  BY DEF UpdateComponent
<1>11. ReportNotEstablished => QueueIdle
  BY DEF ReportNotEstablished
<1>12. PowerUnknown => QueueIdle
  BY DEF PowerUnknown
<1>13. Wake => QueueIdle
  BY DEF Wake
<1>14. PollingStopped => QueueIdle
  BY DEF PollingStopped
<1>15. StartCommunicating => QueueIdle
  BY DEF StartCommunicating
<1>16. StopCommunicating => QueueIdle
  BY DEF StopCommunicating
<1>17. ASSUME NEW a \in Attr, HardwareChanges(a)
       PROVE  QueueIdle
  BY <1>17 DEF HardwareChanges
<1>18. LinkFlips => QueueIdle
  BY DEF LinkFlips
<1>19. Tick => QueueIdle
  BY DEF Tick
<1>20. UNCHANGED vars => QueueIdle
  BY DEF vars
<1>21. ASSUME NEW a \in Attr, TakesEffect(a)
       PROVE  QueueIdle
  BY <1>21 DEF TakesEffect
<1> QED
  BY <1>1, <1>2, <1>3, <1>4, <1>5, <1>6, <1>7, <1>8, <1>9, <1>10, <1>11, <1>12,
     <1>13, <1>14, <1>15, <1>16, <1>17, <1>18, <1>19, <1>20, <1>21
     DEF Next, TangoThread, PollingThread, Operator, Environment

\* A client's write is newer than everything: it may go anywhere in the queue.
LEMMA OrderEnqueue ==
    ASSUME TypeOK, WriteOrder, EnqueueWrite
    PROVE  WriteOrder'
<1> DEFINE e == [attr |-> admitted, ver |-> stamp + 1]
<1>1. /\ admitted \in Attr
      /\ e \in Entry
      /\ stamp' = stamp + 1
      /\ latest' = [latest EXCEPT ![admitted] = stamp + 1]
      /\ pending' = Assign(pending, e)
      /\ UNCHANGED <<writes, sent, lost>>
  BY DEF EnqueueWrite, TypeOK, Entry, thread
<1>2. pending \in Seq(Entry)
  BY DEF TypeOK
<1>3. UniqueKeys(pending') /\ UniqueKeys(writes')
  BY <1>1, <1>2, AssignUnique DEF WriteOrder
<1>7. e.attr = admitted /\ e.ver = stamp + 1
  OBVIOUS
<1> HIDE DEF e
<1>4. ASSUME NEW i \in 1..Len(pending')
      PROVE  \/ pending'[i] = e
             \/ \E j \in 1..Len(pending) : pending'[i] = pending[j] /\ pending[j].attr # admitted
  <2>1. \A k \in 1..Len(Assign(pending, e)) :
          \/ Assign(pending, e)[k] = e
          \/ \E j \in 1..Len(pending) :
                Assign(pending, e)[k] = pending[j] /\ pending[j].attr # e.attr
    BY <1>1, <1>2, AssignEntries
  <2> QED
    BY <1>1, <1>7, <2>1
<1>5. /\ \A i \in 1..Len(writes) : writes[i] \in Entry
      /\ \A i \in 1..Len(pending) : pending[i] \in Entry
      /\ \A a \in Attr : sent[a] \in Nat /\ lost[a] \in Nat /\ latest[a] \in Nat
      /\ stamp \in Nat
  BY DEF TypeOK
<1>6. /\ latest'[admitted] = stamp + 1
      /\ \A a \in Attr : a # admitted => latest'[a] = latest[a]
  BY <1>1 DEF TypeOK
<1>8. ASSUME NEW i \in 1..Len(pending')
      PROVE  /\ pending'[i].ver = latest'[pending'[i].attr]
             /\ sent'[pending'[i].attr] < pending'[i].ver
             /\ lost'[pending'[i].attr] < pending'[i].ver
  BY SMTT(30), <1>1, <1>4, <1>5, <1>6, <1>7 DEF WriteOrder, Entry
<1>9. ASSUME NEW i \in 1..Len(writes')
      PROVE  /\ writes'[i].ver <= latest'[writes'[i].attr]
             /\ sent'[writes'[i].attr] < writes'[i].ver
             /\ lost'[writes'[i].attr] < writes'[i].ver
  BY <1>1, <1>5, <1>6 DEF WriteOrder, Entry
<1>10. ASSUME NEW i \in 1..Len(writes'), NEW j \in 1..Len(pending'),
              writes'[i].attr = pending'[j].attr
       PROVE  writes'[i].ver < pending'[j].ver
  <2>1. /\ writes[i].attr \in Attr
        /\ writes[i].ver \in Nat
        /\ writes[i].ver <= latest[writes[i].attr]
        /\ latest[writes[i].attr] <= stamp
    BY <1>1, <1>5 DEF WriteOrder, Entry
  <2>2. CASE pending'[j] = e
    BY <1>1, <1>5, <1>7, <2>1, <2>2
  <2>3. ASSUME NEW k \in 1..Len(pending), pending'[j] = pending[k]
        PROVE  writes'[i].ver < pending'[j].ver
    BY <1>1, <1>10, <2>3 DEF WriteOrder
  <2> QED
    BY <1>4, <2>2, <2>3
<1>11. ASSUME NEW a \in Attr
       PROVE  sent'[a] <= latest'[a] /\ lost'[a] <= latest'[a] /\ latest'[a] <= stamp'
  BY <1>1, <1>5, <1>6 DEF WriteOrder
<1> QED
  BY <1>3, <1>8, <1>9, <1>10, <1>11 DEF WriteOrder

\* The write that is popped is the newest of its attribute and takes the place
\* of an older one popped before it.
LEMMA OrderPop ==
    ASSUME TypeOK, WriteOrder, PopWrite
    PROVE  WriteOrder'
<1> DEFINE n == Len(pending)
           e == pending[n]
<1>1. /\ n \in Nat \ {0}
      /\ e \in Entry
      /\ writes' = Assign(writes, e)
      /\ pending' = SubSeq(pending, 1, n - 1)
      /\ UNCHANGED <<stamp, latest, sent, lost>>
  BY DEF PopWrite, TypeOK, history
<1>2. /\ Len(pending') = n - 1
      /\ \A i \in 1..(n - 1) : pending'[i] = pending[i]
  <2>1. pending \in Seq(Entry) /\ n - 1 \in 0..Len(pending)
    BY <1>1 DEF TypeOK
  <2> QED
    BY <1>1, <2>1, Chunks
<1>3. \A i \in 1..(n - 1) : pending[i].attr # e.attr
  BY <1>1 DEF WriteOrder, UniqueKeys
<1>4. writes \in Seq(Entry)
  BY DEF TypeOK
<1>5. UniqueKeys(pending')
  <2>1. UniqueKeys(pending)
    BY DEF WriteOrder
  <2>2. \A i \in 1..Len(pending') : i \in 1..Len(pending) /\ pending'[i] = pending[i]
    BY <1>1, <1>2
  <2> QED
    BY <2>1, <2>2 DEF UniqueKeys
<1>6. UniqueKeys(writes')
  BY <1>1, <1>4, AssignUnique DEF WriteOrder
<1>7. ASSUME NEW i \in 1..Len(writes')
      PROVE  \/ writes'[i] = e
             \/ \E j \in 1..Len(writes) : writes'[i] = writes[j]
  BY <1>1, <1>4, AssignEntries
<1>8. /\ e.ver = latest[e.attr]
      /\ sent[e.attr] < e.ver
      /\ lost[e.attr] < e.ver
  BY <1>1 DEF WriteOrder
<1>9. \A a \in Attr : latest[a] \in Nat
  BY DEF TypeOK
<1> HIDE DEF e
<1>10. \A i \in 1..Len(pending') :
         /\ pending'[i].ver = latest'[pending'[i].attr]
         /\ sent'[pending'[i].attr] < pending'[i].ver
         /\ lost'[pending'[i].attr] < pending'[i].ver
  BY <1>1, <1>2 DEF WriteOrder
<1>11. \A i \in 1..Len(writes') :
         /\ writes'[i].ver <= latest'[writes'[i].attr]
         /\ sent'[writes'[i].attr] < writes'[i].ver
         /\ lost'[writes'[i].attr] < writes'[i].ver
  <2> SUFFICES ASSUME NEW i \in 1..Len(writes')
               PROVE  /\ writes'[i].ver <= latest'[writes'[i].attr]
                      /\ sent'[writes'[i].attr] < writes'[i].ver
                      /\ lost'[writes'[i].attr] < writes'[i].ver
    OBVIOUS
  <2>1. CASE writes'[i] = e
    BY <1>1, <1>8, <1>9, <2>1 DEF Entry
  <2>2. ASSUME NEW j \in 1..Len(writes), writes'[i] = writes[j]
        PROVE  /\ writes'[i].ver <= latest'[writes'[i].attr]
               /\ sent'[writes'[i].attr] < writes'[i].ver
               /\ lost'[writes'[i].attr] < writes'[i].ver
    BY <1>1, <2>2 DEF WriteOrder
  <2> QED
    BY <1>7, <2>1, <2>2
<1>12. ASSUME NEW i \in 1..Len(writes'), NEW j \in 1..Len(pending'),
              writes'[i].attr = pending'[j].attr
       PROVE  writes'[i].ver < pending'[j].ver
  <2>1. j \in 1..(n - 1) /\ j \in 1..Len(pending) /\ pending'[j] = pending[j]
    BY <1>1, <1>2
  <2>2. CASE writes'[i] = e
    BY <1>3, <1>12, <2>1, <2>2
  <2>3. ASSUME NEW k \in 1..Len(writes), writes'[i] = writes[k]
        PROVE  writes'[i].ver < pending'[j].ver
    BY <1>12, <2>1, <2>3 DEF WriteOrder
  <2> QED
    BY <1>7, <2>2, <2>3
<1> QED
  BY <1>1, <1>5, <1>6, <1>10, <1>11, <1>12 DEF WriteOrder

\* What is put on the wire is newer than what was sent and older than what is
\* pending; what stays in the request concerns other attributes.
LEMMA OrderTransmit ==
    ASSUME TypeOK, WriteOrder, NEW n \in 0..Len(writes), Transmit(n)
    PROVE  WriteOrder'
<1> DEFINE chunk == SubSeq(writes, 1, n)
           rest  == SubSeq(writes, n + 1, Len(writes))
<1>1. /\ chunk \in Seq(Entry) /\ rest \in Seq(Entry)
      /\ Len(chunk) = n /\ Len(rest) = Len(writes) - n
      /\ \A i \in 1..n : chunk[i] = writes[i]
      /\ \A i \in 1..(Len(writes) - n) : rest[i] = writes[n + i]
      /\ n \in Nat /\ Len(writes) \in Nat
  BY WriteChunks
<1>2. /\ sent' = Overlay(sent, chunk)
      /\ \/ writes' = rest /\ lost' = lost
         \/ writes' = <<>> /\ lost' = Overlay(lost, rest)
      /\ UNCHANGED <<pending, stamp, latest>>
  BY DEF Transmit
<1> HIDE DEF chunk, rest
<1>3. UniqueKeys(chunk) /\ UniqueKeys(rest)
  <2>1. UniqueKeys(writes)
    BY DEF WriteOrder
  <2>2. UniqueKeys(chunk)
    <3>1. \A i \in 1..Len(chunk) : i \in 1..Len(writes) /\ chunk[i] = writes[i]
      BY <1>1
    <3> QED
      BY <2>1, <3>1 DEF UniqueKeys
  <2>3. UniqueKeys(rest)
    <3>1. \A i \in 1..Len(rest) : n + i \in 1..Len(writes) /\ rest[i] = writes[n + i]
      BY <1>1
    <3>2. SUFFICES ASSUME NEW i \in 1..Len(rest), NEW j \in 1..Len(rest),
                          rest[i].attr = rest[j].attr
                   PROVE  i = j
      BY DEF UniqueKeys
    <3>3. /\ n + i \in 1..Len(writes) /\ n + j \in 1..Len(writes)
          /\ writes[n + i].attr = writes[n + j].attr
      BY <3>1, <3>2
    <3>4. n + i = n + j
      BY <2>1, <3>3 DEF UniqueKeys
    <3> QED
      BY <1>1, <3>4
  <2> QED
    BY <2>2, <2>3
<1>4. ASSUME NEW a \in Attr
      PROVE  \/ sent'[a] = sent[a]
             \/ \E k \in 1..n : writes[k].attr = a /\ sent'[a] = writes[k].ver
  <2>1. \/ Overlay(sent, chunk)[a] = sent[a]
        \/ \E k \in 1..Len(chunk) :
              chunk[k].attr = a /\ Overlay(sent, chunk)[a] = chunk[k].ver
    BY <1>1, <1>3, OverlayCases
  <2> QED
    BY <1>1, <1>2, <2>1
<1>5. ASSUME NEW a \in Attr
      PROVE  \/ lost'[a] = lost[a]
             \/ /\ writes' = <<>>
                /\ \E k \in 1..Len(writes) : writes[k].attr = a /\ lost'[a] = writes[k].ver
  <2>1. CASE lost' = lost
    BY <2>1
  <2>2. CASE writes' = <<>> /\ lost' = Overlay(lost, rest)
    <3>1. \/ Overlay(lost, rest)[a] = lost[a]
          \/ \E k \in 1..Len(rest) :
                rest[k].attr = a /\ Overlay(lost, rest)[a] = rest[k].ver
      BY <1>1, <1>3, OverlayCases
    <3>2. \A k \in 1..Len(rest) : n + k \in 1..Len(writes) /\ rest[k] = writes[n + k]
      BY <1>1
    <3> QED
      BY <2>2, <3>1, <3>2
  <2> QED
    BY <1>2, <2>1, <2>2
<1>6. ASSUME NEW i \in 1..Len(writes')
      PROVE  \E k \in (n + 1)..Len(writes) : writes'[i] = writes[k] /\ lost' = lost
  <2>1. writes' = rest /\ lost' = lost
    BY <1>2, <1>6
  <2> QED
    BY <1>1, <2>1
<1>7. /\ \A i \in 1..Len(writes) : writes[i].attr \in Attr /\ writes[i].ver \in Nat
      /\ \A i \in 1..Len(pending) : pending[i].attr \in Attr /\ pending[i].ver \in Nat
      /\ \A a \in Attr : sent[a] \in Nat /\ lost[a] \in Nat /\ latest[a] \in Nat
  <2>1. /\ \A i \in 1..Len(writes) : writes[i] \in Entry
        /\ \A i \in 1..Len(pending) : pending[i] \in Entry
    BY DEF TypeOK
  <2> QED
    BY <2>1 DEF TypeOK, Entry
<1>8. UniqueKeys(writes')
  BY <1>2, <1>3 DEF UniqueKeys
<1>9. \A i \in 1..Len(pending') :
        /\ pending'[i].ver = latest'[pending'[i].attr]
        /\ sent'[pending'[i].attr] < pending'[i].ver
        /\ lost'[pending'[i].attr] < pending'[i].ver
  <2> SUFFICES ASSUME NEW i \in 1..Len(pending)
               PROVE  /\ sent'[pending[i].attr] < pending[i].ver
                      /\ lost'[pending[i].attr] < pending[i].ver
    BY <1>2 DEF WriteOrder
  <2> DEFINE p == pending[i].attr
  <2>1. /\ p \in Attr
        /\ sent[p] < pending[i].ver
        /\ lost[p] < pending[i].ver
    BY <1>7 DEF WriteOrder
  <2>2. \A k \in 1..Len(writes) : writes[k].attr = p => writes[k].ver < pending[i].ver
    BY DEF WriteOrder
  <2>3. \A k \in 1..n : k \in 1..Len(writes)
    BY <1>1
  <2> QED
    BY <1>4, <1>5, <2>1, <2>2, <2>3
<1>10. ASSUME NEW i \in 1..Len(writes')
       PROVE  /\ writes'[i].ver <= latest'[writes'[i].attr]
              /\ sent'[writes'[i].attr] < writes'[i].ver
              /\ lost'[writes'[i].attr] < writes'[i].ver
  <2>1. PICK k \in (n + 1)..Len(writes) : writes'[i] = writes[k] /\ lost' = lost
    BY <1>6
  <2>2. k \in 1..Len(writes) /\ \A j \in 1..n : writes[j].attr # writes[k].attr
    BY <1>1 DEF WriteOrder, UniqueKeys
  <2>3. sent'[writes[k].attr] = sent[writes[k].attr]
    BY <1>4, <1>7, <2>2
  <2> QED
    BY <1>2, <2>1, <2>2, <2>3 DEF WriteOrder
<1>11. \A i \in 1..Len(writes'), j \in 1..Len(pending') :
         writes'[i].attr = pending'[j].attr => writes'[i].ver < pending'[j].ver
  BY <1>1, <1>2, <1>6 DEF WriteOrder
<1>12. ASSUME NEW a \in Attr
       PROVE  sent'[a] <= latest'[a] /\ lost'[a] <= latest'[a] /\ latest'[a] <= stamp'
  BY SMTT(30), <1>1, <1>2, <1>4, <1>5, <1>7 DEF WriteOrder
<1> QED
  BY <1>2, <1>8, <1>9, <1>10, <1>11, <1>12 DEF WriteOrder

\* WriteOrder is inductive, given the types.
LEMMA OrderNext ==
    ASSUME TypeOK, WriteOrder, [Next]_vars
    PROVE  WriteOrder'
<1>1. CASE QueueIdle
  <2>1. stamp \in Nat /\ \A a \in Attr : latest[a] \in Nat
    BY DEF TypeOK
  <2>2. stamp' \in Nat
    BY TypeNext DEF TypeOK
  <2>3. UNCHANGED <<pending, writes, latest, sent, lost>> /\ stamp' >= stamp
    BY <1>1 DEF QueueIdle
  <2>4. \A a \in Attr : latest'[a] <= stamp'
    BY <2>1, <2>2, <2>3 DEF WriteOrder
  <2> QED
    BY <2>3, <2>4 DEF WriteOrder
<1> QED
  BY <1>1, QueueSteps, OrderEnqueue, OrderPop, OrderTransmit

\* The write queue is a last-write-wins mailbox in every interleaving of clients
\* and polling thread: see WriteOrder.
THEOREM WritesInOrder == Spec => []WriteOrder
<1>1. Init => WriteOrder
  BY DEF Init, WriteOrder, UniqueKeys
<1>2. TypeOK /\ WriteOrder /\ [Next]_vars => WriteOrder'
  BY OrderNext
<1> QED
  BY <1>1, <1>2, TypeCorrect, PTL DEF Spec

\* What a transmission does to sent, in the terms of one attribute.
LEMMA TransmitAdvances ==
    ASSUME TypeOK, WriteOrder, NEW n \in 0..Len(writes), Transmit(n),
           NEW a \in Attr
    PROVE  \/ sent'[a] = sent[a]
           \/ sent[a] < sent'[a] /\ sent'[a] <= latest[a]
<1> DEFINE chunk == SubSeq(writes, 1, n)
<1>1. chunk \in Seq(Entry) /\ Len(chunk) = n /\ \A i \in 1..n : chunk[i] = writes[i]
  BY WriteChunks
<1>2. \A i \in 1..n : i \in 1..Len(writes)
  BY DEF TypeOK
<1>3. UniqueKeys(chunk)
  BY <1>1, <1>2 DEF WriteOrder, UniqueKeys
<1>4. sent' = Overlay(sent, chunk)
  BY DEF Transmit
<1> HIDE DEF chunk
<1>5. \/ Overlay(sent, chunk)[a] = sent[a]
      \/ \E i \in 1..Len(chunk) : chunk[i].attr = a /\ Overlay(sent, chunk)[a] = chunk[i].ver
  BY <1>1, <1>3, OverlayCases
<1> QED
  BY <1>1, <1>2, <1>4, <1>5 DEF WriteOrder

\* An older write never follows a newer write of its attribute onto the wire.
THEOREM SentMonotone == Spec => SentNeverRegresses
<1>1. ASSUME TypeOK, TypeOK', WriteOrder, [Next]_vars
      PROVE  \A a \in Attr : sent'[a] >= sent[a]
  <2>1. \A a \in Attr : sent[a] \in Nat /\ sent'[a] \in Nat
    BY <1>1 DEF TypeOK
  <2>2. CASE EnqueueWrite
    BY <2>1, <2>2 DEF EnqueueWrite
  <2>3. CASE PopWrite
    BY <2>1, <2>3 DEF PopWrite, history
  <2>4. ASSUME NEW n \in 0..Len(writes), Transmit(n)
        PROVE  \A a \in Attr : sent'[a] >= sent[a]
    BY <1>1, <2>1, <2>4, TransmitAdvances
  <2>5. CASE QueueIdle
    BY <2>1, <2>5 DEF QueueIdle
  <2> QED
    BY <1>1, <2>2, <2>3, <2>4, <2>5, QueueSteps
<1>2. TypeOK /\ TypeOK' /\ WriteOrder /\ [Next]_vars
        => [\A a \in Attr : sent'[a] >= sent[a]]_vars
  BY <1>1
<1> QED
  BY <1>2, TypeCorrect, WritesInOrder, PTL DEF Spec, SentNeverRegresses

\* AttributePolling implements WriteMailbox: with all its drains, chunks, polls
\* and failures a client sees a last-write-wins mailbox per attribute.
THEOREM MailboxRefined == Spec => ImplementsMailbox
<1>1. Init => Mailbox!Init
  BY DEF Init, Mailbox!Init
<1>2. ASSUME TypeOK, TypeOK', WriteOrder, [Next]_vars
      PROVE  [Mailbox!Next]_(Mailbox!vars)
  <2>1. /\ sent' \in [Attr -> Nat]
        /\ \A a \in Attr : latest[a] \in Nat
        /\ stamp \in Nat
    BY <1>2 DEF TypeOK
  <2>2. CASE EnqueueWrite
    <3>1. /\ admitted \in Attr
          /\ latest' = [latest EXCEPT ![admitted] = stamp + 1]
          /\ UNCHANGED sent
      BY <1>2, <2>2 DEF EnqueueWrite, TypeOK
    <3>2. latest'[admitted] = stamp + 1
      BY <1>2, <3>1 DEF TypeOK
    <3>3. \A b \in Attr : latest'[admitted] > latest[b]
      BY <1>2, <2>1, <3>2 DEF WriteOrder
    <3>4. Mailbox!Accept(admitted)
      BY <3>1, <3>2, <3>3 DEF Mailbox!Accept
    <3> QED
      BY <3>1, <3>4 DEF Mailbox!Next
  <2>3. CASE PopWrite
    BY <2>3 DEF PopWrite, history, Mailbox!vars
  <2>4. ASSUME NEW n \in 0..Len(writes), Transmit(n)
        PROVE  Mailbox!Next
    <3> DEFINE A == {a \in Attr : sent'[a] # sent[a]}
    <3>1. \A a \in A : sent[a] < sent'[a] /\ sent'[a] <= latest[a]
      BY <1>2, <2>4, TransmitAdvances
    <3>2. UNCHANGED latest
      BY <2>4 DEF Transmit
    <3>3. Mailbox!Deliver(A)
      BY <2>1, <3>1, <3>2 DEF Mailbox!Deliver
    <3>4. A \in SUBSET Attr
      OBVIOUS
    <3> QED
      BY <3>3, <3>4 DEF Mailbox!Next
  <2>5. CASE QueueIdle
    BY <2>5 DEF QueueIdle, Mailbox!vars
  <2> QED
    BY <1>2, <2>2, <2>3, <2>4, <2>5, QueueSteps
<1> QED
  BY <1>1, <1>2, TypeCorrect, WritesInOrder, PTL
     DEF Spec, ImplementsMailbox, Mailbox!Spec

\* Once the drain is over, what clients enqueue is newer than the whole request.
THEOREM BatchesInOrder == Spec => []BatchOrder
<1>1. Init => BatchOrder
  BY DEF Init, BatchOrder
<1>2. ASSUME TypeOK, WriteOrder, BatchOrder, [Next]_vars
      PROVE  BatchOrder'
  <2>1. CASE EnqueueWrite
    <3> DEFINE e == [attr |-> admitted, ver |-> stamp + 1]
    <3>1. /\ e \in Entry /\ pending \in Seq(Entry)
          /\ pending' = Assign(pending, e)
          /\ UNCHANGED <<writes, pc>>
      BY <1>2, <2>1 DEF EnqueueWrite, TypeOK, Entry, thread
    <3>2. e.ver = stamp + 1
      OBVIOUS
    <3> HIDE DEF e
    <3>3. \A j \in 1..Len(Assign(pending, e)) :
            \/ Assign(pending, e)[j] = e
            \/ \E k \in 1..Len(pending) : Assign(pending, e)[j] = pending[k]
      BY <3>1, AssignEntries
    <3>4. ASSUME NEW i \in 1..Len(writes)
          PROVE  writes[i].ver < stamp + 1
      <4>1. writes[i] \in Entry
        BY <1>2 DEF TypeOK
      <4>2. writes[i].attr \in Attr /\ writes[i].ver \in Nat
        BY <4>1 DEF Entry
      <4>3. stamp \in Nat /\ latest[writes[i].attr] \in Nat
        BY <1>2, <4>2 DEF TypeOK
      <4>4. writes[i].ver <= latest[writes[i].attr] /\ latest[writes[i].attr] <= stamp
        BY <1>2, <4>2 DEF WriteOrder
      <4> QED
        BY <4>2, <4>3, <4>4
    <3> QED
      BY <1>2, <3>1, <3>2, <3>3, <3>4 DEF BatchOrder
  <2>2. CASE PopWrite
    BY <2>2 DEF PopWrite, BatchOrder
  <2>3. ASSUME NEW n \in 0..Len(writes), Transmit(n)
        PROVE  BatchOrder'
    <3> DEFINE rest == SubSeq(writes, n + 1, Len(writes))
    <3>1. /\ Len(rest) = Len(writes) - n
          /\ \A i \in 1..(Len(writes) - n) : rest[i] = writes[n + i]
          /\ n \in Nat /\ Len(writes) \in Nat
      BY <1>2, WriteChunks
    <3>2. pc # "drain" /\ UNCHANGED pending /\ writes' \in {rest, <<>>}
      BY <2>3 DEF Transmit
    <3> HIDE DEF rest
    <3>3. \A i \in 1..Len(rest) : n + i \in 1..Len(writes) /\ rest[i] = writes[n + i]
      BY <3>1, SMTT(20)
    <3>4. \A i \in 1..Len(writes') : \E k \in 1..Len(writes) : writes'[i] = writes[k]
      BY <3>2, <3>3
    <3> QED
      BY <1>2, <3>2, <3>4 DEF BatchOrder
  <2>4. CASE QueueIdle
    <3>1. pending = <<>> => Len(pending) = 0
      OBVIOUS
    <3> QED
      BY <1>2, <2>4, <3>1 DEF QueueIdle, BatchOrder
  <2> QED
    BY <1>2, <2>1, <2>2, <2>3, <2>4, QueueSteps
<1> QED
  BY <1>1, <1>2, TypeCorrect, WritesInOrder, PTL DEF Spec

\* No interleaving of enqueue_write() with the drain makes a write vanish: the
\* newest one of an attribute is queued, in the request, sent, or was thrown
\* away by a failed poll.
THEOREM WritesAccountedFor == Spec => []NoWriteVanishes
<1> DEFINE newest(a) == [attr |-> a, ver |-> latest[a]]
<1>1. Init => NoWriteVanishes
  BY DEF Init, NoWriteVanishes
<1>2. ASSUME TypeOK, WriteOrder, NoWriteVanishes, [Next]_vars
      PROVE  NoWriteVanishes'
  <2>1. CASE EnqueueWrite
    <3> DEFINE e == [attr |-> admitted, ver |-> stamp + 1]
    <3>1. /\ admitted \in Attr
          /\ e \in Entry /\ pending \in Seq(Entry)
          /\ pending' = Assign(pending, e)
          /\ latest' = [latest EXCEPT ![admitted] = stamp + 1]
          /\ UNCHANGED <<writes, sent, lost>>
      BY <1>2, <2>1 DEF EnqueueWrite, TypeOK, Entry, thread
    <3>2. e.attr = admitted /\ latest' \in [Attr -> Nat]
      BY <1>2, <3>1 DEF TypeOK
    <3>3. e = [attr |-> admitted, ver |-> latest'[admitted]]
      BY <1>2, <3>1 DEF TypeOK
    <3>4. \A a \in Attr : a # admitted => latest'[a] = latest[a]
      BY <1>2, <3>1 DEF TypeOK
    <3> HIDE DEF e
    <3>5. /\ \E i \in 1..Len(pending') : pending'[i] = e
          /\ \A j \in 1..Len(pending) : pending[j].attr # e.attr =>
               \E i \in 1..Len(pending') : pending'[i] = pending[j]
      <4>1. pending \in Seq(Entry) /\ e \in Entry
        BY <3>1
      <4>2. /\ \E i \in 1..Len(Assign(pending, e)) : Assign(pending, e)[i] = e
            /\ \A j \in 1..Len(pending) : pending[j].attr # e.attr =>
                 \E i \in 1..Len(Assign(pending, e)) : Assign(pending, e)[i] = pending[j]
        BY <4>1, AssignEntries
      <4> QED
        BY <3>1, <4>2
    <3>6. ASSUME NEW a \in Attr, a # admitted, NEW j \in 1..Len(pending),
                 pending[j] = newest(a)
          PROVE  newest(a) \in {pending'[i] : i \in 1..Len(pending')}
      BY <3>2, <3>5, <3>6
    <3> QED
      BY <1>2, <3>1, <3>3, <3>4, <3>5, <3>6 DEF NoWriteVanishes
  <2>2. CASE PopWrite
    <3> DEFINE n == Len(pending)
               e == pending[n]
    <3>1. /\ n \in Nat \ {0}
          /\ e \in Entry /\ writes \in Seq(Entry)
          /\ writes' = Assign(writes, e)
          /\ pending' = SubSeq(pending, 1, n - 1)
          /\ UNCHANGED <<latest, sent, lost>>
      BY <1>2, <2>2 DEF PopWrite, TypeOK, history
    <3>2. /\ Len(pending') = n - 1
          /\ \A i \in 1..(n - 1) : pending'[i] = pending[i]
      <4>1. pending \in Seq(Entry) /\ n - 1 \in 0..Len(pending)
        BY <1>2, <3>1 DEF TypeOK
      <4> QED
        BY <3>1, <4>1, Chunks
    <3>3. e.ver = latest[e.attr]
      BY <1>2, <3>1 DEF WriteOrder
    <3>4. \A i \in 1..Len(pending) : i = n \/ i \in 1..(n - 1)
      BY <3>1
    <3> HIDE DEF e
    <3>5. /\ \E i \in 1..Len(writes') : writes'[i] = e
          /\ \A j \in 1..Len(writes) : writes[j].attr # e.attr =>
               \E i \in 1..Len(writes') : writes'[i] = writes[j]
      <4>1. writes \in Seq(Entry) /\ e \in Entry
        BY <3>1
      <4>2. /\ \E i \in 1..Len(Assign(writes, e)) : Assign(writes, e)[i] = e
            /\ \A j \in 1..Len(writes) : writes[j].attr # e.attr =>
                 \E i \in 1..Len(Assign(writes, e)) : Assign(writes, e)[i] = writes[j]
        BY <4>1, AssignEntries
      <4>3. writes' = Assign(writes, e)
        BY <3>1
      <4> QED
        BY <4>2, <4>3
    <3>6. ASSUME NEW a \in Attr, e.attr = a
          PROVE  newest(a) \in {writes'[i] : i \in 1..Len(writes')}
      <4>1. e = newest(a)
        BY <3>1, <3>3, <3>6 DEF Entry
      <4> QED
        BY <3>5, <4>1
    <3>7. ASSUME NEW a \in Attr, NEW j \in 1..Len(pending), pending[j] = newest(a)
          PROVE  \/ newest(a) \in {writes'[i] : i \in 1..Len(writes')}
                 \/ newest(a) \in {pending'[i] : i \in 1..Len(pending')}
      <4>1. CASE j = n
        BY <3>6, <3>7, <4>1 DEF e
      <4>2. CASE j \in 1..(n - 1)
        BY <3>2, <3>7, <4>2
      <4> QED
        BY <3>4, <4>1, <4>2
    <3>8. ASSUME NEW a \in Attr, NEW j \in 1..Len(writes), writes[j] = newest(a)
          PROVE  newest(a) \in {writes'[i] : i \in 1..Len(writes')}
      <4>1. writes[j].attr = a
        BY <3>8
      <4> QED
        BY <3>5, <3>6, <3>8, <4>1
    <3> QED
      BY <1>2, <3>1, <3>7, <3>8 DEF NoWriteVanishes
  <2>3. ASSUME NEW n \in 0..Len(writes), Transmit(n)
        PROVE  NoWriteVanishes'
    <3> DEFINE chunk == SubSeq(writes, 1, n)
               rest  == SubSeq(writes, n + 1, Len(writes))
    <3>1. /\ chunk \in Seq(Entry) /\ rest \in Seq(Entry)
          /\ Len(chunk) = n /\ Len(rest) = Len(writes) - n
          /\ \A i \in 1..n : chunk[i] = writes[i]
          /\ \A i \in 1..(Len(writes) - n) : rest[i] = writes[n + i]
          /\ n \in Nat /\ Len(writes) \in Nat
      BY <1>2, WriteChunks
    <3>2. /\ sent' = Overlay(sent, chunk)
          /\ \/ writes' = rest /\ lost' = lost
             \/ writes' = <<>> /\ lost' = Overlay(lost, rest)
          /\ UNCHANGED <<pending, stamp, latest>>
      BY <2>3 DEF Transmit
    <3> HIDE DEF chunk, rest
    <3>3. /\ \A i \in 1..Len(chunk) : i \in 1..Len(writes) /\ chunk[i] = writes[i]
          /\ \A i \in 1..Len(rest) : n + i \in 1..Len(writes) /\ rest[i] = writes[n + i]
          /\ \A i, j \in 1..Len(rest) : n + i = n + j => i = j
          /\ \A k \in 1..Len(writes) :
               \/ k \in 1..Len(chunk)
               \/ k - n \in 1..Len(rest) /\ n + (k - n) = k
      BY <3>1
    <3>4. UniqueKeys(writes)
      BY <1>2 DEF WriteOrder
    <3>5. UniqueKeys(chunk)
      BY <3>3, <3>4 DEF UniqueKeys
    <3>6. UniqueKeys(rest)
      BY <3>3, <3>4, SMTT(20) DEF UniqueKeys
    <3>7. /\ \A i \in 1..Len(writes) : writes[i] \in Entry
          /\ \A a \in Attr : sent[a] \in Nat /\ lost[a] \in Nat /\ latest[a] \in Nat
      BY <1>2 DEF TypeOK
    <3>8. \A i \in 1..Len(writes) :
            /\ writes[i].ver <= latest[writes[i].attr]
            /\ lost[writes[i].attr] < writes[i].ver
            /\ sent[writes[i].attr] < writes[i].ver
      BY <1>2 DEF WriteOrder
    <3>9. ASSUME NEW a \in Attr, NEW k \in 1..Len(writes), writes[k].attr = a
          PROVE  latest[a] # sent[a] /\ latest[a] # lost[a]
      BY <3>7, <3>8, <3>9 DEF Entry
    <3>10. ASSUME NEW a \in Attr, latest[a] \in {sent[a], lost[a]}
           PROVE  latest'[a] \in {sent'[a], lost'[a]}
      <4>1. \A k \in 1..Len(writes) : writes[k].attr # a
        BY <3>9, <3>10
      <4>2. a \notin Keys(chunk) /\ a \notin Keys(rest)
        <5>1. \A i \in 1..Len(chunk) : chunk[i].attr # a
          BY <3>3, <4>1
        <5>2. \A i \in 1..Len(rest) : rest[i].attr # a
          BY <3>3, <4>1
        <5> QED
          BY <5>1, <5>2 DEF Keys
      <4>3. Overlay(sent, chunk)[a] = sent[a] /\ Overlay(lost, rest)[a] = lost[a]
        BY <3>1, <3>5, <3>6, <4>2, OverlayValue
      <4> QED
        BY <3>2, <3>10, <4>3
    <3>11. ASSUME NEW a \in Attr, NEW k \in 1..Len(writes), writes[k] = newest(a)
           PROVE  \/ latest'[a] \in {sent'[a], lost'[a]}
                  \/ newest(a) \in {writes'[i] : i \in 1..Len(writes')}
      <4>1. writes[k].attr = a /\ writes[k].ver = latest[a]
        BY <3>11
      <4>2. CASE k \in 1..Len(chunk)
        <5>1. Overlay(sent, chunk)[a] = chunk[k].ver
          BY <3>1, <3>3, <3>5, <4>1, <4>2, OverlayValue
        <5> QED
          BY <3>2, <3>3, <4>1, <4>2, <5>1
      <4>3. CASE k - n \in 1..Len(rest) /\ n + (k - n) = k
        <5>1. rest[k - n] = writes[k]
          BY <3>3, <4>3
        <5>2. CASE writes' = rest
          BY <3>11, <4>3, <5>1, <5>2
        <5>3. CASE lost' = Overlay(lost, rest)
          <6>1. Overlay(lost, rest)[a] = rest[k - n].ver
            <7>1. \A i \in 1..Len(rest) :
                    rest[i].attr = a => Overlay(lost, rest)[a] = rest[i].ver
              BY <3>1, <3>6, OverlayValue
            <7> QED
              BY <4>1, <4>3, <5>1, <7>1
          <6> QED
            BY <3>2, <4>1, <5>1, <5>3, <6>1
        <5> QED
          BY <3>2, <5>2, <5>3
      <4> QED
        BY <3>3, <4>2, <4>3
    <3> QED
      BY <1>2, <3>2, <3>10, <3>11 DEF NoWriteVanishes
  <2>4. CASE QueueIdle
    BY <1>2, <2>4 DEF QueueIdle, NoWriteVanishes
  <2> QED
    BY <1>2, <2>1, <2>2, <2>3, <2>4, QueueSteps
<1> QED
  BY <1>1, <1>2, TypeCorrect, WritesInOrder, PTL DEF Spec

-----------------------------------------------------------------------------
(* The reports to the Tango device                                         *)

\* State lags comm in the middle of a poll's two reports; power explains by
\* how much, and a report left out because power did not change is harmless.
StateInv ==
    /\ pc \notin {"update", "unknown", "stopping"} =>
        /\ comm = "ESTABLISHED" <=> power = "ON"
        /\ comm = "ESTABLISHED" <=> opState = "ON"
    /\ pc = "update" => comm = "ESTABLISHED" /\ (opState = "ON" <=> power = "ON")
    /\ pc = "unknown" => comm = "NOT_ESTABLISHED" /\ opState # "ON"
    /\ pc = "stopping" => power = "UNKNOWN" /\ opState # "ON"
    /\ pc = "stopped" => comm = "DISABLED"

\* The actions in which neither the reports nor the place that matters to
\* StateInv change.
Quiet ==
    /\ UNCHANGED <<comm, power, opState>>
    /\ \/ pc' = pc
       \/ /\ pc \in {"drain", "connect", "poll"}
          /\ pc' \in {"connect", "poll", "hung", "succeeded", "failed"}

\* Every step is quiet or reports something.
LEMMA QuietSteps ==
    ASSUME [Next]_vars
    PROVE  \/ Quiet
           \/ PollingStarted \/ ReportEstablished \/ UpdateComponent
           \/ ReportNotEstablished \/ PowerUnknown \/ Wake \/ PollingStopped
<1> USE DEF manager, thread, hardware, history, Quiet
<1>1. ASSUME NEW a \in Attr, Admit(a)
      PROVE  Quiet
  BY <1>1 DEF Admit
<1>2. EnqueueWrite \/ RejectWrite => Quiet
  BY DEF EnqueueWrite, RejectWrite
<1>3. PopWrite \/ BuildRequest => Quiet
  BY DEF PopWrite, BuildRequest
<1>4. Connect \/ ProXRHang \/ PollReturns => Quiet
  BY DEF Connect, ProXRHang, PollReturns, Raise
<1>5. ASSUME NEW n, SendWrites(n)
      PROVE  Quiet
  BY <1>5 DEF SendWrites, Raise
<1>6. ASSUME NEW n, Query(n)
      PROVE  Quiet
  BY <1>6 DEF Query, Raise
<1>7. Exchange => Quiet
  BY <1>5, <1>6 DEF Exchange, SNMPSet, SNMPGet, ProXRWrite, ProXRRead
<1>8. StartCommunicating \/ StopCommunicating => Quiet
  BY DEF StartCommunicating, StopCommunicating
<1>9. ASSUME NEW a \in Attr, HardwareChanges(a)
      PROVE  Quiet
  BY <1>9 DEF HardwareChanges
<1>10. LinkFlips \/ Tick \/ UNCHANGED vars => Quiet
  BY DEF LinkFlips, Tick, vars
<1>11. ASSUME NEW a \in Attr, TakesEffect(a)
       PROVE  Quiet
  BY <1>11 DEF TakesEffect
<1> QED
  BY <1>1, <1>2, <1>3, <1>4, <1>7, <1>8, <1>9, <1>10, <1>11
     DEF Next, TangoThread, PollingThread, Operator, Environment

\* The device is ON exactly while communication is ESTABLISHED, except between
\* the two reports of a poll, through failures, recoveries, stops and restarts.
THEOREM StateMatchesComm == Spec => []StateAgreesWithComm
<1>1. Init => StateInv
  BY DEF Init, StateInv
<1>2. ASSUME TypeOK, StateInv, [Next]_vars
      PROVE  StateInv'
  <2> USE <1>2 DEF TypeOK, StateInv
  <2>1. CASE Quiet
    BY <2>1 DEF Quiet
  <2>2. CASE PollingStarted
    BY <2>2 DEF PollingStarted, SetComm
  <2>3. CASE ReportEstablished
    BY <2>3 DEF ReportEstablished, SetComm
  <2>4. CASE UpdateComponent
    BY <2>4 DEF UpdateComponent, SetPower
  <2>5. CASE ReportNotEstablished
    BY <2>5 DEF ReportNotEstablished, SetComm
  <2>6. CASE PowerUnknown
    BY <2>6 DEF PowerUnknown, SetPower
  <2>7. CASE Wake
    BY <2>7 DEF Wake, SetPower
  <2>8. CASE PollingStopped
    BY <2>8 DEF PollingStopped, SetComm
  <2> QED
    BY <2>1, <2>2, <2>3, <2>4, <2>5, <2>6, <2>7, <2>8, QuietSteps
<1>3. StateInv => StateAgreesWithComm
  BY DEF StateInv, StateAgreesWithComm
<1> QED
  BY <1>1, <1>2, <1>3, TypeCorrect, PTL DEF Spec

-----------------------------------------------------------------------------
(* What clients read, with the history of PolledReads                      *)

\* The history constrains nothing: its steps are steps of AttributePolling.
LEMMA ReadRefines == ReadSpec => Spec
<1>1. ReadInit => Init
  BY DEF ReadInit
<1>2. [ReadNext]_readVars => [Next]_vars
  BY DEF ReadNext, readVars
<1> QED
  BY <1>1, <1>2, PTL DEF ReadSpec, Spec

\* A step that is not an answered read leaves omitted as it is.
LEMMA NothingAsked ==
    ASSUME ReadStep, pc' # "poll" \/ pc # "poll" \/ reads' = reads
    PROVE  omitted' = omitted
<1>1. Asked = {}
  BY DEF Asked
<1> QED
  BY <1>1 DEF ReadStep

\* While a poll lasts, everything the hardware holds is recorded.
LEMMA HeldGrows ==
    ASSUME ReadStep, ~Built, NEW a \in Attr
    PROVE  held[a] \subseteq held'[a] /\ (Polling => hw'[a] \in held'[a])
<1>1. held'[a] = IF Polling THEN held[a] \cup {hw'[a]} ELSE held[a]
  BY DEF ReadStep
<1> QED
  BY <1>1

\* Steps that move neither the values, nor the request, nor the place.
Still == UNCHANGED <<comm, value, age, pc, reads, response>>

\* Every step either is still, lets time pass, or is one of the polling thread.
LEMMA StillSteps ==
    ASSUME [Next]_vars
    PROVE  \/ Still
           \/ Tick
           \/ PollingStarted \/ BuildRequest \/ Connect
           \/ (\E n : SendWrites(n)) \/ (\E n : Query(n))
           \/ ProXRHang \/ PollReturns \/ ReportEstablished \/ UpdateComponent
           \/ ReportNotEstablished \/ PowerUnknown \/ Wake \/ PollingStopped
<1> USE DEF manager, thread, hardware, history, Still
<1>1. ASSUME NEW a \in Attr, Admit(a)
      PROVE  Still
  BY <1>1 DEF Admit
<1>2. EnqueueWrite \/ RejectWrite \/ PopWrite => Still
  BY DEF EnqueueWrite, RejectWrite, PopWrite
<1>3. StartCommunicating \/ StopCommunicating \/ LinkFlips \/ UNCHANGED vars => Still
  BY DEF StartCommunicating, StopCommunicating, LinkFlips, vars
<1>4. ASSUME NEW a \in Attr, HardwareChanges(a) \/ TakesEffect(a)
      PROVE  Still
  BY <1>4 DEF HardwareChanges, TakesEffect
<1>5. Exchange => (\E n : SendWrites(n)) \/ (\E n : Query(n))
  BY DEF Exchange, SNMPSet, SNMPGet, ProXRWrite, ProXRRead
<1> QED
  BY <1>1, <1>2, <1>3, <1>4, <1>5
     DEF Next, TangoThread, PollingThread, Operator, Environment

\* An attribute has an answer only in a poll that has read it.
UnreadInv ==
    \A a \in Attr :
        response[a] # None =>
            a \notin reads /\ pc \in {"poll", "hung", "succeeded", "update"}

\* A poll starts without answers and asks for each attribute once.
LEMMA Unread == Spec => []UnreadInv
<1>1. Init => UnreadInv
  BY DEF Init, NoResponse, UnreadInv
<1>2. UnreadInv /\ [Next]_vars => UnreadInv'
  <2> SUFFICES ASSUME UnreadInv, [Next]_vars
               PROVE  UnreadInv'
    OBVIOUS
  <2> USE DEF UnreadInv, Raise, NoResponse
  <2>1. CASE Still
    BY <2>1 DEF Still
  <2>2. CASE Tick
    BY <2>2 DEF Tick, thread
  <2>3. CASE PollingStarted
    BY <2>3 DEF PollingStarted
  <2>4. CASE BuildRequest
    BY <2>4 DEF BuildRequest
  <2>5. CASE Connect
    BY <2>5 DEF Connect
  <2>6. ASSUME NEW n, SendWrites(n)
        PROVE  UnreadInv'
    BY <2>6 DEF SendWrites
  <2>7. ASSUME NEW n, Query(n)
        PROVE  UnreadInv'
    <3>1. CASE Raise(<<>>)
      BY <3>1
    <3>2. ASSUME NEW chunk \in SUBSET reads, NEW valued \in Valued(chunk),
                 reads' = reads \ chunk,
                 response' = [a \in Attr |-> IF a \in valued THEN hw[a]
                                             ELSE response[a]],
                 pc = "poll", pc' = pc
          PROVE  UnreadInv'
      BY <3>2 DEF Valued
    <3> QED
      BY <2>7, <3>1, <3>2 DEF Query
  <2>8. CASE ProXRHang
    BY <2>8 DEF ProXRHang
  <2>9. CASE PollReturns
    BY <2>9 DEF PollReturns
  <2>10. CASE ReportEstablished
    BY <2>10 DEF ReportEstablished
  <2>11. CASE UpdateComponent
    BY <2>11 DEF UpdateComponent
  <2>12. CASE ReportNotEstablished
    BY <2>12 DEF ReportNotEstablished
  <2>13. CASE PowerUnknown
    BY <2>13 DEF PowerUnknown
  <2>14. CASE Wake
    BY <2>14 DEF Wake
  <2>15. CASE PollingStopped
    BY <2>15 DEF PollingStopped
  <2> QED
    BY <2>1, <2>2, <2>3, <2>4, <2>5, <2>6, <2>7, <2>8, <2>9, <2>10, <2>11, <2>12,
       <2>13, <2>14, <2>15, StillSteps
<1> QED
  BY <1>1, <1>2, PTL DEF Spec

\* What an answered read does to the request and to the history of answers.
LEMMA Answered ==
    ASSUME TypeOK, UnreadInv, ReadStep, NEW n, Query(n)
    PROVE  /\ pc = "poll" /\ UNCHANGED <<comm, value, age, hw>>
           /\ \/ pc' = "failed"
              \/ /\ pc' = "poll"
                 /\ \A a \in Attr :
                     \/ a \notin Asked /\ response'[a] = response[a]
                        /\ (a \in reads => a \in reads')
                        /\ (a \in omitted => a \in omitted')
                     \/ response'[a] = hw[a] /\ hw[a] # None
                     \/ a \in omitted'
<1>1. pc = "poll" /\ UNCHANGED <<comm, value, age, hw>>
  BY DEF Query, manager, hardware
<1>2. CASE Raise(<<>>)
  BY <1>1, <1>2 DEF Raise
<1>3. ASSUME NEW chunk \in SUBSET reads, NEW valued \in Valued(chunk),
             reads' = reads \ chunk,
             response' = [a \in Attr |-> IF a \in valued THEN hw[a] ELSE response[a]],
             pc' = pc
      PROVE  \A a \in Attr :
                     \/ a \notin Asked /\ response'[a] = response[a]
                        /\ (a \in reads => a \in reads')
                        /\ (a \in omitted => a \in omitted')
                     \/ response'[a] = hw[a] /\ hw[a] # None
                     \/ a \in omitted'
  <2> TAKE a \in Attr
  <2>1. valued \subseteq chunk
    BY DEF Valued
  <2>2. Asked = chunk
    BY <1>1, <1>3 DEF Asked
  <2>3. hw[a] # None
    BY ConstantsAssumption DEF TypeOK
  <2>4. CASE a \in valued
    BY <1>3, <2>3, <2>4
  <2>5. CASE a \in chunk /\ a \notin valued
    <3>1. response'[a] = None
      BY <1>3, <2>5 DEF UnreadInv
    <3> QED
      BY <2>2, <2>5, <3>1 DEF ReadStep
  <2>6. CASE a \notin chunk
    BY <1>3, <2>1, <2>2, <2>6 DEF ReadStep
  <2> QED
    BY <2>4, <2>5, <2>6
<1> QED
  BY <1>1, <1>2, <1>3 DEF Query

\* An attribute without a value has never been read, is asked for by every
\* request, and is given an answer or left out before the poll can succeed.
OmittedInv ==
    /\ \A a \in Attr : value[a] = None => age[a] = Inf
    /\ pc \in {"connect", "poll"} =>
        \A a \in Attr : value[a] = None =>
            a \in reads \/ response[a] # None \/ a \in omitted
    /\ pc \in {"succeeded", "update"} =>
        \A a \in Attr : value[a] = None => response[a] # None \/ a \in omitted
    /\ pc = "unknown" => comm = "NOT_ESTABLISHED"
    /\ InvalidOnlyIfOmitted

\* Between polls an attribute is invalid while communication is ESTABLISHED only
\* if the hardware left it out of its last answer, whatever the periods, the
\* chunks, the answers and the failures before it.
THEOREM InvalidOnlyIfOmittedAlways == ReadSpec => []InvalidOnlyIfOmitted
<1>1. ReadInit => OmittedInv
  BY DEF ReadInit, Init, OmittedInv, InvalidOnlyIfOmitted
<1>2. ASSUME TypeOK, UnreadInv, OmittedInv, [ReadNext]_readVars
      PROVE  OmittedInv'
  <2> USE <1>2 DEF OmittedInv, InvalidOnlyIfOmitted
  <2>1. CASE UNCHANGED readVars
    BY <2>1 DEF readVars, vars, manager, thread
  <2>2. CASE ReadNext
    <3>1. ReadStep /\ [Next]_vars
      BY <2>2 DEF ReadNext
    <3> USE <3>1
    <3>2. CASE Still
      BY <3>2, NothingAsked DEF Still
    <3>3. CASE Tick
      BY <3>3, NothingAsked DEF Tick, thread
    <3>4. CASE PollingStarted
      BY <3>4, NothingAsked DEF PollingStarted, SetComm
    <3>5. CASE BuildRequest
      <4>1. \A a \in Attr : age[a] = Inf => a \in Due
        BY ConstantsAssumption DEF Due, Inf
      <4> QED
        BY <3>5, <4>1 DEF BuildRequest, manager
    <3>6. CASE Connect
      BY <3>6, NothingAsked DEF Connect, Raise, manager
    <3>7. ASSUME NEW n, SendWrites(n)
          PROVE  OmittedInv'
      BY <3>7, NothingAsked DEF SendWrites, Raise, manager
    <3>8. ASSUME NEW n, Query(n)
          PROVE  OmittedInv'
      <4>1. pc = "poll" /\ UNCHANGED <<comm, value, age>>
        BY <3>8, Answered
      <4>2. CASE pc' = "failed"
        BY <4>1, <4>2
      <4>3. CASE pc' # "failed"
        <5>1. pc' = "poll"
          BY <3>8, <4>3, Answered
        <5>2. ASSUME NEW a \in Attr, value[a] = None
              PROVE  a \in reads' \/ response'[a] # None \/ a \in omitted'
          BY <3>8, <4>1, <4>3, <5>2, Answered
        <5> QED
          BY <4>1, <5>1, <5>2
      <4> QED
        BY <4>2, <4>3
    <3>9. CASE ProXRHang
      BY <3>9 DEF ProXRHang, manager
    <3>10. CASE PollReturns
      BY <3>10, NothingAsked DEF PollReturns, Raise, manager
    <3>11. CASE ReportEstablished
      BY <3>11, NothingAsked DEF ReportEstablished, SetComm
    <3>12. CASE UpdateComponent
      <4>1. pc = "update" /\ pc' = "sleep" /\ omitted' = omitted
        BY <3>12, NothingAsked DEF UpdateComponent
      <4>2. \A a \in Attr : value'[a] = IF response[a] # None THEN response[a] ELSE value[a]
        BY <3>12 DEF UpdateComponent
      <4>3. \A a \in Attr : age'[a] = IF response[a] # None THEN 0 ELSE age[a]
        BY <3>12 DEF UpdateComponent
      <4> QED
        BY <4>1, <4>2, <4>3
    <3>13. CASE ReportNotEstablished
      BY <3>13 DEF ReportNotEstablished, SetComm
    <3>14. CASE PowerUnknown
      BY <3>14 DEF PowerUnknown
    <3>15. CASE Wake
      BY <3>15, NothingAsked DEF Wake
    <3>16. CASE PollingStopped
      BY <3>16 DEF PollingStopped, SetComm
    <3> QED
      BY <3>2, <3>3, <3>4, <3>5, <3>6, <3>7, <3>8, <3>9, <3>10, <3>11, <3>12,
         <3>13, <3>14, <3>15, <3>16, StillSteps
  <2> QED
    BY <2>1, <2>2
<1>3. OmittedInv => InvalidOnlyIfOmitted
  BY DEF OmittedInv
<1> QED
  BY <1>1, <1>2, <1>3, ReadRefines, TypeCorrect, Unread, PTL DEF ReadSpec

-----------------------------------------------------------------------------
(* What clients read is what the hardware had during the last poll         *)

\* What has been read of a in this poll.
ReadInPoll(a) == response[a] # None /\ response[a] \in held[a]

\* An attribute polled every time is in every request, and what is read of it
\* is what the hardware holds at that moment, which is on record.
CoherenceInv ==
    /\ pc \in {"connect", "poll"} =>
        \A a \in Attr : hw[a] \in held[a]
    /\ pc \in {"connect", "poll"} =>
        \A a \in Attr : Period[a] = 0 =>
            a \in reads \/ ReadInPoll(a) \/ a \in omitted
    /\ pc \in {"succeeded", "update"} =>
        \A a \in Attr : Period[a] = 0 => ReadInPoll(a) \/ a \in omitted
    /\ pc = "unknown" => comm = "NOT_ESTABLISHED"
    /\ CacheCoherent

\* An attribute polled every time shows, when a poll has been reported, a value
\* that the hardware held during that poll, or was left out of the answer.
THEOREM CacheIsCoherent == ReadSpec => []CacheCoherent
<1>1. ReadInit => CoherenceInv
  BY DEF ReadInit, Init, CoherenceInv, CacheCoherent
<1>2. ASSUME TypeOK, UnreadInv, CoherenceInv, [ReadNext]_readVars
      PROVE  CoherenceInv'
  <2> USE <1>2 DEF CoherenceInv, CacheCoherent, ReadInPoll
  <2>1. CASE UNCHANGED readVars
    BY <2>1 DEF readVars, vars, manager, thread, hardware
  <2>2. CASE ReadNext
    <3>1. ReadStep /\ [Next]_vars
      BY <2>2 DEF ReadNext
    <3> USE <3>1
    <3>2. CASE Still
      <4>1. omitted' = omitted
        BY <3>2, NothingAsked DEF Still
      <4>2. \A a \in Attr : held[a] \subseteq held'[a] /\ (Polling => hw'[a] \in held'[a])
        BY <3>2, HeldGrows DEF Still, Built
      <4> QED
        BY <3>2, <4>1, <4>2 DEF Still, Polling
    <3>3. CASE Tick
      <4>1. omitted' = omitted /\ UNCHANGED <<pc, comm, value, reads, response>>
        BY <3>3, NothingAsked DEF Tick, thread
      <4>2. \A a \in Attr : held[a] \subseteq held'[a] /\ (Polling => hw'[a] \in held'[a])
        BY <4>1, HeldGrows DEF Built
      <4> QED
        BY <4>1, <4>2 DEF Polling
    <3>4. CASE PollingStarted
      BY <3>4 DEF PollingStarted, SetComm
    <3>5. CASE BuildRequest
      <4>1. \A a \in Attr : Period[a] = 0 => a \in Due
        BY ConstantsAssumption DEF TypeOK, Due, Inf
      <4>2. Built /\ hw' = hw
        BY <3>5 DEF BuildRequest, Built, hardware
      <4>3. \A a \in Attr : hw'[a] \in held'[a]
        BY <4>2 DEF ReadStep
      <4> QED
        BY <3>5, <4>1, <4>3 DEF BuildRequest
    <3>6. CASE Connect
      <4>1. pc = "connect" /\ (pc' = "failed" \/ (pc' = "poll" /\ UNCHANGED <<reads, response>>))
        BY <3>6 DEF Connect, Raise
      <4>2. omitted' = omitted
        BY <4>1, NothingAsked
      <4>3. \A a \in Attr : held[a] \subseteq held'[a] /\ hw'[a] \in held'[a]
        BY <4>1, HeldGrows DEF Built, Polling
      <4> QED
        BY <4>1, <4>2, <4>3
    <3>7. ASSUME NEW n, SendWrites(n)
          PROVE  CoherenceInv'
      <4>1. pc = "poll" /\ (pc' = "failed" \/ (pc' = "poll" /\ UNCHANGED <<reads, response>>))
        BY <3>7 DEF SendWrites, Raise
      <4>2. CASE pc' = "failed"
        BY <4>2
      <4>3. CASE pc' = "poll" /\ UNCHANGED <<reads, response>>
        <5>1. omitted' = omitted
          BY <4>3, NothingAsked
        <5>2. \A a \in Attr : held[a] \subseteq held'[a] /\ hw'[a] \in held'[a]
          BY <4>1, HeldGrows DEF Built, Polling
        <5> QED
          BY <4>1, <4>3, <5>1, <5>2
      <4> QED
        BY <4>1, <4>2, <4>3
    <3>8. ASSUME NEW n, Query(n)
          PROVE  CoherenceInv'
      <4>1. pc = "poll" /\ UNCHANGED <<comm, value, hw>>
        BY <3>8, Answered
      <4>2. CASE pc' = "failed"
        BY <4>2
      <4>3. CASE pc' # "failed"
        <5>1. pc' = "poll"
          BY <3>8, <4>3, Answered
        <5>2. \A a \in Attr : held[a] \subseteq held'[a] /\ hw'[a] \in held'[a]
          BY <4>1, HeldGrows DEF Built, Polling
        <5>3. ASSUME NEW a \in Attr, Period[a] = 0
              PROVE  a \in reads' \/ ReadInPoll(a)' \/ a \in omitted'
          BY <3>8, <4>1, <4>3, <5>2, <5>3, Answered
        <5> QED
          BY <5>1, <5>2, <5>3
      <4> QED
        BY <4>2, <4>3
    <3>9. CASE ProXRHang
      BY <3>9 DEF ProXRHang
    <3>10. CASE PollReturns
      <4>1. /\ pc = "poll" /\ reads = {}
            /\ \/ pc' = "failed"
               \/ pc' = "succeeded" /\ response' = response
        BY <3>10 DEF PollReturns, Raise
      <4>2. omitted' = omitted
        BY <4>1, NothingAsked
      <4>3. \A a \in Attr : held[a] \subseteq held'[a]
        BY <4>1, HeldGrows DEF Built
      <4> QED
        BY <4>1, <4>2, <4>3
    <3>11. CASE ReportEstablished
      <4>1. pc = "succeeded" /\ pc' = "update" /\ response' = response
        BY <3>11 DEF ReportEstablished
      <4>2. omitted' = omitted
        BY <4>1, NothingAsked
      <4>3. \A a \in Attr : held[a] \subseteq held'[a]
        BY <4>1, HeldGrows DEF Built
      <4> QED
        BY <4>1, <4>2, <4>3
    <3>12. CASE UpdateComponent
      <4>1. pc = "update" /\ pc' = "sleep"
        BY <3>12 DEF UpdateComponent
      <4>2. \A a \in Attr : value'[a] = IF response[a] # None THEN response[a] ELSE value[a]
        BY <3>12 DEF UpdateComponent
      <4>3. omitted' = omitted
        BY <4>1, NothingAsked
      <4>4. \A a \in Attr : held[a] \subseteq held'[a]
        BY <4>1, HeldGrows DEF Built
      <4> QED
        BY <4>1, <4>2, <4>3, <4>4
    <3>13. CASE ReportNotEstablished
      BY <3>13 DEF ReportNotEstablished, SetComm
    <3>14. CASE PowerUnknown
      BY <3>14 DEF PowerUnknown
    <3>15. CASE Wake
      BY <3>15 DEF Wake
    <3>16. CASE PollingStopped
      BY <3>16 DEF PollingStopped, SetComm
    <3> QED
      BY <3>2, <3>3, <3>4, <3>5, <3>6, <3>7, <3>8, <3>9, <3>10, <3>11, <3>12,
         <3>13, <3>14, <3>15, <3>16, StillSteps
  <2> QED
    BY <2>1, <2>2
<1>3. CoherenceInv => CacheCoherent
  BY DEF CoherenceInv
<1> QED
  BY <1>1, <1>2, <1>3, ReadRefines, TypeCorrect, Unread, PTL DEF ReadSpec
=============================================================================
