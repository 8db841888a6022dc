------------------------ MODULE ProXRProtocol_proofs ------------------------
(***************************************************************************)
(* A board of up to eight relays is read and switched faithfully, whatever *)
(* the order of requests and broken connections, as long as TCP delivers   *)
(* each answer in one piece.                                               *)
(*                                                                         *)
(* The properties are not inductive by themselves: they need to know what  *)
(* is in the stream.  InStep says it: nothing while no request is open,    *)
(* else the request's own frame or its own answer, and the answer to a     *)
(* write is there only when the relay has switched.                        *)
(***************************************************************************)
EXTENDS ProXRProtocol, TLAPS

Byte == 0..255

\* The answer of the board to request q.
Answer(q) ==
    IF q.command = None THEN ResponseFrame(IF relays[q.relay] THEN 1 ELSE 0)
                        ELSE ResponseFrame(SUCCESSFUL_WRITE)

TakenEffect(q) == q.command # None => relays[q.relay] = q.command

Asked == toBoard = RequestFrame(Code(request)) /\ toClient = <<>>

Answered ==
    /\ toBoard = <<>>
    /\ toClient = Answer(request)
    /\ TakenEffect(request)

InStep ==
    /\ relays \in [Relay -> BOOLEAN]
    /\ request \in Request \cup {None}
    /\ heard \in [relay : Relay, status : BOOLEAN] \cup {None}
    /\ request = None => toBoard = <<>> /\ toClient = <<>>
    /\ request # None => heard = None /\ (Asked \/ Answered)
    /\ HeardIsTrue

\* On a board of eight relays every code is decoded to the request it was made
\* from: bytes_request() adds relay numbers to three bases eight apart.
LEMMA DecodeCode ==
    ASSUME NumberOfRelays <= 8, NEW q \in Request
    PROVE  Decode(Code(q)) = [relay |-> q.relay, command |-> q.command]
<1>1. q.relay \in 1..8 /\ q.relay \in Nat
  BY ConstantsAssumption DEF Request, Relay
<1>2. None # TRUE /\ None # FALSE
  BY ConstantsAssumption
<1>3. CASE q.command = None
  <2>1. Code(q) = READ + q.relay
    BY <1>2, <1>3 DEF Code
  <2>2. Code(q) > READ /\ Code(q) - READ = q.relay
    BY <1>1, <2>1 DEF READ
  <2> QED
    BY <1>3, <2>2 DEF Decode
<1>4. CASE q.command = TRUE
  <2>1. Code(q) = ON + q.relay
    BY <1>2, <1>4 DEF Code
  <2>2. ~(Code(q) > READ) /\ Code(q) > ON /\ Code(q) - ON = q.relay
    BY <1>1, <2>1 DEF READ, ON
  <2> QED
    BY <1>4, <2>2 DEF Decode
<1>5. CASE q.command = FALSE
  <2>1. Code(q) = OFF + q.relay
    BY <1>2, <1>5 DEF Code
  <2>2. ~(Code(q) > READ) /\ ~(Code(q) > ON) /\ Code(q) - OFF = q.relay
    BY <1>1, <2>1 DEF READ, ON, OFF
  <2> QED
    BY <1>5, <2>2 DEF Decode
<1>6. q.command \in BOOLEAN \cup {None}
  BY DEF Request
<1> QED
  BY <1>3, <1>4, <1>5, <1>6

\* A request frame has its code in the fourth of six bytes.
LEMMA FrameCode ==
    ASSUME NEW c
    PROVE  /\ RequestFrame(c)[4] = c
           /\ Len(RequestFrame(c)) = 6
           /\ SubSeq(RequestFrame(c), 7, Len(RequestFrame(c))) = <<>>
           /\ RequestFrame(c) # <<>>
           /\ <<>> \o RequestFrame(c) = RequestFrame(c)
BY DEF RequestFrame

\* An answer has the status in the third of four bytes.
LEMMA FrameStatus ==
    ASSUME NEW b \in Byte
    PROVE  /\ Len(ResponseFrame(b)) = 4
           /\ SubSeq(ResponseFrame(b), 1, 4) = ResponseFrame(b)
           /\ SubSeq(ResponseFrame(b), 5, 4) = <<>>
           /\ StatusByte(ResponseFrame(b)) = b
           /\ ResponseFrame(b) # <<>>
           /\ <<>> \o ResponseFrame(b) = ResponseFrame(b)
<1> DEFINE c == (HEADER + 1 + b) % 256
<1>1. ResponseFrame(b) = <<HEADER, 1, b, c>>
  BY DEF ResponseFrame
<1> HIDE DEF c
<1>2. ResponseFrame(b) \in Seq({HEADER, 1, b, c}) /\ Len(ResponseFrame(b)) = 4
  BY <1>1
<1>3. StatusByte(ResponseFrame(b)) = b
  BY <1>1 DEF StatusByte
<1>4. SubSeq(ResponseFrame(b), 5, 4) = <<>>
  BY <1>2
<1>5. SubSeq(ResponseFrame(b), 1, 4) = ResponseFrame(b)
  BY <1>2
<1> QED
  BY <1>1, <1>2, <1>3, <1>4, <1>5

LEMMA InStepNext ==
    ASSUME NumberOfRelays <= 8, ~Fragmented, InStep, [Next]_vars
    PROVE  InStep'
<1> USE DEF InStep
<1>1. CASE Open
  BY <1>1 DEF Open, stream, Asked, Answered, Answer, TakenEffect, HeardIsTrue
<1>2. ASSUME NEW q \in Request, SendRequest(q)
      PROVE  InStep'
  <2>1. toBoard' = RequestFrame(Code(q))
    BY <1>2, FrameCode DEF SendRequest
  <2>2. request' # None
    BY <1>2, NoneIsNoRequest DEF SendRequest
  <2>3. Asked'
    BY <1>2, <2>1 DEF SendRequest, Asked
  <2> QED
    BY <1>2, <2>2, <2>3 DEF SendRequest, HeardIsTrue
<1>3. CASE BoardAnswers
  <2>1. request # None /\ request \in Request /\ Asked
    BY <1>3, FrameCode DEF BoardAnswers, Answered
  <2>2. Decode(toBoard[4]) = [relay |-> request.relay, command |-> request.command]
    BY <2>1, DecodeCode, FrameCode DEF Asked
  <2>3. toBoard' = <<>>
    BY <1>3, <2>1, FrameCode DEF BoardAnswers, Asked
  <2>4. request' = request /\ heard' = heard /\ heard = None
    BY <1>3, <2>1 DEF BoardAnswers
  <2>5. CASE request.command = None
    <3>1. /\ relays' = relays
          /\ toClient' = <<>> \o ResponseFrame(IF relays[request.relay] THEN 1 ELSE 0)
      BY <1>3, <2>1, <2>2, <2>5 DEF BoardAnswers, Asked
    <3>2. Answered'
      BY <2>3, <2>4, <2>5, <3>1, FrameStatus DEF Answered, Answer, TakenEffect, Byte
    <3> QED
      BY <2>1, <2>4, <3>1, <3>2 DEF HeardIsTrue
  <2>6. CASE request.command # None
    <3>1. /\ relays' = [relays EXCEPT ![request.relay] = request.command]
          /\ toClient' = <<>> \o ResponseFrame(SUCCESSFUL_WRITE)
      BY <1>3, <2>1, <2>2, <2>6 DEF BoardAnswers, Asked
    <3>2. request.relay \in Relay /\ request.command \in BOOLEAN
      BY <2>1, <2>6 DEF Request
    <3>3. relays' \in [Relay -> BOOLEAN] /\ relays'[request.relay] = request.command
      BY <3>1, <3>2
    <3>4. toClient' = ResponseFrame(SUCCESSFUL_WRITE)
      BY <3>1, FrameStatus DEF SUCCESSFUL_WRITE, Byte
    <3>5. Answered'
      BY <2>3, <2>4, <2>6, <3>3, <3>4 DEF Answered, Answer, TakenEffect
    <3> QED
      BY <2>1, <2>4, <3>3, <3>5 DEF HeardIsTrue
  <2> QED
    BY <2>5, <2>6
<1>4. CASE ReceiveAnswer
  <2>1. request # None /\ request \in Request /\ Answered
    BY <1>4 DEF ReceiveAnswer, Receive, Asked
  <2> DEFINE status == IF request.command = None
                       THEN (IF relays[request.relay] THEN 1 ELSE 0)
                       ELSE SUCCESSFUL_WRITE
  <2>2. status \in Byte
    BY DEF Byte, SUCCESSFUL_WRITE
  <2>3. toClient = ResponseFrame(status)
    BY <2>1 DEF Answered, Answer
  <2> HIDE DEF status
  <2>4. Receive(4)
    <3>1. PICK n \in 1..Len(toClient) : n = Len(toClient) /\ Receive(n)
      BY <1>4 DEF ReceiveAnswer
    <3> QED
      BY <2>2, <2>3, <3>1, FrameStatus
  <2>5. /\ toClient' = <<>>
        /\ request' = None
        /\ toBoard' = <<>>
        /\ relays' = relays
    BY <2>1, <2>2, <2>3, <2>4, FrameStatus DEF Receive, Answered
  <2>6. CASE request.command = None
    <3>1. heard' = [relay |-> request.relay, status |-> status # 0]
      BY <2>2, <2>3, <2>4, <2>6, FrameStatus DEF Receive
    <3>2. (status # 0) = relays[request.relay] /\ request.relay \in Relay
      BY <2>1, <2>6 DEF status, Request
    <3> QED
      BY <2>5, <3>1, <3>2 DEF HeardIsTrue
  <2>7. CASE request.command # None
    BY <2>4, <2>5, <2>7 DEF Receive, HeardIsTrue
  <2> QED
    BY <2>6, <2>7
<1>5. CASE Close
  BY <1>5 DEF Close, HeardIsTrue
<1>6. CASE UNCHANGED vars
  BY <1>6 DEF vars, stream, Asked, Answered, Answer, TakenEffect, HeardIsTrue
<1> QED
  BY <1>1, <1>2, <1>3, <1>4, <1>5, <1>6 DEF Next

LEMMA InStepInit == Init => InStep
BY DEF Init, InStep, HeardIsTrue

\* Every value the client reads is the state of the relay it asked about.
THEOREM ReadsAreTrue ==
    ASSUME NumberOfRelays <= 8, ~Fragmented
    PROVE  Spec => []HeardIsTrue
<1>1. InStep /\ [Next]_vars => InStep'
  BY InStepNext
<1>2. InStep => HeardIsTrue
  BY DEF InStep
<1> QED
  BY <1>1, <1>2, InStepInit, PTL DEF Spec

\* The answer to a write comes when the relay is as the client wants it.
THEOREM WritesTakeEffect ==
    ASSUME NumberOfRelays <= 8, ~Fragmented
    PROVE  Spec => []AnsweredWriteTookEffect
<1>1. InStep /\ [Next]_vars => InStep'
  BY InStepNext
<1>2. InStep => AnsweredWriteTookEffect
  BY DEF InStep, AnsweredWriteTookEffect, Asked, Answered, TakenEffect
<1> QED
  BY <1>1, <1>2, InStepInit, PTL DEF Spec

\* No relay switches but the one the open request names.
THEOREM OnlyNamedRelaySwitches ==
    ASSUME NumberOfRelays <= 8, ~Fragmented
    PROVE  Spec => OnlyItsRelaySwitches
<1> DEFINE Obeys ==
        \A r \in Relay : relays'[r] # relays[r] =>
            /\ request # None
            /\ request.relay = r
            /\ request.command = relays'[r]
<1>1. InStep /\ [Next]_vars => InStep'
  BY InStepNext
<1>2. ASSUME InStep, [Next]_vars
      PROVE  Obeys
  <2>1. CASE BoardAnswers
    <3>1. request # None /\ request \in Request /\ Asked
      BY <1>2, <2>1, FrameCode DEF InStep, BoardAnswers, Answered
    <3>2. Decode(toBoard[4]) = [relay |-> request.relay, command |-> request.command]
      BY <3>1, DecodeCode, FrameCode DEF Asked
    <3>3. \/ relays' = relays
          \/ relays' = [relays EXCEPT ![request.relay] = request.command]
      BY <2>1, <3>2 DEF BoardAnswers
    <3>4. relays \in [Relay -> BOOLEAN]
      BY <1>2 DEF InStep
    <3> QED
      BY <3>1, <3>3, <3>4
  <2>2. CASE ~BoardAnswers
    <3>1. relays' = relays
      BY <1>2, <2>2 DEF Next, Open, SendRequest, ReceiveAnswer, Receive, Close, vars
    <3> QED
      BY <3>1
  <2> QED
    BY <2>1, <2>2
<1>3. InStep /\ [Next]_vars => [Obeys]_vars
  BY <1>2
<1> HIDE DEF Obeys
<1>4. Spec => [][Obeys]_vars
  BY <1>1, <1>3, InStepInit, PTL DEF Spec
<1> QED
  BY <1>4 DEF OnlyItsRelaySwitches, Obeys

\* Up to eight relays and answers in one piece: whatever the frames, the streams
\* and the connections do, polls see exchanges as RelayExchange has them.
THEOREM ExchangeRefined ==
    ASSUME NumberOfRelays <= 8, ~Fragmented
    PROVE  Spec => ImplementsExchange
<1>1. InStep /\ [Next]_vars => InStep'
  BY InStepNext
<1>2. Init => Exchange!Init
  BY DEF Init, Exchange!Init
<1>3. InStep /\ [Next]_vars => [Exchange!Next]_(Exchange!vars)
  <2> SUFFICES ASSUME InStep, [Next]_vars
               PROVE  [Exchange!Next]_(Exchange!vars)
    OBVIOUS
  <2>1. CASE Open
    BY <2>1 DEF Open, Exchange!vars
  <2>2. ASSUME NEW q \in Request, SendRequest(q)
        PROVE  Exchange!Next
    <3>1. Exchange!Ask(q.relay, q.command)
      BY <2>2 DEF SendRequest, Request, Exchange!Ask
    <3>2. q.relay \in Relay /\ q.command \in BOOLEAN \cup {None}
      BY DEF Request
    <3> QED
      BY <3>1, <3>2 DEF Exchange!Next
  <2>3. CASE BoardAnswers
    <3>1. request # None /\ request \in Request /\ Asked
      BY <2>3, FrameCode DEF InStep, BoardAnswers, Answered
    <3>2. Decode(toBoard[4]) = [relay |-> request.relay, command |-> request.command]
      BY <3>1, DecodeCode, FrameCode DEF Asked
    <3>3. UNCHANGED <<request, heard>>
      BY <2>3 DEF BoardAnswers
    <3>4. CASE request.command = None
      BY <2>3, <3>2, <3>3, <3>4 DEF BoardAnswers, Exchange!vars
    <3>5. CASE request.command # None
      BY <2>3, <3>1, <3>2, <3>3, <3>5 DEF BoardAnswers, Exchange!Switch, Exchange!Next
    <3> QED
      BY <3>4, <3>5
  <2>4. CASE ReceiveAnswer
    <3>1. request # None /\ request \in Request /\ Answered
      BY <2>4 DEF InStep, ReceiveAnswer, Receive, Asked
    <3>2. PICK n \in 1..Len(toClient) : Receive(n)
      BY <2>4 DEF ReceiveAnswer
    <3>3. request' = None /\ relays' = relays
      BY <3>2 DEF Receive
    <3>4. CASE request.command = None
      <4>1. heard' = [relay |-> request.relay,
                      status |-> StatusByte(SubSeq(toClient, 1, n)) # 0]
        BY <3>2, <3>4 DEF Receive
      <4>2. heard' # None
        <5>1. request.relay \in Relay
          BY <3>1 DEF Request
        <5>2. heard' \in [relay : Relay, status : BOOLEAN]
          BY <4>1, <5>1
        <5> QED
          BY <5>2, NoneIsNoRequest
      <4>3. InStep' /\ heard'.status = relays[request.relay]
        BY <1>1, <3>3, <4>1, <4>2 DEF InStep, HeardIsTrue
      <4>4. heard' = [relay |-> request.relay, status |-> relays[request.relay]]
        BY <4>1, <4>3
      <4> QED
        BY <3>1, <3>3, <3>4, <4>4 DEF Exchange!AnswerRead, Exchange!Next
    <3>5. CASE request.command # None
      <4>1. relays[request.relay] = request.command
        BY <3>1, <3>5 DEF Answered, TakenEffect
      <4>2. heard' = None
        BY <3>2, <3>5 DEF Receive
      <4> QED
        BY <3>1, <3>3, <3>5, <4>1, <4>2 DEF Exchange!AnswerWrite, Exchange!Next
    <3> QED
      BY <3>4, <3>5
  <2>5. CASE Close
    BY <2>5 DEF Close, Exchange!Fail, Exchange!Next
  <2>6. CASE UNCHANGED vars
    BY <2>6 DEF vars, Exchange!vars
  <2> QED
    BY <2>1, <2>2, <2>3, <2>4, <2>5, <2>6 DEF Next
<1> QED
  BY <1>1, <1>2, <1>3, InStepInit, PTL DEF Spec, ImplementsExchange, Exchange!Spec
====
