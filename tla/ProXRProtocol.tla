---------------------------- MODULE ProXRProtocol ----------------------------
(***************************************************************************)
(* The bytes between the ProXR device and its relay board:                 *)
(*   ska_proxr_device/proxr_client.py             ProXRClient              *)
(*   ska_proxr_device/proxr_component_manager.py  the exchanges of poll()  *)
(*   tests/unit/proxr/proxr_simulator.py          the board                *)
(*                                                                         *)
(* Command and relay share one byte of the request, and the answer says    *)
(* neither what was asked nor about which relay: the client takes whatever *)
(* comes next out of the TCP stream for the answer to its last request.    *)
(***************************************************************************)
EXTENDS Naturals, Sequences

CONSTANTS
    NumberOfRelays,   \* the device property: Relay1 to Relay<NumberOfRelays>
    Fragmented,       \* TRUE: recv() may return a part of an answer
    None              \* Python's None

ASSUME ConstantsAssumption ==
    /\ NumberOfRelays \in 1..55   \* above, READ codes pass 0xAA
    /\ Fragmented \in BOOLEAN
    /\ None \notin BOOLEAN

Relay == 1..NumberOfRelays

\* write_command: the value to write, or None to read.
Request == [relay : Relay, command : BOOLEAN \cup {None}]

ASSUME NoneIsNoRequest ==
    None \notin Request \cup [relay : Relay, status : BOOLEAN]

VARIABLES
    relays,     \* relays[r]: whether relay r of the board is on
    conn,       \* the connection of the current poll
    request,    \* the request whose answer the client waits for, or None
    toBoard,    \* bytes sent and not yet read by the board
    toClient,   \* bytes answered and not yet read by the client
    heard       \* what the last exchange told of a relay, or None

stream == <<toBoard, toClient>>
vars == <<relays, conn, request, stream, heard>>

-----------------------------------------------------------------------------
(* The frames                                                              *)

HEADER == 170           \* 0xAA
REQUEST_HEADER == 254   \* 0xFE
READ == 115             \* 0x73
ON == 107               \* 0x6B
OFF == 99               \* 0x63
SUCCESSFUL_WRITE == 85  \* 0x55

\* Defect: relays counted from zero.
CodeFromZero(q) ==
    (CASE q.command = None -> READ [] q.command = TRUE -> ON [] OTHER -> OFF)
    + q.relay - 1

\* The byte that names both the command and the relay.
Code(q) ==
    (CASE q.command = None -> READ [] q.command = TRUE -> ON [] OTHER -> OFF)
    + q.relay

\* marshall() of the request header, the code and bank 1.
RequestFrame(code) ==
    LET sum == HEADER + 3 + REQUEST_HEADER + code + 1
    IN  <<HEADER, 3, REQUEST_HEADER, code, 1, sum % 256>>

\* The board's answer of one byte.
ResponseFrame(b) == <<HEADER, 1, b, (HEADER + 1 + b) % 256>>

\* What the board takes a code for: the highest range it lies in.
Decode(code) ==
    IF code > READ THEN [relay |-> code - READ, command |-> None]
    ELSE IF code > ON THEN [relay |-> code - ON, command |-> TRUE]
    ELSE [relay |-> code - OFF, command |-> FALSE]

-----------------------------------------------------------------------------
Init ==
    /\ relays = [r \in Relay |-> FALSE]
    /\ conn = "closed"
    /\ request = None
    /\ toBoard = <<>>
    /\ toClient = <<>>
    /\ heard = None

\* A poll opens a connection of its own.
Open ==
    /\ conn = "closed"
    /\ conn' = "open"
    /\ UNCHANGED <<relays, request, stream, heard>>

SendRequest(q) ==
    /\ conn = "open"
    /\ request = None
    /\ request' = q
    /\ toBoard' = toBoard \o RequestFrame(Code(q))
    /\ heard' = None
    /\ UNCHANGED <<relays, conn, toClient>>

\* The board reads one frame, acts on it and answers.
BoardAnswers ==
    /\ toBoard # <<>>
    /\ LET q == Decode(toBoard[4])
       IN  /\ q.relay \in Relay
           /\ IF q.command = None
              THEN /\ toClient' = toClient \o
                                  ResponseFrame(IF relays[q.relay] THEN 1 ELSE 0)
                   /\ UNCHANGED relays
              ELSE /\ toClient' = toClient \o ResponseFrame(SUCCESSFUL_WRITE)
                   /\ relays' = [relays EXCEPT ![q.relay] = q.command]
    /\ toBoard' = SubSeq(toBoard, 7, Len(toBoard))
    /\ UNCHANGED <<conn, request, heard>>

\* Defect: the last byte is taken for the status.
StatusByteLast(response) == response[Len(response)]

\* response[-2]
StatusByte(response) == response[Len(response) - 1]

\* recv() returns n of the bytes that have arrived.  The answer to a write is
\* not looked at; the one to a read has the status before its checksum.
Receive(n) ==
    LET response == SubSeq(toClient, 1, n)
    IN  /\ request # None
        /\ request.command # None \/ n >= 2
        /\ toClient' = SubSeq(toClient, n + 1, Len(toClient))
        /\ heard' = IF request.command = None
                    THEN [relay  |-> request.relay,
                          status |-> StatusByte(response) # 0]
                    ELSE None
        /\ request' = None
        /\ UNCHANGED <<relays, conn, toBoard>>

\* Defect: the answer to a write is not waited for.
ReceiveAnswerToReads ==
    \/ /\ request # None
       /\ request.command # None
       /\ request' = None
       /\ UNCHANGED <<relays, conn, stream, heard>>
    \/ /\ toClient # <<>>
       /\ request # None /\ request.command = None
       /\ Receive(Len(toClient))

ReceiveAnswer ==
    /\ toClient # <<>>
    /\ \E n \in 1..Len(toClient) : (Fragmented \/ n = Len(toClient)) /\ Receive(n)

\* The poll ends, or fails: the connection is reset, the board goes away, or
\* one byte is no answer (an IndexError).
Close ==
    /\ conn = "open"
    /\ conn' = "closed"
    /\ request' = None
    /\ toBoard' = <<>>
    /\ toClient' = <<>>
    /\ heard' = None
    /\ UNCHANGED relays

Next ==
    \/ Open
    \/ \E q \in Request : SendRequest(q)
    \/ BoardAnswers
    \/ ReceiveAnswer
    \/ Close

Spec == Init /\ [][Next]_vars

-----------------------------------------------------------------------------
\* A relay switches only for a request that names it, and as that request says:
\* the ranges of codes do not overlap on a board of eight relays.
OnlyItsRelaySwitches ==
    [][\A r \in Relay : relays'[r] # relays[r] =>
            /\ request # None
            /\ request.relay = r
            /\ request.command = relays'[r]]_vars

\* When the answer to a write comes, the relay is as the client wants it.
AnsweredWriteTookEffect ==
    request # None /\ toClient # <<>> /\ request.command # None =>
        relays[request.relay] = request.command

\* What the client makes of an answer is the state of the relay it asked about,
\* although nothing in the answer says which that was: requests and answers
\* stay in step through every order of reads, writes and broken connections.
HeardIsTrue == heard # None => heard.status = relays[heard.relay]

Exchange == INSTANCE RelayExchange WITH asked <- request

\* Frames, codes and connections amount to exchanges that do what they are asked
\* and tell the truth, or fail: a poll need not know of bytes.
ImplementsExchange == Exchange!Spec
====
