---------------------------- MODULE HttpMessage ----------------------------
(***************************************************************************)
(* network::HTTPMessage: the state machine that drives one HTTP request    *)
(* through connect, send and receive, with its retries.  The event loop    *)
(* calls execute() once to start it and then once per completed I/O.       *)
(* One action is one pass of execute()'s loop: the state and the failure   *)
(* code it leaves are read by other threads between two passes.            *)
(*                                                                         *)
(* Bytes are counted in units.  Re-signing replaces the bytes of a request *)
(* and keeps their number, so it is not seen here.  The kernel and the     *)
(* peer are the choices of how much is transferred and which error occurs. *)
(***************************************************************************)
EXTENDS Integers, Sequences, FiniteSets

CONSTANTS
  MsgLen,                 \* units of the request's header
  PutLen,                 \* units of the data to put
  ChunkSize,              \* units a receive asks for
  Capacities,             \* units a caller's buffer may have, 0 for a buffer of its own
  FailuresMax,            \* failuresMax
  ConnectionFailuresMax,  \* connectionFailuresMax
  Responses,              \* what a server may answer
  MayRefuse,              \* whether a submission may be refused (io_uring's full ring)
  MaxHoles,               \* bound: places that EAGAIN leaves behind in an own buffer
  MaxTries                \* bound: connections obtained

Kinds == {"success", "error", "unsupported"}

ASSUME LengthAssumption ==
  /\ MsgLen \in Nat \ {0} /\ PutLen \in Nat
  /\ ChunkSize \in Nat \ {0} /\ Capacities \subseteq Nat
ASSUME LimitAssumption ==
  /\ FailuresMax \in Nat /\ ConnectionFailuresMax \in Nat
  /\ ConnectionFailuresMax <= FailuresMax
  /\ MaxHoles \in Nat /\ MaxTries \in Nat
ASSUME ResponseAssumption ==
  Responses \subseteq [head : Nat \ {0}, body : Nat, kind : Kinds]
ASSUME RefuseAssumption == MayRefuse \in BOOLEAN

VARIABLES
  state,              \* result.state_
  failures,           \* failures
  failureCode,        \* the bits set in result.failureCode_
  sendBufferOffset,   \* sendBufferOffset
  receiveBufferOffset,
  info,               \* the parsed header: none or a response
  capacity,           \* units of the caller's buffer behind it, 0 if it is owned
  buffer,             \* result.getDataVector(): which unit each place holds
  request,            \* request: the last I/O request built
  connection,         \* connection_: 0 or the number of the connection
  answer,             \* result.response_
  pending,            \* whether the socket holds request
  thrown,             \* whether execute() has ended in an exception
  tries,              \* connections obtained so far; the last one is current
  wire,               \* units of the request the peer has on that connection
  response,           \* what the peer answers on it
  taken,              \* units of the answer received from it
  broken,             \* whether a send failed on it
  returned,           \* how the last connection went back to the pool
  again               \* changes with each EAGAIN: the same I/O again is a step

code == <<state, failures, failureCode, sendBufferOffset, receiveBufferOffset,
          info, buffer, request, connection, answer, pending, thrown>>
peer == <<wire, response, taken, broken>>
vars == <<code, peer, tries, returned, again, capacity>>

None == [none |-> TRUE]
Total == MsgLen + PutLen
Owned == capacity = 0
Bits == {"Socket", "Empty", "Timeout", "Send", "Recv", "HTTP", "TLS"}
Hole == <<0, 0>>
Length(r) == r.head + r.body
Smaller(a, b) == IF a < b THEN a ELSE b

Init ==
  /\ state = "Init" /\ failures = 0 /\ failureCode = {}
  /\ capacity \in Capacities
  /\ sendBufferOffset = 0 /\ receiveBufferOffset = 0
  /\ info = None /\ buffer = <<>> /\ request = None /\ connection = 0
  /\ answer = None /\ pending = FALSE /\ thrown = FALSE
  /\ tries = 0 /\ wire = 0 /\ response \in Responses /\ taken = 0 /\ broken = FALSE
  /\ returned = "none" /\ again = FALSE

-----------------------------------------------------------------------------
(* reset and the submissions                                               *)

\* Mutant: the attempt is not counted.
NotCounted == failures' = failures
Count == failures' = failures + 1

\* Mutant: the parsed header survives.
StartOverWithInfo ==
  /\ state' = "Init" /\ buffer' = <<>> /\ info' = info
  /\ sendBufferOffset' = 0 /\ receiveBufferOffset' = 0
StartOver ==
  /\ state' = "Init" /\ buffer' = <<>> /\ info' = None
  /\ sendBufferOffset' = 0 /\ receiveBufferOffset' = 0

\* A connection is disconnected before it is returned.
\* Mutant: it is not.
ReleaseOpen ==
  /\ connection' = 0
  /\ returned' = IF connection = 0 THEN returned ELSE "open"
Release ==
  /\ connection' = 0
  /\ returned' = IF connection = 0 THEN returned ELSE "closed"

\* failures++ > limit decides before it counts.
Reset(giveUp, places, offset) ==
  /\ Count
  /\ IF giveUp
     THEN /\ state' = "Aborted" /\ buffer' = places /\ receiveBufferOffset' = offset
          /\ UNCHANGED <<sendBufferOffset, info>>
     ELSE StartOver
  /\ Release
  /\ pending' = FALSE
  /\ UNCHANGED <<request, answer, thrown>>

Fail(bit, limit) ==
  /\ failureCode' = failureCode \cup {bit}
  /\ Reset(failures > limit, buffer, receiveBufferOffset)
  /\ UNCHANGED <<peer, tries, again>>

Submitted == pending' = TRUE \/ (MayRefuse /\ pending' = FALSE)

\* The rest of the header, then the rest of all there is.
SubmitSend(offset, fd) ==
  /\ state' = "Sending"
  /\ sendBufferOffset' = offset
  /\ request' = [op |-> "write", from |-> offset, fd |-> fd,
                 length |-> IF offset < MsgLen THEN MsgLen - offset ELSE Total - offset]
  /\ Submitted

\* The resize before a receive.  Mutant: it is forgotten.
NotGrown(places, n) == places
Grown(places, n) == places \o [i \in 1..n |-> Hole]

\* Room for readSize more units behind whatever places there are, data or holes.
\* A caller's buffer is never exceeded: full, it ends the message, and what
\* would not fit makes DataVector::resize throw.
SubmitReceive(places, offset) ==
  LET readSize == IF Owned THEN ChunkSize ELSE Smaller(ChunkSize, capacity - offset) IN
  /\ receiveBufferOffset' = offset
  /\ \/ /\ ~Owned /\ capacity <= offset
        /\ state' = "Aborted" /\ failureCode' = failureCode \cup {"Recv"}
        /\ buffer' = places /\ pending' = FALSE
        /\ UNCHANGED <<request, thrown>>
     \/ /\ ~Owned /\ capacity > offset /\ Len(places) + readSize > capacity
        /\ thrown' = TRUE
        /\ buffer' = places /\ pending' = FALSE
        /\ UNCHANGED <<state, failureCode, request>>
     \/ /\ Owned \/ (capacity > offset /\ Len(places) + readSize <= capacity)
        /\ buffer' = Grown(places, readSize)
        /\ request' = [op |-> "read", from |-> offset, fd |-> connection,
                       length |-> readSize]
        /\ Submitted
        /\ state' = IF pending' THEN "Receiving" ELSE state
        /\ UNCHANGED <<failureCode, thrown>>

-----------------------------------------------------------------------------
(* Init                                                                    *)

\* A connection of the pool, new or reused, on which nothing is under way.
\* Mutant: the first send goes to the socket of the request before.
ConnectOnOldSocket ==
  /\ state = "Init" /\ tries < MaxTries
  /\ tries' = tries + 1
  /\ connection' = tries'
  /\ SubmitSend(0, IF request = None THEN tries' ELSE request.fd)
  /\ response' \in Responses
  /\ wire' = 0 /\ taken' = 0 /\ broken' = FALSE
  /\ UNCHANGED <<failures, failureCode, receiveBufferOffset, info, buffer, answer,
                 thrown, returned, again>>

Connect ==
  /\ state = "Init" /\ tries < MaxTries
  /\ tries' = tries + 1
  /\ connection' = tries'
  /\ SubmitSend(0, tries')
  /\ response' \in Responses
  /\ wire' = 0 /\ taken' = 0 /\ broken' = FALSE
  /\ UNCHANGED <<failures, failureCode, receiveBufferOffset, info, buffer, answer,
                 thrown, returned, again>>

ConnectFails == state = "Init" /\ Fail("Socket", ConnectionFailuresMax)

-----------------------------------------------------------------------------
(* Sending                                                                 *)

SendEnds == pending /\ state = "Sending"

ToReceive ==
  /\ state' = "InitReceiving"
  /\ receiveBufferOffset' = 0
  /\ buffer' = <<>>
  /\ pending' = FALSE
  /\ UNCHANGED request

SendPart(n) ==
  /\ SendEnds /\ n <= request.length
  /\ wire' = wire + n
  /\ IF sendBufferOffset + n >= Total
     THEN ToReceive /\ sendBufferOffset' = sendBufferOffset + n
     ELSE /\ SubmitSend(sendBufferOffset + n, request.fd)
          /\ UNCHANGED <<receiveBufferOffset, buffer>>
  /\ UNCHANGED <<failures, failureCode, info, connection, answer, thrown,
                 response, taken, broken, tries, returned, again>>

\* Mutant: what was asked for counts as sent.
SendAgainAsProgress ==
  /\ SendEnds
  /\ again' = ~again
  /\ SubmitSend(Smaller(sendBufferOffset + request.length, Total - 1), request.fd)
  /\ UNCHANGED <<failures, failureCode, receiveBufferOffset, info, buffer, connection,
                 answer, thrown, peer, tries, returned>>

\* The same part once more.  Nothing counts how often.
SendAgain ==
  /\ SendEnds
  /\ again' = ~again
  /\ SubmitSend(sendBufferOffset, request.fd)
  /\ UNCHANGED <<failures, failureCode, receiveBufferOffset, info, buffer, connection,
                 answer, thrown, peer, tries, returned>>

SendInterrupted == SendEnds /\ Fail("Timeout", FailuresMax)

\* Any other error: perhaps the server has already answered.
SendFails ==
  /\ SendEnds
  /\ failureCode' = failureCode \cup {"Send"}
  /\ broken' = TRUE
  /\ ToReceive
  /\ UNCHANGED <<failures, sendBufferOffset, info, connection, answer, thrown,
                 wire, response, taken, tries, returned, again>>

-----------------------------------------------------------------------------
(* Receiving                                                               *)

StartReceive ==
  /\ state = "InitReceiving" /\ request.op = "write"
  /\ SubmitReceive(buffer, receiveBufferOffset)
  /\ UNCHANGED <<failures, sendBufferOffset, info, connection, answer, peer, tries,
                 returned, again>>

ReceiveEnds == pending /\ state = "Receiving"

ReceiveEmpty == ReceiveEnds /\ Fail("Empty", FailuresMax)

\* n more units: what the buffer then holds, and the header as it is then known.
Arrived(n) == /\ ReceiveEnds
              /\ n <= request.length
              /\ n <= Length(response) - taken
              /\ taken' = taken + n
Data(n) == SubSeq(buffer, 1, receiveBufferOffset)
             \o [i \in 1..n |-> <<connection, taken + i>>]
Parses(n) ==
  info # None \/ (receiveBufferOffset + n >= response.head /\ response.kind # "unsupported")
Parsed == IF info = None THEN response ELSE info

\* A header that is not complete yet is a parse error like any other.
ReceiveMalformed(n) ==
  /\ Arrived(n) /\ ~Parses(n)
  /\ failureCode' = failureCode \cup {"HTTP"}
  /\ Reset(failures > FailuresMax, Data(n), receiveBufferOffset + n)
  /\ UNCHANGED <<wire, response, broken, tries, again>>

ReceivePart(n) ==
  /\ Arrived(n) /\ Parses(n)
  /\ receiveBufferOffset + n < Length(Parsed)
  /\ info' = Parsed
  /\ SubmitReceive(Data(n), receiveBufferOffset + n)
  /\ UNCHANGED <<failures, sendBufferOffset, connection, answer, wire, response, broken,
                 tries, returned, again>>

\* The connection is returned as it is.
ReceiveLast(n) ==
  /\ Arrived(n) /\ Parses(n)
  /\ receiveBufferOffset + n >= Length(Parsed)
  /\ answer' = Parsed /\ info' = None
  /\ buffer' = Data(n) /\ receiveBufferOffset' = receiveBufferOffset + n
  /\ connection' = 0 /\ returned' = "open"
  /\ IF Parsed.kind = "success"
     THEN state' = "Finished" /\ UNCHANGED failureCode
     ELSE state' = "Aborted" /\ failureCode' = failureCode \cup {"HTTP"}
  /\ pending' = FALSE
  /\ UNCHANGED <<failures, sendBufferOffset, request, thrown, wire, response, broken,
                 tries, again>>

\* The places reserved for this receive stay, and the next one reserves its own.
\* In a buffer of its own there is no limit to them; those beyond MaxHoles would
\* not be missed, as the next unit that comes drops them all.
Kept ==
  IF Owned THEN SubSeq(buffer, 1, Smaller(Len(buffer), receiveBufferOffset + MaxHoles))
           ELSE buffer

ReceiveAgain ==
  /\ ReceiveEnds
  /\ again' = ~again
  /\ SubmitReceive(Kept, receiveBufferOffset)
  /\ UNCHANGED <<failures, sendBufferOffset, info, connection, answer, peer, tries, returned>>

ReceiveFails(bit) == ReceiveEnds /\ Fail(bit, FailuresMax)

Execute ==
  \/ Connect \/ ConnectFails
  \/ \E n \in 1..Total : SendPart(n)
  \/ SendAgain \/ SendInterrupted \/ SendFails
  \/ StartReceive \/ ReceiveEmpty \/ ReceiveAgain
  \/ \E n \in 1..ChunkSize : ReceivePart(n) \/ ReceiveLast(n) \/ ReceiveMalformed(n)
  \/ \E bit \in {"Timeout", "Recv"} : ReceiveFails(bit)

Next == Execute /\ UNCHANGED capacity

Spec == Init /\ [][Next]_vars

\* execute() does not wait, and every I/O ends: receives and small sends have a
\* timeout, large sends the keep-alive of TCP.  EAGAIN is such an end, and may come
\* every time: io_uring answers it at once for a non-blocking socket of a silent peer.
FairSpec == Spec /\ WF_vars(Next)

-----------------------------------------------------------------------------
(* Properties                                                              *)

Ended == state \in {"Finished", "Aborted"}

TypeOK ==
  /\ state \in {"Init", "Sending", "InitReceiving", "Receiving", "Finished", "Aborted"}
  /\ failures \in Nat /\ failureCode \subseteq Bits
  /\ sendBufferOffset \in 0..Total /\ receiveBufferOffset \in Nat
  /\ info \in Responses \cup {None} /\ answer \in Responses \cup {None}
  /\ connection \in 0..tries
  /\ buffer \in Seq(Nat \X Nat) /\ receiveBufferOffset <= Len(buffer)
  /\ Owned \/ Len(buffer) <= capacity
  /\ pending \in BOOLEAN /\ thrown \in BOOLEAN /\ broken \in BOOLEAN
  /\ wire \in 0..Total /\ response \in Responses /\ taken \in 0..Length(response)
  /\ returned \in {"none", "closed", "open"}

\* What a message ends with is one whole response, all of it from the last
\* connection and in order: nothing is left of earlier attempts.
AnswerIsWhole ==
  answer # None =>
    buffer = [i \in 1..Length(answer) |-> <<tries, i>>] /\ answer = response

\* Across partial sends, EAGAIN and retries every send starts at the unit the
\* peer waits for, and a response is only awaited once the whole request is
\* sent, or the connection failed.
SendsInOrder ==
  /\ state = "Sending" => request.from = wire /\ wire + request.length <= Total
  /\ state = "Receiving" => wire = Total \/ broken

\* The socket never holds a request for a connection that the message has
\* given back: its number is then someone else's.
IoOnHeldConnection ==
  pending => connection = tries /\ request.fd = connection

\* The places of a receive exist before the kernel writes to them, whatever was
\* kept of EAGAIN, of the receives before, or of an earlier attempt.
RoomForRequest ==
  state = "Receiving" /\ pending =>
    request.from = receiveBufferOffset /\ Len(buffer) >= request.from + request.length

\* A connection goes back to the pool open only when its response was read to
\* the end, else the next message would take the rest for its own response; and
\* a message that has ended kept a connection, and with it a slot of the pool,
\* only when its response did not fit the caller's buffer.
ConnectionGoesHome ==
  /\ returned = "open" => taken = Length(response)
  /\ Ended /\ connection # 0 => ~Owned /\ receiveBufferOffset = capacity

\* A message whose submission was refused: nothing is under way, nothing will move it.
Refused ==
  ~pending /\ (state \in {"Sending", "Receiving"}
                 \/ (state = "InitReceiving" /\ request.op = "read"))

\* Every failure is counted against a limit, so that a message ends whatever the
\* network does, but for two cases: its submission was refused, or I/O is answered
\* with EAGAIN again and again, which the code counts against no limit.
EndlessAgain == []<><<SendAgain \/ ReceiveAgain>>_vars
Terminates == <>(Ended \/ thrown \/ Refused) \/ EndlessAgain

\* The API reference on success(): state_ == Finished.
Success == state = "Finished" /\ failureCode = {}
FinishedIsSuccess == state = "Finished" => Success

\* The guide: in Finished and Aborted the connection must have been returned.
EndedHoldsNothing == Ended => connection = 0

\* The comment at the return: after a complete response the connection is sound.
ReturnedIsSound == returned = "open" => ~broken

\* The comment at failuresMax: timeouts are I/O failures, which are limited.  A silent
\* peer gives EAGAIN instead.
SilenceIsLimited == <>(Ended \/ thrown \/ Refused)

\* The comments at the refused submissions: retried in the next cycle.
RefusedIsRetried ==
  Refused ~> (pending \/ Ended)

=============================================================================
