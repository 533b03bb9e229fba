---------------------------- MODULE HttpsMessage ----------------------------
(***************************************************************************)
(* network::HTTPSMessage and network::TLSConnection.  As in the code, the  *)
(* machine is that of HTTPMessage (its fields, its reset, its buffer) with *)
(* a TLS layer between it and the socket.                                  *)
(*                                                                         *)
(* The layer calls an operation of OpenSSL (connect, write, read or        *)
(* shutdown) on an SSL object that only sees a pair of memory BIOs.  When  *)
(* the operation wants I/O, process() takes what SSL has written from the  *)
(* BIO into a buffer, writes that to the socket, part by part, and then    *)
(* receives once if SSL asked for input; then the operation is called      *)
(* again.  One action is one call of an operation or one completed I/O.    *)
(*                                                                         *)
(* A unit is a piece of the TLS stream: of the handshake, of the request   *)
(* or of the answer.  What SSL decides is chosen: how much it writes and   *)
(* when it refuses what it has read.                                       *)
(***************************************************************************)
EXTENDS HttpMessage

CONSTANT Flights   \* messages of the server in a handshake

ASSUME FlightsAssumption == Flights \in Nat \ {0}

VARIABLES
  progress,        \* _state.progress
  networkBioRead,  \* _state.networkBioRead: units moved from the BIO to _buffer
  socketWrite,     \* _state.socketWrite: units of them that the socket took
  want,            \* _state.internalBioRead # 0: SSL asked for input
  bio,             \* units SSL has written that are still in the BIO
  made,            \* units SSL has written on this connection
  todo,            \* units of the current SSL_write that found no room yet
  handshake,       \* messages of the server's handshake that SSL has read
  inbox,           \* units received that SSL has not read
  closed,          \* whether the peer's close_notify was received
  closing          \* whether SSL_shutdown was called

layer == <<progress, networkBioRead, socketWrite, want, bio, made>>
session == <<todo, handshake, inbox, closed, closing>>
httpsVars == <<vars, layer, session>>

\* Everything of the message but what the layer's I/O changes.
message == <<state, failures, failureCode, sendBufferOffset, receiveBufferOffset, info,
             buffer, connection, answer, thrown, response, taken, tries, returned>>

FreshLayer ==
  /\ progress = "Init" /\ networkBioRead = 0 /\ socketWrite = 0 /\ want = FALSE
  /\ bio = 0 /\ made = 0
  /\ todo = 0 /\ handshake = 0 /\ inbox = 0
  /\ closed = FALSE /\ closing = FALSE
DestroyLayer ==
  /\ progress' = "Init" /\ networkBioRead' = 0 /\ socketWrite' = 0 /\ want' = FALSE
  /\ bio' = 0 /\ made' = 0
  /\ todo' = 0 /\ handshake' = 0 /\ inbox' = 0
  /\ closed' = FALSE /\ closing' = FALSE

HttpsInit == Init /\ FreshLayer

-----------------------------------------------------------------------------
(* TLSConnection::process                                                  *)

Submit(op, from, length) ==
  /\ request' = [op |-> op, from |-> from, length |-> length, fd |-> connection]
  /\ Submitted

ToReceiving(wanted) ==
  /\ want' = wanted
  /\ IF wanted
     THEN progress' = "Receiving" /\ Submit("read", 0, ChunkSize)
     ELSE progress' = "Finished" /\ pending' = FALSE /\ UNCHANGED request

\* From SendingInit: SSL has just written n more units and wants input or not.
\* Mutant: input is waited for first.
ProcessReadFirst(n, wanted) ==
  /\ made' = made + n
  /\ IF bio + n > 0 /\ ~wanted
     THEN /\ networkBioRead' = bio + n /\ socketWrite' = 0 /\ bio' = 0
          /\ progress' = "Sending" /\ want' = wanted
          /\ Submit("write", made' - (bio + n), bio + n)
     ELSE ToReceiving(wanted) /\ bio' = bio + n /\ UNCHANGED <<networkBioRead, socketWrite>>
Process(n, wanted) ==
  /\ made' = made + n /\ bio' = 0
  /\ networkBioRead' = bio + n /\ socketWrite' = 0
  /\ IF bio + n > 0
     THEN /\ progress' = "Sending" /\ want' = wanted
          /\ Submit("write", made' - (bio + n), bio + n)
     ELSE ToReceiving(wanted)

Writing == pending /\ progress = "Sending"
WriteRest(written) ==
  /\ progress' = "Sending"
  /\ Submit("write", made - networkBioRead + written, networkBioRead - written)
  /\ UNCHANGED want

WriteDone(n) ==
  /\ Writing /\ ~broken /\ n <= request.length
  /\ wire' = wire + n /\ socketWrite' = socketWrite + n
  /\ IF socketWrite' # networkBioRead THEN WriteRest(socketWrite') ELSE ToReceiving(want)
  /\ UNCHANGED <<message, broken, again, networkBioRead, bio, made, session, capacity>>

\* EAGAIN, which nothing counts.  Also the timeout that poll() reports: not one of
\* the two errors the code takes for an interruption, it stores ReceivingInit, which
\* is overwritten at once, and the rest is submitted again, as often as it comes.
WriteAgain ==
  /\ Writing /\ ~broken
  /\ again' = ~again
  /\ WriteRest(socketWrite)
  /\ UNCHANGED <<message, wire, broken, socketWrite, networkBioRead, bio, made, session,
                 capacity>>

WriteInterrupted ==
  /\ Writing /\ ~broken
  /\ progress' = "Aborted" /\ pending' = FALSE
  /\ UNCHANGED <<message, request, wire, broken, again, networkBioRead, socketWrite, want,
                 bio, made, session, capacity>>

\* Any other error.  ReceivingInit is stored, and overwritten at once: the
\* unsent rest is written again, without counting a failure.  A connection that
\* was reset takes no byte any more.
WriteFails ==
  /\ Writing
  /\ broken' = TRUE
  /\ WriteRest(socketWrite)
  /\ UNCHANGED <<message, wire, again, socketWrite, networkBioRead, bio, made, session,
                 capacity>>

Reading == pending /\ progress = "Receiving"

\* n units of what the peer sends next, and its close_notify after the last one.
ReadDone(n, last) ==
  /\ Reading
  /\ n + inbox <= CASE state = "TLSHandshake" -> 1
                    [] state = "TLSShutdown" -> 0
                    [] OTHER -> Length(response) - taken
  /\ last => state # "TLSHandshake" /\ taken + inbox + n = Length(response)
  /\ n > 0 \/ last
  /\ inbox' = inbox + n /\ closed' = (closed \/ last)
  /\ progress' = "Finished" /\ want' = FALSE /\ pending' = FALSE
  /\ UNCHANGED <<message, request, wire, broken, again, networkBioRead, socketWrite, bio,
                 made, todo, handshake, closing, capacity>>

ReadAgain ==
  /\ Reading
  /\ again' = ~again
  /\ ToReceiving(want)
  /\ UNCHANGED <<message, wire, broken, networkBioRead, socketWrite, bio, made, session,
                 capacity>>

ReadFails(bit) ==
  /\ Reading
  /\ failureCode' = failureCode \cup {bit}
  /\ progress' = "Aborted" /\ pending' = FALSE
  /\ UNCHANGED <<state, failures, sendBufferOffset, receiveBufferOffset, info, buffer,
                 connection, answer, thrown, peer, tries, returned, request, again,
                 networkBioRead, socketWrite, want, bio, made, session, capacity>>

-----------------------------------------------------------------------------
(* HTTPSMessage::execute: Init                                             *)

\* reset() destroys the layer, whatever becomes of the message.
Retry(bits, limit) ==
  /\ failureCode' = failureCode \cup bits
  /\ Reset(failures > limit, buffer, receiveBufferOffset)
  /\ DestroyLayer
  /\ UNCHANGED <<peer, again, capacity>>

\* A connection of the pool and a new SSL object on it.
GetConnection ==
  /\ state = "Init" /\ tries < MaxTries
  /\ tries' = tries + 1 /\ connection' = tries'
  /\ response' \in Responses
  /\ wire' = 0 /\ taken' = 0 /\ broken' = FALSE
  /\ state' = "TLSHandshake" /\ sendBufferOffset' = 0
  /\ UNCHANGED <<failures, failureCode, receiveBufferOffset, info, buffer, request, answer,
                 pending, thrown, returned, again, capacity, layer, session>>

GetConnectionFails ==
  state = "Init" /\ Retry({"Socket"}, ConnectionFailuresMax) /\ UNCHANGED tries

\* No SSL object: the connection just obtained is closed and given back.
LayerFails ==
  /\ state = "Init" /\ tries < MaxTries
  /\ tries' = tries + 1
  /\ Retry({"TLS"}, ConnectionFailuresMax)

-----------------------------------------------------------------------------
(* The operations of OpenSSL, and what execute() makes of their results    *)

Callable == ~pending /\ progress \in {"Init", "Finished"}

\* SSL_connect: a first message, then a message for some of the server's.
Connecting == Callable /\ state = "TLSHandshake" /\ (progress = "Init" \/ inbox > 0)

SslConnectWants(n) ==
  /\ Connecting /\ handshake + inbox < Flights
  /\ progress = "Init" => n = 1
  /\ handshake' = handshake + inbox /\ inbox' = 0
  /\ Process(n, TRUE)
  /\ UNCHANGED <<message, wire, broken, again, todo, closed, closing, capacity>>

\* The last message of the handshake is left in the BIO.
SslConnected(n) ==
  /\ Connecting /\ handshake + inbox >= Flights
  /\ handshake' = handshake + inbox /\ inbox' = 0
  /\ state' = "InitSending"
  /\ bio' = bio + n /\ made' = made + n
  /\ UNCHANGED <<failures, failureCode, sendBufferOffset, receiveBufferOffset, info, buffer,
                 connection, answer, thrown, response, taken, tries, returned, pending,
                 request, wire, broken, again, progress, networkBioRead, socketWrite, want,
                 todo, closed, closing, capacity>>

\* SSL_write of the header, then of the data to put: all of it, or as much as
\* the BIO has room for, and the rest when it is called again.
Part == IF sendBufferOffset < MsgLen THEN MsgLen - sendBufferOffset ELSE Total - sendBufferOffset
Unwritten == IF todo > 0 THEN todo ELSE Part
BioRoom == ChunkSize - bio
Sending == Callable /\ state \in {"InitSending", "Sending"}

SslWrites ==
  /\ Sending /\ Unwritten <= BioRoom
  /\ bio' = bio + Unwritten /\ made' = made + Unwritten /\ todo' = 0
  /\ sendBufferOffset' = sendBufferOffset + Part
  /\ IF sendBufferOffset' >= Total
     THEN state' = "InitReceiving" /\ receiveBufferOffset' = 0 /\ buffer' = <<>>
     ELSE UNCHANGED <<state, receiveBufferOffset, buffer>>
  /\ UNCHANGED <<failures, failureCode, info, connection, answer, thrown, response, taken,
                 tries, returned, pending, request, wire, broken, again, progress,
                 networkBioRead, socketWrite, want, handshake, inbox, closed,
                 closing, capacity>>

SslWriteWants ==
  /\ Sending /\ Unwritten > BioRoom
  /\ todo' = Unwritten - BioRoom
  /\ state' = "Sending"
  /\ Process(BioRoom, FALSE)
  /\ UNCHANGED <<failures, failureCode, sendBufferOffset, receiveBufferOffset, info, buffer,
                 connection, answer, thrown, response, taken, tries, returned, wire, broken,
                 again, handshake, inbox, closed, closing, capacity>>

\* SSL_read into the reserved places; new ones only when none are left.
Receiving == Callable /\ state \in {"InitReceiving", "Receiving"}
Reserved == IF state = "InitReceiving" THEN 0 ELSE Len(buffer) - receiveBufferOffset
Places ==
  IF Reserved > 0 THEN buffer
  ELSE Grown(buffer, IF Owned THEN ChunkSize
                     ELSE Smaller(ChunkSize, capacity - receiveBufferOffset))
Full == Reserved = 0 /\ ~Owned /\ capacity <= receiveBufferOffset

BufferFull ==
  /\ Receiving /\ Full
  /\ state' = "Aborted" /\ failureCode' = failureCode \cup {"Recv"}
  /\ UNCHANGED <<failures, sendBufferOffset, receiveBufferOffset, info, buffer, connection,
                 answer, thrown, peer, tries, returned, pending, request, again, layer,
                 session, capacity>>

SslReadWants ==
  /\ Receiving /\ ~Full /\ inbox = 0 /\ ~closed
  /\ state' = "Receiving" /\ buffer' = Places
  /\ Process(0, TRUE)
  /\ UNCHANGED <<failures, failureCode, sendBufferOffset, receiveBufferOffset, info,
                 connection, answer, thrown, peer, tries, returned, again, session, capacity>>

SslReads(n) ==
  /\ Receiving /\ ~Full
  /\ n <= inbox /\ n <= Len(Places) - receiveBufferOffset
  /\ taken' = taken + n /\ inbox' = inbox - n
  /\ UNCHANGED <<response, wire, broken, again, tries, capacity>>

SslReadsPart(n) ==
  /\ SslReads(n) /\ Parses(n)
  /\ receiveBufferOffset + n < Length(Parsed)
  /\ state' = "Receiving" /\ info' = Parsed
  /\ buffer' = Data(n) /\ receiveBufferOffset' = receiveBufferOffset + n
  /\ UNCHANGED <<failures, failureCode, sendBufferOffset, connection, answer, thrown,
                 returned, pending, request, layer, todo, handshake, closed,
                 closing>>

\* A complete answer: an error ends the message without a shutdown.
SslReadsLast(n) ==
  /\ SslReads(n) /\ Parses(n)
  /\ receiveBufferOffset + n >= Length(Parsed)
  /\ answer' = Parsed /\ info' = None
  /\ buffer' = Data(n) /\ receiveBufferOffset' = receiveBufferOffset + n
  /\ IF Parsed.kind = "success"
     THEN state' = "TLSShutdown" /\ UNCHANGED <<failureCode, connection, returned>>
     ELSE state' = "Aborted" /\ failureCode' = failureCode \cup {"HTTP"} /\ Release
  /\ UNCHANGED <<failures, sendBufferOffset, thrown, pending, request, layer, todo,
                 handshake, closed, closing>>

SslReadsMalformed(n) ==
  /\ Receiving /\ ~Full
  /\ n <= inbox /\ n <= Len(Places) - receiveBufferOffset
  /\ ~Parses(n)
  /\ failureCode' = failureCode \cup {"HTTP"}
  /\ Reset(failures > FailuresMax, Data(n), receiveBufferOffset + n)
  /\ DestroyLayer
  /\ taken' = taken + n
  /\ UNCHANGED <<wire, response, broken, tries, again, capacity>>

\* The layer gave up, SSL refused what it read, or the peer closed too early.
Abandoned ==
  \/ progress = "Aborted"
  \/ ~pending /\ progress = "Finished" /\ state \in {"TLSHandshake", "Sending", "Receiving"}
Abandon ==
  /\ Abandoned
  /\ \/ state = "TLSHandshake" /\ Retry({"TLS"}, FailuresMax)
     \/ state \in {"InitSending", "Sending", "InitReceiving", "Receiving"}
          /\ Retry({}, FailuresMax)
  /\ UNCHANGED tries

\* The first SSL_shutdown queues a close_notify and returns 0, which the layer
\* takes for a failure: it calls SSL_shutdown again, and that waits for the peer's.
ShutdownStarts ==
  /\ Callable /\ state = "TLSShutdown" /\ ~closing /\ ~closed
  /\ closing' = TRUE
  /\ Process(1, TRUE)
  /\ UNCHANGED <<message, wire, broken, again, todo, handshake, inbox, closed,
                 capacity>>

\* Finished or given up: the connection is closed and the message finished.
\* Mutant: the connection is returned for others to use.
ShutdownEndsOpen ==
  /\ state = "TLSShutdown" /\ ~pending
  /\ closed \/ (closing /\ progress \in {"Finished", "Aborted"})
  /\ state' = "Finished"
  /\ connection' = 0 /\ returned' = "open"
  /\ UNCHANGED <<failures, failureCode, sendBufferOffset, receiveBufferOffset, info, buffer,
                 answer, thrown, peer, tries, pending, request, again, layer, session,
                 capacity>>
ShutdownEnds ==
  /\ state = "TLSShutdown" /\ ~pending
  /\ closed \/ (closing /\ progress \in {"Finished", "Aborted"})
  /\ state' = "Finished"
  /\ Release
  /\ UNCHANGED <<failures, failureCode, sendBufferOffset, receiveBufferOffset, info, buffer,
                 answer, thrown, peer, tries, pending, request, again, layer, session,
                 capacity>>

HttpsNext ==
  \/ GetConnection \/ GetConnectionFails \/ LayerFails
  \/ \E n \in 0..1 : SslConnectWants(n) \/ SslConnected(n)
  \/ SslWrites \/ SslWriteWants
  \/ BufferFull \/ SslReadWants
  \/ \E n \in 1..ChunkSize : SslReadsPart(n) \/ SslReadsLast(n) \/ SslReadsMalformed(n)
  \/ Abandon
  \/ ShutdownStarts \/ ShutdownEnds
  \/ \E n \in 1..ChunkSize : WriteDone(n)
  \/ WriteAgain \/ WriteInterrupted \/ WriteFails
  \/ \E n \in 0..ChunkSize, last \in BOOLEAN : ReadDone(n, last)
  \/ ReadAgain
  \/ \E bit \in {"Empty", "Timeout", "Recv"} : ReadFails(bit)

HttpsSpec == HttpsInit /\ [][HttpsNext]_httpsVars

\* execute() does not wait, and every I/O ends: receives and writes have a timeout.
\* EAGAIN, and the timeout of a write, are such ends, and may come every time.
HttpsFairSpec == HttpsSpec /\ WF_httpsVars(HttpsNext)

-----------------------------------------------------------------------------
(* Properties                                                              *)

HttpsTypeOK ==
  /\ state \in {"Init", "TLSHandshake", "InitSending", "Sending", "InitReceiving",
                "Receiving", "TLSShutdown", "Finished", "Aborted"}
  /\ progress \in {"Init", "Sending", "Receiving", "Finished", "Aborted"}
  /\ failures \in Nat /\ failureCode \subseteq Bits
  /\ sendBufferOffset \in 0..Total
  /\ receiveBufferOffset <= Len(buffer) /\ (Owned \/ Len(buffer) <= capacity)
  /\ socketWrite \in 0..networkBioRead /\ networkBioRead \in 0..ChunkSize
  /\ bio \in 0..ChunkSize /\ {made, wire} \subseteq Nat
  /\ todo \in 0..Total /\ handshake \in 0..Flights /\ inbox \in 0..ChunkSize
  /\ {want, closed, closing, pending, broken} \subseteq BOOLEAN
  /\ connection \in 0..tries /\ returned \in {"none", "closed", "open"}

\* The socket gets the stream that SSL wrote: across partial writes, EAGAIN and
\* new connections every write starts where the peer's stream ends, and the
\* layer only waits for input when nothing is left in the BIO or its buffer, or
\* both sides would wait for each other.
StreamInOrder ==
  pending => /\ request.fd = connection
             /\ request.op = "write" => request.from = wire /\ request.from + request.length = made
             /\ request.op = "read" => wire = made

\* A connection that carried a TLS session is closed before it goes back: the
\* next owner would send its own handshake into the old session.  It is kept
\* only when the caller's buffer was full.
ReturnedClosed ==
  /\ returned # "open"
  /\ Ended /\ connection # 0 => ~Owned /\ receiveBufferOffset = capacity

\* A layer whose submission was refused.
HttpsRefused == ~pending /\ progress \in {"Sending", "Receiving"}

\* Over TLS, too, every failure that is counted ends a message in the end: handshakes
\* and reads that fail, interrupted writes, a peer that closes early.  Three cases are
\* not counted: a refused submission, a connection that breaks while the layer writes,
\* and I/O that is submitted again for ever, after EAGAIN or a write's timeout in poll().
HttpsEndlessAgain == []<><<WriteAgain \/ ReadAgain>>_httpsVars
HttpsEnds == <>(Ended \/ HttpsRefused \/ broken) \/ HttpsEndlessAgain

\* The comment at failuresMax: send errors are I/O failures, which are limited.
BrokenEnds == broken ~> Ended

\* And of timeouts it says the same: a peer that stops reading, or stays silent, would
\* be given up.
HttpsSilenceIsLimited == <>(Ended \/ HttpsRefused \/ broken)

=============================================================================
