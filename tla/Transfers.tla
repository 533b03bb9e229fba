------------------------------ MODULE Transfers ------------------------------
(***************************************************************************)
(* Blocking transfers: Provider::download borrows a pooled connection and  *)
(* gives it to HttpClient::sendRequest; HttpClient::get, download and      *)
(* downloadWithRetry open a socket of their own for every attempt.  Both   *)
(* read their answer with recvResponse.  The socket of a pooled connection *)
(* is non-blocking (Connection::connect), one's own is blocking.           *)
(* One call runs at a time: the pool has no locks.  A response is three    *)
(* pieces on the stream, the first two its header, the third its body.     *)
(***************************************************************************)
EXTENDS ConnectionPool, Sequences

CONSTANTS
  Own,          \* the socket of get()
  MaxAttempts,  \* maxRetries of downloadWithRetry
  MaxCalls      \* bound on the number of calls

ASSUME OwnAssumption == Own \notin Conns

VARIABLES
  call,    \* the call in progress, or the last one
  last,    \* number of the latest call, which names its request
  stream,  \* each socket: todo of the server, wire to the client, hung up or not
  lost     \* calls over pooled connections that ended in an exception

transferVars == <<call, last, stream, lost>>
allVars == <<vars, transferVars>>

Sockets == Conns \cup {Own}
Codes == {"ok", "retry", "garbled"}  \* not tried again; 5xx and 429;
                                     \* no length and not chunked, or no HTTP
Response(id, k, code) ==
  [n \in 1..3 |-> [of |-> id, host |-> k, code |-> code, part |-> n]]
InternalError == [of |-> 0, code |-> "retry"]  \* the 500 of the client itself
Fresh == [todo |-> <<>>, wire |-> <<>>, up |-> TRUE]
NoCall == [stage |-> "idle"]

TransferInit ==
  /\ Init
  /\ call = NoCall
  /\ last = 0
  /\ stream = [s \in Sockets |-> Fresh]
  /\ lost = 0

NewCall(s, k, stage) ==
  [stage |-> stage, socket |-> s, host |-> k, attempt |-> 1,
   read |-> <<>>, got |-> InternalError]
Begins == call.stage = "idle" /\ last < MaxCalls /\ last' = last + 1
In(stage) == call.stage = stage
Pooled == call.socket # Own
Peer == IF Pooled THEN key[call.socket] ELSE call.host
Ends(got) == call' = [call EXCEPT !.stage = "answered", !.read = <<>>, !.got = got]

-----------------------------------------------------------------------------
(* Provider::download                                                      *)

Borrow(k) ==
  /\ Begins
  /\ TakeIdle(k) \/ Create(k)
  /\ \E c \in held' \ held :
       /\ call' = NewCall(c, k, "connected")
       /\ stream' = IF answer' = "created" THEN [stream EXCEPT ![c] = Fresh] ELSE stream
  /\ UNCHANGED lost

\* No connection: an empty response.
NoConnection(k) ==
  /\ Begins
  /\ CreateFails(k) \/ Exhausted(k)
  /\ UNCHANGED <<call, stream, lost>>

\* sendRequest.  What ::send returned is not looked at.
Send ==
  /\ In("connected")
  /\ call' = [call EXCEPT !.stage = "reading"]
  /\ \E code \in Codes :
       stream' = IF stream[call.socket].up
                 THEN [stream EXCEPT ![call.socket].todo =
                         @ \o Response(last, Peer, code)]
                 ELSE stream
  /\ UNCHANGED <<vars, last, lost>>

\* The connection is open as far as the client knows, whatever was answered.
Return ==
  /\ In("answered") /\ Pooled
  /\ ReturnHealthy(call.socket)
  /\ call' = NoCall
  /\ UNCHANGED <<last, stream, lost>>

-----------------------------------------------------------------------------
(* recvResponse                                                            *)

\* HttpHelper::finished parses from the first byte: it throws before the
\* header is there in full and when the bytes are no framed response.
Framed(bytes) == Len(bytes) >= 2 /\ bytes[1].part = 1 /\ bytes[1].code # "garbled"
Whole(bytes) == Framed(bytes) /\ Len(bytes) >= 3

\* recv returns n pieces.  Taken(n) is what the call has read then.
Taken(n) == call.read \o SubSeq(stream[call.socket].wire, 1, n)
Receives(n) ==
  /\ In("reading")
  /\ stream' = [stream EXCEPT ![call.socket].wire = SubSeq(@, n + 1, Len(@))]
  /\ UNCHANGED last

RecvPart(n) ==
  /\ Receives(n)
  /\ Framed(Taken(n)) /\ ~Whole(Taken(n))
  /\ call' = [call EXCEPT !.read = Taken(n)]
  /\ UNCHANGED <<vars, lost>>

\* Bytes beyond the response are dropped with the buffer.
RecvAll(n) ==
  /\ Receives(n)
  /\ Whole(Taken(n))
  /\ Ends(Taken(n)[1])
  /\ UNCHANGED <<vars, lost>>

\* The exception leaves download with the connection, which is closed and has
\* its slot in the pool still; get() leaks its socket.
RecvThrows(n) ==
  /\ In("reading")
  /\ ~Framed(Taken(n))
  /\ stream' = [stream EXCEPT ![call.socket] = Fresh]
  /\ UNCHANGED last
  /\ IF Pooled THEN Drop(call.socket) /\ lost' = lost + 1
               ELSE UNCHANGED <<vars, lost>>
  /\ call' = NoCall

\* recv returns 0 or less: hung up (data that a reset overtook is gone), or
\* nothing there yet on a socket that does not block.
RecvNothing ==
  /\ In("reading")
  /\ \/ ~stream[call.socket].up
     \/ Pooled /\ stream[call.socket].wire = <<>>
  /\ Ends(IF call.read = <<>> THEN InternalError ELSE call.read[1])
  /\ UNCHANGED <<vars, last, stream, lost>>

-----------------------------------------------------------------------------
(* get, download and downloadWithRetry                                     *)

Get(k) ==
  /\ Begins
  /\ call' = NewCall(Own, k, "dialing")
  /\ UNCHANGED <<vars, stream, lost>>

Dial ==
  /\ In("dialing")
  /\ call' = [call EXCEPT !.stage = "connected"]
  /\ stream' = [stream EXCEPT ![Own] = Fresh]
  /\ UNCHANGED <<vars, last, lost>>

DialFails ==
  /\ In("dialing")
  /\ Ends(InternalError)
  /\ UNCHANGED <<vars, last, stream, lost>>

\* The socket is closed; 5xx and 429 are tried again after a sleep.
MayRetry == call.got.code = "retry" /\ call.attempt < MaxAttempts

\* Mutant: the attempt is not counted.
AgainUncounted ==
  /\ In("answered") /\ ~Pooled /\ MayRetry
  /\ call' = [call EXCEPT !.stage = "dialing"]
  /\ UNCHANGED <<vars, last, stream, lost>>

Again ==
  /\ In("answered") /\ ~Pooled /\ MayRetry
  /\ call' = [call EXCEPT !.stage = "dialing", !.attempt = @ + 1,
                          !.got = InternalError]
  /\ UNCHANGED <<vars, last, stream, lost>>

Done ==
  /\ In("answered") /\ ~Pooled /\ ~MayRetry
  /\ call' = NoCall
  /\ stream' = [stream EXCEPT ![Own] = Fresh]
  /\ UNCHANGED <<vars, last, lost>>

-----------------------------------------------------------------------------
(* The server at the other end of a socket                                 *)

Writes(s) ==
  /\ stream[s].todo # <<>>
  /\ stream' = [stream EXCEPT ![s].todo = Tail(@), ![s].wire = Append(@, Head(stream[s].todo))]
  /\ UNCHANGED <<vars, call, last, lost>>

\* "Connection: close", a time limit, a crash: also in the middle of an answer.
HangsUp(s) ==
  /\ s \in held \cup idle \/ (s = Own /\ In("reading"))
  /\ stream[s].up
  /\ stream' = [stream EXCEPT ![s].todo = <<>>, ![s].up = FALSE]
  /\ UNCHANGED <<vars, call, last, lost>>

Wire == IF In("reading") THEN 1..Len(stream[call.socket].wire) ELSE {}
ClientStep ==
  \/ Send \/ Return \/ RecvNothing \/ Dial \/ DialFails \/ Again \/ Done
  \/ \E n \in Wire : RecvPart(n) \/ RecvAll(n) \/ RecvThrows(n)
ServerStep == \E s \in Sockets : Writes(s) \/ HangsUp(s)

TransferNext ==
  \/ \E k \in Keys : Borrow(k) \/ NoConnection(k) \/ Get(k)
  \/ ClientStep
  \/ ServerStep

TransferSpec == TransferInit /\ [][TransferNext]_allVars

\* A call runs on its thread; a server answers or closes in the end.  Nothing
\* in get() would wake a recv that the server leaves alone.
TransferFairSpec == TransferSpec /\ WF_allVars(ClientStep) /\ WF_allVars(ServerStep)

-----------------------------------------------------------------------------
(* Properties                                                              *)

Answered == In("answered") /\ call.got.of # 0

\* What a call returns was said by the host it asked; on a socket of its own
\* it is the answer to this very call.
AnswerFromHost ==
  Answered => /\ call.got.host = call.host
              /\ ~Pooled => call.got.of = last

\* The pool has one slot for every connection lent or idle, and one more for
\* every exception that recvResponse let through: those never come back.
SlotsAreAccounted == nulls = Cardinality(held) + Cardinality(idle) + lost

\* Every call ends, by an answer, an exception or the last attempt, if the server
\* answers or closes in the end, which TransferFairSpec assumes: nothing in the code
\* ends the wait for a silent server, as timeoutSeconds is never read.
TransfersEnd == (call.stage # "idle") ~> (call.stage = "idle")

\* The guide on download: the response of this transaction, or an empty one.
AnswerIsOwn == Answered => call.got.of = last

\* An answer that is not tried again was read to its end.
SuccessIsWhole == [][RecvNothing => call'.got.code # "ok"]_allVars

\* The pool answers as long as fewer connections are lent than it may have.
NeverExhausted == answer # "exhausted"
=============================================================================
