------------------------- MODULE HttpMessageProofs -------------------------
(***************************************************************************)
(* Proofs about HttpMessage and HttpsMessage, for any lengths of requests  *)
(* and responses, chunk size, buffers of callers, limits of failures,      *)
(* handshake and bounds.                                                   *)
(***************************************************************************)
EXTENDS HttpsMessage, SequenceTheorems, TLAPS

Cells == Nat \X Nat

Types == TypeOK /\ tries \in Nat /\ capacity \in Nat

\* Where the message is, and what it has by then.
Phases ==
  /\ pending => state \in {"Sending", "Receiving"}
  /\ state \in {"Init", "Sending", "InitReceiving"} => info = None
  /\ state \in {"Sending", "InitReceiving", "Receiving"} => connection = tries
  /\ returned = "open" \/ answer # None => Ended

\* The request that is being sent, and the peer's side of it.
Sends ==
  state = "Sending" =>
    /\ request.op = "write" /\ request.fd = connection
    /\ request.from = wire /\ sendBufferOffset = wire /\ wire < Total
    /\ request.length \in Nat /\ wire + request.length <= Total
    /\ taken = 0

\* The response that is being received: what is in the buffer was taken from the
\* current connection, in order.
Receives ==
  /\ state \in {"InitReceiving", "Receiving"} => wire = Total \/ broken
  /\ state = "InitReceiving" /\ request.op = "write" =>
       receiveBufferOffset = 0 /\ buffer = <<>> /\ taken = 0
  /\ state = "Receiving" =>
       /\ info \in {None, response} /\ receiveBufferOffset = taken
       /\ \A i \in 1..taken : buffer[i] = <<tries, i>>
  /\ state = "Receiving" /\ pending =>
       /\ request.op = "read" /\ request.fd = connection
       /\ request.from = receiveBufferOffset /\ request.length \in Nat
       /\ Len(buffer) >= request.from + request.length

IInv == Types /\ Phases /\ Sends /\ Receives /\ AnswerIsWhole /\ ConnectionGoesHome

-----------------------------------------------------------------------------
(* Constants, buffers and submissions                                      *)

LEMMA Sizes ==
  /\ MsgLen \in Nat /\ PutLen \in Nat /\ Total \in Nat /\ MsgLen <= Total
  /\ ChunkSize \in Nat \ {0}
  /\ \A r \in Responses : Length(r) \in Nat
<1>1. MsgLen \in Nat /\ PutLen \in Nat /\ ChunkSize \in Nat \ {0}
  BY LengthAssumption
<1>2. ASSUME NEW r \in Responses PROVE Length(r) \in Nat
  <2>1. r \in [head : Nat \ {0}, body : Nat, kind : Kinds]
    BY ResponseAssumption
  <2> QED BY <2>1 DEF Length
<1> QED BY <1>1, <1>2 DEF Total

\* Cells are reserved behind those there are.
LEMMA GrownFacts ==
  ASSUME NEW places \in Seq(Cells), NEW n \in Nat
  PROVE  /\ Grown(places, n) \in Seq(Cells)
         /\ Len(Grown(places, n)) = Len(places) + n
         /\ \A i \in 1..Len(places) : Grown(places, n)[i] = places[i]
<1> DEFINE holes == [i \in 1..n |-> Hole]
<1>1. Hole \in Cells
  BY DEF Hole, Cells
<1>2. holes \in Seq(Cells) /\ Len(holes) = n
  BY <1>1
<1>3. Len(places) \in Nat
  BY LenProperties
<1> HIDE DEF holes
<1>4. /\ places \o holes \in Seq(Cells)
      /\ Len(places \o holes) = Len(places) + n
      /\ \A i \in 1..(Len(places) + n) : i <= Len(places) => (places \o holes)[i] = places[i]
  BY <1>2, ConcatProperties
<1> QED BY <1>3, <1>4 DEF Grown, holes

\* n units arrive behind those that were taken.
LEMMA DataInOrder ==
  ASSUME buffer \in Seq(Cells), receiveBufferOffset = taken, connection = tries,
         taken \in Nat, tries \in Nat, taken <= Len(buffer),
         \A i \in 1..taken : buffer[i] = <<tries, i>>, NEW n \in Nat
  PROVE  /\ Data(n) \in Seq(Cells) /\ Len(Data(n)) = taken + n
         /\ \A i \in 1..(taken + n) : Data(n)[i] = <<tries, i>>
<1> DEFINE old == SubSeq(buffer, 1, receiveBufferOffset)
           new == [i \in 1..n |-> <<connection, taken + i>>]
<1>1. /\ buffer \in Seq(Cells) /\ receiveBufferOffset = taken /\ connection = tries
      /\ taken \in Nat /\ tries \in Nat /\ taken <= Len(buffer) /\ Len(buffer) \in Nat
      /\ \A i \in 1..taken : buffer[i] = <<tries, i>>
  BY LenProperties
<1>2. \A i \in 1..taken : buffer[i] \in Cells
  BY <1>1, ElementOfSeq
<1>3. /\ old \in Seq(Cells) /\ Len(old) = taken
      /\ \A i \in 1..taken : old[i] = buffer[i]
  <2>1. /\ old \in Seq(Cells)
        /\ Len(old) = IF 1 <= taken THEN taken - 1 + 1 ELSE 0
        /\ \A i \in 1..(taken - 1 + 1) : old[i] = buffer[1 + i - 1]
    BY <1>1, <1>2, SubSeqProperties
  <2>2. taken - 1 + 1 = taken /\ \A i \in 1..taken : 1 + i - 1 = i
    BY <1>1
  <2>3. \A i \in 1..taken : old[i] = buffer[i]
    BY <2>1, <2>2
  <2> QED BY <1>1, <2>1, <2>2, <2>3
<1>4. \A i \in 1..n : <<connection, taken + i>> \in Cells
  BY <1>1 DEF Cells
<1>5. new \in Seq(Cells) /\ Len(new) = n /\ \A i \in 1..n : new[i] = <<tries, taken + i>>
  BY <1>1, <1>4
<1> HIDE DEF old, new
<1>6. /\ old \o new \in Seq(Cells) /\ Len(old \o new) = taken + n
      /\ \A i \in 1..(taken + n) :
           (old \o new)[i] = IF i <= taken THEN old[i] ELSE new[i - taken]
  BY <1>3, <1>5, ConcatProperties
<1>7. ASSUME NEW i \in 1..(taken + n) PROVE (old \o new)[i] = <<tries, i>>
  <2>1. CASE i <= taken
    <3>1. i \in 1..taken
      BY <1>1, <2>1
    <3> QED BY <1>1, <1>3, <1>6, <2>1, <3>1
  <2>2. CASE ~(i <= taken)
    <3>1. i - taken \in 1..n /\ taken + (i - taken) = i
      BY <1>1, <2>2
    <3> QED BY <1>5, <1>6, <2>2, <3>1
  <2> QED BY <2>1, <2>2
<1>8. Data(n) = old \o new
  BY DEF Data, old, new
<1> QED BY <1>6, <1>7, <1>8

LEMMA DataFacts ==
  ASSUME Types, Receives, Phases, state = "Receiving", NEW n \in Nat
  PROVE  /\ Data(n) \in Seq(Cells) /\ Len(Data(n)) = taken + n
         /\ \A i \in 1..(taken + n) : Data(n)[i] = <<tries, i>>
<1>1. /\ buffer \in Seq(Cells) /\ receiveBufferOffset = taken /\ connection = tries
      /\ taken \in Nat /\ tries \in Nat /\ taken <= Len(buffer)
      /\ \A i \in 1..taken : buffer[i] = <<tries, i>>
  BY DEF Types, TypeOK, Receives, Phases, Cells
<1> QED BY <1>1, DataInOrder

\* A submission of a receive ends the message at a full buffer, throws, or makes
\* room for what the kernel may write.
LEMMA SubmitReceiveFacts ==
  ASSUME Types, NEW places \in Seq(Cells), NEW offset \in Nat, offset <= Len(places),
         Owned \/ Len(places) <= capacity, capacity' = capacity,
         SubmitReceive(places, offset)
  PROVE  /\ receiveBufferOffset' = offset /\ pending' \in BOOLEAN
         /\ buffer' \in Seq(Cells) /\ offset <= Len(buffer')
         /\ (Owned \/ Len(buffer') <= capacity)
         /\ \A i \in 1..offset : buffer'[i] = places[i]
         /\ failureCode' \subseteq Bits /\ (thrown \in BOOLEAN => thrown' \in BOOLEAN)
         /\ \/ state' = "Aborted" /\ pending' = FALSE /\ ~Owned /\ offset = capacity
            \/ state' = state /\ pending' = FALSE /\ buffer' = places /\ request' = request
            \/ /\ state' = state /\ pending' = FALSE /\ request'.op = "read"
            \/ /\ state' = "Receiving"
               /\ request'.op = "read" /\ request'.fd = connection
               /\ request'.from = offset /\ request'.length \in Nat
               /\ Len(buffer') >= offset + request'.length
<1> DEFINE readSize == IF Owned THEN ChunkSize ELSE Smaller(ChunkSize, capacity - offset)
<1>1. Len(places) \in Nat /\ capacity \in Nat /\ failureCode \subseteq Bits
  BY LenProperties DEF Types, TypeOK
<1>2. \A i \in 1..offset : i \in 1..Len(places)
  BY <1>1
<1>3. CASE /\ ~Owned /\ capacity <= offset
           /\ state' = "Aborted" /\ failureCode' = failureCode \cup {"Recv"}
           /\ buffer' = places /\ pending' = FALSE
           /\ UNCHANGED <<request, thrown>>
  <2>1. offset = capacity
    BY <1>1, <1>3
  <2>2. failureCode' \subseteq Bits
    BY <1>1, <1>3 DEF Bits
  <2> QED BY <1>1, <1>3, <2>1, <2>2 DEF SubmitReceive
<1>4. CASE /\ thrown' = TRUE
           /\ buffer' = places /\ pending' = FALSE
           /\ UNCHANGED <<state, failureCode, request>>
  BY <1>1, <1>4 DEF SubmitReceive
<1>5. CASE /\ Owned \/ (capacity > offset /\ Len(places) + readSize <= capacity)
           /\ buffer' = Grown(places, readSize)
           /\ request' = [op |-> "read", from |-> offset, fd |-> connection,
                          length |-> readSize]
           /\ Submitted
           /\ state' = IF pending' THEN "Receiving" ELSE state
           /\ UNCHANGED <<failureCode, thrown>>
  <2>1. readSize \in Nat
    BY <1>1, <1>5, Sizes DEF Smaller
  <2> HIDE DEF readSize
  <2>2. /\ buffer' \in Seq(Cells) /\ Len(buffer') = Len(places) + readSize
        /\ \A i \in 1..Len(places) : buffer'[i] = places[i]
    BY <1>5, <2>1, GrownFacts
  <2>3. Owned \/ Len(buffer') <= capacity
    BY <1>5, <2>2
  <2>4. /\ request'.op = "read" /\ request'.fd = connection
        /\ request'.from = offset /\ request'.length = readSize
    BY <1>5
  <2>5. offset <= Len(buffer') /\ Len(buffer') >= offset + readSize
    BY <1>1, <2>1, <2>2
  <2>6. \A i \in 1..offset : buffer'[i] = places[i]
    BY <1>2, <2>2
  <2>7. pending' = TRUE \/ pending' = FALSE
    BY <1>5 DEF Submitted
  <2>8. receiveBufferOffset' = offset
    BY DEF SubmitReceive
  <2>9. CASE pending' = TRUE
    BY <1>1, <1>5, <2>1, <2>2, <2>3, <2>4, <2>5, <2>6, <2>8, <2>9
  <2>10. CASE pending' = FALSE
    BY <1>1, <1>5, <2>1, <2>2, <2>3, <2>4, <2>5, <2>6, <2>8, <2>10
  <2> QED BY <2>7, <2>9, <2>10
<1> QED BY <1>3, <1>4, <1>5 DEF SubmitReceive

-----------------------------------------------------------------------------
(* Every step keeps the invariant                                          *)

LEMMA Start == Init => IInv
<1> SUFFICES ASSUME Init PROVE IInv
  OBVIOUS
<1>1. capacity \in Nat /\ response \in Responses /\ 0 \in 0..Length(response)
  BY Sizes, LengthAssumption DEF Init
<1>2. <<>> \in Seq(Nat \X Nat) /\ Len(<<>>) = 0
  BY EmptySeq
<1>3. /\ state = "Init" /\ info = None /\ answer = None /\ returned = "none"
      /\ connection = 0 /\ tries = 0 /\ taken = 0 /\ receiveBufferOffset = 0
      /\ failures = 0 /\ failureCode = {} /\ buffer = <<>>
  BY DEF Init
<1>4. pending = FALSE /\ thrown = FALSE /\ broken = FALSE
  BY DEF Init
<1>5. sendBufferOffset \in 0..Total /\ wire \in 0..Total
  BY Sizes DEF Init
<1>6. buffer \in Seq(Nat \X Nat) /\ Len(buffer) = 0
  BY <1>2, <1>3
<1>7. pending \in BOOLEAN /\ thrown \in BOOLEAN /\ broken \in BOOLEAN
  BY <1>4
<1>8. Types
  BY <1>1, <1>3, <1>5, <1>6, <1>7 DEF Types, TypeOK
<1>9. Phases /\ Sends /\ Receives
  BY <1>3, <1>4 DEF Phases, Sends, Receives
<1>10. AnswerIsWhole /\ ConnectionGoesHome
  BY <1>3 DEF AnswerIsWhole, ConnectionGoesHome, Ended
<1> QED BY <1>8, <1>9, <1>10 DEF IInv

\* A message that has not ended has no answer, and has given no connection back
\* open.
LEMMA NotEnded ==
  ASSUME IInv, ~Ended PROVE answer = None /\ returned # "open"
BY DEF IInv, Phases

\* A failure starts over or gives up; both give the connection back closed.
LEMMA ResetStep ==
  ASSUME IInv, ~Ended, NEW giveUp \in BOOLEAN, NEW places \in Seq(Cells),
         NEW offset \in Nat, offset <= Len(places), Owned \/ Len(places) <= capacity,
         Reset(giveUp, places, offset), failureCode' \subseteq Bits,
         UNCHANGED <<wire, response, broken, tries, capacity>>,
         taken' \in 0..Length(response)
  PROVE  IInv'
<1>1. /\ failures' = failures + 1 /\ connection' = 0 /\ pending' = FALSE
      /\ UNCHANGED <<request, answer, thrown>>
      /\ returned' \in {returned, "closed"}
      /\ \/ /\ state' = "Aborted" /\ buffer' = places /\ receiveBufferOffset' = offset
            /\ UNCHANGED <<sendBufferOffset, info>>
         \/ /\ state' = "Init" /\ buffer' = <<>> /\ info' = None
            /\ sendBufferOffset' = 0 /\ receiveBufferOffset' = 0
  BY DEF Reset, Count, StartOver, Release
<1>2. answer' = None /\ returned' # "open"
  BY <1>1, NotEnded
<1>3. /\ state' \in {"Aborted", "Init"} /\ (state' = "Init" => info' = None)
      /\ info' \in Responses \cup {None}
  BY <1>1 DEF IInv, Types, TypeOK
<1>4. /\ buffer' \in Seq(Cells) /\ receiveBufferOffset' \in Nat
      /\ receiveBufferOffset' <= Len(buffer')
      /\ (Owned' \/ Len(buffer') <= capacity')
  <2>1. <<>> \in Seq(Cells) /\ Len(<<>>) = 0 /\ capacity \in Nat
    BY EmptySeq DEF IInv, Types
  <2>2. CASE buffer' = places /\ receiveBufferOffset' = offset
    BY <2>2 DEF Owned
  <2>3. CASE buffer' = <<>> /\ receiveBufferOffset' = 0
    <3>1. Len(buffer') = 0 /\ buffer' \in Seq(Cells)
      BY <2>1, <2>3
    <3>2. capacity' = capacity
      OBVIOUS
    <3> QED BY <2>1, <2>3, <3>1, <3>2
  <2> QED BY <1>1, <2>2, <2>3
<1>5. sendBufferOffset' \in 0..Total
  BY <1>1, Sizes DEF IInv, Types, TypeOK
<1>6. Types'
  <2>1. connection' \in 0..tries' /\ failures' \in Nat /\ answer' \in Responses \cup {None}
    BY <1>1, <1>2 DEF IInv, Types, TypeOK
  <2>2. returned' \in {"none", "closed", "open"}
    BY <1>1 DEF IInv, Types, TypeOK
  <2>3. pending' \in BOOLEAN /\ thrown' \in BOOLEAN /\ broken' \in BOOLEAN
    BY <1>1 DEF IInv, Types, TypeOK
  <2> QED
    BY <1>3, <1>4, <1>5, <2>1, <2>2, <2>3 DEF IInv, Types, TypeOK, Cells
<1>7. Phases' /\ Sends' /\ Receives'
  BY <1>1, <1>2, <1>3 DEF Phases, Sends, Receives
<1>8. AnswerIsWhole' /\ ConnectionGoesHome'
  BY <1>1, <1>2 DEF AnswerIsWhole, ConnectionGoesHome
<1> QED BY <1>6, <1>7, <1>8 DEF IInv

LEMMA FailStep ==
  ASSUME IInv, ~Ended, NEW bit \in Bits, NEW limit \in Nat, Fail(bit, limit),
         capacity' = capacity
  PROVE  IInv'
<1>1. Reset(failures > limit, buffer, receiveBufferOffset) /\ (failures > limit) \in BOOLEAN
  BY DEF Fail
<1>2. UNCHANGED <<wire, response, broken, tries, capacity>> /\ taken' \in 0..Length(response)
  BY DEF Fail, peer, IInv, Types, TypeOK
<1>3. failureCode' \subseteq Bits
  BY DEF Fail, IInv, Types, TypeOK
<1>4. /\ buffer \in Seq(Cells) /\ receiveBufferOffset \in Nat
      /\ receiveBufferOffset <= Len(buffer) /\ (Owned \/ Len(buffer) <= capacity)
  BY DEF IInv, Types, TypeOK, Cells
<1> QED BY <1>1, <1>2, <1>3, <1>4, ResetStep

\* What a submission of a send has built.
LEMMA SubmitSendFacts ==
  ASSUME NEW offset \in Nat, offset < Total, NEW fd, SubmitSend(offset, fd)
  PROVE  /\ state' = "Sending" /\ sendBufferOffset' = offset /\ pending' \in BOOLEAN
         /\ request'.op = "write" /\ request'.from = offset /\ request'.fd = fd
         /\ request'.length \in Nat /\ offset + request'.length <= Total
<1>1. IF offset < MsgLen
      THEN MsgLen - offset \in Nat /\ offset + (MsgLen - offset) <= Total
      ELSE Total - offset \in Nat /\ offset + (Total - offset) <= Total
  BY Sizes
<1>2. /\ request'.op = "write" /\ request'.from = offset /\ request'.fd = fd
      /\ request'.length = IF offset < MsgLen THEN MsgLen - offset ELSE Total - offset
  BY DEF SubmitSend
<1>3. pending' \in BOOLEAN
  BY DEF SubmitSend, Submitted
<1> QED BY <1>1, <1>2, <1>3 DEF SubmitSend

LEMMA ConnectStep ==
  ASSUME IInv, Connect, capacity' = capacity PROVE IInv'
<1>1. /\ state = "Init" /\ tries' = tries + 1 /\ connection' = tries'
      /\ response' \in Responses /\ wire' = 0 /\ taken' = 0 /\ broken' = FALSE
      /\ SubmitSend(0, tries')
      /\ UNCHANGED <<failures, failureCode, receiveBufferOffset, info, buffer, answer,
                      thrown, returned>>
  BY DEF Connect
<1>2. 0 < Total
  BY LengthAssumption DEF Total
<1>3. /\ state' = "Sending" /\ sendBufferOffset' = 0 /\ pending' \in BOOLEAN
      /\ request'.op = "write" /\ request'.from = 0 /\ request'.fd = tries'
      /\ request'.length \in Nat /\ 0 + request'.length <= Total
  BY <1>1, <1>2, SubmitSendFacts
<1>4. answer = None /\ returned # "open"
  BY <1>1, NotEnded DEF Ended
<1>5. Types'
  <2>1. /\ 0 \in 0..Total /\ 0 \in 0..Length(response') /\ tries' \in Nat
        /\ connection' \in 0..tries'
    BY <1>1, Sizes DEF IInv, Types
  <2>2. broken' \in BOOLEAN
    BY <1>1
  <2> QED BY <1>1, <1>3, <2>1, <2>2 DEF IInv, Types, TypeOK, Owned
<1>6. Phases' /\ Sends' /\ Receives'
  BY <1>1, <1>2, <1>3, <1>4 DEF IInv, Phases, Sends, Receives
<1>7. AnswerIsWhole' /\ ConnectionGoesHome'
  BY <1>1, <1>3, <1>4 DEF AnswerIsWhole, ConnectionGoesHome, Ended
<1> QED BY <1>5, <1>6, <1>7 DEF IInv

\* A send goes on where the peer waits, on the same connection.
LEMMA SendMore ==
  ASSUME IInv, state = "Sending", NEW offset \in Nat, offset < Total,
         SubmitSend(offset, request.fd), wire' = offset,
         UNCHANGED <<failures, failureCode, receiveBufferOffset, info, buffer, connection,
                     answer, thrown, response, taken, broken, tries, returned, capacity>>
  PROVE  IInv'
<1>1. /\ state' = "Sending" /\ sendBufferOffset' = offset /\ pending' \in BOOLEAN
      /\ request'.op = "write" /\ request'.from = offset /\ request'.fd = request.fd
      /\ request'.length \in Nat /\ offset + request'.length <= Total
  BY SubmitSendFacts
<1>2. answer = None /\ returned # "open"
  BY NotEnded DEF Ended
<1>3. request.fd = connection /\ taken = 0 /\ connection = tries /\ info = None
  BY DEF IInv, Sends, Phases
<1>4. offset \in 0..Total
  BY Sizes
<1>5. Types'
  BY <1>1, <1>4 DEF IInv, Types, TypeOK, Owned
<1>6. Phases' /\ Sends' /\ Receives'
  BY <1>1, <1>2, <1>3 DEF Phases, Sends, Receives
<1>7. AnswerIsWhole' /\ ConnectionGoesHome'
  BY <1>1, <1>2 DEF AnswerIsWhole, ConnectionGoesHome, Ended
<1> QED BY <1>5, <1>6, <1>7 DEF IInv

\* The response is awaited: everything was sent, or the connection failed.
LEMMA AwaitResponse ==
  ASSUME IInv, state = "Sending", ToReceive,
         sendBufferOffset' \in 0..Total, wire' \in 0..Total,
         wire' = Total \/ broken' = TRUE, broken' \in BOOLEAN, failureCode' \subseteq Bits,
         UNCHANGED <<failures, info, connection, answer, thrown, response, taken, tries,
                     returned, capacity>>
  PROVE  IInv'
<1>1. /\ state' = "InitReceiving" /\ receiveBufferOffset' = 0 /\ buffer' = <<>>
      /\ pending' = FALSE /\ request' = request
  BY DEF ToReceive
<1>2. answer = None /\ returned # "open"
  BY NotEnded DEF Ended
<1>3. taken = 0 /\ connection = tries /\ info = None
  BY DEF IInv, Sends, Phases
<1>4. /\ buffer' \in Seq(Nat \X Nat) /\ Len(buffer') = 0 /\ capacity \in Nat
  BY <1>1, EmptySeq DEF IInv, Types
<1>5. pending' \in BOOLEAN
  BY <1>1
<1>6. Types'
  BY <1>1, <1>4, <1>5 DEF IInv, Types, TypeOK, Owned
<1>7. Phases' /\ Sends' /\ Receives'
  BY <1>1, <1>2, <1>3 DEF Phases, Sends, Receives
<1>8. AnswerIsWhole' /\ ConnectionGoesHome'
  BY <1>1, <1>2 DEF AnswerIsWhole, ConnectionGoesHome, Ended
<1> QED BY <1>6, <1>7, <1>8 DEF IInv

LEMMA SendPartStep ==
  ASSUME IInv, NEW n \in 1..Total, SendPart(n), capacity' = capacity PROVE IInv'
<1>1. /\ state = "Sending" /\ n <= request.length /\ wire' = wire + n
      /\ UNCHANGED <<failures, failureCode, info, connection, answer, thrown,
                      response, taken, broken, tries, returned>>
  BY DEF SendPart, SendEnds
<1>2. /\ sendBufferOffset = wire /\ wire \in Nat /\ n \in Nat /\ Total \in Nat
      /\ wire + n <= Total
  <2>1. /\ sendBufferOffset = wire /\ request.length \in Nat
        /\ wire + request.length <= Total
    BY <1>1 DEF IInv, Sends
  <2> QED BY <1>1, <2>1, Sizes DEF IInv, Types, TypeOK
<1>3. CASE sendBufferOffset + n >= Total
  <2>1. ToReceive /\ sendBufferOffset' = sendBufferOffset + n
    BY <1>3 DEF SendPart
  <2>2. sendBufferOffset' \in 0..Total /\ wire' \in 0..Total /\ wire' = Total
    BY <1>1, <1>2, <1>3, <2>1
  <2>3. broken' \in BOOLEAN /\ failureCode' \subseteq Bits
    BY <1>1 DEF IInv, Types, TypeOK
  <2> QED BY <1>1, <2>1, <2>2, <2>3, AwaitResponse
<1>4. CASE ~(sendBufferOffset + n >= Total)
  <2>1. /\ SubmitSend(sendBufferOffset + n, request.fd)
        /\ UNCHANGED <<receiveBufferOffset, buffer>>
    BY <1>4 DEF SendPart
  <2>2. /\ sendBufferOffset + n \in Nat /\ sendBufferOffset + n < Total
        /\ wire' = sendBufferOffset + n
    BY <1>1, <1>2, <1>4
  <2> QED BY <1>1, <2>1, <2>2, SendMore
<1> QED BY <1>3, <1>4

LEMMA SendAgainStep ==
  ASSUME IInv, SendAgain, capacity' = capacity PROVE IInv'
<1>1. /\ state = "Sending" /\ pending /\ SubmitSend(sendBufferOffset, request.fd)
      /\ UNCHANGED <<failures, failureCode, receiveBufferOffset, info, buffer, connection,
                      answer, thrown, wire, response, taken, broken, tries, returned>>
  BY DEF SendAgain, SendEnds, peer
<1>2. sendBufferOffset = wire /\ wire \in Nat
  BY <1>1 DEF IInv, Sends, Types, TypeOK
<1>3. wire < Total
  BY <1>1 DEF IInv, Sends
<1> QED BY <1>1, <1>2, <1>3, SendMore

LEMMA SendFailsStep ==
  ASSUME IInv, SendFails, capacity' = capacity PROVE IInv'
<1>1. /\ state = "Sending" /\ ToReceive /\ broken' = TRUE
      /\ failureCode' = failureCode \cup {"Send"}
      /\ UNCHANGED <<failures, sendBufferOffset, info, connection, answer, thrown,
                      wire, response, taken, tries, returned>>
  BY DEF SendFails, SendEnds
<1>2. /\ sendBufferOffset' \in 0..Total /\ wire' \in 0..Total
      /\ failureCode' \subseteq Bits
  BY <1>1 DEF IInv, Types, TypeOK, Bits
<1>3. broken' \in BOOLEAN
  BY <1>1
<1> QED BY <1>1, <1>2, <1>3, AwaitResponse

\* The next receive is submitted behind what has come so far.
LEMMA ReceiveMore ==
  ASSUME IInv, state \in {"InitReceiving", "Receiving"},
         NEW places \in Seq(Cells), NEW offset \in Nat, offset <= Len(places),
         Owned \/ Len(places) <= capacity, SubmitReceive(places, offset),
         info' \in {None, response}, taken' = offset, offset <= Length(response),
         state = "InitReceiving" => info' = None /\ offset = 0 /\ places = <<>>,
         \A i \in 1..offset : places[i] = <<tries, i>>,
         UNCHANGED <<failures, sendBufferOffset, connection, answer, wire, response, broken,
                     tries, returned, capacity>>
  PROVE  IInv'
<1>1. /\ receiveBufferOffset' = offset /\ pending' \in BOOLEAN
      /\ buffer' \in Seq(Cells) /\ offset <= Len(buffer')
      /\ (Owned \/ Len(buffer') <= capacity)
      /\ \A i \in 1..offset : buffer'[i] = places[i]
      /\ failureCode' \subseteq Bits /\ thrown' \in BOOLEAN
      /\ \/ state' = "Aborted" /\ pending' = FALSE /\ ~Owned /\ offset = capacity
         \/ state' = state /\ pending' = FALSE /\ buffer' = places /\ request' = request
         \/ state' = state /\ pending' = FALSE /\ request'.op = "read"
         \/ /\ state' = "Receiving"
            /\ request'.op = "read" /\ request'.fd = connection
            /\ request'.from = offset /\ request'.length \in Nat
            /\ Len(buffer') >= offset + request'.length
  BY SubmitReceiveFacts DEF IInv, Types, TypeOK
<1>2. answer' = None /\ returned' # "open" /\ connection' = tries'
  BY NotEnded DEF Ended, IInv, Phases
<1>3. state' \in {"InitReceiving", "Receiving", "Aborted"}
  BY <1>1
<1>4. info' \in Responses \cup {None} /\ offset \in 0..Length(response) /\ (Owned' <=> Owned)
  <2>1. response \in Responses /\ Length(response) \in Nat
    BY Sizes DEF IInv, Types, TypeOK
  <2> QED BY <2>1 DEF Owned
<1>5. Types'
  BY <1>1, <1>3, <1>4 DEF IInv, Types, TypeOK, Cells
<1>6. Phases'
  BY <1>1, <1>2, <1>3 DEF Phases
<1>7. Sends'
  BY <1>3 DEF Sends
<1>8. Receives'
  <2>1. wire' = Total \/ broken'
    BY DEF IInv, Receives
  <2>2. state' = "InitReceiving" /\ request'.op = "write" =>
          receiveBufferOffset' = 0 /\ buffer' = <<>> /\ taken' = 0
    BY <1>1
  <2>3. state' = "Receiving" =>
          /\ info' \in {None, response'} /\ receiveBufferOffset' = taken'
          /\ \A i \in 1..taken' : buffer'[i] = <<tries', i>>
    BY <1>1
  <2>4. state' = "Receiving" /\ pending' =>
          /\ request'.op = "read" /\ request'.fd = connection'
          /\ request'.from = receiveBufferOffset' /\ request'.length \in Nat
          /\ Len(buffer') >= request'.from + request'.length
    BY <1>1
  <2> QED BY <2>1, <2>2, <2>3, <2>4 DEF Receives
<1>9. AnswerIsWhole' /\ ConnectionGoesHome'
  BY <1>1, <1>2, <1>3, <1>4 DEF AnswerIsWhole, ConnectionGoesHome, Ended
<1> QED BY <1>5, <1>6, <1>7, <1>8, <1>9 DEF IInv

LEMMA StartReceiveStep ==
  ASSUME IInv, StartReceive, capacity' = capacity PROVE IInv'
<1>1. /\ state = "InitReceiving" /\ request.op = "write"
      /\ SubmitReceive(buffer, receiveBufferOffset)
      /\ UNCHANGED <<failures, sendBufferOffset, info, connection, answer, wire, response,
                      taken, broken, tries, returned>>
  BY DEF StartReceive, peer
<1>2. receiveBufferOffset = 0 /\ buffer = <<>> /\ taken = 0 /\ info = None
  BY <1>1 DEF IInv, Receives, Phases
<1>3. /\ buffer \in Seq(Cells) /\ receiveBufferOffset \in Nat
      /\ receiveBufferOffset <= Len(buffer) /\ (Owned \/ Len(buffer) <= capacity)
      /\ 0 <= Length(response)
  BY Sizes DEF IInv, Types, TypeOK, Cells
<1>4. \A i \in 1..receiveBufferOffset : buffer[i] = <<tries, i>>
  BY <1>2
<1> QED BY <1>1, <1>2, <1>3, <1>4, ReceiveMore

\* What EAGAIN leaves of the buffer has all that was received.
LEMMA KeptFacts ==
  ASSUME buffer \in Seq(Cells), receiveBufferOffset \in Nat,
         receiveBufferOffset <= Len(buffer), Owned \/ Len(buffer) <= capacity
  PROVE  /\ Kept \in Seq(Cells) /\ receiveBufferOffset <= Len(Kept)
         /\ (Owned \/ Len(Kept) <= capacity)
         /\ \A i \in 1..receiveBufferOffset : Kept[i] = buffer[i]
<1> DEFINE m == Smaller(Len(buffer), receiveBufferOffset + MaxHoles)
<1>1. /\ Len(buffer) \in Nat /\ m \in Nat
      /\ m <= Len(buffer) /\ receiveBufferOffset <= m
  BY LimitAssumption, LenProperties DEF Smaller
<1> HIDE DEF m
<1>2. /\ SubSeq(buffer, 1, m) \in Seq(Cells) /\ Len(SubSeq(buffer, 1, m)) = m
      /\ \A i \in 1..m : SubSeq(buffer, 1, m)[i] = buffer[i]
  BY <1>1
<1>3. CASE Owned
  <2>1. Kept = SubSeq(buffer, 1, m)
    BY <1>3 DEF Kept, m
  <2> QED BY <1>1, <1>2, <1>3, <2>1
<1>4. CASE ~Owned
  BY <1>4 DEF Kept
<1> QED BY <1>3, <1>4

LEMMA ReceiveAgainStep ==
  ASSUME IInv, ReceiveAgain, capacity' = capacity PROVE IInv'
<1>1. /\ state = "Receiving" /\ SubmitReceive(Kept, receiveBufferOffset)
      /\ UNCHANGED <<failures, sendBufferOffset, info, connection, answer, wire, response,
                      taken, broken, tries, returned>>
  BY DEF ReceiveAgain, ReceiveEnds, peer
<1>2. /\ receiveBufferOffset = taken /\ info \in {None, response}
      /\ \A i \in 1..receiveBufferOffset : buffer[i] = <<tries, i>>
  BY <1>1 DEF IInv, Receives
<1>3. /\ buffer \in Seq(Cells) /\ receiveBufferOffset \in Nat
      /\ receiveBufferOffset <= Len(buffer) /\ (Owned \/ Len(buffer) <= capacity)
      /\ taken <= Length(response)
  BY Sizes DEF IInv, Types, TypeOK, Cells
<1>4. /\ Kept \in Seq(Cells) /\ receiveBufferOffset <= Len(Kept)
      /\ (Owned \/ Len(Kept) <= capacity)
      /\ \A i \in 1..receiveBufferOffset : Kept[i] = buffer[i]
  BY <1>3, KeptFacts
<1> QED BY <1>1, <1>2, <1>3, <1>4, ReceiveMore

\* What a receive has brought fits its place.
LEMMA ArrivedFacts ==
  ASSUME IInv, NEW n \in 1..ChunkSize, Arrived(n)
  PROVE  /\ state = "Receiving" /\ taken' = taken + n /\ taken' \in 0..Length(response)
         /\ receiveBufferOffset + n = taken + n /\ taken + n \in Nat
         /\ Data(n) \in Seq(Cells) /\ Len(Data(n)) = taken + n
         /\ \A i \in 1..(taken + n) : Data(n)[i] = <<tries, i>>
         /\ Owned \/ Len(Data(n)) <= capacity
         /\ info \in {None, response} /\ Parsed = response
<1>1. /\ state = "Receiving" /\ pending /\ taken' = taken + n
      /\ n <= request.length /\ n <= Length(response) - taken
  BY DEF Arrived, ReceiveEnds
<1>2. n \in Nat /\ taken \in Nat /\ Length(response) \in Nat
  BY Sizes DEF IInv, Types, TypeOK
<1>3. /\ receiveBufferOffset = taken /\ info \in {None, response}
      /\ request.from = taken /\ request.length \in Nat
      /\ Len(buffer) >= request.from + request.length
  BY <1>1 DEF IInv, Receives
<1>4. /\ Data(n) \in Seq(Cells) /\ Len(Data(n)) = taken + n
      /\ \A i \in 1..(taken + n) : Data(n)[i] = <<tries, i>>
  BY <1>1, <1>2, DataFacts DEF IInv
<1>5. Owned \/ taken + n <= capacity
  <2>1. /\ Len(buffer) \in Nat /\ capacity \in Nat
        /\ (Owned \/ Len(buffer) <= capacity)
    BY LenProperties DEF IInv, Types, TypeOK
  <2> QED BY <1>1, <1>2, <1>3, <2>1
<1>6. taken' \in 0..Length(response) /\ taken + n \in Nat
  BY <1>1, <1>2
<1>7. Parsed = response
  BY <1>3 DEF Parsed
<1> QED BY <1>1, <1>3, <1>4, <1>5, <1>6, <1>7

LEMMA ReceivePartStep ==
  ASSUME IInv, NEW n \in 1..ChunkSize, ReceivePart(n), capacity' = capacity PROVE IInv'
<1>1. /\ Arrived(n) /\ info' = Parsed
      /\ SubmitReceive(Data(n), receiveBufferOffset + n)
      /\ UNCHANGED <<failures, sendBufferOffset, connection, answer, wire, response, broken,
                      tries, returned>>
  BY DEF ReceivePart
<1>2. /\ state = "Receiving" /\ taken' = taken + n /\ taken' \in 0..Length(response)
      /\ receiveBufferOffset + n = taken + n /\ taken + n \in Nat
      /\ Data(n) \in Seq(Cells) /\ Len(Data(n)) = taken + n
      /\ \A i \in 1..(taken + n) : Data(n)[i] = <<tries, i>>
      /\ (Owned \/ Len(Data(n)) <= capacity) /\ Parsed = response
  BY <1>1, ArrivedFacts
<1>3. SubmitReceive(Data(n), taken + n)
  BY <1>1, <1>2
<1>4. taken + n <= Length(response) /\ taken + n <= Len(Data(n))
  BY <1>2
<1> HIDE DEF Data
<1> QED BY <1>1, <1>2, <1>3, <1>4, ReceiveMore

LEMMA ReceiveMalformedStep ==
  ASSUME IInv, NEW n \in 1..ChunkSize, ReceiveMalformed(n), capacity' = capacity
  PROVE  IInv'
<1>1. /\ Arrived(n) /\ failureCode' = failureCode \cup {"HTTP"}
      /\ Reset(failures > FailuresMax, Data(n), receiveBufferOffset + n)
      /\ (failures > FailuresMax) \in BOOLEAN
      /\ UNCHANGED <<wire, response, broken, tries, capacity>>
  BY DEF ReceiveMalformed
<1>2. /\ state = "Receiving" /\ taken' \in 0..Length(response)
      /\ receiveBufferOffset + n = taken + n /\ taken + n \in Nat
      /\ Data(n) \in Seq(Cells) /\ Len(Data(n)) = taken + n
      /\ (Owned \/ Len(Data(n)) <= capacity)
  BY <1>1, ArrivedFacts
<1>3. failureCode' \subseteq Bits /\ ~Ended
  BY <1>1, <1>2 DEF IInv, Types, TypeOK, Bits, Ended
<1>4. /\ Reset(failures > FailuresMax, Data(n), taken + n)
      /\ taken + n <= Len(Data(n))
  BY <1>1, <1>2
<1> QED BY <1>1, <1>2, <1>3, <1>4, ResetStep

LEMMA ReceiveLastStep ==
  ASSUME IInv, NEW n \in 1..ChunkSize, ReceiveLast(n), capacity' = capacity PROVE IInv'
<1>1. /\ Arrived(n) /\ receiveBufferOffset + n >= Length(Parsed)
      /\ answer' = Parsed /\ info' = None
      /\ buffer' = Data(n) /\ receiveBufferOffset' = receiveBufferOffset + n
      /\ connection' = 0 /\ returned' = "open" /\ pending' = FALSE
      /\ state' \in {"Finished", "Aborted"}
      /\ failureCode' \in {failureCode, failureCode \cup {"HTTP"}}
      /\ UNCHANGED <<failures, sendBufferOffset, request, thrown, wire, response, broken,
                      tries>>
  BY DEF ReceiveLast
<1>2. /\ state = "Receiving" /\ taken' = taken + n /\ taken' \in 0..Length(response)
      /\ receiveBufferOffset + n = taken + n /\ taken + n \in Nat
      /\ Data(n) \in Seq(Cells) /\ Len(Data(n)) = taken + n
      /\ \A i \in 1..(taken + n) : Data(n)[i] = <<tries, i>>
      /\ (Owned \/ Len(Data(n)) <= capacity) /\ Parsed = response
  BY <1>1, ArrivedFacts
<1>3. response \in Responses /\ Length(response) \in Nat
  BY Sizes DEF IInv, Types, TypeOK
<1>4. taken + n = Length(response)
  BY <1>1, <1>2, <1>3
<1>5. buffer' = [i \in 1..Length(response) |-> <<tries, i>>]
  <2> DEFINE d == Data(n)
  <2>1. d \in Seq(Cells) /\ Len(d) = Length(response)
    BY <1>2, <1>4
  <2>2. d \in [1..Length(response) -> Cells]
    BY <2>1, LenProperties
  <2>3. \A i \in 1..Length(response) : d[i] = <<tries, i>>
    BY <1>2, <1>4
  <2> HIDE DEF d
  <2>4. d = [i \in 1..Length(response) |-> <<tries, i>>]
    BY <2>2, <2>3
  <2> QED BY <1>1, <2>4 DEF d
<1>6. Types'
  <2>1. failureCode' \subseteq Bits
    BY <1>1 DEF IInv, Types, TypeOK, Bits
  <2>2. 0 \in 0..tries /\ tries \in Nat
    BY DEF IInv, Types
  <2>3. /\ buffer' \in Seq(Cells) /\ receiveBufferOffset' \in Nat
        /\ receiveBufferOffset' <= Len(buffer') /\ (Owned' \/ Len(buffer') <= capacity')
    BY <1>1, <1>2 DEF Owned
  <2>4. pending' \in BOOLEAN
    BY <1>1
  <2> QED BY <1>1, <1>2, <1>3, <2>1, <2>2, <2>3, <2>4 DEF IInv, Types, TypeOK, Cells
<1>7. Phases' /\ Sends' /\ Receives'
  BY <1>1 DEF Phases, Sends, Receives, Ended
<1>8. AnswerIsWhole'
  BY <1>1, <1>2, <1>5 DEF AnswerIsWhole
<1>9. ConnectionGoesHome'
  BY <1>1, <1>2, <1>4 DEF ConnectionGoesHome
<1> QED BY <1>6, <1>7, <1>8, <1>9 DEF IInv

LEMMA Step == IInv /\ [Next]_vars => IInv'
<1> SUFFICES ASSUME IInv, [Next]_vars PROVE IInv'
  OBVIOUS
<1>1. CASE UNCHANGED vars
  <2>1. UNCHANGED <<state, failures, failureCode, sendBufferOffset, receiveBufferOffset,
                    info, buffer, request, connection, answer, pending, thrown,
                    wire, response, taken, broken, tries, returned, capacity>>
    BY <1>1 DEF vars, code, peer
  <2>2. Types'
    BY <2>1 DEF IInv, Types, TypeOK, Owned
  <2>3. Phases' /\ Sends' /\ Receives'
    BY <2>1 DEF IInv, Phases, Ended, Sends, Receives
  <2>4. AnswerIsWhole' /\ ConnectionGoesHome'
    BY <2>1 DEF IInv, Ended, Owned, AnswerIsWhole, ConnectionGoesHome
  <2> QED BY <2>2, <2>3, <2>4 DEF IInv
<1>2. CASE Execute /\ capacity' = capacity
  <2>1. {"Timeout", "Recv", "Socket", "Empty"} \subseteq Bits
    BY DEF Bits
  <2>2. FailuresMax \in Nat /\ ConnectionFailuresMax \in Nat
    BY LimitAssumption
  <2>3. CASE Connect
    BY <1>2, <2>3, ConnectStep
  <2>4. CASE ConnectFails
    <3>1. ~Ended /\ Fail("Socket", ConnectionFailuresMax)
      BY <2>4 DEF ConnectFails, Ended
    <3> QED BY <1>2, <2>1, <2>2, <3>1, FailStep
  <2>5. ASSUME NEW n \in 1..Total, SendPart(n) PROVE IInv'
    BY <1>2, <2>5, SendPartStep
  <2>6. CASE SendAgain
    BY <1>2, <2>6, SendAgainStep
  <2>7. CASE SendInterrupted
    <3>1. ~Ended /\ Fail("Timeout", FailuresMax)
      BY <2>7 DEF SendInterrupted, SendEnds, Ended
    <3> QED BY <1>2, <2>1, <2>2, <3>1, FailStep
  <2>8. CASE SendFails
    BY <1>2, <2>8, SendFailsStep
  <2>9. CASE StartReceive
    BY <1>2, <2>9, StartReceiveStep
  <2>10. CASE ReceiveEmpty
    <3>1. ~Ended /\ Fail("Empty", FailuresMax)
      BY <2>10 DEF ReceiveEmpty, ReceiveEnds, Ended
    <3> QED BY <1>2, <2>1, <2>2, <3>1, FailStep
  <2>11. CASE ReceiveAgain
    BY <1>2, <2>11, ReceiveAgainStep
  <2>12. ASSUME NEW n \in 1..ChunkSize, ReceivePart(n) \/ ReceiveLast(n) \/ ReceiveMalformed(n)
         PROVE  IInv'
    BY <1>2, <2>12, ReceivePartStep, ReceiveLastStep, ReceiveMalformedStep
  <2>13. ASSUME NEW bit \in {"Timeout", "Recv"}, ReceiveFails(bit) PROVE IInv'
    <3>1. ~Ended /\ Fail(bit, FailuresMax) /\ bit \in Bits
      BY <2>1, <2>13 DEF ReceiveFails, ReceiveEnds, Ended
    <3> QED BY <1>2, <2>2, <3>1, FailStep
  <2> QED
    BY <1>2, <2>3, <2>4, <2>5, <2>6, <2>7, <2>8, <2>9, <2>10, <2>11, <2>12, <2>13
    DEF Execute
<1> QED BY <1>1, <1>2 DEF Next

-----------------------------------------------------------------------------
(* Theorems                                                                *)

\* Every variable keeps its type; the offsets stay within the request and the
\* buffer, and a caller's buffer is never exceeded.
THEOREM HttpTypeCorrect == Spec => []TypeOK
<1>1. IInv => TypeOK
  BY DEF IInv, Types
<1> QED BY <1>1, Start, Step, PTL DEF Spec

\* A message ends with one whole response of its last connection, in order, and
\* nothing of earlier attempts, however transfers are split, fail and are retried.
THEOREM AnswersAreWhole == Spec => []AnswerIsWhole
<1>1. IInv => AnswerIsWhole
  BY DEF IInv
<1> QED BY <1>1, Start, Step, PTL DEF Spec

\* Every send starts at the unit the peer waits for, and a response is awaited
\* only when all was sent or the connection failed.
THEOREM SendsGoInOrder == Spec => []SendsInOrder
<1>1. IInv => SendsInOrder
  BY DEF IInv, Sends, Receives, SendsInOrder
<1> QED BY <1>1, Start, Step, PTL DEF Spec

\* The socket never holds a request for a connection that was given back.
THEOREM IoIsOnHeldConnection == Spec => []IoOnHeldConnection
<1>1. IInv => IoOnHeldConnection
  BY DEF IInv, Phases, Sends, Receives, IoOnHeldConnection
<1> QED BY <1>1, Start, Step, PTL DEF Spec

\* The places that the kernel may write to exist.
THEOREM RequestsHaveRoom == Spec => []RoomForRequest
<1>1. IInv => RoomForRequest
  BY DEF IInv, Receives, RoomForRequest
<1> QED BY <1>1, Start, Step, PTL DEF Spec

\* A connection is returned open only when its response was read to the end, and
\* a message that ended keeps one only at a full buffer of its caller.
THEOREM ConnectionsGoHome == Spec => []ConnectionGoesHome
<1>1. IInv => ConnectionGoesHome
  BY DEF IInv
<1> QED BY <1>1, Start, Step, PTL DEF Spec

-----------------------------------------------------------------------------
(* HTTPSMessage: the invariant                                             *)

Live == {"TLSHandshake", "InitSending", "Sending", "InitReceiving", "Receiving",
         "TLSShutdown"}
Answering == {"InitReceiving", "Receiving"}
Asking == {"InitSending", "Sending", "InitReceiving"}

LayerTypes ==
  /\ progress \in {"Init", "Sending", "Receiving", "Finished", "Aborted"}
  /\ networkBioRead \in 0..ChunkSize /\ socketWrite \in 0..networkBioRead
  /\ bio \in 0..ChunkSize /\ made \in Nat /\ wire \in Nat
  /\ want \in BOOLEAN /\ pending \in BOOLEAN /\ broken \in BOOLEAN

\* What SSL has written is on the wire, in the layer's buffer or in the BIO, and
\* the request is for the rest of the buffer.
StreamNow ==
  /\ progress = "Sending" => bio = 0 /\ wire + (networkBioRead - socketWrite) = made
  /\ progress = "Receiving" => bio = 0 /\ wire = made /\ want = TRUE
  /\ progress \in {"Init", "Finished"} => wire + bio = made /\ want = FALSE
  /\ pending => progress \in {"Sending", "Receiving"} /\ request.fd = connection
  /\ pending /\ progress = "Sending" =>
       request.op = "write" /\ request.from = wire /\ request.length = made - wire
  /\ pending /\ progress = "Receiving" => request.op = "read"

Stream ==
  /\ pending => state \in Live
  /\ state = "Init" => FreshLayer
  /\ state \in Live => StreamNow

\* What SSL has not read belongs to the handshake or to the answer, and nothing
\* is received before it is asked for.
Session ==
  /\ todo \in 0..Total /\ handshake \in 0..Flights /\ inbox \in 0..ChunkSize
  /\ closed \in BOOLEAN /\ closing \in BOOLEAN
  /\ state \in Live /\ progress \in {"Sending", "Receiving"} => inbox = 0
  /\ state = "TLSHandshake" => bio = 0 /\ handshake < Flights /\ inbox <= 1 /\ taken = 0
  /\ state \in Asking => inbox = 0 /\ taken = 0 /\ want = FALSE /\ progress # "Receiving"
  /\ state \in Answering => taken + inbox <= Length(response)
  /\ state \in {"Receiving", "TLSShutdown"} => bio = 0
  /\ state = "TLSShutdown" => inbox = 0

MessageTypes ==
  /\ state \in Live \cup {"Init", "Finished", "Aborted"}
  /\ failures \in Nat /\ failureCode \subseteq Bits /\ sendBufferOffset \in 0..Total
  /\ tries \in Nat /\ capacity \in Nat /\ connection \in 0..tries
  /\ returned \in {"none", "closed"} /\ response \in Responses /\ taken \in Nat
  /\ buffer \in Seq(Cells) /\ receiveBufferOffset \in Nat
  /\ receiveBufferOffset <= Len(buffer) /\ (Owned \/ Len(buffer) <= capacity)

\* What was taken of the answer is in the buffer, in order.
Answer ==
  /\ answer # None => state \in {"TLSShutdown", "Finished", "Aborted"}
  /\ state \in Live => connection = tries /\ info \in {None, response}
  /\ state = "Init" => info = None
  /\ state = "InitReceiving" => buffer = <<>>
  /\ state \in Answering =>
       receiveBufferOffset = taken /\ \A i \in 1..taken : buffer[i] = <<tries, i>>
  /\ AnswerIsWhole /\ ReturnedClosed

HInv == LayerTypes /\ Stream /\ Session /\ MessageTypes /\ Answer

LEMMA HStart == HttpsInit => HInv
<1> SUFFICES ASSUME HttpsInit PROVE HInv
  OBVIOUS
<1>1. /\ state = "Init" /\ info = None /\ answer = None /\ returned = "none"
      /\ connection = 0 /\ tries = 0 /\ taken = 0 /\ receiveBufferOffset = 0
      /\ failures = 0 /\ failureCode = {} /\ sendBufferOffset = 0
      /\ pending = FALSE /\ broken = FALSE /\ wire = 0 /\ buffer = <<>>
  BY DEF HttpsInit, Init
<1>2. capacity \in Nat /\ response \in Responses
  BY LengthAssumption DEF HttpsInit, Init
<1>3. <<>> \in Seq(Cells) /\ Len(<<>>) = 0
  BY EmptySeq
<1>4. FreshLayer
  BY DEF HttpsInit
<1>5. LayerTypes
  <2>1. want \in BOOLEAN /\ pending \in BOOLEAN /\ broken \in BOOLEAN
    BY <1>1, <1>4, Zenon DEF FreshLayer
  <2>2. progress = "Init" /\ networkBioRead = 0 /\ socketWrite = 0 /\ bio = 0 /\ made = 0
    BY <1>4 DEF FreshLayer
  <2> QED BY <1>1, <2>1, <2>2, Sizes DEF LayerTypes
<1>6. Stream
  BY <1>1, <1>4 DEF Stream, Live
<1>7. Session
  <2>1. closed \in BOOLEAN /\ closing \in BOOLEAN
    BY <1>4, Zenon DEF FreshLayer
  <2>2. todo = 0 /\ handshake = 0 /\ inbox = 0
    BY <1>4 DEF FreshLayer
  <2> QED
    BY <1>1, <2>1, <2>2, Sizes, FlightsAssumption DEF Session, Live, Asking, Answering
<1>8. MessageTypes
  <2>1. buffer \in Seq(Cells) /\ Len(buffer) = 0
    BY <1>1, <1>3
  <2> QED BY <1>1, <1>2, <2>1, Sizes DEF MessageTypes
<1>9. Answer
  BY <1>1 DEF Answer, AnswerIsWhole, ReturnedClosed, Ended, Live, Answering
<1> QED BY <1>5, <1>6, <1>7, <1>8, <1>9 DEF HInv

-----------------------------------------------------------------------------
(* What a step leaves alone                                                *)

LEMMA MessageKept ==
  ASSUME HInv, failureCode' \subseteq Bits,
         UNCHANGED <<state, failures, sendBufferOffset, receiveBufferOffset, info, buffer,
                     connection, answer, response, taken, tries, returned, capacity>>
  PROVE  MessageTypes' /\ Answer'
<1>1. MessageTypes'
  BY DEF HInv, MessageTypes, Owned
<1>2. AnswerIsWhole' /\ ReturnedClosed'
  BY DEF HInv, Answer, AnswerIsWhole, ReturnedClosed, Ended, Owned
<1>3. Answer'
  BY <1>2 DEF HInv, Answer
<1> QED BY <1>1, <1>3

\* Only the layer worked, and it does not wait for input that the message did
\* not ask for.
LEMMA SessionKept ==
  ASSUME HInv, bio' \in {bio, 0},
         progress' \in {"Sending", "Receiving"} => inbox = 0,
         state \in Asking => want' = FALSE /\ progress' # "Receiving",
         UNCHANGED <<state, todo, handshake, inbox, closed, closing, response, taken>>
  PROVE  Session'
BY DEF HInv, Session

-----------------------------------------------------------------------------
(* The layer                                                               *)

\* The layer's I/O is for the message that is under way.
LEMMA Working ==
  ASSUME HInv, pending
  PROVE  /\ state \in Live /\ bio = 0 /\ inbox = 0 /\ request.fd = connection
         /\ progress = "Sending" =>
              /\ wire + (networkBioRead - socketWrite) = made
              /\ request.length = networkBioRead - socketWrite
         /\ progress = "Receiving" => wire = made /\ want = TRUE
<1>1. state \in Live /\ StreamNow
  BY DEF HInv, Stream
<1>2. progress \in {"Sending", "Receiving"} /\ bio = 0 /\ request.fd = connection
  BY <1>1 DEF StreamNow
<1>3. inbox = 0
  BY <1>1, <1>2 DEF HInv, Session
<1>4. progress = "Sending" =>
        /\ wire + (networkBioRead - socketWrite) = made
        /\ request.length = networkBioRead - socketWrite
  BY <1>1 DEF StreamNow, HInv, LayerTypes
<1>5. progress = "Receiving" => wire = made /\ want = TRUE
  BY <1>1 DEF StreamNow
<1> QED BY <1>1, <1>2, <1>3, <1>4, <1>5

\* A state of the layer in which it waits for a write of the rest.
LEMMA WaitsToWrite ==
  ASSUME progress' = "Sending", networkBioRead' \in 0..ChunkSize,
         socketWrite' \in 0..networkBioRead', bio' = 0, made' \in Nat, wire' \in Nat,
         wire' + (networkBioRead' - socketWrite') = made',
         want' \in BOOLEAN, broken' \in BOOLEAN, pending' \in BOOLEAN, state' \in Live,
         request'.op = "write", request'.fd = connection', request'.from = wire',
         request'.length = made' - wire'
  PROVE  LayerTypes' /\ Stream'
<1>1. LayerTypes'
  BY Sizes DEF LayerTypes
<1>2. StreamNow'
  BY DEF StreamNow
<1> QED BY <1>1, <1>2 DEF Stream, Live

\* One in which it waits for input or is done.
LEMMA ReceivesOrEnds ==
  ASSUME networkBioRead' \in 0..ChunkSize, socketWrite' \in 0..networkBioRead',
         bio' = 0, made' \in Nat, wire' = made', broken' \in BOOLEAN, state' \in Live,
         connection' = connection, NEW wanted \in BOOLEAN, ToReceiving(wanted)
  PROVE  /\ LayerTypes' /\ Stream' /\ want' = wanted
         /\ progress' = IF wanted THEN "Receiving" ELSE "Finished"
<1>1. CASE wanted = TRUE
  <2>1. /\ progress' = "Receiving" /\ want' = TRUE /\ pending' \in BOOLEAN
        /\ request'.op = "read" /\ request'.fd = connection'
    <3>1. ToReceiving(TRUE)
      BY <1>1, Zenon
    <3>2. progress' = "Receiving" /\ want' = TRUE /\ Submit("read", 0, ChunkSize)
      BY <3>1, Zenon DEF ToReceiving
    <3> QED BY <3>2 DEF Submit, Submitted
  <2>2. LayerTypes'
    BY <2>1, Sizes DEF LayerTypes
  <2>3. StreamNow'
    BY <2>1 DEF StreamNow
  <2> QED BY <1>1, <2>1, <2>2, <2>3 DEF Stream, Live
<1>2. CASE wanted = FALSE
  <2>1. progress' = "Finished" /\ want' = FALSE /\ pending' = FALSE
    <3>1. ToReceiving(FALSE)
      BY <1>2, Zenon
    <3> QED BY <3>1, Zenon DEF ToReceiving
  <2>2. LayerTypes'
    <3>1. want' \in BOOLEAN /\ pending' \in BOOLEAN
      BY <2>1, Zenon
    <3>2. bio' \in 0..ChunkSize /\ wire' \in Nat
      BY Sizes
    <3> QED BY <2>1, <3>1, <3>2 DEF LayerTypes
  <2>3. StreamNow'
    <3>1. wire' + bio' = made'
      <4>1. \A m \in Nat : m + 0 = m
        OBVIOUS
      <4> QED BY <4>1, Zenon
    <3> QED BY <2>1, <3>1, Zenon DEF StreamNow
  <2> QED BY <1>2, <2>1, <2>2, <2>3 DEF Stream, Live
<1> QED BY <1>1, <1>2

\* process() after an operation of SSL that wrote n units.
LEMMA Processed ==
  ASSUME LayerTypes, StreamNow, progress \in {"Init", "Finished"}, NEW n \in Nat,
         bio + n <= ChunkSize, NEW wanted \in BOOLEAN, Process(n, wanted),
         UNCHANGED <<wire, broken, connection>>, state' \in Live
  PROVE  /\ LayerTypes' /\ Stream' /\ want' = wanted /\ bio' = 0
         /\ bio + n > 0 \/ ~wanted => progress' # "Receiving"
<1>1. /\ made' = made + n /\ bio' = 0 /\ networkBioRead' = bio + n /\ socketWrite' = 0
  BY DEF Process
<1>2. /\ bio \in Nat /\ made \in Nat /\ wire \in Nat /\ wire + bio = made
      /\ broken \in BOOLEAN /\ made' \in Nat /\ bio + n \in 0..ChunkSize
  BY <1>1, Sizes DEF LayerTypes, StreamNow
<1>3. CASE bio + n > 0
  <2>1. /\ progress' = "Sending" /\ want' = wanted
        /\ Submit("write", made' - (bio + n), bio + n)
    BY <1>3 DEF Process
  <2>2. /\ request'.op = "write" /\ request'.fd = connection'
        /\ request'.from = made' - (bio + n) /\ request'.length = bio + n
        /\ pending' \in BOOLEAN
    BY <2>1 DEF Submit, Submitted
  <2>3. request'.from = wire' /\ request'.length = made' - wire'
    BY <1>1, <1>2, <2>2
  <2>4. /\ networkBioRead' \in 0..ChunkSize /\ socketWrite' \in 0..networkBioRead'
        /\ wire' + (networkBioRead' - socketWrite') = made'
        /\ wire' \in Nat /\ broken' \in BOOLEAN /\ want' \in BOOLEAN
    BY <1>1, <1>2, <2>1
  <2>5. LayerTypes' /\ Stream'
    BY <1>1, <1>2, <2>1, <2>2, <2>3, <2>4, WaitsToWrite
  <2> QED BY <1>1, <2>1, <2>5
<1>4. CASE ~(bio + n > 0)
  <2>1. ToReceiving(wanted) /\ n = 0 /\ bio = 0
    BY <1>2, <1>4 DEF Process
  <2>2. /\ networkBioRead' \in 0..ChunkSize /\ socketWrite' \in 0..networkBioRead'
        /\ wire' = made' /\ broken' \in BOOLEAN /\ connection' = connection
    BY <1>1, <1>2, <2>1
  <2>3. /\ LayerTypes' /\ Stream' /\ want' = wanted
        /\ progress' = IF wanted THEN "Receiving" ELSE "Finished"
    BY <1>1, <1>2, <2>1, <2>2, ReceivesOrEnds
  <2> QED BY <1>1, <1>4, <2>3
<1> QED BY <1>3, <1>4

-----------------------------------------------------------------------------
(* The completions of the layer's I/O                                      *)

\* An I/O of the layer leaves the message and the session alone.
LEMMA LayerStep ==
  ASSUME HInv, LayerTypes', Stream', bio' \in {bio, 0}, failureCode' \subseteq Bits,
         progress' \in {"Sending", "Receiving"} => inbox = 0,
         state \in Asking => want' = FALSE /\ progress' # "Receiving",
         UNCHANGED <<state, failures, sendBufferOffset, receiveBufferOffset, info, buffer,
                     connection, answer, response, taken, tries, returned, capacity>>,
         UNCHANGED session
  PROVE  HInv'
<1>1. UNCHANGED <<todo, handshake, inbox, closed, closing>>
  BY DEF session
<1>2. Session'
  BY <1>1, SessionKept
<1>3. MessageTypes' /\ Answer'
  BY MessageKept
<1> QED BY <1>2, <1>3 DEF HInv

\* What is asked for while the request is written.
LEMMA Unasked ==
  ASSUME HInv, state \in Asking PROVE want = FALSE /\ progress # "Receiving"
BY DEF HInv, Session

LEMMA RestStep ==
  ASSUME HInv, Writing, NEW written \in 0..networkBioRead, WriteRest(written),
         socketWrite' = written, wire' = wire + (written - socketWrite),
         written >= socketWrite, broken' \in BOOLEAN,
         UNCHANGED <<message, networkBioRead, bio, made, session, capacity>>
  PROVE  HInv'
<1>1. /\ pending /\ progress = "Sending"
      /\ UNCHANGED <<state, failures, failureCode, sendBufferOffset, receiveBufferOffset,
                     info, buffer, connection, answer, response, taken, tries, returned>>
  BY DEF Writing, message
<1>2. /\ state \in Live /\ bio = 0 /\ inbox = 0
      /\ wire + (networkBioRead - socketWrite) = made
  BY <1>1, Working
<1>3. /\ networkBioRead \in 0..ChunkSize /\ socketWrite \in 0..networkBioRead
      /\ made \in Nat /\ wire \in Nat /\ want \in BOOLEAN /\ failureCode \subseteq Bits
  BY DEF HInv, LayerTypes, MessageTypes
<1>4. /\ progress' = "Sending" /\ want' = want /\ pending' \in BOOLEAN
      /\ request'.op = "write" /\ request'.fd = connection'
      /\ request'.from = made - networkBioRead + written
      /\ request'.length = networkBioRead - written
  BY <1>1 DEF WriteRest, Submit, Submitted
<1>5. /\ wire' \in Nat /\ wire' + (networkBioRead - written) = made
      /\ made - networkBioRead + written = wire'
      /\ networkBioRead - written = made - wire'
  BY <1>2, <1>3, Sizes
<1>6. LayerTypes' /\ Stream'
  <2>1. /\ networkBioRead' \in 0..ChunkSize /\ socketWrite' \in 0..networkBioRead'
        /\ bio' = 0 /\ made' \in Nat /\ state' \in Live
        /\ wire' + (networkBioRead' - socketWrite') = made'
        /\ request'.from = wire' /\ request'.length = made' - wire'
    BY <1>1, <1>2, <1>3, <1>4, <1>5
  <2> QED BY <1>3, <1>4, <1>5, <2>1, WaitsToWrite
<1>7. state \in Asking => want' = FALSE /\ progress' # "Receiving"
  BY <1>4, Unasked
<1> QED BY <1>1, <1>2, <1>3, <1>4, <1>6, <1>7, LayerStep

LEMMA WriteDoneStep ==
  ASSUME HInv, NEW n \in 1..ChunkSize, WriteDone(n) PROVE HInv'
<1>1. /\ Writing /\ pending /\ progress = "Sending" /\ n <= request.length
      /\ wire' = wire + n /\ socketWrite' = socketWrite + n
      /\ UNCHANGED <<message, broken, networkBioRead, bio, made, session, capacity>>
  BY DEF WriteDone, Writing
<1>2. /\ state \in Live /\ bio = 0 /\ inbox = 0
      /\ wire + (networkBioRead - socketWrite) = made
      /\ request.length = networkBioRead - socketWrite
  BY <1>1, Working
<1>3. /\ networkBioRead \in 0..ChunkSize /\ socketWrite \in 0..networkBioRead
      /\ made \in Nat /\ wire \in Nat /\ failureCode \subseteq Bits
  BY DEF HInv, LayerTypes, MessageTypes
<1>4. want \in BOOLEAN /\ broken' \in BOOLEAN
  BY <1>1, Zenon DEF HInv, LayerTypes
<1>5. /\ socketWrite + n \in 0..networkBioRead
      /\ wire' = wire + ((socketWrite + n) - socketWrite) /\ socketWrite + n >= socketWrite
  BY <1>1, <1>2, <1>3, Sizes
<1>6. CASE socketWrite + n # networkBioRead
  <2>1. WriteRest(socketWrite + n)
    BY <1>1, <1>6 DEF WriteDone
  <2> QED BY <1>1, <1>4, <1>5, <2>1, RestStep
<1>7. CASE socketWrite + n = networkBioRead
  <2>1. ToReceiving(want)
    BY <1>1, <1>7 DEF WriteDone
  <2>2. wire + n = made
    BY <1>2, <1>3, <1>7, Sizes
  <2>3. UNCHANGED <<state, failures, failureCode, sendBufferOffset, receiveBufferOffset,
                    info, buffer, connection, answer, response, taken, tries, returned,
                    capacity>>
    BY <1>1 DEF message
  <2>4. /\ networkBioRead' \in 0..ChunkSize /\ socketWrite' \in 0..networkBioRead'
        /\ bio' = 0 /\ made' \in Nat /\ wire' = made' /\ state' \in Live
    BY <1>1, <1>2, <1>3, <1>5, <2>2, <2>3
  <2>5. /\ LayerTypes' /\ Stream' /\ want' = want
        /\ progress' = IF want THEN "Receiving" ELSE "Finished"
    BY <1>4, <2>1, <2>3, <2>4, ReceivesOrEnds
  <2>6. state \in Asking => want' = FALSE /\ progress' # "Receiving"
    BY <2>5, Unasked
  <2> QED BY <1>1, <1>2, <1>3, <2>3, <2>4, <2>5, <2>6, LayerStep
<1> QED BY <1>6, <1>7

LEMMA WriteAgainStep ==
  ASSUME HInv, WriteAgain \/ WriteFails PROVE HInv'
<1>1. /\ Writing /\ WriteRest(socketWrite) /\ broken' \in {broken, TRUE}
      /\ UNCHANGED <<message, wire, socketWrite, networkBioRead, bio, made, session,
                     capacity>>
  BY DEF WriteAgain, WriteFails
<1>2. /\ socketWrite \in 0..networkBioRead /\ networkBioRead \in 0..ChunkSize
      /\ wire \in Nat
  BY DEF HInv, LayerTypes
<1>3. broken' \in BOOLEAN
  BY <1>1, Zenon DEF HInv, LayerTypes
<1>4. wire' = wire + (socketWrite - socketWrite) /\ socketWrite >= socketWrite
  BY <1>1, <1>2, Sizes
<1> QED BY <1>1, <1>2, <1>3, <1>4, RestStep

\* The layer gives up: nothing is under way, and execute() will see it.
LEMMA GivesUp ==
  ASSUME HInv, pending, progress' = "Aborted", pending' = FALSE,
         failureCode' \subseteq Bits, broken' \in BOOLEAN,
         UNCHANGED <<state, failures, sendBufferOffset, receiveBufferOffset, info, buffer,
                     connection, answer, response, taken, tries, returned, wire,
                     networkBioRead, socketWrite, want, bio, made, session, capacity>>
  PROVE  HInv'
<1>1. state \in Live /\ want \in BOOLEAN
  BY Working DEF HInv, LayerTypes
<1>2. LayerTypes'
  BY DEF HInv, LayerTypes
<1>3. Stream'
  BY <1>1 DEF Stream, StreamNow, Live
<1>4. state \in Asking => want' = FALSE /\ progress' # "Receiving"
  BY Unasked
<1> QED BY <1>1, <1>2, <1>3, <1>4, LayerStep

LEMMA WriteInterruptedStep ==
  ASSUME HInv, WriteInterrupted PROVE HInv'
<1>1. /\ pending /\ progress' = "Aborted" /\ pending' = FALSE
      /\ UNCHANGED <<state, failures, failureCode, sendBufferOffset, receiveBufferOffset,
                     info, buffer, connection, answer, response, taken, tries, returned,
                     wire, broken, networkBioRead, socketWrite, want, bio, made, session,
                     capacity>>
  BY DEF WriteInterrupted, Writing, message
<1>2. failureCode' \subseteq Bits
  BY <1>1 DEF HInv, MessageTypes
<1>3. broken' \in BOOLEAN
  BY <1>1 DEF HInv, LayerTypes
<1> QED BY <1>1, <1>2, <1>3, GivesUp

LEMMA ReadFailsStep ==
  ASSUME HInv, NEW bit \in {"Empty", "Timeout", "Recv"}, ReadFails(bit) PROVE HInv'
<1>1. /\ pending /\ progress' = "Aborted" /\ pending' = FALSE
      /\ failureCode' = failureCode \cup {bit}
      /\ UNCHANGED <<state, failures, sendBufferOffset, receiveBufferOffset,
                     info, buffer, connection, answer, response, taken, tries, returned,
                     wire, broken, networkBioRead, socketWrite, want, bio, made, session,
                     capacity>>
  BY DEF ReadFails, Reading, peer
<1>2. failureCode' \subseteq Bits
  BY <1>1 DEF HInv, MessageTypes, Bits
<1>3. broken' \in BOOLEAN
  BY <1>1 DEF HInv, LayerTypes
<1> QED BY <1>1, <1>2, <1>3, GivesUp

LEMMA ReadAgainStep ==
  ASSUME HInv, ReadAgain PROVE HInv'
<1>1. /\ pending /\ progress = "Receiving" /\ ToReceiving(want)
      /\ UNCHANGED <<state, failures, failureCode, sendBufferOffset, receiveBufferOffset,
                     info, buffer, connection, answer, response, taken, tries, returned,
                     wire, broken, networkBioRead, socketWrite, bio, made, session,
                     capacity>>
  BY DEF ReadAgain, Reading, message
<1>2. state \in Live /\ bio = 0 /\ inbox = 0 /\ wire = made
  BY <1>1, Working
<1>3. want \in BOOLEAN /\ broken' \in BOOLEAN
  BY <1>1 DEF HInv, LayerTypes
<1>4. /\ networkBioRead' \in 0..ChunkSize /\ socketWrite' \in 0..networkBioRead'
      /\ bio' = 0 /\ made' \in Nat /\ wire' = made' /\ state' \in Live
      /\ failureCode' \subseteq Bits
  BY <1>1, <1>2 DEF HInv, LayerTypes, MessageTypes
<1>5. LayerTypes' /\ Stream'
  BY <1>1, <1>3, <1>4, ReceivesOrEnds
<1>6. state \notin Asking
  BY <1>1, Unasked
<1> QED BY <1>1, <1>2, <1>4, <1>5, <1>6, LayerStep

\* Input goes to the SSL object that asked for it: of the handshake at most one
\* message, of the answer no more than there is.
LEMMA ReadDoneStep ==
  ASSUME HInv, NEW n \in 0..ChunkSize, NEW last \in BOOLEAN, ReadDone(n, last) PROVE HInv'
<1>1. /\ pending /\ progress = "Receiving" /\ inbox' = inbox + n
      /\ progress' = "Finished" /\ want' = FALSE /\ pending' = FALSE
      /\ UNCHANGED <<state, failures, failureCode, sendBufferOffset, receiveBufferOffset,
                     info, buffer, connection, answer, response, taken, tries, returned,
                     wire, broken, networkBioRead, socketWrite, bio, made, todo, handshake,
                     closing, capacity>>
  BY DEF ReadDone, Reading, message
<1>2. closed' = (closed \/ last)
  BY DEF ReadDone
<1>3. n + inbox <= CASE state = "TLSHandshake" -> 1
                     [] state = "TLSShutdown" -> 0
                     [] OTHER -> Length(response) - taken
  BY DEF ReadDone
<1>4. state \in Live /\ bio = 0 /\ inbox = 0 /\ wire = made /\ state \notin Asking
  BY <1>1, Working, Unasked
<1>5. LayerTypes' /\ failureCode' \subseteq Bits
  <2>1. want' \in BOOLEAN /\ pending' \in BOOLEAN /\ broken' \in BOOLEAN
    BY <1>1, Zenon DEF HInv, LayerTypes
  <2> QED BY <1>1, <2>1 DEF HInv, LayerTypes, MessageTypes
<1>6. Stream'
  <2>1. wire' + bio' = made'
    BY <1>1, <1>4 DEF HInv, LayerTypes
  <2>2. StreamNow'
    BY <1>1, <2>1, Zenon DEF StreamNow
  <2>3. state' \in Live /\ state' # "Init"
    BY <1>1, <1>4 DEF Live
  <2> QED BY <2>2, <2>3 DEF Stream
<1>7. Session'
  <2>1. closed' \in BOOLEAN /\ closing' \in BOOLEAN
    BY <1>1, <1>2, Zenon DEF HInv, Session
  <2>2. inbox' = n /\ n \in 0..ChunkSize /\ n \in Nat
    BY <1>1, <1>4, Sizes
  <2>3. state = "TLSHandshake" => n <= 1
    BY <1>3, <1>4, <2>2
  <2>4. state = "TLSShutdown" => n = 0
    BY <1>3, <1>4, <2>2
  <2>5. state = "Receiving" => taken + n <= Length(response)
    <3>1. taken \in Nat /\ Length(response) \in Nat
      BY Sizes DEF HInv, MessageTypes
    <3> QED BY <1>3, <1>4, <2>2, <3>1
  <2>6. todo' \in 0..Total /\ handshake' \in 0..Flights
    BY <1>1 DEF HInv, Session
  <2>7. /\ state' = "TLSHandshake" =>
             bio' = 0 /\ handshake' < Flights /\ inbox' <= 1 /\ taken' = 0
        /\ state' \in {"Receiving", "TLSShutdown"} => bio' = 0
    BY <1>1, <2>2, <2>3 DEF HInv, Session
  <2>8. state' \in Answering => taken' + inbox' <= Length(response')
    BY <1>1, <1>4, <2>2, <2>5 DEF Answering, Asking
  <2> QED
    BY <1>1, <1>4, <2>1, <2>2, <2>4, <2>6, <2>7, <2>8 DEF Session
<1>8. MessageTypes' /\ Answer'
  BY <1>1, <1>5, MessageKept
<1> QED BY <1>5, <1>6, <1>7, <1>8 DEF HInv

-----------------------------------------------------------------------------
(* The operations of SSL                                                   *)

\* An operation is called when nothing is under way and all but the BIO is sent.
LEMMA Calling ==
  ASSUME HInv, Callable, state \in Live
  PROVE  /\ pending = FALSE /\ StreamNow /\ wire + bio = made /\ want = FALSE
         /\ answer # None => state = "TLSShutdown"
         /\ returned \in {"none", "closed"} /\ connection = tries
<1>1. progress \in {"Init", "Finished"} /\ StreamNow
  BY DEF Callable, HInv, Stream
<1>2. pending = FALSE
  BY Zenon DEF Callable, HInv, LayerTypes
<1>3. wire + bio = made /\ want = FALSE
  BY <1>1 DEF StreamNow
<1>4. answer # None => state = "TLSShutdown"
  BY DEF HInv, Answer, Live
<1>5. returned \in {"none", "closed"} /\ connection = tries
  BY DEF HInv, MessageTypes, Answer
<1> QED BY <1>1, <1>2, <1>3, <1>4, <1>5

\* An operation that needs no I/O leaves what it wrote in the BIO.
LEMMA StaysInBio ==
  ASSUME HInv, Callable, state \in Live, state' \in Live, NEW n \in Nat,
         bio + n <= ChunkSize, bio' = bio + n, made' = made + n,
         UNCHANGED <<pending, request, wire, broken, progress, networkBioRead, socketWrite,
                     want>>
  PROVE  LayerTypes' /\ Stream'
<1>1. pending = FALSE /\ wire + bio = made /\ want = FALSE
  BY Calling
<1>2. /\ bio \in Nat /\ made \in Nat /\ wire \in Nat /\ bio' \in 0..ChunkSize
      /\ made' \in Nat /\ wire' + bio' = made'
  BY <1>1, Sizes DEF HInv, LayerTypes
<1>3. LayerTypes'
  <2>1. want' \in BOOLEAN /\ pending' \in BOOLEAN /\ broken' \in BOOLEAN
    BY Zenon DEF HInv, LayerTypes
  <2> QED BY <1>2, <2>1 DEF HInv, LayerTypes
<1>4. progress' \in {"Init", "Finished"} /\ pending' = FALSE /\ want' = FALSE
  BY <1>1, Zenon DEF Callable
<1>5. StreamNow'
  <2>1. progress' # "Sending" /\ progress' # "Receiving"
    BY <1>4
  <2> QED BY <1>2, <1>4, <2>1, Zenon DEF StreamNow
<1>6. state' # "Init"
  BY DEF Live
<1> QED BY <1>3, <1>5, <1>6 DEF Stream

\* Up to the answer nothing of the message depends on how far it is.
LEMMA StillAsking ==
  ASSUME HInv, state \in Live \ {"TLSShutdown"}, state' \in {"InitSending", "Sending"},
         sendBufferOffset' \in 0..Total,
         UNCHANGED <<failures, failureCode, receiveBufferOffset, info, buffer, connection,
                     answer, response, taken, tries, returned, capacity>>
  PROVE  MessageTypes' /\ Answer'
<1>1. state' \in Live
  BY DEF Live
<1>2. MessageTypes'
  BY <1>1 DEF HInv, MessageTypes, Owned
<1>3. answer = None
  BY DEF HInv, Answer, Live
<1>4. Answer'
  BY <1>1, <1>3 DEF HInv, MessageTypes, Answer, Answering, AnswerIsWhole, ReturnedClosed, Ended
<1> QED BY <1>2, <1>4

LEMMA SslConnectWantsStep ==
  ASSUME HInv, NEW n \in 0..1, SslConnectWants(n) PROVE HInv'
<1>1. /\ Callable /\ state = "TLSHandshake" /\ handshake + inbox < Flights
      /\ handshake' = handshake + inbox /\ inbox' = 0 /\ Process(n, TRUE)
      /\ UNCHANGED <<state, failures, failureCode, sendBufferOffset, receiveBufferOffset,
                     info, buffer, connection, answer, response, taken, tries, returned,
                     wire, broken, todo, closed, closing, capacity>>
  BY DEF SslConnectWants, Connecting, message
<1>2. state \in Live /\ state' \in Live
  BY <1>1 DEF Live
<1>3. /\ bio = 0 /\ taken = 0 /\ handshake \in 0..Flights /\ inbox \in 0..ChunkSize
      /\ Flights \in Nat
  BY <1>1, FlightsAssumption DEF HInv, Session
<1>4. n \in Nat /\ bio + n <= ChunkSize
  BY <1>3, Sizes
<1>5. StreamNow /\ progress \in {"Init", "Finished"} /\ LayerTypes
  BY <1>1, <1>2, Calling DEF Callable, HInv
<1>6. LayerTypes' /\ Stream' /\ bio' = 0
  BY <1>1, <1>2, <1>4, <1>5, Processed
<1>7. Session'
  <2>1. closed' \in BOOLEAN /\ closing' \in BOOLEAN
    BY <1>1, Zenon DEF HInv, Session
  <2>2. /\ handshake' \in 0..Flights /\ handshake' < Flights
        /\ inbox' \in 0..ChunkSize /\ inbox' <= 1
    BY <1>1, <1>3, Sizes
  <2> QED
    BY <1>1, <1>3, <1>6, <2>1, <2>2 DEF HInv, Session, Asking, Answering
<1>8. MessageTypes' /\ Answer'
  <2>1. failureCode' \subseteq Bits
    BY <1>1 DEF HInv, MessageTypes
  <2> QED BY <1>1, <2>1, MessageKept
<1> QED BY <1>6, <1>7, <1>8 DEF HInv

LEMMA SslConnectedStep ==
  ASSUME HInv, NEW n \in 0..1, SslConnected(n) PROVE HInv'
<1>1. /\ Callable /\ state = "TLSHandshake" /\ state' = "InitSending"
      /\ handshake' = handshake + inbox /\ inbox' = 0
      /\ bio' = bio + n /\ made' = made + n
      /\ UNCHANGED <<failures, failureCode, sendBufferOffset, receiveBufferOffset,
                     info, buffer, connection, answer, response, taken, tries, returned,
                     pending, request, wire, broken, progress, networkBioRead, socketWrite,
                     want, todo, closed, closing, capacity>>
  BY DEF SslConnected, Connecting
<1>2. state \in Live \ {"TLSShutdown"} /\ state' \in Live
  BY <1>1 DEF Live
<1>3. /\ bio = 0 /\ taken = 0 /\ handshake \in 0..Flights /\ inbox \in 0..ChunkSize
      /\ handshake < Flights /\ inbox <= 1 /\ Flights \in Nat
  BY <1>1, FlightsAssumption DEF HInv, Session
<1>4. n \in Nat /\ bio + n <= ChunkSize
  BY <1>3, Sizes
<1>5. LayerTypes' /\ Stream'
  BY <1>1, <1>2, <1>4, StaysInBio
<1>6. Session'
  <2>1. closed' \in BOOLEAN /\ closing' \in BOOLEAN
    BY <1>1, Zenon DEF HInv, Session
  <2>2. handshake' \in 0..Flights /\ inbox' \in 0..ChunkSize /\ todo' \in 0..Total
    BY <1>1, <1>3, Sizes DEF HInv, Session
  <2>3. want' = FALSE /\ progress' # "Receiving"
    BY <1>1, <1>2, Calling DEF Callable
  <2> QED
    BY <1>1, <1>3, <2>1, <2>2, <2>3 DEF Session, Asking, Answering
<1>7. MessageTypes' /\ Answer'
  <2>1. sendBufferOffset' \in 0..Total /\ state' \in {"InitSending", "Sending"}
    BY <1>1 DEF HInv, MessageTypes
  <2> QED BY <1>1, <1>2, <2>1, StillAsking
<1> QED BY <1>5, <1>6, <1>7 DEF HInv

\* What is still to write of the part that SSL was given.
LEMMA PartFacts ==
  ASSUME HInv
  PROVE  /\ Part \in Nat /\ sendBufferOffset + Part \in 0..Total
         /\ Unwritten \in 0..Total /\ BioRoom \in 0..ChunkSize
<1>1. /\ sendBufferOffset \in 0..Total /\ todo \in 0..Total /\ bio \in 0..ChunkSize
  BY DEF HInv, MessageTypes, Session, LayerTypes
<1>2. Part \in 0..Total /\ sendBufferOffset + Part \in 0..Total
  BY <1>1, Sizes DEF Part
<1>3. Unwritten \in 0..Total
  BY <1>1, <1>2 DEF Unwritten
<1>4. BioRoom \in 0..ChunkSize
  BY <1>1, Sizes DEF BioRoom
<1> QED BY <1>2, <1>3, <1>4, Sizes

LEMMA SslWritesStep ==
  ASSUME HInv, SslWrites PROVE HInv'
<1>1. /\ Callable /\ state \in {"InitSending", "Sending"} /\ Unwritten <= BioRoom
      /\ bio' = bio + Unwritten /\ made' = made + Unwritten /\ todo' = 0
      /\ sendBufferOffset' = sendBufferOffset + Part
      /\ \/ state' = "InitReceiving" /\ receiveBufferOffset' = 0 /\ buffer' = <<>>
         \/ UNCHANGED <<state, receiveBufferOffset, buffer>>
      /\ UNCHANGED <<failures, failureCode, info, connection, answer, response, taken,
                     tries, returned, pending, request, wire, broken, progress,
                     networkBioRead, socketWrite, want, handshake, inbox, closed,
                     closing, capacity>>
  BY DEF SslWrites, Sending
<1>2. /\ state \in Live \ {"TLSShutdown"} /\ state' \in Live /\ state \in Asking
      /\ state' \in Asking
  BY <1>1 DEF Live, Asking
<1>3. inbox = 0 /\ taken = 0 /\ want = FALSE /\ progress # "Receiving"
  BY <1>2 DEF HInv, Session
<1>4. /\ Unwritten \in Nat /\ bio + Unwritten <= ChunkSize
      /\ sendBufferOffset' \in 0..Total
  <2>1. bio \in 0..ChunkSize /\ Unwritten \in 0..Total /\ BioRoom \in 0..ChunkSize
    BY PartFacts DEF HInv, LayerTypes
  <2>2. bio + BioRoom = ChunkSize
    BY <2>1, Sizes DEF BioRoom
  <2> QED BY <1>1, <2>1, <2>2, Sizes, PartFacts
<1>5. LayerTypes' /\ Stream'
  BY <1>1, <1>2, <1>4, StaysInBio
<1>6. Session'
  <2>1. todo' \in 0..Total /\ taken' + inbox' = 0 /\ Length(response') \in Nat
    BY <1>1, <1>3, Sizes DEF HInv, MessageTypes
  <2>2. state' \in {"InitSending", "Sending", "InitReceiving"}
    BY <1>2 DEF Asking
  <2> QED BY <1>1, <1>3, <2>1, <2>2, Sizes DEF HInv, Session, Answering, Asking
<1>7. MessageTypes' /\ Answer'
  <2>1. CASE state' = "InitReceiving" /\ receiveBufferOffset' = 0 /\ buffer' = <<>>
    <3>1. <<>> \in Seq(Cells) /\ Len(<<>>) = 0
      BY EmptySeq
    <3>2. MessageTypes'
      <4>1. buffer' \in Seq(Cells) /\ Len(buffer') = 0 /\ capacity \in Nat
        BY <2>1, <3>1 DEF HInv, MessageTypes
      <4> QED BY <1>1, <1>2, <1>4, <2>1, <4>1 DEF HInv, MessageTypes
    <3>3. answer' = None
      BY <1>1, <1>2 DEF HInv, Answer, Live
    <3>4. ReturnedClosed'
      BY <3>2, <2>1 DEF MessageTypes, ReturnedClosed, Ended
    <3> QED
      BY <1>1, <1>2, <1>3, <2>1, <3>2, <3>3, <3>4 DEF HInv, Answer, AnswerIsWhole
  <2>2. CASE UNCHANGED <<state, receiveBufferOffset, buffer>>
    BY <1>1, <1>2, <1>4, <2>2, StillAsking
  <2> QED BY <1>1, <2>1, <2>2
<1> QED BY <1>5, <1>6, <1>7 DEF HInv

LEMMA SslWriteWantsStep ==
  ASSUME HInv, SslWriteWants PROVE HInv'
<1>1. /\ Callable /\ state \in {"InitSending", "Sending"} /\ Unwritten > BioRoom
      /\ todo' = Unwritten - BioRoom /\ state' = "Sending" /\ Process(BioRoom, FALSE)
      /\ UNCHANGED <<failures, failureCode, sendBufferOffset, receiveBufferOffset, info,
                     buffer, connection, answer, response, taken, tries, returned, wire,
                     broken, handshake, inbox, closed, closing, capacity>>
  BY DEF SslWriteWants, Sending
<1>2. state \in Live \ {"TLSShutdown"} /\ state' \in Live /\ state \in Asking
  BY <1>1 DEF Live, Asking
<1>3. inbox = 0 /\ taken = 0
  BY <1>2 DEF HInv, Session
<1>4. BioRoom \in Nat /\ bio + BioRoom = ChunkSize /\ todo' \in 0..Total
  <2>1. bio \in 0..ChunkSize /\ Unwritten \in 0..Total /\ BioRoom \in 0..ChunkSize
    BY PartFacts DEF HInv, LayerTypes
  <2>2. bio + BioRoom = ChunkSize
    BY <2>1, Sizes DEF BioRoom
  <2> QED BY <1>1, <2>1, <2>2, Sizes
<1>5. StreamNow /\ progress \in {"Init", "Finished"} /\ LayerTypes
  BY <1>1, <1>2, Calling DEF Callable, HInv
<1>6. LayerTypes' /\ Stream' /\ want' = FALSE /\ bio' = 0 /\ progress' # "Receiving"
  <2>1. bio + BioRoom <= ChunkSize
    BY <1>4, Sizes
  <2> QED BY <1>1, <1>2, <1>4, <1>5, <2>1, Processed
<1>7. Session'
  BY <1>1, <1>3, <1>4, <1>6 DEF HInv, Session, Asking, Answering
<1>8. MessageTypes' /\ Answer'
  <2>1. sendBufferOffset' \in 0..Total /\ state' \in {"InitSending", "Sending"}
    BY <1>1 DEF HInv, MessageTypes
  <2> QED BY <1>1, <1>2, <2>1, StillAsking
<1> QED BY <1>6, <1>7, <1>8 DEF HInv

\* The places for a read are behind what was received and within the buffer.
LEMMA PlacesFacts ==
  ASSUME HInv, Receiving, ~Full
  PROVE  /\ Places \in Seq(Cells) /\ receiveBufferOffset <= Len(Places)
         /\ (Owned \/ Len(Places) <= capacity)
         /\ \A i \in 1..receiveBufferOffset : Places[i] = buffer[i]
<1>1. /\ buffer \in Seq(Cells) /\ receiveBufferOffset \in Nat /\ capacity \in Nat
      /\ receiveBufferOffset <= Len(buffer) /\ (Owned \/ Len(buffer) <= capacity)
      /\ Len(buffer) \in Nat
  BY LenProperties DEF HInv, MessageTypes
<1>2. CASE Reserved > 0
  <2>1. Places = buffer
    BY <1>2 DEF Places
  <2> QED BY <1>1, <2>1
<1>3. CASE ~(Reserved > 0)
  <2> DEFINE room == IF Owned THEN ChunkSize ELSE Smaller(ChunkSize, capacity - receiveBufferOffset)
  <2>1. Len(buffer) = receiveBufferOffset
    <3>1. CASE state = "InitReceiving"
      <4>1. buffer = <<>>
        BY <3>1 DEF HInv, Answer
      <4>2. Len(buffer) = 0
        BY <4>1, EmptySeq
      <4> QED BY <1>1, <4>2
    <3>2. CASE state # "InitReceiving"
      BY <1>1, <1>3, <3>2 DEF Reserved
    <3> QED BY <3>1, <3>2
  <2>2. Reserved = 0
    BY <1>1, <2>1 DEF Reserved
  <2>3. Owned \/ capacity > receiveBufferOffset
    BY <1>1, <2>2 DEF Full
  <2>4. /\ room \in Nat
        /\ Owned \/ receiveBufferOffset + room <= capacity
    BY <1>1, <2>3, Sizes DEF Smaller
  <2>5. Places = Grown(buffer, room)
    BY <1>3 DEF Places
  <2> HIDE DEF room
  <2>6. /\ Places \in Seq(Cells) /\ Len(Places) = Len(buffer) + room
        /\ \A i \in 1..Len(buffer) : Places[i] = buffer[i]
    BY <1>1, <2>4, <2>5, GrownFacts
  <2> QED BY <1>1, <2>1, <2>4, <2>6
<1> QED BY <1>2, <1>3

LEMMA SslReadWantsStep ==
  ASSUME HInv, SslReadWants PROVE HInv'
<1>1. /\ Callable /\ Receiving /\ ~Full /\ state \in {"InitReceiving", "Receiving"}
      /\ inbox = 0 /\ state' = "Receiving" /\ buffer' = Places /\ Process(0, TRUE)
      /\ UNCHANGED <<failures, failureCode, sendBufferOffset, receiveBufferOffset, info,
                     connection, answer, response, taken, tries, returned, wire, broken,
                     todo, handshake, inbox, closed, closing, capacity>>
  BY DEF SslReadWants, Receiving, peer, session
<1>2. state \in Live /\ state' \in Live /\ state \in Answering
  BY <1>1 DEF Live, Answering
<1>3. bio + 0 <= ChunkSize
  BY Sizes DEF HInv, LayerTypes
<1>4. StreamNow /\ progress \in {"Init", "Finished"} /\ LayerTypes
  BY <1>1, <1>2, Calling DEF Callable, HInv
<1>5. LayerTypes' /\ Stream' /\ bio' = 0
  BY <1>1, <1>2, <1>3, <1>4, Processed
<1>6. Session'
  <2>1. taken' + inbox' <= Length(response')
    BY <1>1, <1>2 DEF HInv, Session
  <2> QED BY <1>1, <1>5, <2>1 DEF HInv, Session, Asking
<1>7. /\ Places \in Seq(Cells) /\ receiveBufferOffset <= Len(Places)
      /\ (Owned \/ Len(Places) <= capacity)
      /\ \A j \in 1..receiveBufferOffset : Places[j] = buffer[j]
  BY <1>1, PlacesFacts
<1>8. MessageTypes'
  BY <1>1, <1>2, <1>7 DEF HInv, MessageTypes, Owned
<1>9. Answer'
  <2>1. receiveBufferOffset = taken /\ \A i \in 1..taken : buffer[i] = <<tries, i>>
    BY <1>2 DEF HInv, Answer
  <2>2. \A i \in 1..taken : Places[i] = <<tries, i>>
    BY <1>7, <2>1
  <2>3. answer' = None /\ connection' = tries' /\ info' \in {None, response'}
    BY <1>1, <1>2 DEF HInv, Answer
  <2>4. \A i \in 1..taken' : buffer'[i] = <<tries', i>>
    BY <1>1, <2>2
  <2>5. AnswerIsWhole' /\ ReturnedClosed'
    BY <1>1, <2>3, <1>8 DEF AnswerIsWhole, ReturnedClosed, Ended, MessageTypes
  <2> QED BY <1>1, <2>1, <2>3, <2>4, <2>5 DEF Answer
<1> QED BY <1>5, <1>6, <1>8, <1>9 DEF HInv

\* What a read has brought: all of the current connection's answer, in order, and
\* no more than there is or than the buffer takes.
LEMMA ReadFacts ==
  ASSUME HInv, Receiving, ~Full, NEW n \in 1..ChunkSize, n <= inbox,
         n <= Len(Places) - receiveBufferOffset
  PROVE  /\ state = "Receiving" /\ bio = 0 /\ answer = None /\ connection = tries
         /\ n \in Nat /\ inbox - n \in 0..ChunkSize
         /\ receiveBufferOffset + n = taken + n /\ taken + n \in Nat
         /\ taken + n + (inbox - n) <= Length(response)
         /\ Data(n) \in Seq(Cells) /\ Len(Data(n)) = taken + n
         /\ \A i \in 1..(taken + n) : Data(n)[i] = <<tries, i>>
         /\ Owned \/ Len(Data(n)) <= capacity
         /\ info \in {None, response} /\ Parsed = response
<1>1. inbox \in 0..ChunkSize /\ n \in Nat /\ n > 0 /\ n <= inbox
  BY Sizes DEF HInv, Session
<1>2. state = "Receiving"
  <2>1. inbox # 0
    BY <1>1
  <2>2. state \notin Asking
    BY <2>1 DEF HInv, Session
  <2> QED BY <2>2 DEF Receiving, Asking
<1>3. /\ answer = None /\ connection = tries /\ info \in {None, response} /\ bio = 0
      /\ receiveBufferOffset = taken /\ \A i \in 1..taken : buffer[i] = <<tries, i>>
      /\ taken + inbox <= Length(response)
  BY <1>2 DEF HInv, Answer, Session, Live, Answering
<1>4. /\ buffer \in Seq(Cells) /\ taken \in Nat /\ tries \in Nat /\ capacity \in Nat
      /\ taken <= Len(buffer) /\ response \in Responses /\ Length(response) \in Nat
  BY <1>3, Sizes DEF HInv, MessageTypes
<1>5. /\ Data(n) \in Seq(Cells) /\ Len(Data(n)) = taken + n
      /\ \A i \in 1..(taken + n) : Data(n)[i] = <<tries, i>>
  BY <1>1, <1>3, <1>4, DataInOrder
<1>6. Owned \/ taken + n <= capacity
  <2>1. Places \in Seq(Cells) /\ (Owned \/ Len(Places) <= capacity)
    BY PlacesFacts
  <2>2. Len(Places) \in Nat
    BY <2>1, LenProperties
  <2> QED BY <1>1, <1>3, <1>4, <2>1, <2>2
<1>7. /\ receiveBufferOffset + n = taken + n /\ taken + n \in Nat
      /\ inbox - n \in 0..ChunkSize /\ taken + n + (inbox - n) <= Length(response)
  BY <1>1, <1>3, <1>4, Sizes
<1>8. Parsed = response
  BY <1>3 DEF Parsed
<1> QED BY <1>1, <1>2, <1>3, <1>5, <1>6, <1>7, <1>8

\* The layer and the session after a read that keeps the connection.
LEMMA ReadKeepsLayer ==
  ASSUME HInv, Receiving, state = "Receiving", bio = 0,
         state' \in {"Receiving", "TLSShutdown"}, NEW n \in Nat,
         inbox' = inbox - n, inbox' \in 0..ChunkSize, state' = "TLSShutdown" => inbox' = 0,
         taken' + inbox' <= Length(response'),
         UNCHANGED <<pending, request, wire, broken, layer, todo, handshake, closed, closing>>
  PROVE  LayerTypes' /\ Stream' /\ Session'
<1>1. Callable /\ state \in Live /\ state' \in Live
  BY DEF Receiving, Live
<1>2. UNCHANGED <<progress, networkBioRead, socketWrite, want, bio, made>>
  BY DEF layer
<1>3. bio + 0 <= ChunkSize /\ bio' = bio + 0 /\ made' = made + 0
  BY <1>2, Sizes DEF HInv, LayerTypes
<1>4. LayerTypes' /\ Stream'
  BY <1>1, <1>2, <1>3, StaysInBio
<1>5. progress' # "Sending" /\ progress' # "Receiving"
  BY <1>1, <1>2 DEF Callable
<1>6. Session'
  BY <1>2, <1>5 DEF HInv, Session, Asking, Answering
<1> QED BY <1>4, <1>6

LEMMA SslReadsPartStep ==
  ASSUME HInv, NEW n \in 1..ChunkSize, SslReadsPart(n) PROVE HInv'
<1>1. /\ Receiving /\ ~Full /\ n <= inbox /\ n <= Len(Places) - receiveBufferOffset
      /\ taken' = taken + n /\ inbox' = inbox - n
      /\ state' = "Receiving" /\ info' = Parsed
      /\ buffer' = Data(n) /\ receiveBufferOffset' = receiveBufferOffset + n
      /\ UNCHANGED <<failures, failureCode, sendBufferOffset, connection, answer, response,
                     tries, returned, pending, request, wire, broken, layer, todo, handshake,
                     closed, closing, capacity>>
  BY DEF SslReadsPart, SslReads
<1>2. /\ state = "Receiving" /\ bio = 0 /\ answer = None /\ connection = tries
      /\ n \in Nat /\ inbox - n \in 0..ChunkSize
      /\ receiveBufferOffset + n = taken + n /\ taken + n \in Nat
      /\ taken + n + (inbox - n) <= Length(response)
      /\ Data(n) \in Seq(Cells) /\ Len(Data(n)) = taken + n
      /\ \A j \in 1..(taken + n) : Data(n)[j] = <<tries, j>>
      /\ (Owned \/ Len(Data(n)) <= capacity) /\ Parsed = response
  BY <1>1, ReadFacts
<1> HIDE DEF Data
<1>3. LayerTypes' /\ Stream' /\ Session'
  <2>1. taken' + inbox' <= Length(response') /\ inbox' \in 0..ChunkSize
    BY <1>1, <1>2
  <2> QED BY <1>1, <1>2, <2>1, ReadKeepsLayer
<1>4. MessageTypes'
  BY <1>1, <1>2 DEF HInv, MessageTypes, Owned, Live
<1>5. Answer'
  <2>1. AnswerIsWhole' /\ ReturnedClosed'
    BY <1>1, <1>2, <1>4 DEF AnswerIsWhole, ReturnedClosed, Ended, MessageTypes
  <2>2. \A j \in 1..taken' : buffer'[j] = <<tries', j>>
    BY <1>1, <1>2
  <2> QED BY <1>1, <1>2, <2>1, <2>2 DEF Answer
<1> QED BY <1>3, <1>4, <1>5 DEF HInv

\* The places are full of the answer, and of nothing else.
LEMMA WholeAnswer ==
  ASSUME NEW d \in Seq(Cells), NEW k \in Nat, Len(d) = k, NEW t,
         \A i \in 1..k : d[i] = <<t, i>>
  PROVE  d = [i \in 1..k |-> <<t, i>>]
<1>1. d \in [1..k -> Cells]
  BY LenProperties
<1> QED BY <1>1

\* Nothing is under way for a message that has ended.
LEMMA EndedLayer ==
  ASSUME HInv, state' \in {"Finished", "Aborted"}, pending' = FALSE,
         inbox' \in 0..ChunkSize,
         UNCHANGED <<wire, broken, layer, todo, handshake, closed, closing>>
  PROVE  LayerTypes' /\ Stream' /\ Session'
<1>1. UNCHANGED <<progress, networkBioRead, socketWrite, want, bio, made>>
  BY DEF layer
<1>2. LayerTypes'
  <2>1. want' \in BOOLEAN /\ pending' \in BOOLEAN /\ broken' \in BOOLEAN
    BY <1>1, Zenon DEF HInv, LayerTypes
  <2> QED BY <1>1, <2>1 DEF HInv, LayerTypes
<1>3. Stream' /\ Session'
  BY DEF HInv, Stream, Session, Live, Asking, Answering
<1> QED BY <1>2, <1>3

LEMMA SslReadsLastStep ==
  ASSUME HInv, NEW n \in 1..ChunkSize, SslReadsLast(n) PROVE HInv'
<1>1. /\ Receiving /\ ~Full /\ n <= inbox /\ n <= Len(Places) - receiveBufferOffset
      /\ receiveBufferOffset + n >= Length(Parsed)
      /\ taken' = taken + n /\ inbox' = inbox - n
      /\ answer' = Parsed /\ info' = None
      /\ buffer' = Data(n) /\ receiveBufferOffset' = receiveBufferOffset + n
      /\ \/ /\ state' = "TLSShutdown"
            /\ UNCHANGED <<failureCode, connection, returned>>
         \/ /\ state' = "Aborted" /\ failureCode' = failureCode \cup {"HTTP"}
            /\ connection' = 0 /\ returned' \in {returned, "closed"}
      /\ UNCHANGED <<failures, sendBufferOffset, response, tries, pending, request, wire,
                     broken, layer, todo, handshake, closed, closing, capacity>>
  BY DEF SslReadsLast, SslReads, Release
<1>2. /\ state = "Receiving" /\ bio = 0 /\ answer = None /\ connection = tries
      /\ n \in Nat /\ inbox - n \in 0..ChunkSize
      /\ receiveBufferOffset + n = taken + n /\ taken + n \in Nat
      /\ taken + n + (inbox - n) <= Length(response)
      /\ Data(n) \in Seq(Cells) /\ Len(Data(n)) = taken + n
      /\ \A j \in 1..(taken + n) : Data(n)[j] = <<tries, j>>
      /\ (Owned \/ Len(Data(n)) <= capacity) /\ Parsed = response
  BY <1>1, ReadFacts
<1> HIDE DEF Data
<1>3. response \in Responses /\ Length(response) \in Nat /\ tries \in Nat
  BY Sizes DEF HInv, MessageTypes
<1>4. taken + n = Length(response) /\ inbox - n = 0
  BY <1>1, <1>2, <1>3, Sizes
<1>5. AnswerIsWhole'
  <2>1. Data(n) = [j \in 1..Length(response) |-> <<tries, j>>]
    <3>1. /\ Data(n) \in Seq(Cells) /\ Len(Data(n)) = Length(response)
          /\ \A j \in 1..Length(response) : Data(n)[j] = <<tries, j>>
      BY <1>2, <1>4
    <3> QED BY <1>3, <3>1, WholeAnswer
  <2> QED BY <1>1, <1>2, <2>1 DEF AnswerIsWhole
<1>6. MessageTypes'
  <2>1. failureCode' \subseteq Bits
    BY <1>1 DEF HInv, MessageTypes, Bits
  <2>2. returned' \in {"none", "closed"} /\ connection' \in 0..tries'
    BY <1>1, <1>3 DEF HInv, MessageTypes
  <2>3. state' \in Live \cup {"Init", "Finished", "Aborted"}
    BY <1>1 DEF Live
  <2> QED BY <1>1, <1>2, <2>1, <2>2, <2>3 DEF HInv, MessageTypes, Owned
<1>7. CASE /\ state' = "TLSShutdown"
           /\ UNCHANGED <<failureCode, connection, returned>>
  <2>1. LayerTypes' /\ Stream' /\ Session'
    <3>1. taken' + inbox' <= Length(response') /\ inbox' = 0 /\ inbox' \in 0..ChunkSize
      BY <1>1, <1>2, <1>4
    <3> QED BY <1>1, <1>2, <1>7, <3>1, ReadKeepsLayer
  <2>2. ReturnedClosed'
    BY <1>6, <1>7 DEF MessageTypes, ReturnedClosed, Ended
  <2>3. Answer'
    BY <1>1, <1>2, <1>5, <1>7, <2>2 DEF Answer, Answering
  <2> QED BY <1>6, <2>1, <2>3 DEF HInv
<1>8. CASE /\ state' = "Aborted" /\ connection' = 0
  <2>1. pending' = FALSE
    <3>1. Callable /\ state \in Live
      BY <1>1, <1>2 DEF Receiving, Live
    <3> QED BY <1>1, <3>1, Calling
  <2>2. LayerTypes' /\ Stream' /\ Session'
    <3>1. inbox' \in 0..ChunkSize
      BY <1>1, <1>2
    <3> QED BY <1>1, <1>8, <2>1, <3>1, EndedLayer
  <2>3. ReturnedClosed'
    BY <1>6, <1>8 DEF MessageTypes, ReturnedClosed
  <2>4. Answer'
    BY <1>5, <1>8, <2>3 DEF Answer, Answering, Live
  <2> QED BY <1>6, <2>2, <2>4 DEF HInv
<1> QED BY <1>1, <1>7, <1>8

LEMMA BufferFullStep ==
  ASSUME HInv, BufferFull PROVE HInv'
<1>1. /\ Callable /\ Full /\ state \in {"InitReceiving", "Receiving"}
      /\ state' = "Aborted" /\ failureCode' = failureCode \cup {"Recv"}
      /\ UNCHANGED <<failures, sendBufferOffset, receiveBufferOffset, info, buffer,
                     connection, answer, wire, response, taken, broken, tries, returned,
                     pending, layer, todo, handshake, inbox, closed, closing, capacity>>
  BY DEF BufferFull, Receiving, peer, session
<1>2. pending = FALSE /\ answer = None
  <2>1. state \in Live /\ state # "TLSShutdown"
    BY <1>1 DEF Live
  <2> QED BY <1>1, <2>1, Calling
<1>3. LayerTypes' /\ Stream' /\ Session'
  <2>1. inbox' \in 0..ChunkSize
    BY <1>1 DEF HInv, Session
  <2> QED BY <1>1, <1>2, <2>1, EndedLayer
<1>4. MessageTypes'
  BY <1>1 DEF HInv, MessageTypes, Bits, Owned
<1>5. ~Owned' /\ receiveBufferOffset' = capacity'
  <2>1. ~Owned /\ capacity <= receiveBufferOffset
    BY <1>1 DEF Full
  <2>2. receiveBufferOffset <= capacity /\ receiveBufferOffset \in Nat /\ capacity \in Nat
    <3>1. /\ Len(buffer) \in Nat /\ receiveBufferOffset \in Nat /\ capacity \in Nat
          /\ receiveBufferOffset <= Len(buffer) /\ Len(buffer) <= capacity
      BY <2>1, LenProperties DEF HInv, MessageTypes
    <3> QED BY <3>1
  <2>3. receiveBufferOffset = capacity
    BY <2>1, <2>2
  <2> QED BY <1>1, <2>1, <2>3 DEF Owned
<1>6. AnswerIsWhole' /\ ReturnedClosed'
  BY <1>1, <1>2, <1>4, <1>5 DEF AnswerIsWhole, ReturnedClosed, MessageTypes
<1>7. Answer'
  BY <1>1, <1>6 DEF Answer, Live, Answering
<1> QED BY <1>3, <1>4, <1>7 DEF HInv

\* The first call of SSL_shutdown writes a close_notify.
LEMMA ShutdownStartsStep ==
  ASSUME HInv, ShutdownStarts PROVE HInv'
<1>1. /\ Callable /\ state = "TLSShutdown" /\ closing' = TRUE /\ Process(1, TRUE)
      /\ UNCHANGED <<state, failures, failureCode, sendBufferOffset, receiveBufferOffset,
                     info, buffer, connection, answer, response, taken, tries, returned,
                     wire, broken, todo, handshake, inbox, closed, capacity>>
  BY DEF ShutdownStarts, message
<1>2. state \in Live /\ state' \in Live
  BY <1>1 DEF Live
<1>3. bio + 1 <= ChunkSize /\ inbox = 0
  BY <1>1, Sizes DEF HInv, Session
<1>4. StreamNow /\ progress \in {"Init", "Finished"} /\ LayerTypes
  BY <1>1, <1>2, Calling DEF Callable, HInv
<1>5. LayerTypes' /\ Stream' /\ bio' = 0
  BY <1>1, <1>2, <1>3, <1>4, Processed
<1>6. Session'
  BY <1>1, <1>3, <1>5 DEF HInv, Session, Asking, Answering
<1>7. MessageTypes' /\ Answer'
  <2>1. failureCode' \subseteq Bits
    BY <1>1 DEF HInv, MessageTypes
  <2> QED BY <1>1, <2>1, MessageKept
<1> QED BY <1>5, <1>6, <1>7 DEF HInv

LEMMA ShutdownEndsStep ==
  ASSUME HInv, ShutdownEnds PROVE HInv'
<1>1. /\ state = "TLSShutdown" /\ ~pending /\ state' = "Finished"
      /\ connection' = 0 /\ returned' \in {returned, "closed"}
      /\ UNCHANGED <<failures, failureCode, sendBufferOffset, receiveBufferOffset, info,
                     buffer, answer, wire, response, taken, broken, tries, pending, layer,
                     todo, handshake, inbox, closed, closing, capacity>>
  BY DEF ShutdownEnds, Release, peer, session
<1>2. LayerTypes' /\ Stream' /\ Session'
  <2>1. pending' = FALSE
    BY <1>1, Zenon DEF HInv, LayerTypes
  <2>2. inbox' \in 0..ChunkSize
    BY <1>1 DEF HInv, Session
  <2> QED BY <1>1, <2>1, <2>2, EndedLayer
<1>3. MessageTypes'
  BY <1>1 DEF HInv, MessageTypes, Owned
<1>4. AnswerIsWhole' /\ ReturnedClosed'
  BY <1>1, <1>3 DEF HInv, Answer, AnswerIsWhole, ReturnedClosed, MessageTypes
<1>5. Answer'
  BY <1>1, <1>4 DEF Answer, Live, Answering
<1> QED BY <1>2, <1>3, <1>5 DEF HInv

-----------------------------------------------------------------------------
(* Attempts: what starts one, and what ends one                            *)

LEMMA GetConnectionStep ==
  ASSUME HInv, GetConnection PROVE HInv'
<1>1. /\ state = "Init" /\ tries' = tries + 1 /\ connection' = tries'
      /\ response' \in Responses /\ wire' = 0 /\ taken' = 0 /\ broken' = FALSE
      /\ state' = "TLSHandshake" /\ sendBufferOffset' = 0
      /\ UNCHANGED <<failures, failureCode, receiveBufferOffset, info, buffer, request,
                     answer, pending, returned, capacity, layer, session>>
  BY DEF GetConnection
<1>2. FreshLayer /\ pending = FALSE
  <2>1. state \notin Live
    BY <1>1 DEF Live
  <2> QED BY <1>1, <2>1, Zenon DEF HInv, Stream, LayerTypes
<1>3. /\ progress' = "Init" /\ networkBioRead' = 0 /\ socketWrite' = 0 /\ want' = FALSE
      /\ bio' = 0 /\ made' = 0 /\ todo' = 0 /\ handshake' = 0 /\ inbox' = 0
      /\ closed' = FALSE /\ closing' = FALSE
  BY <1>1, <1>2 DEF FreshLayer, layer, session
<1>4. LayerTypes'
  <2>1. want' \in BOOLEAN /\ pending' \in BOOLEAN /\ broken' \in BOOLEAN
    BY <1>1, <1>2, <1>3, Zenon
  <2>2. /\ progress' = "Init" /\ networkBioRead' = 0 /\ socketWrite' = 0
        /\ bio' = 0 /\ made' = 0 /\ wire' = 0
    BY <1>1, <1>3
  <2> QED BY <2>1, <2>2, Sizes DEF LayerTypes
<1>5. Stream'
  <2>1. wire' + bio' = made'
    <3>1. wire' = 0 /\ bio' = 0 /\ made' = 0
      BY <1>1, <1>3
    <3> QED BY <3>1
  <2>2. StreamNow'
    <3>1. pending' = FALSE
      BY <1>1, <1>2
    <3>2. progress' # "Sending" /\ progress' # "Receiving"
      BY <1>3
    <3> QED BY <1>3, <2>1, <3>1, <3>2, Zenon DEF StreamNow
  <2> QED BY <1>1, <2>2 DEF Stream, Live
<1>6. Session'
  <2>1. closed' \in BOOLEAN /\ closing' \in BOOLEAN
    BY <1>3, Zenon
  <2>2. todo' = 0 /\ handshake' = 0 /\ inbox' = 0 /\ bio' = 0 /\ progress' = "Init"
    BY <1>3
  <2> QED
    BY <1>1, <2>1, <2>2, Sizes, FlightsAssumption DEF Session, Live, Asking, Answering
<1>7. MessageTypes'
  <2>1. tries' \in Nat /\ connection' \in 0..tries'
    BY <1>1 DEF HInv, MessageTypes
  <2>2. sendBufferOffset' \in 0..Total
    BY <1>1, Sizes
  <2> QED BY <1>1, <2>1, <2>2 DEF HInv, MessageTypes, Live, Owned
<1>8. Answer'
  <2>1. answer' = None /\ info' = None
    BY <1>1 DEF HInv, Answer
  <2>2. AnswerIsWhole' /\ ReturnedClosed'
    BY <1>1, <1>7, <2>1 DEF AnswerIsWhole, ReturnedClosed, Ended, MessageTypes
  <2> QED BY <1>1, <2>1, <2>2 DEF Answer, Answering
<1> QED BY <1>4, <1>5, <1>6, <1>7, <1>8 DEF HInv

\* A failure starts over with a new connection and a new SSL object, or gives up;
\* both close the connection.
LEMMA HttpsResetStep ==
  ASSUME HInv, state \notin {"TLSShutdown", "Finished", "Aborted"}, DestroyLayer,
         NEW giveUp \in BOOLEAN, NEW places \in Seq(Cells), NEW offset \in Nat,
         offset <= Len(places), Owned \/ Len(places) <= capacity,
         Reset(giveUp, places, offset), failureCode' \subseteq Bits,
         UNCHANGED <<wire, response, broken, capacity>>,
         taken' \in Nat, tries' \in Nat
  PROVE  HInv'
<1>1. /\ failures' = failures + 1 /\ connection' = 0 /\ pending' = FALSE
      /\ answer' = answer /\ returned' \in {returned, "closed"}
      /\ \/ /\ state' = "Aborted" /\ buffer' = places /\ receiveBufferOffset' = offset
            /\ UNCHANGED <<sendBufferOffset, info>>
         \/ /\ state' = "Init" /\ buffer' = <<>> /\ info' = None
            /\ sendBufferOffset' = 0 /\ receiveBufferOffset' = 0
  BY DEF Reset, Count, StartOver, Release
<1>2. /\ progress' = "Init" /\ networkBioRead' = 0 /\ socketWrite' = 0 /\ want' = FALSE
      /\ bio' = 0 /\ made' = 0 /\ todo' = 0 /\ handshake' = 0 /\ inbox' = 0
      /\ closed' = FALSE /\ closing' = FALSE
  BY DEF DestroyLayer
<1>3. LayerTypes'
  <2>1. want' \in BOOLEAN /\ pending' \in BOOLEAN /\ broken' \in BOOLEAN
    BY <1>1, <1>2, Zenon DEF HInv, LayerTypes
  <2>2. /\ progress' = "Init" /\ networkBioRead' = 0 /\ socketWrite' = 0
        /\ bio' = 0 /\ made' = 0 /\ wire' \in Nat
    BY <1>2 DEF HInv, LayerTypes
  <2> QED BY <2>1, <2>2, Sizes DEF LayerTypes
<1>4. state' \notin Live /\ state' \in {"Init", "Aborted"}
  BY <1>1 DEF Live
<1>5. Stream'
  <2>1. FreshLayer'
    BY <1>2, Zenon DEF FreshLayer
  <2> QED BY <1>1, <1>4, <2>1, Zenon DEF Stream
<1>6. Session'
  <2>1. closed' \in BOOLEAN /\ closing' \in BOOLEAN
    BY <1>2, Zenon
  <2>2. todo' = 0 /\ handshake' = 0 /\ inbox' = 0
    BY <1>2
  <2> QED
    BY <1>4, <2>1, <2>2, Sizes, FlightsAssumption DEF Session, Live, Asking, Answering
<1>7. MessageTypes'
  <2>1. /\ buffer' \in Seq(Cells) /\ receiveBufferOffset' \in Nat
        /\ receiveBufferOffset' <= Len(buffer') /\ (Owned' \/ Len(buffer') <= capacity')
    <3>1. <<>> \in Seq(Cells) /\ Len(<<>>) = 0 /\ capacity \in Nat
      BY EmptySeq DEF HInv, MessageTypes
    <3>2. CASE buffer' = places /\ receiveBufferOffset' = offset
      BY <3>2 DEF Owned
    <3>3. CASE buffer' = <<>> /\ receiveBufferOffset' = 0
      <4>1. Len(buffer') = 0 /\ buffer' \in Seq(Cells) /\ capacity' = capacity
        BY <3>1, <3>3
      <4> QED BY <3>1, <3>3, <4>1
    <3> QED BY <1>1, <3>2, <3>3
  <2>2. sendBufferOffset' \in 0..Total
    BY <1>1, Sizes DEF HInv, MessageTypes
  <2>3. returned' \in {"none", "closed"} /\ connection' \in 0..tries' /\ failures' \in Nat
    BY <1>1 DEF HInv, MessageTypes
  <2> QED BY <1>4, <2>1, <2>2, <2>3 DEF HInv, MessageTypes
<1>8. Answer'
  <2>1. answer' = None
    BY <1>1 DEF HInv, Answer
  <2>2. AnswerIsWhole' /\ ReturnedClosed'
    BY <1>1, <1>7, <2>1 DEF AnswerIsWhole, ReturnedClosed, MessageTypes
  <2> QED BY <1>1, <1>4, <2>1, <2>2 DEF Answer, Answering
<1> QED BY <1>3, <1>5, <1>6, <1>7, <1>8 DEF HInv

LEMMA RetryStep ==
  ASSUME HInv, state \notin {"TLSShutdown", "Finished", "Aborted"},
         NEW bits \in SUBSET Bits, NEW limit \in Nat, Retry(bits, limit),
         tries' \in {tries, tries + 1}
  PROVE  HInv'
<1>1. /\ Reset(failures > limit, buffer, receiveBufferOffset) /\ DestroyLayer
      /\ (failures > limit) \in BOOLEAN
      /\ failureCode' = failureCode \cup bits
      /\ UNCHANGED <<wire, response, taken, broken, capacity>>
  BY DEF Retry, peer
<1>2. failureCode' \subseteq Bits /\ taken' \in Nat /\ tries' \in Nat
  BY <1>1 DEF HInv, MessageTypes
<1>3. /\ buffer \in Seq(Cells) /\ receiveBufferOffset \in Nat
      /\ receiveBufferOffset <= Len(buffer) /\ (Owned \/ Len(buffer) <= capacity)
  BY DEF HInv, MessageTypes
<1> QED BY <1>1, <1>2, <1>3, HttpsResetStep

LEMMA SslReadsMalformedStep ==
  ASSUME HInv, NEW n \in 1..ChunkSize, SslReadsMalformed(n) PROVE HInv'
<1>1. /\ Receiving /\ ~Full /\ n <= inbox /\ n <= Len(Places) - receiveBufferOffset
      /\ failureCode' = failureCode \cup {"HTTP"} /\ taken' = taken + n
      /\ Reset(failures > FailuresMax, Data(n), receiveBufferOffset + n) /\ DestroyLayer
      /\ (failures > FailuresMax) \in BOOLEAN
      /\ UNCHANGED <<wire, response, broken, tries, capacity>>
  BY DEF SslReadsMalformed
<1>2. /\ state = "Receiving"
      /\ receiveBufferOffset + n = taken + n /\ taken + n \in Nat
      /\ Data(n) \in Seq(Cells) /\ Len(Data(n)) = taken + n
      /\ (Owned \/ Len(Data(n)) <= capacity)
  BY <1>1, ReadFacts
<1> HIDE DEF Data
<1>3. /\ Reset(failures > FailuresMax, Data(n), taken + n) /\ taken + n <= Len(Data(n))
      /\ taken' \in Nat
  BY <1>1, <1>2
<1>4. failureCode' \subseteq Bits /\ tries' \in Nat
  BY <1>1 DEF HInv, MessageTypes, Bits
<1> QED BY <1>1, <1>2, <1>3, <1>4, HttpsResetStep

LEMMA AbandonStep ==
  ASSUME HInv, Abandon PROVE HInv'
<1>1. FailuresMax \in Nat /\ {"TLS"} \in SUBSET Bits /\ {} \in SUBSET Bits
  BY LimitAssumption DEF Bits
<1>2. tries' = tries
  BY DEF Abandon
<1>3. CASE state = "TLSHandshake" /\ Retry({"TLS"}, FailuresMax)
  BY <1>1, <1>2, <1>3, RetryStep
<1>4. CASE /\ state \in {"InitSending", "Sending", "InitReceiving", "Receiving"}
           /\ Retry({}, FailuresMax)
  BY <1>1, <1>2, <1>4, RetryStep
<1> QED BY <1>3, <1>4 DEF Abandon

LEMMA HttpsStep == HInv /\ [HttpsNext]_httpsVars => HInv'
<1> SUFFICES ASSUME HInv, [HttpsNext]_httpsVars PROVE HInv'
  OBVIOUS
<1>1. CASE UNCHANGED httpsVars
  <2>1. /\ UNCHANGED <<state, failures, failureCode, sendBufferOffset, receiveBufferOffset,
                       info, buffer, request, connection, answer, pending, wire, response,
                       taken, broken, tries, returned, capacity>>
        /\ UNCHANGED <<progress, networkBioRead, socketWrite, want, bio, made>>
        /\ UNCHANGED <<todo, handshake, inbox, closed, closing>>
    BY <1>1 DEF httpsVars, vars, code, peer, layer, session
  <2>2. LayerTypes' /\ Session'
    BY <2>1 DEF HInv, LayerTypes, Session
  <2>3. Stream'
    BY <2>1 DEF HInv, Stream, StreamNow, FreshLayer
  <2>4. failureCode' \subseteq Bits
    BY <2>1 DEF HInv, MessageTypes
  <2>5. MessageTypes' /\ Answer'
    BY <2>1, <2>4, MessageKept
  <2> QED BY <2>2, <2>3, <2>5 DEF HInv
<1>2. CASE GetConnection
  BY <1>2, GetConnectionStep
<1>3. CASE GetConnectionFails \/ LayerFails
  <2>1. /\ state = "Init" /\ tries' \in {tries, tries + 1}
        /\ Retry({"Socket"}, ConnectionFailuresMax) \/ Retry({"TLS"}, ConnectionFailuresMax)
    BY <1>3 DEF GetConnectionFails, LayerFails
  <2>2. /\ ConnectionFailuresMax \in Nat
        /\ {"Socket"} \in SUBSET Bits /\ {"TLS"} \in SUBSET Bits
    BY LimitAssumption DEF Bits
  <2> QED BY <2>1, <2>2, RetryStep
<1>4. ASSUME NEW n \in 0..1, SslConnectWants(n) \/ SslConnected(n) PROVE HInv'
  BY <1>4, SslConnectWantsStep, SslConnectedStep
<1>5. CASE SslWrites \/ SslWriteWants
  BY <1>5, SslWritesStep, SslWriteWantsStep
<1>6. CASE BufferFull \/ SslReadWants
  BY <1>6, BufferFullStep, SslReadWantsStep
<1>7. ASSUME NEW n \in 1..ChunkSize,
             SslReadsPart(n) \/ SslReadsLast(n) \/ SslReadsMalformed(n)
      PROVE  HInv'
  BY <1>7, SslReadsPartStep, SslReadsLastStep, SslReadsMalformedStep
<1>8. CASE Abandon
  BY <1>8, AbandonStep
<1>9. CASE ShutdownStarts \/ ShutdownEnds
  BY <1>9, ShutdownStartsStep, ShutdownEndsStep
<1>10. ASSUME NEW n \in 1..ChunkSize, WriteDone(n) PROVE HInv'
  BY <1>10, WriteDoneStep
<1>11. CASE WriteAgain \/ WriteInterrupted \/ WriteFails
  BY <1>11, WriteAgainStep, WriteInterruptedStep
<1>12. ASSUME NEW n \in 0..ChunkSize, NEW last \in BOOLEAN, ReadDone(n, last) PROVE HInv'
  BY <1>12, ReadDoneStep
<1>13. CASE ReadAgain
  BY <1>13, ReadAgainStep
<1>14. ASSUME NEW bit \in {"Empty", "Timeout", "Recv"}, ReadFails(bit) PROVE HInv'
  BY <1>14, ReadFailsStep
<1> QED
  BY <1>1, <1>2, <1>3, <1>4, <1>5, <1>6, <1>7, <1>8, <1>9, <1>10, <1>11, <1>12, <1>13, <1>14
  DEF HttpsNext

-----------------------------------------------------------------------------
(* HTTPSMessage: theorems                                                  *)

\* Every variable of the message, the layer and the session keeps its type: the
\* BIO and the layer's buffer hold a chunk, and the offsets stay within them.
THEOREM HttpsTypeCorrect == HttpsSpec => []HttpsTypeOK
<1>1. HInv => HttpsTypeOK
  BY DEF HInv, LayerTypes, Session, MessageTypes, HttpsTypeOK, Live
<1> QED BY <1>1, HStart, HttpsStep, PTL DEF HttpsSpec

\* Over partial writes, EAGAIN, resets and new connections the socket gets the
\* stream that SSL wrote, and is only read from when all of it is on the wire.
THEOREM HttpsStreamInOrder == HttpsSpec => []StreamInOrder
<1>1. ASSUME HInv PROVE StreamInOrder
  <2>1. CASE pending
    <3>1. /\ StreamNow /\ request.fd = connection
          /\ made \in Nat /\ wire \in Nat
      BY <1>1, <2>1 DEF HInv, Stream, StreamNow, LayerTypes
    <3>2. progress = "Sending" =>
            /\ request.op = "write" /\ request.from = wire
            /\ request.from + request.length = made
      BY <2>1, <3>1 DEF StreamNow
    <3>3. progress = "Receiving" => request.op = "read" /\ wire = made
      BY <2>1, <3>1 DEF StreamNow
    <3>4. progress \in {"Sending", "Receiving"}
      BY <2>1, <3>1 DEF StreamNow
    <3> QED BY <3>1, <3>2, <3>3, <3>4 DEF StreamInOrder
  <2> QED BY <2>1 DEF StreamInOrder
<1> QED BY <1>1, HStart, HttpsStep, PTL DEF HttpsSpec

\* The answer of a message is that of its last connection, whole and in order:
\* nothing of an earlier connection or of its session is left in the buffer.
THEOREM HttpsAnswersAreWhole == HttpsSpec => []AnswerIsWhole
<1>1. HInv => AnswerIsWhole
  BY DEF HInv, Answer
<1> QED BY <1>1, HStart, HttpsStep, PTL DEF HttpsSpec

\* A connection that carried a session is closed before it goes back, and kept
\* by an ended message only when the caller's buffer is full.
THEOREM HttpsConnectionsClosed == HttpsSpec => []ReturnedClosed
<1>1. HInv => ReturnedClosed
  BY DEF HInv, Answer
<1> QED BY <1>1, HStart, HttpsStep, PTL DEF HttpsSpec
=============================================================================
