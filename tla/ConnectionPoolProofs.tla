------------------------ MODULE ConnectionPoolProofs ------------------------
(***************************************************************************)
(* Proofs about ConnectionPool for any connections, keys and maximum, with *)
(* or without sweeps and lost connections, and about Transfers, which      *)
(* borrows from it, for any number of calls and attempts.                  *)
(***************************************************************************)
EXTENDS Transfers, FiniteSetTheorems, SequenceTheorems, TLAPS

\* The slots, filled or empty, never outnumber the maximum.
SlotsWithinCap == ~stop => PoolSize <= MaxConnections

\* Only a lent connection can be closed: what is closed is not reusable.
ClosedIsHeld == closed \subseteq held

IInv ==
  /\ TypeOK
  /\ OneOwner
  /\ ClosedIsHeld
  /\ SlotForEveryone
  /\ SlotsWithinCap
  /\ CapHolds

-----------------------------------------------------------------------------
(* Counting                                                                *)

\* Sets of connections are finite and have a size.
LEMMA ConnSets ==
  ASSUME NEW S, S \subseteq Conns
  PROVE  IsFiniteSet(S) /\ Cardinality(S) \in Nat
BY ConnsAssumption, FS_Subset, FS_CardinalityType

LEMMA CountAdd ==
  ASSUME NEW S, S \subseteq Conns, NEW c, c \notin S
  PROVE  Cardinality(S \cup {c}) = Cardinality(S) + 1
BY ConnSets, FS_AddElement

LEMMA CountRemove ==
  ASSUME NEW S, S \subseteq Conns, NEW c, c \in S
  PROVE  Cardinality(S \ {c}) = Cardinality(S) - 1
BY ConnSets, FS_RemoveElement

LEMMA CountLive ==
  ASSUME TypeOK, OneOwner
  PROVE  Cardinality(Live) = Cardinality(idle) + Cardinality(filled) + Cardinality(held)
<1>1. /\ IsFiniteSet(idle) /\ IsFiniteSet(filled) /\ IsFiniteSet(held)
      /\ Cardinality(idle) \in Nat /\ Cardinality(filled) \in Nat /\ Cardinality(held) \in Nat
  BY ConnSets DEF TypeOK
<1>2. /\ IsFiniteSet(idle \cup filled)
      /\ Cardinality(idle \cup filled)
           = Cardinality(idle) + Cardinality(filled) - Cardinality(idle \cap filled)
  BY <1>1, FS_Union
<1>3. Cardinality((idle \cup filled) \cup held)
        = Cardinality(idle \cup filled) + Cardinality(held)
            - Cardinality((idle \cup filled) \cap held)
  BY <1>1, <1>2, FS_Union
<1>4. idle \cap filled = {} /\ (idle \cup filled) \cap held = {}
  BY DEF OneOwner
<1>5. Cardinality(idle \cap filled) = 0 /\ Cardinality((idle \cup filled) \cap held) = 0
  BY <1>4, FS_EmptySet
<1>6. Live = (idle \cup filled) \cup held
  BY DEF Live
<1> QED BY <1>1, <1>2, <1>3, <1>5, <1>6

\* The cap on slots is a cap on connections.
LEMMA CapFromSlots ==
  ASSUME TypeOK, OneOwner, SlotForEveryone, SlotsWithinCap, ~stop
  PROVE  CapHolds
<1>1. Cardinality(idle) \in Nat /\ Cardinality(filled) \in Nat /\ Cardinality(held) \in Nat
  BY ConnSets DEF TypeOK
<1> QED BY <1>1, CountLive, MaxAssumption
        DEF SlotForEveryone, SlotsWithinCap, PoolSize, CapHolds, TypeOK

-----------------------------------------------------------------------------
(* Invariance                                                              *)

LEMMA InitIInv == Init => IInv
<1> SUFFICES ASSUME Init PROVE IInv
  OBVIOUS
<1>1. TypeOK /\ OneOwner /\ ClosedIsHeld
  BY DEF Init, TypeOK, OneOwner, ClosedIsHeld
<1>2. SlotForEveryone /\ SlotsWithinCap
  BY FS_EmptySet, MaxAssumption DEF Init, SlotForEveryone, SlotsWithinCap, PoolSize
<1>3. CapHolds
  <2>1. Live = {}
    BY DEF Init, Live
  <2> QED BY <2>1, FS_EmptySet, MaxAssumption DEF CapHolds
<1> QED BY <1>1, <1>2, <1>3 DEF IInv

\* The part of the invariant from which the cap follows while the pool is open.
Slots == TypeOK /\ OneOwner /\ ClosedIsHeld /\ SlotForEveryone /\ SlotsWithinCap

\* Closed connections are never in a slot, so a full pool keeps all of them.
LEMMA NothingToErase == IInv => Kept = filled
BY DEF IInv, OneOwner, ClosedIsHeld, Kept

LEMMA StepSlots ==
  ASSUME IInv, [Next]_vars
  PROVE  Slots'
<1>1. /\ TypeOK /\ OneOwner /\ ClosedIsHeld /\ SlotForEveryone /\ SlotsWithinCap
      /\ Kept = filled
  BY NothingToErase DEF IInv
<1>2. /\ Cardinality(idle) \in Nat /\ Cardinality(filled) \in Nat
      /\ Cardinality(held) \in Nat /\ nulls \in Nat
  BY <1>1, ConnSets DEF TypeOK
<1>3. ASSUME NEW k \in Keys, TakeIdle(k)
      PROVE  Slots'
  <2>1. PICK c \in IdleFor(k) : idle' = idle \ {c} /\ held' = held \cup {c}
    BY <1>3 DEF TakeIdle
  <2>2. c \in idle /\ c \notin held /\ c \notin filled /\ c \in Conns
    BY <1>1, <2>1 DEF IdleFor, OneOwner, TypeOK
  <2>3. TypeOK' /\ OneOwner' /\ ClosedIsHeld'
    BY <1>1, <1>3, <2>1, <2>2 DEF TakeIdle, TypeOK, OneOwner, ClosedIsHeld
  <2>4. Cardinality(idle') = Cardinality(idle) - 1 /\ Cardinality(held') = Cardinality(held) + 1
    BY <1>1, <2>1, <2>2, CountAdd, CountRemove DEF TypeOK
  <2>5. UNCHANGED <<filled, nulls, stop>>
    BY <1>3 DEF TakeIdle
  <2> QED BY <1>1, <1>2, <2>3, <2>4, <2>5 DEF Slots, SlotForEveryone, SlotsWithinCap, PoolSize
<1>4. ASSUME NEW k \in Keys, TakeFilled(k)
      PROVE  Slots'
  <2>1. PICK c \in FilledFor(k) : filled' = filled \ {c} /\ held' = held \cup {c}
    BY <1>4 DEF TakeFilled
  <2>2. c \in filled /\ c \notin held /\ c \notin idle /\ c \in Conns
    BY <1>1, <2>1 DEF FilledFor, OneOwner, TypeOK
  <2>3. nulls' = nulls + 1 /\ UNCHANGED <<idle, closed, key, stop>> /\ answer' = "reused"
    BY <1>4 DEF TakeFilled
  <2>4. TypeOK' /\ OneOwner' /\ ClosedIsHeld'
    BY <1>1, <1>2, <2>1, <2>2, <2>3 DEF TypeOK, OneOwner, ClosedIsHeld
  <2>5. Cardinality(filled') = Cardinality(filled) - 1 /\ Cardinality(held') = Cardinality(held) + 1
    BY <1>1, <2>1, <2>2, CountAdd, CountRemove DEF TypeOK
  <2> QED BY <1>1, <1>2, <2>3, <2>4, <2>5 DEF Slots, SlotForEveryone, SlotsWithinCap, PoolSize
<1>5. ASSUME NEW k \in Keys, Create(k)
      PROVE  Slots'
  <2>1. PICK c \in Conns \ Live : held' = held \cup {c} /\ key' = [key EXCEPT ![c] = k]
    BY <1>5 DEF Create
  <2>2. c \notin idle /\ c \notin filled /\ c \notin held
    BY <2>1 DEF Live
  <2>3. /\ ~stop /\ nulls' = nulls + 1 /\ filled' = filled /\ closed' = closed
        /\ answer' = "created" /\ UNCHANGED <<idle, stop>>
    BY <1>1, <1>5 DEF Create
  <2>4. TypeOK'
    BY <1>1, <1>2, <2>1, <2>3 DEF TypeOK
  <2>5. OneOwner' /\ ClosedIsHeld'
    BY <1>1, <2>1, <2>2, <2>3 DEF TypeOK, OneOwner, ClosedIsHeld
  <2>6. Cardinality(held') = Cardinality(held) + 1
    BY <1>1, <2>1, <2>2, CountAdd DEF TypeOK
  <2>7. Cardinality(filled) + nulls < MaxConnections
    BY <1>1, <1>5 DEF Create, Room
  <2> QED BY <1>1, <1>2, <2>3, <2>4, <2>5, <2>6, <2>7, MaxAssumption
          DEF Slots, SlotForEveryone, SlotsWithinCap, PoolSize
<1>6. ASSUME NEW k \in Keys, CreateFails(k) \/ Exhausted(k)
      PROVE  Slots'
  <2>1. /\ filled' = filled /\ closed' = closed /\ answer' \in {"failed", "exhausted"}
        /\ UNCHANGED <<idle, nulls, held, key, stop>>
    BY <1>1, <1>6 DEF CreateFails, Exhausted
  <2> QED BY <1>1, <2>1 DEF Slots, TypeOK, OneOwner, ClosedIsHeld, SlotForEveryone,
                            SlotsWithinCap, PoolSize
<1>7. ASSUME NEW c \in Conns, Disconnect(c)
      PROVE  Slots'
  BY <1>1, <1>7 DEF Disconnect, Slots, TypeOK, OneOwner, ClosedIsHeld, SlotForEveryone,
                    SlotsWithinCap, PoolSize
<1>8. ASSUME NEW c \in Conns, ReturnClosed(c)
      PROVE  Slots'
  <2>1. Cardinality(held') = Cardinality(held) - 1
    BY <1>1, <1>8, CountRemove DEF ReturnClosed, TypeOK
  <2>2. nulls > 0 /\ nulls' = nulls - 1
    <3>1. Cardinality(held') \in Nat
      <4>1. held' \subseteq Conns
        BY <1>1, <1>8 DEF ReturnClosed, TypeOK
      <4> QED BY <4>1, ConnSets
    <3>2. nulls > 0
      BY <1>1, <1>2, <1>8, <2>1, <3>1 DEF ReturnClosed, SlotForEveryone
    <3> QED BY <1>8, <3>2 DEF ReturnClosed
  <2>3. TypeOK' /\ OneOwner' /\ ClosedIsHeld'
    BY <1>1, <1>2, <1>8, <2>2 DEF ReturnClosed, TypeOK, OneOwner, ClosedIsHeld
  <2>4. ~stop /\ UNCHANGED <<idle, filled, stop>>
    BY <1>8 DEF ReturnClosed
  <2>5. nulls' >= Cardinality(held') + Cardinality(idle')
    BY <1>1, <1>2, <2>1, <2>2, <2>4 DEF SlotForEveryone
  <2>6. Cardinality(filled') + nulls' <= MaxConnections
    BY <1>1, <1>2, <2>2, <2>4, MaxAssumption DEF SlotsWithinCap, PoolSize
  <2> QED BY <2>3, <2>5, <2>6 DEF Slots, SlotForEveryone, SlotsWithinCap, PoolSize
<1>9. ASSUME NEW c \in Conns, ReturnHealthy(c)
      PROVE  Slots'
  <2> DEFINE old == IdleFor(key[c])
  <2>1. /\ ~stop /\ c \in held \ closed
        /\ idle' = (idle \ old) \cup {c}
        /\ filled' = IF nulls > 0 THEN filled \cup old ELSE filled
        /\ nulls' = IF old # {} /\ nulls > 0 THEN nulls - 1 ELSE nulls
        /\ held' = held \ {c}
        /\ UNCHANGED <<closed, key, answer, stop>>
    BY <1>9 DEF ReturnHealthy
  <2>2. /\ c \notin idle /\ c \notin filled /\ old \subseteq idle
        /\ \A d \in idle \ old : key[d] # key[c]
    BY <1>1, <2>1 DEF OneOwner, IdleFor
  <2>3. \A d, e \in old : d = e
    BY <1>1 DEF OneOwner, IdleFor
  <2>4. Cardinality(held') = Cardinality(held) - 1 /\ Cardinality(held') \in Nat
    <3>1. held' \subseteq Conns /\ held' = held \ {c} /\ c \in held
      BY <1>1, <2>1 DEF TypeOK
    <3> QED BY <1>1, <3>1, ConnSets, CountRemove DEF TypeOK
  <2>5. nulls > 0
    BY <1>1, <1>2, <2>1, <2>4 DEF SlotForEveryone
  <2> HIDE DEF old
  <2>6. CASE old = {}
    <3>1. idle' = idle \cup {c} /\ filled' = filled /\ nulls' = nulls
      BY <2>1, <2>5, <2>6
    <3>2. Cardinality(idle') = Cardinality(idle) + 1
      BY <1>1, <2>2, <3>1, CountAdd DEF TypeOK
    <3>3. TypeOK'
      BY <1>1, <1>2, <2>1, <3>1 DEF TypeOK
    <3>4. OneOwner' /\ ClosedIsHeld'
      BY <1>1, <2>1, <2>2, <2>6, <3>1 DEF TypeOK, OneOwner, ClosedIsHeld
    <3>5. nulls' >= Cardinality(held') + Cardinality(idle')
      BY <1>1, <1>2, <2>1, <2>4, <3>1, <3>2 DEF SlotForEveryone
    <3>6. Cardinality(filled') + nulls' <= MaxConnections
      BY <1>1, <1>2, <2>1, <3>1, MaxAssumption DEF SlotsWithinCap, PoolSize
    <3> QED BY <3>3, <3>4, <3>5, <3>6 DEF Slots, SlotForEveryone, SlotsWithinCap, PoolSize
  <2>7. CASE old # {}
    <3>1. PICK d : old = {d}
      BY <2>3, <2>7
    <3>2. idle' = (idle \ {d}) \cup {c} /\ filled' = filled \cup {d} /\ nulls' = nulls - 1
      BY <2>1, <2>5, <3>1
    <3>3. d \in idle /\ d \notin filled /\ d \notin held /\ d # c
      BY <1>1, <2>2, <3>1 DEF OneOwner
    <3>4. /\ Cardinality(idle \ {d}) = Cardinality(idle) - 1
          /\ Cardinality(filled') = Cardinality(filled) + 1
      BY <1>1, <3>2, <3>3, CountAdd, CountRemove DEF TypeOK
    <3>5. Cardinality(idle') = Cardinality(idle \ {d}) + 1
      BY <1>1, <2>2, <3>2, CountAdd DEF TypeOK
    <3>6. TypeOK'
      BY <1>1, <1>2, <2>1, <2>5, <3>2, <3>3 DEF TypeOK
    <3>7. OneOwner' /\ ClosedIsHeld'
      BY <1>1, <2>1, <2>2, <3>1, <3>2, <3>3 DEF OneOwner, ClosedIsHeld
    <3> QED BY <1>1, <1>2, <2>1, <2>4, <3>2, <3>4, <3>5, <3>6, <3>7
            DEF Slots, SlotForEveryone, SlotsWithinCap, PoolSize
  <2> QED BY <2>6, <2>7
<1>10. ASSUME NEW c \in Conns, Drop(c)
       PROVE  Slots'
  <2>1. Cardinality(held') = Cardinality(held) - 1
    BY <1>1, <1>10, CountRemove DEF Drop, TypeOK
  <2>2. TypeOK' /\ OneOwner' /\ ClosedIsHeld'
    BY <1>1, <1>10 DEF Drop, TypeOK, OneOwner, ClosedIsHeld
  <2>3. UNCHANGED <<idle, filled, nulls, stop>>
    BY <1>10 DEF Drop
  <2> QED BY <1>1, <1>2, <2>1, <2>2, <2>3
          DEF Slots, SlotForEveryone, SlotsWithinCap, PoolSize
<1>11. ASSUME NEW old \in SUBSET (idle \cup (filled \ closed)), CloseIdle(old)
       PROVE  Slots'
  <2>1. /\ idle' = idle \ old /\ filled' = filled \ old
        /\ nulls' = nulls + Cardinality(filled \cap old)
        /\ UNCHANGED <<held, closed, key, answer, stop>>
    BY <1>11 DEF CloseIdle
  <2>2. Cardinality(filled \cap old) \in Nat /\ Cardinality(idle') <= Cardinality(idle)
        /\ Cardinality(idle') \in Nat
    <3>1. filled \cap old \subseteq Conns /\ idle' \subseteq Conns /\ idle' \in SUBSET idle
          /\ IsFiniteSet(idle)
      BY <1>1, <2>1, ConnSets DEF TypeOK
    <3> QED BY <3>1, ConnSets, FS_Subset
  <2>3. Cardinality(filled') = Cardinality(filled) - Cardinality(filled \cap old)
    BY <1>1, <2>1, ConnSets, FS_Difference DEF TypeOK
  <2>4. TypeOK' /\ OneOwner' /\ ClosedIsHeld'
    BY <1>1, <1>2, <2>1, <2>2 DEF TypeOK, OneOwner, ClosedIsHeld
  <2> QED BY <1>1, <1>2, <2>1, <2>2, <2>3, <2>4
          DEF Slots, SlotForEveryone, SlotsWithinCap, PoolSize
<1>12. ASSUME CloseAll
       PROVE  Slots'
  BY <1>1, <1>12 DEF CloseAll, Slots, TypeOK, OneOwner, ClosedIsHeld, SlotForEveryone,
                     SlotsWithinCap, PoolSize
<1>13. ASSUME UNCHANGED vars
       PROVE  Slots'
  BY <1>1, <1>13 DEF vars, Slots, TypeOK, OneOwner, ClosedIsHeld, SlotForEveryone,
                     SlotsWithinCap, PoolSize
<1> QED
  BY <1>3, <1>4, <1>5, <1>6, <1>7, <1>8, <1>9, <1>10, <1>11, <1>12, <1>13 DEF Next

\* The cap in the next state: from the slots while the pool is open, and because
\* nothing is added once it is shut.
LEMMA StepCap ==
  ASSUME IInv, [Next]_vars
  PROVE  CapHolds'
<1>1. Slots'
  BY StepSlots
<1>2. CASE ~stop'
  <2>1. TypeOK' /\ OneOwner' /\ SlotForEveryone' /\ SlotsWithinCap'
    BY <1>1 DEF Slots
  <2> QED BY <1>2, <2>1, CapFromSlots, PTL
<1>3. CASE stop'
  <2>1. Live' \subseteq Live
    BY <1>3 DEF Next, vars, Live, TakeIdle, TakeFilled, Create, CreateFails, Exhausted,
                Disconnect, ReturnClosed, ReturnHealthy, Drop, CloseIdle, CloseAll
  <2>2. IsFiniteSet(Live)
    <3>1. Live \subseteq Conns
      BY DEF IInv, TypeOK, Live
    <3> QED BY <3>1, ConnSets
  <2>3. Cardinality(Live') <= Cardinality(Live) /\ IsFiniteSet(Live')
    BY <2>1, <2>2, FS_Subset
  <2>4. Cardinality(Live) \in Nat /\ Cardinality(Live') \in Nat
    BY <2>2, <2>3, FS_CardinalityType
  <2>5. Cardinality(Live) <= MaxConnections
    BY DEF IInv, CapHolds
  <2> QED BY <2>3, <2>4, <2>5, MaxAssumption DEF CapHolds
<1> QED BY <1>2, <1>3

LEMMA StepIInv == IInv /\ [Next]_vars => IInv'
BY StepSlots, StepCap DEF IInv, Slots

\* IInv is an inductive invariant of the pool.
THEOREM Invariance == Spec => []IInv
BY InitIInv, StepIInv, PTL DEF Spec

\* Every variable keeps its type; the number of empty slots never goes negative.
THEOREM TypeCorrect == Spec => []TypeOK
<1>1. IInv => TypeOK
  BY DEF IInv
<1> QED BY <1>1, Invariance, PTL

\* Two messages never share a connection, and a lent one is not lent again.
THEOREM ConnectionsHaveOneOwner == Spec => []OneOwner
<1>1. IInv => OneOwner
  BY DEF IInv
<1> QED BY <1>1, Invariance, PTL

\* The pool never hands out a connection that is known to be closed.
THEOREM ReusedConnectionsAreOpen == Spec => []ReusableIsOpen
<1>1. IInv => ReusableIsOpen
  BY DEF IInv, OneOwner, ClosedIsHeld, ReusableIsOpen
<1> QED BY <1>1, Invariance, PTL

\* returnConnection always finds a slot for the connection it displaces.
THEOREM DisplacedConnectionFindsSlot == Spec => []SlotForEveryone
<1>1. IInv => SlotForEveryone
  BY DEF IInv
<1> QED BY <1>1, Invariance, PTL

\* The pool never has more connections than its maximum.
THEOREM ConnectionsAreCapped == Spec => []CapHolds
<1>1. IInv => CapHolds
  BY DEF IInv
<1> QED BY <1>1, Invariance, PTL

-----------------------------------------------------------------------------
(* Transfers: what is on a stream, and what a call has of it               *)

Piece(k, ids) == [of : ids, host : {k}, code : Codes, part : 1..3]
Flow(S) == [todo : Seq(S), wire : Seq(S), up : BOOLEAN]

\* Where a call reads: a pooled connection has answers to earlier calls too.
Ids == IF Pooled THEN 1..last ELSE {last}
Source == Piece(call.host, Ids)
Running == call.stage # "idle"

CallOK ==
  /\ last \in Nat
  /\ ~Running => call = NoCall
  /\ Running =>
       /\ last >= 1
       /\ call \in [stage : {"dialing", "connected", "reading", "answered"},
                    socket : Sockets, host : Keys, attempt : Int,
                    read : Seq(Source), got : {InternalError} \cup Source]
       /\ In("dialing") => ~Pooled

\* Every byte on a pooled connection is from its host; on a socket of the call's
\* own, from its dialing on, it is of the answer to this call.
Streams ==
  /\ DOMAIN stream = Sockets
  /\ \A c \in Conns : stream[c] \in Flow(Piece(key[c], 1..last))
  /\ In("connected") \/ In("reading") => stream[call.socket] \in Flow(Source)

\* One call at a time: only its connection is lent, and none is ever displaced.
Borrowed == IF Running /\ Pooled THEN {call.socket} ELSE {}
Calm ==
  /\ ~stop /\ filled = {} /\ closed = {} /\ held = Borrowed
  /\ Running /\ Pooled => key[call.socket] = call.host /\ IdleFor(call.host) = {}

Accounted == lost \in Nat /\ SlotsAreAccounted

TransferInv == IInv /\ CallOK /\ Streams /\ Calm /\ Accounted

-----------------------------------------------------------------------------
(* Sequences and counting                                                  *)

LEMMA SeqOfMore ==
  ASSUME NEW S, NEW T, S \subseteq T, NEW s \in Seq(S)
  PROVE  s \in Seq(T)
BY ElementOfSeq, LenProperties

LEMMA FlowOfMore ==
  ASSUME NEW S, NEW T, S \subseteq T, NEW f \in Flow(S)
  PROVE  f \in Flow(T)
BY SeqOfMore DEF Flow

LEMMA FreshFlow == ASSUME NEW S PROVE Fresh \in Flow(S)
BY EmptySeq DEF Fresh, Flow

LEMMA Empty == Cardinality({}) = 0
BY FS_EmptySet

LEMMA Single == ASSUME NEW c PROVE Cardinality({c}) = 1
BY FS_Singleton

-----------------------------------------------------------------------------
(* A transfer uses the pool as any owner does                              *)

LEMMA StepUsesPool == IInv /\ [TransferNext]_allVars => [Next]_vars
<1> SUFFICES ASSUME IInv, [TransferNext]_allVars PROVE [Next]_vars
  OBVIOUS
<1>1. ASSUME NEW k \in Keys, Borrow(k) \/ NoConnection(k) \/ Get(k) PROVE [Next]_vars
  BY <1>1 DEF Borrow, NoConnection, Get, Next
<1>2. ASSUME NEW c \in held, ReturnHealthy(c) \/ Drop(c) PROVE [Next]_vars
  <2>1. c \in Conns
    BY DEF IInv, TypeOK
  <2> QED BY <1>2, <2>1 DEF Next
<1>3. ASSUME Return PROVE [Next]_vars
  <2>1. ReturnHealthy(call.socket) /\ call.socket \in held
    BY <1>3 DEF Return, ReturnHealthy
  <2> QED BY <1>2, <2>1
<1>4. ASSUME NEW n \in Wire, RecvThrows(n) PROVE [Next]_vars
  <2>1. CASE Pooled
    <3>1. Drop(call.socket) /\ call.socket \in held
      BY <1>4, <2>1 DEF RecvThrows, Drop
    <3> QED BY <1>2, <3>1
  <2>2. CASE ~Pooled
    BY <1>4, <2>2 DEF RecvThrows
  <2> QED BY <2>1, <2>2
<1>5. CASE ClientStep
  BY <1>3, <1>4, <1>5
     DEF ClientStep, Send, RecvNothing, Dial, DialFails, Again, Done, RecvPart, RecvAll
<1>6. CASE ServerStep
  BY <1>6 DEF ServerStep, Writes, HangsUp
<1>7. CASE UNCHANGED allVars
  BY <1>7 DEF allVars
<1> QED BY <1>1, <1>5, <1>6, <1>7 DEF TransferNext

-----------------------------------------------------------------------------
(* The steps of a call                                                     *)

Blocking == CallOK /\ Streams /\ Calm /\ Accounted

LEMMA InitBlocking == TransferInit => Blocking
<1> SUFFICES ASSUME TransferInit PROVE Blocking
  OBVIOUS
<1>1. call.stage = "idle" /\ call = NoCall
  BY DEF TransferInit, NoCall
<1>2. CallOK
  BY <1>1 DEF TransferInit, CallOK, Running
<1>3. Streams
  BY <1>1, FreshFlow DEF TransferInit, Streams, In, Sockets
<1>4. Calm /\ Accounted
  BY <1>1, Empty
     DEF TransferInit, Init, Calm, Accounted, SlotsAreAccounted, Borrowed, Running
<1> QED BY <1>2, <1>3, <1>4 DEF Blocking

\* A new call finds the pool with nothing lent.
LEMMA AtRest ==
  ASSUME IInv, Blocking, Begins
  PROVE  /\ ~Running /\ held = {} /\ last \in Nat /\ last' = last + 1
         /\ lost \in Nat /\ nulls = Cardinality(idle) + lost
         /\ nulls \in Nat /\ Cardinality(idle) \in Nat
         /\ \A c \in Conns : stream[c] \in Flow(Piece(key[c], 1..(last + 1)))
<1>1. ~Running /\ last \in Nat /\ last' = last + 1
  BY DEF Begins, Running, Blocking, CallOK
<1>2. held = {}
  BY <1>1 DEF Blocking, Calm, Borrowed
<1>3. nulls \in Nat /\ Cardinality(idle) \in Nat
  BY ConnSets DEF IInv, TypeOK
<1>4. lost \in Nat /\ nulls = Cardinality(idle) + lost
  BY <1>2, <1>3, Empty DEF Blocking, Accounted, SlotsAreAccounted
<1>5. ASSUME NEW c \in Conns PROVE stream[c] \in Flow(Piece(key[c], 1..(last + 1)))
  <2>1. stream[c] \in Flow(Piece(key[c], 1..last))
    BY DEF Blocking, Streams
  <2>2. Piece(key[c], 1..last) \subseteq Piece(key[c], 1..(last + 1))
    BY <1>1 DEF Piece
  <2> QED BY <2>1, <2>2, FlowOfMore
<1> QED BY <1>1, <1>2, <1>3, <1>4, <1>5

\* What the record of a new call is.
LEMMA NewCallFacts ==
  ASSUME NEW s \in Sockets, NEW k \in Keys, NEW stage \in {"connected", "dialing"},
         last' \in Nat, last' >= 1, call' = NewCall(s, k, stage),
         stage = "dialing" => s = Own
  PROVE  /\ CallOK' /\ Running' /\ call'.stage = stage /\ call'.socket = s /\ call'.host = k
         /\ s # Own => Pooled'
         /\ s = Own => ~Pooled'
<1>1. /\ call'.stage = stage /\ call'.socket = s /\ call'.host = k
      /\ call'.read = <<>> /\ call'.got = InternalError /\ call'.attempt = 1
  BY DEF NewCall
<1>2. /\ Running' /\ (In("dialing")' => ~Pooled')
      /\ s # Own => Pooled'
      /\ s = Own => ~Pooled'
  BY <1>1 DEF Running, Pooled, In
<1>3. <<>> \in Seq(Source')
  BY EmptySeq
<1>4. call' \in [stage : {"dialing", "connected", "reading", "answered"},
                 socket : Sockets, host : Keys, attempt : Int,
                 read : Seq(Source'), got : {InternalError} \cup Source']
  BY <1>3 DEF NewCall
<1> QED BY <1>1, <1>2, <1>4 DEF CallOK

LEMMA BorrowIdleStep ==
  ASSUME IInv, Blocking, NEW k \in Keys, Borrow(k), TakeIdle(k) PROVE Blocking'
<1>1. /\ ~Running /\ held = {} /\ last \in Nat /\ last' = last + 1
      /\ lost \in Nat /\ nulls = Cardinality(idle) + lost
      /\ nulls \in Nat /\ Cardinality(idle) \in Nat
      /\ \A c \in Conns : stream[c] \in Flow(Piece(key[c], 1..(last + 1)))
  BY AtRest DEF Borrow
<1>2. PICK c \in IdleFor(k) : idle' = idle \ {c} /\ held' = held \cup {c}
  BY DEF TakeIdle
<1>3. c \in idle /\ c \in Conns /\ key[c] = k
  BY <1>2 DEF IdleFor, IInv, TypeOK
<1>4. held' = {c} /\ held' \ held = {c}
  BY <1>1, <1>2
<1>5. UNCHANGED <<filled, nulls, closed, key, stop, lost>> /\ answer' = "reused"
  BY DEF TakeIdle, Borrow
<1>6. call' = NewCall(c, k, "connected") /\ stream' = stream
  BY <1>4, <1>5 DEF Borrow
<1>7. c # Own /\ c \in Sockets
  BY <1>3, OwnAssumption DEF Sockets
<1>8. /\ CallOK' /\ Running' /\ call'.stage = "connected" /\ call'.socket = c /\ call'.host = k
      /\ Pooled'
  <2>1. last' \in Nat /\ last' >= 1
    BY <1>1
  <2> QED BY <1>6, <1>7, <2>1, NewCallFacts
<1>9. Source' = Piece(k, 1..(last + 1))
  BY <1>1, <1>8 DEF Source, Ids
<1>10. Streams'
  BY <1>1, <1>3, <1>5, <1>6, <1>8, <1>9 DEF Streams, Blocking
<1>11. Calm'
  <2>1. IdleFor(k)' = {}
    BY <1>2, <1>3, <1>5 DEF IdleFor, IInv, OneOwner
  <2> QED BY <1>3, <1>4, <1>5, <1>8, <2>1 DEF Calm, Blocking, Borrowed, IdleFor
<1>12. Accounted'
  <2>1. Cardinality(idle') = Cardinality(idle) - 1
    BY <1>2, <1>3, CountRemove DEF IInv, TypeOK
  <2>2. Cardinality(held') = 1
    BY <1>4, Single
  <2> QED BY <1>1, <1>5, <2>1, <2>2 DEF Accounted, SlotsAreAccounted
<1> QED BY <1>8, <1>10, <1>11, <1>12 DEF Blocking

LEMMA BorrowNewStep ==
  ASSUME IInv, Blocking, NEW k \in Keys, Borrow(k), Create(k) PROVE Blocking'
<1>1. /\ ~Running /\ held = {} /\ last \in Nat /\ last' = last + 1
      /\ lost \in Nat /\ nulls = Cardinality(idle) + lost
      /\ nulls \in Nat /\ Cardinality(idle) \in Nat
      /\ \A c \in Conns : stream[c] \in Flow(Piece(key[c], 1..(last + 1)))
  BY AtRest DEF Borrow
<1>2. PICK c \in Conns \ Live : held' = held \cup {c} /\ key' = [key EXCEPT ![c] = k]
  BY DEF Create
<1>3. c \in Conns /\ c \notin idle /\ key'[c] = k
  BY <1>2 DEF Live, IInv, TypeOK
<1>4. held' = {c} /\ held' \ held = {c}
  BY <1>1, <1>2
<1>5. /\ filled' = {} /\ closed' = {} /\ nulls' = nulls + 1 /\ answer' = "created"
      /\ UNCHANGED <<idle, stop, lost>>
  BY DEF Create, Borrow, Blocking, Calm, Kept
<1>6. call' = NewCall(c, k, "connected") /\ stream' = [stream EXCEPT ![c] = Fresh]
  BY <1>4, <1>5 DEF Borrow
<1>7. c # Own /\ c \in Sockets
  BY <1>3, OwnAssumption DEF Sockets
<1>8. /\ CallOK' /\ Running' /\ call'.stage = "connected" /\ call'.socket = c /\ call'.host = k
      /\ Pooled'
  <2>1. last' \in Nat /\ last' >= 1
    BY <1>1
  <2> QED BY <1>6, <1>7, <2>1, NewCallFacts
<1>9. Source' = Piece(k, 1..(last + 1))
  BY <1>1, <1>8 DEF Source, Ids
<1>10. Streams'
  <2>1. DOMAIN stream' = Sockets /\ stream'[c] = Fresh
    BY <1>6, <1>7 DEF Blocking, Streams
  <2>2. ASSUME NEW d \in Conns, d # c PROVE stream'[d] = stream[d] /\ key'[d] = key[d]
    BY <1>2, <1>6, <2>2 DEF Blocking, Streams, Sockets, IInv, TypeOK
  <2>3. ASSUME NEW d \in Conns PROVE stream'[d] \in Flow(Piece(key'[d], 1..last'))
    BY <1>1, <2>1, <2>2, FreshFlow
  <2>4. stream'[call'.socket] \in Flow(Source')
    BY <1>8, <2>1, FreshFlow
  <2> QED BY <2>1, <2>3, <2>4 DEF Streams
<1>11. Calm'
  <2>1. IdleFor(k)' = {}
    BY <1>2, <1>3, <1>5 DEF IdleFor, IInv, TypeOK, Create, NoneFor
  <2> QED BY <1>3, <1>4, <1>5, <1>8, <2>1 DEF Calm, Blocking, Borrowed, IdleFor
<1>12. Accounted'
  <2>1. Cardinality(held') = 1 /\ idle' = idle
    BY <1>4, <1>5, Single
  <2> QED BY <1>1, <1>5, <2>1 DEF Accounted, SlotsAreAccounted
<1> QED BY <1>8, <1>10, <1>11, <1>12 DEF Blocking

LEMMA NoConnectionStep ==
  ASSUME IInv, Blocking, NEW k \in Keys, NoConnection(k) PROVE Blocking'
<1>1. /\ ~Running /\ held = {} /\ last \in Nat /\ last' = last + 1
      /\ lost \in Nat /\ nulls = Cardinality(idle) + lost
      /\ \A c \in Conns : stream[c] \in Flow(Piece(key[c], 1..(last + 1)))
  BY AtRest DEF NoConnection
<1>2. /\ UNCHANGED <<idle, nulls, held, key, stop, call, stream, lost>>
      /\ filled' = {} /\ closed' = {}
  BY DEF NoConnection, CreateFails, Exhausted, Blocking, Calm, Kept
<1>3. CallOK'
  BY <1>1, <1>2 DEF Blocking, CallOK, Running
<1>4. Streams'
  BY <1>1, <1>2 DEF Blocking, Streams, In, Running
<1>5. Calm' /\ Accounted'
  BY <1>1, <1>2 DEF Blocking, Calm, Borrowed, Running, Accounted, SlotsAreAccounted
<1> QED BY <1>3, <1>4, <1>5 DEF Blocking

LEMMA GetStep ==
  ASSUME IInv, Blocking, NEW k \in Keys, Get(k) PROVE Blocking'
<1>1. /\ ~Running /\ held = {} /\ last \in Nat /\ last' = last + 1
      /\ \A c \in Conns : stream[c] \in Flow(Piece(key[c], 1..(last + 1)))
  BY AtRest DEF Get
<1>2. UNCHANGED <<vars, stream, lost>> /\ call' = NewCall(Own, k, "dialing")
  BY DEF Get
<1>3. CallOK' /\ Running' /\ call'.stage = "dialing" /\ ~Pooled'
  <2>1. last' \in Nat /\ last' >= 1 /\ Own \in Sockets
    BY <1>1 DEF Sockets
  <2> QED BY <1>2, <2>1, NewCallFacts
<1>4. Streams'
  BY <1>1, <1>2, <1>3 DEF Blocking, Streams, In, vars
<1>5. Calm' /\ Accounted'
  BY <1>1, <1>2, <1>3 DEF Blocking, Calm, Borrowed, Accounted, SlotsAreAccounted, vars
<1> QED BY <1>3, <1>4, <1>5 DEF Blocking

Stages == {"dialing", "connected", "reading", "answered"}

\* What a call in progress is, and where it reads.
LEMMA RunningFacts ==
  ASSUME Blocking, Running
  PROVE  /\ call.socket \in Sockets /\ call.host \in Keys /\ call.stage \in Stages
         /\ call.read \in Seq(Source) /\ call.got \in {InternalError} \cup Source
         /\ call.attempt \in Int
         /\ last \in Nat /\ last >= 1
         /\ Pooled => /\ call.socket \in Conns /\ held = {call.socket}
                      /\ Source = Piece(key[call.socket], 1..last)
                      /\ key[call.socket] = call.host
         /\ ~Pooled => Source = Piece(call.host, {last}) /\ held = {}
<1>1. CallOK /\ Calm
  BY DEF Blocking
<1>2. Pooled => call.socket \in Conns
  BY <1>1 DEF CallOK, Pooled, Sockets
<1> QED BY <1>1, <1>2 DEF CallOK, Calm, Borrowed, Source, Ids, Stages

\* A call goes on to another stage.
CallRecords == [stage : Stages, socket : Sockets, host : Keys, attempt : Int,
                read : Seq(Source), got : {InternalError} \cup Source]

LEMMA CallMoves ==
  ASSUME Blocking, Running, last' = last, call' \in CallRecords,
         call'.socket = call.socket, call'.host = call.host,
         call'.stage = "dialing" => ~Pooled
  PROVE  CallOK' /\ Running' /\ Source' = Source /\ Pooled' = Pooled
<1>1. Pooled' = Pooled /\ Source' = Source
  BY DEF Pooled, Source, Ids
<1>2. Running' /\ (In("dialing")' => ~Pooled')
  BY <1>1 DEF Running, In, Stages, CallRecords
<1>3. last' \in Nat /\ last' >= 1
  BY RunningFacts
<1> QED BY <1>1, <1>2, <1>3 DEF CallOK, Stages, CallRecords

LEMMA CallIsRecord == ASSUME Blocking, Running PROVE call \in CallRecords
BY DEF Blocking, CallOK, CallRecords, Stages

\* The pool is left alone.
LEMMA PoolKept ==
  ASSUME Blocking, UNCHANGED <<vars, lost>>, Running' = Running, Pooled' = Pooled,
         Running => call'.socket = call.socket /\ call'.host = call.host
  PROVE  Calm' /\ Accounted'
<1>1. Borrowed' = Borrowed
  BY DEF Borrowed
<1>2. \A k \in Keys : IdleFor(k)' = IdleFor(k)
  BY DEF IdleFor, vars
<1>3. UNCHANGED <<idle, filled, closed, held, nulls, stop, key, lost>>
  BY DEF vars
<1>4. Accounted'
  BY <1>3 DEF Blocking, Accounted, SlotsAreAccounted
<1>5. Calm'
  <2>1. ~stop' /\ filled' = {} /\ closed' = {} /\ held' = Borrowed'
    BY <1>1, <1>3 DEF Blocking, Calm
  <2>2. ASSUME Running', Pooled' PROVE key'[call'.socket] = call'.host /\ IdleFor(call.host)' = {}
    BY <1>2, <1>3, <2>2, RunningFacts DEF Blocking, Calm, IdleFor
  <2> QED BY <2>1, <2>2 DEF Calm
<1> QED BY <1>4, <1>5

\* The stream of the call is changed, and no other.
LEMMA StreamSet ==
  ASSUME Blocking, Running, NEW f \in Flow(Source), UNCHANGED <<key, last>>,
         stream' = [stream EXCEPT ![call.socket] = f]
  PROVE  /\ DOMAIN stream' = Sockets /\ stream'[call.socket] = f
         /\ \A c \in Conns : stream'[c] \in Flow(Piece(key'[c], 1..last'))
<1>1. DOMAIN stream' = Sockets /\ stream'[call.socket] = f
  BY RunningFacts DEF Blocking, Streams
<1>2. ASSUME NEW c \in Conns PROVE stream'[c] \in Flow(Piece(key'[c], 1..last'))
  <2>1. CASE c = call.socket
    <3>1. Pooled
      BY <2>1, OwnAssumption DEF Pooled
    <3> QED BY <1>1, <2>1, <3>1, RunningFacts
  <2>2. CASE c # call.socket
    BY <2>2 DEF Blocking, Streams, Sockets
  <2> QED BY <2>1, <2>2
<1> QED BY <1>1, <1>2

\* What was there when the stream is not touched.
LEMMA StreamKept ==
  ASSUME Blocking, UNCHANGED <<key, last, stream>>
  PROVE  /\ DOMAIN stream' = Sockets
         /\ \A c \in Conns : stream'[c] \in Flow(Piece(key'[c], 1..last'))
BY DEF Blocking, Streams

LEMMA SendStep == ASSUME Blocking, Send PROVE Blocking'
<1>1. Running /\ In("connected")
  BY DEF Send, In, Running
<1>2. /\ UNCHANGED <<vars, last, lost>> /\ UNCHANGED key
      /\ call' = [call EXCEPT !.stage = "reading"]
  BY DEF Send, vars
<1>3. /\ call' \in CallRecords /\ call'.stage = "reading"
      /\ call'.socket = call.socket /\ call'.host = call.host
  BY <1>1, <1>2, CallIsRecord DEF CallRecords, Stages
<1>4. CallOK' /\ Running' /\ Source' = Source /\ Pooled' = Pooled
  BY <1>1, <1>2, <1>3, CallMoves
<1>5. Calm' /\ Accounted'
  BY <1>1, <1>2, <1>3, <1>4, PoolKept
<1>6. stream[call.socket] \in Flow(Source)
  BY <1>1 DEF Blocking, Streams
<1>7. PICK code \in Codes :
        stream' = IF stream[call.socket].up
                  THEN [stream EXCEPT ![call.socket].todo = @ \o Response(last, Peer, code)]
                  ELSE stream
  BY DEF Send
<1>8. Response(last, Peer, code) \in Seq(Source)
  <2>1. Peer = call.host
    BY <1>1, RunningFacts DEF Peer
  <2>2. last \in Ids
    BY <1>1, RunningFacts DEF Ids
  <2> QED BY <1>7, <2>1, <2>2 DEF Response, Source, Piece
<1>9. CASE stream[call.socket].up
  <2> DEFINE f == [stream[call.socket] EXCEPT !.todo = @ \o Response(last, Peer, code)]
  <2>1. f \in Flow(Source)
    <3>1. stream[call.socket].todo \o Response(last, Peer, code) \in Seq(Source)
      BY <1>6, <1>8, ConcatProperties DEF Flow
    <3> QED BY <1>6, <3>1 DEF Flow
  <2>2. stream' = [stream EXCEPT ![call.socket] = f]
    BY <1>7, <1>9
  <2>3. Streams'
    BY <1>1, <1>2, <1>3, <1>4, <2>1, <2>2, StreamSet DEF Streams
  <2> QED BY <1>4, <1>5, <2>3 DEF Blocking
<1>10. CASE ~stream[call.socket].up
  <2>1. Streams'
    BY <1>2, <1>3, <1>4, <1>6, <1>7, <1>10, StreamKept DEF Streams
  <2> QED BY <1>4, <1>5, <2>1 DEF Blocking
<1> QED BY <1>9, <1>10

LEMMA ReturnStep == ASSUME IInv, Blocking, Return PROVE Blocking'
<1>1. /\ Running /\ Pooled /\ ReturnHealthy(call.socket) /\ call' = NoCall
      /\ UNCHANGED <<last, stream, lost>>
  BY DEF Return, In, Running
<1>2. PICK c : c = call.socket
  OBVIOUS
<1>3. /\ held = {c} /\ c \in Conns /\ key[c] = call.host /\ IdleFor(key[c]) = {}
      /\ ~stop /\ filled = {} /\ closed = {}
  BY <1>1, <1>2, RunningFacts DEF Blocking, Calm
<1>4. /\ UNCHANGED <<closed, key, answer, stop, nulls>> /\ filled' = {} /\ held' = {}
      /\ idle' = idle \cup {c}
  BY <1>1, <1>2, <1>3 DEF ReturnHealthy
<1>5. ~Running'
  BY <1>1 DEF Running, NoCall
<1>6. CallOK' /\ Streams'
  <2>1. last' \in Nat
    BY <1>1 DEF Blocking, CallOK
  <2>2. CallOK'
    BY <1>1, <1>5, <2>1 DEF CallOK
  <2>3. ~In("connected")' /\ ~In("reading")'
    BY <1>1 DEF In, NoCall
  <2> QED BY <1>1, <1>4, <2>2, <2>3, StreamKept DEF Streams
<1>7. Calm'
  BY <1>3, <1>4, <1>5 DEF Calm, Borrowed
<1>8. Accounted'
  <2>1. c \notin idle /\ idle \subseteq Conns
    BY <1>3 DEF IInv, OneOwner, TypeOK
  <2>2. Cardinality(idle') = Cardinality(idle) + 1 /\ Cardinality(idle) \in Nat
    BY <1>3, <1>4, <2>1, CountAdd, ConnSets
  <2>3. Cardinality(held) = 1 /\ Cardinality(held') = 0
    BY <1>3, <1>4, Single, Empty
  <2> QED BY <1>1, <1>4, <2>2, <2>3 DEF Blocking, Accounted, SlotsAreAccounted
<1> QED BY <1>6, <1>7, <1>8 DEF Blocking

\* What recv took, and what it left.
LEMMA TakenFacts ==
  ASSUME Blocking, In("reading"), NEW n \in Wire
  PROVE  /\ Running /\ stream[call.socket] \in Flow(Source)
         /\ Taken(n) \in Seq(Source)
         /\ SubSeq(stream[call.socket].wire, n + 1, Len(stream[call.socket].wire)) \in Seq(Source)
<1>1. Running /\ stream[call.socket] \in Flow(Source)
  BY DEF In, Running, Blocking, Streams
<1>2. PICK w \in Seq(Source) : w = stream[call.socket].wire
  BY <1>1 DEF Flow
<1>3. n \in 1..Len(w) /\ Len(w) \in Nat
  BY <1>2, LenProperties DEF Wire
<1>4. SubSeq(w, 1, n) \in Seq(Source)
  <2>1. \A i \in 1..n : w[i] \in Source
    BY <1>3, ElementOfSeq
  <2> QED BY <1>3, <2>1, SubSeqProperties
<1>5. SubSeq(w, n + 1, Len(w)) \in Seq(Source)
  <2>1. \A i \in (n + 1)..Len(w) : w[i] \in Source
    BY <1>3, ElementOfSeq
  <2> QED BY <1>3, <2>1, SubSeqProperties
<1>6. call.read \in Seq(Source)
  BY <1>1, RunningFacts
<1>7. Taken(n) \in Seq(Source)
  BY <1>2, <1>4, <1>6, ConcatProperties DEF Taken
<1> QED BY <1>1, <1>2, <1>5, <1>7

LEMMA RecvPartStep == ASSUME Blocking, NEW n \in Wire, RecvPart(n) PROVE Blocking'
<1>1. /\ In("reading") /\ UNCHANGED <<vars, last, lost>> /\ UNCHANGED key
      /\ call' = [call EXCEPT !.read = Taken(n)]
      /\ stream' = [stream EXCEPT ![call.socket].wire = SubSeq(@, n + 1, Len(@))]
  BY DEF RecvPart, Receives, vars
<1>2. /\ Running /\ stream[call.socket] \in Flow(Source) /\ Taken(n) \in Seq(Source)
      /\ SubSeq(stream[call.socket].wire, n + 1, Len(stream[call.socket].wire)) \in Seq(Source)
  BY <1>1, TakenFacts
<1>3. /\ call' \in CallRecords /\ call'.stage = "reading"
      /\ call'.socket = call.socket /\ call'.host = call.host
  BY <1>1, <1>2, CallIsRecord DEF CallRecords, In
<1>4. CallOK' /\ Running' /\ Source' = Source /\ Pooled' = Pooled
  BY <1>1, <1>2, <1>3, CallMoves
<1>5. Calm' /\ Accounted'
  BY <1>1, <1>2, <1>3, <1>4, PoolKept
<1> DEFINE f == [stream[call.socket] EXCEPT !.wire = SubSeq(@, n + 1, Len(@))]
<1>6. f \in Flow(Source)
  BY <1>2 DEF Flow
<1>7. stream' = [stream EXCEPT ![call.socket] = f]
  BY <1>1
<1>8. Streams'
  BY <1>1, <1>2, <1>3, <1>4, <1>6, <1>7, StreamSet DEF Streams
<1> QED BY <1>4, <1>5, <1>8 DEF Blocking

\* An answer, or none: the call is over but for the connection.
LEMMA EndsFacts ==
  ASSUME Blocking, Running, NEW got \in {InternalError} \cup Source, Ends(got), last' = last
  PROVE  /\ CallOK' /\ Running' /\ Source' = Source /\ Pooled' = Pooled
         /\ call'.socket = call.socket /\ call'.host = call.host
         /\ ~In("connected")' /\ ~In("reading")'
<1>1. <<>> \in Seq(Source)
  BY EmptySeq
<1>2. /\ call' \in CallRecords /\ call'.stage = "answered"
      /\ call'.socket = call.socket /\ call'.host = call.host
  BY <1>1, CallIsRecord DEF CallRecords, Stages, Ends
<1>3. CallOK' /\ Running' /\ Source' = Source /\ Pooled' = Pooled
  BY <1>2, CallMoves
<1> QED BY <1>2, <1>3 DEF In

LEMMA RecvAllStep == ASSUME Blocking, NEW n \in Wire, RecvAll(n) PROVE Blocking'
<1>1. /\ In("reading") /\ UNCHANGED <<vars, last, lost>> /\ UNCHANGED key
      /\ Ends(Taken(n)[1]) /\ Whole(Taken(n))
      /\ stream' = [stream EXCEPT ![call.socket].wire = SubSeq(@, n + 1, Len(@))]
  BY DEF RecvAll, Receives, vars
<1>2. /\ Running /\ stream[call.socket] \in Flow(Source) /\ Taken(n) \in Seq(Source)
      /\ SubSeq(stream[call.socket].wire, n + 1, Len(stream[call.socket].wire)) \in Seq(Source)
  BY <1>1, TakenFacts
<1>3. Taken(n)[1] \in Source
  <2>1. 1 \in 1..Len(Taken(n))
    BY <1>1, <1>2, LenProperties DEF Whole
  <2> QED BY <1>2, <2>1, ElementOfSeq
<1>4. /\ CallOK' /\ Running' /\ Source' = Source /\ Pooled' = Pooled
      /\ call'.socket = call.socket /\ call'.host = call.host
      /\ ~In("connected")' /\ ~In("reading")'
  BY <1>1, <1>2, <1>3, EndsFacts
<1>5. Calm' /\ Accounted'
  BY <1>1, <1>2, <1>4, PoolKept
<1> DEFINE f == [stream[call.socket] EXCEPT !.wire = SubSeq(@, n + 1, Len(@))]
<1>6. f \in Flow(Source)
  BY <1>2 DEF Flow
<1>7. stream' = [stream EXCEPT ![call.socket] = f]
  BY <1>1
<1>8. Streams'
  BY <1>1, <1>2, <1>4, <1>6, <1>7, StreamSet DEF Streams
<1> QED BY <1>4, <1>5, <1>8 DEF Blocking

\* The connection of an exception is destroyed, and its slot stays.
LEMMA RecvThrowsStep == ASSUME IInv, Blocking, NEW n \in Wire, RecvThrows(n) PROVE Blocking'
<1>1. /\ In("reading") /\ UNCHANGED last /\ call' = NoCall
      /\ stream' = [stream EXCEPT ![call.socket] = Fresh]
      /\ IF Pooled THEN Drop(call.socket) /\ lost' = lost + 1 ELSE UNCHANGED <<vars, lost>>
  BY DEF RecvThrows
<1>2. Running /\ ~Running' /\ ~In("connected")' /\ ~In("reading")'
  BY <1>1 DEF In, Running, NoCall
<1>3. UNCHANGED key
  BY <1>1 DEF Drop, vars
<1>4. CallOK'
  <2>1. last' \in Nat
    BY <1>1 DEF Blocking, CallOK
  <2> QED BY <1>1, <1>2, <2>1 DEF CallOK
<1>5. Streams'
  BY <1>1, <1>2, <1>3, FreshFlow, StreamSet DEF Streams
<1>6. CASE Pooled
  <2>1. held = {call.socket}
    BY <1>2, <1>6, RunningFacts
  <2>2. UNCHANGED <<idle, filled, nulls, key, stop>> /\ held' = {} /\ closed' = {}
        /\ lost' = lost + 1
    BY <1>1, <1>6, <2>1 DEF Drop, Blocking, Calm
  <2>3. Calm'
    BY <1>2, <2>2 DEF Calm, Borrowed, Blocking
  <2>4. Accounted'
    <3>1. Cardinality(held) = 1 /\ Cardinality(held') = 0
      BY <2>1, <2>2, Single, Empty
    <3>2. Cardinality(idle) \in Nat /\ Cardinality(idle') = Cardinality(idle)
      BY <2>2, ConnSets DEF IInv, TypeOK
    <3> QED BY <2>2, <3>1, <3>2 DEF Blocking, Accounted, SlotsAreAccounted
  <2> QED BY <1>4, <1>5, <2>3, <2>4 DEF Blocking
<1>7. CASE ~Pooled
  <2>1. held = {} /\ UNCHANGED <<idle, filled, closed, nulls, held, key, stop, lost>>
    BY <1>1, <1>2, <1>7, RunningFacts DEF vars
  <2>2. Calm' /\ Accounted'
    BY <1>2, <2>1 DEF Calm, Borrowed, Blocking, Accounted, SlotsAreAccounted
  <2> QED BY <1>4, <1>5, <2>2 DEF Blocking
<1> QED BY <1>6, <1>7

LEMMA RecvNothingStep == ASSUME Blocking, RecvNothing PROVE Blocking'
<1>1. /\ Running /\ UNCHANGED <<vars, last, stream, lost>> /\ UNCHANGED key
      /\ Ends(IF call.read = <<>> THEN InternalError ELSE call.read[1])
  BY DEF RecvNothing, In, Running, vars
<1>2. (IF call.read = <<>> THEN InternalError ELSE call.read[1]) \in {InternalError} \cup Source
  <2>1. call.read \in Seq(Source)
    BY <1>1, RunningFacts
  <2>2. call.read # <<>> => 1 \in 1..Len(call.read)
    BY <2>1, EmptySeq
  <2> QED BY <2>1, <2>2, ElementOfSeq
<1>3. /\ CallOK' /\ Running' /\ Source' = Source /\ Pooled' = Pooled
      /\ call'.socket = call.socket /\ call'.host = call.host
      /\ ~In("connected")' /\ ~In("reading")'
  BY <1>1, <1>2, EndsFacts
<1>4. Calm' /\ Accounted' /\ Streams'
  BY <1>1, <1>3, PoolKept, StreamKept DEF Streams
<1> QED BY <1>3, <1>4 DEF Blocking

LEMMA DialStep == ASSUME Blocking, Dial PROVE Blocking'
<1>1. /\ Running /\ ~Pooled /\ UNCHANGED <<vars, last, lost>> /\ UNCHANGED key
      /\ call' = [call EXCEPT !.stage = "connected"]
      /\ stream' = [stream EXCEPT ![Own] = Fresh]
  BY DEF Dial, In, Running, Blocking, CallOK, vars
<1>2. /\ call' \in CallRecords /\ call'.stage = "connected"
      /\ call'.socket = call.socket /\ call'.host = call.host
  BY <1>1, CallIsRecord DEF CallRecords, Stages
<1>3. CallOK' /\ Running' /\ Source' = Source /\ Pooled' = Pooled
  BY <1>1, <1>2, CallMoves
<1>4. Calm' /\ Accounted'
  BY <1>1, <1>2, <1>3, PoolKept
<1>5. call.socket = Own
  BY <1>1 DEF Pooled
<1>6. Streams'
  BY <1>1, <1>2, <1>3, <1>5, FreshFlow, StreamSet DEF Streams
<1> QED BY <1>3, <1>4, <1>6 DEF Blocking

LEMMA DialFailsStep == ASSUME Blocking, DialFails PROVE Blocking'
<1>1. /\ Running /\ UNCHANGED <<vars, last, stream, lost>> /\ UNCHANGED key
      /\ Ends(InternalError)
  BY DEF DialFails, In, Running, vars
<1>2. /\ CallOK' /\ Running' /\ Source' = Source /\ Pooled' = Pooled
      /\ call'.socket = call.socket /\ call'.host = call.host
      /\ ~In("connected")' /\ ~In("reading")'
  BY <1>1, EndsFacts
<1>3. Calm' /\ Accounted' /\ Streams'
  BY <1>1, <1>2, PoolKept, StreamKept DEF Streams
<1> QED BY <1>2, <1>3 DEF Blocking

LEMMA AgainStep == ASSUME Blocking, Again PROVE Blocking'
<1>1. /\ Running /\ ~Pooled /\ UNCHANGED <<vars, last, stream, lost>> /\ UNCHANGED key
      /\ call' = [call EXCEPT !.stage = "dialing", !.attempt = @ + 1, !.got = InternalError]
  BY DEF Again, In, Running, vars
<1>2. /\ call' \in CallRecords /\ call'.stage = "dialing"
      /\ call'.socket = call.socket /\ call'.host = call.host
  <2>1. PICK a \in Int : a = call.attempt + 1
    BY <1>1, RunningFacts
  <2>2. call' = [call EXCEPT !.stage = "dialing", !.attempt = a, !.got = InternalError]
    BY <1>1, <2>1, Zenon
  <2> QED BY <1>1, <2>2, CallIsRecord DEF CallRecords, Stages
<1>3. CallOK' /\ Running' /\ Source' = Source /\ Pooled' = Pooled
  BY <1>1, <1>2, CallMoves
<1>4. Calm' /\ Accounted'
  BY <1>1, <1>2, <1>3, PoolKept
<1>5. Streams'
  BY <1>1, <1>2, StreamKept DEF Streams, In
<1> QED BY <1>3, <1>4, <1>5 DEF Blocking

LEMMA DoneStep == ASSUME Blocking, Done PROVE Blocking'
<1>1. /\ Running /\ ~Pooled /\ UNCHANGED <<vars, last, lost>> /\ UNCHANGED key
      /\ call' = NoCall /\ stream' = [stream EXCEPT ![Own] = Fresh]
  BY DEF Done, In, Running, vars
<1>2. ~Running' /\ ~In("connected")' /\ ~In("reading")'
  BY <1>1 DEF In, Running, NoCall
<1>3. CallOK'
  <2>1. last' \in Nat
    BY <1>1 DEF Blocking, CallOK
  <2> QED BY <1>1, <1>2, <2>1 DEF CallOK
<1>4. call.socket = Own
  BY <1>1 DEF Pooled
<1>5. Streams'
  BY <1>1, <1>2, <1>4, FreshFlow, StreamSet DEF Streams
<1>6. held = {} /\ UNCHANGED <<idle, filled, closed, nulls, held, key, stop, lost>>
  BY <1>1, RunningFacts DEF vars
<1>7. Calm' /\ Accounted'
  BY <1>2, <1>6 DEF Calm, Borrowed, Blocking, Accounted, SlotsAreAccounted
<1> QED BY <1>3, <1>5, <1>7 DEF Blocking

\* Servers move what they have to say, and add nothing.
LEMMA ServerSteps == ASSUME Blocking, NEW s \in Sockets, Writes(s) \/ HangsUp(s) PROVE Blocking'
<1>1. UNCHANGED <<vars, call, last, lost>> /\ UNCHANGED key
  BY DEF Writes, HangsUp, vars
<1>2. /\ Running' = Running /\ Pooled' = Pooled /\ Source' = Source
      /\ \A stage \in Stages : In(stage)' = In(stage)
      /\ CallOK' = CallOK
  BY <1>1 DEF Running, Pooled, Source, Ids, In, CallOK
<1>3. CallOK'
  BY <1>2 DEF Blocking
<1>4. Calm' /\ Accounted'
  BY <1>1, <1>2, PoolKept
<1>5. PICK f : stream' = [stream EXCEPT ![s] = f] /\ \A S : stream[s] \in Flow(S) => f \in Flow(S)
  <2>1. CASE Writes(s)
    <3> DEFINE f == [stream[s] EXCEPT !.todo = Tail(@), !.wire = Append(@, Head(stream[s].todo))]
    <3>1. stream[s].todo # <<>> /\ stream' = [stream EXCEPT ![s] = f]
      BY <2>1 DEF Writes
    <3>2. ASSUME NEW S, stream[s] \in Flow(S) PROVE f \in Flow(S)
      <4>1. stream[s].todo \in Seq(S) /\ stream[s].wire \in Seq(S)
        BY <3>2 DEF Flow
      <4>2. Tail(stream[s].todo) \in Seq(S) /\ Head(stream[s].todo) \in S
        BY <3>1, <4>1, HeadTailProperties
      <4>3. Append(stream[s].wire, Head(stream[s].todo)) \in Seq(S)
        BY <4>1, <4>2, AppendProperties
      <4> QED BY <3>2, <4>2, <4>3 DEF Flow
    <3> QED BY <3>1, <3>2
  <2>2. CASE HangsUp(s)
    <3> DEFINE f == [stream[s] EXCEPT !.todo = <<>>, !.up = FALSE]
    <3>1. stream' = [stream EXCEPT ![s] = f]
      BY <2>2 DEF HangsUp
    <3>2. ASSUME NEW S, stream[s] \in Flow(S) PROVE f \in Flow(S)
      BY <3>2, EmptySeq DEF Flow
    <3> QED BY <3>1, <3>2
  <2> QED BY <2>1, <2>2
<1>6. \A x \in Sockets : stream'[x] = IF x = s THEN f ELSE stream[x]
  BY <1>5 DEF Blocking, Streams
<1>7. Streams'
  <2>1. DOMAIN stream' = Sockets
    BY <1>5 DEF Blocking, Streams
  <2>2. ASSUME NEW c \in Conns PROVE stream'[c] \in Flow(Piece(key'[c], 1..last'))
    <3>1. stream[c] \in Flow(Piece(key[c], 1..last)) /\ c \in Sockets
      BY DEF Blocking, Streams, Sockets
    <3> QED BY <1>1, <1>5, <1>6, <3>1
  <2>3. ASSUME In("connected")' \/ In("reading")' PROVE stream'[call'.socket] \in Flow(Source')
    <3>1. Running /\ stream[call.socket] \in Flow(Source)
      BY <1>1, <2>3 DEF Blocking, Streams, In, Running
    <3>2. call.socket \in Sockets
      BY <3>1, RunningFacts
    <3> QED BY <1>1, <1>2, <1>5, <1>6, <3>1, <3>2
  <2> QED BY <2>1, <2>2, <2>3 DEF Streams
<1> QED BY <1>3, <1>4, <1>7 DEF Blocking

LEMMA StepBlocking == IInv /\ Blocking /\ [TransferNext]_allVars => Blocking'
<1> SUFFICES ASSUME IInv, Blocking, [TransferNext]_allVars PROVE Blocking'
  OBVIOUS
<1>1. ASSUME NEW k \in Keys, Borrow(k) PROVE Blocking'
  BY <1>1, BorrowIdleStep, BorrowNewStep DEF Borrow
<1>2. CASE ClientStep
  BY <1>2, SendStep, ReturnStep, RecvNothingStep, DialStep, DialFailsStep, AgainStep, DoneStep,
     RecvPartStep, RecvAllStep, RecvThrowsStep DEF ClientStep
<1>3. CASE ServerStep
  BY <1>3, ServerSteps DEF ServerStep
<1>4. CASE UNCHANGED allVars
  BY <1>4 DEF allVars, transferVars, vars, Blocking, CallOK, Streams, Calm, Accounted, Running,
              Pooled, Source, Ids, In, Borrowed, IdleFor, SlotsAreAccounted
<1> QED BY <1>1, <1>2, <1>3, <1>4, NoConnectionStep, GetStep DEF TransferNext

-----------------------------------------------------------------------------
(* What holds of blocking transfers                                        *)

LEMMA TransferInductive == TransferSpec => [](IInv /\ Blocking)
<1>1. TransferInit => IInv /\ Blocking
  BY InitIInv, InitBlocking DEF TransferInit
<1>2. IInv /\ Blocking /\ [TransferNext]_allVars => IInv' /\ Blocking'
  BY StepUsesPool, StepIInv, StepBlocking
<1> QED BY <1>1, <1>2, PTL DEF TransferSpec

\* Provider and HttpClient use the pool as its specification expects of an owner:
\* all that is proved about the pool holds of blocking transfers.
THEOREM TransfersUsePool == TransferSpec => Spec
<1>1. TransferInit => Init
  BY DEF TransferInit
<1> QED BY <1>1, TransferInductive, StepUsesPool, PTL DEF TransferSpec, Spec

\* What a call returns was said by the host it asked; on a socket of its own it is
\* the answer to this very call, also after earlier attempts.
THEOREM AnswersComeFromHost == TransferSpec => []AnswerFromHost
<1>1. Blocking => AnswerFromHost
  <2> SUFFICES ASSUME Blocking, Answered
               PROVE  call.got.host = call.host /\ (~Pooled => call.got.of = last)
    BY DEF AnswerFromHost
  <2>1. Running /\ call.got.of # 0
    BY DEF Answered, In, Running
  <2>2. call.got \in Source
    <3>1. InternalError.of = 0
      BY DEF InternalError
    <3> QED BY <2>1, <3>1, RunningFacts
  <2> QED BY <2>2 DEF Source, Piece, Ids
<1> QED BY <1>1, TransferInductive, PTL

\* The pool has one slot for every connection lent or idle, and one more for every
\* exception that left recvResponse: those are lost for good.
THEOREM LostSlotsAreExceptions == TransferSpec => []SlotsAreAccounted
<1>1. Blocking => SlotsAreAccounted
  BY DEF Blocking, Accounted
<1> QED BY <1>1, TransferInductive, PTL

\* No connection is ever displaced to a slot of pool_ or found there: with one call
\* at a time the second step of getConnection is never taken.
NothingDisplaced == filled = {} /\ \A k \in Keys : FilledFor(k) = {}

THEOREM TransfersDisplaceNothing == TransferSpec => []NothingDisplaced
<1>1. Blocking => NothingDisplaced
  BY DEF Blocking, Calm, NothingDisplaced, FilledFor
<1> QED BY <1>1, TransferInductive, PTL
=============================================================================
