--------------------------- MODULE ConnectionPool ---------------------------
(***************************************************************************)
(* network::ConnectionManager, the connection pool of one event loop (no   *)
(* locks: one thread owns it).  A connection that is lent out leaves its   *)
(* unique_ptr slot of pool_ empty, and so does one that waits in idle_:    *)
(* pool_.size() is the number of connections there are, and the cap on     *)
(* connections is a cap on slots.  Which empty slot is used makes no       *)
(* difference, so pool_ is its filled slots and the number of empty ones.  *)
(***************************************************************************)
EXTENDS Integers, FiniteSets

CONSTANTS
  Conns,           \* identities for connections; one is reused once destroyed
  Keys,            \* "host:port:tls" lookup keys
  MaxConnections,  \* max_connections_
  MaySweep,        \* whether the owner calls closeIdleConnections
  MayDrop          \* whether a holder may be destroyed without returning

ASSUME ConnsAssumption == IsFiniteSet(Conns)
ASSUME MaxAssumption == MaxConnections \in Nat
ASSUME FlagAssumption == MaySweep \in BOOLEAN /\ MayDrop \in BOOLEAN

VARIABLES
  idle,    \* connections in idle_, at most one per key
  filled,  \* connections in slots of pool_
  nulls,   \* number of empty slots of pool_
  held,    \* connections lent to messages
  closed,  \* connections whose state is CLOSED
  key,     \* the key of each connection
  answer,  \* how the last getConnection ended
  stop     \* stop_

vars == <<idle, filled, nulls, held, closed, key, answer, stop>>

Live == idle \cup filled \cup held
PoolSize == Cardinality(filled) + nulls

Init ==
  /\ idle = {} /\ filled = {} /\ held = {} /\ closed = {}
  /\ nulls = 0
  /\ key \in [Conns -> Keys]
  /\ answer = "none"
  /\ stop = FALSE

-----------------------------------------------------------------------------
(* getConnection                                                           *)

\* Mutant: the key leaves out the host.
IdleForAny(k) == idle
IdleFor(k) == {c \in idle : key[c] = k}
FilledFor(k) == {c \in filled \ closed : key[c] = k}

\* Step 1: a hit in idle_.
TakeIdle(k) ==
  /\ ~stop
  /\ \E c \in IdleFor(k) :
       /\ idle' = idle \ {c}
       /\ held' = held \cup {c}
  /\ answer' = "reused"
  /\ UNCHANGED <<filled, nulls, closed, key, stop>>

\* Step 2: an idle connection that sits in a slot, which becomes empty.
\* Mutants: the slot is taken out with its connection; the connection stays.
TakeFilledAndSlot(k) ==
  /\ ~stop
  /\ IdleFor(k) = {}
  /\ \E c \in FilledFor(k) :
       /\ filled' = filled \ {c}
       /\ held' = held \cup {c}
  /\ answer' = "reused"
  /\ UNCHANGED <<idle, nulls, closed, key, stop>>

TakeFilledTwice(k) ==
  /\ ~stop
  /\ IdleFor(k) = {}
  /\ \E c \in FilledFor(k) : held' = held \cup {c}
  /\ nulls' = nulls + 1
  /\ answer' = "reused"
  /\ UNCHANGED <<idle, filled, closed, key, stop>>

TakeFilled(k) ==
  /\ ~stop
  /\ IdleFor(k) = {}
  /\ \E c \in FilledFor(k) :
       /\ filled' = filled \ {c}
       /\ held' = held \cup {c}
  /\ nulls' = nulls + 1
  /\ answer' = "reused"
  /\ UNCHANGED <<idle, closed, key, stop>>

NoneFor(k) == IdleFor(k) = {} /\ FilledFor(k) = {}

\* A full pool first drops the closed connections among its slots.
Kept == IF PoolSize < MaxConnections THEN filled ELSE filled \ closed
\* Mutant: one connection too many.
RoomForOneMore == Cardinality(Kept) + nulls <= MaxConnections
Room == Cardinality(Kept) + nulls < MaxConnections

\* Step 3: connect; the slot of the new connection is empty from the start.
Create(k) ==
  /\ ~stop
  /\ NoneFor(k)
  /\ Room
  /\ \E c \in Conns \ Live :
       /\ held' = held \cup {c}
       /\ key' = [key EXCEPT ![c] = k]
  /\ filled' = Kept
  /\ closed' = closed \ (filled \ Kept)
  /\ nulls' = nulls + 1
  /\ answer' = "created"
  /\ UNCHANGED <<idle, stop>>

\* Name resolution or the handshake failed: nullptr, and no slot is taken.
CreateFails(k) ==
  /\ ~stop
  /\ NoneFor(k)
  /\ Room
  /\ filled' = Kept
  /\ closed' = closed \ (filled \ Kept)
  /\ answer' = "failed"
  /\ UNCHANGED <<idle, nulls, held, key, stop>>

Exhausted(k) ==
  /\ ~stop
  /\ NoneFor(k)
  /\ ~Room
  /\ filled' = Kept
  /\ closed' = closed \ (filled \ Kept)
  /\ answer' = "exhausted"
  /\ UNCHANGED <<idle, nulls, held, key, stop>>

-----------------------------------------------------------------------------
(* Holders, and returnConnection                                           *)

\* HTTPMessage::reset disconnects what it is about to return.
Disconnect(c) ==
  /\ ~stop
  /\ c \in held \ closed
  /\ closed' = closed \cup {c}
  /\ UNCHANGED <<idle, filled, nulls, held, key, answer, stop>>

\* A dead connection gives its slot back and is destroyed.
ReturnClosed(c) ==
  /\ ~stop
  /\ c \in held \cap closed
  /\ held' = held \ {c}
  /\ closed' = closed \ {c}
  /\ nulls' = IF nulls > 0 THEN nulls - 1 ELSE nulls
  /\ UNCHANGED <<idle, filled, key, answer, stop>>

\* A healthy one goes to idle_; the one it finds there moves to an empty slot.
\* Without an empty slot the old one is erased, and then used (line 143).
\* Mutant: the state of the connection is not looked at.
ReturnAsHealthy(c) ==
  /\ ~stop
  /\ c \in held
  /\ LET old == IdleFor(key[c]) IN
       /\ idle' = (idle \ old) \cup {c}
       /\ filled' = IF nulls > 0 THEN filled \cup old ELSE filled
       /\ nulls' = IF old # {} /\ nulls > 0 THEN nulls - 1 ELSE nulls
  /\ held' = held \ {c}
  /\ UNCHANGED <<closed, key, answer, stop>>

\* Mutant: the connection goes to a slot of its own.
ReturnToNewSlot(c) ==
  /\ ~stop
  /\ c \in held \ closed
  /\ filled' = filled \cup {c}
  /\ held' = held \ {c}
  /\ UNCHANGED <<idle, nulls, closed, key, answer, stop>>

ReturnHealthy(c) ==
  /\ ~stop
  /\ c \in held \ closed
  /\ LET old == IdleFor(key[c]) IN
       /\ idle' = (idle \ old) \cup {c}
       /\ filled' = IF nulls > 0 THEN filled \cup old ELSE filled
       /\ nulls' = IF old # {} /\ nulls > 0 THEN nulls - 1 ELSE nulls
  /\ held' = held \ {c}
  /\ UNCHANGED <<closed, key, answer, stop>>

\* The message or the task that holds it is destroyed: nobody tells the pool.
Drop(c) ==
  /\ ~stop
  /\ MayDrop
  /\ c \in held
  /\ held' = held \ {c}
  /\ closed' = closed \ {c}
  /\ UNCHANGED <<idle, filled, nulls, key, answer, stop>>

-----------------------------------------------------------------------------
(* closeIdleConnections and closeAll                                       *)

\* The connections of old have been idle for more than max_idle_seconds_.
CloseIdle(old) ==
  /\ ~stop
  /\ MaySweep
  /\ idle' = idle \ old
  /\ filled' = filled \ old
  /\ nulls' = nulls + Cardinality(filled \cap old)
  /\ UNCHANGED <<held, closed, key, answer, stop>>

CloseAll ==
  /\ ~stop
  /\ stop' = TRUE
  /\ idle' = {} /\ filled' = {} /\ nulls' = 0
  /\ closed' = closed \cap held
  /\ UNCHANGED <<held, key, answer>>

Next ==
  \/ \E k \in Keys : \/ TakeIdle(k) \/ TakeFilled(k)
                     \/ Create(k) \/ CreateFails(k) \/ Exhausted(k)
  \/ \E c \in Conns : Disconnect(c) \/ ReturnClosed(c) \/ ReturnHealthy(c) \/ Drop(c)
  \/ \E old \in SUBSET (idle \cup (filled \ closed)) : CloseIdle(old)
  \/ CloseAll

Spec == Init /\ [][Next]_vars

-----------------------------------------------------------------------------
(* Properties                                                              *)

TypeOK ==
  /\ idle \subseteq Conns /\ filled \subseteq Conns /\ held \subseteq Conns
  /\ closed \subseteq Conns
  /\ nulls \in Nat
  /\ key \in [Conns -> Keys]
  /\ answer \in {"none", "reused", "created", "failed", "exhausted"}
  /\ stop \in BOOLEAN

\* A connection is in one place only, so two messages never share a socket.
OneOwner ==
  /\ idle \cap filled = {} /\ idle \cap held = {} /\ filled \cap held = {}
  /\ \A c, d \in idle : key[c] = key[d] => c = d

\* What getConnection can hand out again is not closed: the scan of a full
\* pool (lines 90-95, whose erase-and-decrement is undefined at the first slot)
\* never finds anything to erase.
ReusableIsOpen == (idle \cup filled) \cap closed = {}

\* Every lent connection and every one in idle_ has an empty slot, so
\* returnConnection always finds one for the connection it displaces and never
\* reaches the use of an erased iterator at line 143.
SlotForEveryone == ~stop => nulls >= Cardinality(held) + Cardinality(idle)

\* There are never more connections, lent or idle, than the pool's maximum,
\* although the pool counts slots and not connections.
CapHolds == Cardinality(Live) <= MaxConnections

\* The comment on pool_: an empty slot stands for a connection that is in use
\* or in idle_.
EmptySlotIsLent == ~stop => nulls = Cardinality(held) + Cardinality(idle)

=============================================================================
