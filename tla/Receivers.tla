------------------------------ MODULE Receivers ------------------------------
(***************************************************************************)
(* What the threads of a TaskedSendReceiverGroup share: the receivers,     *)
(* lent through handles and cached in between, and the vectors of results, *)
(* which go from an ended message to a pool and from there to a message    *)
(* that has no memory yet.  The queues are utils::RingBuffer, whose        *)
(* operations take effect at one instant (BoundedQueue).  The loop inside  *)
(* a receiver is EventLoop; here it takes messages, receives for them,     *)
(* ends them, and may return between any two of these steps.               *)
(***************************************************************************)
EXTENDS Integers, Sequences, FiniteSets, SequencesExt

CONSTANTS
  Receivers,    \* receivers that may exist at a time (a bound)
  Handles,      \* handle objects; one that holds nothing may also not exist
  Msgs,         \* messages; m is also the vector m was constructed with
  Bring,        \* messages that are given a buffer of the caller
  Submissions,  \* capacity of the queue and of the cache of receivers
  Reuse,        \* capacity of the pool of vectors
  Concurrent,   \* _concurrentRequests
  MayThrow,     \* whether execute() may throw
  None          \* null

ASSUME BringAssumption == Bring \subseteq Msgs
ASSUME NoneAssumption == None \notin Receivers \cup Msgs
ASSUME CapacityAssumption ==
  {Submissions, Reuse, Concurrent} \subseteq Nat \ {0} /\ MayThrow \in BOOLEAN

VARIABLES
  handle,       \* the receiver each handle holds
  cached,       \* _sendReceiverCache
  receiver,     \* each receiver: exists, has a connection manager, its loop,
                \* whether firstException is set, its own queue, its tasks
  submissions,  \* _submissions
  pool,         \* _reuse
  message,      \* each message: status, vector, what finish() found in it
  memory        \* each vector: has capacity, whose bytes it holds

vars == <<handle, cached, receiver, submissions, pool, message, memory>>

NewReceiver == [alive |-> TRUE, managed |-> TRUE, loop |-> "out",
                failing |-> FALSE, own |-> <<>>, tasks |-> {}]
Erased == [NewReceiver EXCEPT !.alive = FALSE]

Init ==
  /\ handle = [h \in Handles |-> None]
  /\ cached = <<>> /\ submissions = <<>> /\ pool = <<>>
  /\ receiver = [r \in Receivers |-> Erased]
  /\ message = [m \in Msgs |-> [status |-> "new", vector |-> m, seen |-> {}]]
  /\ memory = [v \in Msgs |-> [grown |-> v \in Bring, bytes |-> {}]]

Become(ms, s) == message' = [m \in Msgs |->
  IF m \in ms THEN [message[m] EXCEPT !.status = s] ELSE message[m]]

-----------------------------------------------------------------------------
(* Handles                                                                 *)

Held(h) == handle[h] # None
AtRest(h) == Held(h) /\ receiver[handle[h]].loop = "out"

GetCached(h) ==
  /\ ~Held(h) /\ cached # <<>>
  /\ handle' = [handle EXCEPT ![h] = Head(cached)]
  /\ cached' = Tail(cached)
  /\ UNCHANGED <<receiver, submissions, pool, message, memory>>

GetNew(h) ==
  /\ ~Held(h) /\ cached = <<>>
  /\ \E r \in Receivers :
       /\ ~receiver[r].alive
       /\ receiver' = [receiver EXCEPT ![r] = NewReceiver]
       /\ handle' = [handle EXCEPT ![h] = r]
  /\ UNCHANGED <<cached, submissions, pool, message, memory>>

\* reset(): what is queued or running is forgotten, without an answer.
ResetTo(r, state) ==
  /\ receiver' = [receiver EXCEPT ![r] = state]
  /\ Become(receiver[r].tasks \cup ToSet(receiver[r].own), "dropped")
Rested(r) == [receiver[r] EXCEPT !.own = <<>>, !.tasks = {}]

Release(h) ==
  /\ AtRest(h)
  /\ Len(cached) < Submissions
  /\ ResetTo(handle[h], Rested(handle[h]))
  /\ cached' = Append(cached, handle[h])
  /\ handle' = [handle EXCEPT ![h] = None]
  /\ UNCHANGED <<submissions, pool, memory>>

ReleaseToFull(h) ==
  /\ AtRest(h)
  /\ Len(cached) >= Submissions
  /\ ResetTo(handle[h], Erased)
  /\ handle' = [handle EXCEPT ![h] = None]
  /\ UNCHANGED <<cached, submissions, pool, memory>>

\* Mutant: the source keeps its receiver.
MovedShared(h, g) == handle' = [handle EXCEPT ![h] = handle[g]]

Moved(h, g) == handle' = [handle EXCEPT ![h] = handle[g], ![g] = None]

\* The move constructor, or an assignment to a handle that holds nothing.
MoveInto(h, g) ==
  /\ h # g /\ ~Held(h) /\ AtRest(g)
  /\ Moved(h, g)
  /\ UNCHANGED <<cached, receiver, submissions, pool, message, memory>>

\* The assignment does not look at what insert() says of a full cache.
MoveOver(h, g) ==
  /\ h # g /\ AtRest(h) /\ (Held(g) => AtRest(g))
  /\ ResetTo(handle[h], Rested(handle[h]))
  /\ cached' = IF Len(cached) < Submissions THEN Append(cached, handle[h]) ELSE cached
  /\ Moved(h, g)
  /\ UNCHANGED <<submissions, pool, memory>>

\* The group is destroyed after its handles, and another one is constructed.
NewGroup ==
  /\ \A h \in Handles : ~Held(h)
  /\ cached' = <<>> /\ submissions' = <<>> /\ pool' = <<>>
  /\ receiver' = [r \in Receivers |-> Erased]
  /\ Become(ToSet(submissions), "dropped")
  /\ UNCHANGED <<handle, memory>>

-----------------------------------------------------------------------------
(* Requests                                                                *)

Send(m) ==
  /\ message[m].status = "new"
  /\ Len(submissions) < Submissions
  /\ submissions' = Append(submissions, m)
  /\ Become({m}, "queued")
  /\ UNCHANGED <<handle, cached, receiver, pool, memory>>

SendSync(h, m) ==
  /\ message[m].status = "new"
  /\ AtRest(h)
  /\ receiver' = [receiver EXCEPT ![handle[h]].own = Append(@, m)]
  /\ Become({m}, "queued")
  /\ UNCHANGED <<handle, cached, submissions, pool, memory>>

\* process() or processSync().  The loop asks the connection manager for its
\* socket in its first round, whatever there is to do.
Enter(h) ==
  /\ AtRest(h)
  /\ \E queue \in {"group", "own"} :
       receiver' = [receiver EXCEPT ![handle[h]].failing = FALSE,
         ![handle[h]].loop = IF receiver[handle[h]].managed THEN queue ELSE "crashed"]
  /\ UNCHANGED <<handle, cached, submissions, pool, message, memory>>

\* An exception is thrown on to the caller; the connections are closed first.
Leave(r) ==
  /\ receiver[r].loop \in {"group", "own"}
  /\ receiver' = [receiver EXCEPT ![r].loop = "out", ![r].managed = ~receiver[r].failing]
  /\ UNCHANGED <<handle, cached, submissions, pool, message, memory>>

-----------------------------------------------------------------------------
(* The loop of a receiver                                                  *)

Waiting(r) == CASE receiver[r].loop = "own" -> receiver[r].own
                [] receiver[r].loop = "group" -> submissions
                [] OTHER -> <<>>

First(r) == Head(Waiting(r))

\* A message without memory gets a vector of the pool, with what it holds.
NeedsMemory(m) == ~memory[message[m].vector].grown
VectorFor(m) == IF NeedsMemory(m) /\ pool # <<>> THEN Head(pool) ELSE message[m].vector

\* The first message leaves its queue, as a task if it has not ended by that.
Take(r, status, throws) ==
  /\ Waiting(r) # <<>>
  /\ ~receiver[r].failing /\ Cardinality(receiver[r].tasks) < Concurrent
  /\ LET m == First(r) IN
       /\ message' = [message EXCEPT ![m].status = status, ![m].vector = VectorFor(m)]
       /\ pool' = IF VectorFor(m) = message[m].vector THEN pool ELSE Tail(pool)
       /\ receiver' = [receiver EXCEPT
            ![r].own = IF receiver[r].loop = "own" THEN Tail(@) ELSE @,
            ![r].tasks = IF status = "running" THEN @ \cup {m} ELSE @,
            ![r].failing = throws]
  /\ submissions' = IF receiver[r].loop = "group" THEN Tail(submissions) ELSE submissions
  /\ UNCHANGED <<handle, cached>>

Start(r) == Take(r, "running", FALSE) /\ UNCHANGED memory
StartThrows(r) == MayThrow /\ Take(r, "thrown", TRUE) /\ UNCHANGED memory

\* A failure is retried once at least, and a retry clears the result.
Cleared(v) == memory' = [memory EXCEPT ![v].bytes = {}]
StartAborts(r) == Take(r, "aborted", FALSE) /\ Cleared(VectorFor(First(r)))

Executes(r, m) ==
  /\ receiver[r].loop \in {"group", "own"}
  /\ m \in receiver[r].tasks /\ message[m].status \in {"running", "receiving"}

\* Mutant: what the vector held is not cleared.
ReceivedBehind(v, m) ==
  memory' = [memory EXCEPT ![v] = [grown |-> TRUE, bytes |-> @.bytes \cup {m}]]

\* The result is cleared when the request is out; then bytes are received.
Received(v, m) == memory' = [memory EXCEPT ![v] = [grown |-> TRUE, bytes |-> {m}]]

Receive(r, m) ==
  /\ Executes(r, m)
  /\ Received(message[m].vector, m)
  /\ Become({m}, "receiving")
  /\ UNCHANGED <<handle, cached, receiver, submissions, pool>>

\* Mutant: the pool gets the vector that the result keeps.
MoveVectorKept(m, status) == message' = [message EXCEPT ![m] =
  [status |-> status, vector |-> @.vector, seen |-> memory'[@.vector].bytes]]

\* finish() reads the result, then its vector is moved out of it.
MoveVector(m, status) == message' = [message EXCEPT ![m] =
  [status |-> status, vector |-> None, seen |-> memory'[@.vector].bytes]]

\* A vector that finds the pool full is released and lost.
End(r, m, status) ==
  /\ Executes(r, m)
  /\ MoveVector(m, status)
  /\ pool' = IF Len(pool) < Reuse THEN Append(pool, message[m].vector) ELSE pool
  /\ receiver' = [receiver EXCEPT ![r].tasks = @ \ {m}]
  /\ UNCHANGED <<handle, cached, submissions>>

Finish(r, m) ==
  /\ message[m].status = "receiving"
  /\ UNCHANGED memory
  /\ End(r, m, "finished")

Abort(r, m) ==
  /\ IF message[m].status = "receiving" THEN UNCHANGED memory
                                         ELSE Cleared(message[m].vector)
  /\ End(r, m, "aborted")

\* The task stays, without I/O, until the receiver is reset.
Throw(r, m) ==
  /\ MayThrow
  /\ Executes(r, m)
  /\ Become({m}, "thrown")
  /\ receiver' = [receiver EXCEPT ![r].failing = TRUE]
  /\ UNCHANGED <<handle, cached, submissions, pool, memory>>

HandleStep(h) ==
  \/ GetCached(h) \/ GetNew(h) \/ Release(h) \/ ReleaseToFull(h) \/ Enter(h)
  \/ \E g \in Handles : MoveInto(h, g) \/ MoveOver(h, g)
  \/ \E m \in Msgs : SendSync(h, m)

LoopStep(r) ==
  \/ Start(r) \/ StartAborts(r) \/ StartThrows(r) \/ Leave(r)
  \/ \E m \in Msgs : Receive(r, m) \/ Finish(r, m) \/ Abort(r, m) \/ Throw(r, m)

Next ==
  \/ \E h \in Handles : HandleStep(h)
  \/ \E r \in Receivers : LoopStep(r)
  \/ \E m \in Msgs : Send(m)
  \/ NewGroup

Spec == Init /\ [][Next]_vars

-----------------------------------------------------------------------------
(* Properties                                                              *)

Statuses == {"new", "queued", "running", "receiving", "finished", "aborted",
             "thrown", "dropped"}

ReceiverStates ==
  [alive : BOOLEAN, managed : BOOLEAN, failing : BOOLEAN, own : Seq(Msgs),
   loop : {"out", "group", "own", "crashed"}, tasks : SUBSET Msgs]
MessageStates == [status : Statuses, vector : Msgs \cup {None}, seen : SUBSET Msgs]

\* The variables have their types, and the bounded queues their capacity.
TypeOK ==
  /\ handle \in [Handles -> Receivers \cup {None}]
  /\ cached \in Seq(Receivers) /\ Len(cached) <= Submissions
  /\ submissions \in Seq(Msgs) /\ Len(submissions) <= Submissions
  /\ pool \in Seq(Msgs) /\ Len(pool) <= Reuse
  /\ receiver \in [Receivers -> ReceiverStates]
  /\ message \in [Msgs -> MessageStates]
  /\ memory \in [Msgs -> [grown : BOOLEAN, bytes : SUBSET Msgs]]

\* A receiver is held by one handle or cached once, never both, and exists as
\* long as it is: no two threads run one receiver, none runs a destroyed one.
\* What is cached is out of its loop and has nothing left of its last holder.
LentOnce ==
  /\ \A h, g \in Handles : Held(h) /\ handle[h] = handle[g] => h = g
  /\ IsInjective(cached)
  /\ \A h \in Handles : Held(h) => /\ handle[h] \notin ToSet(cached)
                                   /\ receiver[handle[h]].alive
  /\ \A r \in ToSet(cached) : /\ receiver[r].alive /\ receiver[r].loop = "out"
                              /\ receiver[r].own = <<>> /\ receiver[r].tasks = {}

\* A vector belongs to one result or is in the pool once: no two messages
\* receive into the same memory.
VectorHasOneOwner ==
  /\ \A m, n \in Msgs : message[m].vector = message[n].vector /\ m # n
       => message[m].vector = None
  /\ IsInjective(pool)
  /\ \A m \in Msgs : message[m].vector \notin ToSet(pool)

\* What the callback of a message finds was received for this message, and for
\* a finished one something was: nothing of the vector's earlier owners.
CallbackReadsOwn ==
  \A m \in Msgs : /\ message[m].seen \subseteq {m}
                  /\ message[m].status = "finished" => message[m].seen = {m}

\* "RAII": a handle's receiver can be run (tasked_send_receiver.hpp:60).
RunsWithManager == \A r \in Receivers : receiver[r].loop # "crashed"

\* A message receives into memory of its own, or of the library.
WritesNoForeignBuffer ==
  \A m \in Msgs : message[m].status \in {"running", "receiving"}
    => message[m].vector = m \/ message[m].vector \notin Bring

\* README.md:162 prints getResult() of the messages after execute().
ResultStays ==
  \A m \in Msgs : message[m].status = "finished"
    => message[m].vector # None /\ memory[message[m].vector].bytes = {m}

\* Every receiver is at hand: held or cached.
NoneStranded ==
  \A r \in Receivers : receiver[r].alive
    => r \in ToSet(cached) \/ \E h \in Handles : handle[h] = r
=============================================================================
