----------------------------- MODULE RingBuffer -----------------------------
(***************************************************************************)
(* utils::RingBuffer<T>: the multi-producer multi-consumer queue through   *)
(* which requests reach the event loops (Group::_submissions), and in      *)
(* which receivers and result buffers are recycled.  One spin lock per     *)
(* side; a side reads the other side's "commited" counter without the      *)
(* other side's lock.                                                      *)
(*                                                                         *)
(* Grain: every access to memory that another thread may touch at that     *)
(* moment is a step of its own.  The "pending" counter of a side is read   *)
(* and written only by the holder of that side's lock, so its load, the    *)
(* capacity test and its fetch_add are folded into the load of the other   *)
(* side's counter that precedes them.  The atomics are release/acquire     *)
(* pairs around every slot access, so steps interleave sequentially        *)
(* consistently.  The counters are 64 bits wide and start at 0: no run of  *)
(* the program wraps them, and they are natural numbers here.              *)
(***************************************************************************)
EXTENDS Integers, Sequences

CONSTANTS
  Producers,    \* threads that insert
  Consumers,    \* threads that consume
  Values,       \* the elements
  Batches,      \* the argument vectors; a one-element one is insert()
  Size,         \* _size
  None,         \* a default-constructed slot, and std::nullopt
  MaxInserted   \* bound: no operation starts that could insert beyond it

ASSUME SizeAssumption == Size \in Nat \ {0}
ASSUME BatchAssumption == Batches \subseteq Seq(Values)
ASSUME ThreadAssumption == Producers \cap Consumers = {}
ASSUME BoundAssumption == MaxInserted \in Nat

VARIABLES
  buffer,        \* _buffer
  insPending,    \* _insert.pending
  insCommitted,  \* _insert.commited
  insMutex,      \* _insert.mutex.bit
  seenPending,   \* _seen.pending
  seenCommitted, \* _seen.commited
  seenMutex,     \* _seen.mutex.bit
  pc,            \* where each thread is
  wait,          \* template parameter of the running operation
  batch,         \* per producer: the elements being inserted
  written,       \* per producer: slots written so far (the loop at 87-90)
  cur,           \* curInsert of a producer, curSeen of a consumer
  val,           \* per consumer: the element read from the slot
  ticket,        \* per producer: result of its last insert, -1 for ~0ull
  got            \* per consumer: result of its last consume

counters == <<insPending, insCommitted, seenPending, seenCommitted>>
locals == <<wait, batch, written, cur, val>>
results == <<ticket, got>>
vars == <<buffer, counters, insMutex, seenMutex, pc, locals, results>>

Threads == Producers \cup Consumers
Slot(pos) == pos % Size

Init ==
  /\ buffer = [i \in 0..Size-1 |-> None]
  /\ insPending = 0 /\ insCommitted = 0 /\ insMutex = FALSE
  /\ seenPending = 0 /\ seenCommitted = 0 /\ seenMutex = FALSE
  /\ pc = [t \in Threads |-> "idle"]
  /\ wait = [t \in Threads |-> FALSE]
  /\ batch = [p \in Producers |-> <<>>]
  /\ written = [p \in Producers |-> 0]
  /\ cur = [t \in Threads |-> 0]
  /\ val = [c \in Consumers |-> None]
  /\ ticket = [p \in Producers |-> -1]
  /\ got = [c \in Consumers |-> None]

-----------------------------------------------------------------------------
(* insert() and insertAll()                                                *)

\* A caller enters insert<w>(x) or insertAll<w>(s).
StartInsert(p, s, w) ==
  /\ pc[p] = "idle"
  /\ insPending + Len(s) <= MaxInserted
  /\ pc' = [pc EXCEPT ![p] = "insLock"]
  /\ batch' = [batch EXCEPT ![p] = s]
  /\ wait' = [wait EXCEPT ![p] = w]
  /\ UNCHANGED <<buffer, counters, insMutex, seenMutex, written, cur, val, results>>

\* The compare-exchange that succeeds; a failing one changes nothing.
LockInsert(p) ==
  /\ pc[p] = "insLock"
  /\ ~insMutex
  /\ insMutex' = TRUE
  /\ pc' = [pc EXCEPT ![p] = "insCheck"]
  /\ UNCHANGED <<buffer, counters, seenMutex, locals, results>>

\* Mutant: the consumers' claim is taken for their commit.
FitsClaimed(n) == n <= Size /\ insPending - seenPending < Size + 1 - n

\* seenHead = _seen.commited, then the capacity test.
Fits(n) == n <= Size /\ insPending - seenCommitted < Size + 1 - n

Reserve(p) ==
  /\ pc[p] = "insCheck"
  /\ Fits(Len(batch[p]))
  /\ cur' = [cur EXCEPT ![p] = insPending]
  /\ insPending' = insPending + Len(batch[p])
  /\ written' = [written EXCEPT ![p] = 0]
  /\ pc' = [pc EXCEPT ![p] = "insWrite"]
  /\ UNCHANGED <<buffer, insCommitted, seenPending, seenCommitted, insMutex,
                 seenMutex, wait, batch, val, results>>

\* No room: return ~0 or, when waiting, drop the lock and go round again.
Full(p) ==
  /\ pc[p] = "insCheck"
  /\ ~Fits(Len(batch[p]))
  /\ ticket' = IF wait[p] THEN ticket ELSE [ticket EXCEPT ![p] = -1]
  /\ pc' = [pc EXCEPT ![p] = IF wait[p] THEN "insAgain" ELSE "insUnlock"]
  /\ UNCHANGED <<buffer, counters, insMutex, seenMutex, locals, got>>

\* One assignment to a slot.
Write(p) ==
  /\ pc[p] = "insWrite"
  /\ written[p] < Len(batch[p])
  /\ buffer' = [buffer EXCEPT ![Slot(cur[p] + written[p])] = batch[p][written[p] + 1]]
  /\ written' = [written EXCEPT ![p] = @ + 1]
  /\ UNCHANGED <<counters, insMutex, seenMutex, pc, wait, batch, cur, val, results>>

CommitInsert(p) ==
  /\ pc[p] = "insWrite"
  /\ written[p] = Len(batch[p])
  /\ insCommitted' = insCommitted + Len(batch[p])
  /\ ticket' = [ticket EXCEPT ![p] = cur[p]]
  /\ pc' = [pc EXCEPT ![p] = "insUnlock"]
  /\ UNCHANGED <<buffer, insPending, seenPending, seenCommitted, insMutex,
                 seenMutex, locals, got>>

\* The unique_lock goes out of scope: go round again, or return.
RetryInsert(p) ==
  /\ pc[p] = "insAgain"
  /\ insMutex' = FALSE
  /\ pc' = [pc EXCEPT ![p] = "insLock"]
  /\ UNCHANGED <<buffer, counters, seenMutex, locals, results>>

\* The locals of the call die with it.
UnlockInsert(p) ==
  /\ pc[p] = "insUnlock"
  /\ insMutex' = FALSE
  /\ pc' = [pc EXCEPT ![p] = "idle"]
  /\ wait' = [wait EXCEPT ![p] = FALSE]
  /\ batch' = [batch EXCEPT ![p] = <<>>]
  /\ written' = [written EXCEPT ![p] = 0]
  /\ cur' = [cur EXCEPT ![p] = 0]
  /\ UNCHANGED <<buffer, counters, seenMutex, val, results>>

-----------------------------------------------------------------------------
(* consume()                                                               *)

StartConsume(c, w) ==
  /\ pc[c] = "idle"
  /\ pc' = [pc EXCEPT ![c] = "seenLock"]
  /\ wait' = [wait EXCEPT ![c] = w]
  /\ UNCHANGED <<buffer, counters, insMutex, seenMutex, batch, written, cur, val, results>>

LockSeen(c) ==
  /\ pc[c] = "seenLock"
  /\ ~seenMutex
  /\ seenMutex' = TRUE
  /\ pc' = [pc EXCEPT ![c] = "seenCheck"]
  /\ UNCHANGED <<buffer, counters, insMutex, locals, results>>

\* Mutant: a consumer looks at the reserved, not at the committed end.
ClaimReserved(c) ==
  /\ pc[c] = "seenCheck"
  /\ insPending > seenPending
  /\ cur' = [cur EXCEPT ![c] = seenPending]
  /\ seenPending' = seenPending + 1
  /\ pc' = [pc EXCEPT ![c] = "seenRead"]
  /\ UNCHANGED <<buffer, insPending, insCommitted, seenCommitted, insMutex,
                 seenMutex, wait, batch, written, val, results>>

Claim(c) ==
  /\ pc[c] = "seenCheck"
  /\ insCommitted > seenPending
  /\ cur' = [cur EXCEPT ![c] = seenPending]
  /\ seenPending' = seenPending + 1
  /\ pc' = [pc EXCEPT ![c] = "seenRead"]
  /\ UNCHANGED <<buffer, insPending, insCommitted, seenCommitted, insMutex,
                 seenMutex, wait, batch, written, val, results>>

NothingThere(c) ==
  /\ pc[c] = "seenCheck"
  /\ ~(insCommitted > seenPending)
  /\ got' = IF wait[c] THEN got ELSE [got EXCEPT ![c] = None]
  /\ pc' = [pc EXCEPT ![c] = IF wait[c] THEN "seenAgain" ELSE "seenUnlock"]
  /\ UNCHANGED <<buffer, counters, insMutex, seenMutex, locals, ticket>>

ReadSlot(c) ==
  /\ pc[c] = "seenRead"
  /\ val' = [val EXCEPT ![c] = buffer[Slot(cur[c])]]
  /\ pc' = [pc EXCEPT ![c] = "seenCommit"]
  /\ UNCHANGED <<buffer, counters, insMutex, seenMutex, wait, batch, written, cur, results>>

CommitSeen(c) ==
  /\ pc[c] = "seenCommit"
  /\ seenCommitted' = seenCommitted + 1
  /\ got' = [got EXCEPT ![c] = val[c]]
  /\ pc' = [pc EXCEPT ![c] = "seenUnlock"]
  /\ UNCHANGED <<buffer, insPending, insCommitted, seenPending, insMutex,
                 seenMutex, locals, ticket>>

RetryConsume(c) ==
  /\ pc[c] = "seenAgain"
  /\ seenMutex' = FALSE
  /\ pc' = [pc EXCEPT ![c] = "seenLock"]
  /\ UNCHANGED <<buffer, counters, insMutex, locals, results>>

\* Mutant: the lock is not released on return.
UnlockSeenForgotten(c) ==
  /\ pc[c] = "seenUnlock"
  /\ pc' = [pc EXCEPT ![c] = "idle"]
  /\ wait' = [wait EXCEPT ![c] = FALSE]
  /\ cur' = [cur EXCEPT ![c] = 0]
  /\ val' = [val EXCEPT ![c] = None]
  /\ UNCHANGED <<buffer, counters, insMutex, seenMutex, batch, written, results>>

UnlockSeen(c) ==
  /\ pc[c] = "seenUnlock"
  /\ seenMutex' = FALSE
  /\ pc' = [pc EXCEPT ![c] = "idle"]
  /\ wait' = [wait EXCEPT ![c] = FALSE]
  /\ cur' = [cur EXCEPT ![c] = 0]
  /\ val' = [val EXCEPT ![c] = None]
  /\ UNCHANGED <<buffer, counters, insMutex, batch, written, results>>

-----------------------------------------------------------------------------
(* Composition                                                             *)

InsertStep(p) ==
  \/ LockInsert(p) \/ Reserve(p) \/ Full(p) \/ Write(p)
  \/ CommitInsert(p) \/ RetryInsert(p) \/ UnlockInsert(p)

ConsumeStep(c) ==
  \/ LockSeen(c) \/ Claim(c) \/ NothingThere(c) \/ ReadSlot(c)
  \/ CommitSeen(c) \/ RetryConsume(c) \/ UnlockSeen(c)

Next ==
  \/ \E p \in Producers, s \in Batches, w \in BOOLEAN : StartInsert(p, s, w)
  \/ \E p \in Producers : InsertStep(p)
  \/ \E c \in Consumers, w \in BOOLEAN : StartConsume(c, w)
  \/ \E c \in Consumers : ConsumeStep(c)

Spec == Init /\ [][Next]_vars

\* A running thread is scheduled again and again, and an event loop polls the
\* queue on every turn.  Nothing is assumed about who wins a spin lock.
Fairness ==
  /\ \A p \in Producers : WF_vars(InsertStep(p))
  /\ \A c \in Consumers : WF_vars(ConsumeStep(c))
  /\ \A c \in Consumers : WF_vars(StartConsume(c, FALSE))

FairSpec == Spec /\ Fairness

-----------------------------------------------------------------------------
(* Properties                                                              *)

InsertPcs == {"idle", "insLock", "insCheck", "insWrite", "insUnlock", "insAgain"}
ConsumePcs == {"idle", "seenLock", "seenCheck", "seenRead", "seenCommit",
               "seenUnlock", "seenAgain"}

\* Every variable has its type: the counters are natural numbers, a thread is
\* at a line of its own operation, and a producer has written at most as many
\* slots as its argument has elements.
TypeOK ==
  /\ buffer \in [0..Size-1 -> Values \cup {None}]
  /\ insPending \in Nat /\ insCommitted \in Nat
  /\ seenPending \in Nat /\ seenCommitted \in Nat
  /\ insMutex \in BOOLEAN /\ seenMutex \in BOOLEAN
  /\ pc \in [Threads -> InsertPcs \cup ConsumePcs]
  /\ \A p \in Producers : pc[p] \in InsertPcs
  /\ \A c \in Consumers : pc[c] \in ConsumePcs
  /\ wait \in [Threads -> BOOLEAN]
  /\ batch \in [Producers -> Seq(Values)]
  /\ written \in [Producers -> Nat]
  /\ \A p \in Producers : pc[p] = "insWrite" => written[p] <= Len(batch[p])
  /\ cur \in [Threads -> Nat]
  /\ val \in [Consumers -> Values \cup {None}]
  /\ ticket \in [Producers -> Int]
  /\ got \in [Consumers -> Values \cup {None}]

\* The four counters never cross, and everything between what is consumed and
\* what is reserved fits in the buffer: ring_buffer.hpp 66 and 83 test a
\* consumer counter that may be stale by the time it is used.
CountersInOrder ==
  /\ seenCommitted <= seenPending
  /\ seenPending <= insCommitted
  /\ insCommitted <= insPending
  /\ insPending <= seenCommitted + Size

\* The slot a thread is about to read or write.
Touching(t) ==
  IF t \in Producers
  THEN IF pc[t] = "insWrite" /\ written[t] < Len(batch[t])
       THEN {Slot(cur[t] + written[t])} ELSE {}
  ELSE IF pc[t] = "seenRead" THEN {Slot(cur[t])} ELSE {}

\* The plain (non-atomic) accesses to _buffer at lines 68, 88 and 107 never
\* race: no two threads are at an access to the same slot.
NoSlotRace ==
  \A t, u \in Threads : t # u => Touching(t) \cap Touching(u) = {}

\* The n elements from position lo on, and those a caller may think of as queued.
View(buf, lo, n) == [i \in 1..n |-> buf[Slot(lo + i - 1)]]
Contents == View(buffer, seenCommitted, insCommitted - seenCommitted)

Queue == INSTANCE BoundedQueue WITH queue <- Contents, inserted <- insCommitted

\* The ring of slots, counters and locks is a linearizable bounded FIFO queue:
\* order, batches in one piece, no loss, no duplicate, and a refusal or an
\* empty answer only when the queue is full or empty at that instant.
ImplementsQueue == Queue!AbsSpec

\* What insert() accepted, consume() hands out: while the event loops poll, the
\* element of every ticket is eventually taken, whoever wins the spin lock.
AcceptedIsConsumed ==
  \A n \in 0..MaxInserted-1 : (insCommitted > n) ~> (seenCommitted > n)

=============================================================================
