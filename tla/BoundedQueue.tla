---------------------------- MODULE BoundedQueue ----------------------------
(***************************************************************************)
(* What utils::RingBuffer promises its callers: a FIFO queue of at most    *)
(* Size elements whose operations take effect at one instant.  A batch is  *)
(* queued as a whole or refused as a whole, an operation is refused only   *)
(* when it does not fit, consume() answers nothing only on an empty queue, *)
(* and the ticket insert() returns is the number of elements queued before *)
(* it.  RingBuffer.tla is shown to implement this module.                  *)
(***************************************************************************)
EXTENDS Integers, Sequences

CONSTANTS Producers, Consumers, Values, Size, None

VARIABLES
  queue,     \* the elements inserted and not yet consumed, oldest first
  inserted,  \* how many elements were ever inserted
  ticket,    \* per producer, what its last insert returned (-1 is ~0ull)
  got        \* per consumer, what its last consume returned

absVars == <<queue, inserted, ticket, got>>

Refused == -1

AbsInit ==
  /\ queue = <<>>
  /\ inserted = 0
  /\ ticket = [p \in Producers |-> Refused]
  /\ got = [c \in Consumers |-> None]

Insert(p, s) ==
  /\ Len(queue) + Len(s) <= Size
  /\ queue' = queue \o s
  /\ inserted' = inserted + Len(s)
  /\ ticket' = [ticket EXCEPT ![p] = inserted]
  /\ UNCHANGED got

\* The smallest batch that does not fit has Size + 1 - Len(queue) elements.
Refuse(p, n) ==
  /\ Len(queue) + n > Size
  /\ ticket' = [ticket EXCEPT ![p] = Refused]
  /\ UNCHANGED <<queue, inserted, got>>

Consume(c) ==
  /\ queue # <<>>
  /\ got' = [got EXCEPT ![c] = Head(queue)]
  /\ queue' = Tail(queue)
  /\ UNCHANGED <<inserted, ticket>>

FindEmpty(c) ==
  /\ queue = <<>>
  /\ got' = [got EXCEPT ![c] = None]
  /\ UNCHANGED <<queue, inserted, ticket>>

CONSTANT Batches  \* the argument lists producers pass

AbsNext ==
  \/ \E p \in Producers, s \in Batches : Insert(p, s) \/ Refuse(p, Len(s))
  \/ \E c \in Consumers : Consume(c) \/ FindEmpty(c)

AbsSpec == AbsInit /\ [][AbsNext]_absVars

=============================================================================
