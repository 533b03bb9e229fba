-------------------------- MODULE RingBufferProofs --------------------------
(***************************************************************************)
(* Proofs about RingBuffer for every number of threads, every capacity,    *)
(* every set of argument vectors and every bound on the insertions.        *)
(***************************************************************************)
EXTENDS RingBuffer, SequenceTheorems, TLAPS

-----------------------------------------------------------------------------
(* The inductive invariant                                                 *)

HoldsInsert(p) == pc[p] \in {"insCheck", "insWrite", "insUnlock", "insAgain"}
HoldsSeen(c) ==
  pc[c] \in {"seenCheck", "seenRead", "seenCommit", "seenUnlock", "seenAgain"}

\* A spin lock is held by at most one thread, and its bit says so.
Exclusion ==
  /\ \A p \in Producers : HoldsInsert(p) =>
       insMutex /\ \A q \in Producers : HoldsInsert(q) => q = p
  /\ \A c \in Consumers : HoldsSeen(c) =>
       seenMutex /\ \A d \in Consumers : HoldsSeen(d) => d = c

\* Between Reserve and CommitInsert exactly the batch is reserved.
InsertSide ==
  /\ (\A p \in Producers : pc[p] # "insWrite") => insPending = insCommitted
  /\ \A p \in Producers : pc[p] = "insWrite" =>
       cur[p] = insCommitted /\ insPending = cur[p] + Len(batch[p])

\* Between Claim and CommitSeen exactly one committed element is claimed.
Claiming(c) == pc[c] \in {"seenRead", "seenCommit"}
SeenSide ==
  /\ (\A c \in Consumers : ~Claiming(c)) => seenPending = seenCommitted
  /\ \A c \in Consumers : Claiming(c) =>
       /\ cur[c] = seenCommitted
       /\ seenPending = seenCommitted + 1

\* What is already written of a batch, and what a consumer has already read.
SlotsHold ==
  /\ \A p \in Producers : pc[p] = "insWrite" =>
       \A i \in 1..written[p] : buffer[Slot(cur[p] + i - 1)] = batch[p][i]
  /\ \A c \in Consumers : pc[c] = "seenCommit" => val[c] = buffer[Slot(cur[c])]

\* A running insertion carries one of the argument vectors.
ArgumentsHeld == \A p \in Producers : pc[p] # "idle" => batch[p] \in Batches

\* The counters and locks, without the contents of the slots.
Control ==
  /\ TypeOK
  /\ CountersInOrder
  /\ Exclusion
  /\ InsertSide
  /\ SeenSide

IInv == Control /\ SlotsHold /\ ArgumentsHeld

-----------------------------------------------------------------------------
(* Lemmas                                                                  *)

\* A position's slot exists.
LEMMA SlotExists ==
  ASSUME NEW n \in Nat
  PROVE  Slot(n) \in 0..Size-1
BY SizeAssumption DEF Slot

\* Two positions less than Size apart have different slots: this is why the
\* capacity test keeps writers away from readers.
LEMMA SlotsDiffer ==
  ASSUME NEW m \in Nat, NEW n \in Nat, m < n, n < m + Size
  PROVE  Slot(m) # Slot(n)
<1> DEFINE a == m \div Size
           b == n \div Size
<1>1. /\ a \in Int /\ b \in Int
      /\ m = Size * a + (m % Size)
      /\ n = Size * b + (n % Size)
  BY SizeAssumption
<1>2. SUFFICES ASSUME m % Size = n % Size PROVE FALSE
  BY DEF Slot
<1> HIDE DEF a, b
<1>3. Size * b - Size * a = n - m
  BY <1>1, <1>2, SizeAssumption
<1>4. Size * (b - a) = n - m
  BY <1>1, <1>3, SizeAssumption
<1>5. CASE b - a <= 0
  <2>1. Size * (b - a) <= 0
    BY <1>1, <1>5, SizeAssumption
  <2> QED BY <2>1, <1>4
<1>6. CASE b - a >= 1
  <2>1. Size * (b - a) >= Size
    BY <1>1, <1>6, SizeAssumption
  <2> QED BY <2>1, <1>4, SizeAssumption
<1> QED BY <1>1, <1>5, <1>6

-----------------------------------------------------------------------------
(* Type correctness                                                        *)

LEMMA InitType == Init => TypeOK
<1> SUFFICES ASSUME Init PROVE TypeOK
  OBVIOUS
<1>1. buffer \in [0..Size-1 -> Values \cup {None}]
  BY DEF Init
<1>2. batch \in [Producers -> Seq(Values)]
  BY EmptySeq DEF Init
<1>3. pc \in [Threads -> InsertPcs \cup ConsumePcs]
  BY DEF Init, InsertPcs
<1>4. /\ wait \in [Threads -> BOOLEAN]
      /\ written \in [Producers -> Nat]
      /\ cur \in [Threads -> Nat]
      /\ val \in [Consumers -> Values \cup {None}]
      /\ ticket \in [Producers -> Int]
      /\ got \in [Consumers -> Values \cup {None}]
  BY DEF Init
<1>5. /\ \A p \in Producers : pc[p] = "idle"
      /\ \A c \in Consumers : pc[c] = "idle"
  BY DEF Init, Threads
<1>6. /\ insPending \in Nat /\ insCommitted \in Nat
      /\ seenPending \in Nat /\ seenCommitted \in Nat
      /\ insMutex \in BOOLEAN /\ seenMutex \in BOOLEAN
  BY DEF Init
<1> QED
  BY <1>1, <1>2, <1>3, <1>4, <1>5, <1>6 DEF TypeOK, InsertPcs, ConsumePcs

LEMMA TypeStep ==
  ASSUME TypeOK, [Next]_vars
  PROVE  TypeOK'
<1> USE ThreadAssumption, BatchAssumption DEF TypeOK, Threads, InsertPcs, ConsumePcs
<1>1. ASSUME NEW p \in Producers, NEW s \in Batches, NEW w \in BOOLEAN,
             StartInsert(p, s, w)
      PROVE  TypeOK'
  BY <1>1 DEF StartInsert, counters, results
<1>2. ASSUME NEW c \in Consumers, NEW w \in BOOLEAN, StartConsume(c, w)
      PROVE  TypeOK'
  BY <1>2 DEF StartConsume, counters, results
<1>3. ASSUME NEW p \in Producers, LockInsert(p)
      PROVE  TypeOK'
  BY <1>3 DEF LockInsert, counters, locals, results
<1>4. ASSUME NEW p \in Producers, Reserve(p)
      PROVE  TypeOK'
  BY <1>4 DEF Reserve, counters, locals, results
<1>5. ASSUME NEW p \in Producers, Full(p)
      PROVE  TypeOK'
  BY <1>5 DEF Full, counters, locals, results
<1>6. ASSUME NEW p \in Producers, Write(p)
      PROVE  TypeOK'
  <2>1. batch[p][written[p] + 1] \in Values
    BY <1>6, ElementOfSeq DEF Write
  <2>2. cur[p] + written[p] \in Nat /\ Slot(cur[p] + written[p]) \in 0..Size-1
    <3>1. cur[p] + written[p] \in Nat
      OBVIOUS
    <3> QED BY <3>1, SlotExists
  <2>3. Len(batch[p]) \in Nat
    OBVIOUS
  <2> QED BY <1>6, <2>1, <2>2, <2>3 DEF Write, counters, results
<1>7. ASSUME NEW p \in Producers, CommitInsert(p)
      PROVE  TypeOK'
  BY <1>7 DEF CommitInsert, counters, locals, results
<1>8. ASSUME NEW p \in Producers, RetryInsert(p)
      PROVE  TypeOK'
  BY <1>8 DEF RetryInsert, counters, locals, results
<1>9. ASSUME NEW p \in Producers, UnlockInsert(p)
      PROVE  TypeOK'
  BY <1>9, EmptySeq DEF UnlockInsert, counters, locals, results
<1>10. ASSUME NEW c \in Consumers, LockSeen(c)
      PROVE  TypeOK'
  BY <1>10 DEF LockSeen, counters, locals, results
<1>11. ASSUME NEW c \in Consumers, Claim(c)
      PROVE  TypeOK'
  BY <1>11 DEF Claim, counters, locals, results
<1>12. ASSUME NEW c \in Consumers, NothingThere(c)
      PROVE  TypeOK'
  BY <1>12 DEF NothingThere, counters, locals, results
<1>13. ASSUME NEW c \in Consumers, ReadSlot(c)
      PROVE  TypeOK'
  BY <1>13, SlotExists DEF ReadSlot, counters, locals, results
<1>14. ASSUME NEW c \in Consumers, CommitSeen(c)
      PROVE  TypeOK'
  BY <1>14 DEF CommitSeen, counters, locals, results
<1>15. ASSUME NEW c \in Consumers, RetryConsume(c)
      PROVE  TypeOK'
  BY <1>15 DEF RetryConsume, counters, locals, results
<1>16. ASSUME NEW c \in Consumers, UnlockSeen(c)
      PROVE  TypeOK'
  BY <1>16 DEF UnlockSeen, counters, locals, results
<1>17. CASE UNCHANGED vars
  BY <1>17 DEF vars, counters, locals, results
<1> HIDE DEF TypeOK, Threads, InsertPcs, ConsumePcs
<1> QED
  BY <1>1, <1>2, <1>3, <1>4, <1>5, <1>6, <1>7, <1>8, <1>9, <1>10, <1>11, <1>12, <1>13, <1>14, <1>15, <1>16, <1>17 DEF Next, InsertStep, ConsumeStep

\* RingBuffer's variables keep their types: in particular a slot only ever holds
\* an element or the default, and no counter goes below zero.
THEOREM TypeCorrect == Spec => []TypeOK
<1>1. Init => TypeOK
  BY InitType
<1>2. TypeOK /\ [Next]_vars => TypeOK'
  BY TypeStep
<1> QED BY <1>1, <1>2, PTL DEF Spec

-----------------------------------------------------------------------------
(* The counters, the locks and the slots                                   *)

LEMMA InitIInv == Init => IInv
<1> SUFFICES ASSUME Init PROVE IInv
  OBVIOUS
<1>1. \A t \in Threads : pc[t] = "idle"
  BY DEF Init
<1>2. CountersInOrder
  BY SizeAssumption DEF Init, CountersInOrder
<1>3. Exclusion /\ InsertSide /\ SeenSide /\ SlotsHold /\ ArgumentsHeld
  BY <1>1 DEF Init, Threads, Exclusion, InsertSide, SeenSide, SlotsHold,
              HoldsInsert, HoldsSeen, Claiming, ArgumentsHeld
<1> QED BY <1>2, <1>3, InitType DEF Control, IInv

LEMMA ControlStep ==
  ASSUME Control, [Next]_vars
  PROVE  Control'
<1>1. TypeOK /\ TypeOK'
  BY TypeStep DEF Control
<1>2. /\ \A p \in Producers : pc[p] \in InsertPcs /\ Len(batch[p]) \in Nat
      /\ pc \in [Threads -> InsertPcs \cup ConsumePcs]
      /\ insPending \in Nat /\ insCommitted \in Nat
      /\ seenPending \in Nat /\ seenCommitted \in Nat
      /\ cur \in [Threads -> Nat]
      /\ batch \in [Producers -> Seq(Values)]
  BY <1>1, LenProperties DEF TypeOK
<1> USE SizeAssumption, ThreadAssumption, <1>2
    DEF CountersInOrder, Exclusion, InsertSide, SeenSide, Threads,
        HoldsInsert, HoldsSeen, Claiming
<1>3. ASSUME NEW p \in Producers, NEW s \in Batches, NEW w \in BOOLEAN,
             StartInsert(p, s, w)
      PROVE  CountersInOrder' /\ Exclusion' /\ InsertSide' /\ SeenSide'
  BY <1>3 DEF Control, StartInsert, counters, locals, results
<1>4. ASSUME NEW c \in Consumers, NEW w \in BOOLEAN, StartConsume(c, w)
      PROVE  CountersInOrder' /\ Exclusion' /\ InsertSide' /\ SeenSide'
  BY <1>4 DEF Control, StartConsume, counters, locals, results
<1>5. ASSUME NEW p \in Producers, LockInsert(p)
      PROVE  CountersInOrder' /\ Exclusion' /\ InsertSide' /\ SeenSide'
  BY <1>5 DEF Control, LockInsert, counters, locals, results
<1>6. ASSUME NEW p \in Producers, Reserve(p)
      PROVE  CountersInOrder' /\ Exclusion' /\ InsertSide' /\ SeenSide'
  <2>1. /\ pc' = [pc EXCEPT ![p] = "insWrite"] /\ pc[p] = "insCheck"
        /\ cur' = [cur EXCEPT ![p] = insPending]
        /\ insPending' = insPending + Len(batch[p])
        /\ UNCHANGED <<insCommitted, seenPending, seenCommitted, insMutex, seenMutex, batch>>
    BY <1>6 DEF Reserve
  <2>2. insPending + Len(batch[p]) <= seenCommitted + Size
    BY <1>6 DEF Reserve, Fits
  <2>3. \A q \in Producers : pc[q] = "insWrite" => q = p
    BY <2>1 DEF Control
  <2>4. insPending = insCommitted
    BY <2>1, <2>3 DEF Control
  <2>5. CountersInOrder'
    BY <2>1, <2>2 DEF Control
  <2>6. Exclusion'
    BY <2>1 DEF Control
  <2>7. InsertSide'
    BY <2>1, <2>3, <2>4 DEF Control
  <2>8. SeenSide'
    BY <2>1 DEF Control
  <2> QED BY <2>5, <2>6, <2>7, <2>8
<1>7. ASSUME NEW p \in Producers, Full(p)
      PROVE  CountersInOrder' /\ Exclusion' /\ InsertSide' /\ SeenSide'
  BY <1>7 DEF Control, Full, counters, locals, results
<1>8. ASSUME NEW p \in Producers, Write(p)
      PROVE  CountersInOrder' /\ Exclusion' /\ InsertSide' /\ SeenSide'
  BY <1>8 DEF Control, Write, counters, locals, results
<1>9. ASSUME NEW p \in Producers, CommitInsert(p)
      PROVE  CountersInOrder' /\ Exclusion' /\ InsertSide' /\ SeenSide'
  BY <1>9 DEF Control, CommitInsert, counters, locals, results
<1>10. ASSUME NEW p \in Producers, RetryInsert(p)
      PROVE  CountersInOrder' /\ Exclusion' /\ InsertSide' /\ SeenSide'
  BY <1>10 DEF Control, RetryInsert, counters, locals, results
<1>11. ASSUME NEW p \in Producers, UnlockInsert(p)
      PROVE  CountersInOrder' /\ Exclusion' /\ InsertSide' /\ SeenSide'
  BY <1>11 DEF Control, UnlockInsert, counters, locals, results
<1>12. ASSUME NEW c \in Consumers, LockSeen(c)
      PROVE  CountersInOrder' /\ Exclusion' /\ InsertSide' /\ SeenSide'
  BY <1>12 DEF Control, LockSeen, counters, locals, results
<1>13. ASSUME NEW c \in Consumers, Claim(c)
      PROVE  CountersInOrder' /\ Exclusion' /\ InsertSide' /\ SeenSide'
  BY <1>13 DEF Control, Claim, counters, locals, results
<1>14. ASSUME NEW c \in Consumers, NothingThere(c)
      PROVE  CountersInOrder' /\ Exclusion' /\ InsertSide' /\ SeenSide'
  BY <1>14 DEF Control, NothingThere, counters, locals, results
<1>15. ASSUME NEW c \in Consumers, ReadSlot(c)
      PROVE  CountersInOrder' /\ Exclusion' /\ InsertSide' /\ SeenSide'
  BY <1>15 DEF Control, ReadSlot, counters, locals, results
<1>16. ASSUME NEW c \in Consumers, CommitSeen(c)
      PROVE  CountersInOrder' /\ Exclusion' /\ InsertSide' /\ SeenSide'
  BY <1>16 DEF Control, CommitSeen, counters, locals, results
<1>17. ASSUME NEW c \in Consumers, RetryConsume(c)
      PROVE  CountersInOrder' /\ Exclusion' /\ InsertSide' /\ SeenSide'
  BY <1>17 DEF Control, RetryConsume, counters, locals, results
<1>18. ASSUME NEW c \in Consumers, UnlockSeen(c)
      PROVE  CountersInOrder' /\ Exclusion' /\ InsertSide' /\ SeenSide'
  BY <1>18 DEF Control, UnlockSeen, counters, locals, results
<1>19. ASSUME UNCHANGED vars
       PROVE  CountersInOrder' /\ Exclusion' /\ InsertSide' /\ SeenSide'
  BY <1>19 DEF Control, vars, counters, locals, results
<1> HIDE DEF CountersInOrder, Exclusion, InsertSide, SeenSide, Threads
<1> QED
  BY <1>1, <1>3, <1>4, <1>5, <1>6, <1>7, <1>8, <1>9, <1>10, <1>11, <1>12, <1>13, <1>14, <1>15, <1>16, <1>17, <1>18, <1>19 DEF Next, InsertStep, ConsumeStep, Control

\* A producer's next slot is no slot that is committed, claimed or already
\* written: it lies between the committed end and a full ring further on.
LEMMA FreshSlot ==
  ASSUME Control, NEW p \in Producers, pc[p] = "insWrite",
         written[p] < Len(batch[p]),
         NEW n \in seenCommitted..cur[p] + written[p] - 1
  PROVE  Slot(n) # Slot(cur[p] + written[p])
<1>1. /\ written[p] \in Nat /\ Len(batch[p]) \in Nat /\ cur[p] \in Nat
      /\ seenCommitted \in Nat /\ insPending \in Nat /\ insCommitted \in Nat
  BY LenProperties DEF Control, TypeOK, Threads
<1>2. insPending = cur[p] + Len(batch[p]) /\ insPending <= seenCommitted + Size
  BY DEF Control, InsertSide, CountersInOrder
<1>3. n \in Nat /\ cur[p] + written[p] \in Nat
  BY <1>1
<1>4. n < cur[p] + written[p] /\ cur[p] + written[p] < n + Size
  BY <1>1, <1>2, SizeAssumption
<1> QED BY <1>3, <1>4, SlotsDiffer

LEMMA SlotsHoldStep ==
  ASSUME IInv, [Next]_vars
  PROVE  SlotsHold' /\ ArgumentsHeld'
<1>1. /\ cur \in [Threads -> Nat] /\ written \in [Producers -> Nat]
      /\ pc \in [Threads -> InsertPcs \cup ConsumePcs]
      /\ \A p \in Producers : pc[p] \in InsertPcs
      /\ \A c \in Consumers : pc[c] \in ConsumePcs
      /\ batch \in [Producers -> Seq(Values)]
      /\ val \in [Consumers -> Values \cup {None}]
      /\ buffer \in [0..Size-1 -> Values \cup {None}]
      /\ seenCommitted \in Nat /\ insCommitted \in Nat /\ seenPending \in Nat
  BY DEF IInv, Control, TypeOK
<1> USE ThreadAssumption, <1>1
    DEF SlotsHold, ArgumentsHeld, Threads, InsertPcs, ConsumePcs
<1>2. ASSUME NEW p \in Producers, NEW s \in Batches, NEW w \in BOOLEAN,
             StartInsert(p, s, w)
      PROVE  SlotsHold' /\ ArgumentsHeld'
  BY <1>2 DEF IInv, StartInsert, counters, locals, results
<1>3. ASSUME NEW c \in Consumers, NEW w \in BOOLEAN, StartConsume(c, w)
      PROVE  SlotsHold' /\ ArgumentsHeld'
  BY <1>3 DEF IInv, StartConsume, counters, locals, results
<1>4. ASSUME NEW p \in Producers, LockInsert(p)
      PROVE  SlotsHold' /\ ArgumentsHeld'
  BY <1>4 DEF IInv, LockInsert, counters, locals, results
<1>5. ASSUME NEW p \in Producers, Reserve(p)
      PROVE  SlotsHold' /\ ArgumentsHeld'
  BY <1>5 DEF IInv, Reserve, counters, locals, results
<1>6. ASSUME NEW p \in Producers, Full(p)
      PROVE  SlotsHold' /\ ArgumentsHeld'
  BY <1>6 DEF IInv, Full, counters, locals, results
<1>7. ASSUME NEW p \in Producers, Write(p)
      PROVE  SlotsHold' /\ ArgumentsHeld'
  <2>1. /\ pc[p] = "insWrite" /\ written[p] < Len(batch[p])
        /\ buffer' = [buffer EXCEPT ![Slot(cur[p] + written[p])] = batch[p][written[p] + 1]]
        /\ written' = [written EXCEPT ![p] = @ + 1]
        /\ UNCHANGED <<pc, batch, cur, val>>
    BY <1>7 DEF Write
  <2>2. \A q \in Producers : pc[q] = "insWrite" => q = p
    BY <2>1 DEF IInv, Control, Exclusion, HoldsInsert
  <2>3. cur[p] \in Nat /\ written[p] \in Nat /\ cur[p] >= seenPending /\ seenPending >= seenCommitted
    BY <2>1 DEF IInv, Control, CountersInOrder, InsertSide
  <2>4. \A m \in Nat : Slot(m) \in 0..Size-1
    BY SlotExists
  <2>5. ASSUME NEW i \in 1..written'[p]
        PROVE  buffer'[Slot(cur[p] + i - 1)] = batch[p][i]
    <3>1. CASE i = written[p] + 1
      <4>1. cur[p] + i - 1 = cur[p] + written[p] /\ cur[p] + written[p] \in Nat
        BY <3>1, <2>3
      <4>2. buffer'[Slot(cur[p] + written[p])] = batch[p][written[p] + 1]
        BY <4>1, <2>1, <2>4
      <4> QED BY <4>1, <4>2, <3>1
    <3>2. CASE i \in 1..written[p]
      <4>1. cur[p] + i - 1 \in seenCommitted..cur[p] + written[p] - 1
        BY <3>2, <2>3
      <4>2. Slot(cur[p] + i - 1) # Slot(cur[p] + written[p])
        BY <4>1, <2>1, FreshSlot DEF IInv
      <4>3. cur[p] + i - 1 \in Nat
        BY <2>3, <3>2
      <4>4. buffer'[Slot(cur[p] + i - 1)] = buffer[Slot(cur[p] + i - 1)]
        BY <4>2, <4>3, <2>1, <2>4
      <4>5. buffer[Slot(cur[p] + i - 1)] = batch[p][i]
        BY <3>2, <2>1 DEF IInv
      <4> QED BY <4>4, <4>5
    <3> QED BY <3>1, <3>2, <2>1, <2>3
  <2>6. ASSUME NEW c \in Consumers, pc[c] = "seenCommit"
        PROVE  val[c] = buffer'[Slot(cur[c])]
    <3>1. cur[c] = seenCommitted /\ seenPending = seenCommitted + 1
      BY <2>6 DEF IInv, Control, SeenSide, Claiming
    <3>2. seenCommitted \in seenCommitted..cur[p] + written[p] - 1
      BY <3>1, <2>3
    <3>3. Slot(cur[c]) # Slot(cur[p] + written[p])
      BY <3>1, <3>2, <2>1, FreshSlot DEF IInv
    <3> QED BY <3>3, <3>1, <2>1, <2>4, <2>6 DEF IInv
  <2>7. ArgumentsHeld'
    BY <2>1 DEF IInv
  <2> QED BY <2>1, <2>2, <2>5, <2>6, <2>7
<1>8. ASSUME NEW p \in Producers, CommitInsert(p)
      PROVE  SlotsHold' /\ ArgumentsHeld'
  BY <1>8 DEF IInv, CommitInsert, counters, locals, results
<1>9. ASSUME NEW p \in Producers, RetryInsert(p)
      PROVE  SlotsHold' /\ ArgumentsHeld'
  BY <1>9 DEF IInv, RetryInsert, counters, locals, results
<1>10. ASSUME NEW p \in Producers, UnlockInsert(p)
      PROVE  SlotsHold' /\ ArgumentsHeld'
  BY <1>10 DEF IInv, UnlockInsert, counters, locals, results
<1>11. ASSUME NEW c \in Consumers, LockSeen(c)
      PROVE  SlotsHold' /\ ArgumentsHeld'
  BY <1>11 DEF IInv, LockSeen, counters, locals, results
<1>12. ASSUME NEW c \in Consumers, Claim(c)
      PROVE  SlotsHold' /\ ArgumentsHeld'
  BY <1>12 DEF IInv, Claim, counters, locals, results
<1>13. ASSUME NEW c \in Consumers, NothingThere(c)
      PROVE  SlotsHold' /\ ArgumentsHeld'
  BY <1>13 DEF IInv, NothingThere, counters, locals, results
<1>14. ASSUME NEW c \in Consumers, ReadSlot(c)
      PROVE  SlotsHold' /\ ArgumentsHeld'
  BY <1>14 DEF IInv, ReadSlot, counters, locals, results
<1>15. ASSUME NEW c \in Consumers, CommitSeen(c)
      PROVE  SlotsHold' /\ ArgumentsHeld'
  BY <1>15 DEF IInv, CommitSeen, counters, locals, results
<1>16. ASSUME NEW c \in Consumers, RetryConsume(c)
      PROVE  SlotsHold' /\ ArgumentsHeld'
  BY <1>16 DEF IInv, RetryConsume, counters, locals, results
<1>17. ASSUME NEW c \in Consumers, UnlockSeen(c)
      PROVE  SlotsHold' /\ ArgumentsHeld'
  BY <1>17 DEF IInv, UnlockSeen, counters, locals, results
<1>18. ASSUME UNCHANGED vars
       PROVE  SlotsHold' /\ ArgumentsHeld'
  BY <1>18 DEF IInv, vars, counters, locals, results
<1> HIDE DEF SlotsHold, ArgumentsHeld, Threads, InsertPcs, ConsumePcs
<1> QED
  BY <1>2, <1>3, <1>4, <1>5, <1>6, <1>7, <1>8, <1>9, <1>10, <1>11, <1>12, <1>13, <1>14, <1>15, <1>16, <1>17, <1>18 DEF Next, InsertStep, ConsumeStep

THEOREM Invariance == Spec => []IInv
<1>1. Init => IInv
  BY InitIInv
<1>2. IInv /\ [Next]_vars => IInv'
  BY ControlStep, SlotsHoldStep DEF IInv
<1> QED BY <1>1, <1>2, PTL DEF Spec

\* The four counters never cross and never outgrow the buffer, although each
\* side tests a counter of the other side without its lock.
THEOREM CountersStayInOrder == Spec => []CountersInOrder
<1>1. IInv => CountersInOrder
  BY DEF IInv, Control
<1> QED BY <1>1, Invariance, PTL

\* No two threads ever access the same slot of _buffer at the same time.
THEOREM SlotAccessIsRaceFree == Spec => []NoSlotRace
<1>1. ASSUME IInv, NEW p \in Producers, NEW c \in Consumers
      PROVE  Touching(p) \cap Touching(c) = {}
  <2>1. p \notin Consumers /\ c \notin Producers
    BY ThreadAssumption
  <2>2. SUFFICES ASSUME pc[p] = "insWrite", written[p] < Len(batch[p]), pc[c] = "seenRead"
                 PROVE  Slot(cur[c]) # Slot(cur[p] + written[p])
    BY <2>1 DEF Touching
  <2>3. cur[c] = seenCommitted /\ seenPending = seenCommitted + 1
    BY <2>2, <1>1 DEF IInv, Control, SeenSide, Claiming
  <2>4. cur[p] = insCommitted /\ seenPending <= insCommitted
    BY <2>2, <1>1 DEF IInv, Control, InsertSide, CountersInOrder
  <2>5. seenCommitted \in Nat /\ cur[p] \in Nat /\ written[p] \in Nat
    BY <1>1, <2>4 DEF IInv, Control, TypeOK
  <2>6. seenCommitted \in seenCommitted..cur[p] + written[p] - 1
    BY <2>3, <2>4, <2>5
  <2> QED BY <1>1, <2>2, <2>3, <2>6, FreshSlot DEF IInv
<1>2. ASSUME IInv, NEW t \in Threads, NEW u \in Threads, t # u,
             t \in Producers <=> u \in Producers
      PROVE  Touching(t) \cap Touching(u) = {}
  BY <1>2 DEF IInv, Control, Exclusion, HoldsInsert, HoldsSeen, Touching, Threads
<1>3. IInv => NoSlotRace
  BY <1>1, <1>2 DEF NoSlotRace, Threads
<1> QED BY <1>3, Invariance, PTL

-----------------------------------------------------------------------------
(* RingBuffer implements BoundedQueue                                      *)

Elem == Values \cup {None}

\* A view of the ring is a sequence of the right length.
LEMMA ViewIsSeq ==
  ASSUME NEW buf \in [0..Size-1 -> Elem], NEW lo \in Nat, NEW n \in Nat
  PROVE  /\ View(buf, lo, n) \in Seq(Elem)
         /\ Len(View(buf, lo, n)) = n
         /\ \A i \in 1..n : View(buf, lo, n)[i] = buf[Slot(lo + i - 1)]
<1>1. \A i \in 1..n : lo + i - 1 \in Nat /\ buf[Slot(lo + i - 1)] \in Elem
  BY SlotExists
<1>2. View(buf, lo, n) \in [1..n -> Elem]
  BY <1>1 DEF View
<1>3. View(buf, lo, n) \in Seq(Elem)
  BY <1>2, SeqDef
<1>4. Len(View(buf, lo, n)) = n
  BY <1>2, <1>3, LenProperties
<1> QED BY <1>3, <1>4 DEF View

\* Consuming: without its first element a view is the view one position on.
LEMMA ViewTail ==
  ASSUME NEW buf \in [0..Size-1 -> Elem], NEW lo \in Nat, NEW n \in Nat, n > 0
  PROVE  /\ View(buf, lo, n) # <<>>
         /\ Head(View(buf, lo, n)) = buf[Slot(lo)]
         /\ Tail(View(buf, lo, n)) = View(buf, lo + 1, n - 1)
<1> DEFINE v == View(buf, lo, n)
           w == View(buf, lo + 1, n - 1)
<1>1. v \in Seq(Elem) /\ Len(v) = n /\ \A i \in 1..n : v[i] = buf[Slot(lo + i - 1)]
  BY ViewIsSeq
<1>2. /\ w \in Seq(Elem) /\ Len(w) = n - 1
      /\ \A i \in 1..n-1 : w[i] = buf[Slot(lo + 1 + i - 1)]
  <2>1. lo + 1 \in Nat /\ n - 1 \in Nat
    OBVIOUS
  <2> QED BY <2>1, ViewIsSeq
<1> HIDE DEF v, w
<1>3. v # <<>>
  BY <1>1
<1>4. Tail(v) \in Seq(Elem) /\ Len(Tail(v)) = n - 1 /\ \A i \in 1..n-1 : Tail(v)[i] = v[i + 1]
  BY <1>1, <1>3, HeadTailProperties
<1>5. \A i \in 1..n-1 : Tail(v)[i] = w[i]
  <2> TAKE i \in 1..n-1
  <2>1. i + 1 \in 1..n /\ lo + (i + 1) - 1 = lo + 1 + i - 1
    OBVIOUS
  <2> QED BY <1>1, <1>2, <1>4, <2>1
<1>6. Tail(v) = w
  BY <1>2, <1>4, <1>5, SeqEqual
<1>7. Head(v) = buf[Slot(lo)]
  <2>1. Head(v) = v[1]
    BY <1>1, <1>3
  <2>2. v[1] = buf[Slot(lo + 1 - 1)] /\ lo + 1 - 1 = lo
    BY <1>1
  <2> QED BY <2>1, <2>2
<1> QED BY <1>3, <1>6, <1>7 DEF v, w

\* Inserting: a view followed by what is written behind it is a longer view.
LEMMA ViewConcat ==
  ASSUME NEW buf \in [0..Size-1 -> Elem], NEW lo \in Nat, NEW n \in Nat,
         NEW s \in Seq(Elem),
         \A i \in 1..Len(s) : buf[Slot(lo + n + i - 1)] = s[i]
  PROVE  View(buf, lo, n) \o s = View(buf, lo, n + Len(s))
<1> DEFINE v == View(buf, lo, n)
           w == View(buf, lo, n + Len(s))
<1>0. Len(s) \in Nat
  BY LenProperties
<1>1. v \in Seq(Elem) /\ Len(v) = n /\ \A i \in 1..n : v[i] = buf[Slot(lo + i - 1)]
  BY ViewIsSeq
<1>2. /\ w \in Seq(Elem) /\ Len(w) = n + Len(s)
      /\ \A i \in 1..n+Len(s) : w[i] = buf[Slot(lo + i - 1)]
  <2>1. n + Len(s) \in Nat
    BY <1>0
  <2> QED BY <2>1, ViewIsSeq
<1> HIDE DEF v, w
<1>3. /\ v \o s \in Seq(Elem) /\ Len(v \o s) = n + Len(s)
      /\ \A i \in 1..n+Len(s) : (v \o s)[i] = IF i <= n THEN v[i] ELSE s[i - n]
  BY <1>1, ConcatProperties
<1>4. \A i \in 1..n+Len(s) : (v \o s)[i] = w[i]
  <2> TAKE i \in 1..n+Len(s)
  <2>1. CASE i <= n
    BY <1>1, <1>2, <1>3, <2>1
  <2>2. CASE i > n
    <3>1. i - n \in 1..Len(s) /\ lo + n + (i - n) - 1 = lo + i - 1
      BY <1>0, <2>2
    <3>2. (v \o s)[i] = s[i - n]
      BY <1>0, <1>3, <2>2
    <3> QED BY <1>2, <3>1, <3>2
  <2>3. i <= n \/ i > n
    BY <1>0
  <2> QED BY <2>1, <2>2, <2>3
<1> QED BY <1>2, <1>3, <1>4, SeqEqual DEF v, w

\* Writing outside a view leaves it as it is.
LEMMA ViewUntouched ==
  ASSUME NEW buf \in [0..Size-1 -> Elem], NEW lo \in Nat, NEW n \in Nat,
         NEW k \in 0..Size-1, NEW e \in Elem,
         \A m \in lo..lo+n-1 : Slot(m) # k
  PROVE  View([buf EXCEPT ![k] = e], lo, n) = View(buf, lo, n)
<1>1. \A i \in 1..n : lo + i - 1 \in lo..lo+n-1 /\ lo + i - 1 \in Nat
  OBVIOUS
<1>2. \A i \in 1..n : [buf EXCEPT ![k] = e][Slot(lo + i - 1)] = buf[Slot(lo + i - 1)]
  BY <1>1, SlotExists
<1> QED BY <1>2 DEF View

LEMMA InitRefines == Init => Queue!AbsInit
<1> SUFFICES ASSUME Init PROVE Queue!AbsInit
  OBVIOUS
<1>1. buffer \in [0..Size-1 -> Elem] /\ insCommitted = 0 /\ seenCommitted = 0
  BY DEF Init, Elem
<1>2. Contents \in Seq(Elem) /\ Len(Contents) = 0
  BY <1>1, ViewIsSeq DEF Contents
<1>3. Contents = <<>>
  BY <1>2
<1> QED BY <1>1, <1>3 DEF Init, Queue!AbsInit, Queue!Refused

\* A step that leaves the buffer, the committed counters and the results alone
\* changes nothing a caller can see.
LEMMA Stutter ==
  ASSUME UNCHANGED <<buffer, insCommitted, seenCommitted, ticket, got>>
  PROVE  UNCHANGED Queue!absVars
BY DEF Queue!absVars, Contents, View

LEMMA StepRefines ==
  ASSUME IInv, [Next]_vars
  PROVE  [Queue!AbsNext]_(Queue!absVars)
<1>1. /\ buffer \in [0..Size-1 -> Elem]
      /\ seenCommitted \in Nat /\ insCommitted \in Nat /\ insPending \in Nat
      /\ insCommitted - seenCommitted \in Nat
      /\ \A p \in Producers : batch[p] \in Seq(Values) /\ Len(batch[p]) \in Nat
      /\ cur \in [Threads -> Nat] /\ written \in [Producers -> Nat]
  BY LenProperties DEF IInv, Control, TypeOK, CountersInOrder, Elem
<1>2. /\ Contents \in Seq(Elem) /\ Len(Contents) = insCommitted - seenCommitted
  BY <1>1, ViewIsSeq DEF Contents
<1>3. ASSUME NEW p \in Producers, NEW s \in Batches, NEW w \in BOOLEAN,
             StartInsert(p, s, w)
      PROVE  UNCHANGED Queue!absVars
  BY <1>3, Stutter DEF StartInsert, counters, results
<1>4. ASSUME NEW c \in Consumers, NEW w \in BOOLEAN, StartConsume(c, w)
      PROVE  UNCHANGED Queue!absVars
  BY <1>4, Stutter DEF StartConsume, counters, results
<1>5. ASSUME NEW p \in Producers,
             LockInsert(p) \/ Reserve(p) \/ RetryInsert(p) \/ UnlockInsert(p)
      PROVE  UNCHANGED Queue!absVars
  BY <1>5, Stutter DEF LockInsert, Reserve, RetryInsert, UnlockInsert, counters, locals, results
<1>6. ASSUME NEW c \in Consumers,
             LockSeen(c) \/ Claim(c) \/ ReadSlot(c) \/ RetryConsume(c) \/ UnlockSeen(c)
      PROVE  UNCHANGED Queue!absVars
  BY <1>6, Stutter DEF LockSeen, Claim, ReadSlot, RetryConsume, UnlockSeen, counters, locals, results
<1>7. ASSUME NEW p \in Producers, Full(p)
      PROVE  Queue!AbsNext \/ UNCHANGED Queue!absVars
  <2>1. CASE wait[p]
    BY <1>7, <2>1, Stutter DEF Full, counters, results
  <2>2. CASE ~wait[p]
    <3>1. \A q \in Producers : pc[q] # "insWrite"
      BY <1>7 DEF Full, IInv, Control, Exclusion, HoldsInsert
    <3>2. insPending = insCommitted
      BY <3>1 DEF IInv, Control, InsertSide
    <3>3. Len(Contents) + Len(batch[p]) > Size
      <4>1. ~(Len(batch[p]) <= Size /\ insPending - seenCommitted < Size + 1 - Len(batch[p]))
        BY <1>7 DEF Full, Fits
      <4>2. Len(batch[p]) \in Nat /\ Len(Contents) = insPending - seenCommitted
        BY <1>1, <1>2, <3>2
      <4>3. insPending \in Nat /\ seenCommitted \in Nat /\ insPending >= seenCommitted
        BY <1>1, <3>2
      <4> DEFINE k == Len(Contents)
                 n == Len(batch[p])
      <4>4. /\ ~(n <= Size /\ insPending - seenCommitted < Size + 1 - n)
            /\ n \in Nat /\ k = insPending - seenCommitted
        BY <4>1, <4>2
      <4> HIDE DEF k, n
      <4>5. k + n > Size
        BY <4>3, <4>4, SizeAssumption
      <4> QED BY <4>5 DEF k, n
    <3>4. UNCHANGED Contents
      BY <1>7 DEF Full, counters, Contents, View
    <3>5. Queue!Refuse(p, Len(batch[p]))
      BY <1>7, <2>2, <3>3, <3>4 DEF Full, counters, Queue!Refuse, Queue!Refused
    <3>6. batch[p] \in Batches
      BY <1>7 DEF Full, IInv, ArgumentsHeld
    <3> QED BY <3>5, <3>6 DEF Queue!AbsNext
  <2> QED BY <2>1, <2>2
<1>8. ASSUME NEW p \in Producers, Write(p)
      PROVE  UNCHANGED Queue!absVars
  <2>1. /\ pc[p] = "insWrite" /\ written[p] < Len(batch[p])
        /\ buffer' = [buffer EXCEPT ![Slot(cur[p] + written[p])] = batch[p][written[p] + 1]]
        /\ UNCHANGED <<insCommitted, seenCommitted, ticket, got>>
    BY <1>8 DEF Write, counters, results
  <2>2. cur[p] \in Nat /\ written[p] \in Nat /\ cur[p] = insCommitted
    BY <1>1, <2>1 DEF IInv, Control, InsertSide, Threads
  <2>3. batch[p][written[p] + 1] \in Elem
    BY <1>1, <2>1, <2>2, ElementOfSeq DEF Elem
  <2>4. cur[p] + written[p] \in Nat /\ Slot(cur[p] + written[p]) \in 0..Size-1
    BY <2>2, SlotExists
  <2>5. ASSUME NEW m \in seenCommitted..seenCommitted + (insCommitted - seenCommitted) - 1
        PROVE  Slot(m) # Slot(cur[p] + written[p])
    <3>1. m \in seenCommitted..cur[p] + written[p] - 1
      BY <1>1, <2>2
    <3> QED BY <2>1, <3>1, FreshSlot DEF IInv
  <2>6. UNCHANGED Contents
    <3> DEFINE k == Slot(cur[p] + written[p])
               e == batch[p][written[p] + 1]
               n == insCommitted - seenCommitted
    <3>1. k \in 0..Size-1 /\ e \in Elem /\ n \in Nat
      BY <1>1, <2>3, <2>4
    <3>2. \A m \in seenCommitted..seenCommitted+n-1 : Slot(m) # k
      BY <2>5
    <3>3. buffer' = [buffer EXCEPT ![k] = e] /\ insCommitted' - seenCommitted' = n
      BY <2>1
    <3> HIDE DEF k, e, n
    <3>4. buffer \in [0..Size-1 -> Elem] /\ seenCommitted \in Nat
      BY <1>1
    <3>5. View([buffer EXCEPT ![k] = e], seenCommitted, n) = View(buffer, seenCommitted, n)
      BY ONLY <3>1, <3>2, <3>4, ViewUntouched, Zenon
    <3> QED BY <2>1, <3>3, <3>5 DEF Contents, n
  <2> QED BY <2>1, <2>6 DEF Queue!absVars
<1>9. ASSUME NEW p \in Producers, CommitInsert(p)
      PROVE  Queue!AbsNext
  <2>1. /\ pc[p] = "insWrite" /\ written[p] = Len(batch[p])
        /\ insCommitted' = insCommitted + Len(batch[p])
        /\ ticket' = [ticket EXCEPT ![p] = cur[p]]
        /\ UNCHANGED <<buffer, seenCommitted, got>>
    BY <1>9 DEF CommitInsert
  <2>2. cur[p] = insCommitted /\ insPending = insCommitted + Len(batch[p])
    BY <2>1 DEF IInv, Control, InsertSide
  <2>3. insPending <= seenCommitted + Size
    BY DEF IInv, Control, CountersInOrder
  <2>4. \A i \in 1..Len(batch[p]) :
          buffer[Slot(seenCommitted + (insCommitted - seenCommitted) + i - 1)] = batch[p][i]
    <3>1. \A i \in 1..Len(batch[p]) : buffer[Slot(cur[p] + i - 1)] = batch[p][i]
      BY <2>1 DEF IInv, SlotsHold
    <3>2. seenCommitted + (insCommitted - seenCommitted) = cur[p]
      BY <1>1, <2>2
    <3> QED BY <3>1, <3>2
  <2>5. batch[p] \in Seq(Elem)
    BY <1>1, SeqMonotonic DEF Elem
  <2>6. Contents \o batch[p]
          = View(buffer, seenCommitted, (insCommitted - seenCommitted) + Len(batch[p]))
    BY <1>1, <2>4, <2>5, ViewConcat DEF Contents
  <2>7. Contents' = Contents \o batch[p]
    <3>1. insCommitted' - seenCommitted' = (insCommitted - seenCommitted) + Len(batch[p])
      BY <1>1, <2>1
    <3> QED BY <2>1, <2>6, <3>1 DEF Contents
  <2>8. Queue!Insert(p, batch[p])
    BY <1>1, <1>2, <2>1, <2>2, <2>3, <2>7, SizeAssumption DEF Queue!Insert
  <2>9. batch[p] \in Batches
    BY <2>1 DEF IInv, ArgumentsHeld
  <2> QED BY <2>8, <2>9 DEF Queue!AbsNext
<1>10. ASSUME NEW c \in Consumers, NothingThere(c)
       PROVE  Queue!AbsNext \/ UNCHANGED Queue!absVars
  <2>1. CASE wait[c]
    BY <1>10, <2>1, Stutter DEF NothingThere, counters, results
  <2>2. CASE ~wait[c]
    <3>1. \A d \in Consumers : ~Claiming(d)
      BY <1>10 DEF NothingThere, IInv, Control, Exclusion, HoldsSeen, Claiming
    <3>2. seenPending = seenCommitted /\ ~(insCommitted > seenPending)
      BY <1>10, <3>1 DEF NothingThere, IInv, Control, SeenSide
    <3>3. Contents = <<>>
      BY <1>1, <1>2, <3>2
    <3>4. UNCHANGED Contents
      BY <1>10 DEF NothingThere, counters, Contents, View
    <3>5. Queue!FindEmpty(c)
      BY <1>10, <2>2, <3>3, <3>4 DEF NothingThere, counters, Queue!FindEmpty
    <3> QED BY <3>5 DEF Queue!AbsNext
  <2> QED BY <2>1, <2>2
<1>11. ASSUME NEW c \in Consumers, CommitSeen(c)
       PROVE  Queue!AbsNext
  <2>1. /\ pc[c] = "seenCommit"
        /\ seenCommitted' = seenCommitted + 1
        /\ got' = [got EXCEPT ![c] = val[c]]
        /\ UNCHANGED <<buffer, insCommitted, ticket>>
    BY <1>11 DEF CommitSeen
  <2>2. cur[c] = seenCommitted /\ seenPending = seenCommitted + 1 /\ seenPending <= insCommitted
    BY <2>1 DEF IInv, Control, SeenSide, Claiming, CountersInOrder
  <2>3. val[c] = buffer[Slot(seenCommitted)]
    BY <2>1, <2>2 DEF IInv, SlotsHold
  <2>4. insCommitted - seenCommitted > 0
    BY <1>1, <2>2
  <2>5. /\ Contents # <<>>
        /\ Head(Contents) = val[c]
        /\ Tail(Contents) = View(buffer, seenCommitted + 1, (insCommitted - seenCommitted) - 1)
    BY <1>1, <2>3, <2>4, ViewTail DEF Contents
  <2>6. Contents' = Tail(Contents)
    <3>1. insCommitted' - seenCommitted' = (insCommitted - seenCommitted) - 1
      BY <1>1, <2>1
    <3> QED BY <2>1, <2>5, <3>1 DEF Contents
  <2>7. Queue!Consume(c)
    BY <2>1, <2>5, <2>6 DEF Queue!Consume
  <2> QED BY <2>7 DEF Queue!AbsNext
<1>12. CASE UNCHANGED vars
  BY <1>12, Stutter DEF vars, counters, results
<1> QED
  BY <1>3, <1>4, <1>5, <1>6, <1>7, <1>8, <1>9, <1>10, <1>11, <1>12
  DEF Next, InsertStep, ConsumeStep

\* The ring buffer is a linearizable bounded FIFO queue for any number of
\* producers and consumers, any capacity and any batches.
THEOREM RingBufferImplementsQueue == Spec => ImplementsQueue
<1>1. Init => Queue!AbsInit
  BY InitRefines
<1>2. IInv /\ [Next]_vars => [Queue!AbsNext]_(Queue!absVars)
  BY StepRefines
<1> QED BY <1>1, <1>2, Invariance, PTL DEF Spec, ImplementsQueue, Queue!AbsSpec

=============================================================================
