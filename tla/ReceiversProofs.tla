-------------------------- MODULE ReceiversProofs --------------------------
(***************************************************************************)
(* Proofs about Receivers, for any receivers, handles, messages, buffers   *)
(* of callers and capacities, with or without exceptions.                  *)
(***************************************************************************)
EXTENDS Receivers, SequenceTheorems, TLAPS

Own(r) == ToSet(receiver[r].own)
Tasks(r) == receiver[r].tasks

\* A message is in one place at most: the queue of the group, the queue of one
\* receiver or the tasks of one receiver; its status says in which kind.
Placed ==
  /\ IsInjective(submissions)
  /\ \A m \in ToSet(submissions) : message[m].status = "queued"
  /\ \A r \in Receivers : IsInjective(receiver[r].own)
  /\ \A r \in Receivers : \A m \in Own(r) :
       message[m].status = "queued" /\ m \notin ToSet(submissions)
  /\ \A r \in Receivers : \A m \in Tasks(r) :
       message[m].status \in {"running", "receiving", "thrown"}
  /\ \A r, q \in Receivers : r # q => Own(r) \cap Own(q) = {} /\ Tasks(r) \cap Tasks(q) = {}

\* A message has a vector until it has ended.
HasVector ==
  \A m \in Msgs : message[m].status \in {"new", "queued", "running", "receiving"}
    => message[m].vector # None

\* What a message has received is alone in its vector.
ReceivesAlone ==
  \A m \in Msgs : message[m].status = "receiving"
    => memory[message[m].vector].bytes = {m}

\* Whose each vector is, and what is in it.
Owners == HasVector /\ VectorHasOneOwner /\ ReceivesAlone /\ CallbackReadsOwn

IInv == TypeOK /\ LentOnce /\ Placed /\ Owners

-----------------------------------------------------------------------------
(* Sequences                                                               *)

\* Append adds its element, and keeps a sequence of distinct elements so.
LEMMA AppendFacts ==
  ASSUME NEW S, NEW s \in Seq(S), NEW e \in S
  PROVE  /\ Append(s, e) \in Seq(S)
         /\ Len(Append(s, e)) = Len(s) + 1
         /\ ToSet(Append(s, e)) = ToSet(s) \cup {e}
         /\ IsInjective(s) /\ e \notin ToSet(s) => IsInjective(Append(s, e))
<1> DEFINE t == Append(s, e)
<1>1. /\ t \in Seq(S) /\ Len(t) = Len(s) + 1 /\ t[Len(s) + 1] = e
      /\ \A i \in 1..Len(s) : t[i] = s[i]
  BY AppendProperties
<1>2. DOMAIN s = 1..Len(s) /\ DOMAIN t = 1..(Len(s) + 1) /\ Len(s) \in Nat
  BY <1>1, LenProperties
<1> HIDE DEF t
<1>3. ToSet(t) = ToSet(s) \cup {e}
  BY <1>1, <1>2 DEF ToSet
<1>4. IsInjective(s) /\ e \notin ToSet(s) => IsInjective(t)
  BY <1>1, <1>2 DEF ToSet, IsInjective
<1> QED BY <1>1, <1>3, <1>4 DEF t

\* The head of a sequence of distinct elements is not in its tail.
LEMMA TailFacts ==
  ASSUME NEW S, NEW s \in Seq(S), s # <<>>
  PROVE  /\ Head(s) \in S /\ Head(s) \in ToSet(s)
         /\ Tail(s) \in Seq(S) /\ Len(Tail(s)) = Len(s) - 1
         /\ ToSet(Tail(s)) \subseteq ToSet(s)
         /\ IsInjective(s) => /\ IsInjective(Tail(s))
                              /\ Head(s) \notin ToSet(Tail(s))
<1> DEFINE t == Tail(s)
<1>1. /\ t \in Seq(S) /\ Len(t) = Len(s) - 1 /\ Head(s) \in S
      /\ \A i \in 1..Len(t) : t[i] = s[i + 1]
  BY HeadTailProperties
<1>2. /\ DOMAIN s = 1..Len(s) /\ DOMAIN t = 1..(Len(s) - 1) /\ Len(s) \in Nat \ {0}
      /\ Head(s) = s[1]
  BY <1>1, LenProperties, EmptySeq
<1> HIDE DEF t
<1>3. \A i \in DOMAIN t : i + 1 \in DOMAIN s /\ i + 1 # 1 /\ t[i] = s[i + 1]
  BY <1>1, <1>2
<1>4. Head(s) \in ToSet(s)
  BY <1>2 DEF ToSet
<1>5. ToSet(t) \subseteq ToSet(s)
  BY <1>3 DEF ToSet
<1>6. ASSUME IsInjective(s)
      PROVE  IsInjective(t) /\ Head(s) \notin ToSet(t)
  <2>1. \A i, j \in DOMAIN s : s[i] = s[j] => i = j
    BY <1>6 DEF IsInjective
  <2>2. ASSUME NEW i \in DOMAIN t, NEW j \in DOMAIN t, t[i] = t[j]
        PROVE  i = j
    BY <1>2, <1>3, <2>1, <2>2
  <2>3. ASSUME NEW i \in DOMAIN t
        PROVE  t[i] # Head(s)
    BY <1>2, <1>3, <2>1
  <2> QED BY <2>2, <2>3 DEF ToSet, IsInjective
<1> QED BY <1>1, <1>4, <1>5, <1>6 DEF t

\* What an empty queue is.
LEMMA EmptyFacts ==
  ASSUME NEW S
  PROVE  <<>> \in Seq(S) /\ Len(<<>>) = 0 /\ ToSet(<<>>) = {} /\ IsInjective(<<>>)
BY EmptySeq DEF ToSet, IsInjective

-----------------------------------------------------------------------------
(* What the actions assign                                                 *)

\* What is queued are messages, what is cached are receivers.
LEMMA Types ==
  ASSUME TypeOK
  PROVE  /\ \A r \in Receivers :
              /\ receiver[r].own \in Seq(Msgs) /\ Tasks(r) \subseteq Msgs
              /\ Own(r) \subseteq Msgs
         /\ ToSet(submissions) \subseteq Msgs /\ ToSet(pool) \subseteq Msgs
         /\ ToSet(cached) \subseteq Receivers
<1>1. ASSUME NEW S, NEW s \in Seq(S)
      PROVE  ToSet(s) \subseteq S
  BY <1>1, LenProperties, ElementOfSeq DEF ToSet
<1> QED BY <1>1 DEF TypeOK, ReceiverStates, Own, Tasks

\* Become changes the status of some messages and nothing else.
LEMMA BecomeFacts ==
  ASSUME TypeOK, NEW ms, NEW s \in Statuses, Become(ms, s)
  PROVE  /\ message' \in [Msgs -> MessageStates]
         /\ \A m \in Msgs :
              /\ message'[m].status = IF m \in ms THEN s ELSE message[m].status
              /\ message'[m].vector = message[m].vector
              /\ message'[m].seen = message[m].seen
<1>1. ASSUME NEW m \in Msgs
      PROVE  /\ message'[m] = IF m \in ms THEN [message[m] EXCEPT !.status = s] ELSE message[m]
             /\ message[m] \in MessageStates
  BY DEF TypeOK, Become
<1>2. ASSUME NEW m \in Msgs
      PROVE  /\ message'[m] \in MessageStates
             /\ message'[m].status = IF m \in ms THEN s ELSE message[m].status
             /\ message'[m].vector = message[m].vector
             /\ message'[m].seen = message[m].seen
  BY <1>1 DEF MessageStates
<1>3. message' = [m \in Msgs |-> message'[m]]
  BY DEF Become
<1> QED BY <1>2, <1>3

\* A reset receiver holds no message, whether it is kept or erased.
LEMMA ResetFacts ==
  ASSUME TypeOK, NEW r \in Receivers, NEW state, state \in {Rested(r), Erased},
         ResetTo(r, state)
  PROVE  /\ Become(Tasks(r) \cup Own(r), "dropped")
         /\ receiver' \in [Receivers -> ReceiverStates]
         /\ receiver'[r] = state /\ receiver'[r].own = <<>> /\ receiver'[r].tasks = {}
         /\ \A q \in Receivers : q # r => receiver'[q] = receiver[q]
<1>1. <<>> \in Seq(Msgs)
  BY EmptySeq
<1> QED BY <1>1 DEF TypeOK, ReceiverStates, ResetTo, Rested, Erased, NewReceiver, Own, Tasks

\* The steps that take a message, with the status it gets.
Takes(r, status) ==
  \/ status = "running" /\ Start(r)
  \/ status = "aborted" /\ StartAborts(r)
  \/ status = "thrown" /\ StartThrows(r)

\* Taking a message moves the first of one queue, and changes one receiver.
LEMMA TakeFacts ==
  ASSUME TypeOK, NEW r \in Receivers, NEW status, Takes(r, status)
  PROVE  /\ First(r) \in Msgs /\ receiver[r].loop \in {"own", "group"}
         /\ message' = [message EXCEPT ![First(r)].status = status,
                                       ![First(r)].vector = VectorFor(First(r))]
         /\ pool' = IF VectorFor(First(r)) = message[First(r)].vector
                    THEN pool ELSE Tail(pool)
         /\ receiver[r].loop = "own" =>
              /\ First(r) = Head(receiver[r].own) /\ receiver[r].own # <<>>
              /\ receiver'[r].own = Tail(receiver[r].own) /\ submissions' = submissions
         /\ receiver[r].loop = "group" =>
              /\ First(r) = Head(submissions) /\ submissions # <<>>
              /\ receiver'[r].own = receiver[r].own /\ submissions' = Tail(submissions)
         /\ receiver'[r].tasks = IF status = "running" THEN Tasks(r) \cup {First(r)}
                                                      ELSE Tasks(r)
         /\ receiver'[r].alive = receiver[r].alive
         /\ \A q \in Receivers : q # r => receiver'[q] = receiver[q]
         /\ receiver' \in [Receivers -> ReceiverStates]
         /\ UNCHANGED <<handle, cached>> /\ status \in {"running", "aborted", "thrown"}
<1> DEFINE m == First(r)
<1> DEFINE throws == (status = "thrown")
<1>7. throws \in BOOLEAN
  OBVIOUS
<1>0. Take(r, status, throws) /\ status \in {"running", "aborted", "thrown"}
  <2>1. CASE status = "running" /\ Start(r)
    BY <2>1, Zenon DEF Start
  <2>2. CASE status = "aborted" /\ StartAborts(r)
    BY <2>2 DEF StartAborts
  <2>3. CASE status = "thrown" /\ StartThrows(r)
    BY <2>3 DEF StartThrows
  <2> QED BY <2>1, <2>2, <2>3 DEF Takes
<1> HIDE DEF throws
<1>1. receiver[r].loop \in {"own", "group"} /\ Waiting(r) # <<>>
  BY <1>0 DEF TypeOK, ReceiverStates, Take, Waiting
<1>2. /\ Waiting(r) \in Seq(Msgs)
      /\ receiver[r].loop = "own" => Waiting(r) = receiver[r].own
      /\ receiver[r].loop = "group" => Waiting(r) = submissions
  BY <1>1 DEF TypeOK, ReceiverStates, Waiting
<1>3. m \in Msgs /\ Tail(Waiting(r)) \in Seq(Msgs)
  BY <1>1, <1>2, HeadTailProperties DEF First
<1>4. /\ message' = [message EXCEPT ![m].status = status, ![m].vector = VectorFor(m)]
      /\ pool' = IF VectorFor(m) = message[m].vector THEN pool ELSE Tail(pool)
      /\ receiver' = [receiver EXCEPT
           ![r].own = IF receiver[r].loop = "own" THEN Tail(@) ELSE @,
           ![r].tasks = IF status = "running" THEN @ \cup {m} ELSE @,
           ![r].failing = throws]
      /\ submissions' = IF receiver[r].loop = "group" THEN Tail(submissions) ELSE submissions
  BY <1>0 DEF Take
<1> HIDE DEF m
<1>5. /\ receiver'[r].own = IF receiver[r].loop = "own" THEN Tail(receiver[r].own) ELSE receiver[r].own
      /\ receiver'[r].tasks = IF status = "running" THEN Tasks(r) \cup {m} ELSE Tasks(r)
      /\ receiver'[r].alive = receiver[r].alive
      /\ \A q \in Receivers : q # r => receiver'[q] = receiver[q]
  BY <1>4 DEF TypeOK, ReceiverStates, Tasks
<1>6. receiver' \in [Receivers -> ReceiverStates]
  <2>1. receiver[r] \in ReceiverStates
    BY DEF TypeOK
  <2>2. Tail(receiver[r].own) \in Seq(Msgs) \/ receiver[r].loop # "own"
    BY <1>2, <1>3
  <2> DEFINE f == [receiver[r] EXCEPT
           !.own = IF receiver[r].loop = "own" THEN Tail(@) ELSE @,
           !.tasks = IF status = "running" THEN @ \cup {m} ELSE @,
           !.failing = throws]
  <2>4. f \in ReceiverStates
    BY <1>3, <1>7, <2>1, <2>2 DEF ReceiverStates
  <2>5. receiver' = [receiver EXCEPT ![r] = f]
    BY <1>4 DEF TypeOK
  <2> HIDE DEF f
  <2> QED BY <2>4, <2>5 DEF TypeOK
<1> QED BY <1>0, <1>1, <1>2, <1>3, <1>4, <1>5, <1>6 DEF m, First, Take

-----------------------------------------------------------------------------
(* A receiver has one holder                                               *)

\* The steps that move no receiver: what is cached is not touched.
LEMMA LentStays ==
  ASSUME TypeOK, LentOnce, UNCHANGED <<handle, cached>>,
         \A q \in Receivers : receiver'[q].alive = receiver[q].alive,
         \A q \in ToSet(cached) : receiver'[q] = receiver[q]
  PROVE  LentOnce'
BY Types DEF TypeOK, LentOnce, Held

\* Every step keeps a receiver with one holder.
LEMMA StepLent ==
  ASSUME TypeOK, LentOnce, Next
  PROVE  LentOnce'
<1>1. ASSUME NEW h \in Handles, GetCached(h)
      PROVE  LentOnce'
  <2>1. cached # <<>> /\ cached \in Seq(Receivers) /\ UNCHANGED receiver
    BY <1>1 DEF GetCached, TypeOK
  <2>2. /\ cached' = Tail(cached) /\ handle' = [handle EXCEPT ![h] = Head(cached)]
        /\ handle \in [Handles -> Receivers \cup {None}]
    BY <1>1 DEF GetCached, TypeOK
  <2>3. /\ Head(cached) \in Receivers /\ Head(cached) \in ToSet(cached)
        /\ ToSet(cached') \subseteq ToSet(cached)
        /\ IsInjective(cached') /\ Head(cached) \notin ToSet(cached')
    BY <2>1, <2>2, TailFacts DEF LentOnce
  <2>4. \A g \in Handles : handle'[g] = IF g = h THEN Head(cached) ELSE handle[g]
    BY <2>2
  <2> QED BY <2>1, <2>3, <2>4, NoneAssumption DEF LentOnce, Held
<1>2. ASSUME NEW h \in Handles, GetNew(h)
      PROVE  LentOnce'
  <2>1. PICK r \in Receivers :
          /\ ~receiver[r].alive
          /\ receiver' = [receiver EXCEPT ![r] = NewReceiver]
          /\ handle' = [handle EXCEPT ![h] = r]
    BY <1>2 DEF GetNew
  <2>2. /\ cached = <<>> /\ cached' = <<>> /\ ToSet(cached') = {} /\ IsInjective(cached')
    BY <1>2, EmptyFacts DEF GetNew
  <2>3. \A g \in Handles : handle'[g] = IF g = h THEN r ELSE handle[g]
    BY <2>1 DEF TypeOK
  <2>4. /\ receiver'[r].alive
        /\ \A q \in Receivers : q # r => receiver'[q] = receiver[q]
    BY <2>1 DEF TypeOK, NewReceiver
  <2>5. \A g \in Handles : Held(g) => handle[g] \in Receivers /\ handle[g] # r
    BY <2>1 DEF LentOnce, Held, TypeOK
  <2> QED BY <2>1, <2>2, <2>3, <2>4, <2>5, NoneAssumption DEF LentOnce, Held
<1>3. ASSUME NEW h \in Handles, Release(h)
      PROVE  LentOnce'
  <2> DEFINE r == handle[h]
  <2>1. /\ r \in Receivers /\ Held(h) /\ receiver[r].loop = "out" /\ receiver[r].alive
        /\ ResetTo(r, Rested(r)) /\ cached' = Append(cached, r)
        /\ handle' = [handle EXCEPT ![h] = None]
    BY <1>3 DEF Release, AtRest, Held, TypeOK, LentOnce
  <2> HIDE DEF r
  <2>2. /\ receiver'[r] = Rested(r)
        /\ receiver'[r].own = <<>> /\ receiver'[r].tasks = {}
        /\ \A q \in Receivers : q # r => receiver'[q] = receiver[q]
    BY <2>1, ResetFacts
  <2>3. receiver'[r].alive /\ receiver'[r].loop = "out"
    BY <2>1, <2>2 DEF Rested, TypeOK, ReceiverStates
  <2>4. ToSet(cached') = ToSet(cached) \cup {r} /\ IsInjective(cached') /\ r \notin ToSet(cached)
    <3>1. r \notin ToSet(cached)
      BY <2>1 DEF LentOnce, r
    <3> QED BY <2>1, <3>1, AppendFacts DEF LentOnce, TypeOK
  <2>5. \A g \in Handles : handle'[g] = IF g = h THEN None ELSE handle[g]
    BY <2>1 DEF TypeOK
  <2>6. \A g \in Handles : g # h /\ Held(g) => handle[g] # r /\ handle[g] \in Receivers
    BY <2>1 DEF LentOnce, Held, TypeOK, r
  <2> QED BY <2>2, <2>3, <2>4, <2>5, <2>6, Types DEF LentOnce, Held
<1>4. ASSUME NEW h \in Handles, ReleaseToFull(h)
      PROVE  LentOnce'
  <2> DEFINE r == handle[h]
  <2>1. /\ r \in Receivers /\ Held(h) /\ r \notin ToSet(cached)
        /\ ResetTo(r, Erased) /\ cached' = cached
        /\ handle' = [handle EXCEPT ![h] = None]
    BY <1>4 DEF ReleaseToFull, AtRest, Held, TypeOK, LentOnce
  <2>2. \A g \in Handles : g # h /\ Held(g) => handle[g] # r /\ handle[g] \in Receivers
    BY <2>1 DEF LentOnce, Held, TypeOK
  <2> HIDE DEF r
  <2>3. \A q \in Receivers : q # r => receiver'[q] = receiver[q]
    BY <2>1, ResetFacts
  <2>4. \A g \in Handles : handle'[g] = IF g = h THEN None ELSE handle[g]
    BY <2>1 DEF TypeOK
  <2> QED BY <2>1, <2>2, <2>3, <2>4, Types DEF LentOnce, Held
<1>5. ASSUME NEW h \in Handles, NEW g \in Handles, MoveInto(h, g)
      PROVE  LentOnce'
  <2>1. /\ h # g /\ ~Held(h) /\ UNCHANGED <<cached, receiver>>
        /\ \A k \in Handles : handle'[k] = IF k = g THEN None
                                        ELSE IF k = h THEN handle[g] ELSE handle[k]
    BY <1>5 DEF MoveInto, Moved, TypeOK
  <2> QED BY <2>1 DEF LentOnce, Held
<1>6. ASSUME NEW h \in Handles, NEW g \in Handles, MoveOver(h, g)
      PROVE  LentOnce'
  <2> DEFINE r == handle[h]
  <2>1. /\ r \in Receivers /\ Held(h) /\ receiver[r].loop = "out" /\ receiver[r].alive
        /\ r \notin ToSet(cached) /\ h # g /\ ResetTo(r, Rested(r))
        /\ cached' = IF Len(cached) < Submissions THEN Append(cached, r) ELSE cached
    BY <1>6 DEF MoveOver, AtRest, Held, TypeOK, LentOnce
  <2>2. \A k \in Handles : k # h /\ Held(k) => handle[k] # r /\ handle[k] \in Receivers
    BY <2>1 DEF LentOnce, Held, TypeOK
  <2>3. \A k \in Handles : handle'[k] = IF k = g THEN None
                                    ELSE IF k = h THEN handle[g] ELSE handle[k]
    BY <1>6 DEF MoveOver, Moved, TypeOK
  <2> HIDE DEF r
  <2>4. /\ receiver'[r] = Rested(r)
        /\ receiver'[r].own = <<>> /\ receiver'[r].tasks = {}
        /\ \A q \in Receivers : q # r => receiver'[q] = receiver[q]
    BY <2>1, ResetFacts
  <2>5. receiver'[r].alive /\ receiver'[r].loop = "out"
    BY <2>1, <2>4 DEF Rested, TypeOK, ReceiverStates
  <2>6. /\ ToSet(cached') \subseteq ToSet(cached) \cup {r}
        /\ IsInjective(cached')
    BY <2>1, AppendFacts DEF LentOnce, TypeOK
  <2> QED BY <2>1, <2>2, <2>3, <2>4, <2>5, <2>6, Types DEF LentOnce, Held
<1>7. CASE NewGroup
  <2>1. cached' = <<>> /\ UNCHANGED handle /\ \A h \in Handles : ~Held(h)
    BY <1>7 DEF NewGroup
  <2>2. ToSet(cached') = {} /\ IsInjective(cached')
    BY <2>1, EmptyFacts
  <2> QED BY <2>1, <2>2 DEF LentOnce, Held
<1>8. ASSUME NEW m \in Msgs, Send(m)
      PROVE  LentOnce'
  BY <1>8 DEF Send, LentOnce, Held
<1>9. ASSUME NEW m \in Msgs, NEW h \in Handles, SendSync(h, m)
      PROVE  LentOnce'
  <2>1. /\ handle[h] \in Receivers /\ handle[h] \notin ToSet(cached)
        /\ UNCHANGED <<handle, cached>>
        /\ receiver' = [receiver EXCEPT ![handle[h]].own = Append(@, m)]
    BY <1>9 DEF SendSync, AtRest, Held, TypeOK, LentOnce
  <2> QED BY <2>1, Types, LentStays DEF TypeOK, ReceiverStates
<1>10. ASSUME NEW h \in Handles, Enter(h)
       PROVE  LentOnce'
  <2>1. /\ handle[h] \in Receivers /\ handle[h] \notin ToSet(cached)
        /\ UNCHANGED <<handle, cached>>
    BY <1>10 DEF Enter, AtRest, Held, TypeOK, LentOnce
  <2>2. PICK l : receiver' = [receiver EXCEPT ![handle[h]].failing = FALSE, ![handle[h]].loop = l]
    BY <1>10 DEF Enter
  <2> QED BY <2>1, <2>2, Types, LentStays DEF TypeOK, ReceiverStates
<1>11. ASSUME NEW r \in Receivers, LoopStep(r)
       PROVE  LentOnce'
  <2>1. SUFFICES /\ UNCHANGED <<handle, cached>> /\ receiver[r].loop # "out"
                 /\ receiver'[r].alive = receiver[r].alive
                 /\ \A q \in Receivers : q # r => receiver'[q] = receiver[q]
    <3>1. receiver[r].loop # "out" => r \notin ToSet(cached)
      BY DEF LentOnce
    <3> QED BY <2>1, <3>1, Types, LentStays
  <2>2. ASSUME NEW status, Takes(r, status)
        PROVE  /\ UNCHANGED <<handle, cached>> /\ receiver[r].loop # "out"
               /\ receiver'[r].alive = receiver[r].alive
               /\ \A q \in Receivers : q # r => receiver'[q] = receiver[q]
    BY <2>2, TakeFacts
  <2>3. CASE Start(r) \/ StartAborts(r) \/ StartThrows(r)
    BY <2>2, <2>3 DEF Takes
  <2>4. CASE Leave(r)
    BY <2>4 DEF Leave, TypeOK, ReceiverStates
  <2>5. ASSUME NEW m \in Msgs, Receive(r, m) \/ Finish(r, m) \/ Abort(r, m) \/ Throw(r, m)
        PROVE  /\ UNCHANGED <<handle, cached>> /\ receiver[r].loop # "out"
               /\ receiver'[r].alive = receiver[r].alive
               /\ \A q \in Receivers : q # r => receiver'[q] = receiver[q]
    BY <2>5 DEF Receive, Finish, Abort, Throw, End, Executes, TypeOK, ReceiverStates
  <2> QED BY <1>11, <2>3, <2>4, <2>5 DEF LoopStep
<1> QED BY <1>1, <1>2, <1>3, <1>4, <1>5, <1>6, <1>7, <1>8, <1>9, <1>10, <1>11
        DEF Next, HandleStep

-----------------------------------------------------------------------------
(* A message has one place                                                 *)

\* Steps that empty some receivers and change the status of what was in them.
LEMMA PlacedLess ==
  ASSUME Placed, UNCHANGED submissions,
         \A r \in Receivers :
           \/ receiver'[r].own = receiver[r].own /\ receiver'[r].tasks = receiver[r].tasks
           \/ receiver'[r].own = <<>> /\ receiver'[r].tasks = {},
         \A m \in ToSet(submissions) : message'[m].status = message[m].status,
         \A r \in Receivers : \A m \in Own(r)' \cup Tasks(r)' :
           message'[m].status = message[m].status
  PROVE  Placed'
<1>1. \A r \in Receivers : /\ Own(r)' \subseteq Own(r) /\ Tasks(r)' \subseteq Tasks(r)
                           /\ IsInjective(receiver'[r].own)
  BY EmptyFacts DEF Placed, Own, Tasks
<1>2. /\ IsInjective(submissions')
      /\ \A m \in ToSet(submissions') : message'[m].status = "queued"
  BY DEF Placed
<1>3. \A r \in Receivers : \A m \in Own(r)' :
        message'[m].status = "queued" /\ m \notin ToSet(submissions')
  BY <1>1 DEF Placed
<1>4. \A r \in Receivers : \A m \in Tasks(r)' :
        message'[m].status \in {"running", "receiving", "thrown"}
  BY <1>1 DEF Placed
<1>5. \A r, q \in Receivers : r # q =>
        (Own(r) \cap Own(q) = {})' /\ (Tasks(r) \cap Tasks(q) = {})'
  BY <1>1 DEF Placed
<1> QED BY <1>1, <1>2, <1>3, <1>4, <1>5 DEF Placed

\* A message that is new is in none of the places.
LEMMA NewIsNowhere ==
  ASSUME Placed, TypeOK, NEW m \in Msgs, message[m].status = "new"
  PROVE  /\ m \notin ToSet(submissions)
         /\ \A r \in Receivers : m \notin Own(r) /\ m \notin Tasks(r)
BY DEF Placed

\* What a reset forgets is in no place any more.
LEMMA PlacedReset ==
  ASSUME TypeOK, Placed, UNCHANGED submissions, NEW r \in Receivers,
         NEW state, state \in {Rested(r), Erased}, ResetTo(r, state)
  PROVE  Placed'
<1>1. /\ Become(Tasks(r) \cup Own(r), "dropped")
      /\ receiver'[r].own = <<>> /\ receiver'[r].tasks = {}
      /\ \A q \in Receivers : q # r => receiver'[q] = receiver[q]
  BY ResetFacts
<1>2. \A m \in Msgs : m \notin Tasks(r) \cup Own(r) => message'[m].status = message[m].status
  BY <1>1, BecomeFacts DEF Statuses
<1>3. \A m \in ToSet(submissions) : m \notin Tasks(r) \cup Own(r)
  BY DEF Placed
<1>4. ASSUME NEW q \in Receivers, NEW m \in Own(q)' \cup Tasks(q)'
      PROVE  m \notin Tasks(r) \cup Own(r) /\ m \in Msgs
  <2>1. q # r /\ m \in Own(q) \cup Tasks(q)
    BY <1>1, <1>4, EmptyFacts DEF Own, Tasks
  <2> QED BY <2>1, Types DEF Placed
<1> QED BY <1>1, <1>2, <1>3, <1>4, Types, PlacedLess

\* A message that is taken leaves its queue before it becomes a task.
LEMMA PlacedTake ==
  ASSUME TypeOK, Placed, NEW r \in Receivers, NEW status, Takes(r, status)
  PROVE  Placed'
<1> DEFINE m == First(r)
<1>1. /\ m \in Msgs /\ message' = [message EXCEPT ![m].status = status, ![m].vector = VectorFor(m)]
      /\ status \in {"running", "aborted", "thrown"}
      /\ receiver'[r].tasks = IF status = "running" THEN Tasks(r) \cup {m} ELSE Tasks(r)
      /\ \A q \in Receivers : q # r => receiver'[q] = receiver[q]
  BY TakeFacts
<1>2. /\ ToSet(submissions') \subseteq ToSet(submissions) /\ IsInjective(submissions')
      /\ m \notin ToSet(submissions') /\ message[m].status = "queued"
      /\ Own(r)' \subseteq Own(r) /\ IsInjective(receiver'[r].own) /\ m \notin Own(r)'
      /\ \A q \in Receivers : q # r => m \notin Own(q)
  <2>1. receiver[r].loop \in {"own", "group"} /\ receiver[r].own \in Seq(Msgs) /\ submissions \in Seq(Msgs)
    BY Types, TakeFacts DEF TypeOK
  <2>2. CASE receiver[r].loop = "own"
    <3>1. /\ m = Head(receiver[r].own) /\ receiver[r].own # <<>>
          /\ receiver'[r].own = Tail(receiver[r].own) /\ submissions' = submissions
      BY <2>2, TakeFacts
    <3>2. m \in Own(r) /\ Own(r)' \subseteq Own(r) /\ IsInjective(receiver'[r].own) /\ m \notin Own(r)'
      BY <2>1, <3>1, TailFacts DEF Own, Placed
    <3> QED BY <3>1, <3>2 DEF Placed
  <2>3. CASE receiver[r].loop = "group"
    <3>1. /\ m = Head(submissions) /\ submissions # <<>>
          /\ receiver'[r].own = receiver[r].own /\ submissions' = Tail(submissions)
      BY <2>3, TakeFacts
    <3>2. /\ m \in ToSet(submissions) /\ ToSet(submissions') \subseteq ToSet(submissions)
          /\ IsInjective(submissions') /\ m \notin ToSet(submissions')
      BY <2>1, <3>1, TailFacts DEF Placed
    <3>3. Own(r)' = Own(r) /\ \A q \in Receivers : m \notin Own(q)
      BY <3>1, <3>2 DEF Placed, Own
    <3> QED BY <3>1, <3>2, <3>3 DEF Placed
  <2> QED BY <2>1, <2>2, <2>3
<1> HIDE DEF m
<1>3. /\ message'[m].status = status
      /\ \A n \in Msgs : n # m => message'[n].status = message[n].status
  BY <1>1 DEF TypeOK, MessageStates
<1>4. \A q \in Receivers : /\ Own(q)' \subseteq Own(q) /\ m \notin Own(q)'
                           /\ IsInjective(receiver'[q].own) /\ m \notin Tasks(q)
                           /\ q # r => Tasks(q)' = Tasks(q)
  BY <1>1, <1>2 DEF Placed, Own, Tasks
<1>5. Tasks(r)' = IF status = "running" THEN Tasks(r) \cup {m} ELSE Tasks(r)
  BY <1>1 DEF Tasks
<1>6. /\ IsInjective(submissions')
      /\ \A n \in ToSet(submissions') : message'[n].status = "queued"
  BY <1>2, <1>3, Types DEF Placed
<1>7. \A q \in Receivers : \A n \in Own(q)' :
        message'[n].status = "queued" /\ n \notin ToSet(submissions')
  BY <1>2, <1>3, <1>4, Types DEF Placed
<1>8. \A q \in Receivers : \A n \in Tasks(q)' :
        message'[n].status \in {"running", "receiving", "thrown"}
  BY <1>3, <1>4, <1>5, Types DEF Placed
<1>9. \A p, q \in Receivers : p # q =>
        (Own(p) \cap Own(q) = {})' /\ (Tasks(p) \cap Tasks(q) = {})'
  BY <1>4, <1>5 DEF Placed
<1> QED BY <1>4, <1>6, <1>7, <1>8, <1>9 DEF Placed

\* The steps of a task: it stays in its receiver as long as its status says so.
LEMMA PlacedExecute ==
  ASSUME TypeOK, Placed, UNCHANGED submissions,
         NEW r \in Receivers, NEW m \in Msgs, Executes(r, m),
         \A q \in Receivers : Own(q)' = Own(q) /\ receiver'[q].own = receiver[q].own,
         \A q \in Receivers : Tasks(q)' \subseteq Tasks(q),
         \A n \in Msgs : n # m => message'[n].status = message[n].status,
         m \in Tasks(r)' => message'[m].status \in {"running", "receiving", "thrown"}
  PROVE  Placed'
<1>1. m \in Tasks(r) /\ message[m].status # "queued"
  BY DEF Executes, Tasks
<1>2. /\ m \notin ToSet(submissions)
      /\ \A q \in Receivers : m \notin Own(q) /\ (q # r => m \notin Tasks(q))
  BY <1>1 DEF Placed
<1>3. /\ IsInjective(submissions')
      /\ \A n \in ToSet(submissions') : message'[n].status = "queued"
  BY <1>2, Types DEF Placed
<1>4. \A q \in Receivers : \A n \in Own(q)' :
        message'[n].status = "queued" /\ n \notin ToSet(submissions')
  BY <1>2, Types DEF Placed
<1>5. \A q \in Receivers : \A n \in Tasks(q)' :
        message'[n].status \in {"running", "receiving", "thrown"}
  BY <1>2, Types DEF Placed
<1>6. \A p, q \in Receivers : p # q =>
        (Own(p) \cap Own(q) = {})' /\ (Tasks(p) \cap Tasks(q) = {})'
  BY DEF Placed
<1>7. \A q \in Receivers : IsInjective(receiver'[q].own)
  BY DEF Placed
<1> QED BY <1>3, <1>4, <1>5, <1>6, <1>7 DEF Placed

\* The step that puts a new message into a receiver's own queue.
LEMMA PlacedQueue ==
  ASSUME TypeOK, Placed, UNCHANGED submissions, NEW r \in Receivers, NEW m \in Msgs,
         message[m].status = "new", Become({m}, "queued"),
         receiver' = [receiver EXCEPT ![r].own = Append(@, m)]
  PROVE  Placed'
<1>1. /\ receiver'[r].own = Append(receiver[r].own, m) /\ receiver'[r].tasks = Tasks(r)
      /\ \A q \in Receivers : q # r => receiver'[q] = receiver[q]
  <2>1. receiver[r] \in ReceiverStates /\ receiver \in [Receivers -> ReceiverStates]
    BY DEF TypeOK
  <2>2. receiver' = [receiver EXCEPT ![r] = [receiver[r] EXCEPT !.own = Append(@, m)]]
    BY <2>1
  <2> QED BY <2>1, <2>2 DEF ReceiverStates, Tasks
<1>2. /\ message'[m].status = "queued"
      /\ \A n \in Msgs : n # m => message'[n].status = message[n].status
  BY BecomeFacts DEF Statuses
<1>3. /\ m \notin ToSet(submissions)
      /\ \A q \in Receivers : m \notin Own(q) /\ m \notin Tasks(q)
  BY NewIsNowhere
<1>4. Own(r)' = Own(r) \cup {m} /\ IsInjective(receiver'[r].own)
  BY <1>1, <1>3, Types, AppendFacts DEF Own, Placed
<1>5. \A q \in Receivers : /\ Tasks(q)' = Tasks(q) /\ (q # r => Own(q)' = Own(q))
                           /\ IsInjective(receiver'[q].own)
  BY <1>1, <1>4 DEF Own, Tasks, Placed
<1>6. /\ IsInjective(submissions')
      /\ \A n \in ToSet(submissions') : message'[n].status = "queued"
  BY <1>2, <1>3, Types DEF Placed
<1>7. \A q \in Receivers : \A n \in Own(q)' :
        message'[n].status = "queued" /\ n \notin ToSet(submissions')
  BY <1>2, <1>3, <1>4, <1>5, Types DEF Placed
<1>8. \A q \in Receivers : \A n \in Tasks(q)' :
        message'[n].status \in {"running", "receiving", "thrown"}
  BY <1>2, <1>3, <1>5, Types DEF Placed
<1>9. \A p, q \in Receivers : p # q =>
        (Own(p) \cap Own(q) = {})' /\ (Tasks(p) \cap Tasks(q) = {})'
  BY <1>3, <1>4, <1>5 DEF Placed
<1> QED BY <1>5, <1>6, <1>7, <1>8, <1>9 DEF Placed

\* Every step keeps a message in one place at most.
LEMMA StepPlaced ==
  ASSUME TypeOK, Placed, Next
  PROVE  Placed'
<1>1. ASSUME NEW h \in Handles, GetCached(h) \/ \E g \in Handles : MoveInto(h, g)
      PROVE  Placed'
  BY <1>1 DEF GetCached, MoveInto, Placed, Own, Tasks
<1>2. ASSUME NEW h \in Handles, GetNew(h)
      PROVE  Placed'
  <2>1. UNCHANGED <<submissions, message>>
    BY <1>2 DEF GetNew
  <2>2. PICK r \in Receivers : receiver' = [receiver EXCEPT ![r] = NewReceiver]
    BY <1>2 DEF GetNew
  <2>3. \A q \in Receivers :
          \/ receiver'[q].own = receiver[q].own /\ receiver'[q].tasks = receiver[q].tasks
          \/ receiver'[q].own = <<>> /\ receiver'[q].tasks = {}
    BY <2>2 DEF TypeOK, NewReceiver
  <2> QED BY <2>1, <2>3, PlacedLess
<1>3. ASSUME NEW h \in Handles, Release(h) \/ ReleaseToFull(h) \/ \E g \in Handles : MoveOver(h, g)
      PROVE  Placed'
  <2>1. handle[h] \in Receivers /\ UNCHANGED submissions
    BY <1>3 DEF Release, ReleaseToFull, MoveOver, AtRest, Held, TypeOK
  <2>2. PICK state \in {Rested(handle[h]), Erased} : ResetTo(handle[h], state)
    BY <1>3 DEF Release, ReleaseToFull, MoveOver
  <2> QED BY <2>1, <2>2, PlacedReset
<1>4. ASSUME NEW h \in Handles, Enter(h)
      PROVE  Placed'
  <2>1. UNCHANGED <<submissions, message>> /\ handle[h] \in Receivers
    BY <1>4 DEF Enter, AtRest, Held, TypeOK
  <2>2. PICK l : receiver' = [receiver EXCEPT ![handle[h]].failing = FALSE, ![handle[h]].loop = l]
    BY <1>4 DEF Enter
  <2>3. \A q \in Receivers : receiver'[q].own = receiver[q].own /\ receiver'[q].tasks = receiver[q].tasks
    BY <2>1, <2>2 DEF TypeOK, ReceiverStates
  <2> QED BY <2>1, <2>3, PlacedLess
<1>5. ASSUME NEW h \in Handles, NEW m \in Msgs, SendSync(h, m)
      PROVE  Placed'
  <2>1. PICK r \in Receivers :
          /\ message[m].status = "new" /\ UNCHANGED submissions
          /\ receiver' = [receiver EXCEPT ![r].own = Append(@, m)]
          /\ Become({m}, "queued")
    <3>1. handle[h] \in Receivers
      BY <1>5 DEF SendSync, AtRest, Held, TypeOK
    <3> QED BY <1>5, <3>1 DEF SendSync
  <2> QED BY <2>1, PlacedQueue
<1>6. ASSUME NEW m \in Msgs, Send(m)
      PROVE  Placed'
  <2>1. /\ message[m].status = "new" /\ UNCHANGED receiver
        /\ submissions' = Append(submissions, m) /\ Become({m}, "queued")
    BY <1>6 DEF Send
  <2>2. /\ message'[m].status = "queued"
        /\ \A n \in Msgs : n # m => message'[n].status = message[n].status
    BY <2>1, BecomeFacts DEF Statuses
  <2>3. /\ m \notin ToSet(submissions)
        /\ \A q \in Receivers : m \notin Own(q) /\ m \notin Tasks(q)
    BY <2>1, NewIsNowhere
  <2>4. ToSet(submissions') = ToSet(submissions) \cup {m} /\ IsInjective(submissions')
    BY <2>1, <2>3, AppendFacts DEF TypeOK, Placed
  <2>5. \A q \in Receivers : Own(q)' = Own(q) /\ Tasks(q)' = Tasks(q)
    BY <2>1 DEF Own, Tasks
  <2>6. \A n \in ToSet(submissions') : message'[n].status = "queued"
    BY <2>2, <2>4, Types DEF Placed
  <2>7. \A q \in Receivers : \A n \in Own(q)' :
          message'[n].status = "queued" /\ n \notin ToSet(submissions')
    BY <2>2, <2>3, <2>4, <2>5, Types DEF Placed
  <2>8. \A q \in Receivers : \A n \in Tasks(q)' :
          message'[n].status \in {"running", "receiving", "thrown"}
    BY <2>2, <2>3, <2>5, Types DEF Placed
  <2> QED BY <2>1, <2>4, <2>5, <2>6, <2>7, <2>8 DEF Placed
<1>7. CASE NewGroup
  <2>1. /\ submissions' = <<>> /\ receiver' = [r \in Receivers |-> Erased]
    BY <1>7 DEF NewGroup
  <2>2. \A q \in Receivers : /\ receiver'[q].own = <<>> /\ Own(q)' = {} /\ Tasks(q)' = {}
                             /\ IsInjective(receiver'[q].own)
    BY <2>1, EmptyFacts DEF Erased, NewReceiver, Own, Tasks
  <2>3. ToSet(submissions') = {} /\ IsInjective(submissions')
    BY <2>1, EmptyFacts
  <2> QED BY <2>2, <2>3 DEF Placed
<1>8. ASSUME NEW r \in Receivers, NEW status, Takes(r, status)
      PROVE  Placed'
  BY <1>8, PlacedTake
<1>9. ASSUME NEW r \in Receivers, Leave(r)
      PROVE  Placed'
  <2>1. /\ UNCHANGED <<submissions, message>>
        /\ \A q \in Receivers : receiver'[q].own = receiver[q].own
                                /\ receiver'[q].tasks = receiver[q].tasks
    BY <1>9 DEF Leave, TypeOK, ReceiverStates
  <2> QED BY <2>1, PlacedLess
<1>10. ASSUME NEW r \in Receivers, NEW m \in Msgs, Receive(r, m) \/ Throw(r, m)
       PROVE  Placed'
  <2>1. /\ UNCHANGED submissions /\ Executes(r, m)
        /\ \A q \in Receivers : receiver'[q].own = receiver[q].own
                                /\ receiver'[q].tasks = receiver[q].tasks
    <3>1. CASE Receive(r, m)
      BY <3>1 DEF Receive
    <3>2. CASE Throw(r, m)
      <4>1. receiver' = [receiver EXCEPT ![r].failing = TRUE]
        BY <3>2 DEF Throw
      <4>2. \A q \in Receivers : receiver'[q].own = receiver[q].own
                                /\ receiver'[q].tasks = receiver[q].tasks
        BY <4>1 DEF TypeOK, ReceiverStates
      <4> QED BY <3>2, <4>2 DEF Throw
    <3> QED BY <1>10, <3>1, <3>2
  <2>2. PICK s \in {"receiving", "thrown"} : Become({m}, s)
    BY <1>10 DEF Receive, Throw
  <2>3. /\ message'[m].status = s
        /\ \A n \in Msgs : n # m => message'[n].status = message[n].status
    BY <2>2, BecomeFacts DEF Statuses
  <2>4. \A q \in Receivers : Own(q)' = Own(q) /\ Tasks(q)' = Tasks(q)
    BY <2>1 DEF Own, Tasks
  <2> QED BY <2>1, <2>3, <2>4, PlacedExecute
<1>11. ASSUME NEW r \in Receivers, NEW m \in Msgs, Finish(r, m) \/ Abort(r, m)
       PROVE  Placed'
  <2>1. /\ UNCHANGED submissions /\ Executes(r, m)
        /\ receiver' = [receiver EXCEPT ![r].tasks = @ \ {m}]
        /\ \A n \in Msgs : n # m => message'[n] = message[n]
    BY <1>11 DEF Finish, Abort, End, MoveVector, TypeOK
  <2>2. /\ Tasks(r)' = Tasks(r) \ {m}
        /\ \A q \in Receivers : /\ Own(q)' = Own(q) /\ receiver'[q].own = receiver[q].own
                                /\ Tasks(q)' \subseteq Tasks(q)
    BY <2>1 DEF TypeOK, ReceiverStates, Own, Tasks
  <2> QED BY <2>1, <2>2, PlacedExecute
<1> QED BY <1>1, <1>2, <1>3, <1>4, <1>5, <1>6, <1>7, <1>8, <1>9, <1>10, <1>11
        DEF Next, HandleStep, LoopStep, Takes

-----------------------------------------------------------------------------
(* A vector has one owner                                                  *)

\* The steps that give no message another vector and receive nothing.
LEMMA OwnersStay ==
  ASSUME TypeOK, Owners, UNCHANGED memory, pool' \in {pool, <<>>},
         \A m \in Msgs :
           /\ message'[m].vector = message[m].vector /\ message'[m].seen = message[m].seen
           /\ \/ message'[m].status \in {message[m].status, "dropped", "thrown"}
              \/ message[m].status = "new" /\ message'[m].status = "queued"
  PROVE  Owners'
<1>1. HasVector'
  BY DEF Owners, HasVector
<1>2. VectorHasOneOwner'
  BY EmptyFacts DEF Owners, VectorHasOneOwner
<1>3. ReceivesAlone'
  BY DEF Owners, ReceivesAlone
<1>4. CallbackReadsOwn'
  BY DEF Owners, CallbackReadsOwn
<1> QED BY <1>1, <1>2, <1>3, <1>4 DEF Owners

\* A message that leaves its queue keeps its vector or has the first of the pool.
LEMMA VectorForFacts ==
  ASSUME TypeOK, Owners, NEW m \in Msgs, message[m].status = "queued"
  PROVE  /\ VectorFor(m) \in Msgs
         /\ \A n \in Msgs : n # m => message[n].vector # VectorFor(m)
         /\ VectorFor(m) # message[m].vector => pool # <<>> /\ VectorFor(m) = Head(pool)
<1>1. message[m].vector \in Msgs
  BY DEF TypeOK, MessageStates, Owners, HasVector
<1>2. pool # <<>> => Head(pool) \in Msgs /\ Head(pool) \in ToSet(pool)
  BY TailFacts DEF TypeOK
<1>3. \A n \in Msgs : n # m => message[n].vector # message[m].vector
  BY <1>1, NoneAssumption DEF Owners, VectorHasOneOwner
<1>4. pool # <<>> => \A n \in Msgs : message[n].vector # Head(pool)
  BY <1>2 DEF Owners, VectorHasOneOwner
<1> QED BY <1>1, <1>2, <1>3, <1>4 DEF VectorFor

\* A vector of the pool that is given to a message is in the pool no more.
LEMMA OwnersTake ==
  ASSUME TypeOK, Placed, Owners, NEW r \in Receivers, NEW status, Takes(r, status)
  PROVE  Owners'
<1> DEFINE m == First(r)
           v == VectorFor(m)
<1>1. /\ m \in Msgs /\ status \in {"running", "aborted", "thrown"}
      /\ message' = [message EXCEPT ![m].status = status, ![m].vector = v]
      /\ pool' = IF v = message[m].vector THEN pool ELSE Tail(pool)
  BY TakeFacts
<1>2. message[m].status = "queued"
  <2>1. receiver[r].loop \in {"own", "group"} /\ receiver[r].own \in Seq(Msgs) /\ submissions \in Seq(Msgs)
    BY Types, TakeFacts DEF TypeOK
  <2>2. CASE receiver[r].loop = "own"
    <3>1. m = Head(receiver[r].own) /\ receiver[r].own # <<>>
      BY <2>2, TakeFacts
    <3>2. m \in Own(r)
      BY <2>1, <3>1, TailFacts DEF Own
    <3> QED BY <3>2 DEF Placed
  <2>3. CASE receiver[r].loop = "group"
    <3>1. m = Head(submissions) /\ submissions # <<>>
      BY <2>3, TakeFacts
    <3>2. m \in ToSet(submissions)
      BY <2>1, <3>1, TailFacts
    <3> QED BY <3>2 DEF Placed
  <2> QED BY <2>1, <2>2, <2>3
<1>3. memory' = memory \/ Cleared(v)
  BY Zenon DEF Takes, Start, StartAborts, StartThrows
<1>4. /\ v \in Msgs /\ \A n \in Msgs : n # m => message[n].vector # v
      /\ v # message[m].vector => pool # <<>> /\ v = Head(pool)
  BY <1>1, <1>2, VectorForFacts
<1> HIDE DEF m, v
<1>5. /\ message'[m].status = status /\ message'[m].vector = v
      /\ message'[m].seen = message[m].seen
      /\ \A n \in Msgs : n # m => message'[n] = message[n]
  BY <1>1 DEF TypeOK, MessageStates
<1>6. \A n \in Msgs : n # v => memory'[n] = memory[n]
  BY <1>3 DEF Cleared, TypeOK
<1>7. /\ IsInjective(pool') /\ ToSet(pool') \subseteq ToSet(pool)
      /\ v \notin ToSet(pool')
  <2>1. CASE v = message[m].vector
    BY <1>1, <2>1 DEF Owners, VectorHasOneOwner
  <2>2. CASE v # message[m].vector
    <3>1. pool' = Tail(pool) /\ pool # <<>> /\ v = Head(pool) /\ pool \in Seq(Msgs)
      BY <1>1, <1>4, <2>2 DEF TypeOK
    <3> QED BY <3>1, TailFacts DEF Owners, VectorHasOneOwner
  <2> QED BY <2>1, <2>2
<1>8. HasVector'
  BY <1>4, <1>5, NoneAssumption DEF Owners, HasVector
<1>9. VectorHasOneOwner'
  BY <1>4, <1>5, <1>7 DEF Owners, VectorHasOneOwner
<1>10. ReceivesAlone'
  <2>1. ASSUME NEW n \in Msgs, message'[n].status = "receiving"
        PROVE  memory'[message'[n].vector].bytes = {n}
    <3>1. n # m /\ message'[n] = message[n] /\ message[n].status = "receiving"
      BY <1>1, <1>5, <2>1
    <3>2. message[n].vector \in Msgs /\ message[n].vector # v
      BY <1>4, <3>1 DEF Owners, HasVector, TypeOK, MessageStates
    <3> QED BY <1>6, <3>1, <3>2 DEF Owners, ReceivesAlone
  <2> QED BY <2>1 DEF ReceivesAlone
<1>11. CallbackReadsOwn'
  BY <1>1, <1>5 DEF Owners, CallbackReadsOwn
<1> QED BY <1>8, <1>9, <1>10, <1>11 DEF Owners

\* A message that is executed receives into a vector that is its own.
LEMMA ExecutesFacts ==
  ASSUME TypeOK, Owners, NEW r \in Receivers, NEW m \in Msgs, Executes(r, m)
  PROVE  /\ message[m].status \in {"running", "receiving"}
         /\ message[m].vector \in Msgs /\ message[m].vector \notin ToSet(pool)
         /\ \A n \in Msgs : n # m => message[n].vector # message[m].vector
<1>1. message[m].status \in {"running", "receiving"}
  BY DEF Executes
<1>2. message[m].vector \in Msgs
  BY <1>1 DEF TypeOK, MessageStates, Owners, HasVector
<1> QED BY <1>1, <1>2, NoneAssumption DEF Owners, VectorHasOneOwner

\* What a message receives displaces what its vector held.
LEMMA OwnersReceive ==
  ASSUME TypeOK, Owners, NEW r \in Receivers, NEW m \in Msgs, Receive(r, m)
  PROVE  Owners'
<1> DEFINE v == message[m].vector
<1>1. /\ v \in Msgs /\ message[m].status \in {"running", "receiving"}
      /\ \A n \in Msgs : n # m => message[n].vector # v
  BY ExecutesFacts DEF Receive
<1>2. /\ memory' = [memory EXCEPT ![v] = [grown |-> TRUE, bytes |-> {m}]]
      /\ Become({m}, "receiving") /\ pool' = pool
  BY DEF Receive, Received
<1>3. \A n \in Msgs :
        /\ message'[n].status = IF n = m THEN "receiving" ELSE message[n].status
        /\ message'[n].vector = message[n].vector /\ message'[n].seen = message[n].seen
  BY <1>2, BecomeFacts DEF Statuses
<1>4. memory'[v].bytes = {m} /\ \A n \in Msgs : n # v => memory'[n] = memory[n]
  BY <1>1, <1>2 DEF TypeOK
<1>5. HasVector' /\ VectorHasOneOwner' /\ CallbackReadsOwn'
  BY <1>1, <1>2, <1>3 DEF Owners, HasVector, VectorHasOneOwner, CallbackReadsOwn
<1>6. ASSUME NEW n \in Msgs, message'[n].status = "receiving"
      PROVE  memory'[message'[n].vector].bytes = {n}
  <2>1. CASE n = m
    BY <1>3, <1>4, <2>1
  <2>2. CASE n # m
    <3>1. message[n].status = "receiving" /\ message[n].vector \in Msgs \ {v}
      BY <1>1, <1>3, <1>6, <2>2 DEF Owners, HasVector, TypeOK, MessageStates
    <3> QED BY <1>3, <1>4, <3>1 DEF Owners, ReceivesAlone
  <2> QED BY <2>1, <2>2
<1> QED BY <1>5, <1>6 DEF Owners, ReceivesAlone

\* What the end of a message assigns.
LEMMA EndFacts ==
  ASSUME TypeOK, Owners, NEW r \in Receivers, NEW m \in Msgs, Finish(r, m) \/ Abort(r, m)
  PROVE  LET v == message[m].vector IN
         /\ Executes(r, m) /\ v \in Msgs
         /\ memory' = memory \/ memory' = [memory EXCEPT ![v].bytes = {}]
         /\ message' = [message EXCEPT ![m] = message'[m]]
         /\ message'[m].status \in {"finished", "aborted"} /\ message'[m].vector = None
         /\ message'[m].seen \in {{}, {m}}
         /\ message'[m].status = "finished" => message'[m].seen = {m}
         /\ message'[m] \in MessageStates
         /\ pool' = IF Len(pool) < Reuse THEN Append(pool, v) ELSE pool
         /\ receiver' = [receiver EXCEPT ![r].tasks = @ \ {m}]
         /\ UNCHANGED <<handle, cached, submissions>>
<1> DEFINE v == message[m].vector
<1>1. PICK status \in {"finished", "aborted"} :
        /\ End(r, m, status)
        /\ \/ memory' = memory /\ message[m].status = "receiving"
           \/ status = "aborted" /\ Cleared(v)
  BY DEF Finish, Abort
<1>2. /\ Executes(r, m)
      /\ pool' = IF Len(pool) < Reuse THEN Append(pool, v) ELSE pool
      /\ receiver' = [receiver EXCEPT ![r].tasks = @ \ {m}]
      /\ UNCHANGED <<handle, cached, submissions>>
  BY <1>1 DEF End
<1>3. message' = [message EXCEPT ![m] =
        [status |-> status, vector |-> None, seen |-> memory'[v].bytes]]
  BY <1>1 DEF End, MoveVector
<1>4. v \in Msgs
  BY <1>2, ExecutesFacts
<1>5. memory'[v].bytes \in {{}, {m}} /\ (status = "finished" => memory'[v].bytes = {m})
  <2>1. CASE memory' = memory /\ message[m].status = "receiving"
    BY <2>1 DEF Owners, ReceivesAlone
  <2>2. CASE status = "aborted" /\ Cleared(v)
    BY <1>4, <2>2 DEF Cleared, TypeOK
  <2> QED BY <1>1, <2>1, <2>2
<1>6. memory' = memory \/ memory' = [memory EXCEPT ![v].bytes = {}]
  BY <1>1 DEF Cleared
<1>7. message'[m] = [status |-> status, vector |-> None, seen |-> memory'[v].bytes]
  BY <1>3 DEF TypeOK
<1>8. message' = [message EXCEPT ![m] = message'[m]]
  BY <1>3, <1>7
<1>9. message'[m] \in MessageStates
  BY <1>5, <1>7 DEF MessageStates, Statuses
<1> QED BY <1>2, <1>4, <1>5, <1>6, <1>7, <1>8, <1>9

\* The vector of a message that ends goes to the pool, once, or is lost.
LEMMA OwnersEnd ==
  ASSUME TypeOK, Owners, NEW r \in Receivers, NEW m \in Msgs, Finish(r, m) \/ Abort(r, m)
  PROVE  Owners'
<1> DEFINE v == message[m].vector
<1>1. /\ Executes(r, m) /\ v \in Msgs
      /\ memory' = memory \/ memory' = [memory EXCEPT ![v].bytes = {}]
      /\ message' = [message EXCEPT ![m] = message'[m]]
      /\ message'[m].status \in {"finished", "aborted"} /\ message'[m].vector = None
      /\ message'[m].seen \in {{}, {m}}
      /\ message'[m].status = "finished" => message'[m].seen = {m}
      /\ pool' = IF Len(pool) < Reuse THEN Append(pool, v) ELSE pool
  BY EndFacts
<1>2. v \notin ToSet(pool) /\ \A n \in Msgs : n # m => message[n].vector # v
  BY <1>1, ExecutesFacts
<1>3. \A n \in Msgs : n # m => message'[n] = message[n]
  BY <1>1 DEF TypeOK
<1>4. \A n \in Msgs : n # v => memory'[n] = memory[n]
  BY <1>1 DEF TypeOK
<1> HIDE DEF v
<1>5. /\ IsInjective(pool') /\ ToSet(pool') \subseteq ToSet(pool) \cup {v}
      /\ None \notin ToSet(pool')
  <2>1. CASE Len(pool) < Reuse
    BY <1>1, <1>2, <2>1, AppendFacts, Types, NoneAssumption
       DEF Owners, VectorHasOneOwner, TypeOK
  <2>2. CASE ~(Len(pool) < Reuse)
    BY <1>1, <2>2, Types, NoneAssumption DEF Owners, VectorHasOneOwner
  <2> QED BY <2>1, <2>2
<1>6. HasVector' /\ CallbackReadsOwn'
  BY <1>1, <1>3 DEF Owners, HasVector, CallbackReadsOwn
<1>7. VectorHasOneOwner'
  BY <1>1, <1>2, <1>3, <1>5 DEF Owners, VectorHasOneOwner
<1>8. ASSUME NEW n \in Msgs, message'[n].status = "receiving"
      PROVE  memory'[message'[n].vector].bytes = {n}
  <2>1. n # m /\ message'[n] = message[n] /\ message[n].status = "receiving"
    BY <1>1, <1>3, <1>8
  <2>2. message[n].vector \in Msgs /\ message[n].vector # v
    BY <1>2, <2>1 DEF Owners, HasVector, TypeOK, MessageStates
  <2> QED BY <1>4, <2>1, <2>2 DEF Owners, ReceivesAlone
<1> QED BY <1>6, <1>7, <1>8 DEF Owners, ReceivesAlone

\* Every step keeps a vector with one owner, and what it holds its owner's.
LEMMA StepOwners ==
  ASSUME TypeOK, Placed, Owners, Next
  PROVE  Owners'
<1>1. ASSUME NEW h \in Handles,
             GetCached(h) \/ GetNew(h) \/ Enter(h) \/ \E g \in Handles : MoveInto(h, g)
      PROVE  Owners'
  BY <1>1, OwnersStay DEF GetCached, GetNew, Enter, MoveInto
<1>2. ASSUME NEW h \in Handles, Release(h) \/ ReleaseToFull(h) \/ \E g \in Handles : MoveOver(h, g)
      PROVE  Owners'
  <2>1. UNCHANGED <<pool, memory>> /\ \E ms : Become(ms, "dropped")
    BY <1>2 DEF Release, ReleaseToFull, MoveOver, ResetTo
  <2> QED BY <2>1, BecomeFacts, OwnersStay DEF Statuses
<1>3. ASSUME NEW m \in Msgs, Send(m) \/ \E h \in Handles : SendSync(h, m)
      PROVE  Owners'
  <2>1. /\ UNCHANGED <<pool, memory>> /\ message[m].status = "new"
        /\ Become({m}, "queued")
    BY <1>3 DEF Send, SendSync
  <2> QED BY <2>1, BecomeFacts, OwnersStay DEF Statuses
<1>4. CASE NewGroup
  <2>1. pool' = <<>> /\ UNCHANGED memory /\ Become(ToSet(submissions), "dropped")
    BY <1>4 DEF NewGroup
  <2> QED BY <2>1, BecomeFacts, OwnersStay DEF Statuses
<1>5. ASSUME NEW r \in Receivers, NEW status, Takes(r, status)
      PROVE  Owners'
  BY <1>5, OwnersTake
<1>6. ASSUME NEW r \in Receivers, Leave(r)
      PROVE  Owners'
  BY <1>6, OwnersStay DEF Leave
<1>7. ASSUME NEW r \in Receivers, NEW m \in Msgs, Throw(r, m)
      PROVE  Owners'
  <2>1. UNCHANGED <<pool, memory>> /\ Become({m}, "thrown")
    BY <1>7 DEF Throw
  <2> QED BY <2>1, BecomeFacts, OwnersStay DEF Statuses
<1>8. ASSUME NEW r \in Receivers, NEW m \in Msgs, Receive(r, m) \/ Finish(r, m) \/ Abort(r, m)
      PROVE  Owners'
  BY <1>8, OwnersReceive, OwnersEnd
<1> QED BY <1>1, <1>2, <1>3, <1>4, <1>5, <1>6, <1>7, <1>8
        DEF Next, HandleStep, LoopStep, Takes

-----------------------------------------------------------------------------
(* The types                                                               *)

\* The capacities the queues are compared with are numbers.
LEMMA Capacities == Submissions \in Nat \ {0} /\ Reuse \in Nat \ {0}
BY CapacityAssumption

\* The steps of the handles: what is lent, and what is cached.
LEMMA TypesHandle ==
  ASSUME TypeOK, NEW h \in Handles,
         GetCached(h) \/ GetNew(h) \/ Enter(h) \/ Release(h) \/ ReleaseToFull(h)
           \/ \E g \in Handles : MoveInto(h, g) \/ MoveOver(h, g)
  PROVE  TypeOK'
<1>1. CASE GetCached(h)
  <2>1. /\ Head(cached) \in Receivers /\ Tail(cached) \in Seq(Receivers)
        /\ Len(Tail(cached)) <= Submissions
    BY <1>1, TailFacts, CapacityAssumption, LenProperties DEF GetCached, TypeOK
  <2> QED BY <1>1, <2>1 DEF GetCached, TypeOK
<1>2. CASE GetNew(h)
  <2>1. NewReceiver \in ReceiverStates
    BY EmptySeq DEF NewReceiver, ReceiverStates
  <2> QED BY <1>2, <2>1 DEF GetNew, TypeOK
<1>3. CASE Enter(h)
  <2>1. PICK l \in {"group", "own", "crashed"} :
          receiver' = [receiver EXCEPT ![handle[h]].failing = FALSE, ![handle[h]].loop = l]
    BY <1>3 DEF Enter
  <2>2. receiver[handle[h]] \in ReceiverStates
    BY <1>3 DEF Enter, AtRest, Held, TypeOK
  <2>3. [receiver[handle[h]] EXCEPT !.failing = FALSE, !.loop = l] \in ReceiverStates
    BY <2>2 DEF ReceiverStates
  <2>4. receiver' = [receiver EXCEPT
          ![handle[h]] = [receiver[handle[h]] EXCEPT !.failing = FALSE, !.loop = l]]
    BY <2>1 DEF TypeOK
  <2>5. receiver' \in [Receivers -> ReceiverStates]
    BY <2>3, <2>4 DEF TypeOK
  <2> QED BY <1>3, <2>5 DEF Enter, TypeOK
<1>4. CASE Release(h) \/ ReleaseToFull(h) \/ \E g \in Handles : MoveOver(h, g)
  <2>1. /\ handle[h] \in Receivers /\ UNCHANGED <<submissions, pool, memory>>
        /\ \E state \in {Rested(handle[h]), Erased} : ResetTo(handle[h], state)
    BY <1>4 DEF Release, ReleaseToFull, MoveOver, AtRest, Held, TypeOK
  <2>2. receiver' \in [Receivers -> ReceiverStates]
    BY <2>1, ResetFacts
  <2>3. message' \in [Msgs -> MessageStates]
    BY <2>1, BecomeFacts DEF ResetTo, Statuses
  <2>4. handle' \in [Handles -> Receivers \cup {None}]
    BY <1>4 DEF Release, ReleaseToFull, MoveOver, Moved, TypeOK
  <2>5. cached' = cached \/ (cached' = Append(cached, handle[h]) /\ Len(cached) < Submissions)
    BY <1>4 DEF Release, ReleaseToFull, MoveOver
  <2>6. cached' \in Seq(Receivers) /\ Len(cached') <= Submissions
    <3>1. /\ Append(cached, handle[h]) \in Seq(Receivers)
          /\ Len(Append(cached, handle[h])) = Len(cached) + 1 /\ Len(cached) \in Nat
      BY <2>1, AppendFacts, LenProperties DEF TypeOK
    <3>2. CASE cached' = cached
      BY <3>2 DEF TypeOK
    <3>3. CASE cached' = Append(cached, handle[h]) /\ Len(cached) < Submissions
      <4>1. Len(cached) + 1 <= Submissions
        BY <3>1, <3>3, Capacities
      <4> QED BY <3>1, <3>3, <4>1
    <3> QED BY <2>5, <3>2, <3>3
  <2> QED BY <2>1, <2>2, <2>3, <2>4, <2>6 DEF TypeOK
<1>5. ASSUME NEW g \in Handles, MoveInto(h, g)
      PROVE  TypeOK'
  BY <1>5 DEF MoveInto, Moved, TypeOK
<1> QED BY <1>1, <1>2, <1>3, <1>4, <1>5

\* Taking a message keeps the types.
LEMMA TypesTake ==
  ASSUME TypeOK, Placed, Owners, NEW r \in Receivers, NEW status, Takes(r, status)
  PROVE  TypeOK'
<1> DEFINE m == First(r)
           v == VectorFor(m)
<1>1. /\ m \in Msgs /\ status \in Statuses
      /\ message' = [message EXCEPT ![m].status = status, ![m].vector = v]
      /\ pool' = IF v = message[m].vector THEN pool ELSE Tail(pool)
      /\ receiver' \in [Receivers -> ReceiverStates] /\ UNCHANGED <<handle, cached>>
  BY TakeFacts DEF Statuses
<1>2. memory' = memory \/ Cleared(v)
  BY Zenon DEF Takes, Start, StartAborts, StartThrows
<1>3. /\ v \in Msgs \cup {None}
      /\ v # message[m].vector => pool # <<>>
  BY <1>1, TailFacts DEF VectorFor, TypeOK, MessageStates
<1>4. submissions' = submissions \/ (submissions # <<>> /\ submissions' = Tail(submissions))
  BY TakeFacts
<1> HIDE DEF m, v
<1>5. message' \in [Msgs -> MessageStates]
  BY <1>1, <1>3 DEF TypeOK, MessageStates
<1>6. pool' \in Seq(Msgs) /\ Len(pool') <= Reuse
  BY <1>1, <1>3, TailFacts, CapacityAssumption, LenProperties DEF TypeOK
<1>7. submissions' \in Seq(Msgs) /\ Len(submissions') <= Submissions
  <2>1. submissions # <<>> => /\ Tail(submissions) \in Seq(Msgs)
                              /\ Len(Tail(submissions)) = Len(submissions) - 1
                              /\ Len(submissions) \in Nat
    BY TailFacts, LenProperties DEF TypeOK
  <2>2. CASE submissions' = submissions
    BY <2>2 DEF TypeOK
  <2>3. CASE submissions # <<>> /\ submissions' = Tail(submissions)
    <3>1. Len(submissions) - 1 <= Submissions
      BY <2>1, <2>3, Capacities DEF TypeOK
    <3> QED BY <2>1, <2>3, <3>1
  <2> QED BY <1>4, <2>2, <2>3
<1>8. memory' \in [Msgs -> [grown : BOOLEAN, bytes : SUBSET Msgs]]
  BY <1>2 DEF Cleared, TypeOK
<1> QED BY <1>1, <1>5, <1>6, <1>7, <1>8 DEF TypeOK

\* The steps of a loop that takes no message.
LEMMA TypesLoop ==
  ASSUME TypeOK, Owners, NEW r \in Receivers,
         Leave(r) \/ \E m \in Msgs : Receive(r, m) \/ Finish(r, m) \/ Abort(r, m) \/ Throw(r, m)
  PROVE  TypeOK'
<1>1. CASE Leave(r)
  <2>1. /\ receiver' = [receiver EXCEPT ![r].loop = "out", ![r].managed = ~receiver[r].failing]
        /\ UNCHANGED <<handle, cached, submissions, pool, message, memory>>
    BY <1>1 DEF Leave
  <2>2. PICK b \in BOOLEAN : b = ~receiver[r].failing
    OBVIOUS
  <2>3. receiver' = [receiver EXCEPT ![r] = [receiver[r] EXCEPT !.loop = "out", !.managed = b]]
    BY <2>1, <2>2 DEF TypeOK
  <2>4. [receiver[r] EXCEPT !.loop = "out", !.managed = b] \in ReceiverStates
    <3>1. receiver[r] \in ReceiverStates
      BY DEF TypeOK
    <3> QED BY <3>1 DEF ReceiverStates
  <2>5. receiver' \in [Receivers -> ReceiverStates]
    BY <2>3, <2>4 DEF TypeOK
  <2> QED BY <2>1, <2>5 DEF TypeOK
<1>2. ASSUME NEW m \in Msgs, Receive(r, m)
      PROVE  TypeOK'
  <2>1. /\ Become({m}, "receiving")
        /\ memory' = [memory EXCEPT ![message[m].vector] = [grown |-> TRUE, bytes |-> {m}]]
        /\ UNCHANGED <<handle, cached, receiver, submissions, pool>>
    BY <1>2 DEF Receive, Received
  <2>2. message' \in [Msgs -> MessageStates]
    BY <2>1, BecomeFacts DEF Statuses
  <2> QED BY <2>1, <2>2 DEF TypeOK
<1>3. ASSUME NEW m \in Msgs, Throw(r, m)
      PROVE  TypeOK'
  <2>1. /\ Become({m}, "thrown") /\ receiver' = [receiver EXCEPT ![r].failing = TRUE]
        /\ UNCHANGED <<handle, cached, submissions, pool, memory>>
    BY <1>3 DEF Throw
  <2>2. message' \in [Msgs -> MessageStates]
    BY <2>1, BecomeFacts DEF Statuses
  <2>3. receiver' \in [Receivers -> ReceiverStates]
    <3>1. receiver[r] \in ReceiverStates
      BY DEF TypeOK
    <3>2. [receiver[r] EXCEPT !.failing = TRUE] \in ReceiverStates
      BY <3>1 DEF ReceiverStates
    <3>3. receiver' = [receiver EXCEPT ![r] = [receiver[r] EXCEPT !.failing = TRUE]]
      BY <2>1 DEF TypeOK
    <3> QED BY <3>2, <3>3 DEF TypeOK
  <2> QED BY <2>1, <2>2, <2>3 DEF TypeOK
<1>4. ASSUME NEW m \in Msgs, Finish(r, m) \/ Abort(r, m)
      PROVE  TypeOK'
  <2> DEFINE v == message[m].vector
  <2>1. /\ v \in Msgs
        /\ memory' = memory \/ memory' = [memory EXCEPT ![v].bytes = {}]
        /\ message' = [message EXCEPT ![m] = message'[m]]
        /\ message'[m] \in MessageStates
        /\ pool' = IF Len(pool) < Reuse THEN Append(pool, v) ELSE pool
        /\ receiver' = [receiver EXCEPT ![r].tasks = @ \ {m}]
        /\ UNCHANGED <<handle, cached, submissions>>
    BY <1>4, EndFacts
  <2> HIDE DEF v
  <2>2. message' \in [Msgs -> MessageStates]
    BY <2>1 DEF TypeOK
  <2>3. memory' \in [Msgs -> [grown : BOOLEAN, bytes : SUBSET Msgs]]
    <3>1. memory[v] \in [grown : BOOLEAN, bytes : SUBSET Msgs]
      BY <2>1 DEF TypeOK
    <3>2. [memory[v] EXCEPT !.bytes = {}] \in [grown : BOOLEAN, bytes : SUBSET Msgs]
      BY <3>1
    <3>3. [memory EXCEPT ![v].bytes = {}] = [memory EXCEPT ![v] = [memory[v] EXCEPT !.bytes = {}]]
      BY DEF TypeOK
    <3> QED BY <2>1, <3>2, <3>3 DEF TypeOK
  <2>4. pool' \in Seq(Msgs) /\ Len(pool') <= Reuse
    <3>1. /\ Append(pool, v) \in Seq(Msgs) /\ Len(Append(pool, v)) = Len(pool) + 1
          /\ Len(pool) \in Nat
      BY <2>1, AppendFacts, LenProperties DEF TypeOK
    <3> QED BY <2>1, <3>1, CapacityAssumption DEF TypeOK
  <2>5. receiver' \in [Receivers -> ReceiverStates]
    <3>1. receiver[r] \in ReceiverStates
      BY DEF TypeOK
    <3>2. [receiver[r] EXCEPT !.tasks = @ \ {m}] \in ReceiverStates
      BY <3>1 DEF ReceiverStates
    <3>3. receiver' = [receiver EXCEPT ![r] = [receiver[r] EXCEPT !.tasks = @ \ {m}]]
      BY <2>1 DEF TypeOK
    <3> QED BY <3>2, <3>3 DEF TypeOK
  <2> QED BY <2>1, <2>2, <2>3, <2>4, <2>5 DEF TypeOK
<1> QED BY <1>1, <1>2, <1>3, <1>4

\* Every step keeps the types.
LEMMA StepTypes ==
  ASSUME TypeOK, Placed, Owners, Next
  PROVE  TypeOK'
<1>1. ASSUME NEW m \in Msgs, Send(m)
      PROVE  TypeOK'
  <2>1. /\ Become({m}, "queued") /\ UNCHANGED <<handle, cached, receiver, pool, memory>>
        /\ submissions' = Append(submissions, m) /\ Len(submissions) < Submissions
    BY <1>1 DEF Send
  <2>2. message' \in [Msgs -> MessageStates]
    BY <2>1, BecomeFacts DEF Statuses
  <2>3. submissions' \in Seq(Msgs) /\ Len(submissions') <= Submissions
    BY <2>1, AppendFacts, CapacityAssumption, LenProperties DEF TypeOK
  <2> QED BY <2>1, <2>2, <2>3 DEF TypeOK
<1>2. ASSUME NEW h \in Handles, NEW m \in Msgs, SendSync(h, m)
      PROVE  TypeOK'
  <2>1. /\ Become({m}, "queued") /\ UNCHANGED <<handle, cached, submissions, pool, memory>>
        /\ receiver' = [receiver EXCEPT ![handle[h]].own = Append(@, m)]
    BY <1>2 DEF SendSync
  <2>2. message' \in [Msgs -> MessageStates]
    BY <2>1, BecomeFacts DEF Statuses
  <2>3. handle[h] \in Receivers
    BY <1>2 DEF SendSync, AtRest, Held, TypeOK
  <2>4. PICK r \in Receivers : receiver' = [receiver EXCEPT ![r].own = Append(@, m)]
    BY <2>1, <2>3
  <2>5. receiver[r] \in ReceiverStates /\ Append(receiver[r].own, m) \in Seq(Msgs)
    BY Types, AppendFacts DEF TypeOK
  <2>6. [receiver[r] EXCEPT !.own = Append(@, m)] \in ReceiverStates
    BY <2>5 DEF ReceiverStates
  <2>7. receiver' = [receiver EXCEPT ![r] = [receiver[r] EXCEPT !.own = Append(@, m)]]
    BY <2>4 DEF TypeOK
  <2>8. receiver' \in [Receivers -> ReceiverStates]
    BY <2>6, <2>7 DEF TypeOK
  <2> QED BY <2>1, <2>2, <2>8 DEF TypeOK
<1>3. CASE NewGroup
  <2>1. /\ cached' = <<>> /\ submissions' = <<>> /\ pool' = <<>>
        /\ receiver' = [r \in Receivers |-> Erased] /\ UNCHANGED <<handle, memory>>
        /\ message' \in [Msgs -> MessageStates]
    BY <1>3, BecomeFacts DEF NewGroup, Statuses
  <2>2. Erased \in ReceiverStates
    BY EmptySeq DEF Erased, NewReceiver, ReceiverStates
  <2> QED BY <2>1, <2>2, EmptyFacts, CapacityAssumption DEF TypeOK
<1>4. ASSUME NEW r \in Receivers, NEW status, Takes(r, status)
      PROVE  TypeOK'
  BY <1>4, TypesTake
<1> QED BY <1>1, <1>2, <1>3, <1>4, TypesHandle, TypesLoop
        DEF Next, HandleStep, LoopStep, Takes

-----------------------------------------------------------------------------
(* The invariant                                                           *)

\* The invariant holds before anything is lent or queued: every message has the
\* vector it was constructed with.
LEMMA InitIInv == Init => IInv
<1> SUFFICES ASSUME Init PROVE IInv
  OBVIOUS
<1>1. Erased \in ReceiverStates /\ Erased.own = <<>> /\ Erased.tasks = {}
  BY EmptySeq DEF Erased, NewReceiver, ReceiverStates
<1>2. TypeOK
  BY <1>1, EmptyFacts, CapacityAssumption DEF Init, TypeOK, MessageStates, Statuses
<1>3. LentOnce
  BY EmptyFacts DEF Init, LentOnce, Held
<1>4. Placed
  BY <1>1, EmptyFacts DEF Init, Placed, Own, Tasks
<1>5. Owners
  BY EmptyFacts, NoneAssumption
     DEF Init, Owners, HasVector, VectorHasOneOwner, ReceivesAlone, CallbackReadsOwn
<1> QED BY <1>2, <1>3, <1>4, <1>5 DEF IInv

\* The invariant is inductive.
LEMMA StepIInv == IInv /\ [Next]_vars => IInv'
<1>1. ASSUME IInv, Next
      PROVE  IInv'
  BY <1>1, StepTypes, StepLent, StepPlaced, StepOwners DEF IInv
<1>2. ASSUME IInv, UNCHANGED vars
      PROVE  IInv'
  <2>1. TypeOK' /\ LentOnce'
    BY <1>2 DEF vars, IInv, TypeOK, LentOnce, Held
  <2>2. Placed'
    BY <1>2 DEF vars, IInv, Placed, Own, Tasks
  <2>3. Owners'
    BY <1>2 DEF vars, IInv, Owners, HasVector, VectorHasOneOwner, ReceivesAlone, CallbackReadsOwn
  <2> QED BY <2>1, <2>2, <2>3 DEF IInv
<1> QED BY <1>1, <1>2

\* The state of the group, its handles and its messages stays in its types.
THEOREM ReceiversTypeCorrect == Spec => []TypeOK
<1>1. IInv => TypeOK
  BY DEF IInv
<1> QED BY <1>1, InitIInv, StepIInv, PTL DEF Spec

\* However handles are moved, released and acquired, a receiver has one holder.
THEOREM ReceiversLentOnce == Spec => []LentOnce
<1>1. IInv => LentOnce
  BY DEF IInv
<1> QED BY <1>1, InitIInv, StepIInv, PTL DEF Spec

\* However messages end, throw or are dropped, a vector is in one place.
THEOREM VectorsHaveOneOwner == Spec => []VectorHasOneOwner
<1>1. IInv => VectorHasOneOwner
  BY DEF IInv, Owners
<1> QED BY <1>1, InitIInv, StepIInv, PTL DEF Spec

\* A callback finds bytes of its own message in the result, or none.
THEOREM CallbacksReadTheirOwn == Spec => []CallbackReadsOwn
<1>1. IInv => CallbackReadsOwn
  BY DEF IInv, Owners
<1> QED BY <1>1, InitIInv, StepIInv, PTL DEF Spec

=============================================================================
