----------------------------- MODULE LoopProofs -----------------------------
(***************************************************************************)
(* Proofs about EventLoop and UringLoop, the loop of the receiver over     *)
(* PollSocket and over IOUringSocket, for any messages, concurrency, mode  *)
(* of the receiver and bounds.                                             *)
(***************************************************************************)
EXTENDS UringLoop, FiniteSetTheorems, SequenceTheorems, TLAPS

\* A message waits in the queue once, and only while it is queued.
QueuedOnce ==
  /\ \A i, j \in 1..Len(queue) : queue[i] = queue[j] => i = j
  /\ \A i \in 1..Len(queue) : status[queue[i]] = "queued"

\* Only a message that was taken and has not ended has a task.
TasksActive == \A m \in tasks : status[m] = "active"

\* A completion is given out once.
UnreadOnce ==
  \A i, j \in (readyFds + 1)..Len(ready) : ready[i] = ready[j] => i = j

\* Until the first call of sendReceive the socket knows nothing.
FreshSocket == entries = 0 => pc = "out" /\ polled = {} /\ ready = <<>>

\* The first invocation starts with a socket that nobody has used.
FirstInvocation == entries <= 1 => CompletionsHaveTasks

Lifecycle == TypeOK /\ QueuedOnce /\ TasksActive /\ FinishedOnce

Answers == UnreadOnce /\ FreshSocket /\ FirstInvocation

IInv == Lifecycle /\ Answers

-----------------------------------------------------------------------------
(* The queue and the order of the answers                                  *)

\* What the taking of the queue's head leaves.
LEMMA HeadFacts ==
  ASSUME TypeOK, QueuedOnce, queue # <<>>
  PROVE  /\ Head(queue) \in Msgs /\ status[Head(queue)] = "queued"
         /\ Tail(queue) \in Seq(Msgs)
         /\ \A i \in 1..Len(Tail(queue)) :
              /\ i + 1 \in 1..Len(queue) /\ Tail(queue)[i] = queue[i + 1]
              /\ Tail(queue)[i] # Head(queue)
<1>1. /\ Head(queue) \in Msgs /\ Tail(queue) \in Seq(Msgs)
      /\ Len(Tail(queue)) = Len(queue) - 1
      /\ \A i \in 1..Len(Tail(queue)) : Tail(queue)[i] = queue[i + 1]
  BY HeadTailProperties DEF TypeOK
<1>2. Len(queue) \in Nat \ {0} /\ Head(queue) = queue[1]
  BY EmptySeq DEF TypeOK
<1>3. ASSUME NEW i \in 1..Len(Tail(queue))
      PROVE  i + 1 \in 1..Len(queue) /\ Tail(queue)[i] # Head(queue)
  <2>1. i \in Nat /\ i + 1 \in 1..Len(queue) /\ 1 \in 1..Len(queue) /\ i + 1 # 1
    BY <1>1, <1>2
  <2>2. queue[i + 1] # queue[1]
    BY <2>1 DEF QueuedOnce
  <2> QED BY <1>1, <1>2, <2>1, <2>2
<1> QED BY <1>1, <1>2, <1>3 DEF QueuedOnce

\* An order of a finite set of messages names each of them once.
LEMMA OrderFacts ==
  ASSUME NEW H \in SUBSET Msgs, NEW order \in SetToSeqs(H)
  PROVE  /\ order \in Seq(Msgs)
         /\ \A i \in 1..Len(order) : order[i] \in H
         /\ \A i, j \in 1..Len(order) : order[i] = order[j] => i = j
<1>1. Cardinality(H) \in Nat
  BY FS_Subset, FS_CardinalityType, MsgsAssumption
<1>2. /\ order \in [1..Cardinality(H) -> H]
      /\ \A i, j \in 1..Cardinality(H) : i # j => order[i] # order[j]
  BY DEF SetToSeqs
<1>3. order \in Seq(H) /\ Len(order) = Cardinality(H)
  BY <1>1, <1>2
<1>4. order \in Seq(Msgs)
  BY <1>3, SeqMonotonic
<1> QED BY <1>2, <1>3, <1>4

-----------------------------------------------------------------------------
(* Every step keeps the life of the messages in order                      *)

LEMMA LifecycleInit == Init => Lifecycle
<1> SUFFICES ASSUME Init PROVE Lifecycle
  OBVIOUS
<1>1. <<>> \in Seq(Msgs) /\ Len(<<>>) = 0
  BY EmptySeq
<1>2. /\ queue = <<>> /\ ready = <<>> /\ readyFds = 0 /\ tasks = {} /\ polled = {}
      /\ status = [m \in Msgs |-> "new"] /\ finishes = [m \in Msgs |-> 0]
  BY DEF Init
<1>3. queue \in Seq(Msgs) /\ ready \in Seq(Msgs) /\ readyFds \in 0..Len(ready)
  BY <1>1, <1>2
<1>4. /\ pc = "out" /\ count \in Nat
      /\ stop \in BOOLEAN /\ exception \in BOOLEAN /\ asked \in BOOLEAN
  BY DEF Init
<1>5. 0 \in 0..MaxIo /\ 0 \in 0..MaxEntries
  BY BoundAssumption
<1>6. /\ entries \in 0..MaxEntries
      /\ ios \in [Msgs -> 0..MaxIo] /\ finishes \in [Msgs -> Nat]
  BY <1>5 DEF Init
<1>7. TypeOK
  BY <1>2, <1>3, <1>4, <1>6 DEF TypeOK
<1>8. QueuedOnce
  BY <1>1, <1>2 DEF QueuedOnce
<1>9. TasksActive /\ FinishedOnce
  BY <1>2 DEF TasksActive, FinishedOnce
<1> QED BY <1>7, <1>8, <1>9 DEF Lifecycle

\* A client hands in a message that is nowhere else.
LEMMA LifecycleSend ==
  ASSUME Lifecycle, NEW m \in Msgs, Send(m) PROVE Lifecycle'
<1> USE DEF Lifecycle
<1>1. /\ queue' \in Seq(Msgs) /\ Len(queue') = Len(queue) + 1 /\ Len(queue) \in Nat
      /\ queue'[Len(queue) + 1] = m
      /\ \A i \in 1..Len(queue) : queue'[i] = queue[i]
  BY AppendProperties, LenProperties DEF TypeOK, Send
<1>2. \A i \in 1..Len(queue') : i \in 1..Len(queue) \/ i = Len(queue) + 1
  BY <1>1
<1>3. \A i \in 1..Len(queue) : queue[i] # m
  BY DEF QueuedOnce, Send
<1>4. status' = [status EXCEPT ![m] = "queued"] /\ status[m] = "new"
  BY DEF Send, Become
<1>5. TypeOK'
  BY <1>1, <1>4 DEF TypeOK, Send, socket
<1>6. QueuedOnce'
  <2>1. \A i, j \in 1..Len(queue') : queue'[i] = queue'[j] => i = j
    BY <1>1, <1>2, <1>3 DEF QueuedOnce
  <2>2. \A i \in 1..Len(queue') : queue'[i] \in Msgs
    BY <1>1, ElementOfSeq
  <2>3. \A i \in 1..Len(queue') : status'[queue'[i]] = "queued"
    BY <1>1, <1>2, <1>4, <2>2 DEF QueuedOnce, TypeOK
  <2> QED BY <2>1, <2>3 DEF QueuedOnce
<1>7. TasksActive' /\ FinishedOnce'
  BY <1>4 DEF TasksActive, FinishedOnce, TypeOK, Send
<1> QED BY <1>5, <1>6, <1>7

\* A message that is taken from the queue and becomes s.
LEMMA QueuedOnceTaken ==
  ASSUME Lifecycle, NEW m \in Msgs, NEW s, Taken(m), Become(m, s)
  PROVE  QueuedOnce' /\ queue' \in Seq(Msgs) /\ status[m] = "queued" /\ m \notin tasks
<1> USE DEF Lifecycle
<1>1. queue # <<>> /\ m = Head(queue) /\ queue' = Tail(queue)
  BY DEF Taken
<1>2. /\ queue' \in Seq(Msgs) /\ status[m] = "queued"
      /\ \A i \in 1..Len(queue') :
           i + 1 \in 1..Len(queue) /\ queue'[i] = queue[i + 1] /\ queue'[i] # m
  BY <1>1, HeadFacts
<1>3. \A i, j \in 1..Len(queue') : queue'[i] = queue'[j] => i = j
  <2> SUFFICES ASSUME NEW i \in 1..Len(queue'), NEW j \in 1..Len(queue'),
                      queue'[i] = queue'[j]
               PROVE  i = j
    OBVIOUS
  <2>1. i + 1 = j + 1
    BY <1>2 DEF QueuedOnce
  <2> QED BY <2>1
<1>4. \A i \in 1..Len(queue') : status'[queue'[i]] = "queued"
  <2> SUFFICES ASSUME NEW i \in 1..Len(queue') PROVE status'[queue'[i]] = "queued"
    OBVIOUS
  <2>1. queue'[i] \in Msgs
    BY <1>2, ElementOfSeq
  <2>2. status[queue'[i]] = "queued" /\ queue'[i] # m
    BY <1>2 DEF QueuedOnce
  <2> QED BY <2>1, <2>2 DEF Become, TypeOK
<1>5. m \notin tasks
  BY <1>2 DEF TasksActive
<1> QED BY <1>2, <1>3, <1>4, <1>5 DEF QueuedOnce

\* The loop takes a message: it gets a task, ends at once, or is lost.
LEMMA LifecycleStart ==
  ASSUME Lifecycle, NEW m \in Msgs, StartMore(m) \/ StartEnd(m) \/ StartThrow(m)
  PROVE  Lifecycle'
<1> USE DEF Lifecycle
<1>1. CASE StartMore(m)
  <2>1. Taken(m) /\ Become(m, "active") /\ tasks' = tasks \cup {m}
    BY <1>1 DEF StartMore
  <2>2. QueuedOnce' /\ queue' \in Seq(Msgs) /\ status[m] = "queued" /\ m \notin tasks
    BY <2>1, QueuedOnceTaken
  <2>3. ios' \in [Msgs -> 0..MaxIo] /\ polled' \subseteq Msgs
    BY <1>1, BoundAssumption DEF StartMore, Continues, TypeOK
  <2>4. TypeOK'
    BY <1>1, <2>1, <2>2, <2>3 DEF StartMore, Taken, Become, TypeOK
  <2>5. TasksActive' /\ FinishedOnce'
    BY <1>1, <2>1, <2>2 DEF StartMore, Become, TypeOK, TasksActive, FinishedOnce
  <2> QED BY <2>2, <2>4, <2>5
<1>2. CASE StartEnd(m)
  <2>1. Taken(m) /\ Become(m, "ended")
    BY <1>2 DEF StartEnd
  <2>2. QueuedOnce' /\ queue' \in Seq(Msgs) /\ status[m] = "queued" /\ m \notin tasks
    BY <2>1, QueuedOnceTaken
  <2>3. TypeOK'
    BY <1>2, <2>1, <2>2 DEF StartEnd, Taken, Become, TypeOK
  <2>4. TasksActive' /\ FinishedOnce'
    BY <1>2, <2>1, <2>2 DEF StartEnd, Become, TypeOK, TasksActive, FinishedOnce
  <2> QED BY <2>2, <2>3, <2>4
<1>3. CASE StartThrow(m)
  <2>1. Taken(m) /\ Become(m, "dropped")
    BY <1>3 DEF StartThrow
  <2>2. QueuedOnce' /\ queue' \in Seq(Msgs) /\ status[m] = "queued" /\ m \notin tasks
    BY <2>1, QueuedOnceTaken
  <2>3. TypeOK'
    BY <1>3, <2>1, <2>2 DEF StartThrow, Taken, Become, TypeOK
  <2>4. TasksActive' /\ FinishedOnce'
    BY <1>3, <2>1, <2>2 DEF StartThrow, Become, TypeOK, TasksActive, FinishedOnce
  <2> QED BY <2>2, <2>3, <2>4
<1> QED BY <1>1, <1>2, <1>3

\* One completion is read.
LEMMA LifecycleComplete ==
  ASSUME Lifecycle, NEW m \in Msgs, CompleteMore(m) \/ CompleteEnd(m) \/ CompleteThrow(m)
  PROVE  Lifecycle'
<1> USE DEF Lifecycle
<1>1. Completion(m)
  BY DEF CompleteMore, CompleteEnd, CompleteThrow
<1>2. /\ queue' = queue /\ ready' = ready /\ stop' = stop /\ entries' = entries
      /\ asked' = asked /\ pc' = "emplace"
      /\ readyFds' \in 0..Len(ready') /\ count' \in Nat
  <2>1. Len(ready) \in Nat
    BY LenProperties DEF TypeOK
  <2> QED BY <1>1, <2>1 DEF Completion, TypeOK
<1>3. CASE CompleteMore(m)
  <2>1. ios' \in [Msgs -> 0..MaxIo] /\ polled' \subseteq Msgs
    BY <1>3, BoundAssumption DEF CompleteMore, Continues, TypeOK
  <2>2. TypeOK'
    BY <1>2, <1>3, <2>1 DEF CompleteMore, TypeOK
  <2> QED
    BY <1>2, <1>3, <2>2 DEF CompleteMore, QueuedOnce, TasksActive, FinishedOnce
<1>4. CASE CompleteEnd(m)
  <2>1. CASE m \in tasks
    <3>1. /\ finishes' = [finishes EXCEPT ![m] = @ + 1]
          /\ status' = [status EXCEPT ![m] = "ended"]
          /\ tasks' = tasks \ {m} /\ polled' = polled /\ exception' = exception /\ ios' = ios
      BY <1>4, <2>1 DEF CompleteEnd, Become
    <3>2. status[m] = "active"
      BY <2>1 DEF TasksActive
    <3>3. TypeOK'
      BY <1>2, <3>1 DEF TypeOK
    <3>4. QueuedOnce'
      <4>1. \A i \in 1..Len(queue) : queue[i] \in Msgs /\ queue[i] # m
        BY <3>2, ElementOfSeq DEF QueuedOnce, TypeOK
      <4> QED BY <1>2, <3>1, <4>1 DEF QueuedOnce, TypeOK
    <3>5. TasksActive' /\ FinishedOnce'
      BY <3>1, <3>2 DEF TasksActive, FinishedOnce, TypeOK
    <3> QED BY <3>3, <3>4, <3>5
  <2>2. CASE m \notin tasks
    <3>1. UNCHANGED <<finishes, status, tasks, polled, exception, ios>>
      BY <1>4, <2>2 DEF CompleteEnd
    <3> QED
      BY <1>2, <3>1 DEF TypeOK, QueuedOnce, TasksActive, FinishedOnce
  <2> QED BY <2>1, <2>2
<1>5. CASE CompleteThrow(m)
  BY <1>2, <1>5 DEF CompleteThrow, TypeOK, QueuedOnce, TasksActive, FinishedOnce
<1> QED BY <1>3, <1>4, <1>5

\* The socket answers.
LEMMA LifecycleSubmit ==
  ASSUME Lifecycle, NEW H \in SUBSET polled, Submit(H) PROVE Lifecycle'
<1> USE DEF Lifecycle
<1>1. H \in SUBSET Msgs /\ Cardinality(H) \in Nat
  BY FS_Subset, FS_CardinalityType, MsgsAssumption DEF TypeOK
<1>2. ready' \in Seq(Msgs) /\ readyFds' \in 0..Len(ready') /\ polled' \subseteq Msgs
  <2>1. CASE PollNothing(H)
    BY <2>1 DEF PollNothing, socket, TypeOK
  <2>2. CASE \E order \in SetToSeqs(H) : PollAnswers(H, order)
    <3>1. PICK order \in SetToSeqs(H) : PollAnswers(H, order)
      BY <2>2
    <3>2. order \in Seq(Msgs)
      BY <1>1, OrderFacts
    <3>3. Len(order) \in Nat
      BY <3>2, LenProperties
    <3> QED BY <3>1, <3>2, <3>3 DEF PollAnswers, TypeOK
  <2> QED BY <2>1, <2>2 DEF Submit
<1>3. TypeOK'
  BY <1>1, <1>2, ModeAssumption DEF Submit, TypeOK
<1> QED BY <1>3 DEF Submit, QueuedOnce, TasksActive, FinishedOnce

LEMMA LifecycleStep == Lifecycle /\ [Next]_vars => Lifecycle'
<1> SUFFICES ASSUME Lifecycle, [Next]_vars PROVE Lifecycle'
  OBVIOUS
<1>1. ASSUME NEW m \in Msgs, Send(m) PROVE Lifecycle'
  BY <1>1, LifecycleSend
<1>2. CASE Stop
  BY <1>2 DEF Stop, socket, Lifecycle, TypeOK, QueuedOnce, TasksActive, FinishedOnce
<1>3. CASE Enter
  <2>1. entries' \in 0..MaxEntries
    BY <1>3, BoundAssumption DEF Enter, Lifecycle, TypeOK
  <2> QED
    BY <1>3, <2>1
    DEF Enter, socket, Lifecycle, TypeOK, QueuedOnce, TasksActive, FinishedOnce
<1>4. CASE ResetReceiver
  <2> USE DEF Lifecycle
  <2>1. \A m \in Msgs : status'[m] =
          IF m \in tasks \/ (Local /\ status[m] = "queued") THEN "dropped" ELSE status[m]
    BY <1>4 DEF ResetReceiver
  <2>2. status' \in [Msgs -> {"new", "queued", "active", "ended", "dropped"}]
    BY <1>4 DEF ResetReceiver, TypeOK
  <2>3. TypeOK'
    BY <1>4, <2>2, EmptySeq DEF ResetReceiver, socket, TypeOK
  <2>4. QueuedOnce'
    <3>1. CASE Local
      BY <1>4, <3>1, EmptySeq DEF ResetReceiver, QueuedOnce
    <3>2. CASE ~Local
      <4>1. \A i \in 1..Len(queue) : queue[i] \in Msgs /\ queue[i] \notin tasks
        BY ElementOfSeq DEF QueuedOnce, TasksActive, TypeOK
      <4> QED BY <1>4, <2>1, <3>2, <4>1 DEF ResetReceiver, QueuedOnce
    <3> QED BY <3>1, <3>2
  <2>5. TasksActive'
    BY <1>4 DEF ResetReceiver, TasksActive
  <2>6. FinishedOnce'
    <3> SUFFICES ASSUME NEW m \in Msgs
                 PROVE  finishes'[m] = IF status'[m] = "ended" THEN 1 ELSE 0
      BY DEF FinishedOnce
    <3>1. finishes' = finishes
      BY <1>4 DEF ResetReceiver
    <3>2. finishes[m] = IF status[m] = "ended" THEN 1 ELSE 0
      BY DEF FinishedOnce
    <3>3. m \in tasks => status[m] = "active"
      BY DEF TasksActive
    <3> QED BY <2>1, <3>1, <3>2, <3>3
  <2> QED BY <2>3, <2>4, <2>5, <2>6
<1>5. CASE Leave
  BY <1>5 DEF Leave, socket, Lifecycle, TypeOK, QueuedOnce, TasksActive, FinishedOnce
<1>6. CASE NoCompletion \/ Spin \/ QueueEmpty \/ Emplace \/ SubmitFails
  BY <1>6
  DEF NoCompletion, Spin, QueueEmpty, Emplace, SubmitFails, vars, socket,
      Lifecycle, TypeOK, QueuedOnce, TasksActive, FinishedOnce
<1>7. ASSUME NEW m \in Msgs, CompleteMore(m) \/ CompleteEnd(m) \/ CompleteThrow(m)
      PROVE  Lifecycle'
  BY <1>7, LifecycleComplete
<1>8. ASSUME NEW m \in Msgs, StartMore(m) \/ StartEnd(m) \/ StartThrow(m)
      PROVE  Lifecycle'
  BY <1>8, LifecycleStart
<1>9. ASSUME NEW H \in SUBSET polled, Submit(H) PROVE Lifecycle'
  BY <1>9, LifecycleSubmit
<1>10. CASE UNCHANGED vars
  BY <1>10 DEF vars, socket, Lifecycle, TypeOK, QueuedOnce, TasksActive, FinishedOnce
<1> QED
  BY <1>1, <1>2, <1>3, <1>4, <1>5, <1>6, <1>7, <1>8, <1>9, <1>10 DEF Next, Loop

-----------------------------------------------------------------------------
(* Every step keeps the answers with their tasks                           *)

\* A socket that is left alone gives out what it would have given out.
LEMMA SameUnread ==
  ASSUME UNCHANGED <<ready, readyFds>>
  PROVE  Unread' = Unread /\ (UnreadOnce => UnreadOnce')
BY DEF Unread, UnreadOnce

\* A completion leaves the others unread, and it is not among them.
LEMMA CompletionUnread ==
  ASSUME Lifecycle, UnreadOnce, NEW m, Completion(m)
  PROVE  UnreadOnce' /\ m \in Unread /\ Unread' = Unread \ {m}
<1>1. /\ readyFds \in Nat /\ Len(ready) \in Nat /\ readyFds < Len(ready)
      /\ m = ready[readyFds + 1] /\ readyFds' = readyFds + 1 /\ ready' = ready
  BY LenProperties DEF Completion, Lifecycle, TypeOK
<1>2. /\ readyFds + 1 \in (readyFds + 1)..Len(ready)
      /\ (readyFds' + 1)..Len(ready') = ((readyFds + 1)..Len(ready)) \ {readyFds + 1}
  BY <1>1
<1> QED BY <1>1, <1>2 DEF Unread, UnreadOnce

\* A step that leaves the socket alone and takes no task from a loop that runs
\* keeps the completions with their tasks.
LEMMA AnswersKept ==
  ASSUME Lifecycle, Answers, UNCHANGED <<polled, ready, readyFds, entries>>,
         pc' \notin {"out", "dead"} => pc \notin {"out", "dead"} /\ tasks \subseteq tasks',
         pc = "out" => pc' = "out"
  PROVE  Answers'
<1>1. Unread' = Unread /\ UnreadOnce'
  BY SameUnread DEF Answers
<1>2. FreshSocket'
  BY DEF Answers, FreshSocket
<1>3. FirstInvocation'
  BY <1>1 DEF Answers, FirstInvocation, CompletionsHaveTasks
<1> QED BY <1>1, <1>2, <1>3 DEF Answers

\* In a loop that runs, a call of sendReceive has been made.
LEMMA RunsAfterEntry ==
  ASSUME Lifecycle, Answers, pc # "out" PROVE entries # 0
BY DEF Answers, FreshSocket

LEMMA AnswersComplete ==
  ASSUME Lifecycle, Answers, NEW m \in Msgs,
         CompleteMore(m) \/ CompleteEnd(m) \/ CompleteThrow(m)
  PROVE  Answers'
<1>1. Completion(m)
  BY DEF CompleteMore, CompleteEnd, CompleteThrow
<1>2. UnreadOnce' /\ m \in Unread /\ Unread' = Unread \ {m}
  BY <1>1, CompletionUnread DEF Answers
<1>3. pc = "top" /\ entries' = entries /\ entries # 0
  BY <1>1, RunsAfterEntry DEF Completion
<1>4. FreshSocket'
  BY <1>3 DEF FreshSocket
<1>5. ASSUME entries <= 1 PROVE CompletionsHaveTasks'
  <2>1. Unread \subseteq tasks /\ polled \subseteq tasks /\ Unread \cap polled = {}
    BY <1>3, <1>5 DEF Answers, FirstInvocation, CompletionsHaveTasks
  <2>2. CASE CompleteMore(m)
    BY <1>2, <2>1, <2>2 DEF CompleteMore, Continues, CompletionsHaveTasks
  <2>3. CASE CompleteEnd(m)
    BY <1>2, <2>1, <2>3 DEF CompleteEnd, CompletionsHaveTasks
  <2>4. CASE CompleteThrow(m)
    BY <1>2, <2>1, <2>4 DEF CompleteThrow, CompletionsHaveTasks
  <2> QED BY <2>2, <2>3, <2>4
<1> QED BY <1>2, <1>3, <1>4, <1>5 DEF Answers, FirstInvocation

LEMMA AnswersStart ==
  ASSUME Lifecycle, Answers, NEW m \in Msgs,
         StartMore(m) \/ StartEnd(m) \/ StartThrow(m)
  PROVE  Answers'
<1>1. Taken(m)
  BY DEF StartMore, StartEnd, StartThrow
<1>2. pc = "filling" /\ UNCHANGED <<ready, readyFds, entries>> /\ entries # 0
  BY <1>1, RunsAfterEntry DEF Taken
<1>3. Unread' = Unread /\ UnreadOnce'
  BY <1>2, SameUnread DEF Answers
<1>4. FreshSocket'
  BY <1>2 DEF FreshSocket
<1>5. m \notin tasks
  <2>1. status[m] = "queued"
    BY <1>1, HeadFacts DEF Taken, Lifecycle
  <2> QED BY <2>1 DEF Lifecycle, TasksActive
<1>6. ASSUME entries <= 1 PROVE CompletionsHaveTasks'
  <2>1. Unread \subseteq tasks /\ polled \subseteq tasks /\ Unread \cap polled = {}
    BY <1>2, <1>6 DEF Answers, FirstInvocation, CompletionsHaveTasks
  <2>2. CASE StartMore(m)
    BY <1>3, <1>5, <2>1, <2>2 DEF StartMore, Continues, CompletionsHaveTasks
  <2>3. CASE StartEnd(m) \/ StartThrow(m)
    BY <1>3, <2>1, <2>3 DEF StartEnd, StartThrow, CompletionsHaveTasks
  <2> QED BY <2>2, <2>3
<1> QED BY <1>2, <1>3, <1>4, <1>6 DEF Answers, FirstInvocation

\* What the poll answers was with the socket and is so no longer.
LEMMA AnswersSubmit ==
  ASSUME Lifecycle, Answers, NEW H \in SUBSET polled, Submit(H) PROVE Answers'
<1>1. pc = "submit" /\ UNCHANGED <<tasks, entries>> /\ entries # 0
  BY RunsAfterEntry DEF Submit
<1>2. FreshSocket'
  BY <1>1 DEF FreshSocket
<1>3. entries <= 1 =>
        Unread \subseteq tasks /\ polled \subseteq tasks /\ Unread \cap polled = {}
  BY <1>1 DEF Answers, FirstInvocation, CompletionsHaveTasks
<1>4. CASE PollNothing(H)
  <2>1. UNCHANGED <<polled, ready, readyFds>>
    BY <1>4 DEF PollNothing, socket
  <2>2. Unread' = Unread /\ UnreadOnce'
    BY <2>1, SameUnread DEF Answers
  <2> QED
    BY <1>1, <1>2, <1>3, <2>1, <2>2 DEF Answers, FirstInvocation, CompletionsHaveTasks
<1>5. CASE \E order \in SetToSeqs(H) : PollAnswers(H, order)
  <2>1. PICK order \in SetToSeqs(H) : PollAnswers(H, order)
    BY <1>5
  <2>2. H \in SUBSET Msgs
    BY DEF Lifecycle, TypeOK
  <2>3. /\ order \in Seq(Msgs)
        /\ \A i \in 1..Len(order) : order[i] \in H
        /\ \A i, j \in 1..Len(order) : order[i] = order[j] => i = j
    BY <2>2, OrderFacts
  <2>4. ready' = order /\ readyFds' = 0 /\ polled' = polled \ H
    BY <2>1 DEF PollAnswers
  <2>5. (readyFds' + 1)..Len(ready') = 1..Len(order)
    BY <2>4
  <2>6. UnreadOnce' /\ Unread' \subseteq H
    BY <2>3, <2>4, <2>5 DEF UnreadOnce, Unread
  <2>7. entries <= 1 => CompletionsHaveTasks'
    BY <1>1, <1>3, <2>4, <2>6 DEF CompletionsHaveTasks
  <2> QED BY <1>1, <1>2, <2>6, <2>7 DEF Answers, FirstInvocation
<1> QED BY <1>4, <1>5 DEF Submit

LEMMA AnswersStep == Lifecycle /\ Answers /\ [Next]_vars => Answers'
<1> SUFFICES ASSUME Lifecycle, Answers, [Next]_vars PROVE Answers'
  OBVIOUS
<1>1. ASSUME NEW m \in Msgs, Send(m) PROVE Answers'
  BY <1>1, AnswersKept DEF Send, socket
<1>2. CASE Stop
  BY <1>2, AnswersKept DEF Stop, socket
<1>3. CASE Enter
  <2>1. pc = "out" /\ entries \in Nat /\ entries' = entries + 1
    BY <1>3 DEF Enter, Lifecycle, TypeOK
  <2>2. UNCHANGED <<polled, ready, readyFds>>
    BY <1>3 DEF Enter, socket
  <2>3. Unread' = Unread /\ UnreadOnce'
    BY <2>2, SameUnread DEF Answers
  <2>4. entries' # 0 /\ (entries' <= 1 => entries = 0)
    BY <2>1
  <2>5. ASSUME entries = 0 PROVE polled' = {} /\ Unread' = {}
    <3>1. polled = {} /\ ready = <<>>
      BY <2>5 DEF Answers, FreshSocket
    <3>2. Len(ready) = 0 /\ readyFds \in Nat
      BY <3>1, EmptySeq DEF Lifecycle, TypeOK
    <3>3. Unread = {}
      BY <3>2 DEF Unread
    <3> QED BY <2>2, <2>3, <3>1, <3>3
  <2> QED
    BY <2>3, <2>4, <2>5
    DEF Answers, FreshSocket, FirstInvocation, CompletionsHaveTasks
<1>4. CASE ResetReceiver
  BY <1>4, AnswersKept DEF ResetReceiver, socket
<1>5. CASE Leave
  BY <1>5, AnswersKept DEF Leave, socket
<1>6. CASE NoCompletion \/ Spin \/ QueueEmpty \/ Emplace \/ SubmitFails
  BY <1>6, AnswersKept
  DEF NoCompletion, Spin, QueueEmpty, Emplace, SubmitFails, vars, socket
<1>7. ASSUME NEW m \in Msgs, CompleteMore(m) \/ CompleteEnd(m) \/ CompleteThrow(m)
      PROVE  Answers'
  BY <1>7, AnswersComplete
<1>8. ASSUME NEW m \in Msgs, StartMore(m) \/ StartEnd(m) \/ StartThrow(m)
      PROVE  Answers'
  BY <1>8, AnswersStart
<1>9. ASSUME NEW H \in SUBSET polled, Submit(H) PROVE Answers'
  BY <1>9, AnswersSubmit
<1>10. CASE UNCHANGED vars
  BY <1>10, AnswersKept DEF vars, socket
<1> QED
  BY <1>1, <1>2, <1>3, <1>4, <1>5, <1>6, <1>7, <1>8, <1>9, <1>10 DEF Next, Loop

-----------------------------------------------------------------------------
(* Theorems                                                                *)

\* Every variable keeps its type; count, which is unsigned in the code, never
\* falls below zero.
THEOREM EventLoopTypeCorrect == Spec => []TypeOK
<1>1. Lifecycle => TypeOK
  BY DEF Lifecycle
<1> QED BY <1>1, LifecycleInit, LifecycleStep, PTL DEF Spec

\* finish() is called once for each message that ends and for no other, in every
\* mode, over every number of invocations and exceptions.
THEOREM MessagesFinishOnce == Spec => []FinishedOnce
<1>1. Lifecycle => FinishedOnce
  BY DEF Lifecycle
<1> QED BY <1>1, LifecycleInit, LifecycleStep, PTL DEF Spec

\* In the first invocation of a receiver every completion that complete() gives
\* out belongs to a task that exists and has no other request with the socket.
\* A later one may find requests an earlier one left behind.
THEOREM FirstInvocationKnowsItsCompletions ==
  Spec => [](entries <= 1 => CompletionsHaveTasks)
<1>1. Init => IInv
  <2> SUFFICES ASSUME Init PROVE IInv
    OBVIOUS
  <2>1. entries = 0 /\ pc = "out" /\ polled = {} /\ ready = <<>> /\ readyFds = 0
    BY DEF Init
  <2>2. FreshSocket /\ FirstInvocation
    BY <2>1 DEF FreshSocket, FirstInvocation, CompletionsHaveTasks
  <2>3. Len(ready) = 0
    BY <2>1, EmptySeq
  <2>4. UnreadOnce
    BY <2>1, <2>3 DEF UnreadOnce
  <2> QED BY <2>2, <2>4, LifecycleInit DEF IInv, Answers
<1>2. IInv /\ [Next]_vars => IInv'
  BY LifecycleStep, AnswersStep DEF IInv
<1>3. IInv => (entries <= 1 => CompletionsHaveTasks)
  BY DEF IInv, Answers, FirstInvocation
<1> QED BY <1>1, <1>2, <1>3, PTL DEF Spec

-----------------------------------------------------------------------------
(* The loop over IOUringSocket                                             *)

Data == Msgs \cup {NoData}

RingTypeOK == inFlight \subseteq Msgs /\ timed \subseteq Msgs /\ cq \in Seq(Data)

\* What was answered is answered once, and is no longer with the kernel.
AnsweredOnce ==
  /\ \A i, j \in 1..Len(cq) : cq[i] = cq[j] /\ cq[i] # NoData => i = j
  /\ inFlight \cap ToSet(cq) = {}

\* A task has one I/O, prepared or outstanding.
OneIo ==
  /\ polled \subseteq tasks /\ Outstanding \subseteq tasks
  /\ polled \cap Outstanding = {}

\* The loop counts every answer it has to wait for, and maybe more.
AllCounted == count >= Cardinality(Outstanding)

\* Between invocations nothing is prepared and nothing is outstanding.
Quiescent ==
  /\ pc \in {"out", "dead"} => Outstanding = {}
  /\ pc \in {"out", "dead", "top"} => polled = {}

Kernel == failed \/ (AnsweredOnce /\ OneIo /\ AllCounted /\ Quiescent)

UringInv == Lifecycle /\ RingTypeOK /\ Kernel

-----------------------------------------------------------------------------
(* The life of the messages is as with PollSocket                          *)

LEMMA UringLifecycleComplete ==
  ASSUME Lifecycle, NEW m \in Msgs,
         UringCompleteMore(m) \/ UringCompleteEnd(m) \/ UringCompleteThrow(m)
  PROVE  Lifecycle'
<1> USE DEF Lifecycle
<1>1. UringCompletion(m)
  BY DEF UringCompleteMore, UringCompleteEnd, UringCompleteThrow
<1>2. /\ UNCHANGED <<queue, ready, readyFds, stop, entries, asked>>
      /\ pc' = "emplace" /\ count' \in Nat
  BY <1>1 DEF UringCompletion, TypeOK
<1>3. CASE UringCompleteMore(m)
  <2>1. ios' \in [Msgs -> 0..MaxIo] /\ polled' \subseteq Msgs
    BY <1>3, BoundAssumption DEF UringCompleteMore, Continues, TypeOK
  <2>2. TypeOK'
    BY <1>2, <1>3, <2>1 DEF UringCompleteMore, TypeOK
  <2> QED
    BY <1>2, <1>3, <2>2 DEF UringCompleteMore, QueuedOnce, TasksActive, FinishedOnce
<1>4. CASE UringCompleteEnd(m)
  <2>1. /\ finishes' = [finishes EXCEPT ![m] = @ + 1]
        /\ status' = [status EXCEPT ![m] = "ended"]
        /\ tasks' = tasks \ {m} /\ polled' = polled /\ exception' = exception /\ ios' = ios
    BY <1>4 DEF UringCompleteEnd, Become
  <2>2. status[m] = "active"
    BY <1>4 DEF UringCompleteEnd, TasksActive
  <2>3. TypeOK'
    BY <1>2, <2>1 DEF TypeOK
  <2>4. QueuedOnce'
    <3>1. \A i \in 1..Len(queue) : queue[i] \in Msgs /\ queue[i] # m
      BY <2>2, ElementOfSeq DEF QueuedOnce, TypeOK
    <3> QED BY <1>2, <2>1, <3>1 DEF QueuedOnce, TypeOK
  <2>5. TasksActive' /\ FinishedOnce'
    BY <2>1, <2>2 DEF TasksActive, FinishedOnce, TypeOK
  <2> QED BY <2>3, <2>4, <2>5
<1>5. CASE UringCompleteThrow(m)
  BY <1>2, <1>5 DEF UringCompleteThrow, TypeOK, QueuedOnce, TasksActive, FinishedOnce
<1> QED BY <1>3, <1>4, <1>5

LEMMA UringLifecycleSubmit ==
  ASSUME Lifecycle, NEW T \in SUBSET polled, UringSubmit(T) PROVE Lifecycle'
<1> USE DEF Lifecycle
<1>1. Cardinality(polled) \in Nat /\ Cardinality(T) \in Nat
  BY FS_Subset, FS_CardinalityType, MsgsAssumption DEF TypeOK
<1>2. TypeOK'
  BY <1>1, ModeAssumption DEF UringSubmit, TypeOK
<1> QED BY <1>2 DEF UringSubmit, QueuedOnce, TasksActive, FinishedOnce

\* The steps of EventLoop that this loop has too.
Shared ==
  \/ Leave \/ NoCompletion \/ Emplace \/ QueueEmpty
  \/ \E m \in Msgs : StartMore(m) \/ StartEnd(m) \/ StartThrow(m)
  \/ \E m \in Msgs : Send(m)
  \/ Stop \/ Enter \/ ResetReceiver

LEMMA UringLifecycleStep == Lifecycle /\ [UringNext]_uringVars => Lifecycle'
<1> SUFFICES ASSUME Lifecycle, [UringNext]_uringVars PROVE Lifecycle'
  OBVIOUS
<1>1. CASE Shared
  BY <1>1, LifecycleStep DEF Shared, Next, Loop
<1>2. CASE UNCHANGED vars
  BY <1>2, LifecycleStep
<1>3. CASE UringSpin \/ \E m \in Msgs : KernelAnswers(m)
  BY <1>2, <1>3 DEF UringSpin, KernelAnswers
<1>4. CASE UringSubmitFails
  BY <1>4
  DEF UringSubmitFails, socket, Lifecycle, TypeOK, QueuedOnce, TasksActive, FinishedOnce
<1>5. ASSUME NEW m \in Msgs,
             UringCompleteMore(m) \/ UringCompleteEnd(m) \/ UringCompleteThrow(m)
      PROVE  Lifecycle'
  BY <1>5, UringLifecycleComplete
<1>6. ASSUME NEW T \in SUBSET polled, UringSubmit(T) PROVE Lifecycle'
  BY <1>6, UringLifecycleSubmit
<1> QED
  BY <1>1, <1>2, <1>3, <1>4, <1>5, <1>6 DEF UringNext, UringLoop, Shared, uringVars

-----------------------------------------------------------------------------
(* The completion queue                                                    *)

\* The head is read: what had a request was there once.
LEMMA ReadFacts ==
  ASSUME RingTypeOK, AnsweredOnce, cq # <<>>, cq' = Tail(cq)
  PROVE  /\ cq' \in Seq(Data)
         /\ ToSet(cq) = ToSet(cq') \cup {Head(cq)}
         /\ Head(cq) # NoData => Head(cq) \notin ToSet(cq')
         /\ \A i, j \in 1..Len(cq') : cq'[i] = cq'[j] /\ cq'[i] # NoData => i = j
<1>1. /\ cq' \in Seq(Data) /\ Len(cq') = Len(cq) - 1 /\ Head(cq) = cq[1]
      /\ \A i \in 1..Len(cq') : cq'[i] = cq[i + 1]
  BY HeadTailProperties DEF RingTypeOK
<1>2. DOMAIN cq = 1..Len(cq) /\ DOMAIN cq' = 1..Len(cq') /\ Len(cq) \in Nat \ {0}
  BY <1>1, LenProperties, EmptySeq DEF RingTypeOK
<1>3. /\ 1 \in 1..Len(cq)
      /\ \A i \in 1..Len(cq') : i \in Nat /\ i + 1 \in 1..Len(cq) /\ i + 1 # 1
      /\ \A i \in 1..Len(cq) : i # 1 => i - 1 \in 1..Len(cq') /\ (i - 1) + 1 = i
  BY <1>1, <1>2
<1>4. ToSet(cq) = ToSet(cq') \cup {Head(cq)}
  <2>1. ASSUME NEW i \in 1..Len(cq) PROVE cq[i] \in ToSet(cq') \cup {Head(cq)}
    <3>1. CASE i = 1
      BY <1>1, <3>1
    <3>2. CASE i # 1
      <4>1. i - 1 \in 1..Len(cq') /\ cq'[i - 1] = cq[i]
        BY <1>1, <1>3, <3>2
      <4> QED BY <1>2, <4>1 DEF ToSet
    <3> QED BY <3>1, <3>2
  <2>2. ASSUME NEW i \in 1..Len(cq') PROVE cq'[i] \in ToSet(cq)
    BY <1>1, <1>2, <1>3 DEF ToSet
  <2>3. Head(cq) \in ToSet(cq)
    BY <1>1, <1>2, <1>3 DEF ToSet
  <2> QED BY <1>2, <2>1, <2>2, <2>3 DEF ToSet
<1>5. Head(cq) # NoData => Head(cq) \notin ToSet(cq')
  <2> SUFFICES ASSUME Head(cq) # NoData, NEW i \in 1..Len(cq'), cq'[i] = Head(cq)
               PROVE  FALSE
    BY <1>2 DEF ToSet
  <2>1. cq[i + 1] = cq[1] /\ cq[i + 1] # NoData
    BY <1>1
  <2> QED BY <1>3, <2>1 DEF AnsweredOnce
<1>6. \A i, j \in 1..Len(cq') : cq'[i] = cq'[j] /\ cq'[i] # NoData => i = j
  <2> SUFFICES ASSUME NEW i \in 1..Len(cq'), NEW j \in 1..Len(cq'),
                      cq'[i] = cq'[j], cq'[i] # NoData
               PROVE  i = j
    OBVIOUS
  <2>1. cq[i + 1] = cq[j + 1] /\ cq[i + 1] # NoData
    BY <1>1
  <2>2. i + 1 = j + 1
    BY <1>3, <2>1 DEF AnsweredOnce
  <2> QED BY <2>2
<1> QED BY <1>1, <1>4, <1>5, <1>6

\* The answer of an I/O, with or without that of its timeout, is appended.
LEMMA AnswerFacts ==
  ASSUME RingTypeOK, NEW m \in Msgs,
         NEW e \in {<<m>>, <<m, NoData>>, <<NoData, m>>}, cq' = cq \o e
  PROVE  /\ cq' \in Seq(Data)
         /\ ToSet(cq') \ {NoData} = (ToSet(cq) \ {NoData}) \cup {m}
         /\ AnsweredOnce /\ m \notin ToSet(cq) =>
              \A i, j \in 1..Len(cq') : cq'[i] = cq'[j] /\ cq'[i] # NoData => i = j
<1>1. /\ e \in Seq(Data) /\ Len(e) \in {1, 2}
      /\ \A i \in 1..Len(e) : e[i] \in {m, NoData}
      /\ \E k \in 1..Len(e) : \A i \in 1..Len(e) : e[i] = m <=> i = k
  <2>1. CASE e = <<m>>
    BY <2>1 DEF Data
  <2>2. CASE e = <<m, NoData>>
    <3>1. e \in Seq(Data) /\ Len(e) = 2 /\ e[1] = m /\ e[2] = NoData
      BY <2>2 DEF Data
    <3>2. 1 \in 1..Len(e) /\ \A i \in 1..Len(e) : i = 1 \/ i = 2
      BY <3>1
    <3> QED BY <3>1, <3>2, NoDataAssumption
  <2>3. CASE e = <<NoData, m>>
    <3>1. e \in Seq(Data) /\ Len(e) = 2 /\ e[1] = NoData /\ e[2] = m
      BY <2>3 DEF Data
    <3>2. 2 \in 1..Len(e) /\ \A i \in 1..Len(e) : i = 1 \/ i = 2
      BY <3>1
    <3> QED BY <3>1, <3>2, NoDataAssumption
  <2> QED BY <2>1, <2>2, <2>3
<1>2. PICK k \in 1..Len(e) : \A i \in 1..Len(e) : e[i] = m <=> i = k
  BY <1>1
<1> HIDE DEF Data
<1>3. /\ cq' \in Seq(Data) /\ Len(cq') = Len(cq) + Len(e)
      /\ \A i \in 1..(Len(cq) + Len(e)) :
           cq'[i] = IF i <= Len(cq) THEN cq[i] ELSE e[i - Len(cq)]
  BY <1>1, ConcatProperties DEF RingTypeOK
<1>4. DOMAIN cq = 1..Len(cq) /\ DOMAIN cq' = 1..Len(cq') /\ Len(cq) \in Nat
  BY <1>3, LenProperties DEF RingTypeOK
<1>5. ASSUME NEW i \in 1..Len(cq)
      PROVE  i \in 1..Len(cq') /\ cq'[i] = cq[i]
  BY <1>1, <1>3, <1>4
<1>6. ASSUME NEW i \in 1..Len(cq'), i \notin 1..Len(cq)
      PROVE  /\ cq'[i] \in {m, NoData}
             /\ cq'[i] = m <=> i = Len(cq) + k
  <2>1. i - Len(cq) \in 1..Len(e) /\ ~(i <= Len(cq)) /\ i \in 1..(Len(cq) + Len(e))
    BY <1>1, <1>3, <1>4, <1>6
  <2>2. cq'[i] = e[i - Len(cq)]
    BY <1>3, <2>1
  <2>3. i - Len(cq) = k <=> i = Len(cq) + k
    BY <1>1, <1>4, <2>1
  <2> QED BY <1>1, <1>2, <2>1, <2>2, <2>3
<1>7. /\ Len(cq) + k \in 1..Len(cq') /\ Len(cq) + k \notin 1..Len(cq)
      /\ cq'[Len(cq) + k] = m
  <2>1. Len(cq) + k \in 1..Len(cq') /\ Len(cq) + k \notin 1..Len(cq)
    BY <1>1, <1>3, <1>4
  <2> QED BY <1>6, <2>1
<1>8. ToSet(cq') \ {NoData} = (ToSet(cq) \ {NoData}) \cup {m}
  <2>1. \A x \in ToSet(cq') : x \in ToSet(cq) \/ x \in {m, NoData}
    BY <1>4, <1>5, <1>6 DEF ToSet
  <2>2. \A x \in ToSet(cq) : x \in ToSet(cq')
    BY <1>4, <1>5 DEF ToSet
  <2>3. m \in ToSet(cq')
    BY <1>4, <1>7 DEF ToSet
  <2> QED BY <2>1, <2>2, <2>3, NoDataAssumption
<1>9. ASSUME AnsweredOnce, m \notin ToSet(cq),
             NEW i \in 1..Len(cq'), NEW j \in 1..Len(cq'),
             cq'[i] = cq'[j], cq'[i] # NoData
      PROVE  i = j
  <2>1. \A l \in 1..Len(cq) : cq[l] # m
    BY <1>4, <1>9 DEF ToSet
  <2>2. CASE i \in 1..Len(cq) /\ j \in 1..Len(cq)
    BY <1>5, <1>9, <2>2 DEF AnsweredOnce
  <2>3. CASE i \notin 1..Len(cq) \/ j \notin 1..Len(cq)
    BY <1>5, <1>6, <1>9, <2>1, <2>3
  <2> QED BY <2>2, <2>3
<1> QED BY <1>3, <1>8, <1>9

-----------------------------------------------------------------------------
(* The kernel has live tasks                                               *)

\* A ring that nothing was done to keeps its facts, if the loop does not go
\* where they say more, and no task is taken from it.
LEMMA KernelKept ==
  ASSUME Kernel, UNCHANGED <<ring, polled, count>>, tasks \subseteq tasks',
         pc' \in {"out", "dead"} => pc \in {"out", "dead"},
         pc' = "top" => pc \in {"out", "top"}
  PROVE  Kernel'
<1>1. Outstanding' = Outstanding
  BY DEF Outstanding, ring
<1> QED
  BY <1>1 DEF Kernel, AnsweredOnce, OneIo, AllCounted, Quiescent, ring

LEMMA OutstandingFinite ==
  ASSUME Lifecycle, RingTypeOK
  PROVE  /\ Outstanding \subseteq Msgs /\ IsFiniteSet(Outstanding)
         /\ Cardinality(Outstanding) \in Nat
         /\ IsFiniteSet(polled) /\ Cardinality(polled) \in Nat
<1>1. ToSet(cq) \subseteq Data
  BY LenProperties, ElementOfSeq DEF RingTypeOK, ToSet
<1>2. Outstanding \subseteq Msgs /\ polled \subseteq Msgs
  BY <1>1 DEF Outstanding, RingTypeOK, Data, Lifecycle, TypeOK
<1> QED BY <1>2, FS_Subset, FS_CardinalityType, MsgsAssumption

LEMMA KernelAnswersStep ==
  ASSUME UringInv, NEW m \in Msgs, KernelAnswers(m)
  PROVE  RingTypeOK' /\ Kernel'
<1>1. PICK e \in {<<m>>, <<m, NoData>>, <<NoData, m>>} : cq' = cq \o e
  BY DEF KernelAnswers
<1>2. /\ m \in inFlight /\ inFlight' = inFlight \ {m} /\ timed' = timed \ {m}
      /\ failed' = failed /\ UNCHANGED <<tasks, polled, count, pc>>
  BY DEF KernelAnswers, vars, socket
<1>3. /\ cq' \in Seq(Data)
      /\ ToSet(cq') \ {NoData} = (ToSet(cq) \ {NoData}) \cup {m}
      /\ AnsweredOnce /\ m \notin ToSet(cq) =>
           \A i, j \in 1..Len(cq') : cq'[i] = cq'[j] /\ cq'[i] # NoData => i = j
  BY <1>1, AnswerFacts DEF UringInv
<1>4. RingTypeOK'
  BY <1>2, <1>3 DEF UringInv, RingTypeOK
<1>5. Outstanding' = Outstanding
  BY <1>2, <1>3 DEF Outstanding
<1>6. ASSUME ~failed PROVE AnsweredOnce' /\ OneIo' /\ AllCounted' /\ Quiescent'
  <2>1. AnsweredOnce /\ OneIo /\ AllCounted /\ Quiescent
    BY <1>6 DEF UringInv, Kernel
  <2>2. m \notin ToSet(cq)
    BY <1>2, <2>1 DEF AnsweredOnce
  <2>3. inFlight' \cap ToSet(cq') = {}
    BY <1>2, <1>3, <2>1, NoDataAssumption DEF AnsweredOnce, UringInv, RingTypeOK
  <2>4. AnsweredOnce'
    BY <1>3, <2>1, <2>2, <2>3 DEF AnsweredOnce
  <2>5. OneIo' /\ AllCounted' /\ Quiescent'
    BY <1>2, <1>5, <2>1 DEF OneIo, AllCounted, Quiescent
  <2> QED BY <2>4, <2>5
<1> QED BY <1>2, <1>4, <1>6 DEF Kernel

LEMMA UringSpinStep ==
  ASSUME UringInv, UringSpin PROVE RingTypeOK' /\ Kernel'
<1>1. UNCHANGED <<inFlight, timed, failed, tasks, polled, count, pc>>
  BY DEF UringSpin, vars, socket
<1>2. CASE UNCHANGED cq
  <2>1. Outstanding' = Outstanding
    BY <1>1, <1>2 DEF Outstanding
  <2> QED
    BY <1>1, <1>2, <2>1
    DEF UringInv, RingTypeOK, Kernel, AnsweredOnce, OneIo, AllCounted, Quiescent
<1>3. CASE cq # <<>> /\ Head(cq) = NoData /\ cq' = Tail(cq)
  <2>1. cq' \in Seq(Data)
    BY <1>3, HeadTailProperties DEF UringInv, RingTypeOK
  <2>2. RingTypeOK'
    BY <1>1, <2>1 DEF UringInv, RingTypeOK
  <2>3. ASSUME ~failed PROVE AnsweredOnce' /\ OneIo' /\ AllCounted' /\ Quiescent'
    <3>1. AnsweredOnce /\ OneIo /\ AllCounted /\ Quiescent
      BY <2>3 DEF UringInv, Kernel
    <3>2. /\ ToSet(cq) = ToSet(cq') \cup {NoData}
          /\ \A i, j \in 1..Len(cq') : cq'[i] = cq'[j] /\ cq'[i] # NoData => i = j
      BY <1>3, <3>1, ReadFacts DEF UringInv
    <3>3. AnsweredOnce'
      BY <1>1, <3>1, <3>2 DEF AnsweredOnce
    <3>4. Outstanding' = Outstanding
      BY <1>1, <3>2 DEF Outstanding
    <3> QED BY <1>1, <3>1, <3>3, <3>4 DEF OneIo, AllCounted, Quiescent
  <2> QED BY <1>1, <2>2, <2>3 DEF Kernel
<1> QED BY <1>2, <1>3 DEF UringSpin

\* The answer of an I/O is read: its task is free of the kernel.
LEMMA UringCompleteStep ==
  ASSUME UringInv, NEW m \in Msgs,
         UringCompleteMore(m) \/ UringCompleteEnd(m) \/ UringCompleteThrow(m)
  PROVE  RingTypeOK' /\ Kernel'
<1>1. UringCompletion(m)
  BY DEF UringCompleteMore, UringCompleteEnd, UringCompleteThrow
<1>2. /\ cq # <<>> /\ Head(cq) = m /\ cq' = Tail(cq) /\ count' = count - 1
      /\ pc' = "emplace" /\ UNCHANGED <<inFlight, timed, failed>>
  BY <1>1 DEF UringCompletion
<1>3. RingTypeOK'
  BY <1>2, HeadTailProperties DEF UringInv, RingTypeOK
<1>4. ASSUME ~failed PROVE AnsweredOnce' /\ OneIo' /\ AllCounted' /\ Quiescent'
  <2>1. AnsweredOnce /\ OneIo /\ AllCounted /\ Quiescent
    BY <1>4 DEF UringInv, Kernel
  <2>2. m # NoData
    BY NoDataAssumption
  <2>3. /\ ToSet(cq) = ToSet(cq') \cup {m} /\ m \notin ToSet(cq')
        /\ \A i, j \in 1..Len(cq') : cq'[i] = cq'[j] /\ cq'[i] # NoData => i = j
    BY <1>2, <2>1, <2>2, ReadFacts DEF UringInv
  <2>4. AnsweredOnce'
    BY <1>2, <2>1, <2>3 DEF AnsweredOnce
  <2>5. m \in Outstanding /\ Outstanding' = Outstanding \ {m}
    BY <1>2, <2>1, <2>2, <2>3 DEF Outstanding, AnsweredOnce
  <2>6. Cardinality(Outstanding') = Cardinality(Outstanding) - 1
    BY <2>5, OutstandingFinite, FS_RemoveElement DEF UringInv
  <2>7. AllCounted'
    BY <1>2, <2>1, <2>6, OutstandingFinite DEF AllCounted, UringInv, Lifecycle, TypeOK
  <2>8. OneIo'
    <3>1. polled \subseteq tasks /\ Outstanding \subseteq tasks /\ polled \cap Outstanding = {}
      BY <2>1 DEF OneIo
    <3>2. CASE UringCompleteMore(m)
      BY <2>5, <3>1, <3>2 DEF UringCompleteMore, Continues, OneIo
    <3>3. CASE UringCompleteEnd(m)
      BY <2>5, <3>1, <3>3 DEF UringCompleteEnd, OneIo
    <3>4. CASE UringCompleteThrow(m)
      BY <2>5, <3>1, <3>4 DEF UringCompleteThrow, OneIo
    <3> QED BY <3>2, <3>3, <3>4
  <2> QED BY <1>2, <2>4, <2>7, <2>8 DEF Quiescent
<1> QED BY <1>2, <1>3, <1>4 DEF Kernel

LEMMA UringSubmitStep ==
  ASSUME UringInv, NEW T \in SUBSET polled, UringSubmit(T)
  PROVE  RingTypeOK' /\ Kernel'
<1>1. /\ inFlight' = inFlight \cup polled /\ timed' = timed \cup T /\ polled' = {}
      /\ count' = count + Cardinality(polled) + Cardinality(T)
      /\ pc' = "top" /\ UNCHANGED <<tasks, cq, failed>>
  BY DEF UringSubmit
<1>2. polled \subseteq Msgs
  BY DEF UringInv, Lifecycle, TypeOK
<1>3. RingTypeOK'
  BY <1>1, <1>2 DEF UringInv, RingTypeOK
<1>4. ASSUME ~failed PROVE AnsweredOnce' /\ OneIo' /\ AllCounted' /\ Quiescent'
  <2>1. AnsweredOnce /\ OneIo /\ AllCounted /\ Quiescent
    BY <1>4 DEF UringInv, Kernel
  <2>2. Outstanding' = Outstanding \cup polled
    BY <1>1 DEF Outstanding
  <2>3. AnsweredOnce'
    BY <1>1, <1>2, <2>1, NoDataAssumption DEF AnsweredOnce, OneIo, Outstanding
  <2>4. OneIo'
    BY <1>1, <2>1, <2>2 DEF OneIo
  <2>5. Cardinality(Outstanding') <= Cardinality(Outstanding) + Cardinality(polled)
    <3>1. IsFiniteSet(Outstanding) /\ IsFiniteSet(polled)
      BY OutstandingFinite DEF UringInv
    <3>2. Outstanding \cap polled = {}
      BY <2>1 DEF OneIo
    <3>3. Cardinality(Outstanding \cup polled)
            = Cardinality(Outstanding) + Cardinality(polled)
                - Cardinality(Outstanding \cap polled)
      BY <3>1, FS_Union
    <3>4. Cardinality(Outstanding \cap polled) = 0
      BY <3>2, FS_EmptySet
    <3>5. Cardinality(Outstanding) \in Nat /\ Cardinality(polled) \in Nat
      BY OutstandingFinite DEF UringInv
    <3> QED BY <2>2, <3>3, <3>4, <3>5
  <2>6. Cardinality(T) \in Nat
    BY <1>2, FS_Subset, FS_CardinalityType, MsgsAssumption
  <2>7. /\ Cardinality(Outstanding) \in Nat /\ Cardinality(polled) \in Nat
        /\ count \in Nat /\ Cardinality(Outstanding') \in Nat
    <3>1. IsFiniteSet(Outstanding')
      BY <2>2, OutstandingFinite, FS_Union DEF UringInv
    <3> QED BY <3>1, FS_CardinalityType, OutstandingFinite DEF UringInv, Lifecycle, TypeOK
  <2>8. AllCounted'
    BY <1>1, <2>1, <2>5, <2>6, <2>7 DEF AllCounted
  <2>9. Quiescent'
    BY <1>1 DEF Quiescent
  <2> QED BY <2>3, <2>4, <2>8, <2>9
<1> QED BY <1>1, <1>3, <1>4 DEF Kernel

\* A message that is taken from the queue is unknown to the kernel.
LEMMA UringStartStep ==
  ASSUME UringInv, UNCHANGED ring, NEW m \in Msgs,
         StartMore(m) \/ StartEnd(m) \/ StartThrow(m)
  PROVE  Kernel'
<1>1. Taken(m)
  BY DEF StartMore, StartEnd, StartThrow
<1>2. /\ pc = "filling" /\ count' = count /\ pc' \in {"submit", "filling"}
      /\ UNCHANGED <<cq, inFlight, failed>>
  BY <1>1 DEF Taken, StartMore, StartEnd, StartThrow, ring
<1>3. m \notin tasks
  <2>1. status[m] = "queued"
    BY <1>1, HeadFacts DEF Taken, UringInv, Lifecycle
  <2> QED BY <2>1 DEF UringInv, Lifecycle, TasksActive
<1>4. Outstanding' = Outstanding
  BY <1>2 DEF Outstanding
<1>5. ASSUME ~failed PROVE AnsweredOnce' /\ OneIo' /\ AllCounted' /\ Quiescent'
  <2>1. AnsweredOnce /\ OneIo /\ AllCounted
    BY <1>5 DEF UringInv, Kernel
  <2>2. ASSUME StartMore(m) PROVE OneIo'
    <3>1. tasks' = tasks \cup {m} /\ polled' = polled \cup {m}
      BY <2>2 DEF StartMore, Continues
    <3> QED BY <1>3, <1>4, <2>1, <3>1 DEF OneIo
  <2>3. ASSUME StartEnd(m) \/ StartThrow(m) PROVE OneIo'
    <3>1. tasks' = tasks /\ polled' = polled
      BY <2>3 DEF StartEnd, StartThrow
    <3> QED BY <1>4, <2>1, <3>1 DEF OneIo
  <2>4. AnsweredOnce' /\ AllCounted' /\ Quiescent'
    BY <1>2, <1>4, <2>1 DEF AnsweredOnce, AllCounted, Quiescent
  <2> QED BY <2>2, <2>3, <2>4
<1> QED BY <1>2, <1>5 DEF Kernel

\* An invocation ends, begins or is cleaned up after with nothing outstanding.
LEMMA UringBoundaryStep ==
  ASSUME UringInv, UNCHANGED ring, Leave \/ Enter \/ ResetReceiver
  PROVE  Kernel'
<1>1. /\ (pc = "top" /\ count = 0) \/ pc = "out"
      /\ pc' \in {"out", "dead", "top"} /\ count' \in {0, count}
      /\ tasks' \in {{}, tasks} /\ UNCHANGED <<polled, cq, inFlight, failed>>
      /\ pc = "top" => tasks' = tasks
  BY DEF Leave, Enter, ResetReceiver, socket, ring
<1>2. ASSUME ~failed PROVE AnsweredOnce' /\ OneIo' /\ AllCounted' /\ Quiescent'
  <2>1. AnsweredOnce /\ OneIo /\ AllCounted /\ Quiescent
    BY <1>2 DEF UringInv, Kernel
  <2>2. /\ IsFiniteSet(Outstanding) /\ Cardinality(Outstanding) \in Nat /\ count \in Nat
    BY OutstandingFinite DEF UringInv, Lifecycle, TypeOK
  <2>3. Outstanding = {}
    <3>1. CASE pc = "out"
      BY <2>1, <3>1 DEF Quiescent
    <3>2. CASE pc = "top" /\ count = 0
      <4>1. Cardinality(Outstanding) = 0
        BY <2>1, <2>2, <3>2 DEF AllCounted
      <4> QED BY <2>2, <4>1, FS_EmptySet
    <3> QED BY <1>1, <3>1, <3>2
  <2>4. Outstanding' = {} /\ polled' = {}
    BY <1>1, <2>1, <2>3 DEF Outstanding, Quiescent
  <2>5. count' \in Nat /\ Cardinality(Outstanding') = 0
    BY <1>1, <2>2, <2>4, FS_EmptySet
  <2> QED
    BY <1>1, <2>1, <2>4, <2>5 DEF AnsweredOnce, OneIo, AllCounted, Quiescent
<1> QED BY <1>1, <1>2 DEF Kernel

LEMMA UringStep == UringInv /\ [UringNext]_uringVars => UringInv'
<1> SUFFICES ASSUME UringInv, [UringNext]_uringVars PROVE RingTypeOK' /\ Kernel'
  BY UringLifecycleStep DEF UringInv
<1>1. ASSUME NEW m \in Msgs, KernelAnswers(m) PROVE RingTypeOK' /\ Kernel'
  BY <1>1, KernelAnswersStep
<1>2. CASE UringSpin
  BY <1>2, UringSpinStep
<1>3. ASSUME NEW m \in Msgs,
             UringCompleteMore(m) \/ UringCompleteEnd(m) \/ UringCompleteThrow(m)
      PROVE  RingTypeOK' /\ Kernel'
  BY <1>3, UringCompleteStep
<1>4. ASSUME NEW T \in SUBSET polled, UringSubmit(T) PROVE RingTypeOK' /\ Kernel'
  BY <1>4, UringSubmitStep
<1>5. CASE UringSubmitFails
  BY <1>5 DEF UringSubmitFails, UringInv, RingTypeOK, Kernel
<1>6. CASE Shared /\ UNCHANGED ring
  <2>1. RingTypeOK'
    BY <1>6 DEF ring, UringInv, RingTypeOK
  <2>2. CASE Leave \/ Enter \/ ResetReceiver
    BY <1>6, <2>1, <2>2, UringBoundaryStep
  <2>3. CASE NoCompletion \/ Emplace \/ QueueEmpty \/ Stop
    BY <1>6, <2>1, <2>3, KernelKept
    DEF NoCompletion, Emplace, QueueEmpty, Stop, socket, UringInv
  <2>4. ASSUME NEW m \in Msgs, StartMore(m) \/ StartEnd(m) \/ StartThrow(m)
        PROVE  Kernel'
    BY <1>6, <2>4, UringStartStep
  <2>5. ASSUME NEW m \in Msgs, Send(m) PROVE Kernel'
    BY <1>6, <2>5, KernelKept DEF Send, socket, UringInv
  <2> QED BY <1>6, <2>1, <2>2, <2>3, <2>4, <2>5 DEF Shared
<1>7. CASE UNCHANGED uringVars
  BY <1>7, KernelKept DEF uringVars, vars, socket, ring, UringInv, RingTypeOK
<1> QED
  BY <1>1, <1>2, <1>3, <1>4, <1>5, <1>6, <1>7 DEF UringNext, UringLoop, Shared

LEMMA UringStart == UringInit => UringInv
<1> SUFFICES ASSUME UringInit PROVE UringInv
  OBVIOUS
<1>1. Init /\ inFlight = {} /\ timed = {} /\ cq = <<>> /\ failed = FALSE
  BY DEF UringInit
<1>2. Lifecycle /\ polled = {} /\ count = 0
  BY <1>1, LifecycleInit DEF Init
<1>3. cq \in Seq(Data) /\ Len(cq) = 0
  BY <1>1, EmptySeq
<1>4. ToSet(cq) = {}
  BY <1>1 DEF ToSet
<1>5. Outstanding = {}
  BY <1>1, <1>4 DEF Outstanding
<1>6. AnsweredOnce
  BY <1>1, <1>3 DEF AnsweredOnce
<1>7. AllCounted
  BY <1>2, <1>5, FS_EmptySet DEF AllCounted
<1> QED
  BY <1>1, <1>2, <1>3, <1>5, <1>6, <1>7
  DEF UringInv, RingTypeOK, Kernel, OneIo, Quiescent

-----------------------------------------------------------------------------
(* Theorems                                                                *)

\* With io_uring too, finish() is called once for each message that ends and for
\* no other.
THEOREM UringMessagesFinishOnce == UringSpec => []FinishedOnce
<1>1. UringInv => FinishedOnce
  BY DEF UringInv, Lifecycle
<1> QED BY <1>1, UringStart, UringStep, PTL DEF UringSpec

\* Whatever the kernel has, and whatever answer is unread, is of a task that is
\* there, in every mode, across stops, exceptions, invocations and resets of the
\* receiver, unless io_uring_submit failed: the loop counts all it waits for.
THEOREM KernelOnlyHasLiveTasks == UringSpec => []KernelHasLiveTasks
<1>1. UringInv => KernelHasLiveTasks
  BY DEF UringInv, Kernel, OneIo, KernelHasLiveTasks
<1> QED BY <1>1, UringStart, UringStep, PTL DEF UringSpec
=============================================================================
