----------------------------- MODULE EventLoop -----------------------------
(***************************************************************************)
(* TaskedSendReceiver::sendReceive, the loop of one receiver, over         *)
(* network::PollSocket.  Clients put messages in the queue; the loop makes *)
(* a task of each and advances it by one execute() per completed I/O.      *)
(* What execute() does inside is HttpMessage; here it either leaves one    *)
(* more I/O with the socket, ends the message, or throws.  A message has   *)
(* one connection and one I/O, so it stands for its descriptor as well.    *)
(***************************************************************************)
EXTENDS Integers, Sequences, FiniteSets, SequencesExt

CONSTANTS
  Msgs,        \* messages
  Concurrent,  \* _concurrentRequests
  OneShot,     \* oneQueueInvocation
  Local,       \* local: the receiver's own queue, filled by its own thread
  MayThrow,    \* whether execute() and poll() may fail with an exception
  MayStop,     \* whether a client calls stop()
  MaySlow,     \* whether poll() may end with nothing ready and nothing expired
  MaxIo,       \* bound: I/Os of a message
  MaxEntries   \* bound: calls of sendReceive

ASSUME MsgsAssumption == IsFiniteSet(Msgs)
ASSUME ConcurrentAssumption == Concurrent \in Nat \ {0}
ASSUME BoundAssumption == MaxIo \in Nat \ {0} /\ MaxEntries \in Nat
ASSUME ModeAssumption ==
  {OneShot, Local, MayThrow, MayStop, MaySlow} \subseteq BOOLEAN

VARIABLES
  pc,          \* where the loop's thread is
  queue,       \* submissions not taken yet
  status,      \* what has become of each message
  tasks,       \* messages with a task in _messageTasks
  polled,      \* messages whose request is in fdToRequest
  ready,       \* completed requests of the last poll
  readyFds,    \* how many of them complete() has given out
  count,       \* completions the loop believes to be unread
  stop,        \* _stopDeamon
  exception,   \* firstException is set
  ios,         \* I/Os each message has had
  finishes,    \* calls of finish() for each message
  entries,     \* calls of sendReceive so far
  asked        \* stop() was called

socket == <<polled, ready, readyFds>>
vars == <<pc, queue, status, tasks, socket, count, stop, exception, ios, finishes,
          entries, asked>>

Init ==
  /\ pc = "out"
  /\ queue = <<>> /\ status = [m \in Msgs |-> "new"] /\ tasks = {}
  /\ polled = {} /\ ready = <<>> /\ readyFds = 0
  /\ count = 0 /\ stop = FALSE /\ exception = FALSE
  /\ ios = [m \in Msgs |-> 0] /\ finishes = [m \in Msgs |-> 0]
  /\ entries = 0 /\ asked = FALSE

Become(m, s) == status' = [status EXCEPT ![m] = s]

-----------------------------------------------------------------------------
(* The clients                                                             *)

\* The receiver's own queue is filled while its thread is not in the loop.
Send(m) ==
  /\ status[m] = "new"
  /\ Local => pc = "out"
  /\ queue' = Append(queue, m)
  /\ Become(m, "queued")
  /\ UNCHANGED <<pc, tasks, socket, count, stop, exception, ios, finishes, entries, asked>>

Stop ==
  /\ MayStop /\ ~asked
  /\ asked' = TRUE /\ stop' = TRUE
  /\ UNCHANGED <<pc, queue, status, tasks, socket, count, exception, ios, finishes, entries>>

\* The owner of the receiver calls sendReceive; a stop() before that is undone.
Enter ==
  /\ pc = "out" /\ entries < MaxEntries
  /\ entries' = entries + 1
  /\ pc' = "top"
  /\ stop' = FALSE /\ exception' = FALSE /\ count' = 0
  /\ UNCHANGED <<queue, status, tasks, socket, ios, finishes, asked>>

\* The handle is destroyed and the receiver cached for the next one.
ResetReceiver ==
  /\ pc = "out" /\ entries > 0
  /\ queue' = IF Local THEN <<>> ELSE queue
  /\ tasks' = {}
  /\ status' = [m \in Msgs |->
       IF m \in tasks \/ (Local /\ status[m] = "queued") THEN "dropped" ELSE status[m]]
  /\ stop' = FALSE
  /\ UNCHANGED <<pc, socket, count, exception, ios, finishes, entries, asked>>

-----------------------------------------------------------------------------
(* The loop: its head and one completion                                   *)

\* With an exception the connection manager is destroyed: nobody enters again.
Leave ==
  /\ pc = "top" /\ stop /\ count = 0
  /\ pc' = IF exception THEN "dead" ELSE "out"
  /\ stop' = IF OneShot THEN FALSE ELSE stop
  /\ UNCHANGED <<queue, status, tasks, socket, count, exception, ios, finishes, entries, asked>>

\* Mutant: the loop's condition does not look at the stop flag.
NoCompletionAnyway ==
  /\ pc = "top" /\ count = 0
  /\ pc' = "emplace"
  /\ UNCHANGED <<queue, status, tasks, socket, count, stop, exception, ios, finishes,
                 entries, asked>>

NoCompletion ==
  /\ pc = "top" /\ count = 0 /\ ~stop
  /\ pc' = "emplace"
  /\ UNCHANGED <<queue, status, tasks, socket, count, stop, exception, ios, finishes,
                 entries, asked>>

\* complete() has nothing: back to the head, past the submission.
Spin ==
  /\ pc = "top" /\ count > 0 /\ readyFds >= Len(ready)
  /\ UNCHANGED vars

Completion(m) ==
  /\ pc = "top" /\ count > 0 /\ readyFds < Len(ready)
  /\ m = ready[readyFds + 1]
  /\ readyFds' = readyFds + 1
  /\ count' = count - 1
  /\ pc' = "emplace"
  /\ UNCHANGED <<queue, ready, stop, entries, asked>>

Continues(m) ==
  /\ ios[m] < MaxIo
  /\ ios' = [ios EXCEPT ![m] = @ + 1]
  /\ polled' = polled \cup {m}

CompleteMore(m) ==
  /\ Completion(m)
  /\ Continues(m)
  /\ UNCHANGED <<status, tasks, exception, finishes>>

\* finish() is for the task that is found in _messageTasks.
CompleteEnd(m) ==
  /\ Completion(m)
  /\ IF m \in tasks
     THEN /\ finishes' = [finishes EXCEPT ![m] = @ + 1]
          /\ Become(m, "ended")
          /\ tasks' = tasks \ {m}
     ELSE UNCHANGED <<finishes, status, tasks>>
  /\ UNCHANGED <<polled, exception, ios>>

\* The task stays, with no I/O.
CompleteThrow(m) ==
  /\ MayThrow
  /\ Completion(m)
  /\ exception' = TRUE
  /\ UNCHANGED <<status, tasks, polled, ios, finishes>>

-----------------------------------------------------------------------------
(* emplaceNewRequest and emplaceLocalRequest                               *)

Emplace ==
  /\ pc = "emplace"
  /\ pc' = IF ~stop /\ Cardinality(tasks) < Concurrent /\ ~exception
           THEN "filling" ELSE "submit"
  /\ UNCHANGED <<queue, status, tasks, socket, count, stop, exception, ios, finishes,
                 entries, asked>>

QueueEmpty ==
  /\ pc = "filling" /\ queue = <<>>
  /\ pc' = "submit"
  /\ UNCHANGED <<queue, status, tasks, socket, count, stop, exception, ios, finishes,
                 entries, asked>>

Taken(m) ==
  /\ pc = "filling" /\ queue # <<>> /\ m = Head(queue)
  /\ queue' = Tail(queue)
  /\ UNCHANGED <<ready, readyFds, count, stop, entries, asked>>

StartMore(m) ==
  /\ Taken(m)
  /\ Continues(m)
  /\ tasks' = tasks \cup {m}
  /\ Become(m, "active")
  /\ pc' = IF Cardinality(tasks') >= Concurrent THEN "submit" ELSE "filling"
  /\ UNCHANGED <<exception, finishes>>

\* No connection could be had: it ends at once and never becomes a task.
\* Mutant: finish() is only called for tasks.
StartEndSilently(m) ==
  /\ Taken(m)
  /\ Become(m, "ended")
  /\ UNCHANGED <<pc, tasks, polled, exception, ios, finishes>>

StartEnd(m) ==
  /\ Taken(m)
  /\ finishes' = [finishes EXCEPT ![m] = @ + 1]
  /\ Become(m, "ended")
  /\ UNCHANGED <<pc, tasks, polled, exception, ios>>

\* The task is destroyed with the stack; the message is never finished.
StartThrow(m) ==
  /\ MayThrow
  /\ Taken(m)
  /\ exception' = TRUE
  /\ Become(m, "dropped")
  /\ pc' = "submit"
  /\ UNCHANGED <<tasks, polled, ios, finishes>>

-----------------------------------------------------------------------------
(* PollSocket::submit, and the test that ends a single invocation          *)

\* What poll() found ready or expired is answered, in some order; answers of the
\* poll before that are not read yet are gone.  Without descriptors nothing is
\* touched.
\* Mutant: what was answered stays registered.
PollKeepsRequests(H, order) ==
  /\ polled # {}
  /\ H # {} \/ MaySlow
  /\ ready' = order /\ readyFds' = 0
  /\ UNCHANGED polled

PollAnswers(H, order) ==
  /\ polled # {}
  /\ H # {} \/ MaySlow
  /\ ready' = order /\ readyFds' = 0
  /\ polled' = polled \ H

PollNothing(H) == polled = {} /\ H = {} /\ UNCHANGED socket

\* A single invocation ends when nothing is queued and nothing is ready.
\* Mutant: the answers are not counted.
SubmitUncounted(H) ==
  /\ pc = "submit"
  /\ PollNothing(H) \/ \E order \in SetToSeqs(H) : PollAnswers(H, order)
  /\ stop' = (stop \/ (OneShot /\ (queue = <<>> \/ exception) /\ count = 0))
  /\ pc' = "top"
  /\ UNCHANGED <<queue, status, tasks, count, exception, ios, finishes, entries, asked>>

Submit(H) ==
  /\ pc = "submit"
  /\ PollNothing(H) \/ \E order \in SetToSeqs(H) : PollAnswers(H, order)
  /\ count' = count + Cardinality(H)
  /\ stop' = (stop \/ (OneShot /\ (queue = <<>> \/ exception) /\ count' = 0))
  /\ pc' = "top"
  /\ UNCHANGED <<queue, status, tasks, exception, ios, finishes, entries, asked>>

\* poll() failed: submit's error is thrown through the loop.
SubmitFails ==
  /\ pc = "submit" /\ MayThrow /\ polled # {}
  /\ pc' = "out"
  /\ UNCHANGED <<queue, status, tasks, socket, count, stop, exception, ios, finishes,
                 entries, asked>>

Loop ==
  \/ Leave \/ NoCompletion \/ Spin
  \/ \E m \in Msgs : CompleteMore(m) \/ CompleteEnd(m) \/ CompleteThrow(m)
  \/ Emplace \/ QueueEmpty
  \/ \E m \in Msgs : StartMore(m) \/ StartEnd(m) \/ StartThrow(m)
  \/ \E H \in SUBSET polled : Submit(H)
  \/ SubmitFails

Next ==
  \/ \E m \in Msgs : Send(m)
  \/ Stop \/ Enter \/ ResetReceiver
  \/ Loop

Spec == Init /\ [][Next]_vars

Answered(m) == \E H \in SUBSET polled : m \in H /\ Submit(H)

\* The loop's thread runs, its owner enters it, and every request with the
\* socket is answered, for it has a timeout, if submit is called again and again.
Fairness ==
  /\ WF_vars(Loop) /\ WF_vars(Enter)
  /\ \A m \in Msgs : SF_vars(Answered(m))

FairSpec == Spec /\ Fairness

-----------------------------------------------------------------------------
(* Properties                                                              *)

Unread == {ready[i] : i \in (readyFds + 1)..Len(ready)}

TypeOK ==
  /\ pc \in {"out", "top", "emplace", "filling", "submit", "dead"}
  /\ queue \in Seq(Msgs)
  /\ status \in [Msgs -> {"new", "queued", "active", "ended", "dropped"}]
  /\ tasks \subseteq Msgs /\ polled \subseteq Msgs
  /\ ready \in Seq(Msgs) /\ readyFds \in 0..Len(ready)
  /\ count \in Nat
  /\ stop \in BOOLEAN /\ exception \in BOOLEAN /\ asked \in BOOLEAN
  /\ ios \in [Msgs -> 0..MaxIo] /\ finishes \in [Msgs -> Nat]
  /\ entries \in 0..MaxEntries

\* finish() is called once for a message that has ended, whether it ended when it
\* was taken or as a task, and never for one that has not.
FinishedOnce ==
  \A m \in Msgs : finishes[m] = IF status[m] = "ended" THEN 1 ELSE 0

\* A completion that will be read belongs to a task that exists and has no other
\* request with the socket: userData is never stale inside one invocation.
CompletionsHaveTasks ==
  pc \notin {"out", "dead"} => Unread \subseteq tasks /\ polled \subseteq tasks
                                /\ Unread \cap polled = {}

\* Everything that was accepted is answered in the end, unless the loop is stopped.
AcceptedIsEnded ==
  \A m \in Msgs : status[m] = "queued" ~> status[m] = "ended" \/ asked

\* The loop waits for answers that a later poll has thrown away.
AnswersAreLost == count > Len(ready) - readyFds

\* A running loop ends what it has accepted, unless it is stopped, an exception
\* ends it, or an answer is lost; for messages whose own machine ends after finitely
\* many I/Os (MaxIo), which is HttpMessage!Terminates with its exceptions.
EndsUnlessLost ==
  \A m \in Msgs : status[m] = "queued" /\ pc \notin {"out", "dead"}
                  ~> \/ status[m] = "ended" \/ AnswersAreLost
                     \/ asked \/ exception \/ pc = "out"

\* A loop that is told to stop while it runs reads what is answered and ends,
\* whatever is still queued or with the socket, unless an answer is lost.
StopEndsLoop ==
  stop /\ pc # "out" ~> pc \in {"out", "dead"} \/ AnswersAreLost

\* The header: a single invocation ends when the queue is empty and no I/O is
\* outstanding.
ReturnsWhenDone ==
  pc = "out" /\ entries > 0 => tasks = {} /\ polled = {}

\* The header: stop() makes the loop end.
StopIsHeeded == asked /\ pc # "out" ~> pc \in {"out", "dead"}

\* The header on reset: the receiver is ready for reuse.
ReusedIsClean ==
  pc \notin {"out", "dead"} => polled \subseteq tasks

=============================================================================
