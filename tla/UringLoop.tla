------------------------------ MODULE UringLoop ------------------------------
(***************************************************************************)
(* TaskedSendReceiver::sendReceive over network::IOUringSocket, which      *)
(* ConnectionManager prefers to PollSocket where liburing was found.  The  *)
(* loop is that of EventLoop but for the socket: what execute() leaves     *)
(* with it is a submission entry for the I/O and, for all but large sends, *)
(* a second one for the timeout that is linked to it.  The kernel answers  *)
(* both.  Only the answer of the I/O has a request in its user_data.       *)
(*                                                                         *)
(* Of EventLoop, polled holds the requests prepared and not yet submitted, *)
(* and the answers of poll() are not used.                                 *)
(***************************************************************************)
EXTENDS EventLoop

VARIABLES
  inFlight,   \* messages whose I/O the kernel has
  timed,      \* those of them with a linked timeout
  cq,         \* the completion queue: user_data of each entry
  failed      \* whether io_uring_submit has failed

ring == <<inFlight, timed, cq, failed>>
uringVars == <<vars, ring>>

NoData == "no data"   \* the user_data of a timeout

ASSUME NoDataAssumption == NoData \notin Msgs

UringInit == Init /\ inFlight = {} /\ timed = {} /\ cq = <<>> /\ failed = FALSE

-----------------------------------------------------------------------------
(* The kernel                                                              *)

\* An I/O ends, or its timeout expires and cancels it: both are answered.
KernelAnswers(m) ==
  /\ m \in inFlight
  /\ inFlight' = inFlight \ {m} /\ timed' = timed \ {m}
  /\ \E entries2 \in (IF m \in timed THEN {<<m, NoData>>, <<NoData, m>>} ELSE {<<m>>}) :
       cq' = cq \o entries2
  /\ UNCHANGED <<vars, failed>>

-----------------------------------------------------------------------------
(* The loop                                                                *)

\* complete() waits a moment in vain, or reads the answer of a timeout: the
\* loop starts over, and neither counts it nor looks at the queue.
UringSpin ==
  /\ pc = "top" /\ count > 0
  /\ \/ cq = <<>> /\ UNCHANGED cq
     \/ cq # <<>> /\ Head(cq) = NoData /\ cq' = Tail(cq)
  /\ UNCHANGED <<vars, inFlight, timed, failed>>

UringCompletion(m) ==
  /\ pc = "top" /\ count > 0 /\ cq # <<>> /\ Head(cq) = m
  /\ cq' = Tail(cq)
  /\ count' = count - 1
  /\ pc' = "emplace"
  /\ UNCHANGED <<queue, ready, readyFds, stop, entries, asked, inFlight, timed,
                 failed>>

UringCompleteMore(m) ==
  /\ UringCompletion(m)
  /\ Continues(m)
  /\ UNCHANGED <<status, tasks, exception, finishes>>

UringCompleteEnd(m) ==
  /\ UringCompletion(m)
  /\ m \in tasks
  /\ finishes' = [finishes EXCEPT ![m] = @ + 1]
  /\ Become(m, "ended")
  /\ tasks' = tasks \ {m}
  /\ UNCHANGED <<polled, exception, ios>>

UringCompleteThrow(m) ==
  /\ MayThrow
  /\ UringCompletion(m)
  /\ exception' = TRUE
  /\ UNCHANGED <<status, tasks, polled, ios, finishes>>

\* submit() answers with the number of entries, timeouts included: T are the
\* messages that have one.
\* Mutant: a submission counts as one.
UringSubmitOnce(T) ==
  /\ pc = "submit"
  /\ inFlight' = inFlight \cup polled /\ timed' = timed \cup T /\ polled' = {}
  /\ count' = count + (IF polled = {} THEN 0 ELSE 1)
  /\ stop' = (stop \/ (OneShot /\ (queue = <<>> \/ exception) /\ count' = 0))
  /\ pc' = "top"
  /\ UNCHANGED <<queue, status, tasks, ready, readyFds, exception, ios, finishes, entries,
                 asked, cq, failed>>
UringSubmit(T) ==
  /\ pc = "submit"
  /\ inFlight' = inFlight \cup polled /\ timed' = timed \cup T /\ polled' = {}
  /\ count' = count + Cardinality(polled) + Cardinality(T)
  /\ stop' = (stop \/ (OneShot /\ (queue = <<>> \/ exception) /\ count' = 0))
  /\ pc' = "top"
  /\ UNCHANGED <<queue, status, tasks, ready, readyFds, exception, ios, finishes, entries,
                 asked, cq, failed>>

\* Thrown out of the loop.
UringSubmitFails ==
  /\ pc = "submit" /\ MayThrow
  /\ pc' = "out" /\ failed' = TRUE
  /\ UNCHANGED <<queue, status, tasks, socket, count, stop, exception, ios, finishes,
                 entries, asked, inFlight, timed, cq>>

UringLoop ==
  \/ UringSpin
  \/ \E m \in Msgs : UringCompleteMore(m) \/ UringCompleteEnd(m) \/ UringCompleteThrow(m)
  \/ \E T \in SUBSET polled : UringSubmit(T)
  \/ UringSubmitFails
  \/ /\ Leave \/ NoCompletion \/ Emplace \/ QueueEmpty
          \/ \E m \in Msgs : StartMore(m) \/ StartEnd(m) \/ StartThrow(m)
     /\ UNCHANGED ring

UringNext ==
  \/ UringLoop
  \/ \E m \in Msgs : KernelAnswers(m)
  \/ /\ (\E m \in Msgs : Send(m)) \/ Stop \/ Enter \/ ResetReceiver
     /\ UNCHANGED ring

UringSpec == UringInit /\ [][UringNext]_uringVars

\* The loop runs, its owner enters it, and the kernel answers: a timeout is
\* linked to an I/O, or TCP gives the connection up.
UringFairness ==
  /\ WF_uringVars(UringLoop) /\ WF_uringVars(Enter /\ UNCHANGED ring)
  /\ \A m \in Msgs : WF_uringVars(KernelAnswers(m))

UringFairSpec == UringSpec /\ UringFairness

-----------------------------------------------------------------------------
(* Properties                                                              *)

\* The kernel writes into requests and buffers of tasks: whatever it has, and
\* whatever answer is unread, is of a task that is there, across the end of an
\* invocation and the reset of the receiver; unless a submission failed.
Outstanding == inFlight \cup (ToSet(cq) \ {NoData})
KernelHasLiveTasks == failed \/ Outstanding \subseteq tasks

\* What was taken up ends, in spite of answers without a request; again for messages
\* whose own machine ends after finitely many I/Os (HttpMessage!Terminates).
TakenIsEnded ==
  \A m \in Msgs : status[m] = "active" ~> status[m] = "ended" \/ exception \/ failed

\* The header: without a single invocation the loop runs until stop().  Here
\* sockets are never given up, so a stop that the loop sees should end it.
UringStopEndsLoop == stop /\ pc # "out" ~> pc \in {"out", "dead"}

=============================================================================
