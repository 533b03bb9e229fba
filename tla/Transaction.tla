---------------------------- MODULE Transaction ----------------------------
(***************************************************************************)
(* cloud::Transaction and its multipart uploads.  One thread, the user,    *)
(* calls processSync once or processAsync again and again; the requests    *)
(* that it submits are answered by event loops, whose threads run the      *)
(* callbacks: of the Initiate request, of each part and of the final       *)
(* Complete or Abort request.  With processSync the only loop is the       *)
(* user's own thread, inside the call.                                     *)
(* A callback step is one access to the state that threads share.          *)
(***************************************************************************)
EXTENDS Integers, Sequences, FiniteSets

CONSTANTS
  N,            \* the most multipart uploads of a transaction, numbered from 1
  Parts,        \* parts of each
  Loops,        \* threads that run event loops
  Modes,        \* <<TRUE, n>> for a user that calls processSync for n uploads,
                \* <<FALSE, n>> for one that calls processAsync
  MaxRejects    \* bound: group.send of a full queue

ASSUME SizeAssumption == N \in Nat \ {0} /\ Parts \in Nat \ {0}
ASSUME ModeAssumption ==
  /\ Modes \subseteq BOOLEAN \X (1..N) /\ MaxRejects \in Nat

Uploads == 1..N
PartIds == 1..Parts
Initiate == 0
Final == Parts + 1
Messages == Uploads \X (0..Final)

VARIABLES
  sync,            \* whether the user calls processSync
  size,            \* multipartUploads_.size()
  state,           \* multipart.state
  outstanding,     \* multipart.outstanding
  errorMessageId,  \* multipart.errorMessageId + 1
  eTags,           \* the parts whose eTag is recorded
  final,           \* what multipart.messages[parts] is
  messageCounter,  \* messageCounter_: Initiate requests submitted
  completed,       \* completedMultiparts_
  user,            \* the user's thread: [pc, u, seen, batch, counter]
  loop,            \* each loop's thread: [pc, msg, ok]
  flight,          \* submissions of each message not answered yet
  sent,            \* submissions of each message so far
  failed,          \* messages answered without success
  results,         \* what the user's callback got, call by call
  rejects          \* sends rejected so far

uploadVars == <<state, outstanding, errorMessageId, eTags, final>>
vars == <<sync, size, uploadVars, messageCounter, completed, user, loop, flight, sent, failed,
          results, rejects>>

Idle == [pc |-> "idle", msg |-> <<1, Initiate>>, ok |-> TRUE]
Rest == [pc |-> "rest", u |-> 1, seen |-> "Default", batch |-> {}, counter |-> 0]

Init ==
  /\ \E mode \in Modes : sync = mode[1] /\ size = mode[2]
  /\ state = [u \in Uploads |-> "Default"]
  /\ outstanding = [u \in Uploads |-> Parts]
  /\ errorMessageId = [u \in Uploads |-> 1]
  /\ eTags = [u \in Uploads |-> {}]
  /\ final = [u \in Uploads |-> "none"]
  /\ messageCounter = 0 /\ completed = 0
  /\ user = Rest
  /\ loop = [l \in Loops |-> Idle]
  /\ flight = [m \in Messages |-> 0] /\ sent = [m \in Messages |-> 0]
  /\ failed = {}
  /\ results = [u \in Uploads |-> <<>>]
  /\ rejects = 0

SetState(u, s) == state' = [state EXCEPT ![u] = s]

-----------------------------------------------------------------------------
(* The user: processSync and processAsync                                  *)

UserUnchanged == UNCHANGED <<sync, size, outstanding, errorMessageId, eTags, final, completed, loop,
                             failed, results>>

\* The Initiate requests that are not submitted yet.
Begin ==
  /\ user.pc = "rest"
  /\ user' = [Rest EXCEPT !.pc = "gather", !.counter = messageCounter,
                !.batch = {<<u, Initiate>> : u \in (messageCounter + 1)..size}]
  /\ messageCounter' = size
  /\ UNCHANGED <<state, flight, sent, rejects>> /\ UserUnchanged

\* One upload after the other; its state is that of a request once submitted.
\* Mutant: the state after the final request is not set.
GatherKeepsValidating(u) ==
  /\ user.pc = "gather" /\ user.u = u
  /\ \/ /\ state[u] = "Sending"
        /\ user' = [user EXCEPT !.u = u + 1, !.batch = @ \cup {<<u, i>> : i \in PartIds}]
        /\ SetState(u, "Processing")
     \/ /\ state[u] = "Validating"
        /\ user' = [user EXCEPT !.u = u + 1, !.batch = @ \cup {<<u, Final>>}]
        /\ UNCHANGED state
     \/ /\ state[u] \notin {"Sending", "Validating"}
        /\ user' = [user EXCEPT !.u = u + 1]
        /\ UNCHANGED state
  /\ UNCHANGED <<messageCounter, flight, sent, rejects>> /\ UserUnchanged

Gather(u) ==
  /\ user.pc = "gather" /\ user.u = u
  /\ \/ /\ state[u] = "Sending"
        /\ user' = [user EXCEPT !.u = u + 1, !.batch = @ \cup {<<u, i>> : i \in PartIds}]
        /\ SetState(u, "Processing")
     \/ /\ state[u] = "Validating"
        /\ user' = [user EXCEPT !.u = u + 1, !.batch = @ \cup {<<u, Final>>}]
        /\ SetState(u, "Default")
     \/ /\ state[u] \notin {"Sending", "Validating"}
        /\ user' = [user EXCEPT !.u = u + 1]
        /\ UNCHANGED state
  /\ UNCHANGED <<messageCounter, flight, sent, rejects>> /\ UserUnchanged

\* processSync then runs the loop itself; processAsync returns.
Submit ==
  /\ user.pc = "gather" /\ user.u > size
  /\ flight' = [m \in Messages |-> IF m \in user.batch THEN flight[m] + 1 ELSE flight[m]]
  /\ sent' = [m \in Messages |-> IF m \in user.batch THEN sent[m] + 1 ELSE sent[m]]
  /\ user' = IF sync THEN [Rest EXCEPT !.pc = "run"] ELSE Rest
  /\ UNCHANGED <<state, messageCounter, rejects>> /\ UserUnchanged

\* The group's queue has no room for the batch: everything is put back.
Reject ==
  /\ ~sync
  /\ user.pc = "gather" /\ user.u > size
  /\ user.batch # {} /\ rejects < MaxRejects
  /\ rejects' = rejects + 1
  /\ messageCounter' = user.counter
  /\ user' = [Rest EXCEPT !.pc = "undo"]
  /\ UNCHANGED <<state, flight, sent>> /\ UserUnchanged

UndoRead(u) ==
  /\ user.pc = "undo" /\ user.u = u
  /\ user' = [user EXCEPT !.pc = "undo2", !.seen = state[u]]
  /\ UNCHANGED <<state, messageCounter, flight, sent, rejects>> /\ UserUnchanged

UndoWrite(u) ==
  /\ user.pc = "undo2" /\ user.u = u
  /\ state' = [state EXCEPT ![u] = CASE user.seen = "Processing" -> "Sending"
                                     [] user.seen = "Default" -> "Validating"
                                     [] OTHER -> @]
  /\ user' = IF u < size THEN [user EXCEPT !.pc = "undo", !.u = u + 1] ELSE Rest
  /\ UNCHANGED <<messageCounter, flight, sent, rejects>> /\ UserUnchanged

\* The loop returns to processSync, which goes on until every upload is done.
\* Mutant: it is content with one.
ReturnEarly ==
  /\ user.pc = "run"
  /\ \A l \in Loops : loop[l].pc = "idle"
  /\ user' = IF completed >= 1 THEN [Rest EXCEPT !.pc = "done"] ELSE Rest
  /\ UNCHANGED <<state, messageCounter, flight, sent, rejects>> /\ UserUnchanged

Return ==
  /\ user.pc = "run"
  /\ \A l \in Loops : loop[l].pc = "idle"
  /\ user' = IF completed = size THEN [Rest EXCEPT !.pc = "done"] ELSE Rest
  /\ UNCHANGED <<state, messageCounter, flight, sent, rejects>> /\ UserUnchanged

-----------------------------------------------------------------------------
(* The loops: answers and callbacks                                        *)

LoopUnchanged == UNCHANGED <<sync, size, messageCounter, user, sent, rejects>>

\* A message ended; ok is its result's success().  In processSync the user's thread
\* is the loop, and runs one callback at a time.  A message that was submitted
\* without being built is a null pointer: no loop survives it.
Answer(l, m, ok) ==
  /\ loop[l].pc = "idle" /\ flight[m] > 0
  /\ m[2] = Final => final[m[1]] # "none"
  /\ sync => user.pc = "run" /\ \A k \in Loops : loop[k].pc = "idle"
  /\ flight' = [flight EXCEPT ![m] = @ - 1]
  /\ loop' = [loop EXCEPT ![l] = [pc |-> CASE m[2] = Initiate -> "initiated"
                                           [] m[2] = Final -> "finished"
                                           [] OTHER -> "part",
                                  msg |-> m, ok |-> ok]]
  /\ failed' = IF ok THEN failed ELSE failed \cup {m}
  /\ UNCHANGED <<uploadVars, completed, results>> /\ LoopUnchanged

At(l, pc) == loop[l].pc = pc
Goto(l, pc) == loop' = [loop EXCEPT ![l].pc = pc]
Up(l) == loop[l].msg[1]

\* completedMultiparts_ and the user's callback.
Complete(u, result) ==
  /\ completed' = completed + 1
  /\ results' = [results EXCEPT ![u] = Append(@, result)]

\* uploadMessages: the parts are built, then the state says so.
Initiated(l) ==
  /\ At(l, "initiated")
  /\ IF loop[l].ok
     THEN SetState(Up(l), "Sending") /\ UNCHANGED <<completed, results>>
     ELSE Complete(Up(l), "failed") /\ UNCHANGED state
  /\ Goto(l, "idle")
  /\ UNCHANGED <<outstanding, errorMessageId, eTags, final, flight, failed>> /\ LoopUnchanged

\* finishMultipart, step by step: the eTag, or the error and then the state; ...
RecordETag(l) ==
  /\ At(l, "part") /\ loop[l].ok
  /\ eTags' = [eTags EXCEPT ![Up(l)] = @ \cup {loop[l].msg[2]}]
  /\ Goto(l, "count")
  /\ UNCHANGED <<state, outstanding, errorMessageId, final, completed, results, flight,
                 failed>>
  /\ LoopUnchanged

\* Mutant: the identifier of the part after.
RecordNextError(l) ==
  /\ At(l, "part") /\ ~loop[l].ok
  /\ errorMessageId' = [errorMessageId EXCEPT ![Up(l)] = loop[l].msg[2] + 1]
  /\ Goto(l, "abort")
  /\ UNCHANGED <<state, outstanding, eTags, final, completed, results, flight, failed>>
  /\ LoopUnchanged

RecordError(l) ==
  /\ At(l, "part") /\ ~loop[l].ok
  /\ errorMessageId' = [errorMessageId EXCEPT ![Up(l)] = loop[l].msg[2]]
  /\ Goto(l, "abort")
  /\ UNCHANGED <<state, outstanding, eTags, final, completed, results, flight, failed>>
  /\ LoopUnchanged

SetAborted(l) ==
  /\ At(l, "abort")
  /\ SetState(Up(l), "Aborted")
  /\ Goto(l, "count")
  /\ UNCHANGED <<outstanding, errorMessageId, eTags, final, completed, results, flight,
                 failed>>
  /\ LoopUnchanged

\* ... fetch_sub decides who is last; ...
\* Mutant: off by one.
CountDownTwice(l) ==
  /\ At(l, "count")
  /\ outstanding' = [outstanding EXCEPT ![Up(l)] = @ - 1]
  /\ Goto(l, IF outstanding[Up(l)] <= 2 THEN "last" ELSE "idle")
  /\ UNCHANGED <<state, errorMessageId, eTags, final, completed, results, flight, failed>>
  /\ LoopUnchanged

CountDown(l) ==
  /\ At(l, "count")
  /\ outstanding' = [outstanding EXCEPT ![Up(l)] = @ - 1]
  /\ Goto(l, IF outstanding[Up(l)] = 1 THEN "last" ELSE "idle")
  /\ UNCHANGED <<state, errorMessageId, eTags, final, completed, results, flight, failed>>
  /\ LoopUnchanged

\* ... the last one builds the final request; ...
BuildFinal(l) ==
  /\ At(l, "last")
  /\ final' = [final EXCEPT ![Up(l)] =
                 IF state[Up(l)] # "Aborted" THEN "complete" ELSE "abort"]
  /\ Goto(l, "announce")
  /\ UNCHANGED <<state, outstanding, errorMessageId, eTags, completed, results, flight,
                 failed>>
  /\ LoopUnchanged

\* ... and then says that it is there.
\* Mutant: the state says that the parts are still under way.
AnnounceNothing(l) ==
  /\ At(l, "announce")
  /\ SetState(Up(l), "Processing")
  /\ Goto(l, "idle")
  /\ UNCHANGED <<outstanding, errorMessageId, eTags, final, completed, results, flight,
                 failed>>
  /\ LoopUnchanged

Announce(l) ==
  /\ At(l, "announce")
  /\ SetState(Up(l), "Validating")
  /\ Goto(l, "idle")
  /\ UNCHANGED <<outstanding, errorMessageId, eTags, final, completed, results, flight,
                 failed>>
  /\ LoopUnchanged

\* The callback of the final request.
\* Mutant: the result of Complete is not looked at.
FinishedAnyway(l) ==
  /\ At(l, "finished")
  /\ Complete(Up(l), IF final[Up(l)] = "complete" THEN "finished" ELSE "cancelled")
  /\ Goto(l, "idle")
  /\ UNCHANGED <<uploadVars, flight, failed>> /\ LoopUnchanged

Finished(l) ==
  /\ At(l, "finished")
  /\ Complete(Up(l), IF final[Up(l)] = "complete" /\ loop[l].ok
                     THEN "finished" ELSE "cancelled")
  /\ Goto(l, "idle")
  /\ UNCHANGED <<uploadVars, flight, failed>> /\ LoopUnchanged

Call ==
  \/ Begin \/ Submit \/ Reject
  \/ \E u \in Uploads : Gather(u) \/ UndoRead(u) \/ UndoWrite(u)
User == Call \/ Return

Callback(l) ==
  \/ Initiated(l) \/ RecordETag(l) \/ RecordError(l) \/ SetAborted(l)
  \/ CountDown(l) \/ BuildFinal(l) \/ Announce(l) \/ Finished(l)

Answers(l, m) == \E ok \in BOOLEAN : Answer(l, m, ok)

Next ==
  \/ User
  \/ \E l \in Loops : Callback(l) \/ \E m \in Messages : Answers(l, m)

Spec == Init /\ [][Next]_vars

\* A call goes on, processAsync is called again, and callbacks run to their end.
\* Nothing is assumed of the loops: a request may never be answered (its answer is
\* lost with another one's, an exception drops it, its message ends with none), and
\* the loop may never return to processSync.
Fairness == WF_vars(Call) /\ \A l \in Loops : WF_vars(Callback(l))

FairSpec == Spec /\ Fairness

-----------------------------------------------------------------------------
(* Properties                                                              *)

States == {"Default", "Sending", "Processing", "Validating", "Aborted"}

TypeOK ==
  /\ state \in [Uploads -> States]
  /\ outstanding \in [Uploads -> 0..Parts]
  /\ errorMessageId \in [Uploads -> PartIds]
  /\ eTags \in [Uploads -> SUBSET PartIds]
  /\ final \in [Uploads -> {"none", "complete", "abort"}]
  /\ messageCounter \in 0..N /\ completed \in 0..N
  /\ user.pc \in {"rest", "gather", "undo", "undo2", "run", "done"}
  /\ user.u \in 1..(N + 1) /\ user.seen \in States
  /\ user.batch \subseteq Messages /\ user.counter \in 0..N
  /\ \A l \in Loops : loop[l].pc \in {"idle", "initiated", "part", "abort", "count",
                                      "last", "announce", "finished"}
  /\ flight \in [Messages -> Nat] /\ sent \in [Messages -> Nat]
  /\ failed \subseteq Messages
  /\ rejects \in 0..MaxRejects

\* A batch that a full queue rejects is rolled back while its uploads go on: what
\* follows does not hold any more once that has happened.
Undisturbed == rejects = 0

\* Complete is only ever asked for with the eTags of all parts, and an upload with
\* a failed part is aborted, whichever threads finish the parts in whatever order.
CompleteMeansAllParts ==
  Undisturbed => \A u \in Uploads :
    /\ final[u] = "complete" => eTags[u] = PartIds /\ failed \cap ({u} \X PartIds) = {}
    /\ final[u] = "abort" => failed \cap ({u} \X PartIds) # {}

\* The error that an aborted upload reports is the result of a part that failed,
\* also after a rejected batch.
AbortNamesFailedPart ==
  \A u \in Uploads : final[u] = "abort" => <<u, errorMessageId[u]>> \in failed

\* Validating means that the final request is there, and that all parts ended.
\* processSync says so: all parts transferred, the Complete message ready.
ValidatingIsReady ==
  \A u \in Uploads :
    state[u] = "Validating" => final[u] # "none" /\ outstanding[u] = 0 /\ results[u] = <<>>
ReadyUndisturbed == Undisturbed => ValidatingIsReady

\* No request of an upload is submitted twice, and none before it is built.
SubmittedOnce ==
  Undisturbed => /\ \A m \in Messages : sent[m] <= 1
                 /\ \A u \in Uploads : sent[<<u, Final>>] > 0 => final[u] # "none"

\* The user's callback is called once for an upload at most, and when processSync
\* is through it was called for each.
CallbackOnce ==
  Undisturbed => /\ \A u \in Uploads : Len(results[u]) <= 1
                 /\ user.pc = "done" => \A u \in 1..size : Len(results[u]) = 1

\* Success is reported only for an object that the service has put together.
SuccessIsReal ==
  Undisturbed => \A u \in Uploads : results[u] = <<"finished">> =>
    final[u] = "complete" /\ failed \cap ({u} \X (0..Final)) = {}

\* Until a send is rejected every step is one that the uploads promise, or none:
\* what was answered, what was decided and what the user was told say so.
U == INSTANCE Upload WITH
       answers <- [u \in Uploads |-> [i \in 0..Final |->
                     IF flight[<<u, i>>] = sent[<<u, i>>] THEN "none"
                     ELSE IF <<u, i>> \in failed THEN "failed" ELSE "ok"]],
       verdict <- final,
       reports <- results
ImplementsUpload == U!Init /\ [][Undisturbed' => U!Next]_(U!vars)

\* An upload is never forgotten between its steps: it gets its callback, unless the
\* loop fails it, which leaves one of its requests unanswered or never returns to
\* processSync (both happen: EventLoop!AcceptedIsEnded and UringLoop!AcceptedIsEnded
\* are violated), or a send was rejected, after which its request may be a null
\* pointer.
Unanswered(u) == \E i \in 0..Final : flight[<<u, i>>] > 0
UploadsEnd ==
  \A u \in Uploads :
    \/ <>(u > size \/ results[u] # <<>> \/ rejects > 0)
    \/ <>[]Unanswered(u)
    \/ <>[](user.pc = "run")

=============================================================================
