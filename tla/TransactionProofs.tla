------------------------- MODULE TransactionProofs -------------------------
(***************************************************************************)
(* Proofs about Transaction, for any number of uploads, of parts, of loops *)
(* and of rejected sends.                                                  *)
(***************************************************************************)
EXTENDS Transaction, FiniteSetTheorems, SequenceTheorems, TLAPS

-----------------------------------------------------------------------------
(* What always holds, also when sends were rejected                        *)

UserPcs == {"rest", "gather", "undo", "undo2", "run", "done"}
LoopPcs == {"idle", "initiated", "part", "abort", "count", "last", "announce", "finished"}
Reports == {"failed", "finished", "cancelled"}

Held(l) == loop[l].pc # "idle"

UserType == [pc : UserPcs, u : 1..(N + 1), seen : States, batch : SUBSET Messages,
             counter : 0..N]
LoopType == [pc : LoopPcs, msg : Messages, ok : BOOLEAN]

Types ==
  /\ sync \in BOOLEAN /\ size \in Uploads
  /\ state \in [Uploads -> States]
  /\ outstanding \in [Uploads -> Int]
  /\ errorMessageId \in [Uploads -> PartIds]
  /\ eTags \in [Uploads -> SUBSET PartIds]
  /\ final \in [Uploads -> {"none", "complete", "abort"}]
  /\ messageCounter \in 0..N /\ completed \in Nat
  /\ user \in UserType
  /\ loop \in [Loops -> LoopType]
  /\ flight \in [Messages -> Nat] /\ sent \in [Messages -> Nat]
  /\ failed \subseteq Messages
  /\ results \in [Uploads -> Seq(Reports)]
  /\ rejects \in 0..MaxRejects

\* Which callback a loop runs is that of its message, and of its result.
Kinds ==
  \A l \in Loops : Held(l) =>
    /\ loop[l].pc = "initiated" <=> loop[l].msg[2] = Initiate
    /\ loop[l].pc = "finished" <=> loop[l].msg[2] = Final
    /\ loop[l].pc = "abort" => ~loop[l].ok

\* An error that is recorded is that of a part that failed.
Errors ==
  /\ \A l \in Loops : Held(l) /\ ~loop[l].ok => loop[l].msg \in failed
  /\ \A l \in Loops : loop[l].pc = "abort" => <<Up(l), errorMessageId[Up(l)]>> \in failed
  /\ \A u \in Uploads : state[u] = "Aborted" \/ final[u] = "abort"
                          => <<u, errorMessageId[u]>> \in failed

EInv == Types /\ Kinds /\ Errors

-----------------------------------------------------------------------------
(* What holds as long as no send was rejected                              *)

\* A request is in the user's batch, or was submitted.
Taken(m) == m \in user.batch \/ sent[m] = 1

\* It is answered, and its callback is through.
Over(m) ==
  sent[m] = 1 /\ flight[m] = 0 /\ \A l \in Loops : loop[l].msg = m => ~Held(l)

\* A part that outstanding does not count any more.
Counted(u, i) ==
  /\ sent[<<u, i>>] = 1 /\ flight[<<u, i>>] = 0
  /\ \A l \in Loops : loop[l].msg = <<u, i>> => loop[l].pc \notin {"part", "abort", "count"}
Uncounted(u) == {i \in PartIds : ~Counted(u, i)}

\* A part that failed, and whose state does not say so yet.
Unrecorded(u, i) == \E l \in Loops : loop[l].pc \in {"part", "abort"} /\ loop[l].msg = <<u, i>>

Closing(l, u) == loop[l].pc \in {"last", "announce"} /\ Up(l) = u
Unclosed(u) == \A l \in Loops : ~Closing(l, u)

\* The user's thread.  All Initiate requests are gathered by the first call.
Gathering ==
  /\ user.pc \notin {"undo", "undo2"}
  /\ user.pc # "gather" => user.batch = {}
  /\ messageCounter <= size
  /\ user.pc = "gather" => messageCounter = size
  /\ \A u \in Uploads : Taken(<<u, Initiate>>) <=> u <= messageCounter

\* A message is unsent, in flight, with one loop, or through.
Single ==
  /\ \A m \in Messages :
       /\ sent[m] <= 1 /\ flight[m] <= sent[m]
       /\ m \in user.batch => sent[m] = 0
       /\ m \in failed => sent[m] = 1 /\ flight[m] = 0
  /\ \A l \in Loops : Held(l) =>
       /\ sent[loop[l].msg] = 1 /\ flight[loop[l].msg] = 0
       /\ loop[l].ok => loop[l].msg \notin failed
       /\ loop[l].pc = "count" /\ loop[l].ok => loop[l].msg[2] \in eTags[Up(l)]
  /\ \A l, k \in Loops : Held(l) /\ Held(k) /\ loop[l].msg = loop[k].msg => l = k
  /\ \A l, k \in Loops : \A u \in Uploads : Closing(l, u) /\ Closing(k, u) => l = k

NoneTaken(u) == \A i \in 1..Final : ~Taken(<<u, i>>)
PartsTaken(u) == \A i \in PartIds : Taken(<<u, i>>)
Accepted(u) == Over(<<u, Initiate>>) /\ <<u, Initiate>> \notin failed

\* The stages of an upload.
Starting(u) ==
  /\ NoneTaken(u) /\ Unclosed(u) /\ ~Over(<<u, Initiate>>)
  /\ state[u] = "Default" /\ final[u] = "none" /\ results[u] = <<>>
Refused(u) ==
  /\ NoneTaken(u) /\ Unclosed(u) /\ Over(<<u, Initiate>>) /\ <<u, Initiate>> \in failed
  /\ state[u] = "Default" /\ final[u] = "none" /\ results[u] = <<"failed">>
Built(u) ==
  /\ NoneTaken(u) /\ Unclosed(u) /\ Accepted(u)
  /\ state[u] = "Sending" /\ final[u] = "none" /\ results[u] = <<>>
Transferring(u) ==
  /\ PartsTaken(u) /\ Accepted(u) /\ ~Taken(<<u, Final>>) /\ Unclosed(u)
  /\ state[u] \in {"Processing", "Aborted"} /\ outstanding[u] > 0
  /\ final[u] = "none" /\ results[u] = <<>>
Deciding(u) ==
  /\ PartsTaken(u) /\ Accepted(u) /\ ~Taken(<<u, Final>>)
  /\ state[u] \in {"Processing", "Aborted"} /\ outstanding[u] = 0 /\ results[u] = <<>>
  /\ \E l \in Loops : Closing(l, u) /\
       final[u] = IF loop[l].pc = "last" THEN "none"
                  ELSE IF state[u] # "Aborted" THEN "complete" ELSE "abort"
Decided(u) ==
  PartsTaken(u) /\ Accepted(u) /\ Unclosed(u) /\ outstanding[u] = 0 /\ final[u] # "none"
Ready(u) ==
  Decided(u) /\ ~Taken(<<u, Final>>) /\ state[u] = "Validating" /\ results[u] = <<>>
Finishing(u) ==
  /\ Decided(u) /\ Taken(<<u, Final>>) /\ ~Over(<<u, Final>>)
  /\ state[u] = "Default" /\ results[u] = <<>>
Reported(u) ==
  /\ Decided(u) /\ Over(<<u, Final>>) /\ state[u] = "Default"
  /\ results[u] = IF final[u] = "complete" /\ <<u, Final>> \notin failed
                  THEN <<"finished">> ELSE <<"cancelled">>

Stage(u) ==
  \/ Starting(u) \/ Refused(u) \/ Built(u) \/ Transferring(u)
  \/ Deciding(u) \/ Ready(u) \/ Finishing(u) \/ Reported(u)

\* What is recorded of the parts.
PartsRecorded(u) ==
  /\ outstanding[u] = Cardinality(Uncounted(u))
  /\ \A i \in PartIds : Counted(u, i) /\ <<u, i>> \notin failed => i \in eTags[u]
  /\ \A i \in PartIds : <<u, i>> \in failed =>
       state[u] = "Aborted" \/ final[u] = "abort" \/ Unrecorded(u, i)

\* completedMultiparts_ is the number of uploads reported.
AllReported ==
  /\ completed = Cardinality({u \in Uploads : results[u] # <<>>})
  /\ user.pc = "done" => \A u \in 1..size : results[u] # <<>>

UInv ==
  /\ Gathering /\ Single /\ AllReported
  /\ \A u \in Uploads : Stage(u) /\ PartsRecorded(u)

TxnInv == Undisturbed => UInv
IInv == EInv /\ TxnInv

-----------------------------------------------------------------------------
(* Constants, messages and loops                                           *)

LEMMA Sizes ==
  /\ N \in Nat \ {0} /\ Parts \in Nat \ {0} /\ MaxRejects \in Nat
  /\ Initiate = 0 /\ Final = Parts + 1 /\ Initiate \notin PartIds /\ Final \notin PartIds
  /\ 0..Final = {Initiate} \cup PartIds \cup {Final}
  /\ 1..Final = PartIds \cup {Final}
BY SizeAssumption, ModeAssumption DEF Initiate, Final, PartIds

LEMMA MessageFacts ==
  /\ \A m \in Messages : m[1] \in Uploads /\ m[2] \in 0..Final /\ m = <<m[1], m[2]>>
  /\ \A u \in Uploads, i \in 0..Final : <<u, i>> \in Messages
  /\ \A u \in Uploads, i \in PartIds : <<u, i>> \in Messages
  /\ \A u \in Uploads : <<u, Initiate>> \in Messages /\ <<u, Final>> \in Messages
<1>1. PartIds \subseteq 0..Final /\ Initiate \in 0..Final /\ Final \in 0..Final
  BY Sizes
<1> QED BY <1>1 DEF Messages

LEMMA LoopFacts ==
  ASSUME Types, NEW l \in Loops
  PROVE  /\ loop[l] \in LoopType /\ loop[l].pc \in LoopPcs /\ loop[l].ok \in BOOLEAN
         /\ loop[l].msg \in Messages /\ Up(l) \in Uploads /\ loop[l].msg[2] \in 0..Final
         /\ loop[l].msg = <<Up(l), loop[l].msg[2]>>
<1>1. loop[l] \in LoopType
  BY DEF Types
<1>2. loop[l].pc \in LoopPcs /\ loop[l].msg \in Messages /\ loop[l].ok \in BOOLEAN
  BY <1>1 DEF LoopType
<1> QED BY <1>1, <1>2, MessageFacts DEF Up

\* One loop takes a step of its callback.
LEMMA GotoFacts ==
  ASSUME Types, NEW l \in Loops, NEW pc \in LoopPcs, Goto(l, pc)
  PROVE  /\ loop' \in [Loops -> LoopType]
         /\ loop'[l].pc = pc /\ loop'[l].msg = loop[l].msg /\ loop'[l].ok = loop[l].ok
         /\ \A k \in Loops : k # l => loop'[k] = loop[k]
<1>1. loop \in [Loops -> LoopType] /\ loop' = [loop EXCEPT ![l] = [loop[l] EXCEPT !.pc = pc]]
  BY DEF Goto, Types
<1>2. [loop[l] EXCEPT !.pc = pc] \in LoopType
  BY <1>1 DEF LoopType
<1>3. loop'[l] = [loop[l] EXCEPT !.pc = pc]
  BY <1>1
<1>4. loop[l] \in LoopType
  BY <1>1
<1> QED BY <1>1, <1>2, <1>3, <1>4 DEF LoopType

\* A message is answered to a loop.
LEMMA AnswerFacts ==
  ASSUME Types, NEW l \in Loops, NEW m \in Messages, NEW ok \in BOOLEAN, Answer(l, m, ok)
  PROVE  /\ loop' \in [Loops -> LoopType]
         /\ loop[l].pc = "idle"
         /\ loop'[l].pc = CASE m[2] = Initiate -> "initiated"
                            [] m[2] = Final -> "finished"
                            [] OTHER -> "part"
         /\ loop'[l].msg = m /\ loop'[l].ok = ok
         /\ \A k \in Loops : k # l => loop'[k] = loop[k]
<1> DEFINE pc == CASE m[2] = Initiate -> "initiated"
                   [] m[2] = Final -> "finished"
                   [] OTHER -> "part"
<1>1. pc \in LoopPcs
  BY DEF LoopPcs
<1>2. loop' = [loop EXCEPT ![l] = [pc |-> pc, msg |-> m, ok |-> ok]] /\ loop[l].pc = "idle"
  BY DEF Answer
<1> HIDE DEF pc
<1>3. [pc |-> pc, msg |-> m, ok |-> ok] \in LoopType
  BY <1>1 DEF LoopType
<1>4. loop \in [Loops -> LoopType]
  BY DEF Types
<1>5. loop' \in [Loops -> LoopType] /\ loop'[l] = [pc |-> pc, msg |-> m, ok |-> ok]
  BY <1>2, <1>3, <1>4
<1>6. \A k \in Loops : k # l => loop'[k] = loop[k]
  BY <1>2, <1>4
<1> QED BY <1>2, <1>5, <1>6 DEF pc

-----------------------------------------------------------------------------
(* Types                                                                   *)

LEMMA TypesInit == Init => Types
<1> SUFFICES ASSUME Init PROVE Types
  OBVIOUS
<1>1. sync \in BOOLEAN /\ size \in Uploads
  BY ModeAssumption DEF Init, Uploads
<1>2. /\ state \in [Uploads -> States]
      /\ final \in [Uploads -> {"none", "complete", "abort"}]
      /\ eTags \in [Uploads -> SUBSET PartIds]
  BY DEF Init, States
<1>3. outstanding \in [Uploads -> Int] /\ errorMessageId \in [Uploads -> PartIds]
  BY Sizes DEF Init, PartIds
<1>4. messageCounter \in 0..N /\ completed \in Nat /\ rejects \in 0..MaxRejects
  BY Sizes DEF Init
<1>5. user \in UserType
  BY Sizes DEF Init, Rest, UserType, UserPcs, States
<1>6. loop \in [Loops -> LoopType]
  <2>1. <<1, Initiate>> \in Messages
    BY Sizes, MessageFacts DEF Uploads
  <2> QED BY <2>1 DEF Init, Idle, LoopType, LoopPcs
<1>7. /\ flight \in [Messages -> Nat] /\ sent \in [Messages -> Nat]
      /\ failed \subseteq Messages
  BY DEF Init
<1>8. results \in [Uploads -> Seq(Reports)]
  <2>1. results = [u \in Uploads |-> <<>>] /\ <<>> \in Seq(Reports)
    BY EmptySeq DEF Init
  <2> QED BY <2>1
<1> QED BY <1>1, <1>2, <1>3, <1>4, <1>5, <1>6, <1>7, <1>8 DEF Types

\* The user's steps touch states, its own variables and submissions.
LEMMA TypesUser == Types /\ User => Types'
<1> SUFFICES ASSUME Types, User PROVE Types'
  OBVIOUS
<1> USE Sizes
<1> DEFINE Kept == UNCHANGED <<sync, size, outstanding, errorMessageId, eTags, final, completed,
                              loop, failed, results>>
           Rec == /\ user.pc \in UserPcs /\ user.u \in 1..(N + 1) /\ user.seen \in States
                  /\ user.batch \subseteq Messages /\ user.counter \in 0..N
<1>1. Rec
  BY DEF Types, UserType
<1>2. SUFFICES Kept /\ /\ state' \in [Uploads -> States]
                       /\ messageCounter' \in 0..N /\ user' \in UserType
                       /\ flight' \in [Messages -> Nat] /\ sent' \in [Messages -> Nat]
                       /\ rejects' \in 0..MaxRejects
  BY DEF Types
<1>3. Rest \in UserType
  BY DEF Rest, UserType, UserPcs, States
<1>4. /\ state \in [Uploads -> States] /\ size \in 1..N /\ user \in UserType
      /\ messageCounter \in 0..N /\ rejects \in 0..MaxRejects
      /\ flight \in [Messages -> Nat] /\ sent \in [Messages -> Nat]
  BY DEF Types, Uploads
<1> HIDE DEF Kept
<1>5. CASE Begin
  <2> DEFINE batch == {<<u, Initiate>> : u \in (messageCounter + 1)..size}
  <2>1. (messageCounter + 1)..size \subseteq Uploads
    BY <1>4 DEF Uploads
  <2>2. batch \subseteq Messages
    BY <2>1, MessageFacts
  <2>3. user' = [Rest EXCEPT !.pc = "gather", !.counter = messageCounter, !.batch = batch]
    BY <1>5 DEF Begin
  <2> HIDE DEF batch
  <2>4. user' = [pc |-> "gather", u |-> 1, seen |-> "Default", batch |-> batch,
                 counter |-> messageCounter]
    BY <2>3 DEF Rest
  <2>5. "gather" \in UserPcs /\ 1 \in 1..(N + 1) /\ "Default" \in States
    BY DEF UserPcs, States
  <2>6. user' \in UserType
    BY <1>4, <2>2, <2>4, <2>5 DEF UserType
  <2> QED BY <1>4, <1>5, <2>6 DEF Begin, UserUnchanged, Kept
<1>6. CASE Submit
  <2>1. user' \in UserType
    <3>1. [Rest EXCEPT !.pc = "run"] \in UserType
      BY DEF Rest, UserType, UserPcs, States
    <3> QED BY <1>3, <1>6, <3>1 DEF Submit
  <2>2. flight' \in [Messages -> Nat] /\ sent' \in [Messages -> Nat]
    BY <1>4, <1>6 DEF Submit
  <2> QED BY <1>4, <1>6, <2>1, <2>2 DEF Submit, UserUnchanged, Kept
<1>7. CASE Reject
  <2>1. user' \in UserType
    BY <1>7 DEF Reject, Rest, UserType, UserPcs, States
  <2>2. messageCounter' \in 0..N /\ rejects' \in 0..MaxRejects
    BY <1>1, <1>4, <1>7 DEF Reject
  <2> QED BY <1>4, <1>7, <2>1, <2>2 DEF Reject, UserUnchanged, Kept
<1>8. CASE Return
  <2>1. [Rest EXCEPT !.pc = "done"] \in UserType
    BY DEF Rest, UserType, UserPcs, States
  <2>2. user' \in UserType
    BY <1>3, <1>8, <2>1 DEF Return
  <2> QED BY <1>4, <1>8, <2>2 DEF Return, UserUnchanged, Kept
<1>9. ASSUME NEW u \in Uploads, Gather(u)
      PROVE  Kept /\ /\ state' \in [Uploads -> States]
                     /\ messageCounter' \in 0..N /\ user' \in UserType
                     /\ flight' \in [Messages -> Nat] /\ sent' \in [Messages -> Nat]
                     /\ rejects' \in 0..MaxRejects
  <2>1. user.u = u /\ user.u + 1 \in 1..(N + 1)
    BY <1>9 DEF Gather, Uploads
  <2>2. {<<u, i>> : i \in PartIds} \subseteq Messages /\ {<<u, Final>>} \subseteq Messages
    BY MessageFacts
  <2>3. \A B \in SUBSET Messages : [user EXCEPT !.u = u + 1, !.batch = @ \cup B] \in UserType
    BY <1>1, <1>4, <2>1 DEF UserType
  <2>4. [user EXCEPT !.u = u + 1] \in UserType
    BY <1>1, <1>4, <2>1 DEF UserType
  <2>5. user' \in UserType
    <3>1. CASE user' = [user EXCEPT !.u = u + 1, !.batch = @ \cup {<<u, i>> : i \in PartIds}]
      BY <2>2, <2>3, <3>1
    <3>2. CASE user' = [user EXCEPT !.u = u + 1, !.batch = @ \cup {<<u, Final>>}]
      BY <2>2, <2>3, <3>2
    <3>3. CASE user' = [user EXCEPT !.u = u + 1]
      BY <2>4, <3>3
    <3> QED BY <1>9, <3>1, <3>2, <3>3 DEF Gather
  <2>6. state' \in [Uploads -> States]
    BY <1>4, <1>9 DEF Gather, SetState, States
  <2> QED BY <1>4, <1>9, <2>5, <2>6 DEF Gather, UserUnchanged, Kept
<1>10. ASSUME NEW u \in Uploads, UndoRead(u)
       PROVE  Kept /\ /\ state' \in [Uploads -> States]
                      /\ messageCounter' \in 0..N /\ user' \in UserType
                      /\ flight' \in [Messages -> Nat] /\ sent' \in [Messages -> Nat]
                      /\ rejects' \in 0..MaxRejects
  <2>1. state[u] \in States
    BY <1>4
  <2>2. user' \in UserType
    BY <1>1, <1>4, <1>10, <2>1 DEF UndoRead, UserType, UserPcs
  <2> QED BY <1>4, <1>10, <2>2 DEF UndoRead, UserUnchanged, Kept
<1>11. ASSUME NEW u \in Uploads, UndoWrite(u)
       PROVE  Kept /\ /\ state' \in [Uploads -> States]
                      /\ messageCounter' \in 0..N /\ user' \in UserType
                      /\ flight' \in [Messages -> Nat] /\ sent' \in [Messages -> Nat]
                      /\ rejects' \in 0..MaxRejects
  <2>1. user' \in UserType
    <3>1. u < size => u + 1 \in 1..(N + 1)
      BY <1>4 DEF Uploads
    <3>2. u < size => [user EXCEPT !.pc = "undo", !.u = u + 1] \in UserType
      BY <1>1, <1>4, <3>1 DEF UserType, UserPcs
    <3> QED BY <1>3, <1>11, <3>2 DEF UndoWrite
  <2>2. state' \in [Uploads -> States]
    BY <1>4, <1>11 DEF UndoWrite, States
  <2> QED BY <1>4, <1>11, <2>1, <2>2 DEF UndoWrite, UserUnchanged, Kept
<1> QED BY <1>5, <1>6, <1>7, <1>8, <1>9, <1>10, <1>11 DEF User, Call

LEMMA CompleteFacts ==
  ASSUME Types, NEW u \in Uploads, NEW r \in Reports, Complete(u, r)
  PROVE  /\ completed' \in Nat /\ completed' = completed + 1
         /\ results' \in [Uploads -> Seq(Reports)]
         /\ results'[u] = Append(results[u], r) /\ Len(results'[u]) = Len(results[u]) + 1
         /\ \A v \in Uploads : v # u => results'[v] = results[v]
<1>1. results \in [Uploads -> Seq(Reports)] /\ completed \in Nat
  BY DEF Types
<1>2. results' = [results EXCEPT ![u] = Append(results[u], r)]
  BY DEF Complete
<1>3. results[u] \in Seq(Reports)
  BY <1>1
<1>4. /\ Append(results[u], r) \in Seq(Reports)
      /\ Len(Append(results[u], r)) = Len(results[u]) + 1
  BY <1>3, AppendProperties
<1> QED BY <1>1, <1>2, <1>4 DEF Complete

\* A callback goes on with a step that is not the first one of any callback, or ends.
LEMMA KindsGoto ==
  ASSUME Types, Kinds, NEW l \in Loops, NEW pc \in LoopPcs, Goto(l, pc),
         pc = "abort" => ~loop[l].ok,
         \/ pc = "idle"
         \/ /\ loop[l].pc \notin {"idle", "initiated", "finished"}
            /\ pc \notin {"initiated", "finished"}
  PROVE  Kinds'
<1> SUFFICES ASSUME NEW k \in Loops, Held(k)'
             PROVE  /\ loop'[k].pc = "initiated" <=> loop'[k].msg[2] = Initiate
                    /\ loop'[k].pc = "finished" <=> loop'[k].msg[2] = Final
                    /\ loop'[k].pc = "abort" => ~loop'[k].ok
  BY DEF Kinds
<1>1. /\ loop'[l].pc = pc /\ loop'[l].msg = loop[l].msg /\ loop'[l].ok = loop[l].ok
      /\ \A j \in Loops : j # l => loop'[j] = loop[j]
  BY GotoFacts
<1> QED BY <1>1 DEF Kinds, Held

LEMMA TypesCallback ==
  ASSUME Types, Kinds, NEW l \in Loops, Callback(l)
  PROVE  Types' /\ Kinds'
<1> USE Sizes
<1>1. /\ Up(l) \in Uploads /\ loop[l].msg[2] \in 0..Final /\ loop[l].msg \in Messages
  BY LoopFacts
<1>2. \A pc \in LoopPcs : Goto(l, pc) => loop' \in [Loops -> LoopType]
  BY GotoFacts
<1>3. /\ "idle" \in LoopPcs /\ "abort" \in LoopPcs /\ "count" \in LoopPcs
      /\ "last" \in LoopPcs /\ "announce" \in LoopPcs
  BY DEF LoopPcs
<1>4. /\ state \in [Uploads -> States] /\ outstanding \in [Uploads -> Int]
      /\ errorMessageId \in [Uploads -> PartIds] /\ eTags \in [Uploads -> SUBSET PartIds]
      /\ final \in [Uploads -> {"none", "complete", "abort"}]
      /\ completed \in Nat /\ flight \in [Messages -> Nat] /\ failed \subseteq Messages
      /\ results \in [Uploads -> Seq(Reports)]
  BY DEF Types
<1>5. At(l, "part") => loop[l].msg[2] \in PartIds
  BY <1>1 DEF Kinds, Held, At
<1> DEFINE Sound == /\ state' \in [Uploads -> States] /\ outstanding' \in [Uploads -> Int]
                    /\ errorMessageId' \in [Uploads -> PartIds]
                    /\ eTags' \in [Uploads -> SUBSET PartIds]
                    /\ final' \in [Uploads -> {"none", "complete", "abort"}]
                    /\ completed' \in Nat /\ results' \in [Uploads -> Seq(Reports)]
                    /\ loop' \in [Loops -> LoopType]
                    /\ flight' = flight /\ failed' = failed /\ LoopUnchanged
<1>6. SUFFICES Sound /\ Kinds'
  BY <1>4 DEF Types, LoopUnchanged
<1>7. CASE Initiated(l)
  <2>1. Kinds' /\ loop' \in [Loops -> LoopType]
    BY <1>2, <1>3, <1>7, KindsGoto DEF Initiated
  <2>2. state' \in [Uploads -> States]
    BY <1>4, <1>7 DEF Initiated, SetState, States
  <2>3. completed' \in Nat /\ results' \in [Uploads -> Seq(Reports)]
    <3>1. "failed" \in Reports
      BY DEF Reports
    <3>2. CASE loop[l].ok
      BY <1>4, <1>7, <3>2 DEF Initiated
    <3>3. CASE ~loop[l].ok
      BY <1>1, <1>7, <3>1, <3>3, CompleteFacts DEF Initiated
    <3> QED BY <3>2, <3>3
  <2> QED BY <1>4, <1>7, <2>1, <2>2, <2>3 DEF Initiated
<1>8. CASE RecordETag(l)
  <2>1. Kinds' /\ loop' \in [Loops -> LoopType]
    BY <1>2, <1>3, <1>8, KindsGoto DEF RecordETag, At
  <2>2. eTags' \in [Uploads -> SUBSET PartIds]
    BY <1>4, <1>5, <1>8 DEF RecordETag
  <2> QED BY <1>4, <1>8, <2>1, <2>2 DEF RecordETag
<1>9. CASE RecordError(l)
  <2>1. Kinds' /\ loop' \in [Loops -> LoopType]
    BY <1>2, <1>3, <1>9, KindsGoto DEF RecordError, At
  <2>2. errorMessageId' \in [Uploads -> PartIds]
    BY <1>4, <1>5, <1>9 DEF RecordError
  <2> QED BY <1>4, <1>9, <2>1, <2>2 DEF RecordError
<1>10. CASE SetAborted(l)
  <2>1. Kinds' /\ loop' \in [Loops -> LoopType]
    BY <1>2, <1>3, <1>10, KindsGoto DEF SetAborted, At
  <2>2. state' \in [Uploads -> States]
    BY <1>4, <1>10 DEF SetAborted, SetState, States
  <2> QED BY <1>4, <1>10, <2>1, <2>2 DEF SetAborted
<1>11. CASE CountDown(l)
  <2>1. Kinds' /\ loop' \in [Loops -> LoopType]
    <3>1. CASE outstanding[Up(l)] = 1
      BY <1>2, <1>3, <1>11, <3>1, KindsGoto DEF CountDown, At
    <3>2. CASE outstanding[Up(l)] # 1
      BY <1>2, <1>3, <1>11, <3>2, KindsGoto DEF CountDown, At
    <3> QED BY <3>1, <3>2
  <2>2. outstanding' \in [Uploads -> Int]
    BY <1>1, <1>4, <1>11 DEF CountDown
  <2> QED BY <1>4, <1>11, <2>1, <2>2 DEF CountDown
<1>12. CASE BuildFinal(l)
  <2>1. Kinds' /\ loop' \in [Loops -> LoopType]
    BY <1>2, <1>3, <1>12, KindsGoto DEF BuildFinal, At
  <2>2. final' \in [Uploads -> {"none", "complete", "abort"}]
    BY <1>4, <1>12 DEF BuildFinal
  <2> QED BY <1>4, <1>12, <2>1, <2>2 DEF BuildFinal
<1>13. CASE Announce(l)
  <2>1. Kinds' /\ loop' \in [Loops -> LoopType]
    BY <1>2, <1>3, <1>13, KindsGoto DEF Announce, At
  <2>2. state' \in [Uploads -> States]
    BY <1>4, <1>13 DEF Announce, SetState, States
  <2> QED BY <1>4, <1>13, <2>1, <2>2 DEF Announce
<1>14. CASE Finished(l)
  <2>1. Kinds' /\ loop' \in [Loops -> LoopType]
    BY <1>2, <1>3, <1>14, KindsGoto DEF Finished
  <2>2. completed' \in Nat /\ results' \in [Uploads -> Seq(Reports)]
    <3>1. "finished" \in Reports /\ "cancelled" \in Reports
      BY DEF Reports
    <3> QED BY <1>1, <1>14, <3>1, CompleteFacts DEF Finished
  <2> QED BY <1>4, <1>14, <2>1, <2>2 DEF Finished, uploadVars
<1> QED BY <1>7, <1>8, <1>9, <1>10, <1>11, <1>12, <1>13, <1>14 DEF Callback

LEMMA TypesAnswer ==
  ASSUME Types, Kinds, NEW l \in Loops, NEW m \in Messages, NEW ok \in BOOLEAN,
         Answer(l, m, ok)
  PROVE  Types' /\ Kinds'
<1>1. loop' \in [Loops -> LoopType]
  BY AnswerFacts
<1>2. flight' \in [Messages -> Nat]
  <2>1. flight \in [Messages -> Nat] /\ flight[m] > 0
    BY DEF Types, Answer
  <2>2. flight[m] - 1 \in Nat
    BY <2>1
  <2> QED BY <2>1, <2>2 DEF Answer
<1>3. failed' \subseteq Messages
  BY DEF Types, Answer
<1>4. Types'
  BY <1>1, <1>2, <1>3 DEF Types, Answer, uploadVars, LoopUnchanged
<1>5. Kinds'
  <2> SUFFICES ASSUME NEW k \in Loops, Held(k)'
               PROVE  /\ loop'[k].pc = "initiated" <=> loop'[k].msg[2] = Initiate
                      /\ loop'[k].pc = "finished" <=> loop'[k].msg[2] = Final
                      /\ loop'[k].pc = "abort" => ~loop'[k].ok
    BY DEF Kinds
  <2>1. CASE k = l
    BY <2>1, AnswerFacts, Sizes
  <2>2. CASE k # l
    <3>1. loop'[k] = loop[k]
      BY <2>2, AnswerFacts
    <3> QED BY <3>1 DEF Kinds, Held
  <2> QED BY <2>1, <2>2
<1> QED BY <1>4, <1>5

-----------------------------------------------------------------------------
(* Errors                                                                  *)

LEMMA ErrorsUser == Types /\ Errors /\ User => Errors'
<1> SUFFICES ASSUME Types, Errors, User PROVE Errors'
  OBVIOUS
<1>1. UNCHANGED <<loop, failed, errorMessageId, final>>
  BY DEF User, Call, Begin, Submit, Reject, Return, Gather, UndoRead, UndoWrite, UserUnchanged
<1>2. \A v \in Uploads : state'[v] = "Aborted" => state[v] = "Aborted"
  <2>1. CASE Begin \/ Submit \/ Reject \/ Return \/ \E u \in Uploads : UndoRead(u)
    BY <2>1 DEF Begin, Submit, Reject, Return, UndoRead
  <2>2. ASSUME NEW u \in Uploads, Gather(u)
        PROVE  \A v \in Uploads : state'[v] = "Aborted" => state[v] = "Aborted"
    BY <2>2 DEF Gather, SetState, Types
  <2>3. ASSUME NEW u \in Uploads, UndoWrite(u)
        PROVE  \A v \in Uploads : state'[v] = "Aborted" => state[v] = "Aborted"
    BY <2>3 DEF UndoWrite, Types
  <2> QED BY <2>1, <2>2, <2>3 DEF User, Call
<1> QED BY <1>1, <1>2 DEF Errors, Held, Up

LEMMA ErrorsAnswer ==
  ASSUME Types, Errors, NEW l \in Loops, NEW m \in Messages, NEW ok \in BOOLEAN,
         Answer(l, m, ok)
  PROVE  Errors'
<1>1. failed \subseteq failed' /\ (~ok => m \in failed')
  BY DEF Answer
<1>2. UNCHANGED <<state, errorMessageId, final>>
  BY DEF Answer, uploadVars
<1>3. \A k \in Loops : Held(k)' /\ ~loop'[k].ok => loop'[k].msg \in failed'
  <2> SUFFICES ASSUME NEW k \in Loops, Held(k)', ~loop'[k].ok PROVE loop'[k].msg \in failed'
    OBVIOUS
  <2>1. CASE k = l
    BY <1>1, <2>1, AnswerFacts
  <2>2. CASE k # l
    <3>1. loop'[k] = loop[k]
      BY <2>2, AnswerFacts
    <3> QED BY <1>1, <3>1 DEF Errors, Held
  <2> QED BY <2>1, <2>2
<1>4. \A k \in Loops : loop'[k].pc = "abort"
                         => <<Up(k)', errorMessageId'[Up(k)']>> \in failed'
  <2> SUFFICES ASSUME NEW k \in Loops, loop'[k].pc = "abort"
               PROVE  <<Up(k)', errorMessageId'[Up(k)']>> \in failed'
    OBVIOUS
  <2>1. k # l
    BY AnswerFacts
  <2>2. loop'[k] = loop[k]
    BY <2>1, AnswerFacts
  <2> QED BY <1>1, <1>2, <2>2 DEF Errors, Up
<1> QED BY <1>1, <1>2, <1>3, <1>4 DEF Errors

LEMMA ErrorsCallback ==
  ASSUME Types, Kinds, Errors, NEW l \in Loops, Callback(l)
  PROVE  Errors'
<1> USE Sizes
<1>1. /\ Up(l) \in Uploads /\ loop[l].msg = <<Up(l), loop[l].msg[2]>> /\ loop[l].ok \in BOOLEAN
  BY LoopFacts
<1>2. failed' = failed
  BY DEF Callback, Initiated, RecordETag, RecordError, SetAborted, CountDown, BuildFinal,
         Announce, Finished
<1>3. PICK pc \in LoopPcs : Goto(l, pc) /\ (pc = "abort" => RecordError(l))
  BY DEF Callback, Initiated, RecordETag, RecordError, SetAborted, CountDown, BuildFinal,
         Announce, Finished, LoopPcs
<1>4. /\ loop'[l].pc = pc /\ loop'[l].msg = loop[l].msg /\ loop'[l].ok = loop[l].ok
      /\ \A k \in Loops : k # l => loop'[k] = loop[k]
  BY <1>3, GotoFacts
<1>5. Held(l)
  BY DEF Callback, Initiated, RecordETag, RecordError, SetAborted, CountDown, BuildFinal,
         Announce, Finished, At, Held
<1>6. \A k \in Loops : Held(k)' /\ ~loop'[k].ok => loop'[k].msg \in failed'
  BY <1>2, <1>4, <1>5 DEF Errors, Held
<1>7. \A k \in Loops : Up(k)' = Up(k)
  BY <1>4 DEF Up
<1>8. \A u \in Uploads : <<u, errorMessageId[u]>> \in failed
                           => <<u, errorMessageId'[u]>> \in failed'
  <2>1. CASE RecordError(l)
    <3>1. loop[l].msg \in failed
      BY <1>5, <2>1 DEF Errors, RecordError
    <3>2. errorMessageId' = [errorMessageId EXCEPT ![Up(l)] = loop[l].msg[2]]
      BY <2>1 DEF RecordError
    <3>3. errorMessageId \in [Uploads -> PartIds]
      BY DEF Types
    <3> QED BY <1>1, <1>2, <3>1, <3>2, <3>3
  <2>2. CASE ~RecordError(l)
    <3>1. errorMessageId' = errorMessageId
      BY <2>2 DEF Callback, Initiated, RecordETag, SetAborted, CountDown, BuildFinal,
                  Announce, Finished, uploadVars
    <3> QED BY <1>2, <3>1
  <2> QED BY <2>1, <2>2
<1>9. \A k \in Loops : loop'[k].pc = "abort"
                         => <<Up(k)', errorMessageId'[Up(k)']>> \in failed'
  <2> SUFFICES ASSUME NEW k \in Loops, loop'[k].pc = "abort"
               PROVE  <<Up(k), errorMessageId'[Up(k)]>> \in failed'
    BY <1>7
  <2>1. CASE k # l
    <3>1. loop[k].pc = "abort" /\ Up(k) \in Uploads
      BY <1>4, <2>1, LoopFacts
    <3> QED BY <1>8, <3>1 DEF Errors
  <2>2. CASE k = l
    <3>1. RecordError(l)
      BY <1>3, <1>4, <2>2
    <3>2. loop[l].msg \in failed
      BY <1>5, <3>1 DEF Errors, RecordError
    <3>3. errorMessageId' = [errorMessageId EXCEPT ![Up(l)] = loop[l].msg[2]]
      BY <3>1 DEF RecordError
    <3>4. errorMessageId'[Up(l)] = loop[l].msg[2]
      BY <1>1, <3>3 DEF Types
    <3> QED BY <1>1, <1>2, <2>2, <3>2, <3>4
  <2> QED BY <2>1, <2>2
<1>10. \A u \in Uploads : state'[u] = "Aborted" \/ final'[u] = "abort"
                            => <<u, errorMessageId[u]>> \in failed
  <2> SUFFICES ASSUME NEW u \in Uploads, state'[u] = "Aborted" \/ final'[u] = "abort"
               PROVE  <<u, errorMessageId[u]>> \in failed
    OBVIOUS
  <2>1. state \in [Uploads -> States] /\ final \in [Uploads -> {"none", "complete", "abort"}]
    BY DEF Types
  <2>2. CASE SetAborted(l)
    <3>1. state' = [state EXCEPT ![Up(l)] = "Aborted"] /\ final' = final /\ loop[l].pc = "abort"
      BY <2>2 DEF SetAborted, SetState, At
    <3>2. CASE u = Up(l)
      BY <3>1, <3>2 DEF Errors
    <3>3. CASE u # Up(l)
      BY <2>1, <3>1, <3>3 DEF Errors
    <3> QED BY <3>2, <3>3
  <2>3. CASE BuildFinal(l)
    <3>1. /\ state' = state
          /\ final' = [final EXCEPT ![Up(l)] =
                         IF state[Up(l)] # "Aborted" THEN "complete" ELSE "abort"]
      BY <2>3 DEF BuildFinal
    <3>2. final'[u] = "abort" => final[u] = "abort" \/ state[u] = "Aborted"
      BY <1>1, <2>1, <3>1
    <3> QED BY <3>1, <3>2 DEF Errors
  <2>4. CASE Initiated(l) \/ Announce(l)
    <3>1. final' = final /\ (state'[u] = "Aborted" => state[u] = "Aborted")
      BY <2>1, <2>4 DEF Initiated, Announce, SetState
    <3> QED BY <3>1 DEF Errors
  <2>5. CASE RecordETag(l) \/ RecordError(l) \/ CountDown(l) \/ Finished(l)
    <3>1. final' = final /\ state' = state
      BY <2>5 DEF RecordETag, RecordError, CountDown, Finished, uploadVars
    <3> QED BY <3>1 DEF Errors
  <2> QED BY <2>2, <2>3, <2>4, <2>5 DEF Callback
<1> QED BY <1>6, <1>8, <1>9, <1>10 DEF Errors

LEMMA EInvInit == Init => EInv
<1> SUFFICES ASSUME Init PROVE EInv
  OBVIOUS
<1>1. \A l \in Loops : loop[l].pc = "idle"
  BY DEF Init, Idle
<1>2. \A u \in Uploads : state[u] = "Default" /\ final[u] = "none"
  BY DEF Init
<1> QED BY <1>1, <1>2, TypesInit DEF EInv, Kinds, Errors, Held

LEMMA EInvStep == EInv /\ [Next]_vars => EInv'
<1> SUFFICES ASSUME EInv, [Next]_vars PROVE EInv'
  OBVIOUS
<1>1. Types /\ Kinds /\ Errors
  BY DEF EInv
<1>2. CASE User
  <2>1. Types' /\ Errors'
    BY <1>1, <1>2, TypesUser, ErrorsUser
  <2>2. loop' = loop
    BY <1>2 DEF User, Call, Begin, Submit, Reject, Return, Gather, UndoRead, UndoWrite, UserUnchanged
  <2>3. Kinds'
    BY <1>1, <2>2 DEF Kinds, Held
  <2> QED BY <2>1, <2>3 DEF EInv
<1>3. ASSUME NEW l \in Loops, Callback(l) PROVE EInv'
  BY <1>1, <1>3, TypesCallback, ErrorsCallback DEF EInv
<1>4. ASSUME NEW l \in Loops, NEW m \in Messages, NEW ok \in BOOLEAN, Answer(l, m, ok)
      PROVE  EInv'
  BY <1>1, <1>4, TypesAnswer, ErrorsAnswer DEF EInv
<1>5. CASE UNCHANGED vars
  <2>1. Types'
    BY <1>1, <1>5 DEF Types, vars, uploadVars
  <2>2. Kinds' /\ Errors'
    BY <1>1, <1>5 DEF Kinds, Errors, Held, Up, vars, uploadVars
  <2> QED BY <2>1, <2>2 DEF EInv
<1> QED BY <1>2, <1>3, <1>4, <1>5 DEF Next, Answers

-----------------------------------------------------------------------------
(* What a step leaves alone                                                *)

\* Nothing that is said about an upload changes.
Apart(v) ==
  /\ state'[v] = state[v] /\ outstanding'[v] = outstanding[v] /\ eTags[v] \subseteq eTags'[v]
  /\ final'[v] = final[v] /\ results'[v] = results[v]
  /\ \A i \in 1..Final : Taken(<<v, i>>)' <=> Taken(<<v, i>>)
  /\ Over(<<v, Initiate>>)' <=> Over(<<v, Initiate>>)
  /\ Over(<<v, Final>>)' <=> Over(<<v, Final>>)
  /\ \A i \in 0..Final : <<v, i>> \in failed' <=> <<v, i>> \in failed
  /\ \A i \in PartIds : Counted(v, i)' <=> Counted(v, i)
  /\ \A i \in PartIds : <<v, i>> \in failed => (Unrecorded(v, i)' <=> Unrecorded(v, i))
  /\ \A l \in Loops : /\ Closing(l, v)' <=> Closing(l, v)
                      /\ Closing(l, v) => loop'[l].pc = loop[l].pc

LEMMA ApartStays ==
  ASSUME NEW v \in Uploads, Stage(v), PartsRecorded(v), Apart(v)
  PROVE  Stage(v)' /\ PartsRecorded(v)'
<1> USE Sizes
<1>1. PartIds \subseteq 1..Final /\ PartIds \subseteq 0..Final /\ Final \in 1..Final
      /\ Final \in 0..Final /\ Initiate \in 0..Final
  OBVIOUS
<1>2. /\ NoneTaken(v)' <=> NoneTaken(v)
      /\ PartsTaken(v)' <=> PartsTaken(v)
      /\ Accepted(v)' <=> Accepted(v)
      /\ Unclosed(v)' <=> Unclosed(v)
      /\ Taken(<<v, Final>>)' <=> Taken(<<v, Final>>)
  BY <1>1 DEF Apart, NoneTaken, PartsTaken, Accepted, Unclosed
<1>3. /\ state'[v] = state[v] /\ outstanding'[v] = outstanding[v]
      /\ final'[v] = final[v] /\ results'[v] = results[v]
      /\ Over(<<v, Initiate>>)' <=> Over(<<v, Initiate>>)
      /\ Over(<<v, Final>>)' <=> Over(<<v, Final>>)
      /\ <<v, Initiate>> \in failed' <=> <<v, Initiate>> \in failed
      /\ <<v, Final>> \in failed' <=> <<v, Final>> \in failed
  BY <1>1 DEF Apart
<1>4. Decided(v)' <=> Decided(v)
  BY <1>2, <1>3 DEF Decided
<1>5. /\ Starting(v) => Starting(v)'
      /\ Refused(v) => Refused(v)'
      /\ Built(v) => Built(v)'
      /\ Transferring(v) => Transferring(v)'
  BY <1>2, <1>3 DEF Starting, Refused, Built, Transferring
<1>6. Deciding(v) => Deciding(v)'
  BY <1>2, <1>3 DEF Deciding, Apart
<1>7. /\ Ready(v) => Ready(v)'
      /\ Finishing(v) => Finishing(v)'
      /\ Reported(v) => Reported(v)'
  BY <1>2, <1>3, <1>4 DEF Ready, Finishing, Reported
<1>8. Stage(v)'
  BY <1>5, <1>6, <1>7 DEF Stage
<1>9. Uncounted(v)' = Uncounted(v)
  BY DEF Apart, Uncounted
<1>10. PartsRecorded(v)'
  BY <1>1, <1>9 DEF PartsRecorded, Apart
<1> QED BY <1>8, <1>10

\* A loop's step, with what it does to the other loops' messages.
LEMMA GotoApart ==
  ASSUME Types, NEW l \in Loops, NEW pc \in LoopPcs, Goto(l, pc), Held(l),
         UNCHANGED <<user, sent, flight, failed>>
  PROVE  /\ \A m \in Messages : Taken(m)' <=> Taken(m)
         /\ \A m \in Messages : m # loop[l].msg \/ pc # "idle" => (Over(m)' <=> Over(m))
         /\ \A v \in Uploads, i \in PartIds : <<v, i>> # loop[l].msg =>
              (Counted(v, i)' <=> Counted(v, i)) /\ (Unrecorded(v, i)' <=> Unrecorded(v, i))
         /\ \A v \in Uploads, k \in Loops : k # l \/ v # Up(l) =>
              /\ Closing(k, v)' <=> Closing(k, v)
              /\ Closing(k, v) => loop'[k].pc = loop[k].pc
<1>1. /\ loop'[l].pc = pc /\ loop'[l].msg = loop[l].msg
      /\ \A k \in Loops : k # l => loop'[k] = loop[k]
  BY GotoFacts
<1>2. \A k \in Loops : loop'[k].msg = loop[k].msg /\ Up(k)' = Up(k)
  BY <1>1 DEF Up
<1>3. \A m \in Messages : Taken(m)' <=> Taken(m)
  BY DEF Taken
<1>4. ASSUME NEW m \in Messages, m # loop[l].msg PROVE Over(m)' <=> Over(m)
  BY <1>1, <1>2, <1>4 DEF Over, Held
<1>5. ASSUME NEW m \in Messages, m = loop[l].msg, pc # "idle" PROVE Over(m)' <=> Over(m)
  BY <1>1, <1>2, <1>5 DEF Over, Held
<1>6. ASSUME NEW v \in Uploads, NEW i \in PartIds, <<v, i>> # loop[l].msg
      PROVE  (Counted(v, i)' <=> Counted(v, i)) /\ (Unrecorded(v, i)' <=> Unrecorded(v, i))
  BY <1>1, <1>2, <1>6 DEF Counted, Unrecorded
<1>7. ASSUME NEW v \in Uploads, NEW k \in Loops, k # l \/ v # Up(l)
      PROVE  /\ Closing(k, v)' <=> Closing(k, v)
             /\ Closing(k, v) => loop'[k].pc = loop[k].pc
  <2>1. CASE k # l
    BY <1>1, <1>2, <2>1 DEF Closing
  <2>2. CASE v # Up(l) /\ k = l
    BY <1>2, <2>2 DEF Closing
  <2> QED BY <1>7, <2>1, <2>2
<1> QED BY <1>3, <1>4, <1>5, <1>6, <1>7

\* What a callback does to the uploads of other messages.
LEMMA OthersApart ==
  ASSUME Types, NEW l \in Loops, NEW pc \in LoopPcs, Goto(l, pc), Held(l),
         UNCHANGED <<user, sent, flight, failed>>,
         NEW v \in Uploads, v # Up(l),
         state'[v] = state[v], outstanding'[v] = outstanding[v], eTags'[v] = eTags[v],
         final'[v] = final[v], results'[v] = results[v]
  PROVE  Apart(v)
<1> USE Sizes
<1>1. loop[l].msg = <<Up(l), loop[l].msg[2]>>
  BY LoopFacts
<1>2. \A i \in 0..Final : <<v, i>> \in Messages /\ <<v, i>> # loop[l].msg
  BY <1>1, MessageFacts
<1>3. 1..Final \subseteq 0..Final /\ PartIds \subseteq 0..Final
      /\ Final \in 0..Final /\ Initiate \in 0..Final
  OBVIOUS
<1>4. \A i \in 0..Final : (Taken(<<v, i>>)' <=> Taken(<<v, i>>)) /\ (Over(<<v, i>>)' <=> Over(<<v, i>>))
  BY <1>2, GotoApart
<1>5. \A i \in PartIds : (Counted(v, i)' <=> Counted(v, i)) /\ (Unrecorded(v, i)' <=> Unrecorded(v, i))
  BY <1>2, <1>3, GotoApart
<1>6. \A k \in Loops : /\ Closing(k, v)' <=> Closing(k, v)
                       /\ Closing(k, v) => loop'[k].pc = loop[k].pc
  BY GotoApart
<1> QED BY <1>3, <1>4, <1>5, <1>6 DEF Apart

-----------------------------------------------------------------------------
(* Callbacks                                                               *)

LEMMA GatheringKept ==
  ASSUME Gathering, UNCHANGED <<user, sent, size, messageCounter>>
  PROVE  Gathering'
BY DEF Gathering, Taken

LEMMA SingleGoto ==
  ASSUME Types, Single, NEW l \in Loops, NEW pc \in LoopPcs, Goto(l, pc), Held(l),
         UNCHANGED <<user, sent, flight, failed>>,
         \A v \in Uploads : eTags[v] \subseteq eTags'[v],
         pc = "count" /\ loop[l].ok => loop[l].msg[2] \in eTags'[Up(l)],
         pc \in {"last", "announce"} => Unclosed(Up(l)) \/ Closing(l, Up(l))
  PROVE  Single'
<1>1. /\ loop'[l].pc = pc /\ loop'[l].msg = loop[l].msg /\ loop'[l].ok = loop[l].ok
      /\ \A k \in Loops : k # l => loop'[k] = loop[k]
  BY GotoFacts
<1>2. \A k \in Loops : /\ loop'[k].msg = loop[k].msg /\ loop'[k].ok = loop[k].ok
                       /\ Up(k)' = Up(k) /\ Up(k) \in Uploads
                       /\ Held(k)' => Held(k)
  BY <1>1, LoopFacts DEF Up, Held
<1>3. \A m \in Messages :
        /\ sent'[m] <= 1 /\ flight'[m] <= sent'[m]
        /\ m \in user'.batch => sent'[m] = 0
        /\ m \in failed' => sent'[m] = 1 /\ flight'[m] = 0
  BY DEF Single
<1>4. ASSUME NEW k \in Loops, Held(k)'
      PROVE  /\ sent'[loop'[k].msg] = 1 /\ flight'[loop'[k].msg] = 0
             /\ loop'[k].ok => loop'[k].msg \notin failed'
             /\ loop'[k].pc = "count" /\ loop'[k].ok => loop'[k].msg[2] \in eTags'[Up(k)']
  <2>1. /\ sent[loop[k].msg] = 1 /\ flight[loop[k].msg] = 0
        /\ loop[k].ok => loop[k].msg \notin failed
        /\ loop[k].pc = "count" /\ loop[k].ok => loop[k].msg[2] \in eTags[Up(k)]
    BY <1>2, <1>4 DEF Single
  <2>2. loop'[k].pc = "count" /\ loop'[k].ok => loop'[k].msg[2] \in eTags'[Up(k)']
    <3>1. CASE k = l
      BY <1>1, <1>2, <3>1
    <3>2. CASE k # l
      BY <1>1, <1>2, <2>1, <3>2
    <3> QED BY <3>1, <3>2
  <2> QED BY <1>2, <2>1, <2>2
<1>5. ASSUME NEW j \in Loops, NEW k \in Loops, Held(j)', Held(k)', loop'[j].msg = loop'[k].msg
      PROVE  j = k
  BY <1>2, <1>5 DEF Single
<1>6. ASSUME NEW j \in Loops, NEW k \in Loops, NEW u \in Uploads, Closing(j, u)', Closing(k, u)'
      PROVE  j = k
  <2>1. /\ j # l => Closing(j, u)
        /\ k # l => Closing(k, u)
    BY <1>1, <1>6 DEF Closing, Up
  <2>2. CASE j # l /\ k # l
    BY <2>1, <2>2 DEF Single
  <2>3. CASE j = l \/ k = l
    <3>1. Closing(l, u)'
      BY <1>6, <2>3
    <3>2. u = Up(l) /\ pc \in {"last", "announce"}
      BY <1>1, <1>2, <3>1 DEF Closing
    <3>3. CASE Unclosed(u)
      BY <2>1, <2>3, <3>3 DEF Unclosed
    <3>4. CASE Closing(l, u)
      <4>1. Closing(j, u) /\ Closing(k, u)
        BY <2>1, <3>4
      <4> QED BY <4>1 DEF Single
    <3> QED BY <3>2, <3>3, <3>4
  <2> QED BY <2>2, <2>3
<1> QED BY <1>3, <1>4, <1>5, <1>6 DEF Single

LEMMA FiniteParts ==
  /\ IsFiniteSet(PartIds) /\ Cardinality(PartIds) = Parts
  /\ IsFiniteSet(Uploads)
  /\ \A u : IsFiniteSet(Uncounted(u)) /\ Cardinality(Uncounted(u)) \in Nat
<1>1. 1 \in Int /\ Parts \in Int /\ N \in Int
  BY Sizes
<1>2. IsFiniteSet(1..Parts) /\ IsFiniteSet(1..N)
  BY <1>1, FS_Interval
<1>3. Cardinality(1..Parts) = Parts
  BY <1>1, FS_Interval, Sizes
<1>4. ASSUME NEW u PROVE IsFiniteSet(Uncounted(u)) /\ Cardinality(Uncounted(u)) \in Nat
  <2>1. Uncounted(u) \subseteq 1..Parts
    BY DEF Uncounted, PartIds
  <2> QED BY <1>2, <2>1, FS_Subset, FS_CardinalityType
<1> QED BY <1>2, <1>3, <1>4 DEF PartIds, Uploads

LEMMA ReportedKept ==
  ASSUME AllReported, UNCHANGED <<completed, results, user, size>>
  PROVE  AllReported'
BY DEF AllReported

LEMMA ReportedComplete ==
  ASSUME Types, AllReported, NEW u \in Uploads, NEW r \in Reports, Complete(u, r),
         results[u] = <<>>, UNCHANGED <<user, size>>
  PROVE  AllReported' /\ results'[u] = <<r>>
<1> DEFINE Done == {v \in Uploads : results[v] # <<>>}
           DoneNext == {v \in Uploads : results'[v] # <<>>}
<1>1. /\ results'[u] = Append(results[u], r) /\ Len(results'[u]) = Len(results[u]) + 1
      /\ \A v \in Uploads : v # u => results'[v] = results[v]
      /\ completed' = completed + 1
  BY CompleteFacts
<1>2. results'[u] = <<r>>
  BY <1>1
<1>3. results'[u] # <<>>
  BY <1>2
<1>4. DoneNext = Done \cup {u}
  BY <1>1, <1>3
<1>5. u \notin Done /\ IsFiniteSet(Done)
  <2>1. Done \in SUBSET Uploads /\ IsFiniteSet(Uploads)
    BY FiniteParts
  <2> QED BY <2>1, FS_Subset
<1> HIDE DEF Done, DoneNext
<1>6. Cardinality(Done \cup {u}) = Cardinality(Done) + 1
  BY <1>5, FS_AddElement
<1>7. completed = Cardinality(Done)
  BY DEF AllReported, Done
<1>8. completed' = Cardinality(DoneNext)
  BY <1>1, <1>4, <1>6, <1>7
<1>9. user'.pc = "done" => \A v \in 1..size' : results'[v] # <<>>
  <2>1. \A v \in 1..size : v \in Uploads
    BY Sizes DEF Types, Uploads
  <2>2. user' = user /\ size' = size
    OBVIOUS
  <2>3. user.pc = "done" => \A v \in 1..size : results[v] # <<>>
    BY DEF AllReported
  <2>4. \A v \in Uploads : results[v] # <<>> => results'[v] # <<>>
    BY <1>1, <1>3
  <2> QED BY <2>1, <2>2, <2>3, <2>4
<1> QED BY <1>2, <1>8, <1>9 DEF AllReported, DoneNext

\* Where an upload is whose message a loop has.
LEMMA StageOfHeld ==
  ASSUME EInv, UInv, NEW l \in Loops, Held(l)
  PROVE  /\ loop[l].pc = "initiated" =>
              loop[l].msg = <<Up(l), Initiate>> /\ Starting(Up(l))
         /\ loop[l].pc \in {"part", "abort", "count"} =>
              /\ Transferring(Up(l)) /\ loop[l].msg[2] \in PartIds
              /\ ~Counted(Up(l), loop[l].msg[2])
         /\ loop[l].pc \in {"last", "announce"} =>
              Closing(l, Up(l)) /\ Deciding(Up(l)) /\ loop[l].msg[2] \in PartIds
         /\ loop[l].pc = "finished" =>
              loop[l].msg = <<Up(l), Final>> /\ Finishing(Up(l))
<1> USE Sizes
<1> DEFINE u == Up(l)
           i == loop[l].msg[2]
<1>1. u \in Uploads /\ i \in 0..Final /\ loop[l].msg = <<u, i>> /\ loop[l].pc \in LoopPcs
      /\ loop[l].msg \in Messages
  BY LoopFacts DEF EInv
<1>2. loop[l].pc = "initiated" <=> i = Initiate
  BY DEF EInv, Kinds
<1>3. loop[l].pc = "finished" <=> i = Final
  BY DEF EInv, Kinds
<1>4. Stage(u) /\ PartsRecorded(u) /\ Single
  BY <1>1 DEF UInv
<1>5. Taken(<<u, i>>) /\ ~Over(<<u, i>>) /\ sent[<<u, i>>] = 1
  BY <1>1, <1>4 DEF Single, Taken, Over
<1> HIDE DEF u, i
<1>6. ASSUME loop[l].pc = "initiated" PROVE loop[l].msg = <<u, Initiate>> /\ Starting(u)
  <2>1. ~Over(<<u, Initiate>>) /\ loop[l].msg = <<u, Initiate>>
    BY <1>1, <1>2, <1>5, <1>6
  <2> QED
    BY <1>4, <2>1 DEF Stage, Refused, Built, Transferring, Deciding, Ready, Finishing,
                      Reported, Decided, Accepted
<1>7. ASSUME loop[l].pc = "finished" PROVE loop[l].msg = <<u, Final>> /\ Finishing(u)
  <2>1. ~Over(<<u, Final>>) /\ Taken(<<u, Final>>) /\ loop[l].msg = <<u, Final>>
    BY <1>1, <1>3, <1>5, <1>7
  <2>2. ~NoneTaken(u)
    BY <2>1 DEF NoneTaken
  <2> QED
    BY <1>4, <2>1, <2>2 DEF Stage, Starting, Refused, Built, Transferring, Deciding, Ready,
                            Reported
<1>8. ASSUME loop[l].pc \in {"part", "abort", "count"}
      PROVE  Transferring(u) /\ i \in PartIds /\ ~Counted(u, i)
  <2>1. i \in PartIds
    BY <1>1, <1>2, <1>3, <1>8
  <2>2. ~Counted(u, i)
    BY <1>1, <1>8 DEF Counted
  <2>3. outstanding[u] # 0
    <3>1. i \in Uncounted(u)
      BY <2>1, <2>2 DEF Uncounted
    <3>2. Uncounted(u) # {} /\ IsFiniteSet(Uncounted(u))
      BY <3>1, FiniteParts
    <3>3. Cardinality(Uncounted(u)) # 0
      BY <3>2, FS_EmptySet
    <3> QED BY <1>4, <3>3 DEF PartsRecorded
  <2>4. ~NoneTaken(u)
    BY <1>5, <2>1 DEF NoneTaken
  <2>5. Transferring(u)
    BY <1>4, <2>3, <2>4 DEF Stage, Starting, Refused, Built, Deciding, Ready, Finishing,
                            Reported, Decided
  <2> QED BY <2>1, <2>2, <2>5
<1>9. ASSUME loop[l].pc \in {"last", "announce"}
      PROVE  Closing(l, u) /\ Deciding(u) /\ i \in PartIds
  <2>1. i \in PartIds
    BY <1>1, <1>2, <1>3, <1>9
  <2>2. Closing(l, u) /\ ~Unclosed(u)
    BY <1>9 DEF Closing, Unclosed, u
  <2>3. Deciding(u)
    BY <1>4, <2>2 DEF Stage, Starting, Refused, Built, Transferring, Ready, Finishing,
                      Reported, Decided
  <2> QED BY <2>1, <2>2, <2>3
<1> QED BY <1>6, <1>7, <1>8, <1>9 DEF u, i

\* A callback is about one upload: the others stay as they are.
LEMMA CallbackOfOne ==
  ASSUME EInv, UInv, NEW l \in Loops, NEW pc \in LoopPcs, Goto(l, pc), Held(l),
         UNCHANGED <<user, size, messageCounter, sent, flight, failed>>,
         \A v \in Uploads : v # Up(l) =>
           /\ state'[v] = state[v] /\ outstanding'[v] = outstanding[v] /\ eTags'[v] = eTags[v]
           /\ final'[v] = final[v] /\ results'[v] = results[v],
         NEW u, u = Up(l), Single', AllReported', Stage(u)', PartsRecorded(u)'
  PROVE  UInv'
<1>1. Gathering'
  BY GatheringKept DEF UInv
<1>2. ASSUME NEW v \in Uploads, v # Up(l) PROVE Stage(v)' /\ PartsRecorded(v)'
  <2>1. Apart(v)
    BY <1>2, OthersApart DEF EInv
  <2> QED BY <2>1, ApartStays DEF UInv
<1> QED BY <1>1, <1>2 DEF UInv

\* What a callback leaves alone of its own upload.
LEMMA OwnUpload ==
  ASSUME Types, NEW l \in Loops, NEW pc \in LoopPcs, Goto(l, pc), Held(l),
         UNCHANGED <<user, sent, flight, failed>>, NEW u, u = Up(l)
  PROVE  /\ NoneTaken(u)' <=> NoneTaken(u)
         /\ PartsTaken(u)' <=> PartsTaken(u)
         /\ Taken(<<u, Final>>)' <=> Taken(<<u, Final>>)
         /\ loop[l].msg # <<u, Initiate>> =>
              /\ Over(<<u, Initiate>>)' <=> Over(<<u, Initiate>>)
              /\ Accepted(u)' <=> Accepted(u)
         /\ loop[l].msg # <<u, Final>> => (Over(<<u, Final>>)' <=> Over(<<u, Final>>))
         /\ \A i \in PartIds : <<u, i>> # loop[l].msg =>
              (Counted(u, i)' <=> Counted(u, i)) /\ (Unrecorded(u, i)' <=> Unrecorded(u, i))
<1> USE Sizes
<1>1. u \in Uploads
  BY LoopFacts
<1>2. /\ \A i \in 1..Final : <<u, i>> \in Messages
      /\ <<u, Initiate>> \in Messages /\ <<u, Final>> \in Messages
      /\ PartIds \subseteq 1..Final /\ Final \in 1..Final
  BY <1>1, MessageFacts
<1>3. \A i \in 1..Final : Taken(<<u, i>>)' <=> Taken(<<u, i>>)
  BY <1>2, GotoApart
<1>4. /\ loop[l].msg # <<u, Initiate>> => (Over(<<u, Initiate>>)' <=> Over(<<u, Initiate>>))
      /\ loop[l].msg # <<u, Final>> => (Over(<<u, Final>>)' <=> Over(<<u, Final>>))
  BY <1>2, GotoApart
<1>5. \A i \in PartIds : <<u, i>> # loop[l].msg =>
        (Counted(u, i)' <=> Counted(u, i)) /\ (Unrecorded(u, i)' <=> Unrecorded(u, i))
  BY <1>1, GotoApart
<1> QED BY <1>2, <1>3, <1>4, <1>5 DEF NoneTaken, PartsTaken, Accepted

\* Nobody else has the message of a loop, nor closes the upload that it closes.
LEMMA Alone ==
  ASSUME Types, Single, NEW l \in Loops, NEW pc \in LoopPcs, Goto(l, pc), Held(l),
         UNCHANGED <<sent, flight>>, NEW u \in Uploads, u = Up(l)
  PROVE  /\ pc = "idle" => \A m \in Messages : m = loop[l].msg => Over(m)'
         /\ pc \notin {"part", "abort", "count"} =>
              \A i \in PartIds : loop[l].msg = <<u, i>> =>
                Counted(u, i)' /\ ~Unrecorded(u, i)'
         /\ pc = "count" =>
              \A i \in PartIds : loop[l].msg = <<u, i>> => ~Unrecorded(u, i)'
         /\ pc \notin {"last", "announce"} /\ (Closing(l, u) \/ Unclosed(u)) => Unclosed(u)'
<1>1. /\ loop'[l].pc = pc /\ loop'[l].msg = loop[l].msg
      /\ \A k \in Loops : k # l => loop'[k] = loop[k]
  BY GotoFacts
<1>2. \A k \in Loops : loop'[k].msg = loop[k].msg /\ Up(k)' = Up(k)
  BY <1>1 DEF Up
<1>3. sent[loop[l].msg] = 1 /\ flight[loop[l].msg] = 0
  BY DEF Single
<1>4. \A k \in Loops : k # l /\ loop[k].msg = loop[l].msg => ~Held(k)
  BY DEF Single
<1>5. ASSUME pc = "idle", NEW m \in Messages, m = loop[l].msg PROVE Over(m)'
  <2>1. \A k \in Loops : loop'[k].msg = m => ~Held(k)'
    BY <1>1, <1>2, <1>4, <1>5 DEF Held
  <2> QED BY <1>3, <1>5, <2>1 DEF Over
<1>6. ASSUME pc \notin {"part", "abort", "count"}, NEW i \in PartIds,
             loop[l].msg = <<u, i>>
      PROVE  Counted(u, i)' /\ ~Unrecorded(u, i)'
  <2>1. \A k \in Loops : loop'[k].msg = <<u, i>> => loop'[k].pc \notin {"part", "abort", "count"}
    BY <1>1, <1>2, <1>4, <1>6 DEF Held
  <2> QED BY <1>3, <1>6, <2>1 DEF Counted, Unrecorded
<1>7. ASSUME pc = "count", NEW i \in PartIds, loop[l].msg = <<u, i>>
      PROVE  ~Unrecorded(u, i)'
  <2>1. \A k \in Loops : loop'[k].msg = <<u, i>> => loop'[k].pc \notin {"part", "abort"}
    BY <1>1, <1>2, <1>4, <1>7 DEF Held
  <2> QED BY <2>1 DEF Unrecorded
<1>8. ASSUME pc \notin {"last", "announce"}, Closing(l, u) \/ Unclosed(u) PROVE Unclosed(u)'
  <2>1. ASSUME NEW k \in Loops PROVE ~Closing(k, u)'
    <3>1. CASE k = l
      BY <1>1, <1>8, <3>1 DEF Closing
    <3>2. CASE k # l
      <4>1. Closing(k, u)' => Closing(k, u)
        BY <1>1, <1>2, <3>2 DEF Closing
      <4>2. ~Closing(k, u)
        BY <1>8, <3>2 DEF Single, Unclosed
      <4> QED BY <4>1, <4>2
    <3> QED BY <3>1, <3>2
  <2> QED BY <2>1 DEF Unclosed
<1> QED BY <1>5, <1>6, <1>7, <1>8

LEMMA UInitiated ==
  ASSUME EInv, UInv, NEW l \in Loops, Initiated(l) PROVE UInv'
<1> USE Sizes
<1> PICK u \in Uploads : u = Up(l)
  BY LoopFacts DEF EInv
<1>1. Types /\ Single /\ AllReported /\ Held(l) /\ loop[l].ok \in BOOLEAN
  BY LoopFacts DEF EInv, UInv, Initiated, At, Held
<1>2. /\ Goto(l, "idle") /\ "idle" \in LoopPcs
      /\ UNCHANGED <<user, size, messageCounter, sent, flight, failed, outstanding, eTags, final>>
  BY DEF Initiated, LoopUnchanged, LoopPcs
<1>3. loop[l].msg = <<u, Initiate>> /\ Starting(u) /\ PartsRecorded(u)
  BY <1>1, StageOfHeld DEF Initiated, At, UInv
<1>4. state \in [Uploads -> States] /\ results \in [Uploads -> Seq(Reports)]
  BY <1>1 DEF Types
<1>5. Single'
  BY <1>1, <1>2, SingleGoto
<1>6. <<u, Initiate>> \in Messages /\ \A i \in PartIds : <<u, i>> # loop[l].msg
  BY <1>3, MessageFacts
<1>7. /\ NoneTaken(u)' /\ Over(<<u, Initiate>>)' /\ Unclosed(u)'
      /\ \A i \in PartIds :
           (Counted(u, i)' <=> Counted(u, i)) /\ (Unrecorded(u, i)' <=> Unrecorded(u, i))
  BY <1>1, <1>2, <1>3, <1>6, OwnUpload, Alone DEF Starting
<1>8. Uncounted(u)' = Uncounted(u)
  BY <1>7 DEF Uncounted
<1>9. state[u] = "Default" /\ final[u] = "none" /\ results[u] = <<>>
  BY <1>3 DEF Starting
<1>10. CASE loop[l].ok
  <2>1. state' = [state EXCEPT ![u] = "Sending"] /\ UNCHANGED <<completed, results>>
    BY <1>10 DEF Initiated, SetState
  <2>2. state'[u] = "Sending" /\ \A v \in Uploads : v # u => state'[v] = state[v]
    BY <1>1, <1>4, <2>1
  <2>3. AllReported'
    BY <1>1, <1>2, <2>1, ReportedKept
  <2>4. <<u, Initiate>> \notin failed
    BY <1>1, <1>3, <1>10 DEF Single
  <2>5. Stage(u)'
    BY <1>2, <1>7, <1>9, <2>1, <2>2, <2>4 DEF Stage, Built, Accepted
  <2>6. PartsRecorded(u)'
    BY <1>2, <1>3, <1>7, <1>8, <1>9 DEF PartsRecorded
  <2> QED BY <1>1, <1>2, <1>5, <2>1, <2>2, <2>3, <2>5, <2>6, CallbackOfOne
<1>11. CASE ~loop[l].ok
  <2>1. state' = state /\ Complete(u, "failed") /\ "failed" \in Reports
    BY <1>11 DEF Initiated, Reports
  <2>2. /\ AllReported' /\ results'[u] = <<"failed">>
        /\ \A v \in Uploads : v # u => results'[v] = results[v]
    BY <1>1, <1>2, <1>9, <2>1, ReportedComplete, CompleteFacts
  <2>3. <<u, Initiate>> \in failed
    BY <1>1, <1>3, <1>11 DEF EInv, Errors
  <2>4. Stage(u)'
    BY <1>2, <1>7, <1>9, <2>1, <2>2, <2>3 DEF Stage, Refused
  <2>5. PartsRecorded(u)'
    BY <1>2, <1>3, <1>7, <1>8, <2>1 DEF PartsRecorded
  <2> QED BY <1>1, <1>2, <1>5, <2>1, <2>2, <2>4, <2>5, CallbackOfOne
<1> QED BY <1>10, <1>11

\* A part whose callback goes on: it is not counted yet.
LEMMA UnderWay ==
  ASSUME EInv, UInv, NEW l \in Loops, loop[l].pc \in {"part", "abort", "count"}
  PROVE  \E u \in Uploads, i \in PartIds :
           /\ u = Up(l) /\ i = loop[l].msg[2] /\ loop[l].msg = <<u, i>> /\ <<u, i>> \in Messages
           /\ Types /\ Single /\ AllReported /\ Held(l) /\ loop[l].ok \in BOOLEAN
           /\ Transferring(u) /\ PartsRecorded(u) /\ ~Counted(u, i)
           /\ <<u, i>> # <<u, Initiate>> /\ <<u, i>> # <<u, Final>>
           /\ (loop[l].ok => <<u, i>> \notin failed) /\ (~loop[l].ok => <<u, i>> \in failed)
<1>1. Held(l)
  BY DEF Held
<1>2. loop[l].msg[2] \in PartIds /\ Transferring(Up(l)) /\ ~Counted(Up(l), loop[l].msg[2])
  BY <1>1, StageOfHeld
<1>3. /\ Up(l) \in Uploads /\ loop[l].msg = <<Up(l), loop[l].msg[2]>> /\ loop[l].msg \in Messages
      /\ loop[l].ok \in BOOLEAN
  BY LoopFacts DEF EInv
<1>4. PartsRecorded(Up(l)) /\ Types /\ Single /\ AllReported
  BY <1>3 DEF EInv, UInv
<1>5. (loop[l].ok => loop[l].msg \notin failed) /\ (~loop[l].ok => loop[l].msg \in failed)
  BY <1>1 DEF EInv, UInv, Errors, Single
<1> QED BY <1>1, <1>2, <1>3, <1>4, <1>5, Sizes

\* The callback of a part that is neither the last one's nor counts down.
LEMMA StillTransferring ==
  ASSUME EInv, UInv, NEW l \in Loops, NEW pc \in {"abort", "count"},
         loop[l].pc \in {"part", "abort"}, Goto(l, pc),
         UNCHANGED <<user, size, messageCounter, sent, flight, failed, outstanding, final,
                     completed, results>>,
         NEW u \in Uploads, u = Up(l), NEW i \in PartIds, i = loop[l].msg[2],
         \A v \in Uploads : v # u => state'[v] = state[v] /\ eTags'[v] = eTags[v],
         state'[u] \in {state[u], "Aborted"}, eTags[u] \subseteq eTags'[u],
         loop[l].ok => i \in eTags'[u],
         pc = "count" /\ ~loop[l].ok => state'[u] = "Aborted"
  PROVE  UInv'
<1> USE Sizes
<1>1. /\ loop[l].msg = <<u, i>> /\ <<u, i>> \in Messages
      /\ Types /\ Single /\ AllReported /\ Held(l) /\ loop[l].ok \in BOOLEAN
      /\ Transferring(u) /\ PartsRecorded(u) /\ ~Counted(u, i)
      /\ <<u, i>> # <<u, Initiate>> /\ <<u, i>> # <<u, Final>>
      /\ (loop[l].ok => <<u, i>> \notin failed) /\ (~loop[l].ok => <<u, i>> \in failed)
  BY UnderWay
<1>2. pc \in LoopPcs /\ pc # "idle"
  BY DEF LoopPcs
<1>3. /\ loop'[l].pc = pc /\ loop'[l].msg = loop[l].msg
      /\ \A k \in Loops : k # l => loop'[k] = loop[k]
  BY <1>1, <1>2, GotoFacts
<1>4. Single'
  BY <1>1, <1>2, SingleGoto
<1>5. /\ PartsTaken(u)' /\ Accepted(u)' /\ ~Taken(<<u, Final>>)' /\ Unclosed(u)'
      /\ \A j \in PartIds : j # i =>
           (Counted(u, j)' <=> Counted(u, j)) /\ (Unrecorded(u, j)' <=> Unrecorded(u, j))
  <2>1. PartsTaken(u) /\ Accepted(u) /\ ~Taken(<<u, Final>>) /\ Unclosed(u)
    BY <1>1 DEF Transferring
  <2>2. Unclosed(u)'
    BY <1>1, <1>2, <2>1, Alone
  <2>3. \A j \in PartIds : j # i => <<u, j>> # loop[l].msg
    BY <1>1
  <2> QED BY <1>1, <1>2, <2>1, <2>2, <2>3, OwnUpload
<1>6. ~Counted(u, i)'
  BY <1>1, <1>3 DEF Counted
<1>7. Uncounted(u)' = Uncounted(u)
  BY <1>1, <1>5, <1>6 DEF Uncounted
<1>8. /\ state'[u] \in {"Processing", "Aborted"} /\ outstanding'[u] > 0
      /\ final'[u] = "none" /\ results'[u] = <<>>
  BY <1>1 DEF Transferring
<1>9. Stage(u)'
  BY <1>5, <1>8 DEF Stage, Transferring
<1>10. ~loop[l].ok /\ pc = "abort" => Unrecorded(u, i)'
  BY <1>1, <1>3 DEF Unrecorded
<1>11. PartsRecorded(u)'
  <2>1. outstanding'[u] = Cardinality(Uncounted(u))'
    BY <1>1, <1>7 DEF PartsRecorded
  <2>2. \A j \in PartIds : Counted(u, j)' /\ <<u, j>> \notin failed' => j \in eTags'[u]
    BY <1>1, <1>5, <1>6 DEF PartsRecorded
  <2>3. ASSUME NEW j \in PartIds, <<u, j>> \in failed'
        PROVE  state'[u] = "Aborted" \/ final'[u] = "abort" \/ Unrecorded(u, j)'
    <3>1. CASE j = i
      BY <1>1, <1>10, <2>3, <3>1
    <3>2. CASE j # i
      BY <1>1, <1>5, <2>3, <3>2 DEF PartsRecorded
    <3> QED BY <3>1, <3>2
  <2> QED BY <2>1, <2>2, <2>3 DEF PartsRecorded
<1>12. AllReported'
  BY <1>1, ReportedKept
<1> QED BY <1>1, <1>2, <1>4, <1>9, <1>11, <1>12, CallbackOfOne

LEMMA UPart ==
  ASSUME EInv, UInv, NEW l \in Loops, RecordETag(l) \/ RecordError(l) \/ SetAborted(l)
  PROVE  UInv'
<1>1. loop[l].pc \in {"part", "abort"}
  BY DEF RecordETag, RecordError, SetAborted, At
<1>2. PICK u \in Uploads, i \in PartIds :
        /\ u = Up(l) /\ i = loop[l].msg[2] /\ loop[l].msg = <<u, i>> /\ loop[l].ok \in BOOLEAN
        /\ Types /\ Held(l) /\ (loop[l].ok => <<u, i>> \notin failed)
  BY <1>1, UnderWay
<1>3. state \in [Uploads -> States] /\ eTags \in [Uploads -> SUBSET PartIds]
  BY <1>2 DEF Types
<1>4. UNCHANGED <<user, size, messageCounter, sent, flight, failed, outstanding, final,
                  completed, results>>
  BY DEF RecordETag, RecordError, SetAborted, LoopUnchanged
<1>5. CASE RecordETag(l)
  <2>1. /\ loop[l].ok /\ Goto(l, "count") /\ state' = state
        /\ eTags' = [eTags EXCEPT ![u] = @ \cup {i}]
    BY <1>2, <1>5 DEF RecordETag
  <2>2. i \in eTags'[u] /\ eTags[u] \subseteq eTags'[u]
        /\ \A v \in Uploads : v # u => eTags'[v] = eTags[v]
    BY <1>3, <2>1
  <2> QED BY <1>1, <1>2, <1>4, <2>1, <2>2, StillTransferring
<1>6. CASE RecordError(l)
  <2>1. ~loop[l].ok /\ Goto(l, "abort") /\ state' = state /\ eTags' = eTags
    BY <1>6 DEF RecordError
  <2> QED BY <1>1, <1>2, <1>4, <2>1, StillTransferring
<1>7. CASE SetAborted(l)
  <2>1. /\ loop[l].pc = "abort" /\ Goto(l, "count") /\ eTags' = eTags
        /\ state' = [state EXCEPT ![u] = "Aborted"]
    BY <1>2, <1>7 DEF SetAborted, SetState, At
  <2>2. state'[u] = "Aborted" /\ \A v \in Uploads : v # u => state'[v] = state[v]
    BY <1>3, <2>1
  <2>3. loop[l].ok => i \in eTags[u]
    BY <1>2, <2>1 DEF EInv, Kinds
  <2> QED BY <1>1, <1>2, <1>4, <2>1, <2>2, <2>3, StillTransferring
<1> QED BY <1>5, <1>6, <1>7

\* fetch_sub: one part less to count; who sees the last one closes the upload.
LEMMA UCountDown ==
  ASSUME EInv, UInv, NEW l \in Loops, CountDown(l) PROVE UInv'
<1> USE Sizes
<1>1. PICK u \in Uploads, i \in PartIds :
        /\ u = Up(l) /\ i = loop[l].msg[2] /\ loop[l].msg = <<u, i>> /\ <<u, i>> \in Messages
        /\ Types /\ Single /\ AllReported /\ Held(l) /\ loop[l].ok \in BOOLEAN
        /\ Transferring(u) /\ PartsRecorded(u) /\ ~Counted(u, i)
        /\ <<u, i>> # <<u, Initiate>> /\ <<u, i>> # <<u, Final>>
        /\ (loop[l].ok => <<u, i>> \notin failed) /\ (~loop[l].ok => <<u, i>> \in failed)
  BY UnderWay DEF CountDown, At
<1>2. loop[l].pc = "count"
  BY DEF CountDown, At
<1>3. PICK pc \in {"last", "idle"} :
        Goto(l, pc) /\ (pc = "last" <=> outstanding[u] = 1)
  BY <1>1 DEF CountDown
<1>4. pc \in LoopPcs
  BY DEF LoopPcs
<1>5. /\ outstanding' = [outstanding EXCEPT ![u] = @ - 1]
      /\ UNCHANGED <<user, size, messageCounter, sent, flight, failed, state, eTags, final,
                     completed, results>>
  BY <1>1 DEF CountDown, LoopUnchanged
<1>6. /\ outstanding'[u] = outstanding[u] - 1
      /\ \A v \in Uploads : v # u => outstanding'[v] = outstanding[v]
  BY <1>1, <1>5 DEF Types
<1>7. PartsTaken(u) /\ Accepted(u) /\ ~Taken(<<u, Final>>) /\ Unclosed(u)
  BY <1>1 DEF Transferring
<1>8. Single'
  BY <1>1, <1>3, <1>4, <1>5, <1>7, SingleGoto
<1>9. PartsTaken(u)' /\ Accepted(u)' /\ ~Taken(<<u, Final>>)'
  BY <1>1, <1>3, <1>4, <1>5, <1>7, OwnUpload
<1>10. Counted(u, i)' /\ ~Unrecorded(u, i)'
  BY <1>1, <1>3, <1>4, <1>5, Alone
<1>11. \A j \in PartIds : j # i =>
         (Counted(u, j)' <=> Counted(u, j)) /\ (Unrecorded(u, j)' <=> Unrecorded(u, j))
  <2>1. \A j \in PartIds : j # i => <<u, j>> # loop[l].msg
    BY <1>1
  <2> QED BY <1>1, <1>3, <1>4, <1>5, <2>1, OwnUpload
<1>12. outstanding'[u] = Cardinality(Uncounted(u)')
  <2>1. Uncounted(u)' = Uncounted(u) \ {i} /\ i \in Uncounted(u)
    BY <1>1, <1>10, <1>11 DEF Uncounted
  <2>2. Cardinality(Uncounted(u) \ {i}) = Cardinality(Uncounted(u)) - 1
    BY <2>1, FiniteParts, FS_RemoveElement
  <2> QED BY <1>1, <1>6, <2>1, <2>2 DEF PartsRecorded
<1>13. ~Unrecorded(u, i)
  <2>1. \A k \in Loops : k # l /\ loop[k].msg = <<u, i>> => ~Held(k)
    BY <1>1 DEF Single
  <2> QED BY <1>2, <2>1 DEF Unrecorded, Held
<1>14. PartsRecorded(u)'
  <2>1. \A j \in PartIds : Counted(u, j)' /\ <<u, j>> \notin failed' => j \in eTags'[u]
    <3>1. loop[l].ok => i \in eTags[u]
      BY <1>1, <1>2 DEF Single
    <3> QED BY <1>1, <1>5, <1>11, <3>1 DEF PartsRecorded
  <2>2. \A j \in PartIds : <<u, j>> \in failed' =>
          state'[u] = "Aborted" \/ final'[u] = "abort" \/ Unrecorded(u, j)'
    BY <1>1, <1>5, <1>11, <1>13 DEF PartsRecorded
  <2> QED BY <1>12, <2>1, <2>2 DEF PartsRecorded
<1>15. /\ state'[u] \in {"Processing", "Aborted"} /\ final'[u] = "none" /\ results'[u] = <<>>
       /\ outstanding[u] > 0 /\ outstanding[u] \in Int
  BY <1>1, <1>5 DEF Transferring, Types
<1>16. Stage(u)'
  <2>1. CASE pc = "last"
    <3>1. outstanding'[u] = 0
      BY <1>3, <1>6, <2>1
    <3>2. Closing(l, u)' /\ loop'[l].pc = "last"
      BY <1>1, <1>3, <1>4, <2>1, GotoFacts DEF Closing, Up
    <3> QED BY <1>9, <1>15, <3>1, <3>2 DEF Stage, Deciding
  <2>2. CASE pc = "idle"
    <3>1. outstanding'[u] > 0
      BY <1>3, <1>6, <1>15, <2>2
    <3>2. Unclosed(u)'
      BY <1>1, <1>3, <1>4, <1>5, <1>7, <2>2, Alone
    <3> QED BY <1>9, <1>15, <3>1, <3>2 DEF Stage, Transferring
  <2> QED BY <2>1, <2>2
<1>17. AllReported'
  BY <1>1, <1>5, ReportedKept
<1> QED BY <1>1, <1>3, <1>4, <1>5, <1>6, <1>8, <1>14, <1>16, <1>17, CallbackOfOne

\* The last one decides with what is recorded, and says so.
LEMMA UBuildFinal ==
  ASSUME EInv, UInv, NEW l \in Loops, BuildFinal(l) PROVE UInv'
<1> USE Sizes
<1> PICK u \in Uploads : u = Up(l)
  BY LoopFacts DEF EInv
<1>1. loop[l].pc = "last" /\ Held(l) /\ Goto(l, "announce") /\ "announce" \in LoopPcs
  BY DEF BuildFinal, At, Held, LoopPcs
<1>2. Types /\ Single /\ AllReported /\ Deciding(u) /\ Closing(l, u) /\ PartsRecorded(u)
      /\ loop[l].msg[2] \in PartIds /\ loop[l].msg = <<u, loop[l].msg[2]>>
  BY <1>1, StageOfHeld, LoopFacts DEF EInv, UInv
<1>3. /\ final' = [final EXCEPT ![u] = IF state[u] # "Aborted" THEN "complete" ELSE "abort"]
      /\ UNCHANGED <<user, size, messageCounter, sent, flight, failed, state, eTags,
                     outstanding, completed, results>>
  BY DEF BuildFinal, LoopUnchanged
<1>4. /\ final'[u] = IF state[u] # "Aborted" THEN "complete" ELSE "abort"
      /\ \A v \in Uploads : v # u => final'[v] = final[v]
  BY <1>2, <1>3 DEF Types
<1>5. final[u] = "none"
  <2>1. PICK k \in Loops : Closing(k, u) /\
          final[u] = IF loop[k].pc = "last" THEN "none"
                     ELSE IF state[u] # "Aborted" THEN "complete" ELSE "abort"
    BY <1>2 DEF Deciding
  <2>2. k = l
    BY <1>2, <2>1 DEF Single
  <2> QED BY <1>1, <2>1, <2>2
<1>6. Single'
  BY <1>1, <1>2, <1>3, SingleGoto
<1>7. loop[l].msg # <<u, Initiate>> /\ loop[l].msg # <<u, Final>>
  BY <1>2
<1>8. PartsTaken(u)' /\ Accepted(u)' /\ ~Taken(<<u, Final>>)'
  BY <1>1, <1>2, <1>3, <1>7, OwnUpload DEF Deciding
<1>9. Closing(l, u)' /\ loop'[l].pc = "announce" /\ loop'[l].msg = loop[l].msg
      /\ \A k \in Loops : k # l => loop'[k] = loop[k]
  BY <1>1, <1>2, GotoFacts DEF Closing, Up
<1>10. \A j \in PartIds : (Counted(u, j)' <=> Counted(u, j)) /\ (Unrecorded(u, j)' <=> Unrecorded(u, j))
  BY <1>1, <1>3, <1>9 DEF Counted, Unrecorded
<1>11. Stage(u)'
  BY <1>2, <1>3, <1>4, <1>8, <1>9 DEF Stage, Deciding
<1>12. Uncounted(u)' = Uncounted(u)
  BY <1>10 DEF Uncounted
<1>13. PartsRecorded(u)'
  BY <1>2, <1>3, <1>5, <1>10, <1>12 DEF PartsRecorded
<1>14. AllReported'
  BY <1>2, <1>3, ReportedKept
<1> QED BY <1>1, <1>2, <1>3, <1>4, <1>6, <1>11, <1>13, <1>14, CallbackOfOne

LEMMA UAnnounce ==
  ASSUME EInv, UInv, NEW l \in Loops, Announce(l) PROVE UInv'
<1> USE Sizes
<1> PICK u \in Uploads : u = Up(l)
  BY LoopFacts DEF EInv
<1>1. loop[l].pc = "announce" /\ Held(l) /\ Goto(l, "idle") /\ "idle" \in LoopPcs
  BY DEF Announce, At, Held, LoopPcs
<1>2. Types /\ Single /\ AllReported /\ Deciding(u) /\ Closing(l, u) /\ PartsRecorded(u)
      /\ loop[l].msg[2] \in PartIds /\ loop[l].msg = <<u, loop[l].msg[2]>>
  BY <1>1, StageOfHeld, LoopFacts DEF EInv, UInv
<1>3. /\ state' = [state EXCEPT ![u] = "Validating"]
      /\ UNCHANGED <<user, size, messageCounter, sent, flight, failed, final, eTags,
                     outstanding, completed, results>>
  BY DEF Announce, LoopUnchanged, SetState
<1>4. state'[u] = "Validating" /\ \A v \in Uploads : v # u => state'[v] = state[v]
  BY <1>2, <1>3 DEF Types
<1>5. final[u] = IF state[u] # "Aborted" THEN "complete" ELSE "abort"
  <2>1. PICK k \in Loops : Closing(k, u) /\
          final[u] = IF loop[k].pc = "last" THEN "none"
                     ELSE IF state[u] # "Aborted" THEN "complete" ELSE "abort"
    BY <1>2 DEF Deciding
  <2>2. k = l
    BY <1>2, <2>1 DEF Single
  <2> QED BY <1>1, <2>1, <2>2
<1>6. Single'
  BY <1>1, <1>2, <1>3, SingleGoto
<1>7. loop[l].msg # <<u, Initiate>> /\ loop[l].msg # <<u, Final>>
  BY <1>2
<1>8. PartsTaken(u)' /\ Accepted(u)' /\ ~Taken(<<u, Final>>)'
  BY <1>1, <1>2, <1>3, <1>7, OwnUpload DEF Deciding
<1>9. Unclosed(u)'
  BY <1>1, <1>2, <1>3, Alone
<1>10. \A j \in PartIds : (Counted(u, j)' <=> Counted(u, j)) /\ (Unrecorded(u, j)' <=> Unrecorded(u, j))
  <2>1. /\ loop'[l].pc = "idle" /\ loop'[l].msg = loop[l].msg
        /\ \A k \in Loops : k # l => loop'[k] = loop[k]
    BY <1>1, <1>2, GotoFacts
  <2> QED BY <1>1, <1>3, <2>1 DEF Counted, Unrecorded
<1>11. outstanding'[u] = 0 /\ results'[u] = <<>> /\ final'[u] # "none"
  BY <1>2, <1>3, <1>5 DEF Deciding
<1>12. Stage(u)'
  BY <1>4, <1>8, <1>9, <1>11 DEF Stage, Ready, Decided
<1>13. Uncounted(u)' = Uncounted(u)
  BY <1>10 DEF Uncounted
<1>14. PartsRecorded(u)'
  BY <1>2, <1>3, <1>5, <1>10, <1>13 DEF PartsRecorded
<1>15. AllReported'
  BY <1>2, <1>3, ReportedKept
<1> QED BY <1>1, <1>2, <1>3, <1>4, <1>6, <1>12, <1>14, <1>15, CallbackOfOne

LEMMA UFinished ==
  ASSUME EInv, UInv, NEW l \in Loops, Finished(l) PROVE UInv'
<1> USE Sizes
<1> PICK u \in Uploads : u = Up(l)
  BY LoopFacts DEF EInv
<1>1. loop[l].pc = "finished" /\ Held(l) /\ Goto(l, "idle") /\ "idle" \in LoopPcs
  BY DEF Finished, At, Held, LoopPcs
<1>2. /\ Types /\ Single /\ AllReported /\ Finishing(u) /\ PartsRecorded(u)
      /\ loop[l].msg = <<u, Final>> /\ loop[l].ok \in BOOLEAN
  BY <1>1, StageOfHeld, LoopFacts DEF EInv, UInv
<1>3. UNCHANGED <<user, size, messageCounter, sent, flight, failed, state, final, eTags,
                  outstanding, errorMessageId>>
  BY DEF Finished, LoopUnchanged, uploadVars
<1>4. PICK r \in {"finished", "cancelled"} :
        Complete(u, r) /\ (r = "finished" <=> final[u] = "complete" /\ loop[l].ok)
  BY DEF Finished
<1>5. loop[l].ok <=> <<u, Final>> \notin failed
  BY <1>1, <1>2 DEF EInv, Errors, Single
<1>6. results[u] = <<>> /\ r \in Reports
  BY <1>2 DEF Finishing, Reports
<1>7. /\ AllReported' /\ results'[u] = <<r>>
      /\ \A v \in Uploads : v # u => results'[v] = results[v]
  BY <1>2, <1>3, <1>4, <1>6, ReportedComplete, CompleteFacts
<1>8. Single'
  BY <1>1, <1>2, <1>3, SingleGoto
<1>9. <<u, Final>> \in Messages /\ <<u, Final>> # <<u, Initiate>>
      /\ \A j \in PartIds : <<u, j>> # <<u, Final>>
  BY MessageFacts
<1>10. Decided(u)
  BY <1>2 DEF Finishing
<1>11. /\ PartsTaken(u)' /\ Accepted(u)'
       /\ \A j \in PartIds :
            (Counted(u, j)' <=> Counted(u, j)) /\ (Unrecorded(u, j)' <=> Unrecorded(u, j))
  BY <1>1, <1>2, <1>3, <1>9, <1>10, OwnUpload DEF Decided
<1>12. Over(<<u, Final>>)' /\ Unclosed(u)'
  BY <1>1, <1>2, <1>3, <1>9, <1>10, Alone DEF Decided
<1>13. Decided(u)'
  BY <1>3, <1>10, <1>11, <1>12 DEF Decided
<1>14. Stage(u)'
  BY <1>2, <1>3, <1>4, <1>5, <1>7, <1>12, <1>13 DEF Stage, Reported, Finishing
<1>15. Uncounted(u)' = Uncounted(u)
  BY <1>11 DEF Uncounted
<1>16. PartsRecorded(u)'
  BY <1>2, <1>3, <1>11, <1>15 DEF PartsRecorded
<1> QED BY <1>1, <1>2, <1>3, <1>7, <1>8, <1>14, <1>16, CallbackOfOne

-----------------------------------------------------------------------------
(* Answers                                                                 *)

\* Where an upload is that a request of is in flight.
LEMMA StageOfFlight ==
  ASSUME EInv, UInv, NEW u \in Uploads, NEW i \in 0..Final, flight[<<u, i>>] > 0
  PROVE  /\ i = Initiate => Starting(u)
         /\ i \in PartIds => Transferring(u)
         /\ i = Final => Finishing(u)
         /\ sent[<<u, i>>] = 1 /\ flight[<<u, i>>] = 1 /\ <<u, i>> \notin failed
<1> USE Sizes
<1>1. <<u, i>> \in Messages /\ Single /\ Stage(u) /\ PartsRecorded(u) /\ Types
  BY MessageFacts DEF EInv, UInv
<1>2. flight[<<u, i>>] \in Nat /\ sent[<<u, i>>] \in Nat
  BY <1>1 DEF Types
<1>3. sent[<<u, i>>] = 1 /\ flight[<<u, i>>] = 1 /\ <<u, i>> \notin failed
  <2>1. sent[<<u, i>>] <= 1 /\ flight[<<u, i>>] <= sent[<<u, i>>]
        /\ (<<u, i>> \in failed => flight[<<u, i>>] = 0)
    BY <1>1 DEF Single
  <2> QED BY <1>2, <2>1
<1>4. Taken(<<u, i>>) /\ ~Over(<<u, i>>)
  BY <1>3 DEF Taken, Over
<1>5. ASSUME i = Initiate PROVE Starting(u)
  <2>1. ~Over(<<u, Initiate>>)
    BY <1>4, <1>5
  <2> QED
    BY <1>1, <2>1 DEF Stage, Refused, Built, Transferring, Deciding, Ready, Finishing,
                      Reported, Decided, Accepted
<1>6. ASSUME i = Final PROVE Finishing(u)
  <2>1. ~Over(<<u, Final>>) /\ Taken(<<u, Final>>)
    BY <1>4, <1>6
  <2>2. ~NoneTaken(u)
    BY <2>1 DEF NoneTaken
  <2> QED
    BY <1>1, <2>1, <2>2 DEF Stage, Starting, Refused, Built, Transferring, Deciding, Ready,
                            Reported
<1>7. ASSUME i \in PartIds PROVE Transferring(u)
  <2>1. i \in Uncounted(u)
    BY <1>3, <1>7 DEF Uncounted, Counted
  <2>2. Uncounted(u) # {} /\ IsFiniteSet(Uncounted(u))
    BY <2>1, FiniteParts
  <2>3. Cardinality(Uncounted(u)) # 0
    BY <2>2, FS_EmptySet
  <2>4. outstanding[u] # 0
    BY <1>1, <2>3 DEF PartsRecorded
  <2>5. ~NoneTaken(u)
    BY <1>4, <1>7 DEF NoneTaken
  <2> QED
    BY <1>1, <2>4, <2>5 DEF Stage, Starting, Refused, Built, Deciding, Ready, Finishing,
                            Reported, Decided
<1> QED BY <1>3, <1>5, <1>6, <1>7

LEMMA AnswerApart ==
  ASSUME EInv, UInv, NEW l \in Loops, NEW m \in Messages, NEW ok \in BOOLEAN,
         Answer(l, m, ok)
  PROVE  /\ \A n \in Messages : (Taken(n)' <=> Taken(n)) /\ (Over(n)' <=> Over(n))
         /\ \A v \in Uploads, i \in PartIds : Counted(v, i)' <=> Counted(v, i)
         /\ \A v \in Uploads, i \in PartIds : <<v, i>> # m => (Unrecorded(v, i)' <=> Unrecorded(v, i))
         /\ \A v \in Uploads, k \in Loops :
              /\ Closing(k, v)' <=> Closing(k, v)
              /\ Closing(k, v) => loop'[k].pc = loop[k].pc
<1> USE Sizes
<1>1. /\ loop[l].pc = "idle" /\ loop'[l].msg = m
      /\ loop'[l].pc \in {"initiated", "finished", "part"}
      /\ m[2] \in PartIds => loop'[l].pc = "part"
      /\ \A k \in Loops : k # l => loop'[k] = loop[k]
  BY AnswerFacts DEF EInv
<1>2. /\ flight[m] > 0 /\ flight' = [flight EXCEPT ![m] = @ - 1] /\ flight \in [Messages -> Nat]
      /\ sent' = sent /\ user' = user
  BY DEF Answer, LoopUnchanged, EInv, Types
<1>3. \A n \in Messages : n # m => flight'[n] = flight[n]
  BY <1>2
<1>4. \A n \in Messages : Taken(n)' <=> Taken(n)
  BY <1>2 DEF Taken
<1>5. ASSUME NEW n \in Messages PROVE Over(n)' <=> Over(n)
  <2>1. CASE n = m
    <3>1. ~Over(n)
      BY <1>2, <2>1 DEF Over
    <3>2. ~Over(n)'
      BY <1>1, <2>1 DEF Over, Held
    <3> QED BY <3>1, <3>2
  <2>2. CASE n # m
    BY <1>1, <1>2, <1>3, <2>2 DEF Over, Held
  <2> QED BY <2>1, <2>2
<1>6. ASSUME NEW v \in Uploads, NEW i \in PartIds PROVE Counted(v, i)' <=> Counted(v, i)
  <2>1. <<v, i>> \in Messages
    BY MessageFacts
  <2>2. CASE <<v, i>> = m
    <3>1. ~Counted(v, i)
      BY <1>2, <2>2 DEF Counted
    <3>2. ~Counted(v, i)'
      BY <1>1, <2>2 DEF Counted
    <3> QED BY <3>1, <3>2
  <2>3. CASE <<v, i>> # m
    BY <1>1, <1>2, <1>3, <2>1, <2>3 DEF Counted
  <2> QED BY <2>2, <2>3
<1>7. ASSUME NEW v \in Uploads, NEW i \in PartIds, <<v, i>> # m
      PROVE  Unrecorded(v, i)' <=> Unrecorded(v, i)
  BY <1>1, <1>7 DEF Unrecorded
<1>8. ASSUME NEW v \in Uploads, NEW k \in Loops
      PROVE  /\ Closing(k, v)' <=> Closing(k, v)
             /\ Closing(k, v) => loop'[k].pc = loop[k].pc
  <2>1. CASE k = l
    BY <1>1, <2>1 DEF Closing
  <2>2. CASE k # l
    BY <1>1, <2>2 DEF Closing, Up
  <2> QED BY <2>1, <2>2
<1> QED BY <1>4, <1>5, <1>6, <1>7, <1>8

LEMMA SingleAnswer ==
  ASSUME EInv, UInv, NEW l \in Loops, NEW m \in Messages, NEW ok \in BOOLEAN,
         Answer(l, m, ok)
  PROVE  Single'
<1> USE Sizes
<1>1. /\ loop[l].pc = "idle" /\ loop'[l].msg = m /\ loop'[l].ok = ok
      /\ loop'[l].pc \in {"initiated", "finished", "part"}
      /\ \A k \in Loops : k # l => loop'[k] = loop[k]
  BY AnswerFacts DEF EInv
<1>2. /\ flight' = [flight EXCEPT ![m] = @ - 1] /\ flight \in [Messages -> Nat]
      /\ sent' = sent /\ user' = user /\ eTags' = eTags
      /\ failed' = IF ok THEN failed ELSE failed \cup {m}
  BY DEF Answer, LoopUnchanged, EInv, Types, uploadVars
<1>3. sent[m] = 1 /\ flight[m] = 1 /\ m \notin failed
  <2>1. m = <<m[1], m[2]>> /\ m[1] \in Uploads /\ m[2] \in 0..Final /\ flight[m] > 0
    BY MessageFacts DEF Answer
  <2> QED BY <2>1, StageOfFlight
<1>4. flight'[m] = 0 /\ \A n \in Messages : n # m => flight'[n] = flight[n]
  BY <1>2, <1>3
<1>5. Single
  BY DEF UInv
<1>6. \A n \in Messages :
        /\ sent'[n] <= 1 /\ flight'[n] <= sent'[n]
        /\ n \in user'.batch => sent'[n] = 0
        /\ n \in failed' => sent'[n] = 1 /\ flight'[n] = 0
  <2> SUFFICES ASSUME NEW n \in Messages
               PROVE  /\ sent'[n] <= 1 /\ flight'[n] <= sent'[n]
                      /\ n \in user'.batch => sent'[n] = 0
                      /\ n \in failed' => sent'[n] = 1 /\ flight'[n] = 0
    OBVIOUS
  <2>1. CASE n = m
    BY <1>2, <1>3, <1>4, <1>5, <2>1 DEF Single
  <2>2. CASE n # m
    BY <1>2, <1>4, <1>5, <2>2 DEF Single
  <2> QED BY <2>1, <2>2
<1>7. \A k \in Loops : k # l /\ Held(k)' => Held(k) /\ loop'[k] = loop[k] /\ loop[k].msg # m
  BY <1>1, <1>3, <1>5 DEF Single, Held
<1>8. ASSUME NEW k \in Loops, Held(k)'
      PROVE  /\ sent'[loop'[k].msg] = 1 /\ flight'[loop'[k].msg] = 0
             /\ loop'[k].ok => loop'[k].msg \notin failed'
             /\ loop'[k].pc = "count" /\ loop'[k].ok => loop'[k].msg[2] \in eTags'[Up(k)']
  <2>1. CASE k = l
    BY <1>1, <1>2, <1>3, <1>4, <2>1
  <2>2. CASE k # l
    <3>1. Held(k) /\ loop'[k] = loop[k] /\ loop[k].msg # m /\ loop[k].msg \in Messages
      BY <1>7, <1>8, <2>2, LoopFacts DEF EInv
    <3>2. /\ sent[loop[k].msg] = 1 /\ flight[loop[k].msg] = 0
          /\ loop[k].ok => loop[k].msg \notin failed
          /\ loop[k].pc = "count" /\ loop[k].ok => loop[k].msg[2] \in eTags[Up(k)]
      BY <1>5, <3>1 DEF Single
    <3>3. Up(k)' = Up(k)
      BY <3>1 DEF Up
    <3> QED BY <1>2, <1>4, <3>1, <3>2, <3>3
  <2> QED BY <2>1, <2>2
<1>9. ASSUME NEW j \in Loops, NEW k \in Loops, Held(j)', Held(k)', loop'[j].msg = loop'[k].msg
      PROVE  j = k
  BY <1>1, <1>5, <1>7, <1>9 DEF Single
<1>10. ASSUME NEW j \in Loops, NEW k \in Loops, NEW u \in Uploads, Closing(j, u)', Closing(k, u)'
       PROVE  j = k
  BY <1>5, <1>10, AnswerApart DEF Single
<1> QED BY <1>6, <1>8, <1>9, <1>10 DEF Single

LEMMA UAnswer ==
  ASSUME EInv, UInv, NEW l \in Loops, NEW m \in Messages, NEW ok \in BOOLEAN,
         Answer(l, m, ok)
  PROVE  UInv'
<1> USE Sizes
<1>1. PICK u \in Uploads, i \in 0..Final : m = <<u, i>>
  BY MessageFacts
<1>2. /\ UNCHANGED <<state, outstanding, eTags, final, results, completed, user, size,
                     messageCounter, sent>>
      /\ failed' = IF ok THEN failed ELSE failed \cup {m}
  BY DEF Answer, LoopUnchanged, uploadVars
<1>3. Gathering' /\ AllReported'
  BY <1>2, GatheringKept, ReportedKept DEF UInv
<1>4. /\ PartIds \subseteq 0..Final /\ 1..Final \subseteq 0..Final
      /\ Initiate \in 0..Final /\ Final \in 0..Final
      /\ \A v \in Uploads, j \in 0..Final : <<v, j>> \in Messages
  BY MessageFacts
<1>5. /\ \A v \in Uploads, j \in 0..Final : (Taken(<<v, j>>)' <=> Taken(<<v, j>>)) /\ (Over(<<v, j>>)' <=> Over(<<v, j>>))
      /\ \A v \in Uploads, j \in PartIds : Counted(v, j)' <=> Counted(v, j)
      /\ \A v \in Uploads, j \in PartIds : <<v, j>> # m => (Unrecorded(v, j)' <=> Unrecorded(v, j))
      /\ \A v \in Uploads, k \in Loops :
           /\ Closing(k, v)' <=> Closing(k, v)
           /\ Closing(k, v) => loop'[k].pc = loop[k].pc
  BY <1>4, AnswerApart
<1>6. ASSUME NEW v \in Uploads, v # u PROVE Stage(v)' /\ PartsRecorded(v)'
  <2>1. \A j \in 0..Final : <<v, j>> # m
    BY <1>1, <1>6
  <2>2. \A j \in 0..Final : <<v, j>> \in failed' <=> <<v, j>> \in failed
    BY <1>2, <2>1
  <2>3. Apart(v)
    BY <1>2, <1>4, <1>5, <2>1, <2>2 DEF Apart
  <2> QED BY <2>3, ApartStays DEF UInv
<1>7. flight[<<u, i>>] > 0
  BY <1>1 DEF Answer
<1>8. Unclosed(u)' <=> Unclosed(u)
  BY <1>5 DEF Unclosed
<1>9. /\ NoneTaken(u)' <=> NoneTaken(u)
      /\ PartsTaken(u)' <=> PartsTaken(u)
      /\ Taken(<<u, Final>>)' <=> Taken(<<u, Final>>)
      /\ Over(<<u, Final>>)' <=> Over(<<u, Final>>)
      /\ Over(<<u, Initiate>>)' <=> Over(<<u, Initiate>>)
      /\ i # Initiate => (Accepted(u)' <=> Accepted(u))
  BY <1>1, <1>2, <1>4, <1>5 DEF NoneTaken, PartsTaken, Accepted
<1>10. Stage(u)'
  <2>1. CASE i = Initiate
    <3>1. Starting(u)
      BY <1>7, <2>1, StageOfFlight
    <3> QED BY <1>2, <1>8, <1>9, <3>1 DEF Stage, Starting
  <2>2. CASE i \in PartIds
    <3>1. Transferring(u)
      BY <1>7, <2>2, StageOfFlight
    <3> QED BY <1>2, <1>8, <1>9, <2>2, <3>1 DEF Stage, Transferring
  <2>3. CASE i = Final
    <3>1. Finishing(u)
      BY <1>7, <2>3, StageOfFlight
    <3> QED BY <1>2, <1>8, <1>9, <2>3, <3>1 DEF Stage, Finishing, Decided
  <2> QED BY <2>1, <2>2, <2>3
<1>11. PartsRecorded(u)'
  <2>1. PartsRecorded(u) /\ Uncounted(u)' = Uncounted(u)
    BY <1>5 DEF UInv, Uncounted
  <2>2. outstanding'[u] = Cardinality(Uncounted(u)')
    BY <1>2, <2>1 DEF PartsRecorded
  <2>3. \A j \in PartIds : Counted(u, j)' /\ <<u, j>> \notin failed' => j \in eTags'[u]
    BY <1>2, <1>5, <2>1 DEF PartsRecorded
  <2>4. ASSUME NEW j \in PartIds, <<u, j>> \in failed'
        PROVE  state'[u] = "Aborted" \/ final'[u] = "abort" \/ Unrecorded(u, j)'
    <3>1. CASE <<u, j>> = m
      <4>1. loop'[l].pc = "part" /\ loop'[l].msg = <<u, j>>
        BY <3>1, AnswerFacts DEF EInv
      <4> QED BY <4>1 DEF Unrecorded
    <3>2. CASE <<u, j>> # m
      BY <1>2, <1>5, <2>1, <2>4, <3>2 DEF PartsRecorded
    <3> QED BY <3>1, <3>2
  <2> QED BY <2>2, <2>3, <2>4 DEF PartsRecorded
<1> QED BY <1>3, <1>6, <1>10, <1>11, SingleAnswer DEF UInv

-----------------------------------------------------------------------------
(* The user                                                                *)

\* The user gathers: nothing is submitted, nothing is called back.
LEMMA GatherApart ==
  ASSUME UNCHANGED <<loop, failed, sent, flight, outstanding, eTags, final, results>>
  PROVE  /\ \A m : Over(m)' <=> Over(m)
         /\ \A v, i : (Counted(v, i)' <=> Counted(v, i)) /\ (Unrecorded(v, i)' <=> Unrecorded(v, i))
         /\ \A v : Uncounted(v)' = Uncounted(v)
         /\ \A v : Unclosed(v)' <=> Unclosed(v)
         /\ \A v : Accepted(v)' <=> Accepted(v)
         /\ \A v \in Uploads :
              /\ state'[v] = state[v]
              /\ \A i \in 1..Final : Taken(<<v, i>>)' <=> Taken(<<v, i>>)
              => Apart(v)
<1>1. \A m : Over(m)' <=> Over(m)
  BY DEF Over, Held
<1>2. \A v, i : (Counted(v, i)' <=> Counted(v, i)) /\ (Unrecorded(v, i)' <=> Unrecorded(v, i))
  BY DEF Counted, Unrecorded
<1>3. \A v, l : (Closing(l, v)' <=> Closing(l, v)) /\ loop'[l].pc = loop[l].pc
  BY DEF Closing, Up
<1>4. \A v : Uncounted(v)' = Uncounted(v)
  BY <1>2 DEF Uncounted
<1>5. \A v : (Unclosed(v)' <=> Unclosed(v)) /\ (Accepted(v)' <=> Accepted(v))
  BY <1>1, <1>3 DEF Unclosed, Accepted
<1> QED BY <1>1, <1>2, <1>3, <1>4, <1>5 DEF Apart

\* What a gathering step has to keep of Single.
LEMMA SingleGather ==
  ASSUME Single, UNCHANGED <<loop, failed, sent, flight, eTags>>,
         \A m \in user'.batch : m \in user.batch \/ sent[m] = 0
  PROVE  Single'
<1>1. \A l, v : (Held(l)' <=> Held(l)) /\ (Closing(l, v)' <=> Closing(l, v)) /\ Up(l)' = Up(l)
  BY DEF Held, Closing, Up
<1>2. \A m \in Messages :
        /\ sent'[m] <= 1 /\ flight'[m] <= sent'[m]
        /\ m \in user'.batch => sent'[m] = 0
        /\ m \in failed' => sent'[m] = 1 /\ flight'[m] = 0
  BY DEF Single
<1> QED BY <1>1, <1>2 DEF Single

LEMMA NotTaken ==
  ASSUME Types, Single, NEW m \in Messages, ~Taken(m) PROVE sent[m] = 0
BY DEF Types, Single, Taken

LEMMA UBegin == ASSUME EInv, UInv, Begin PROVE UInv'
<1> USE Sizes
<1>1. Types /\ Single /\ Gathering /\ AllReported
  BY DEF EInv, UInv
<1>2. /\ user.pc = "rest" /\ messageCounter' = size
      /\ user' = [Rest EXCEPT !.pc = "gather", !.counter = messageCounter,
                    !.batch = {<<u, Initiate>> : u \in (messageCounter + 1)..size}]
      /\ UNCHANGED <<state, flight, sent, rejects, sync, size, outstanding, errorMessageId,
                     eTags, final, completed, loop, failed, results>>
  BY DEF Begin, UserUnchanged
<1>3. /\ user'.pc = "gather" /\ user.batch = {}
      /\ user'.batch = {<<u, Initiate>> : u \in (messageCounter + 1)..size}
  BY <1>1, <1>2 DEF Rest, Gathering
<1>4. messageCounter \in 0..N /\ size \in 1..N /\ messageCounter <= size
  BY <1>1 DEF Types, Gathering, Uploads
<1>5. \A m \in user'.batch : sent[m] = 0
  <2> SUFFICES ASSUME NEW u \in (messageCounter + 1)..size PROVE sent[<<u, Initiate>>] = 0
    BY <1>3
  <2>1. u \in Uploads /\ ~(u <= messageCounter)
    BY <1>4 DEF Uploads
  <2>2. ~Taken(<<u, Initiate>>) /\ <<u, Initiate>> \in Messages
    BY <1>1, <2>1, MessageFacts DEF Gathering
  <2> QED BY <1>1, <2>2, NotTaken
<1>6. Single'
  BY <1>1, <1>2, <1>5, SingleGather
<1>7. AllReported'
  <2>1. user'.pc # "done"
    BY <1>3
  <2> QED BY <1>1, <1>2, <2>1 DEF AllReported
<1>8. Gathering'
  <2>1. ASSUME NEW u \in Uploads PROVE Taken(<<u, Initiate>>)' <=> u <= size
    <3>1. Taken(<<u, Initiate>>) <=> u <= messageCounter
      BY <1>1 DEF Gathering
    <3>2. <<u, Initiate>> \in user'.batch <=> u \in (messageCounter + 1)..size
      BY <1>3
    <3>3. sent[<<u, Initiate>>] = 1 <=> u <= messageCounter
      BY <1>3, <3>1 DEF Taken
    <3> QED BY <1>2, <1>4, <3>2, <3>3 DEF Taken, Uploads
  <2>2. messageCounter' = size' /\ messageCounter' <= size' /\ size' = size
    BY <1>2, <1>4
  <2> QED BY <1>3, <2>1, <2>2 DEF Gathering
<1>9. ASSUME NEW v \in Uploads PROVE Stage(v)' /\ PartsRecorded(v)'
  <2>1. \A i \in 1..Final : Taken(<<v, i>>)' <=> Taken(<<v, i>>)
    <3>1. \A i \in 1..Final : <<v, i>> \notin user'.batch
      BY <1>3
    <3> QED BY <1>2, <1>3, <3>1 DEF Taken
  <2>2. Apart(v)
    BY <1>2, <2>1, GatherApart
  <2> QED BY <2>2, ApartStays DEF UInv
<1> QED BY <1>6, <1>7, <1>8, <1>9 DEF UInv

\* The user gathers the requests B of one upload, and sets its state.
LEMMA GatherOf ==
  ASSUME EInv, UInv, NEW u \in Uploads, user.pc = "gather",
         NEW B, B \subseteq {<<u, i>> : i \in 1..Final},
         user' = [user EXCEPT !.u = u + 1, !.batch = @ \cup B],
         UNCHANGED <<flight, sent, rejects, messageCounter, sync, size, outstanding,
                     errorMessageId, eTags, final, completed, loop, failed, results>>,
         \A v \in Uploads : v # u => state'[v] = state[v],
         \A m \in B : ~Taken(m),
         Stage(u)', PartsRecorded(u)'
  PROVE  UInv'
<1> USE Sizes
<1>1. Types /\ Single /\ Gathering /\ AllReported /\ user \in UserType
  BY DEF EInv, UInv, Types
<1>2. user'.pc = "gather" /\ user'.batch = user.batch \cup B
  BY <1>1 DEF UserType
<1>3. \A m \in B : m \in Messages /\ sent[m] = 0
  <2>1. \A m \in B : m \in Messages
    BY MessageFacts
  <2> QED BY <1>1, <2>1, NotTaken
<1>4. Single'
  BY <1>1, <1>2, <1>3, SingleGather
<1>5. AllReported'
  BY <1>1, <1>2 DEF AllReported
<1>6. Gathering'
  <2>1. \A v \in Uploads : <<v, Initiate>> \notin B
    OBVIOUS
  <2>2. \A v \in Uploads : Taken(<<v, Initiate>>)' <=> Taken(<<v, Initiate>>)
    BY <1>2, <2>1 DEF Taken
  <2> QED BY <1>1, <1>2, <2>2 DEF Gathering
<1>7. ASSUME NEW v \in Uploads, v # u PROVE Stage(v)' /\ PartsRecorded(v)'
  <2>1. \A i \in 1..Final : <<v, i>> \notin B
    BY <1>7
  <2>2. \A i \in 1..Final : Taken(<<v, i>>)' <=> Taken(<<v, i>>)
    BY <1>2, <2>1 DEF Taken
  <2>3. Apart(v)
    BY <1>7, <2>2, GatherApart
  <2> QED BY <2>3, ApartStays DEF UInv
<1> QED BY <1>4, <1>5, <1>6, <1>7 DEF UInv

LEMMA UGather == ASSUME EInv, UInv, NEW u \in Uploads, Gather(u) PROVE UInv'
<1> USE Sizes
<1>1. /\ Types /\ Single /\ Stage(u) /\ PartsRecorded(u) /\ user \in UserType
      /\ state \in [Uploads -> States]
  BY DEF EInv, UInv, Types
<1>2. /\ user.pc = "gather" /\ user.u = u
      /\ UNCHANGED <<flight, sent, rejects, messageCounter, sync, size, outstanding,
                     errorMessageId, eTags, final, completed, loop, failed, results>>
  BY DEF Gather, UserUnchanged
<1>3. /\ \A m : Over(m)' <=> Over(m)
      /\ \A i : (Counted(u, i)' <=> Counted(u, i)) /\ (Unrecorded(u, i)' <=> Unrecorded(u, i))
      /\ Uncounted(u)' = Uncounted(u)
      /\ Unclosed(u)' <=> Unclosed(u)
      /\ Accepted(u)' <=> Accepted(u)
  BY <1>2, GatherApart
<1>4. state[u] # "Aborted" => PartsRecorded(u)'
  BY <1>1, <1>2, <1>3 DEF PartsRecorded
<1>5. CASE state[u] = "Sending"
  <2> DEFINE B == {<<u, i>> : i \in PartIds}
  <2>1. user' = [user EXCEPT !.u = u + 1, !.batch = @ \cup B]
        /\ state' = [state EXCEPT ![u] = "Processing"]
    BY <1>2, <1>5 DEF Gather, SetState
  <2>2. state'[u] = "Processing" /\ \A v \in Uploads : v # u => state'[v] = state[v]
    BY <1>1, <2>1
  <2>3. Built(u)
    BY <1>1, <1>5 DEF Stage, Starting, Refused, Transferring, Deciding, Ready, Finishing,
                      Reported
  <2>4. user'.batch = user.batch \cup B
    BY <1>1, <2>1 DEF UserType
  <2>5. PartsTaken(u)'
    BY <2>4 DEF PartsTaken, Taken
  <2>6. ~Taken(<<u, Final>>)'
    BY <1>2, <2>3, <2>4 DEF Built, NoneTaken, Taken
  <2>7. outstanding[u] > 0
    <3>1. 1 \in Uncounted(u)
      BY <2>3 DEF Built, NoneTaken, Taken, Uncounted, Counted, PartIds
    <3>2. Uncounted(u) # {} /\ IsFiniteSet(Uncounted(u)) /\ Cardinality(Uncounted(u)) \in Nat
      BY <3>1, FiniteParts
    <3>3. Cardinality(Uncounted(u)) # 0
      BY <3>2, FS_EmptySet
    <3> QED BY <1>1, <3>2, <3>3 DEF PartsRecorded
  <2>8. Stage(u)'
    BY <1>2, <1>3, <2>2, <2>3, <2>5, <2>6, <2>7 DEF Stage, Built, Transferring
  <2>9. B \subseteq {<<u, i>> : i \in 1..Final} /\ \A m \in B : ~Taken(m)
    BY <2>3 DEF Built, NoneTaken
  <2> HIDE DEF B
  <2> QED BY <1>2, <1>4, <1>5, <2>1, <2>2, <2>8, <2>9, GatherOf
<1>6. CASE state[u] = "Validating"
  <2> DEFINE B == {<<u, Final>>}
  <2>1. user' = [user EXCEPT !.u = u + 1, !.batch = @ \cup B]
        /\ state' = [state EXCEPT ![u] = "Default"]
    BY <1>2, <1>6 DEF Gather, SetState
  <2>2. state'[u] = "Default" /\ \A v \in Uploads : v # u => state'[v] = state[v]
    BY <1>1, <2>1 DEF States
  <2>3. Ready(u)
    BY <1>1, <1>6 DEF Stage, Starting, Refused, Built, Transferring, Deciding, Finishing,
                      Reported
  <2>4. user'.batch = user.batch \cup B
    BY <1>1, <2>1 DEF UserType
  <2>5. Taken(<<u, Final>>)' /\ \A i \in PartIds : Taken(<<u, i>>) => Taken(<<u, i>>)'
    BY <1>2, <2>4 DEF Taken
  <2>6. ~Over(<<u, Final>>)
    BY <2>3 DEF Ready, Taken, Over
  <2>7. Decided(u)'
    BY <1>2, <1>3, <2>3, <2>5 DEF Ready, Decided, PartsTaken
  <2>8. Stage(u)'
    BY <1>2, <1>3, <2>2, <2>3, <2>5, <2>6, <2>7 DEF Stage, Ready, Finishing
  <2>9. B \subseteq {<<u, i>> : i \in 1..Final} /\ \A m \in B : ~Taken(m)
    BY <2>3 DEF Ready
  <2> HIDE DEF B
  <2> QED BY <1>2, <1>4, <1>6, <2>1, <2>2, <2>8, <2>9, GatherOf
<1>7. CASE state[u] \notin {"Sending", "Validating"}
  <2>1. user' = [user EXCEPT !.u = u + 1] /\ state' = state
    BY <1>2, <1>7 DEF Gather
  <2>2. user' = [user EXCEPT !.u = u + 1, !.batch = @ \cup {}]
    BY <1>1, <2>1 DEF UserType
  <2>3. user'.batch = user.batch
    BY <1>1, <2>1 DEF UserType
  <2>4. Apart(u)
    BY <1>2, <2>1, <2>3, GatherApart DEF Taken
  <2>5. Stage(u)' /\ PartsRecorded(u)'
    BY <1>1, <2>4, ApartStays
  <2> DEFINE B == {}
  <2>6. user' = [user EXCEPT !.u = u + 1, !.batch = @ \cup B]
    BY <2>2
  <2>7. B \subseteq {<<u, i>> : i \in 1..Final} /\ \A m \in B : ~Taken(m)
    OBVIOUS
  <2>8. \A v \in Uploads : v # u => state'[v] = state[v]
    BY <2>1
  <2> HIDE DEF B
  <2> QED BY <1>2, <2>5, <2>6, <2>7, <2>8, GatherOf
<1> QED BY <1>5, <1>6, <1>7

LEMMA USubmit == ASSUME EInv, UInv, Submit PROVE UInv'
<1> USE Sizes
<1>1. Types /\ Single /\ Gathering /\ AllReported /\ user.batch \subseteq Messages
  BY DEF EInv, UInv, Types, UserType
<1>2. /\ user.pc = "gather"
      /\ flight' = [m \in Messages |-> IF m \in user.batch THEN flight[m] + 1 ELSE flight[m]]
      /\ sent' = [m \in Messages |-> IF m \in user.batch THEN sent[m] + 1 ELSE sent[m]]
      /\ UNCHANGED <<state, messageCounter, rejects, sync, size, outstanding, errorMessageId,
                     eTags, final, completed, loop, failed, results>>
  BY DEF Submit, UserUnchanged
<1>3. user'.pc \in {"rest", "run"} /\ user'.batch = {}
  BY DEF Submit, Rest
<1>4. \A m \in Messages : m \in user.batch => sent[m] = 0 /\ flight[m] = 0
  BY <1>1 DEF Single, Types
<1>5. \A m \in Messages : m \in user.batch => sent'[m] = 1 /\ flight'[m] = 1
  BY <1>2, <1>4
<1>6. \A m \in Messages : m \notin user.batch => sent'[m] = sent[m] /\ flight'[m] = flight[m]
  BY <1>2
<1>7. \A m \in Messages : Taken(m)' <=> Taken(m)
  BY <1>3, <1>5, <1>6 DEF Taken
<1>8. \A m \in Messages : Over(m)' <=> Over(m)
  BY <1>2, <1>4, <1>5, <1>6 DEF Over, Held
<1>9. \A v \in Uploads, i \in PartIds : Counted(v, i)' <=> Counted(v, i)
  BY <1>2, <1>4, <1>5, <1>6, MessageFacts DEF Counted
<1>10. \A v \in Uploads : Apart(v)
  <2> SUFFICES ASSUME NEW v \in Uploads PROVE Apart(v)
    OBVIOUS
  <2>1. \A i \in 0..Final : <<v, i>> \in Messages
    BY MessageFacts
  <2>2. 1..Final \subseteq 0..Final /\ Initiate \in 0..Final /\ Final \in 0..Final
    OBVIOUS
  <2>3. \A i \in PartIds : Unrecorded(v, i)' <=> Unrecorded(v, i)
    BY <1>2 DEF Unrecorded
  <2>4. \A l \in Loops : /\ Closing(l, v)' <=> Closing(l, v)
                         /\ Closing(l, v) => loop'[l].pc = loop[l].pc
    BY <1>2 DEF Closing, Up
  <2> QED BY <1>2, <1>7, <1>8, <1>9, <2>1, <2>2, <2>3, <2>4 DEF Apart
<1>11. Single'
  <2>1. \A m \in Messages :
          /\ sent'[m] <= 1 /\ flight'[m] <= sent'[m]
          /\ m \in user'.batch => sent'[m] = 0
          /\ m \in failed' => sent'[m] = 1 /\ flight'[m] = 0
    <3> SUFFICES ASSUME NEW m \in Messages
                 PROVE  /\ sent'[m] <= 1 /\ flight'[m] <= sent'[m]
                        /\ m \in user'.batch => sent'[m] = 0
                        /\ m \in failed' => sent'[m] = 1 /\ flight'[m] = 0
      OBVIOUS
    <3>1. CASE m \in user.batch
      BY <1>1, <1>2, <1>3, <1>4, <1>5, <3>1 DEF Single
    <3>2. CASE m \notin user.batch
      BY <1>1, <1>2, <1>3, <1>6, <3>2 DEF Single
    <3> QED BY <3>1, <3>2
  <2>2. \A l, v : (Held(l)' <=> Held(l)) /\ (Closing(l, v)' <=> Closing(l, v)) /\ Up(l)' = Up(l)
    BY <1>2 DEF Held, Closing, Up
  <2>3. \A l \in Loops : Held(l) => sent'[loop[l].msg] = 1 /\ flight'[loop[l].msg] = 0
    <3> SUFFICES ASSUME NEW l \in Loops, Held(l)
                 PROVE  sent'[loop[l].msg] = 1 /\ flight'[loop[l].msg] = 0
      OBVIOUS
    <3>1. loop[l].msg \in Messages /\ sent[loop[l].msg] = 1 /\ flight[loop[l].msg] = 0
      BY <1>1, LoopFacts DEF Single
    <3>2. loop[l].msg \notin user.batch
      BY <1>4, <3>1
    <3> QED BY <1>6, <3>1, <3>2
  <2> QED BY <1>1, <1>2, <2>1, <2>2, <2>3 DEF Single
<1>12. AllReported'
  BY <1>1, <1>2, <1>3 DEF AllReported
<1>13. Gathering'
  <2>1. \A v \in Uploads : Taken(<<v, Initiate>>)' <=> Taken(<<v, Initiate>>)
    BY <1>7, MessageFacts
  <2> QED BY <1>1, <1>2, <1>3, <2>1 DEF Gathering
<1> QED BY <1>10, <1>11, <1>12, <1>13, ApartStays DEF UInv

\* An upload that was reported was submitted; so if there are size reports, all were.
LEMMA AllDone ==
  ASSUME EInv, UInv, completed = size
  PROVE  \A u \in 1..size : results[u] # <<>>
<1> USE Sizes
<1> DEFINE Done == {u \in Uploads : results[u] # <<>>}
<1>1. size \in 1..N /\ messageCounter \in 0..N /\ messageCounter <= size
  BY DEF EInv, UInv, Types, Gathering, Uploads
<1>2. ASSUME NEW u \in Uploads, results[u] # <<>> PROVE u \in 1..size
  <2>1. Over(<<u, Initiate>>)
    BY <1>2 DEF UInv, Stage, Starting, Refused, Built, Transferring, Deciding, Ready,
                Finishing, Reported, Decided, Accepted
  <2>2. u <= messageCounter
    BY <2>1 DEF Over, Taken, UInv, Gathering
  <2> QED BY <1>1, <2>2 DEF Uploads
<1>3. Done \in SUBSET (1..size)
  BY <1>2
<1>4. Cardinality(Done) = size
  BY DEF UInv, AllReported
<1>5. IsFiniteSet(1..size) /\ Cardinality(1..size) = size
  <2>1. 1 \in Int /\ size \in Int /\ 1 <= size
    BY <1>1
  <2>2. /\ IsFiniteSet(1..size)
        /\ Cardinality(1..size) = IF 1 > size THEN 0 ELSE size - 1 + 1
    BY <2>1, FS_Interval
  <2>3. (IF 1 > size THEN 0 ELSE size - 1 + 1) = size
    BY <2>1
  <2> QED BY <2>2, <2>3
<1> HIDE DEF Done
<1>6. Done = 1..size
  BY <1>3, <1>4, <1>5, FS_Subset
<1> QED BY <1>6 DEF Done

LEMMA UReturn == ASSUME EInv, UInv, Return PROVE UInv'
<1>1. Types /\ Single /\ Gathering /\ AllReported
  BY DEF EInv, UInv
<1>2. /\ user.pc = "run"
      /\ UNCHANGED <<state, messageCounter, flight, sent, rejects, sync, size, outstanding,
                     errorMessageId, eTags, final, completed, loop, failed, results>>
  BY DEF Return, UserUnchanged
<1>3. /\ user'.pc \in {"rest", "done"} /\ user'.batch = {} /\ user.batch = {}
      /\ (user'.pc = "done" => completed = size)
  BY <1>1, <1>2 DEF Return, Rest, Gathering
<1>4. Single'
  BY <1>1, <1>2, <1>3, SingleGather
<1>5. AllReported'
  BY <1>1, <1>2, <1>3, AllDone DEF AllReported
<1>6. Gathering'
  BY <1>1, <1>2, <1>3 DEF Gathering, Taken
<1>7. \A v \in Uploads : Apart(v)
  BY <1>2, <1>3, GatherApart DEF Taken
<1> QED BY <1>4, <1>5, <1>6, <1>7, ApartStays DEF UInv

-----------------------------------------------------------------------------
(* The invariant                                                           *)

LEMMA UInvInit == Init => UInv
<1> SUFFICES ASSUME Init PROVE UInv
  OBVIOUS
<1> USE Sizes
<1>1. /\ user = Rest /\ messageCounter = 0 /\ completed = 0 /\ failed = {} /\ size \in 1..N
      /\ \A l \in Loops : loop[l].pc = "idle"
      /\ \A m \in Messages : flight[m] = 0 /\ sent[m] = 0
      /\ \A u \in Uploads : /\ state[u] = "Default" /\ outstanding[u] = Parts
                            /\ final[u] = "none" /\ results[u] = <<>>
  BY ModeAssumption DEF Init, Idle
<1>2. user.pc = "rest" /\ user.batch = {}
  BY <1>1 DEF Rest
<1>3. \A m \in Messages : ~Taken(m) /\ ~Over(m)
  BY <1>1, <1>2 DEF Taken, Over
<1>4. ASSUME NEW u \in Uploads, NEW i \in PartIds PROVE ~Counted(u, i)
  <2>1. <<u, i>> \in Messages
    BY MessageFacts
  <2>2. sent[<<u, i>>] = 0
    BY <1>1, <2>1
  <2> QED BY <2>2 DEF Counted
<1>5. Gathering
  <2>1. ASSUME NEW u \in Uploads PROVE ~Taken(<<u, Initiate>>) /\ ~(u <= 0)
    <3>1. <<u, Initiate>> \in Messages
      BY MessageFacts
    <3>2. ~(u <= 0)
      BY DEF Uploads
    <3> QED BY <1>3, <3>1, <3>2
  <2> QED BY <1>1, <1>2, <2>1 DEF Gathering
<1>6. Single
  <2>1. \A l \in Loops : ~Held(l) /\ \A u \in Uploads : ~Closing(l, u)
    BY <1>1 DEF Held, Closing
  <2>2. \A m \in Messages :
          /\ sent[m] <= 1 /\ flight[m] <= sent[m]
          /\ m \in user.batch => sent[m] = 0
          /\ m \in failed => sent[m] = 1 /\ flight[m] = 0
    BY <1>1, <1>2
  <2> QED BY <2>1, <2>2 DEF Single
<1>7. AllReported
  <2>1. {u \in Uploads : results[u] # <<>>} = {}
    BY <1>1
  <2> QED BY <1>1, <1>2, <2>1, FS_EmptySet DEF AllReported
<1>8. ASSUME NEW u \in Uploads PROVE Stage(u) /\ PartsRecorded(u)
  <2>1. NoneTaken(u) /\ ~Over(<<u, Initiate>>)
    BY <1>3, MessageFacts DEF NoneTaken
  <2>2. Unclosed(u)
    BY <1>1 DEF Unclosed, Closing
  <2>3. Stage(u)
    BY <1>1, <2>1, <2>2 DEF Stage, Starting
  <2>4. Uncounted(u) = PartIds
    BY <1>4 DEF Uncounted
  <2>5. PartsRecorded(u)
    BY <1>1, <1>4, <2>4, FiniteParts DEF PartsRecorded
  <2> QED BY <2>3, <2>5
<1> QED BY <1>5, <1>6, <1>7, <1>8 DEF UInv

\* A rejected send stays one.
LEMMA StaysDisturbed == EInv /\ [Next]_vars => (Undisturbed' => Undisturbed)
<1> SUFFICES ASSUME EInv, [Next]_vars, rejects' = 0 PROVE rejects = 0
  BY DEF Undisturbed
<1>1. rejects \in Nat
  BY Sizes DEF EInv, Types
<1>2. rejects' = rejects \/ rejects' = rejects + 1
  BY DEF Next, User, Call, Begin, Submit, Reject, Return, Gather, UndoRead, UndoWrite, Callback,
         Initiated, RecordETag, RecordError, SetAborted, CountDown, BuildFinal, Announce,
         Finished, Answers, Answer, LoopUnchanged, vars
<1> QED BY <1>1, <1>2

LEMMA UInvStep == ASSUME EInv, UInv, [Next]_vars, Undisturbed' PROVE UInv'
<1>1. CASE User
  <2>1. ~Reject
    BY Sizes DEF Reject, Undisturbed, EInv, Types
  <2>2. \A u \in Uploads : ~UndoRead(u) /\ ~UndoWrite(u)
    BY DEF UndoRead, UndoWrite, UInv, Gathering
  <2> QED BY <1>1, <2>1, <2>2, UBegin, UGather, USubmit, UReturn DEF User, Call
<1>2. ASSUME NEW l \in Loops, Callback(l) PROVE UInv'
  BY <1>2, UInitiated, UPart, UCountDown, UBuildFinal, UAnnounce, UFinished DEF Callback
<1>3. ASSUME NEW l \in Loops, NEW m \in Messages, NEW ok \in BOOLEAN, Answer(l, m, ok)
      PROVE  UInv'
  BY <1>3, UAnswer
<1>4. CASE UNCHANGED vars
  <2>1. UNCHANGED <<state, flight, sent, user, messageCounter, size, outstanding, eTags, final,
                    completed, loop, failed, results>>
    BY <1>4 DEF vars, uploadVars
  <2>2. \A v \in Uploads : Apart(v)
    BY <2>1, GatherApart DEF Taken
  <2>3. Gathering' /\ Single' /\ AllReported'
    BY <2>1, GatheringKept, SingleGather, ReportedKept DEF UInv
  <2> QED BY <2>2, <2>3, ApartStays DEF UInv
<1> QED BY <1>1, <1>2, <1>3, <1>4 DEF Next, Answers

LEMMA Inductive == Spec => []IInv
<1>1. Init => IInv
  BY EInvInit, UInvInit DEF IInv, TxnInv
<1>2. IInv /\ [Next]_vars => IInv'
  <2> SUFFICES ASSUME IInv, [Next]_vars PROVE IInv'
    OBVIOUS
  <2>1. EInv /\ EInv'
    BY EInvStep DEF IInv
  <2>2. ASSUME Undisturbed' PROVE UInv'
    BY <2>1, <2>2, StaysDisturbed, UInvStep DEF IInv, TxnInv
  <2> QED BY <2>1, <2>2 DEF IInv, TxnInv
<1> QED BY <1>1, <1>2, PTL DEF Spec

-----------------------------------------------------------------------------
(* Theorems                                                                *)

\* A verdict stands when no part is left to count.
LEMMA VerdictFacts ==
  ASSUME EInv, UInv, NEW u \in Uploads, final[u] # "none"
  PROVE  /\ \A i \in PartIds : Counted(u, i)
         /\ final[u] = "complete" => \A i \in PartIds : <<u, i>> \notin failed
<1>1. Stage(u) /\ PartsRecorded(u) /\ Types
  BY DEF EInv, UInv
<1>2. Deciding(u) \/ Decided(u)
  BY <1>1 DEF Stage, Starting, Refused, Built, Transferring, Ready, Finishing, Reported
<1>3. outstanding[u] = 0
  BY <1>2 DEF Deciding, Decided
<1>4. Uncounted(u) = {}
  <2>1. IsFiniteSet(Uncounted(u)) /\ Cardinality(Uncounted(u)) = 0
    BY <1>1, <1>3, FiniteParts DEF PartsRecorded
  <2> QED BY <2>1, FS_EmptySet
<1>5. \A i \in PartIds : Counted(u, i)
  BY <1>4 DEF Uncounted
<1>6. \A i \in PartIds : ~Unrecorded(u, i)
  BY <1>5 DEF Counted, Unrecorded
<1>7. final[u] = "complete" => state[u] # "Aborted"
  <2>1. CASE Deciding(u)
    BY <2>1 DEF Deciding
  <2>2. CASE Ready(u) \/ Finishing(u) \/ Reported(u)
    BY <2>2 DEF Ready, Finishing, Reported
  <2>3. CASE Starting(u) \/ Refused(u) \/ Built(u) \/ Transferring(u)
    BY <2>3 DEF Starting, Refused, Built, Transferring
  <2> QED BY <1>1, <2>1, <2>2, <2>3 DEF Stage
<1>8. final[u] = "complete" => \A i \in PartIds : <<u, i>> \notin failed
  BY <1>1, <1>6, <1>7 DEF PartsRecorded
<1> QED BY <1>5, <1>8

\* The error that an abort reports is that of a part that failed, whatever the order
\* of the threads' stores, and after rejected sends too.
THEOREM AbortsNameFailedPart == Spec => []AbortNamesFailedPart
<1>1. IInv => AbortNamesFailedPart
  BY DEF IInv, EInv, Errors, AbortNamesFailedPart
<1> QED BY <1>1, Inductive, PTL

\* Until a send is rejected, outstanding stays within the number of parts and every
\* variable keeps its type.
THEOREM UploadTypeCorrect == Spec => [](Undisturbed => TypeOK)
<1>1. IInv => (Undisturbed => TypeOK)
  <2> SUFFICES ASSUME EInv, UInv PROVE TypeOK
    BY DEF IInv, TxnInv
  <2>1. outstanding \in [Uploads -> 0..Parts]
    <3>1. ASSUME NEW u \in Uploads PROVE outstanding[u] \in 0..Parts
      <4>1. Uncounted(u) \in SUBSET PartIds
        BY DEF Uncounted
      <4>2. Cardinality(Uncounted(u)) <= Parts /\ Cardinality(Uncounted(u)) \in Nat
        BY <4>1, FiniteParts, FS_Subset
      <4> QED BY <4>2, Sizes DEF UInv, PartsRecorded
    <3> QED BY <3>1 DEF EInv, Types
  <2>2. completed \in 0..N
    <3> DEFINE Done == {u \in Uploads : results[u] # <<>>}
    <3>1. Done \in SUBSET Uploads
      OBVIOUS
    <3>2. completed = Cardinality(Done)
      BY DEF UInv, AllReported
    <3> HIDE DEF Done
    <3>3. Cardinality(Uploads) = N
      <4>1. 1 \in Int /\ N \in Int /\ ~(1 > N) /\ N - 1 + 1 = N
        BY Sizes
      <4> QED BY <4>1, FS_Interval DEF Uploads
    <3>4. Cardinality(Done) <= N /\ Cardinality(Done) \in Nat
      BY <3>1, <3>3, FiniteParts, FS_Subset, FS_CardinalityType
    <3> QED BY <3>2, <3>4, Sizes
  <2>3. /\ user.pc \in UserPcs /\ user.u \in 1..(N + 1) /\ user.seen \in States
        /\ user.batch \subseteq Messages /\ user.counter \in 0..N
    BY DEF EInv, Types, UserType
  <2>4. \A l \in Loops : loop[l].pc \in LoopPcs
    BY LoopFacts DEF EInv
  <2> QED BY <2>1, <2>2, <2>3, <2>4 DEF TypeOK, EInv, Types, UserPcs, LoopPcs
<1> QED BY <1>1, Inductive, PTL

\* Complete is only asked for with the eTags of all parts, Abort only if a part
\* failed, whichever threads finish the parts in whatever order.
THEOREM CompletesHaveAllParts == Spec => []CompleteMeansAllParts
<1>1. IInv => CompleteMeansAllParts
  <2> SUFFICES ASSUME EInv, UInv, NEW u \in Uploads
               PROVE  /\ final[u] = "complete" =>
                           eTags[u] = PartIds /\ failed \cap ({u} \X PartIds) = {}
                      /\ final[u] = "abort" => failed \cap ({u} \X PartIds) # {}
    BY DEF IInv, TxnInv, CompleteMeansAllParts
  <2>1. ASSUME final[u] = "complete"
        PROVE  eTags[u] = PartIds /\ failed \cap ({u} \X PartIds) = {}
    <3>1. \A i \in PartIds : Counted(u, i) /\ <<u, i>> \notin failed
      BY <2>1, VerdictFacts
    <3>2. PartIds \subseteq eTags[u]
      BY <3>1 DEF UInv, PartsRecorded
    <3>3. eTags[u] \subseteq PartIds
      BY DEF EInv, Types
    <3> QED BY <3>1, <3>2, <3>3
  <2>2. ASSUME final[u] = "abort" PROVE failed \cap ({u} \X PartIds) # {}
    <3>1. <<u, errorMessageId[u]>> \in failed /\ errorMessageId[u] \in PartIds
      BY <2>2 DEF EInv, Errors, Types
    <3> QED BY <3>1
  <2> QED BY <2>1, <2>2
<1> QED BY <1>1, Inductive, PTL

\* Until a send is rejected, an upload that is Validating has its final request, all
\* its parts behind it, and no report yet.
THEOREM ValidatingUploadsAreReady == Spec => []ReadyUndisturbed
<1>1. IInv => ReadyUndisturbed
  <2> SUFFICES ASSUME UInv, NEW u \in Uploads, state[u] = "Validating"
               PROVE  final[u] # "none" /\ outstanding[u] = 0 /\ results[u] = <<>>
    BY DEF IInv, TxnInv, ReadyUndisturbed, ValidatingIsReady
  <2>1. Ready(u)
    BY DEF UInv, Stage, Starting, Refused, Built, Transferring, Deciding, Finishing, Reported
  <2> QED BY <2>1 DEF Ready, Decided
<1> QED BY <1>1, Inductive, PTL

\* No request is submitted twice, and no final request before it is built.
THEOREM RequestsSubmittedOnce == Spec => []SubmittedOnce
<1>1. IInv => SubmittedOnce
  <2> SUFFICES ASSUME EInv, UInv
               PROVE  /\ \A m \in Messages : sent[m] <= 1
                      /\ \A u \in Uploads : sent[<<u, Final>>] > 0 => final[u] # "none"
    BY DEF IInv, TxnInv, SubmittedOnce
  <2>1. \A m \in Messages : sent[m] <= 1 /\ sent[m] \in Nat
    BY DEF EInv, Types, UInv, Single
  <2>2. ASSUME NEW u \in Uploads, sent[<<u, Final>>] > 0 PROVE final[u] # "none"
    <3>1. sent[<<u, Final>>] = 1
      <4>1. <<u, Final>> \in Messages
        BY MessageFacts
      <4>2. sent[<<u, Final>>] <= 1 /\ sent[<<u, Final>>] \in Nat
        BY <2>1, <4>1
      <4> QED BY <2>2, <4>2
    <3>2. Taken(<<u, Final>>) /\ ~NoneTaken(u)
      BY <3>1, Sizes DEF Taken, NoneTaken
    <3> QED
      BY <3>2 DEF UInv, Stage, Starting, Refused, Built, Transferring, Deciding, Ready,
                  Finishing, Reported, Decided
  <2> QED BY <2>1, <2>2
<1> QED BY <1>1, Inductive, PTL

\* The user's callback is called at most once for each upload, and once for each
\* when processSync has counted to the number of uploads.
THEOREM CallbacksAreCalledOnce == Spec => []CallbackOnce
<1>1. IInv => CallbackOnce
  <2> SUFFICES ASSUME EInv, UInv
               PROVE  /\ \A u \in Uploads : Len(results[u]) <= 1
                      /\ user.pc = "done" => \A u \in 1..size : Len(results[u]) = 1
    BY DEF IInv, TxnInv, CallbackOnce
  <2>1. ASSUME NEW u \in Uploads
        PROVE  results[u] = <<>> \/ \E r \in Reports : results[u] = <<r>>
    BY DEF UInv, Stage, Starting, Refused, Built, Transferring, Deciding, Ready, Finishing,
           Reported, Reports
  <2>2. \A u \in Uploads : Len(results[u]) <= 1 /\ (results[u] # <<>> => Len(results[u]) = 1)
    <3>1. \A r : Len(<<r>>) = 1
      OBVIOUS
    <3>2. Len(<<>>) = 0
      OBVIOUS
    <3>3. ASSUME NEW u \in Uploads
          PROVE  Len(results[u]) <= 1 /\ (results[u] # <<>> => Len(results[u]) = 1)
      <4>1. CASE results[u] = <<>>
        <5>1. Len(results[u]) = 0
          BY <3>2, <4>1
        <5> QED BY <4>1, <5>1
      <4>2. CASE \E r \in Reports : results[u] = <<r>>
        <5>1. Len(results[u]) = 1
          BY <3>1, <4>2
        <5> QED BY <5>1
      <4> QED BY <2>1, <4>1, <4>2
    <3> QED BY <3>3
  <2>3. \A u \in 1..size : u \in Uploads
    BY Sizes DEF EInv, Types, Uploads
  <2>4. user.pc = "done" => \A u \in 1..size : results[u] # <<>>
    BY DEF UInv, AllReported
  <2> QED BY <2>2, <2>3, <2>4
<1> QED BY <1>1, Inductive, PTL

\* Success is reported only for an object that the service has put together: all
\* requests of its upload succeeded, the last one Complete.
THEOREM SuccessesAreReal == Spec => []SuccessIsReal
<1>1. IInv => SuccessIsReal
  <2> SUFFICES ASSUME EInv, UInv, NEW u \in Uploads, results[u] = <<"finished">>
               PROVE  final[u] = "complete" /\ failed \cap ({u} \X (0..Final)) = {}
    BY DEF IInv, TxnInv, SuccessIsReal
  <2> DEFINE success == <<"finished">>
  <2>0. success # <<>> /\ success # <<"failed">> /\ success # <<"cancelled">>
    <3>1. \A r, q : <<r>> # <<>> /\ (<<r>> = <<q>> => r = q)
      OBVIOUS
    <3> QED BY <3>1
  <2> HIDE DEF success
  <2>1. Reported(u)
    <3>1. results[u] # <<>> /\ results[u] # <<"failed">>
      BY <2>0 DEF success
    <3> QED BY <3>1 DEF UInv, Stage, Starting, Refused, Built, Transferring, Deciding, Ready,
                        Finishing
  <2>2. final[u] = "complete" /\ <<u, Final>> \notin failed /\ <<u, Initiate>> \notin failed
    <3>1. results[u] # <<"cancelled">>
      BY <2>0 DEF success
    <3> QED BY <2>1, <3>1 DEF Reported, Decided, Accepted
  <2>3. \A i \in PartIds : <<u, i>> \notin failed
    BY <2>2, VerdictFacts
  <2> QED BY <2>2, <2>3, Sizes
<1> QED BY <1>1, Inductive, PTL

-----------------------------------------------------------------------------
(* Refinement                                                              *)

\* What Transaction shows of the answers.
Reply(u, i) == IF flight[<<u, i>>] = sent[<<u, i>>] THEN "none"
               ELSE IF <<u, i>> \in failed THEN "failed" ELSE "ok"
Replies == [u \in Uploads |-> [i \in 0..Final |-> Reply(u, i)]]

LEMMA SameConstants ==
  /\ U!Uploads = Uploads /\ U!PartIds = PartIds /\ U!Initiate = Initiate /\ U!Final = Final
BY DEF U!Uploads, U!PartIds, U!Initiate, U!Final, Uploads, PartIds, Initiate, Final

\* The abstract actions in terms of Transaction.
LEMMA AnsweredFrom ==
  ASSUME NEW u \in Uploads, NEW i \in 0..Final, NEW a \in {"ok", "failed"},
         Reply(u, i) = "none", i \in PartIds => Reply(u, Initiate) = "ok",
         i = Final => final[u] # "none",
         Reply(u, i)' = a,
         \A v \in Uploads, j \in 0..Final : <<v, j>> # <<u, i>> => Reply(v, j)' = Reply(v, j),
         UNCHANGED <<final, results>>
  PROVE  U!Next
<1>1. Initiate \in 0..Final
  BY Sizes
<1>2. Replies[u][i] = "none" /\ Replies[u][Initiate] = Reply(u, Initiate)
  BY <1>1 DEF Replies
<1>3. Replies' = [Replies EXCEPT ![u][i] = a]
  <2>1. ASSUME NEW v \in Uploads
        PROVE  Replies'[v] = [Replies EXCEPT ![u][i] = a][v]
    <3>1. CASE v = u
      <4>1. [Replies EXCEPT ![u][i] = a][v] = [Replies[u] EXCEPT ![i] = a]
        BY <3>1 DEF Replies
      <4>2. ASSUME NEW j \in 0..Final PROVE Replies'[v][j] = [Replies[u] EXCEPT ![i] = a][j]
        BY <3>1 DEF Replies
      <4> QED BY <4>1, <4>2 DEF Replies
    <3>2. CASE v # u
      <4>1. \A j \in 0..Final : Reply(v, j)' = Reply(v, j)
        BY <3>2
      <4> QED BY <3>2, <4>1 DEF Replies
    <3> QED BY <3>1, <3>2
  <2> QED BY <2>1 DEF Replies
<1>4. U!Answered(u, i)
  BY <1>2, <1>3, SameConstants DEF U!Answered, Replies, Reply
<1> QED BY <1>4, SameConstants DEF U!Next

LEMMA RepliesFacts ==
  ASSUME EInv, UInv, NEW u \in Uploads
  PROVE  /\ Over(<<u, Initiate>>) => Reply(u, Initiate) =
              IF <<u, Initiate>> \in failed THEN "failed" ELSE "ok"
         /\ \A i \in PartIds : Counted(u, i) =>
              Reply(u, i) = IF <<u, i>> \in failed THEN "failed" ELSE "ok"
BY DEF Reply, Over, Counted

\* Nothing that is promised changes.
LEMMA NothingPromised ==
  ASSUME \A v \in Uploads, j \in 0..Final : Reply(v, j)' = Reply(v, j),
         UNCHANGED <<final, results>>
  PROVE  UNCHANGED U!vars
<1>1. Replies' = Replies
  BY DEF Replies
<1> QED BY <1>1 DEF U!vars, Replies, Reply

LEMMA AnswerRefines ==
  ASSUME EInv, UInv, NEW l \in Loops, NEW m \in Messages, NEW ok \in BOOLEAN,
         Answer(l, m, ok)
  PROVE  U!Next
<1> USE Sizes
<1>1. PICK u \in Uploads, i \in 0..Final : m = <<u, i>>
  BY MessageFacts
<1>2. /\ flight' = [flight EXCEPT ![m] = @ - 1] /\ flight \in [Messages -> Nat] /\ sent' = sent
      /\ failed' = IF ok THEN failed ELSE failed \cup {m}
      /\ UNCHANGED <<final, results>>
  BY DEF Answer, LoopUnchanged, uploadVars, EInv, Types
<1>3. /\ flight[m] = 1 /\ sent[m] = 1 /\ m \notin failed
      /\ i \in PartIds => Transferring(u)
      /\ i = Final => Finishing(u)
  BY <1>1, StageOfFlight DEF Answer
<1>4. flight'[m] = 0 /\ \A n \in Messages : n # m => flight'[n] = flight[n]
  BY <1>2, <1>3
<1>5. Reply(u, i) = "none" /\ Reply(u, i)' = IF ok THEN "ok" ELSE "failed"
  BY <1>1, <1>2, <1>3, <1>4 DEF Reply
<1>6. ASSUME NEW v \in Uploads, NEW j \in 0..Final, <<v, j>> # <<u, i>>
      PROVE  Reply(v, j)' = Reply(v, j)
  <2>1. <<v, j>> \in Messages /\ <<v, j>> # m
    BY <1>1, <1>6, MessageFacts
  <2>2. flight'[<<v, j>>] = flight[<<v, j>>] /\ (<<v, j>> \in failed' <=> <<v, j>> \in failed)
    BY <1>2, <1>4, <2>1
  <2> QED BY <1>2, <2>2 DEF Reply
<1>7. i \in PartIds => Reply(u, Initiate) = "ok"
  BY <1>3, RepliesFacts DEF Transferring, Accepted
<1>8. i = Final => final[u] # "none"
  BY <1>3 DEF Finishing, Decided
<1>9. PICK a \in {"ok", "failed"} : Reply(u, i)' = a
  BY <1>5
<1> QED BY <1>2, <1>5, <1>6, <1>7, <1>8, <1>9, AnsweredFrom

\* No callback changes an answer.
LEMMA RepliesKept ==
  ASSUME UNCHANGED <<sent, flight, failed>>
  PROVE  \A v, j : Reply(v, j)' = Reply(v, j)
BY DEF Reply

LEMMA DecideRefines ==
  ASSUME EInv, UInv, NEW l \in Loops, BuildFinal(l) PROVE U!Next
<1> USE Sizes
<1> PICK u \in Uploads : u = Up(l)
  BY LoopFacts DEF EInv
<1>1. UNCHANGED <<sent, flight, failed, results, state, errorMessageId>> /\ loop[l].pc = "last"
      /\ final' = [final EXCEPT ![u] = IF state[u] # "Aborted" THEN "complete" ELSE "abort"]
      /\ final \in [Uploads -> {"none", "complete", "abort"}]
  BY DEF BuildFinal, LoopUnchanged, At, EInv, Types
<1>2. final'[u] = IF state[u] # "Aborted" THEN "complete" ELSE "abort"
  BY <1>1
<1>3. Deciding(u) /\ Closing(l, u) /\ Single
  BY <1>1, StageOfHeld DEF Held, UInv
<1>4. final[u] = "none"
  <2>1. PICK k \in Loops : Closing(k, u) /\
          final[u] = IF loop[k].pc = "last" THEN "none"
                     ELSE IF state[u] # "Aborted" THEN "complete" ELSE "abort"
    BY <1>3 DEF Deciding
  <2>2. k = l
    BY <1>3, <2>1 DEF Single
  <2> QED BY <1>1, <2>1, <2>2
<1>5. ASSUME NEW i \in PartIds PROVE Counted(u, i)
  <2>1. IsFiniteSet(Uncounted(u)) /\ Cardinality(Uncounted(u)) = 0
    BY <1>3, FiniteParts DEF UInv, PartsRecorded, Deciding
  <2>2. Uncounted(u) = {}
    BY <2>1, FS_EmptySet
  <2> QED BY <2>2 DEF Uncounted
<1>6. \A i \in PartIds : Reply(u, i) = IF <<u, i>> \in failed THEN "failed" ELSE "ok"
  BY <1>5, RepliesFacts
<1>7. ASSUME state[u] # "Aborted", NEW i \in PartIds PROVE <<u, i>> \notin failed
  <2>1. ~Unrecorded(u, i)
    BY <1>5 DEF Counted, Unrecorded
  <2> QED BY <1>4, <1>7, <2>1 DEF UInv, PartsRecorded
<1>8. ASSUME state[u] = "Aborted" PROVE \E i \in PartIds : <<u, i>> \in failed
  BY <1>8 DEF EInv, Errors, Types
<1>9. state[u] # "Aborted" <=> \A i \in PartIds : Reply(u, i) = "ok"
  BY <1>6, <1>7, <1>8
<1>10. \A i \in PartIds : Reply(u, i) # "none"
  BY <1>6
<1>11. \A i \in PartIds : Replies[u][i] = Reply(u, i)
  BY DEF Replies
<1>12. Replies' = Replies
  BY <1>1, RepliesKept DEF Replies
<1>13. final' = [final EXCEPT ![u] = IF \A i \in PartIds : Replies[u][i] = "ok"
                                     THEN "complete" ELSE "abort"]
  BY <1>1, <1>9, <1>11
<1>14. \A i \in PartIds : Replies[u][i] # "none"
  BY <1>10, <1>11
<1>15. U!Decide(u)
  BY <1>1, <1>4, <1>12, <1>13, <1>14, SameConstants DEF U!Decide, Replies, Reply
<1> QED BY <1>15, SameConstants DEF U!Next

LEMMA ReportRefines ==
  ASSUME EInv, UInv, NEW l \in Loops, Finished(l) \/ (Initiated(l) /\ ~loop[l].ok)
  PROVE  U!Next
<1> USE Sizes
<1> PICK u \in Uploads : u = Up(l)
  BY LoopFacts DEF EInv
<1>1. /\ UNCHANGED <<sent, flight, failed, final>> /\ Held(l)
      /\ results \in [Uploads -> Seq(Reports)] /\ Single /\ loop[l].ok \in BOOLEAN
  BY LoopFacts DEF Finished, Initiated, LoopUnchanged, uploadVars, At, Held, EInv, Types, UInv
<1>2. Replies' = Replies
  BY <1>1, RepliesKept DEF Replies
<1>3. /\ sent[loop[l].msg] = 1 /\ flight[loop[l].msg] = 0
      /\ loop[l].msg \in failed <=> ~loop[l].ok
  BY <1>1 DEF Single, EInv, Errors
<1>4. \A r : Append(<<>>, r) = <<r>>
  OBVIOUS
<1>5. CASE Initiated(l) /\ ~loop[l].ok
  <2>1. loop[l].msg = <<u, Initiate>> /\ Starting(u)
    BY <1>1, <1>5, StageOfHeld DEF Initiated, At
  <2>2. results[u] = <<>>
    BY <2>1 DEF Starting
  <2>3. Reply(u, Initiate) = "failed"
    BY <1>3, <1>5, <2>1 DEF Reply
  <2>4. Replies[u][Initiate] = "failed"
    BY <2>3 DEF Replies
  <2>5. results' = [results EXCEPT ![u] = Append(results[u], "failed")]
    BY <1>5 DEF Initiated, Complete
  <2>6. results' = [results EXCEPT ![u] = <<"failed">>]
    BY <1>4, <2>2, <2>5
  <2>7. U!Report(u)
    BY <1>1, <1>2, <2>2, <2>4, <2>6, SameConstants DEF U!Report, Replies, Reply
  <2> QED BY <2>7, SameConstants DEF U!Next
<1>6. CASE Finished(l)
  <2>1. loop[l].msg = <<u, Final>> /\ Finishing(u)
    BY <1>1, <1>6, StageOfHeld DEF Finished, At
  <2>2. results[u] = <<>>
    BY <2>1 DEF Finishing
  <2>3. Reply(u, Final) = IF loop[l].ok THEN "ok" ELSE "failed"
    BY <1>1, <1>3, <2>1 DEF Reply
  <2>4. Replies[u][Final] = IF loop[l].ok THEN "ok" ELSE "failed"
    BY <2>3 DEF Replies
  <2>5. results' = [results EXCEPT ![u] = Append(results[u],
                      IF final[u] = "complete" /\ loop[l].ok THEN "finished" ELSE "cancelled")]
    BY <1>6 DEF Finished, Complete
  <2>6. results' = [results EXCEPT ![u] =
                      IF final[u] = "complete" /\ Replies[u][Final] = "ok"
                      THEN <<"finished">> ELSE <<"cancelled">>]
    BY <1>1, <1>4, <2>2, <2>4, <2>5
  <2>7. Replies[u][Final] # "none"
    BY <2>4
  <2>8. U!Report(u)
    BY <1>1, <1>2, <2>2, <2>6, <2>7, SameConstants DEF U!Report, Replies, Reply
  <2> QED BY <2>8, SameConstants DEF U!Next
<1> QED BY <1>5, <1>6

LEMMA SubmitRefines ==
  ASSUME EInv, UInv, Submit
  PROVE  \A v \in Uploads, j \in 0..Final : Reply(v, j)' = Reply(v, j)
<1> SUFFICES ASSUME NEW v \in Uploads, NEW j \in 0..Final PROVE Reply(v, j)' = Reply(v, j)
  OBVIOUS
<1>1. <<v, j>> \in Messages
  BY MessageFacts
<1>2. /\ flight' = [m \in Messages |-> IF m \in user.batch THEN flight[m] + 1 ELSE flight[m]]
      /\ sent' = [m \in Messages |-> IF m \in user.batch THEN sent[m] + 1 ELSE sent[m]]
      /\ failed' = failed /\ flight[<<v, j>>] \in Nat /\ sent[<<v, j>>] \in Nat
  BY <1>1 DEF Submit, UserUnchanged, EInv, Types
<1>3. flight'[<<v, j>>] = sent'[<<v, j>>] <=> flight[<<v, j>>] = sent[<<v, j>>]
  BY <1>1, <1>2
<1> QED BY <1>2, <1>3 DEF Reply

\* Each step maps to one of the abstract specification or to a stutter.
LEMMA StepRefines ==
  ASSUME EInv, UInv, [Next]_vars PROVE U!Next \/ UNCHANGED U!vars
<1>1. CASE User
  <2>1. UNCHANGED <<final, results>>
    BY <1>1 DEF User, Call, Begin, Submit, Reject, Return, Gather, UndoRead, UndoWrite,
                UserUnchanged
  <2>2. CASE Submit
    BY <2>1, <2>2, SubmitRefines, NothingPromised
  <2>3. CASE ~Submit
    <3>1. UNCHANGED <<sent, flight, failed>>
      BY <1>1, <2>3 DEF User, Call, Begin, Reject, Return, Gather, UndoRead, UndoWrite,
                        UserUnchanged
    <3> QED BY <2>1, <3>1, RepliesKept, NothingPromised
  <2> QED BY <2>2, <2>3
<1>2. ASSUME NEW l \in Loops, Callback(l) PROVE U!Next \/ UNCHANGED U!vars
  <2>1. CASE BuildFinal(l)
    BY <2>1, DecideRefines
  <2>2. CASE Finished(l) \/ (Initiated(l) /\ ~loop[l].ok)
    BY <2>2, ReportRefines
  <2>3. CASE ~BuildFinal(l) /\ ~Finished(l) /\ ~(Initiated(l) /\ ~loop[l].ok)
    <3>1. UNCHANGED <<sent, flight, failed, final, results>>
      BY <1>2, <2>3 DEF Callback, Initiated, RecordETag, RecordError, SetAborted, CountDown,
                        Announce, LoopUnchanged
    <3> QED BY <3>1, RepliesKept, NothingPromised
  <2> QED BY <2>1, <2>2, <2>3
<1>3. ASSUME NEW l \in Loops, NEW m \in Messages, NEW ok \in BOOLEAN, Answer(l, m, ok)
      PROVE  U!Next
  BY <1>3, AnswerRefines
<1>4. CASE UNCHANGED vars
  <2>1. UNCHANGED <<sent, flight, failed, final, results>>
    BY <1>4 DEF vars, uploadVars
  <2> QED BY <2>1, RepliesKept, NothingPromised
<1> QED BY <1>1, <1>2, <1>3, <1>4 DEF Next, Answers

LEMMA InitRefines == Init => U!Init
<1> SUFFICES ASSUME Init PROVE U!Init
  OBVIOUS
<1>1. \A u \in Uploads, i \in 0..Final : Reply(u, i) = "none"
  BY MessageFacts DEF Init, Reply
<1>2. Replies = [u \in Uploads |-> [i \in 0..Final |-> "none"]]
  BY <1>1 DEF Replies
<1>3. final = [u \in Uploads |-> "none"] /\ results = [u \in Uploads |-> <<>>]
  BY DEF Init
<1> QED BY <1>2, <1>3, SameConstants DEF U!Init, Replies, Reply

\* Until a send is rejected, what the service answers, what the last part's thread
\* decides and what the user is told go as the abstract uploads go.
THEOREM TransactionImplementsUpload == Spec => ImplementsUpload
<1>1. IInv /\ [Next]_vars => [Undisturbed' => U!Next]_(U!vars)
  <2> SUFFICES ASSUME IInv, [Next]_vars, Undisturbed' PROVE U!Next \/ UNCHANGED U!vars
    OBVIOUS
  <2>1. EInv /\ UInv
    BY StaysDisturbed DEF IInv, TxnInv
  <2> QED BY <2>1, StepRefines
<1> QED BY <1>1, InitRefines, Inductive, PTL DEF Spec, ImplementsUpload

\* With queues that always have room it is a refinement without reservation.
THEOREM UndisturbedRefinement == ASSUME MaxRejects = 0 PROVE Spec => U!Spec
<1>1. IInv /\ [Next]_vars => [U!Next]_(U!vars)
  <2> SUFFICES ASSUME IInv, [Next]_vars PROVE U!Next \/ UNCHANGED U!vars
    OBVIOUS
  <2>1. EInv /\ UInv
    <3>1. Undisturbed
      BY DEF IInv, EInv, Types, Undisturbed
    <3> QED BY <3>1 DEF IInv, TxnInv
  <2> QED BY <2>1, StepRefines
<1> QED BY <1>1, InitRefines, Inductive, PTL DEF Spec, U!Spec
=============================================================================
