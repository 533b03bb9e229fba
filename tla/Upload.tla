------------------------------- MODULE Upload -------------------------------
(***************************************************************************)
(* What the multipart uploads of a transaction promise: parts only after   *)
(* the service has begun the upload, one decision when all parts are       *)
(* answered, one report to the user.  Transaction implements this.         *)
(***************************************************************************)
EXTENDS Integers, Sequences

CONSTANTS
  N,       \* uploads, numbered from 1
  Parts    \* parts of each

Uploads == 1..N
PartIds == 1..Parts
Initiate == 0
Final == Parts + 1

VARIABLES
  answers,   \* what the service answered to each request of each upload
  verdict,   \* whether the upload is to be completed or to be aborted
  reports    \* what the user's callback got, call by call

vars == <<answers, verdict, reports>>

Init ==
  /\ answers = [u \in Uploads |-> [i \in 0..Final |-> "none"]]
  /\ verdict = [u \in Uploads |-> "none"]
  /\ reports = [u \in Uploads |-> <<>>]

\* A request is answered once, and when the request it depends on allows it.
Answered(u, i) ==
  /\ answers[u][i] = "none"
  /\ i \in PartIds => answers[u][Initiate] = "ok"
  /\ i = Final => verdict[u] # "none"
  /\ \E a \in {"ok", "failed"} : answers' = [answers EXCEPT ![u][i] = a]
  /\ UNCHANGED <<verdict, reports>>

Decide(u) ==
  /\ verdict[u] = "none"
  /\ \A i \in PartIds : answers[u][i] # "none"
  /\ verdict' = [verdict EXCEPT ![u] = IF \A i \in PartIds : answers[u][i] = "ok"
                                       THEN "complete" ELSE "abort"]
  /\ UNCHANGED <<answers, reports>>

Report(u) ==
  /\ reports[u] = <<>>
  /\ \/ /\ answers[u][Initiate] = "failed"
        /\ reports' = [reports EXCEPT ![u] = <<"failed">>]
     \/ /\ answers[u][Final] # "none"
        /\ reports' = [reports EXCEPT ![u] =
                         IF verdict[u] = "complete" /\ answers[u][Final] = "ok"
                         THEN <<"finished">> ELSE <<"cancelled">>]
  /\ UNCHANGED <<answers, verdict>>

Next == \E u \in Uploads : Decide(u) \/ Report(u) \/ \E i \in 0..Final : Answered(u, i)

Spec == Init /\ [][Next]_vars
=============================================================================
