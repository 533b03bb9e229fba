-------------------------- MODULE MCCloudRequests --------------------------
(* Instances of CloudRequests for TLC.                                     *)
EXTENDS CloudRequests, TLC

CONSTANTS a, b, t1, t2

Everyone == {a, b}
AllThreads == {t1, t2}
Apart == [i \in Everyone |-> i]
Shared == [i \in Everyone |-> a]
Symmetry == Permutations(AllThreads)
=============================================================================
