--------------------------- MODULE MCTransaction ---------------------------
(* Instances of Transaction for TLC.                                       *)
EXTENDS Transaction, TLC

CONSTANTS l1, l2

TwoLoops == {l1, l2}
\* Two uploads at once for processSync, one for processAsync.
SyncTwo == {<<TRUE, 2>>, <<FALSE, 1>>}
AsyncTwo == {<<FALSE, 2>>}
Alike == Permutations(Loops)
=============================================================================
