----------------------------- MODULE MCReceivers -----------------------------
(* Instances of Receivers for TLC.                                         *)
EXTENDS Receivers, TLC

Sym == Permutations(Receivers) \cup Permutations(Handles) \cup Permutations(Msgs \ Bring)
=============================================================================
