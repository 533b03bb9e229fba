----------------------------- MODULE MCTransfers -----------------------------
(* Instances of Transfers for TLC.                                         *)
EXTENDS Transfers, TLC

Sym == Permutations(Conns) \cup Permutations(Keys)
=============================================================================
