---------------------------- MODULE MCRingBuffer ----------------------------
(* Small rings for TLC.                                                    *)
EXTENDS RingBuffer, FiniteSets, TLC

CONSTANTS MaxBatch  \* bound on the length of a batch

\* Every batch up to MaxBatch elements, the empty vector and, when
\* MaxBatch > Size, one that can never fit included.
MCBatches == UNION {[1..n -> Values] : n \in 0..MaxBatch}

Sym == Permutations(Producers) \cup Permutations(Consumers) \cup Permutations(Values)

=============================================================================
