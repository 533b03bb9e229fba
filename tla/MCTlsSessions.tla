--------------------------- MODULE MCTlsSessions ---------------------------
(* Instances of TlsSessions for TLC.                                       *)
EXTENDS TlsSessions, TLC

CONSTANTS l1, l2, l3, s1, s2, s3

AllLayers == {l1, l2, l3}
AllPeers == {s1, s2, s3}

\* s1 and s2 share an entry.
IPv4 == s1 :> 1 @@ s2 :> 3 @@ s3 :> 2
\* Both are seen as 0.
IPv6 == s1 :> 0 @@ s2 :> 0 @@ s3 :> 2

Symmetry == Permutations(AllLayers)
=============================================================================
