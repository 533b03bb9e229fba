---------------------------- MODULE MCEventLoop ----------------------------
(* Instances of EventLoop for TLC.                                         *)
EXTENDS EventLoop, TLC

CONSTANTS m1, m2, m3

TwoMsgs == {m1, m2}
ThreeMsgs == {m1, m2, m3}
Alike == Permutations(Msgs)
=============================================================================
