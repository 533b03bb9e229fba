---------------------------- MODULE MCUringLoop ----------------------------
(* Instances of UringLoop for TLC.                                         *)
EXTENDS UringLoop, TLC

CONSTANTS m1, m2, m3

TwoMsgs == {m1, m2}
ThreeMsgs == {m1, m2, m3}
=============================================================================
