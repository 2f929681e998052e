---------------------------- MODULE MCYncaWatch ----------------------------
(* The instance of YncaWatch for TLC: the receiver at 1, then 2, beside    *)
(* another one at 3.                                                       *)
EXTENDS YncaWatch
MCAddrs == 1..3
=============================================================================
