---------------------------- MODULE MCLakeReads ----------------------------
(* Values for TLC: three periods; the middle one is another entity's.      *)
EXTENDS LakeReads, TLC

LineKeys == {<<t, 1>> : t \in 1 .. 3}
ZigzagKeys == {<<1, 1>>, <<2, 2>>, <<3, 1>>}
=============================================================================
