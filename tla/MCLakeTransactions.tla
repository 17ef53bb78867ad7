------------------------- MODULE MCLakeTransactions -------------------------
(* Values for TLC: two periods, and a writer on Ray beside a local one.    *)
EXTENDS LakeTransactions, TLC

TwoKeys == {<<t, 1>> : t \in 1 .. 2}

FeatureSymmetry == Permutations(Features)
=============================================================================
