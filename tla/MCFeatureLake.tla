--------------------------- MODULE MCFeatureLake ---------------------------
(* Values for TLC: three periods, one of them with two secondary keys.     *)
EXTENDS FeatureLake, TLC

SmallKeys == {<<1, 1>>, <<2, 1>>, <<2, 2>>, <<3, 1>>}

FeatureSymmetry == Permutations(Features)
=============================================================================
