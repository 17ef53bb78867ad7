------------------------- MODULE MCRuntimeFeatures -------------------------
(* Values for TLC: a chain of expressions, a diamond and a cycle over a    *)
(* stored feature; one expression alone.                                   *)
EXTENDS RuntimeFeatures, TLC

CONSTANTS a, b, c, d

ChainExprs ==
  {[feature |-> b, roots |-> {a}], [feature |-> c, roots |-> {b}],
   [feature |-> d, roots |-> {b, c}], [feature |-> b, roots |-> {d}]}

OneOverA == {[feature |-> b, roots |-> {a}]}

TransformA == a :> d
NoTransforms == << >>

CallerSymmetry == Permutations(Callers)
=============================================================================
