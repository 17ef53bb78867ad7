---------------------------- MODULE LakeContract ----------------------------
(***************************************************************************)
(* What a Gamma Lake promises of its dense features, with no tables: there *)
(* is one index, and the rows stored for a feature are always the index    *)
(* rows up to the feature's horizon, each once.  FeatureLake implements it *)
(* with one Delta table per feature group (see FeatureLake!Contract).      *)
(***************************************************************************)
EXTENDS Naturals

CONSTANTS Keys, Features

VARIABLES
  index,   \* the keys of the lake
  served   \* served[f][k]: how many rows the latest version of f has for k

vars == <<index, served>>

Time(k) == k[1]

OneRowEach(S) == [k \in Keys |-> IF k \in S THEN 1 ELSE 0]

\* The periods up to the last one of S.
Upto(S) == {k \in Keys : \E j \in S : Time(k) <= Time(j)}

Held(f) == LET t == served[f] IN {k \in Keys : t[k] > 0}

Init ==
  /\ index = {}
  /\ served = [f \in Features |-> OneRowEach({})]

\* A write of the features F at the keys K moves the horizon of each of them
\* to the last period of K, back if need be; the others keep their horizon
\* and receive the new keys before it.
Write(K, F) ==
  /\ K # {}
  /\ index' = index \cup K
  /\ served' = [f \in Features |->
       OneRowEach(index' \cap Upto(IF f \in F THEN K ELSE Held(f)))]

\* Consolidation moves the horizon of each feature of F to the furthest one.
Consolidate(F) ==
  /\ index' = index
  /\ served' = [f \in Features |->
       IF f \in F THEN OneRowEach(index \cap Upto(UNION {Held(g) : g \in F}))
                  ELSE served[f]]

Next ==
  \/ \E K \in SUBSET Keys, F \in SUBSET Features : Write(K, F)
  \/ \E F \in SUBSET Features : Consolidate(F)

Spec == Init /\ [][Next]_vars
=============================================================================
