----------------------- MODULE RuntimeFeaturesProofs -----------------------
(***************************************************************************)
(* Calls that register and store features, interleaved as they like: the   *)
(* types, for which a version must be left for each registration that has  *)
(* not read the versions yet; that a settled definition stays; and what    *)
(* reads return: batches compute every column that has its roots, in       *)
(* whatever order, and no other.  What recursive functions compute is      *)
(* proved by induction over the set of the numbers of steps at which it    *)
(* holds.                                                                  *)
(***************************************************************************)
EXTENDS RuntimeFeatures, FiniteSetTheorems, TLAPS

-----------------------------------------------------------------------------
(* Natural numbers. *)

\* Induction over the naturals, for a set: the least number out of the set is
\* neither 0 nor above another.
LEMMA Counting ==
  ASSUME NEW S, 0 \in S, \A n \in Nat : n \in S => n + 1 \in S
  PROVE  \A n \in Nat : n \in S
<1> DEFINE Rest == Nat \ S
           R == OpToRel(<, Nat)
<1> SUFFICES ASSUME Rest # {} PROVE FALSE
  OBVIOUS
<1>1. IsWellFoundedOn(R, Nat) /\ Rest \subseteq Nat
  BY NatLessThanWellFounded
<1>2. PICK n \in Rest : \A m \in Rest : ~ (<<m, n>> \in R)
  <2> HIDE DEF R, Rest
  <2> QED
    BY <1>1, WFMin
<1>3. \A m \in Rest : ~ (m < n)
  BY <1>2 DEF OpToRel
<1> HIDE DEF R
<1>4. n # 0 /\ n \in Nat /\ n - 1 \in Nat
  <2>1. n \in Nat /\ n \notin S
    BY <1>2
  <2>2. n # 0
    BY <2>1
  <2> QED
    BY <2>1, <2>2
<1>5. n - 1 \in S
  BY <1>3, <1>4
<1>6. (n - 1) + 1 = n
  BY <1>4
<1> QED
  BY <1>2, <1>4, <1>5, <1>6

\* A bounded set of naturals has a greatest element.
LEMMA HasGreatest ==
  ASSUME NEW V \in SUBSET Nat, V # {}, NEW k \in Nat, \A v \in V : v <= k
  PROVE  \E m \in V : \A v \in V : v <= m
<1> SUFFICES ASSUME \A m \in V : \E v \in V : v > m PROVE FALSE
  OBVIOUS
<1> DEFINE Reached == {n \in Nat : n <= k + 1 => \E v \in V : v >= n}
<1>1. 0 \in Reached
  <2>1. \A v \in V : v >= 0
    OBVIOUS
  <2> QED
    BY <2>1
<1>2. ASSUME NEW n \in Nat, n \in Reached PROVE n + 1 \in Reached
  <2> SUFFICES ASSUME n + 1 <= k + 1 PROVE \E v \in V : v >= n + 1
    OBVIOUS
  <2>1. PICK m \in V : m >= n
    BY <1>2
  <2>2. PICK v \in V : v > m
    OBVIOUS
  <2> QED
    BY <2>1, <2>2
<1> HIDE DEF Reached
<1>3. k + 1 \in Reached
  BY <1>1, <1>2, Counting
<1>4. PICK v \in V : v >= k + 1
  BY <1>3 DEF Reached
<1> QED
  BY <1>4

-----------------------------------------------------------------------------
(* Types. *)

\* The registrations that have yet to read the versions.
Checked == {p \in Callers : job[p].step = "checked"}

\* Every one of them adds at most 1 to the greatest version, and has been counted.
Counted ==
  /\ IsFiniteSet(Checked) /\ Cardinality(Checked) <= calls
  /\ \A r \in meta : r.version + Cardinality(Checked) < calls
  /\ \A p \in Callers : \A r \in job[p].rows : r.version + Cardinality(Checked) < calls

\* The inductive invariant.
Typed == TypeOK /\ Counted

\* The expressions that callers pass.
Expr == [feature : Features, roots : SUBSET Features]

\* The numbers of the invariant.
LEMMA Numbers ==
  ASSUME Typed
  PROVE  /\ calls \in Nat /\ MaxCalls \in Nat /\ Cardinality(Checked) \in Nat
         /\ \A r \in meta : r.version \in Nat
         /\ \A p \in Callers : \A r \in job[p].rows : r \in Row /\ r.version \in Nat
<1>1. Cardinality(Checked) \in Nat
  BY FS_CardinalityType DEF Typed, Counted
<1>2. \A p \in Callers : job[p].rows \in SUBSET Row
  BY DEF Typed, TypeOK
<1> QED
  BY <1>1, <1>2, MaxCallsAssumption DEF Typed, TypeOK, Row, Versions

\* _latest_per_feature finds a row, and none of the feature is above it.
LEMMA LatestRowIsGreatest ==
  ASSUME Typed, NEW n \in Registered
  PROVE  /\ LatestRow(n) \in meta /\ LatestRow(n).feature = n
         /\ \A s \in meta : s.feature = n => s.version <= LatestRow(n).version
<1> DEFINE V == {r.version : r \in {s \in meta : s.feature = n}}
<1>1. V \in SUBSET Nat /\ V # {} /\ \A v \in V : v <= MaxCalls
  BY MaxCallsAssumption DEF Registered, NamesOf, Typed, TypeOK, Row, Versions
<1>2. PICK m \in V : \A v \in V : v <= m
  <2> HIDE DEF V
  <2> QED
    BY <1>1, HasGreatest, MaxCallsAssumption
<1>3. PICK r \in meta : r.feature = n /\ r.version = m
  BY <1>2
<1>4. \A s \in meta : s.feature = n => s.version <= r.version
  BY <1>2, <1>3
<1> QED
  BY <1>3, <1>4 DEF LatestRow

\* The next version leaves room for the registrations that will read after it.
LEMMA NextVersionIsBounded ==
  ASSUME Typed, NEW n
  PROVE  /\ NextVersion(n) \in Versions
         /\ NextVersion(n) + Cardinality(Checked) <= calls
<1>1. NextVersion(n) \in Nat /\ NextVersion(n) + Cardinality(Checked) <= calls
  <2>1. CASE n \in Registered
    <3>1. LatestRow(n) \in meta
      BY <2>1, LatestRowIsGreatest
    <3>2. /\ LatestRow(n).version \in Nat
          /\ LatestRow(n).version + Cardinality(Checked) < calls
      BY <3>1, Numbers DEF Typed, Counted
    <3> QED
      BY <2>1, <3>2, Numbers DEF NextVersion
  <2>2. CASE n \notin Registered
    BY <2>2, Numbers DEF NextVersion, Typed, Counted
  <2> QED
    BY <2>1, <2>2
<1>2. calls <= MaxCalls
  BY Numbers DEF Typed, TypeOK
<1> QED
  BY <1>1, <1>2, Numbers DEF Versions

\* No row, no call.
LEMMA InitTyped == Init => Typed
<1> SUFFICES ASSUME Init PROVE Typed
  OBVIOUS
<1>1. TypeOK
  BY MaxCallsAssumption DEF Init, TypeOK, Idle, Job
<1>2. Checked = {}
  BY DEF Init, Checked, Idle, Job
<1>3. IsFiniteSet(Checked) /\ Cardinality(Checked) = 0
  BY <1>2, FS_EmptySet
<1> QED
  BY <1>1, <1>3 DEF Init, Typed, Counted, Idle, Job

\* A call that passes the checks holds expressions over feature names, and is
\* counted as it begins to wait for its versions.
LEMMA CheckKeepsTypes ==
  ASSUME Typed, NEW p \in Callers, NEW E \in SUBSET Expr, Check(p, E)
  PROVE  Typed'
<1>1. /\ meta' = meta /\ filled' = filled /\ calls' = calls + 1 /\ calls < MaxCalls
      /\ job' = [job EXCEPT ![p] = [step |-> "checked", exprs |-> E,
                                    rows |-> {}, fills |-> {}]]
  BY DEF Check, Job
<1>2. TypeOK'
  BY <1>1, Numbers DEF Typed, TypeOK, Expr
<1>3. p \notin Checked /\ Checked' = Checked \cup {p}
  BY <1>1 DEF Check, Busy, Idle, Job, Checked, Typed, TypeOK
<1>4. IsFiniteSet(Checked') /\ Cardinality(Checked') = Cardinality(Checked) + 1
  BY <1>3, FS_AddElement DEF Typed, Counted
<1>5. \A q \in Callers : job'[q].rows \subseteq job[q].rows
  BY <1>1 DEF Typed, TypeOK
<1>6. Counted'
  BY <1>1, <1>4, <1>5, Numbers DEF Typed, Counted
<1> QED
  BY <1>2, <1>6 DEF Typed

\* The second read makes rows of what was checked, one above what there is.
LEMMA ReadVersionsKeepsTypes ==
  ASSUME Typed, NEW p \in Callers, ReadVersions(p)
  PROVE  Typed'
<1> DEFINE R == {[feature |-> e.feature, version |-> NextVersion(e.feature),
                  runtime |-> TRUE, roots |-> e.roots] : e \in job[p].exprs}
<1>1. /\ meta' = meta /\ filled' = filled /\ calls' = calls
      /\ job' = [job EXCEPT ![p] = [job[p] EXCEPT !.step = "versioned", !.rows = R]]
  BY DEF ReadVersions
<1>2. ASSUME NEW r \in R
      PROVE  r \in Row /\ r.version + Cardinality(Checked) <= calls
  <2>1. PICK e \in job[p].exprs :
          r = [feature |-> e.feature, version |-> NextVersion(e.feature),
               runtime |-> TRUE, roots |-> e.roots]
    BY <1>2
  <2>2. e \in Expr
    BY DEF Typed, TypeOK, Expr
  <2>3. /\ NextVersion(e.feature) \in Versions
        /\ NextVersion(e.feature) + Cardinality(Checked) <= calls
    BY NextVersionIsBounded
  <2> QED
    BY <2>1, <2>2, <2>3 DEF Row, Expr
<1> HIDE DEF R
<1>3. TypeOK'
  BY <1>1, <1>2 DEF Typed, TypeOK
<1>4. p \in Checked /\ Checked' = Checked \ {p}
  BY <1>1 DEF ReadVersions, Checked, Typed, TypeOK
<1>5. IsFiniteSet(Checked') /\ Cardinality(Checked') = Cardinality(Checked) - 1
  BY <1>4, FS_RemoveElement DEF Typed, Counted
<1>6. \A q \in Callers : job'[q].rows \subseteq job[q].rows \cup R
  BY <1>1 DEF Typed, TypeOK
<1>7. \A r \in R : r.version \in Nat
  BY <1>2, MaxCallsAssumption DEF Row, Versions
<1>8. Counted'
  BY <1>1, <1>2, <1>5, <1>6, <1>7, Numbers DEF Typed, Counted
<1> QED
  BY <1>3, <1>8 DEF Typed

\* The append moves rows from a call to the lake.
LEMMA AppendKeepsTypes ==
  ASSUME Typed, NEW p \in Callers, Append(p)
  PROVE  Typed'
<1>1. /\ meta' = meta \cup job[p].rows /\ filled' = filled \cup job[p].fills
      /\ calls' = calls /\ job' = [job EXCEPT ![p] = Idle]
      /\ job[p].step = "versioned"
  BY DEF Append
<1>2. TypeOK'
  BY <1>1 DEF Typed, TypeOK, Idle, Job
<1>3. Checked' = Checked
  BY <1>1 DEF Checked, Idle, Job, Typed, TypeOK
<1>4. \A q \in Callers : job'[q].rows \subseteq job[q].rows
  BY <1>1 DEF Idle, Job, Typed, TypeOK
<1>5. Counted'
  BY <1>1, <1>3, <1>4 DEF Typed, Counted
<1> QED
  BY <1>2, <1>5 DEF Typed

\* A call that fails leaves the rows.
LEMMA AbandonKeepsTypes ==
  ASSUME Typed, NEW p \in Callers, Abandon(p)
  PROVE  Typed'
<1>1. /\ meta' = meta /\ filled' = filled /\ calls' = calls
      /\ job' = [job EXCEPT ![p] = Idle]
  BY DEF Abandon
<1>2. TypeOK'
  BY <1>1 DEF Typed, TypeOK, Idle, Job
<1>3. Checked' \subseteq Checked
  BY <1>1 DEF Checked, Idle, Job, Typed, TypeOK
<1>4. /\ IsFiniteSet(Checked') /\ Cardinality(Checked') \in Nat
      /\ Cardinality(Checked') <= Cardinality(Checked)
  BY <1>3, FS_Subset, FS_CardinalityType DEF Typed, Counted
<1>5. \A q \in Callers : job'[q].rows \subseteq job[q].rows
  BY <1>1 DEF Idle, Job, Typed, TypeOK
<1>6. Counted'
  BY <1>1, <1>4, <1>5, Numbers DEF Typed, Counted
<1> QED
  BY <1>2, <1>6 DEF Typed

\* A stored write holds one row, or fills a computed feature.
LEMMA StoreKeepsTypes ==
  ASSUME Typed, NEW p \in Callers, NEW n \in Features, Store(p, n)
  PROVE  Typed'
<1> DEFINE R == IF FirstValues(n) THEN {} ELSE {StoredRow(n)}
           N == IF FirstValues(n) THEN {n} ELSE {}
<1>1. /\ meta' = meta /\ filled' = filled /\ calls' = calls + 1 /\ calls < MaxCalls
      /\ job' = [job EXCEPT ![p] = [step |-> "versioned", exprs |-> {},
                                    rows |-> R, fills |-> N]]
  BY DEF Store, Job
<1>2. N \in SUBSET Features
  OBVIOUS
<1>3. /\ R \in SUBSET Row
      /\ \A r \in R : r.version \in Nat /\ r.version + Cardinality(Checked) <= calls
  <2>1. /\ NextVersion(n) \in Versions
        /\ NextVersion(n) + Cardinality(Checked) <= calls
    BY NextVersionIsBounded
  <2>2. StoredRow(n) \in Row /\ StoredRow(n).version = NextVersion(n)
    BY <2>1 DEF StoredRow, Row
  <2>3. NextVersion(n) \in Nat
    BY <2>1, MaxCallsAssumption DEF Versions
  <2> QED
    BY <2>1, <2>2, <2>3
<1> HIDE DEF R, N
<1>4. TypeOK'
  BY <1>1, <1>2, <1>3, Numbers DEF Typed, TypeOK
<1>5. Checked' = Checked
  BY <1>1 DEF Store, Busy, Idle, Job, Checked, Typed, TypeOK
<1>6. \A q \in Callers : job'[q].rows \subseteq job[q].rows \cup R
  BY <1>1 DEF Typed, TypeOK
<1>7. Counted'
  BY <1>1, <1>3, <1>5, <1>6, Numbers DEF Typed, Counted
<1> QED
  BY <1>4, <1>7 DEF Typed

\* Every step keeps the types.
LEMMA StepKeepsTypes ==
  ASSUME Typed, [Next]_vars
  PROVE  Typed'
<1>1. CASE UNCHANGED vars
  BY <1>1 DEF vars, Typed, TypeOK, Counted, Checked
<1>2. ASSUME NEW p \in Callers, NEW E \in SUBSET Exprs, Check(p, E)
      PROVE  Typed'
  BY <1>2, CheckKeepsTypes, ExprsAssumption DEF Expr
<1>3. ASSUME NEW p \in Callers, NEW S \in SUBSET DOMAIN Transformed,
             Check(p, TransformExprs(S))
      PROVE  Typed'
  <2>1. TransformExprs(S) \in SUBSET Expr
    BY TransformedAssumption DEF TransformExprs, Expr
  <2> QED
    BY <1>3, <2>1, CheckKeepsTypes
<1> QED
  BY <1>1, <1>2, <1>3, ReadVersionsKeepsTypes, AppendKeepsTypes, AbandonKeepsTypes,
     StoreKeepsTypes DEF Next

\* Types of the rows and of the calls in flight, for any expressions and callers:
\* in particular the maximum version of a registered feature always exists, and
\* versions never outgrow the calls made.
THEOREM Types == Spec => []TypeOK
<1>1. Typed => TypeOK
  BY DEF Typed
<1> QED
  BY <1>1, InitTyped, StepKeepsTypes, PTL DEF Spec

-----------------------------------------------------------------------------
(* Definitions. *)

\* Once a computed feature is alone under its name and no call in flight will add
\* a row of that name, no registration gets past its checks, and a stored write
\* finds the address "n/a" and adds no row: for any callers and expressions, and
\* however their steps interleave.
THEOREM SettledDefinitions == Spec => SettledDefinitionsAreFinal
<1> DEFINE Final == \A r \in Runtime(meta) :
             Settled(r) /\ r.feature \notin filled => r \in meta' /\ Settled(r)'
<1>1. Typed /\ [Next]_vars => Final
  <2> SUFFICES ASSUME Typed, [Next]_vars, NEW r \in meta, r.runtime,
                      Settled(r), r.feature \notin filled
               PROVE  r \in meta' /\ Settled(r)'
    BY DEF Runtime
  <2> USE DEF Settled, NamesOf
  <2>1. DOMAIN job = Callers /\ r.feature \in Registered
    BY DEF Typed, TypeOK, Registered
  <2>2. ASSUME NEW p \in Callers, NEW E, Check(p, E) PROVE r \in meta' /\ Settled(r)'
    <3>1. /\ meta' = meta
          /\ job' = [job EXCEPT ![p] = [step |-> "checked", exprs |-> E,
                                        rows |-> {}, fills |-> {}]]
          /\ \A e \in E : e.feature # r.feature
      BY <2>1, <2>2 DEF Check, Accepted, Job
    <3> QED
      BY <2>1, <3>1
  <2>3. ASSUME NEW p \in Callers, ReadVersions(p) PROVE r \in meta' /\ Settled(r)'
    <3> DEFINE R == {[feature |-> e.feature, version |-> NextVersion(e.feature),
                      runtime |-> TRUE, roots |-> e.roots] : e \in job[p].exprs}
    <3>1. /\ meta' = meta
          /\ job' = [job EXCEPT ![p] = [job[p] EXCEPT !.step = "versioned", !.rows = R]]
      BY <2>3 DEF ReadVersions
    <3>2. \A s \in R : s.feature # r.feature
      OBVIOUS
    <3> HIDE DEF R
    <3>3. /\ job'[p].exprs = job[p].exprs /\ job'[p].rows = R
          /\ \A q \in Callers : q # p => job'[q] = job[q]
      BY <2>1, <3>1 DEF Typed, TypeOK
    <3> QED
      BY <3>1, <3>2, <3>3
  <2>4. ASSUME NEW p \in Callers, Append(p) PROVE r \in meta' /\ Settled(r)'
    BY <2>1, <2>4 DEF Append, Idle, Job
  <2>5. ASSUME NEW p \in Callers, Abandon(p) PROVE r \in meta' /\ Settled(r)'
    BY <2>1, <2>5 DEF Abandon, Idle, Job
  <2>6. ASSUME NEW p \in Callers, NEW n \in Features, Store(p, n)
        PROVE  r \in meta' /\ Settled(r)'
    <3>1. /\ meta' = meta
          /\ \A q \in Callers : q # p => job'[q] = job[q]
          /\ job'[p].exprs = {}
          /\ \A s \in job'[p].rows : s.feature = n /\ ~ FirstValues(n)
      BY <2>1, <2>6 DEF Store, Job, StoredRow
    <3>2. n = r.feature => FirstValues(n)
      BY <2>1, LatestRowIsGreatest DEF FirstValues
    <3> QED
      BY <3>1, <3>2
  <2>7. CASE UNCHANGED vars
    BY <2>7 DEF vars
  <2> QED
    BY <2>2, <2>3, <2>4, <2>5, <2>6, <2>7 DEF Next
<1>2. Spec => []Typed
  BY InitTyped, StepKeepsTypes, PTL DEF Spec
<1>3. Final <=> (\A r \in Runtime(meta) :
        Settled(r) /\ r.feature \notin filled => r \in meta' /\ Settled(r)')
  OBVIOUS
<1> HIDE DEF Final
<1> QED
  BY <1>1, <1>2, <1>3, PTL DEF Spec, SettledDefinitionsAreFinal

-----------------------------------------------------------------------------
(* Recursion: what the recursive functions of a read compute. *)

\* The roots of the computed features in X, by the rows of T.
Direct(T, X) == RootsOf({r \in T : r.feature \in X})

\* The steps of the closure of S.
IsReach(T, S, f, k) ==
  f = [i \in 0 .. k |-> IF i = 0 THEN S ELSE f[i - 1] \cup Direct(T, f[i - 1])]

\* The batches of the evaluation of T.
IsRun(T, b, k) ==
  b = [i \in 0 .. k |-> IF i = 0 THEN Stored(T)
                        ELSE Batch(b[i - 1], Ready(T, DOMAIN b[i - 1]))]

\* There is a closure of any number of steps.
LEMMA ReachExists ==
  ASSUME NEW T, NEW S
  PROVE  \A k \in Nat : \E f : IsReach(T, S, f, k)
<1> DEFINE After(X) == X \cup Direct(T, X)
           Good == {k \in Nat : \E f : IsReach(T, S, f, k)}
<1>1. 0 \in Good
  <2> DEFINE f == [i \in 0 .. 0 |-> S]
  <2>1. f = [i \in 0 .. 0 |-> IF i = 0 THEN S ELSE After(f[i - 1])]
    <3> HIDE DEF After
    <3> QED
      OBVIOUS
  <2>2. IsReach(T, S, f, 0)
    BY <2>1 DEF IsReach
  <2> QED
    BY <2>2
<1>2. ASSUME NEW k \in Nat, k \in Good PROVE k + 1 \in Good
  <2>1. PICK g : IsReach(T, S, g, k)
    BY <1>2
  <2>2. g = [i \in 0 .. k |-> IF i = 0 THEN S ELSE After(g[i - 1])]
    BY <2>1 DEF IsReach
  <2> DEFINE f == [i \in 0 .. (k + 1) |-> IF i \in 0 .. k THEN g[i] ELSE After(g[k])]
  <2> HIDE DEF After
  <2>3. \A i \in 0 .. k : f[i] = g[i]
    OBVIOUS
  <2>4. \A i \in 0 .. (k + 1) : f[i] = IF i = 0 THEN S ELSE After(f[i - 1])
    <3> TAKE i \in 0 .. (k + 1)
    <3>1. CASE i = 0
      BY <2>2, <2>3, <3>1
    <3>2. CASE i \in 0 .. k /\ i # 0
      <4>1. i - 1 \in 0 .. k
        BY <3>2
      <4>2. f[i] = After(g[i - 1])
        BY <2>2, <2>3, <3>2
      <4> HIDE DEF f
      <4> QED
        BY <2>3, <3>2, <4>1, <4>2
    <3>3. CASE i = k + 1
      <4>1. i - 1 = k /\ k \in 0 .. k /\ i \notin 0 .. k /\ i # 0
        BY <3>3
      <4>2. f[i] = After(g[k])
        BY <3>3, <4>1
      <4> HIDE DEF f
      <4> QED
        BY <2>3, <4>1, <4>2
    <3> HIDE DEF f
    <3> QED
      BY <3>1, <3>2, <3>3
  <2>5. f = [i \in 0 .. (k + 1) |-> IF i = 0 THEN S ELSE After(f[i - 1])]
    BY <2>4
  <2>6. IsReach(T, S, f, k + 1)
    BY <2>5 DEF IsReach, After
  <2> QED
    BY <2>6
<1> HIDE DEF Good
<1>3. \A k \in Nat : k \in Good
  BY <1>1, <1>2, Counting
<1> QED
  BY <1>3 DEF Good

\* There is an evaluation of any number of batches.
LEMMA RunExists ==
  ASSUME NEW T
  PROVE  \A k \in Nat : \E b : IsRun(T, b, k)
<1> DEFINE After(X) == Batch(X, Ready(T, DOMAIN X))
           Good == {k \in Nat : \E b : IsRun(T, b, k)}
<1>1. 0 \in Good
  <2> DEFINE b == [i \in 0 .. 0 |-> Stored(T)]
  <2>1. b = [i \in 0 .. 0 |-> IF i = 0 THEN Stored(T) ELSE After(b[i - 1])]
    <3> HIDE DEF After
    <3> QED
      OBVIOUS
  <2>2. IsRun(T, b, 0)
    BY <2>1 DEF IsRun
  <2> QED
    BY <2>2
<1>2. ASSUME NEW k \in Nat, k \in Good PROVE k + 1 \in Good
  <2>1. PICK g : IsRun(T, g, k)
    BY <1>2
  <2>2. g = [i \in 0 .. k |-> IF i = 0 THEN Stored(T) ELSE After(g[i - 1])]
    BY <2>1 DEF IsRun
  <2> DEFINE b == [i \in 0 .. (k + 1) |-> IF i \in 0 .. k THEN g[i] ELSE After(g[k])]
  <2> HIDE DEF After
  <2>3. \A i \in 0 .. k : b[i] = g[i]
    OBVIOUS
  <2>4. \A i \in 0 .. (k + 1) : b[i] = IF i = 0 THEN Stored(T) ELSE After(b[i - 1])
    <3> TAKE i \in 0 .. (k + 1)
    <3>1. CASE i = 0
      BY <2>2, <2>3, <3>1
    <3>2. CASE i \in 0 .. k /\ i # 0
      <4>1. i - 1 \in 0 .. k
        BY <3>2
      <4>2. b[i] = After(g[i - 1])
        BY <2>2, <2>3, <3>2
      <4> HIDE DEF b
      <4> QED
        BY <2>3, <3>2, <4>1, <4>2
    <3>3. CASE i = k + 1
      <4>1. i - 1 = k /\ k \in 0 .. k /\ i \notin 0 .. k /\ i # 0
        BY <3>3
      <4>2. b[i] = After(g[k])
        BY <3>3, <4>1
      <4> HIDE DEF b
      <4> QED
        BY <2>3, <4>1, <4>2
    <3> HIDE DEF b
    <3> QED
      BY <3>1, <3>2, <3>3
  <2>5. b = [i \in 0 .. (k + 1) |-> IF i = 0 THEN Stored(T) ELSE After(b[i - 1])]
    BY <2>4
  <2>6. IsRun(T, b, k + 1)
    BY <2>5 DEF IsRun, After
  <2> QED
    BY <2>6
<1> HIDE DEF Good
<1>3. \A k \in Nat : k \in Good
  BY <1>1, <1>2, Counting
<1> QED
  BY <1>3 DEF Good

\* So the closure of S is that after as many steps as there are features.
LEMMA NeedsReach ==
  ASSUME NEW T, NEW S, IsFiniteSet(Features)
  PROVE  \E f : IsReach(T, S, f, Cardinality(Features)) /\ Needs(T, S) = f[Cardinality(Features)]
<1> DEFINE k == Cardinality(Features)
           f == CHOOSE f : f = [i \in 0 .. k |->
                  IF i = 0 THEN S
                  ELSE f[i - 1] \cup RootsOf({r \in T : r.feature \in f[i - 1]})]
<1>1. k \in Nat
  BY FS_CardinalityType
<1>2. \E g : IsReach(T, S, g, k)
  BY <1>1, ReachExists
<1>3. IsReach(T, S, f, k)
  BY <1>2 DEF IsReach, Direct
<1>4. Needs(T, S) = f[k]
  BY DEF Needs
<1> QED
  BY <1>3, <1>4

\* A read of T evaluates as many batches as T has rows, the last of which it shows.
LEMMA ColumnsRun ==
  ASSUME NEW T, IsFiniteSet(T)
  PROVE  \E b : IsRun(T, b, Cardinality(T)) /\ Columns(T) = b[Cardinality(T)]
<1> DEFINE k == Cardinality(T)
           b == CHOOSE b : b = [i \in 0 .. k |->
                  IF i = 0 THEN Stored(T) ELSE Batch(b[i - 1], Ready(T, DOMAIN b[i - 1]))]
<1>1. k \in Nat
  BY FS_CardinalityType
<1>2. \E g : IsRun(T, g, k)
  BY <1>1, RunExists
<1>3. IsRun(T, b, k)
  BY <1>2 DEF IsRun
<1>4. Columns(T) = b[k]
  BY DEF Columns
<1> QED
  BY <1>3, <1>4

\* The closure starts with S and each step adds roots.
LEMMA ReachSteps ==
  ASSUME NEW T, NEW S, NEW k \in Nat, NEW f, IsReach(T, S, f, k)
  PROVE  /\ f[0] = S
         /\ \A i \in Nat : i < k => f[i + 1] = f[i] \cup Direct(T, f[i])
<1> DEFINE After(X) == X \cup Direct(T, X)
<1>1. f = [i \in 0 .. k |-> IF i = 0 THEN S ELSE After(f[i - 1])]
  BY DEF IsReach
<1> HIDE DEF After
<1>2. \A i \in 0 .. k : f[i] = IF i = 0 THEN S ELSE After(f[i - 1])
  BY <1>1
<1>3. ASSUME NEW i \in Nat, i < k PROVE f[i + 1] = After(f[i])
  <2>1. i + 1 \in 0 .. k /\ i + 1 # 0 /\ (i + 1) - 1 = i
    BY <1>3
  <2> QED
    BY <1>2, <2>1
<1>4. f[0] = S
  BY <1>2
<1> QED
  BY <1>3, <1>4 DEF After

\* The first is what is stored, the next what was ready by then.
LEMMA RunSteps ==
  ASSUME NEW T, NEW k \in Nat, NEW b, IsRun(T, b, k)
  PROVE  /\ b[0] = Stored(T)
         /\ \A i \in Nat : i < k => b[i + 1] = Batch(b[i], Ready(T, DOMAIN b[i]))
<1> DEFINE After(X) == Batch(X, Ready(T, DOMAIN X))
<1>1. b = [i \in 0 .. k |-> IF i = 0 THEN Stored(T) ELSE After(b[i - 1])]
  BY DEF IsRun
<1> HIDE DEF After
<1>2. \A i \in 0 .. k : b[i] = IF i = 0 THEN Stored(T) ELSE After(b[i - 1])
  BY <1>1
<1>3. ASSUME NEW i \in Nat, i < k PROVE b[i + 1] = After(b[i])
  <2>1. i + 1 \in 0 .. k /\ i + 1 # 0 /\ (i + 1) - 1 = i
    BY <1>3
  <2> QED
    BY <1>2, <2>1
<1> QED
  BY <1>2, <1>3 DEF After

-----------------------------------------------------------------------------
(* What a column needs. *)

\* Rows of different features, of which a stored one is computed from nothing:
\* what a read loads.
Table(T) ==
  /\ T \subseteq Row /\ ~ Twice(T)
  /\ \A r \in T : ~ r.runtime => r.roots = {}

\* Sets that contain the roots of their members.
Closed(T, C) == Direct(T, C) \subseteq C

\* Needs(T, S) is the least closed set around S: a set that a step leaves is
\* closed, and one that every step extends has all features after as many steps.
LEMMA NeedsIsLeast ==
  ASSUME IsFiniteSet(Features), NEW T, Table(T), NEW S \in SUBSET Features
  PROVE  /\ S \subseteq Needs(T, S) /\ Needs(T, S) \subseteq Features
         /\ Closed(T, Needs(T, S))
         /\ \A C : S \subseteq C /\ Closed(T, C) => Needs(T, S) \subseteq C
<1> DEFINE k == Cardinality(Features)
<1>1. k \in Nat
  BY FS_CardinalityType
<1>2. PICK f : IsReach(T, S, f, k) /\ Needs(T, S) = f[k]
  BY NeedsReach
<1>3. /\ f[0] = S
      /\ \A i \in Nat : i < k => f[i + 1] = f[i] \cup Direct(T, f[i])
  <2>1. k \in Nat /\ IsReach(T, S, f, k)
    BY <1>1, <1>2
  <2> HIDE DEF k
  <2>2. f[0] = S
    BY <2>1, ReachSteps
  <2>3. \A i \in Nat : i < k => f[i + 1] = f[i] \cup Direct(T, f[i])
    BY <2>1, ReachSteps
  <2> QED
    BY <2>2, <2>3
<1>4. \A X : Direct(T, X) \subseteq Features
  BY DEF Direct, RootsOf, Runtime, Table, Row
<1> DEFINE Grows == {i \in Nat : i <= k =>
             /\ S \subseteq f[i] /\ f[i] \subseteq Features
             /\ Closed(T, f[i]) \/ Cardinality(f[i]) >= i}
<1>5. 0 \in Grows
  <2>1. IsFiniteSet(S) /\ Cardinality(S) \in Nat
    BY FS_Subset, FS_CardinalityType
  <2> QED
    BY <1>3, <2>1
<1>6. ASSUME NEW i \in Nat, i \in Grows PROVE i + 1 \in Grows
  <2> SUFFICES ASSUME i + 1 <= k
               PROVE  /\ S \subseteq f[i + 1] /\ f[i + 1] \subseteq Features
                      /\ Closed(T, f[i + 1]) \/ Cardinality(f[i + 1]) >= i + 1
    OBVIOUS
  <2>1. /\ S \subseteq f[i] /\ f[i] \subseteq Features
        /\ Closed(T, f[i]) \/ Cardinality(f[i]) >= i
        /\ f[i + 1] = f[i] \cup Direct(T, f[i])
    BY <1>1, <1>3, <1>6
  <2>2. S \subseteq f[i + 1] /\ f[i + 1] \subseteq Features /\ f[i] \subseteq f[i + 1]
    BY <1>4, <2>1
  <2>3. CASE Closed(T, f[i])
    <3>1. f[i + 1] = f[i]
      BY <2>1, <2>3 DEF Closed
    <3> QED
      BY <2>2, <2>3, <3>1
  <2>4. CASE ~ Closed(T, f[i])
    <3>1. f[i + 1] # f[i]
      BY <2>1, <2>4 DEF Closed
    <3>2. IsFiniteSet(f[i + 1])
      BY <2>2, FS_Subset
    <3>3. /\ Cardinality(f[i]) \in Nat /\ Cardinality(f[i + 1]) \in Nat
          /\ Cardinality(f[i]) <= Cardinality(f[i + 1])
          /\ Cardinality(f[i]) # Cardinality(f[i + 1])
      BY <2>2, <3>1, <3>2, FS_Subset, FS_CardinalityType
    <3>4. Cardinality(f[i]) >= i
      BY <2>1, <2>4
    <3> QED
      BY <2>2, <3>3, <3>4
  <2> QED
    BY <2>3, <2>4
<1> HIDE DEF Grows
<1>7. k \in Grows
  BY <1>1, <1>5, <1>6, Counting
<1>8. /\ S \subseteq f[k] /\ f[k] \subseteq Features
      /\ Closed(T, f[k]) \/ Cardinality(f[k]) >= k
  BY <1>1, <1>7 DEF Grows
<1>9. Closed(T, f[k])
  <2>1. CASE Cardinality(f[k]) >= k
    <3>1. Cardinality(f[k]) <= k /\ Cardinality(f[k]) \in Nat
      BY <1>8, FS_Subset, FS_CardinalityType
    <3>2. Cardinality(f[k]) = k
      BY <1>1, <2>1, <3>1
    <3>3. f[k] = Features
      BY <1>8, <3>2, FS_Subset
    <3> QED
      BY <1>4, <3>3 DEF Closed
  <2> QED
    BY <1>8, <2>1
<1>10. ASSUME NEW C, S \subseteq C, Closed(T, C) PROVE f[k] \subseteq C
  <2> DEFINE Within == {i \in Nat : i <= k => f[i] \subseteq C}
  <2>1. 0 \in Within
    BY <1>3, <1>10
  <2>2. ASSUME NEW i \in Nat, i \in Within PROVE i + 1 \in Within
    <3> SUFFICES ASSUME i + 1 <= k PROVE f[i + 1] \subseteq C
      OBVIOUS
    <3>1. f[i] \subseteq C /\ f[i + 1] = f[i] \cup Direct(T, f[i])
      BY <1>1, <1>3, <2>2
    <3>2. Direct(T, f[i]) \subseteq Direct(T, C)
      BY <3>1 DEF Direct, RootsOf, Runtime
    <3> QED
      BY <1>10, <3>1, <3>2 DEF Closed
  <2> HIDE DEF Within
  <2>3. k \in Within
    BY <1>1, <2>1, <2>2, Counting
  <2> QED
    BY <1>1, <2>3 DEF Within
<1> QED
  BY <1>2, <1>8, <1>9, <1>10

\* Computed features each of which waits for another of them: one needs itself,
\* that whose expression needs least.
LEMMA NoKnot ==
  ASSUME IsFiniteSet(Features), NEW T, Table(T), NEW U \in SUBSET Features, U # {},
         \A u \in U : \E r \in T : r.feature = u /\ r.runtime /\ r.roots \cap U # {}
  PROVE  \E r \in T : r.feature \in U /\ r.feature \in Needs(T, r.roots)
<1> DEFINE M == {r \in T : r.runtime /\ r.feature \in U}
           Sets == {Needs(T, r.roots) : r \in M}
           R == StrictSubsetOrdering(Features)
<1> SUFFICES ASSUME \A r \in M : r.feature \notin Needs(T, r.roots)
             PROVE  FALSE
  OBVIOUS
<1>1. IsWellFoundedOn(R, FiniteSubsetsOf(Features)) /\ FiniteSubsetsOf(Features) = SUBSET Features
  BY FS_StrictSubsetOrderingWellFounded, FS_FiniteSubsetsOfFinite
<1>2. \A r \in M : r.roots \in SUBSET Features /\ Needs(T, r.roots) \in SUBSET Features
  <2>1. \A r \in M : r.roots \in SUBSET Features
    BY DEF Table, Row
  <2> QED
    BY <2>1, NeedsIsLeast
<1>3. Sets \subseteq FiniteSubsetsOf(Features) /\ Sets # {}
  BY <1>1, <1>2
<1>4. PICK N \in Sets : \A O \in Sets : ~ (<<O, N>> \in R)
  <2> HIDE DEF R, Sets
  <2> QED
    BY <1>1, <1>3, WFMin
<1>5. PICK r \in M : N = Needs(T, r.roots)
  BY <1>4
<1>6. PICK s \in M : s.feature \in r.roots
  <2>1. PICK q \in T : q.feature = r.feature /\ q.runtime /\ q.roots \cap U # {}
    BY <1>5
  <2>2. q = r
    BY <1>5, <2>1 DEF Table, Twice
  <2>3. PICK m \in U : m \in r.roots
    BY <2>1, <2>2
  <2> QED
    BY <2>3
<1>7. s.feature \in N /\ Closed(T, N)
  BY <1>2, <1>5, <1>6, NeedsIsLeast
<1>8. s.roots \subseteq N
  BY <1>6, <1>7 DEF Closed, Direct, RootsOf, Runtime
<1>9. Needs(T, s.roots) \subseteq N
  BY <1>2, <1>6, <1>7, <1>8, NeedsIsLeast
<1>10. Needs(T, s.roots) # N
  BY <1>6, <1>7
<1>11. <<Needs(T, s.roots), N>> \in R
  BY <1>2, <1>5, <1>6, <1>9, <1>10 DEF StrictSubsetOrdering
<1> QED
  BY <1>4, <1>6, <1>11

\* A part of a table that holds all its roots: what is needed there is needed in
\* the whole, and no more.
LEMMA NeedsWithin ==
  ASSUME IsFiniteSet(Features), NEW W, Table(W), NEW T, T \subseteq W,
         RootsOf(T) \subseteq NamesOf(T), NEW S, S \subseteq NamesOf(T)
  PROVE  Needs(T, S) = Needs(W, S)
<1>1. Table(T) /\ NamesOf(T) \subseteq Features
  BY DEF Table, Twice, NamesOf, Row
<1>2. \A r \in W : r.feature \in NamesOf(T) => r \in T
  BY DEF Table, Twice, NamesOf
<1>3. Closed(T, NamesOf(T)) /\ Closed(W, NamesOf(T))
  BY <1>2 DEF Closed, Direct, RootsOf, Runtime
<1>4. /\ S \subseteq Needs(T, S) /\ Closed(T, Needs(T, S)) /\ Needs(T, S) \subseteq NamesOf(T)
      /\ S \subseteq Needs(W, S) /\ Closed(W, Needs(W, S))
      /\ \A C : S \subseteq C /\ Closed(T, C) => Needs(T, S) \subseteq C
      /\ \A C : S \subseteq C /\ Closed(W, C) => Needs(W, S) \subseteq C
  BY <1>1, <1>3, NeedsIsLeast
<1>5. Closed(T, Needs(W, S))
  BY <1>4 DEF Closed, Direct, RootsOf, Runtime
<1>6. Closed(W, Needs(T, S))
  BY <1>2, <1>4 DEF Closed, Direct, RootsOf, Runtime
<1> QED
  BY <1>4, <1>5, <1>6

-----------------------------------------------------------------------------
(* Evaluation. *)

\* What the batches have computed of T: each column from columns that are there,
\* and none from itself.
Correct(T, b) ==
  /\ DOMAIN b \subseteq NamesOf(T)
  /\ NamesOf(T \ Runtime(T)) \subseteq DOMAIN b
  /\ \A r \in T : r.feature \in DOMAIN b =>
       /\ r.roots \subseteq DOMAIN b
       /\ b[r.feature] = Cell(r, {b[m] : m \in r.roots})
       /\ r.feature \notin Needs(T, r.roots)

\* A table has as many rows as features.
LEMMA TableIsFinite ==
  ASSUME IsFiniteSet(Features), NEW T, Table(T)
  PROVE  /\ NamesOf(T) \in SUBSET Features
         /\ IsFiniteSet(T) /\ IsFiniteSet(NamesOf(T))
         /\ Cardinality(NamesOf(T)) = Cardinality(T)
<1>1. NamesOf(T) \in SUBSET Features
  BY DEF Table, NamesOf, Row
<1>2. IsFiniteSet(NamesOf(T))
  BY <1>1, FS_Subset
<1> DEFINE f == [r \in T |-> r.feature]
<1>3. f \in [T -> NamesOf(T)] /\ \A r \in T : f[r] = r.feature
  BY DEF NamesOf
<1> HIDE DEF f
<1>4. \A r, s \in T : f[r] = f[s] => r = s
  BY <1>3 DEF Table, Twice
<1>5. \A n \in NamesOf(T) : \E r \in T : f[r] = n
  BY <1>3 DEF NamesOf
<1>6. f \in Injection(T, NamesOf(T)) /\ f \in Surjection(T, NamesOf(T))
  BY <1>3, <1>4, <1>5 DEF Injection, Surjection, IsInjective
<1>7. IsFiniteSet(T) /\ Cardinality(T) = Cardinality(NamesOf(T))
  BY <1>2, <1>6, FS_Injection
<1> QED
  BY <1>1, <1>2, <1>7

\* A failed read is no table of columns.
LEMMA NotRaised ==
  ASSUME NEW T, Table(T), NEW b, DOMAIN b \subseteq NamesOf(T)
  PROVE  b # Raised
<1>1. DOMAIN Raised = {"raised"}
  BY DEF Raised
<1>2. "raised" \notin NamesOf(T)
  BY RaisedAssumption DEF NamesOf, Table, Row
<1> QED
  BY <1>1, <1>2

\* What is stored.
LEMMA StoredIsCorrect ==
  ASSUME IsFiniteSet(Features), NEW T, Table(T)
  PROVE  Correct(T, Stored(T))
<1> DEFINE b == Stored(T)
<1>1. DOMAIN b = NamesOf(T \ Runtime(T))
  BY DEF Stored
<1>2. DOMAIN b \subseteq NamesOf(T)
  BY <1>1 DEF NamesOf
<1>3. ASSUME NEW r \in T, r.feature \in DOMAIN b
      PROVE  /\ r.roots = {}
             /\ b[r.feature] = Cell(r, {})
  <2>1. PICK s \in T \ Runtime(T) : s.feature = r.feature
    BY <1>1, <1>3 DEF NamesOf
  <2>2. s = r /\ ~ r.runtime
    BY <2>1 DEF Table, Twice, Runtime
  <2>3. r.roots = {}
    BY <2>2 DEF Table
  <2>4. (CHOOSE q \in T : q.feature = r.feature) = r
    BY DEF Table, Twice
  <2>5. b[r.feature] = Cell(CHOOSE q \in T : q.feature = r.feature, {})
    BY <1>1, <1>3 DEF Stored
  <2> QED
    BY <2>3, <2>4, <2>5
<1>4. \A n : n \notin Needs(T, {})
  <2>1. Closed(T, {})
    BY DEF Closed, Direct, RootsOf, Runtime
  <2> QED
    BY <2>1, NeedsIsLeast
<1>5. ASSUME NEW r \in T, r.feature \in DOMAIN b
      PROVE  /\ r.roots \subseteq DOMAIN b
             /\ b[r.feature] = Cell(r, {b[m] : m \in r.roots})
             /\ r.feature \notin Needs(T, r.roots)
  <2>1. r.roots = {} /\ b[r.feature] = Cell(r, {})
    BY <1>3, <1>5
  <2> HIDE DEF b
  <2>2. {b[m] : m \in r.roots} = {}
    BY <2>1
  <2> QED
    BY <1>4, <2>1, <2>2
<1> HIDE DEF b
<1>6. Correct(T, b)
  BY <1>1, <1>2, <1>5 DEF Correct
<1> QED
  BY <1>6 DEF b

\* What is computed so far contains all that it needs.
LEMMA ComputedIsClosed ==
  ASSUME NEW T, Table(T), NEW b, Correct(T, b)
  PROVE  Closed(T, DOMAIN b)
BY DEF Correct, Closed, Direct, RootsOf, Runtime

\* A batch raises, or computes what was ready.
LEMMA BatchIsCorrect ==
  ASSUME IsFiniteSet(Features), NEW T, Table(T), NEW b, Correct(T, b)
  PROVE  LET now == Ready(T, DOMAIN b)
             d == Batch(b, now)
         IN  /\ (\A r \in now : r.roots \subseteq DOMAIN b) =>
                  Correct(T, d) /\ DOMAIN d = DOMAIN b \cup NamesOf(now)
             /\ ~ (\A r \in now : r.roots \subseteq DOMAIN b) => d = Raised
<1> DEFINE now == Ready(T, DOMAIN b)
           d == Batch(b, now)
<1>1. b # Raised
  BY NotRaised DEF Correct
<1>2. CASE ~ (\A r \in now : r.roots \subseteq DOMAIN b)
  BY <1>2 DEF Batch
<1>3. CASE \A r \in now : r.roots \subseteq DOMAIN b
  <2> DEFINE Value(n) == LET r == CHOOSE r \in now : r.feature = n
                         IN  Cell(r, {b[m] : m \in r.roots})
             e == [n \in DOMAIN b \cup NamesOf(now) |->
                     IF n \in DOMAIN b THEN b[n] ELSE Value(n)]
  <2>1. d = e
    BY <1>1, <1>3 DEF Batch
  <2>2. now \subseteq T /\ \A r \in now : r.runtime /\ r.feature \notin DOMAIN b
    BY DEF Ready, Runtime
  <2> HIDE DEF now, d
  <2>3. DOMAIN e = DOMAIN b \cup NamesOf(now)
    OBVIOUS
  <2>4. /\ \A n \in DOMAIN b : e[n] = b[n]
        /\ \A n \in NamesOf(now) \ DOMAIN b : e[n] = Value(n)
    OBVIOUS
  <2>5. ASSUME NEW r \in now PROVE Value(r.feature) = Cell(r, {b[m] : m \in r.roots})
    <3>1. (CHOOSE q \in now : q.feature = r.feature) = r
      BY <2>2 DEF Table, Twice
    <3> QED
      BY <3>1
  <2> HIDE DEF e, Value
  <2>6. DOMAIN e \subseteq NamesOf(T) /\ NamesOf(T \ Runtime(T)) \subseteq DOMAIN e
    BY <2>2, <2>3 DEF Correct, NamesOf
  <2>7. Closed(T, DOMAIN b) /\ DOMAIN b \subseteq NamesOf(T)
    BY ComputedIsClosed DEF Correct
  <2>8. ASSUME NEW r \in T, r.feature \in DOMAIN e
        PROVE  /\ r.roots \subseteq DOMAIN b
               /\ e[r.feature] = Cell(r, {b[m] : m \in r.roots})
               /\ r.feature \notin Needs(T, r.roots)
    <3>1. CASE r.feature \in DOMAIN b
      BY <2>4, <2>8, <3>1 DEF Correct
    <3>2. CASE r.feature \notin DOMAIN b
      <4>1. PICK q \in now : q.feature = r.feature
        BY <2>3, <2>8, <3>2 DEF NamesOf
      <4>2. q = r
        BY <2>2, <4>1 DEF Table, Twice
      <4>3. r.roots \subseteq DOMAIN b
        BY <1>3, <4>1, <4>2
      <4>4. e[r.feature] = Cell(r, {b[m] : m \in r.roots})
        BY <2>4, <2>5, <3>2, <4>1, <4>2 DEF NamesOf
      <4>5. r.roots \in SUBSET Features
        BY DEF Table, Row
      <4>6. Needs(T, r.roots) \subseteq DOMAIN b
        BY <2>7, <4>3, <4>5, NeedsIsLeast
      <4> QED
        BY <3>2, <4>3, <4>4, <4>6
    <3> QED
      BY <3>1, <3>2
  <2>9. ASSUME NEW r \in T, r.feature \in DOMAIN e
        PROVE  /\ r.roots \subseteq DOMAIN e
               /\ e[r.feature] = Cell(r, {e[m] : m \in r.roots})
               /\ r.feature \notin Needs(T, r.roots)
    <3>1. /\ r.roots \subseteq DOMAIN b
          /\ e[r.feature] = Cell(r, {b[m] : m \in r.roots})
          /\ r.feature \notin Needs(T, r.roots)
      BY <2>8, <2>9
    <3>2. \A m \in r.roots : e[m] = b[m]
      BY <2>4, <3>1
    <3>3. {e[m] : m \in r.roots} = {b[m] : m \in r.roots}
      BY <3>2
    <3> QED
      BY <2>3, <3>1, <3>3
  <2>10. Correct(T, e)
    BY <2>6, <2>9 DEF Correct
  <2> QED
    BY <1>3, <2>1, <2>3, <2>10 DEF now, d
<1> QED
  BY <1>2, <1>3

\* What a read computes is correct, unless it raises.
LEMMA ColumnsAreCorrect ==
  ASSUME IsFiniteSet(Features), NEW T, Table(T)
  PROVE  Columns(T) = Raised \/ Correct(T, Columns(T))
<1> DEFINE k == Cardinality(T)
<1>1. IsFiniteSet(T) /\ k \in Nat
  BY TableIsFinite, FS_CardinalityType
<1>2. PICK b : IsRun(T, b, k) /\ Columns(T) = b[k]
  BY <1>1, ColumnsRun
<1> HIDE DEF k
<1>3. /\ b[0] = Stored(T)
      /\ \A i \in Nat : i < k => b[i + 1] = Batch(b[i], Ready(T, DOMAIN b[i]))
  BY <1>1, <1>2, RunSteps
<1> DEFINE Good == {i \in Nat : i <= k => b[i] = Raised \/ Correct(T, b[i])}
<1>4. 0 \in Good
  BY <1>3, StoredIsCorrect
<1>5. ASSUME NEW i \in Nat, i \in Good PROVE i + 1 \in Good
  <2> SUFFICES ASSUME i + 1 <= k PROVE b[i + 1] = Raised \/ Correct(T, b[i + 1])
    OBVIOUS
  <2>1. i < k /\ (b[i] = Raised \/ Correct(T, b[i]))
    BY <1>1, <1>5
  <2>2. b[i + 1] = Batch(b[i], Ready(T, DOMAIN b[i]))
    BY <1>3, <2>1
  <2>3. CASE b[i] = Raised
    BY <2>2, <2>3 DEF Batch
  <2>4. CASE Correct(T, b[i])
    BY <2>2, <2>4, BatchIsCorrect
  <2> QED
    BY <2>1, <2>3, <2>4
<1> HIDE DEF Good
<1>6. k \in Good
  BY <1>1, <1>4, <1>5, Counting
<1> QED
  BY <1>1, <1>2, <1>6 DEF Good

\* A read that returns shows every row it loaded, each computed from the others;
\* so it had loaded all roots, and no expression needs itself.
LEMMA ReturnsMean ==
  ASSUME IsFiniteSet(Features), NEW T, Table(T), Evaluate(T) # Raised
  PROVE  /\ DOMAIN Evaluate(T) = NamesOf(T)
         /\ Composes(T, Evaluate(T))
         /\ RootsOf(T) \subseteq NamesOf(T)
         /\ \A r \in T : r.feature \notin Needs(T, r.roots)
<1> DEFINE v == Columns(T)
<1>1. Evaluate(T) = v /\ DOMAIN v = NamesOf(T)
  BY DEF Evaluate
<1>2. v # Raised
  BY <1>1
<1>3. Correct(T, v)
  BY <1>2, ColumnsAreCorrect
<1> HIDE DEF v
<1>4. \A r \in T : r.feature \in DOMAIN v
  BY <1>1 DEF NamesOf
<1>5. RootsOf(T) \subseteq NamesOf(T)
  BY <1>1, <1>3, <1>4 DEF Correct, RootsOf, Runtime
<1> QED
  BY <1>1, <1>3, <1>4, <1>5 DEF Correct, Composes

\* A read that has all roots, and no expression that needs itself, returns: while
\* a feature is missing some expression is ready, so as many batches as there are
\* rows compute them all.
LEMMA CompleteReturns ==
  ASSUME IsFiniteSet(Features), NEW T, Table(T), RootsOf(T) \subseteq NamesOf(T),
         \A r \in T : r.feature \notin Needs(T, r.roots)
  PROVE  Evaluate(T) # Raised
<1> DEFINE k == Cardinality(T)
<1>1. /\ NamesOf(T) \in SUBSET Features /\ IsFiniteSet(NamesOf(T))
      /\ IsFiniteSet(T) /\ k \in Nat /\ Cardinality(NamesOf(T)) = k
  BY TableIsFinite, FS_CardinalityType
<1>2. PICK b : IsRun(T, b, k) /\ Columns(T) = b[k]
  BY <1>1, ColumnsRun
<1> HIDE DEF k
<1>3. /\ b[0] = Stored(T)
      /\ \A i \in Nat : i < k => b[i + 1] = Batch(b[i], Ready(T, DOMAIN b[i]))
  BY <1>1, <1>2, RunSteps
<1> DEFINE Grows(i) == DOMAIN b[i] = NamesOf(T) \/ Cardinality(DOMAIN b[i]) >= i
           Good == {i \in Nat : i <= k => Correct(T, b[i]) /\ Grows(i)}
<1>4. \A i : Correct(T, b[i]) =>
        IsFiniteSet(DOMAIN b[i]) /\ Cardinality(DOMAIN b[i]) \in Nat
  BY <1>1, FS_Subset, FS_CardinalityType DEF Correct
<1>5. 0 \in Good
  BY <1>3, <1>4, StoredIsCorrect
<1>6. ASSUME NEW i \in Nat, i \in Good PROVE i + 1 \in Good
  <2> SUFFICES ASSUME i + 1 <= k PROVE Correct(T, b[i + 1]) /\ Grows(i + 1)
    OBVIOUS
  <2> DEFINE D == DOMAIN b[i]
             now == Ready(T, D)
  <2>1. i < k /\ Correct(T, b[i]) /\ Grows(i)
    BY <1>1, <1>6
  <2>2. /\ D \subseteq NamesOf(T)
        /\ NamesOf(T \ Runtime(T)) \subseteq D
    BY <2>1 DEF Correct
  <2>3. \A r \in now : r.roots \subseteq D
    <3> SUFFICES ASSUME NEW r \in now, NEW m \in r.roots PROVE m \in D
      OBVIOUS
    <3>1. m \in NamesOf(T)
      BY DEF Ready, RootsOf, Runtime
    <3>2. CASE m \in NamesOf(Runtime(T))
      BY <3>2 DEF Ready
    <3>3. CASE m \notin NamesOf(Runtime(T))
      BY <2>2, <3>1, <3>3 DEF NamesOf
    <3> QED
      BY <3>2, <3>3
  <2>4. Correct(T, b[i + 1]) /\ DOMAIN b[i + 1] = D \cup NamesOf(now)
    <3>1. b[i + 1] = Batch(b[i], now)
      BY <1>3, <2>1
    <3>2. (\A r \in now : r.roots \subseteq D) =>
            /\ Correct(T, Batch(b[i], now))
            /\ DOMAIN Batch(b[i], now) = D \cup NamesOf(now)
      BY <2>1, BatchIsCorrect
    <3> HIDE DEF now, D
    <3> QED
      BY <2>3, <3>1, <3>2
  <2>5. CASE D = NamesOf(T)
    <3>1. DOMAIN b[i + 1] = NamesOf(T)
      BY <2>4, <2>5 DEF Correct
    <3> QED
      BY <2>4, <3>1
  <2>6. CASE D # NamesOf(T)
    <3> DEFINE U == NamesOf(T) \ D
    <3>1. now # {}
      <4> SUFFICES ASSUME now = {} PROVE FALSE
        OBVIOUS
      <4>1. U \in SUBSET Features /\ U # {}
        BY <1>1, <2>2, <2>6
      <4>2. ASSUME NEW u \in U
            PROVE  \E r \in T : r.feature = u /\ r.runtime /\ r.roots \cap U # {}
        <5>1. PICK r \in T : r.feature = u
          BY DEF NamesOf
        <5>2. r \in Runtime(T) /\ r.runtime
          BY <2>2, <5>1 DEF NamesOf, Runtime
        <5>3. PICK m \in r.roots : m \in NamesOf(Runtime(T)) /\ m \notin D
          BY <5>1, <5>2 DEF Ready
        <5>4. m \in U
          BY <5>3 DEF NamesOf, Runtime
        <5> QED
          BY <5>1, <5>2, <5>3, <5>4
      <4> HIDE DEF U
      <4> QED
        BY <4>1, <4>2, NoKnot
    <3>2. PICK r \in now : TRUE
      BY <3>1
    <3>3. r.feature \notin D /\ r.feature \in NamesOf(now)
      BY DEF Ready, NamesOf
    <3>4. DOMAIN b[i + 1] # D /\ D \subseteq DOMAIN b[i + 1]
      BY <2>4, <3>3
    <3>5. /\ IsFiniteSet(DOMAIN b[i + 1])
          /\ Cardinality(DOMAIN b[i + 1]) \in Nat /\ Cardinality(D) \in Nat
      BY <1>4, <2>1, <2>4
    <3>6. /\ Cardinality(D) <= Cardinality(DOMAIN b[i + 1])
          /\ Cardinality(D) # Cardinality(DOMAIN b[i + 1])
      BY <3>4, <3>5, FS_Subset
    <3>7. Cardinality(D) >= i
      BY <2>1, <2>6
    <3>8. Cardinality(DOMAIN b[i + 1]) >= i + 1
      BY <3>5, <3>6, <3>7
    <3> QED
      BY <2>4, <3>8
  <2> QED
    BY <2>5, <2>6
<1> HIDE DEF Good
<1>7. k \in Good
  BY <1>1, <1>5, <1>6, Counting
<1>8. Correct(T, b[k]) /\ Grows(k)
  BY <1>1, <1>7 DEF Good
<1>9. DOMAIN b[k] = NamesOf(T)
  <2>1. CASE Cardinality(DOMAIN b[k]) >= k
    <3>1. DOMAIN b[k] \subseteq NamesOf(T)
      BY <1>8 DEF Correct
    <3>2. Cardinality(DOMAIN b[k]) <= k /\ Cardinality(DOMAIN b[k]) \in Nat
      BY <1>1, <1>4, <1>8, <3>1, FS_Subset
    <3>3. Cardinality(DOMAIN b[k]) = Cardinality(NamesOf(T))
      BY <1>1, <2>1, <3>2
    <3> QED
      BY <1>1, <3>1, <3>3, FS_Subset
  <2> QED
    BY <1>8, <2>1
<1>10. Evaluate(T) = Columns(T)
  BY <1>2, <1>9 DEF Evaluate, Table
<1> QED
  BY <1>2, <1>9, <1>10, NotRaised

-----------------------------------------------------------------------------
(* Reads by name and by frame. *)

\* A stored feature is computed from nothing, nor will one be.
Plain ==
  /\ \A r \in meta : ~ r.runtime => r.roots = {}
  /\ \A p \in Callers : \A r \in job[p].rows : ~ r.runtime => r.roots = {}

\* What reads may rely on.
Readable == Typed /\ Plain

\* Rows stored or computed, and nothing else.
LEMMA StepKeepsPlain ==
  ASSUME Typed, Plain, [Next]_vars
  PROVE  Plain'
<1>1. DOMAIN job = Callers
  BY DEF Typed, TypeOK
<1>2. CASE UNCHANGED vars
  BY <1>2 DEF Plain, vars
<1>3. ASSUME NEW p \in Callers, NEW E, Check(p, E) PROVE Plain'
  BY <1>1, <1>3 DEF Plain, Check, Job
<1>4. ASSUME NEW p \in Callers, ReadVersions(p) PROVE Plain'
  <2> DEFINE R == {[feature |-> e.feature, version |-> NextVersion(e.feature),
                    runtime |-> TRUE, roots |-> e.roots] : e \in job[p].exprs}
  <2>1. /\ meta' = meta
        /\ job' = [job EXCEPT ![p] = [job[p] EXCEPT !.step = "versioned", !.rows = R]]
    BY <1>4 DEF ReadVersions
  <2>2. \A r \in R : r.runtime
    OBVIOUS
  <2> HIDE DEF R
  <2>3. job'[p].rows = R /\ \A q \in Callers : q # p => job'[q] = job[q]
    BY <1>1, <2>1 DEF Typed, TypeOK
  <2> QED
    BY <2>1, <2>2, <2>3 DEF Plain
<1>5. ASSUME NEW p \in Callers, Append(p) PROVE Plain'
  BY <1>1, <1>5 DEF Plain, Append, Idle, Job
<1>6. ASSUME NEW p \in Callers, Abandon(p) PROVE Plain'
  BY <1>1, <1>6 DEF Plain, Abandon, Idle, Job
<1>7. ASSUME NEW p \in Callers, NEW n \in Features, Store(p, n) PROVE Plain'
  <2>1. /\ meta' = meta
        /\ \A q \in Callers : q # p => job'[q] = job[q]
        /\ \A r \in job'[p].rows : r.roots = {}
    BY <1>1, <1>7 DEF Store, Job, StoredRow
  <2> QED
    BY <2>1 DEF Plain
<1> QED
  BY <1>2, <1>3, <1>4, <1>5, <1>6, <1>7 DEF Next

\* Reads may always rely on it.
LEMMA AlwaysReadable == Spec => []Readable
<1>1. Init => Plain
  BY DEF Init, Plain, Idle, Job
<1> QED
  BY <1>1, InitTyped, StepKeepsTypes, StepKeepsPlain, PTL DEF Spec, Readable

\* Rows of different features are a table.
LEMMA RowsAreTable ==
  ASSUME Readable, NEW T \in SUBSET meta, ~ Twice(T)
  PROVE  Table(T)
BY DEF Readable, Typed, TypeOK, Plain, Table

\* The latest rows of some features: their names, and that they are a table, the
\* part of the newest rows that have these names.
LEMMA LatestIsTable ==
  ASSUME Readable, NEW X
  PROVE  /\ Table(Latest(X))
         /\ NamesOf(Latest(X)) = X \cap Registered
         /\ \A r \in Latest(X) : r = LatestRow(r.feature)
         /\ Latest(X) = {r \in Newest : r.feature \in X}
         /\ RootsOf(Latest(X)) = Direct(Newest, X)
<1>1. \A n \in Registered : LatestRow(n) \in meta /\ LatestRow(n).feature = n
  BY LatestRowIsGreatest DEF Readable
<1>2. \A r \in Latest(X) : r \in meta /\ r = LatestRow(r.feature) /\ r.feature \in X \cap Registered
  BY <1>1 DEF Latest
<1>3. NamesOf(Latest(X)) = X \cap Registered
  BY <1>1, <1>2 DEF Latest, NamesOf
<1>4. Table(Latest(X))
  BY <1>2, RowsAreTable DEF Twice
<1>5. Latest(X) = {r \in Newest : r.feature \in X}
  BY <1>1 DEF Newest, Latest
<1> QED
  BY <1>2, <1>3, <1>4, <1>5 DEF Direct

\* A read by name loads the latest rows of the features and of their roots.
LEMMA ResolveIsLatest ==
  ASSUME Readable, NEW S
  PROVE  Resolve(S) = Latest(S \cup Direct(Newest, S))
<1>1. /\ RootsOf(Latest(S)) = Direct(Newest, S)
      /\ NamesOf(Latest(S)) = S \cap Registered
  BY LatestIsTable
<1> DEFINE D == Direct(Newest, S)
<1> HIDE DEF D
<1>2. Latest(S) \cup Latest(D \ (S \cap Registered)) = Latest(S \cup D)
  BY DEF Latest
<1> QED
  BY <1>1, <1>2 DEF Resolve, D

\* A read by name computes every column from the columns of the same read, at
\* their latest versions, and returns exactly if it loaded all it needs and no
\* expression needs itself.
THEOREM NamedReads ==
  ASSUME IsFiniteSet(Features)
  PROVE  Spec => []ReadsCompose
<1>1. Readable => ReadsCompose
  <2> SUFFICES ASSUME Readable, NEW S \in SUBSET Registered
               PROVE  LET N == Needs(Newest, S)
                          v == NamedRead(S)
                      IN  IF N \subseteq NamesOf(Resolve(S)) /\ ~ Circular(Newest, S)
                          THEN DOMAIN v = N /\ Composes(Latest(N), v)
                          ELSE v = Raised
    BY DEF ReadsCompose
  <2> DEFINE T == Resolve(S)
             X == S \cup Direct(Newest, S)
             N == Needs(Newest, S)
             v == Evaluate(T)
  <2>1. /\ T = Latest(X) /\ Table(T) /\ NamesOf(T) = X \cap Registered
        /\ T = {r \in Newest : r.feature \in X}
        /\ RootsOf(T) = Direct(Newest, X)
    BY ResolveIsLatest, LatestIsTable
  <2>2. S \in SUBSET Features /\ Table(Newest) /\ T \subseteq Newest
    <3>1. Table(Newest) /\ T \subseteq Newest
      BY <2>1, LatestIsTable DEF Newest
    <3> QED
      BY <3>1 DEF Registered, NamesOf, Readable, Typed, TypeOK, Row
  <2>3. /\ S \subseteq N /\ Closed(Newest, N)
        /\ \A C : S \subseteq C /\ Closed(Newest, C) => N \subseteq C
    BY <2>2, NeedsIsLeast
  <2>4. ASSUME RootsOf(T) \subseteq NamesOf(T), NEW r \in T
        PROVE  Needs(T, r.roots) = Needs(Newest, r.roots)
    <3>1. r.roots \subseteq NamesOf(T)
      BY <2>1, <2>4 DEF RootsOf, Runtime, Table
    <3> QED
      BY <2>2, <2>4, <3>1, NeedsWithin
  <2>5. CASE N \subseteq NamesOf(T) /\ ~ Circular(Newest, S)
    <3>1. X \subseteq N
      BY <2>3 DEF Direct, Closed, RootsOf, Runtime
    <3>2. NamesOf(T) = N /\ X = N
      BY <2>1, <2>5, <3>1
    <3>3. RootsOf(T) \subseteq NamesOf(T)
      BY <2>1, <2>3, <3>2 DEF Closed
    <3>4. ASSUME NEW r \in T PROVE r.feature \notin Needs(T, r.roots)
      <4>1. r.feature \in N /\ r \in Newest
        BY <2>2, <3>2 DEF NamesOf
      <4>2. r.feature \notin Needs(Newest, r.roots)
        BY <2>5, <4>1 DEF Circular
      <4> QED
        BY <2>4, <3>3, <4>2
    <3>5. v # Raised
      BY <2>1, <3>3, <3>4, CompleteReturns
    <3>6. DOMAIN v = N /\ Composes(T, v)
      BY <2>1, <3>2, <3>5, ReturnsMean
    <3>7. T = Latest(N)
      BY <2>1, <3>2
    <3> QED
      BY <2>5, <3>6, <3>7 DEF NamedRead
  <2>6. CASE ~ (N \subseteq NamesOf(T) /\ ~ Circular(Newest, S))
    <3> SUFFICES ASSUME v # Raised PROVE FALSE
      BY <2>6 DEF NamedRead
    <3>1. RootsOf(T) \subseteq NamesOf(T) /\ \A r \in T : r.feature \notin Needs(T, r.roots)
      BY <2>1, ReturnsMean
    <3>2. Closed(Newest, NamesOf(T)) /\ S \subseteq NamesOf(T)
      BY <2>1, <3>1 DEF Closed, Direct, RootsOf, Runtime
    <3>3. N \subseteq NamesOf(T)
      BY <2>3, <3>2
    <3>4. PICK r \in Newest : r.feature \in N /\ r.feature \in Needs(Newest, r.roots)
      BY <2>6, <3>3 DEF Circular
    <3>5. r \in T
      BY <2>1, <3>3, <3>4
    <3> QED
      BY <2>4, <3>1, <3>4, <3>5
  <2> QED
    BY <2>5, <2>6
<1> QED
  BY <1>1, AlwaysReadable, PTL

\* A read by frame shows the versions in the frame, computed from one another
\* where the frame has the roots and from the latest versions elsewhere; a frame
\* that has all its roots is refused exactly if an expression needs itself.
THEOREM FrameReads ==
  ASSUME IsFiniteSet(Features)
  PROVE  Spec => []FramesKeepVersions
<1>1. Readable => FramesKeepVersions
  <2> SUFFICES ASSUME Readable, NEW F \in SUBSET meta, ~ Twice(F)
               PROVE  /\ MissingRoots(F) = {} =>
                           (FrameRead(F) = Raised <=> Circular(F, NamesOf(F)))
                      /\ FrameRead(F) # Raised =>
                           /\ NamesOf(F) \subseteq DOMAIN FrameRead(F)
                           /\ Composes(F \cup Latest(DOMAIN FrameRead(F) \ NamesOf(F)),
                                       FrameRead(F))
    BY DEF FramesKeepVersions
  <2> DEFINE M == MissingRoots(F)
             T == FrameTables(F)
  <2>1. Table(F) /\ NamesOf(F) \in SUBSET Features
    BY RowsAreTable DEF NamesOf, Table, Row
  <2>2. /\ Table(Resolve(M)) /\ Resolve(M) \subseteq meta
        /\ \A r \in Resolve(M) : r = LatestRow(r.feature) /\ r.feature \in Registered
        /\ Latest({}) = {}
    <3>1. \A X : \A r \in Latest(X) : r = LatestRow(r.feature) /\ r \in meta
      BY LatestIsTable, LatestRowIsGreatest DEF Latest, Readable
    <3>2. Resolve(M) = Latest(M \cup Direct(Newest, M)) /\ Table(Resolve(M))
      BY ResolveIsLatest, LatestIsTable
    <3>3. \A r \in Resolve(M) : r = LatestRow(r.feature) /\ r \in meta
      BY <3>1, <3>2
    <3>4. Latest({}) = {}
      BY DEF Latest
    <3> HIDE DEF M
    <3> QED
      BY <3>2, <3>3, <3>4 DEF Registered, NamesOf
  <2>3. ASSUME M = {} PROVE FrameRead(F) = Raised <=> Circular(F, NamesOf(F))
    <3>1. Resolve(M) = {}
      BY <2>2, <2>3 DEF Resolve, RootsOf, Runtime, NamesOf, Latest
    <3>2. FrameRead(F) = Evaluate(F)
      BY <3>1 DEF FrameRead, FrameTables, LoadedTwice, NamesOf
    <3>3. RootsOf(F) \subseteq NamesOf(F)
      BY <2>3 DEF MissingRoots
    <3>4. \A r \in F : r.feature \in Needs(F, NamesOf(F))
      BY <2>1, NeedsIsLeast DEF NamesOf
    <3>5. ASSUME ~ Circular(F, NamesOf(F)) PROVE Evaluate(F) # Raised
      <4>1. \A r \in F : r.feature \notin Needs(F, r.roots)
        BY <3>4, <3>5 DEF Circular
      <4> QED
        BY <2>1, <3>3, <4>1, CompleteReturns
    <3>6. ASSUME Evaluate(F) # Raised PROVE ~ Circular(F, NamesOf(F))
      <4>1. \A r \in F : r.feature \notin Needs(F, r.roots)
        BY <2>1, <3>6, ReturnsMean
      <4> QED
        BY <4>1 DEF Circular
    <3> QED
      BY <3>2, <3>5, <3>6
  <2>4. ASSUME FrameRead(F) # Raised
        PROVE  /\ NamesOf(F) \subseteq DOMAIN FrameRead(F)
               /\ Composes(F \cup Latest(DOMAIN FrameRead(F) \ NamesOf(F)), FrameRead(F))
    <3>1. ~ LoadedTwice(F) /\ FrameRead(F) = Evaluate(T)
      BY <2>4 DEF FrameRead
    <3>2. T = F \cup Resolve(M) /\ NamesOf(F) \cap NamesOf(Resolve(M)) = {}
      BY <3>1 DEF FrameTables, LoadedTwice
    <3>3. Table(T)
      BY <2>1, <2>2, <3>2 DEF Table, Twice, NamesOf
    <3>4. DOMAIN FrameRead(F) = NamesOf(T) /\ Composes(T, FrameRead(F))
      BY <2>4, <3>1, <3>3, ReturnsMean
    <3>5. NamesOf(T) = NamesOf(F) \cup NamesOf(Resolve(M))
      BY <3>2 DEF NamesOf
    <3>6. NamesOf(T) \ NamesOf(F) = NamesOf(Resolve(M))
      BY <3>2, <3>5
    <3>7. Latest(NamesOf(Resolve(M))) = Resolve(M)
      BY <2>2 DEF NamesOf, Latest
    <3> QED
      BY <3>2, <3>4, <3>5, <3>6, <3>7
  <2> QED
    BY <2>3, <2>4
<1> QED
  BY <1>1, AlwaysReadable, PTL
=============================================================================
