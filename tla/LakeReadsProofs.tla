--------------------------- MODULE LakeReadsProofs ---------------------------
(***************************************************************************)
(* Reads are right, for any number of keys, tables and calls: a dense      *)
(* table put beside the index meets it key by key, in every window; the    *)
(* latest table of a feature mirrors what was written; as-of reads show    *)
(* the nearest observation; and an earlier version reads as it did.        *)
(***************************************************************************)
EXTENDS LakeReads, LakeContractProofs

-----------------------------------------------------------------------------
(* Periods. *)

\* A finite set of numbers has a greatest and a least one.
LEMMA FiniteHasBounds ==
  ASSUME NEW S \in SUBSET Nat, IsFiniteSet(S), S # {}
  PROVE  \E lo, hi \in S : \A n \in S : lo <= n /\ n <= hi
<1> DEFINE Bounded(T) == \E lo, hi \in T : \A n \in T : lo <= n /\ n <= hi
           Bad == {T \in SUBSET S : T # {} /\ ~ Bounded(T)}
           R == StrictSubsetOrdering(S)
<1>1. SUFFICES ASSUME Bad # {} PROVE FALSE
  <2>1. Bounded(S) => \E lo, hi \in S : \A n \in S : lo <= n /\ n <= hi
    OBVIOUS
  <2>2. S \in SUBSET S
    OBVIOUS
  <2> HIDE DEF Bounded
  <2> QED
    BY <2>1, <2>2
<1>2. IsWellFoundedOn(R, FiniteSubsetsOf(S)) /\ FiniteSubsetsOf(S) = SUBSET S
  BY FS_StrictSubsetOrderingWellFounded, FS_FiniteSubsetsOfFinite
<1>3. Bad \subseteq FiniteSubsetsOf(S)
  BY <1>2
<1>4. PICK T \in Bad : \A U \in Bad : ~ (<<U, T>> \in R)
  <2> HIDE DEF R, Bad
  <2> QED
    BY <1>1, <1>2, <1>3, WFMin
<1>5. T \in SUBSET S /\ T # {} /\ ~ Bounded(T)
  BY <1>4
<1>6. PICK x \in T : TRUE
  BY <1>5
<1> DEFINE U == T \ {x}
<1>7. U \in SUBSET S /\ U # T /\ U \subseteq T /\ <<U, T>> \in R
  BY <1>5, <1>6 DEF StrictSubsetOrdering
<1>8. U = {} \/ Bounded(U)
  BY <1>4, <1>7
<1>9. x \in Nat /\ \A n \in T : n \in Nat
  BY <1>5, <1>6
<1>10. Bounded(T)
  <2>1. CASE U = {}
    <3>1. \A n \in T : n = x
      BY <2>1
    <3> QED
      BY <1>6, <1>9, <3>1
  <2>2. CASE Bounded(U)
    <3>1. PICK lo \in U, hi \in U : \A n \in U : lo <= n /\ n <= hi
      BY <2>2
    <3>2. \A n \in T : n = x \/ (lo <= n /\ n <= hi)
      BY <3>1
    <3>3. lo \in T /\ hi \in T /\ lo \in Nat /\ hi \in Nat /\ lo <= hi
      BY <1>9, <3>1
    <3> HIDE DEF U, R, Bad, Bounded
    <3>4. CASE x < lo
      <4>1. ASSUME NEW n \in T
            PROVE  x <= n /\ n <= hi
        <5>1. n \in Nat /\ x \in Nat /\ (n = x \/ (lo <= n /\ n <= hi))
          BY <1>9, <3>2
        <5> QED
          BY <1>9, <3>3, <3>4, <5>1
      <4> QED
        BY <1>6, <3>3, <4>1 DEF Bounded
    <3>5. CASE hi < x
      <4>1. ASSUME NEW n \in T
            PROVE  lo <= n /\ n <= x
        <5>1. n \in Nat /\ x \in Nat /\ (n = x \/ (lo <= n /\ n <= hi))
          BY <1>9, <3>2
        <5> QED
          BY <1>9, <3>3, <3>5, <5>1
      <4> QED
        BY <1>6, <3>3, <4>1 DEF Bounded
    <3>6. CASE lo <= x /\ x <= hi
      <4>1. \A n \in T : lo <= n /\ n <= hi
        BY <3>2, <3>6
      <4> QED
        BY <3>3, <4>1 DEF Bounded
    <3>7. Bounded(T)
      <4>1. (x < lo) \/ (hi < x) \/ (lo <= x /\ x <= hi)
        BY <1>9, <3>3
      <4> QED
        BY <4>1, <3>4, <3>5, <3>6
    <3> QED
      BY <3>7
  <2> QED
    BY <1>8, <2>1, <2>2
<1> QED
  BY <1>5, <1>10

\* An unbounded read is one bounded by the first and the last period.
LEMMA EverythingCovers ==
  ASSUME IsFiniteSet(Keys), Keys # {}
  PROVE  /\ Everything \in Windows
         /\ \A k \in Keys : Everything.from <= Time(k) /\ Time(k) <= Everything.to
<1>1. Times \in SUBSET Nat /\ Times # {}
  BY KeysAssumption DEF Times, Time
<1>2. IsFiniteSet(Times)
  <2> DEFINE time == [k \in Keys |-> Time(k)]
  <2>1. time \in Surjection(Keys, Times)
    BY DEF Surjection, Times
  <2> QED
    BY <2>1, FS_Surjection
<1>3. PICK lo \in Times, hi \in Times : \A n \in Times : lo <= n /\ n <= hi
  BY <1>1, <1>2, FiniteHasBounds
<1> DEFINE w == [from |-> lo, to |-> hi]
<1>4. w \in Windows
  BY <1>3 DEF Windows
<1>5. \A k \in Keys : w.from <= Time(k) /\ Time(k) <= w.to
  BY <1>3 DEF Times
<1> HIDE DEF w
<1> QED
  BY <1>4, <1>5 DEF Everything

-----------------------------------------------------------------------------
(* Positions. *)

\* sort_keys order the keys totally.
LEMMA SortIsTotal ==
  ASSUME NEW i \in Keys, NEW j \in Keys, NEW k \in Keys
  PROVE  /\ ~ SortsBefore(k, k)
         /\ SortsBefore(i, j) /\ SortsBefore(j, k) => SortsBefore(i, k)
         /\ j = k \/ SortsBefore(j, k) \/ SortsBefore(k, j)
<1>1. /\ i[1] \in Nat /\ i[2] \in Nat /\ j[1] \in Nat /\ j[2] \in Nat
      /\ k[1] \in Nat /\ k[2] \in Nat
      /\ j = <<j[1], j[2]>> /\ k = <<k[1], k[2]>>
  BY KeysAssumption
<1> QED
  BY <1>1 DEF SortsBefore

\* No two keys of a table have one position.
LEMMA RanksDiffer ==
  ASSUME IsFiniteSet(Keys), NEW T \in SUBSET Keys, NEW j \in T, NEW k \in T,
         Rank(T, j) = Rank(T, k)
  PROVE  j = k
<1>1. ASSUME NEW m \in T, NEW n \in T, SortsBefore(m, n) PROVE Rank(T, m) # Rank(T, n)
  <2> DEFINE M == {h \in T : SortsBefore(h, m)}
             N == {h \in T : SortsBefore(h, n)}
  <2>1. M \subseteq N /\ m \in N /\ m \notin M
    BY <1>1, SortIsTotal
  <2>2. IsFiniteSet(N)
    BY FS_Subset
  <2>3. Cardinality(N) = Cardinality(M) => N = M
    BY <2>1, <2>2, FS_Subset
  <2> QED
    BY <2>1, <2>3 DEF Rank
<1> QED
  BY <1>1, SortIsTotal

\* In a prefix of T each key has the position it has in T.
LEMMA RankInPrefix ==
  ASSUME IsFiniteSet(Keys), NEW T \in SUBSET Keys, NEW S \in SUBSET T,
         \A i \in S, h \in T : SortsBefore(h, i) => h \in S,
         NEW j \in S, NEW k \in T
  PROVE  Rank(S, j) = Rank(T, k) <=> j = k
<1>1. {h \in S : SortsBefore(h, j)} = {h \in T : SortsBefore(h, j)}
  OBVIOUS
<1>2. Rank(S, j) = Rank(T, j)
  BY <1>1 DEF Rank
<1> QED
  BY <1>2, RanksDiffer

\* _concat_root_features: put beside the index, in any window, an aligned table
\* shows at each index key its own row of that key, and null where it has none.
LEMMA PositionsMatch ==
  ASSUME IsFiniteSet(Keys), TypeOK, NEW a \in Used, Aligned(a), NEW f,
         NEW w, NEW k \in Within(index, w)
  PROVE  DenseRead(a, f, w, k) = IF k \in KeysOf(rows[a]) THEN cells[a][f][k] ELSE Null
<1> DEFINE there == Within(KeysOf(rows[a]), w)
           mates == {j \in there : Rank(there, j) = Rank(Within(index, w), k)}
<1>1. index \subseteq Keys /\ rows[a] \in [Keys -> Nat]
  BY DEF TypeOK
<1>2. KeysOf(rows[a]) \subseteq index
  BY <1>1 DEF KeysOf, Aligned, OneRowEach
<1>3. there \subseteq Within(index, w) /\ Within(index, w) \subseteq Keys
  BY <1>1, <1>2 DEF Within
<1>4. \A i \in there, h \in Within(index, w) : SortsBefore(h, i) => h \in there
  BY DEF Aligned, Within
<1>5. \A j \in there : Rank(there, j) = Rank(Within(index, w), k) <=> j = k
  <2> HIDE DEF there
  <2> QED
    BY <1>3, <1>4, RankInPrefix
<1>6. k \in KeysOf(rows[a]) <=> k \in there
  BY DEF Within
<1>7. mates = IF k \in KeysOf(rows[a]) THEN {k} ELSE {}
  <2> HIDE DEF there
  <2> QED
    BY <1>5, <1>6
<1>8. DenseRead(a, f, w, k) = IF mates = {} THEN Null
                              ELSE cells[a][f][CHOOSE j \in mates : TRUE]
  BY DEF DenseRead
<1> HIDE DEF mates
<1> QED
  BY <1>7, <1>8

-----------------------------------------------------------------------------
(* Bounded reads. *)

\* Reads change nothing of what FeatureLake is.
LEMMA ReadsRefine == ReadSpec => Spec
<1>1. ReadInit => Init
  BY DEF ReadInit
<1>2. [ReadNext]_readVars => [Next]_vars
  <2>1. ReadNext => Next
    BY DEF ReadNext, Next, ReadPermitted
  <2>2. UNCHANGED readVars => UNCHANGED vars
    BY DEF readVars, vars
  <2> QED
    BY <2>1, <2>2
<1> QED
  BY <1>1, <1>2, PTL DEF ReadSpec, Spec

\* The bound of an as-of read cuts off no row that is nearest to a key within.
LEMMA NearestIsInReach ==
  ASSUME IsFiniteSet(Keys), TypeOK, NEW a \in Used, NEW f, NEW w \in Windows,
         NEW k \in Within(index, w)
  PROVE  AsOfRead(a, f, w, k) = AsOfRead(a, f, Everything, k)
<1> DEFINE kept(v) == {j \in KeysOf(rows[a]) : InReach(f, v, j) /\ j[2] = k[2]}
           near(v) == {j \in kept(v) : IF f \in Forward
             THEN Time(k) <= Time(j)
                    /\ \A i \in kept(v) : Time(k) <= Time(i) => Time(j) <= Time(i)
             ELSE Time(j) <= Time(k)
                    /\ \A i \in kept(v) : Time(i) <= Time(k) => Time(i) <= Time(j)}
<1>1. k \in Keys /\ w.from <= Time(k) /\ Time(k) <= w.to
  BY DEF Within, TypeOK
<1>2. /\ \A j \in Keys : Time(j) \in Nat
      /\ w.from \in Nat /\ w.to \in Nat
      /\ \A j \in KeysOf(rows[a]) : j \in Keys
  BY KeysAssumption DEF Time, Times, Windows, KeysOf
<1>3. \A j \in KeysOf(rows[a]) : InReach(f, Everything, j)
  BY <1>1, <1>2, EverythingCovers DEF InReach
<1>4. /\ kept(w) \subseteq kept(Everything)
      /\ \A j \in kept(Everything) :
           (IF f \in Forward THEN Time(k) <= Time(j) ELSE Time(j) <= Time(k)) => j \in kept(w)
  BY <1>1, <1>2, <1>3 DEF InReach
<1>5. \A j \in kept(Everything) : j \in Keys
  BY <1>2
<1>6. near(w) = near(Everything)
  <2> HIDE DEF kept
  <2>1. CASE f \in Forward
    BY <1>4, <2>1
  <2>2. CASE f \notin Forward
    BY <1>4, <2>2
  <2> QED
    BY <2>1, <2>2
<1>7. \A v : AsOfRead(a, f, v, k) = IF near(v) = {} THEN Null
                                    ELSE cells[a][f][CHOOSE j \in near(v) : TRUE]
  BY DEF AsOfRead
<1> HIDE DEF near
<1> QED
  BY <1>6, <1>7

\* A read of any version, bounded by start and end, is the unbounded read cut to
\* the window, for every finite set of keys and callers that keep to the rules.
LEMMA BoundsCut ==
  ASSUME IsFiniteSet(Keys), PrimaryLeads, IInv
  PROVE  BoundedReadsAgree
<1> SUFFICES ASSUME NEW r \in fmeta, NEW w \in Windows, NEW k \in Within(index, w)
             PROVE  Read(r, w, k) = Read(r, Everything, k)
  BY DEF BoundedReadsAgree, Within
<1>1. TypeOK /\ TablesAligned /\ r.addr \in Used
  BY CoversIsAligned DEF IInv, Basics, NoDanglingAddr
<1>2. k \in index /\ k \in Keys
  BY <1>1 DEF Within, TypeOK
<1>3. k \in Within(index, Everything)
  BY <1>2, EverythingCovers DEF Within
<1>4. CASE r.signal = "as_of_feature"
  BY <1>1, <1>4, NearestIsInReach DEF Read
<1>5. CASE r.signal = "sparse_feature"
  BY <1>5 DEF Read
<1>6. CASE r.signal \notin {"as_of_feature", "sparse_feature"}
  <2>1. r.signal \in DenseSignals
    BY <1>1, <1>6, SignalsAssumption DEF TypeOK, FeatureRow, AllSignals, DenseSignals
  <2>2. r.addr \in Dense
    BY <1>1, <2>1 DEF Dense, Unpadded, IInv, Uniform
  <2>3. Aligned(r.addr)
    BY <1>1, <2>2 DEF TablesAligned
  <2>4. DenseRead(r.addr, r.feature, w, k) = DenseRead(r.addr, r.feature, Everything, k)
    BY <1>1, <1>3, <2>3, PositionsMatch
  <2> QED
    BY <1>6, <2>4 DEF Read
<1> QED
  BY <1>4, <1>5, <1>6

\* Reads bounded by start and end agree with the unbounded read, by position, as
\* of and sparse, of every version: for any keys, tables, windows and histories.
THEOREM BoundedReads ==
  ASSUME IsFiniteSet(Keys), PrimaryLeads, Deviations = {}
  PROVE  ReadSpec => []BoundedReadsAgree
<1>1. IInv => BoundedReadsAgree
  BY BoundsCut
<1> QED
  BY <1>1, ReadsRefine, Inductive, PTL

-----------------------------------------------------------------------------
(* What reads return: the invariant. *)

CellTypes ==
  /\ DOMAIN cells = Used
  /\ \A a \in Used : cells[a] \in [Features -> [Keys -> Nat]]
  /\ written \in [Features -> [Keys -> Nat]]

\* Tables hold index keys only, none after their last_updated, as-of and sparse
\* tables too: what an append adds is not there yet.
RowsReach ==
  \A a \in Used : \A k \in KeysOf(rows[a]) : k \in index /\ Time(k) <= LastUpdated(a)

RowsOnce == \A a \in Used, k \in Keys : rows[a][k] <= 1

\* Where a table has no row there is no value.
NoStrays ==
  \A a \in Used, f \in Features, k \in Keys :
    k \notin KeysOf(rows[a]) => cells[a][f][k] = Null

\* The table of a feature's latest version holds what was written for it.
Mirrors ==
  \A f \in Features, k \in Keys :
    written[f][k] = IF RowsOf(f) = {} THEN Null ELSE cells[AddrOf(f)][f][k]

\* A table is one of as-of features, or has none.
AsOfApart ==
  \A r, s \in fmeta : r.addr = s.addr =>
    (r.signal = "as_of_feature" <=> s.signal = "as_of_feature")

\* The tables of as-of features have no rows but observations.
Observations ==
  \A f \in Features : RowsOf(f) # {} /\ LatestRow(f).signal = "as_of_feature" =>
    \A k \in KeysOf(rows[AddrOf(f)]) : cells[AddrOf(f)][f][k] # Null

\* The inductive invariant of the values, next to that of the keys, IInv.
RInv ==
  /\ CellTypes /\ RowsReach /\ RowsOnce /\ NoStrays
  /\ Mirrors /\ AsOfApart /\ Observations

-----------------------------------------------------------------------------
(* A call, table by table. *)

\* A call as ReadNext makes it.
Calls(c) ==
  /\ calls < MaxCalls
  /\ ReadPermitted(c) /\ Add(c) /\ AddCells(c) /\ AddWritten(c)

\* What is known of the state and the call throughout.
Step(c) == /\ Deviations = {} /\ IInv /\ IInv' /\ RInv
           /\ c \in Call /\ Calls(c)

\* The rules that a caller keeps.
LEMMA RulesHold ==
  ASSUME NEW c, Step(c)
  PROVE  /\ c \in Call /\ Permitted(c) /\ Basics /\ Basics' /\ TypeOK /\ TypeOK'
         /\ calls < MaxCalls /\ Add(c) /\ AddCells(c) /\ AddWritten(c)
         /\ calls \in Nat
         /\ NoRegress(c) /\ NoRewind(c) /\ NoGap(c) /\ NoOldBackfill(c) /\ SameSignal(c)
         /\ KeepsKind(c) /\ NoAsOfPadding(c) /\ KeepsTail(c)
<1>1. /\ c \in Call /\ Permitted(c) /\ Basics /\ Basics' /\ TypeOK /\ TypeOK'
      /\ calls < MaxCalls /\ Add(c) /\ AddCells(c) /\ AddWritten(c)
      /\ KeepsKind(c) /\ NoAsOfPadding(c) /\ KeepsTail(c)
  BY DEF Step, Calls, ReadPermitted, IInv, Basics
<1>2. Deviations = {}
  BY DEF Step
<1>3. calls \in Nat
  BY <1>1, MaxCallsAssumption DEF TypeOK
<1> QED
  BY <1>1, <1>2, <1>3, UsageRulesHold

\* The branches exclude one another.
LEMMA Branches ==
  ASSUME NEW c \in Call
  PROVE  /\ Merges(c) \cap Copies(c) = {} /\ Merges(c) \cap Appends(c) = {}
         /\ Copies(c) \cap Appends(c) = {}
         /\ Padded(c) \cap (Merges(c) \cup Copies(c) \cup Appends(c)) = {}
         /\ Merges(c) \cup Copies(c) \cup Appends(c) = Old(c)
         /\ Merges(c) \cup Copies(c) # {} => ~ AllNew(c)
         /\ \A g \in Merges(c) \cup Copies(c) : c.lo <= LastUpdated(g)
         /\ \A g \in Appends(c) : AllNew(c) \/ ~ (c.lo <= LastUpdated(g))
<1>1. /\ Merges(c) \cap Copies(c) = {} /\ Merges(c) \cap Appends(c) = {}
      /\ Copies(c) \cap Appends(c) = {}
  BY DEF Merges, Copies, Appends
<1>2. Merges(c) \cup Copies(c) \cup Appends(c) = Old(c)
  BY DEF Merges, Copies, Appends
<1>3. Padded(c) \cap Old(c) = {}
  BY DEF Padded, Old
<1>4. \A g \in Merges(c) \cup Copies(c) : Overlaps(c, g)
  BY DEF Merges, Copies
<1>5. \A g \in Appends(c) : ~ Overlaps(c, g) \/ c.mode \notin {"merge", "copy"}
  BY DEF Appends, Merges, Copies
<1>6. c.mode \in {"merge", "copy"}
  BY ModesAssumption DEF Call
<1> QED
  BY <1>1, <1>2, <1>3, <1>4, <1>5, <1>6 DEF Overlaps

\* The lake after a call.
LEMMA AddTables ==
  ASSUME NEW c, Step(c)
  PROVE  /\ Used' = Used \cup Homes(c)
         /\ DOMAIN cells' = Used'
         /\ \A a \in Used : rows'[a] = UpdatedRows(c, a) /\ cells'[a] = UpdatedCells(c, a)
         /\ \A a \in Homes(c) \ Used :
              rows'[a] = CreatedRows(c, a) /\ cells'[a] = CreatedCells(c, a)
         /\ index' = index \cup New(c) /\ index' = index \cup c.keys
         /\ fmeta' = fmeta \cup FeatureRowsAfter(c)
<1> Add(c) /\ AddCells(c)
  BY RulesHold
<1>1. /\ Used' = Used \cup Homes(c)
      /\ \A a \in Used : rows'[a] = UpdatedRows(c, a)
      /\ \A a \in Homes(c) \ Used : rows'[a] = CreatedRows(c, a)
      /\ index' = index \cup New(c)
      /\ fmeta' = fmeta \cup FeatureRowsAfter(c)
  BY DEF Add, Used
<1>2. /\ DOMAIN cells' = Used \cup Homes(c)
      /\ \A a \in Used : cells'[a] = UpdatedCells(c, a)
      /\ \A a \in Homes(c) \ Used : cells'[a] = CreatedCells(c, a)
  BY DEF AddCells
<1>3. index \cup New(c) = index \cup c.keys
  BY DEF New
<1> QED
  BY <1>1, <1>2, <1>3

\* A new table is the copy of one group, or the table of the new features.
LEMMA CreatedTable ==
  ASSUME NEW c, Step(c), NEW g \in Fresh(c)
  PROVE  /\ Home(c, g) \in Homes(c) \ Used
         /\ g \in Copies(c) =>
              /\ CreatedRows(c, Home(c, g)) = CopiedRows(c, g)
              /\ CreatedCells(c, Home(c, g)) = CopiedCells(c, g)
         /\ g \notin Copies(c) =>
              /\ g = NoAddr /\ NoAddr \in Targets(c)
              /\ CreatedRows(c, Home(c, g)) = OneRowEach(CreatedKeys(c))
              /\ CreatedCells(c, Home(c, g)) =
                   [f \in Features |-> [k \in Keys |-> Pick(c.feats, f, Input(c, k), Null)]]
<1> DEFINE a == Home(c, g)
<1>1. c \in Call /\ Basics /\ calls < MaxCalls
  BY RulesHold
<1>2. /\ Home(c, g) \notin Used
      /\ \A h \in Fresh(c) : Home(c, h) = Home(c, g) => h = g
  BY <1>1, HomeFacts
<1>3. g \in Targets(c) /\ Copies(c) \subseteq Fresh(c)
  BY DEF Fresh, Copies, Old
<1>4. Home(c, g) \in Homes(c)
  BY <1>3 DEF Homes
<1>5. \A h \in Copies(c) : Home(c, h) = a <=> h = g
  BY <1>2, <1>3
<1> HIDE DEF a
<1>6. CASE g \in Copies(c)
  <2>1. (CHOOSE h \in Copies(c) : Home(c, h) = a) = g
    BY <1>5, <1>6
  <2>2. \E h \in Copies(c) : Home(c, h) = a
    BY <1>5, <1>6
  <2>3. /\ CreatedRows(c, a) = CopiedRows(c, g)
        /\ CreatedCells(c, a) = CopiedCells(c, g)
    BY <2>1, <2>2 DEF CreatedRows, CreatedCells
  <2> QED
    BY <1>2, <1>4, <1>6, <2>3 DEF a
<1>7. CASE g \notin Copies(c)
  <2>1. ~ \E h \in Copies(c) : Home(c, h) = a
    BY <1>5, <1>7
  <2>2. /\ CreatedRows(c, a) = OneRowEach(CreatedKeys(c))
        /\ CreatedCells(c, a) =
             [f \in Features |-> [k \in Keys |-> Pick(c.feats, f, Input(c, k), Null)]]
    BY <2>1 DEF CreatedRows, CreatedCells
  <2>3. g = NoAddr
    BY <1>7 DEF Fresh
  <2> QED
    BY <1>2, <1>3, <1>4, <1>7, <2>2, <2>3 DEF a
<1> QED
  BY <1>6, <1>7

\* The tables after a call.
LEMMA TablesAfter ==
  ASSUME NEW c, Step(c), NEW a \in Used'
  PROVE  a \in Used \/ \E g \in Fresh(c) : a = Home(c, g)
<1>1. c \in Call /\ Basics /\ calls < MaxCalls
  BY RulesHold
<1>2. CASE a \in Homes(c)
  <2>1. PICK g \in Targets(c) : a = Home(c, g)
    BY <1>2 DEF Homes
  <2> QED
    BY <1>1, <2>1, HomeFacts
<1> QED
  BY <1>2, AddTables

\* What an update writes are keys, and it writes them where they were or inserts
\* them.
LEMMA UpdatedKeys ==
  ASSUME NEW c, Step(c), NEW a \in Used
  PROVE  /\ Overwritten(c, a) \subseteq Keys
         /\ KeysOf(rows[a]) \cup Overwritten(c, a) \subseteq KeysOf(rows'[a])
         /\ a \notin Padded(c) => KeysOf(rows'[a]) = KeysOf(rows[a]) \cup Overwritten(c, a)
<1>1. c \in Call /\ TypeOK /\ c.keys \subseteq Keys /\ index \subseteq Keys
  BY RulesHold, CallFacts DEF TypeOK
<1>2. \A k \in Keys : rows[a][k] \in Nat
  BY <1>1 DEF TypeOK
<1>3. rows'[a] = UpdatedRows(c, a)
  BY AddTables
<1>4. /\ Merges(c) \cap Copies(c) = {} /\ Merges(c) \cap Appends(c) = {}
      /\ Copies(c) \cap Appends(c) = {}
      /\ Padded(c) \cap (Merges(c) \cup Copies(c) \cup Appends(c)) = {}
  BY <1>1, Branches
<1>5. CASE a \in Merges(c)
  <2>1. Overwritten(c, a) = MergedKeys(c) /\ MergedKeys(c) \subseteq Keys
    BY <1>1, <1>4, <1>5 DEF Overwritten, MergedKeys, Missing
  <2>2. rows'[a] = MergeRows(rows[a], MergedKeys(c))
    BY <1>3, <1>4, <1>5 DEF UpdatedRows
  <2> QED
    BY <1>2, <2>1, <2>2 DEF MergeRows, OneRowEach, KeysOf
<1>6. ASSUME NEW S \in SUBSET Keys, Overwritten(c, a) = S, rows'[a] = AppendRows(rows[a], S)
      PROVE  KeysOf(rows'[a]) = KeysOf(rows[a]) \cup Overwritten(c, a)
  BY <1>2, <1>6 DEF AppendRows, OneRowEach, KeysOf
<1>7. CASE a \in Copies(c)
  <2>1. Overwritten(c, a) = FrozenKeys(c, a) /\ FrozenKeys(c, a) \subseteq Keys
    BY <1>1, <1>4, <1>7 DEF Overwritten, FrozenKeys, New
  <2>2. rows'[a] = AppendRows(rows[a], FrozenKeys(c, a))
    BY <1>3, <1>4, <1>7 DEF UpdatedRows
  <2> QED
    BY <1>6, <2>1, <2>2
<1>8. CASE a \in Appends(c)
  <2>1. Overwritten(c, a) = AppendedKeys(c, a) /\ AppendedKeys(c, a) \subseteq Keys
    BY <1>1, <1>4, <1>8 DEF Overwritten, AppendedKeys, Missing
  <2>2. rows'[a] = AppendRows(rows[a], AppendedKeys(c, a))
    BY <1>3, <1>4, <1>8 DEF UpdatedRows
  <2> QED
    BY <1>6, <2>1, <2>2
<1>9. CASE a \notin Merges(c) \cup Copies(c) \cup Appends(c)
  <2>1. Overwritten(c, a) = {}
    BY <1>9 DEF Overwritten
  <2>2. CASE a \in Padded(c)
    <3>1. rows'[a] = PaddedRows(c, a)
      BY <1>3, <1>9, <2>2 DEF UpdatedRows
    <3>2. \A k \in Keys : Cardinality(PaddingsOf(a, k)) \in Nat
      BY <1>1, PaddingCount
    <3>3. \A k \in Keys : rows'[a][k] >= rows[a][k]
      BY <1>2, <3>1, <3>2 DEF PaddedRows
    <3>4. rows'[a] \in [Keys -> Nat]
      <4>1. a \in Used' /\ TypeOK'
        BY AddTables, RulesHold
      <4> QED
        BY <4>1 DEF TypeOK
    <3> QED
      BY <1>2, <2>1, <2>2, <3>3, <3>4 DEF KeysOf
  <2>3. CASE a \notin Padded(c)
    <3>1. rows'[a] = rows[a]
      BY <1>3, <1>9, <2>3 DEF UpdatedRows
    <3> QED
      BY <2>1, <3>1
  <2> QED
    BY <2>2, <2>3
<1> QED
  BY <1>5, <1>7, <1>8, <1>9

\* Where a table's last_updated moves, it moves to the end of the input.
LEMMA HorizonAfter ==
  ASSUME NEW c, Step(c), NEW a \in Used
  PROVE  /\ LastUpdated(a) \in Nat
         /\ IF a \in Merges(c) \cup Appends(c)
            THEN LastUpdated(a)' = c.hi /\ LastUpdated(a) <= c.hi
            ELSE LastUpdated(a)' = LastUpdated(a)
<1>1. /\ c \in Call /\ Basics /\ calls < MaxCalls /\ Add(c) /\ TypeOK /\ KeepsKind(c)
      /\ a \in Used'
  BY RulesHold, AddTables
<1>2. LastUpdated(a) \in Nat
  BY <1>1, LastUpdatedType
<1>3. /\ Copies(c) \cap (Merges(c) \cup Appends(c)) = {}
      /\ Merges(c) \cup Copies(c) \cup Appends(c) = Old(c)
  BY <1>1, Branches
<1>4. CASE a \in Merges(c) \cup Appends(c)
  <2>1. a \in Targets(c) /\ a \notin Fresh(c)
    <3>1. a # NoAddr
      BY <1>3, <1>4 DEF Old
    <3> QED
      BY <1>3, <1>4, <3>1 DEF Fresh, Old
  <2>2. a \in Homes(c)
    BY <1>1, <2>1, HomeFacts DEF Homes
  <2>3. LastUpdated(a)' = c.hi
    BY <1>1, <2>2, LastUpdatedAfter
  <2> QED
    BY <1>1, <1>2, <1>4, <2>3 DEF KeepsKind
<1>5. CASE a \notin Merges(c) \cup Appends(c)
  <2>1. a \notin Homes(c)
    <3>1. \A g \in Fresh(c) : Home(c, g) # a
      BY <1>1, HomeFacts
    <3>2. \A g \in Targets(c) \ Fresh(c) : Home(c, g) # a
      BY <1>1, <1>5, HomeFacts
    <3> QED
      BY <3>1, <3>2 DEF Homes
  <2>2. tmeta'[a] = tmeta[a]
    BY <1>1, <2>1, LastUpdatedAfter
  <2> QED
    BY <1>2, <1>5, <2>2 DEF LastUpdated
<1> QED
  BY <1>4, <1>5

\* A table that is no dense table after the call was not padded by it.
LEMMA PaddedStaysDense ==
  ASSUME NEW c, Step(c), NEW a \in Padded(c)
  PROVE  a \in Dense'
<1>1. c \in Call /\ Basics /\ calls < MaxCalls
  BY RulesHold
<1>2. a \in Used /\ a \notin Unpadded /\ a \notin Targets(c)
  BY DEF Padded, Dense
<1>3. a \notin Homes(c)
  BY <1>1, <1>2, HomeFacts DEF Homes
<1>4. \A r \in FeatureRowsAfter(c) : r.addr # a
  BY <1>1, <1>3, NewFeatureRows
<1>5. a \notin Unpadded'
  BY <1>2, <1>4, AddTables DEF Unpadded
<1>6. a \in Used'
  BY <1>2, AddTables
<1> QED
  BY <1>5, <1>6 DEF Dense

\* An update inserts no key that is there, and none past the new last_updated.
LEMMA UpdateReaches ==
  ASSUME NEW c, Step(c), NEW a \in Used, a \notin Dense'
  PROVE  /\ \A k \in KeysOf(rows'[a]) : k \in index' /\ Time(k) <= LastUpdated(a)'
         /\ \A k \in Keys : rows'[a][k] <= 1
<1>1. /\ c \in Call /\ TypeOK /\ c.keys \subseteq Keys /\ index \subseteq Keys
      /\ \A k \in Keys : Time(k) \in Nat
      /\ c.lo \in Nat /\ c.hi \in Nat
      /\ \A k \in c.keys : c.lo <= Time(k) /\ Time(k) <= c.hi
  BY RulesHold, CallFacts DEF TypeOK
<1>2. /\ \A k \in KeysOf(rows[a]) : k \in index /\ Time(k) <= LastUpdated(a)
      /\ \A k \in Keys : rows[a][k] \in Nat /\ rows[a][k] <= 1
  BY <1>1 DEF Step, RInv, RowsReach, RowsOnce, TypeOK
<1>3. /\ index' = index \cup c.keys
      /\ rows'[a] = UpdatedRows(c, a)
  BY AddTables
<1>4. a \notin Padded(c)
  BY PaddedStaysDense
<1>5. KeysOf(rows'[a]) = KeysOf(rows[a]) \cup Overwritten(c, a)
  BY <1>4, UpdatedKeys
<1>6. /\ LastUpdated(a) \in Nat
      /\ IF a \in Merges(c) \cup Appends(c)
         THEN LastUpdated(a)' = c.hi /\ LastUpdated(a) <= c.hi
         ELSE LastUpdated(a)' = LastUpdated(a)
  BY HorizonAfter
<1>7. /\ Merges(c) \cap Copies(c) = {} /\ Merges(c) \cap Appends(c) = {}
      /\ Copies(c) \cap Appends(c) = {}
      /\ \A g \in Appends(c) : AllNew(c) \/ ~ (c.lo <= LastUpdated(g))
  BY <1>1, Branches
<1>8. ASSUME NEW S, S \cap KeysOf(rows[a]) = {}, rows'[a] = AppendRows(rows[a], S)
      PROVE  \A k \in Keys : rows'[a][k] <= 1
  BY <1>2, <1>8 DEF AppendRows, OneRowEach, KeysOf
<1>9. CASE a \in Merges(c)
  <2>1. Overwritten(c, a) = MergedKeys(c)
    BY <1>7, <1>9 DEF Overwritten
  <2>2. \A k \in MergedKeys(c) : k \in index' /\ Time(k) <= c.hi
    BY <1>1, <1>3 DEF MergedKeys, Missing
  <2>3. \A k \in KeysOf(rows[a]) : k \in index' /\ Time(k) <= c.hi
    <3>1. \A k \in KeysOf(rows[a]) : k \in Keys /\ Time(k) \in Nat
      BY <1>1 DEF KeysOf
    <3> QED
      BY <1>1, <1>2, <1>3, <1>6, <1>9, <3>1
  <2>4. rows'[a] = MergeRows(rows[a], MergedKeys(c))
    BY <1>3, <1>4, <1>7, <1>9 DEF UpdatedRows
  <2>5. \A k \in Keys : rows'[a][k] <= 1
    BY <1>2, <2>4 DEF MergeRows, OneRowEach
  <2> QED
    BY <1>5, <1>6, <1>9, <2>1, <2>2, <2>3, <2>5
<1>10. CASE a \in Copies(c)
  <2>1. Overwritten(c, a) = FrozenKeys(c, a)
    BY <1>7, <1>10 DEF Overwritten
  <2>2. \A k \in FrozenKeys(c, a) : k \in index' /\ k \notin index /\ Time(k) <= LastUpdated(a)
    BY <1>3 DEF FrozenKeys, New
  <2>3. rows'[a] = AppendRows(rows[a], FrozenKeys(c, a))
    BY <1>3, <1>4, <1>7, <1>10 DEF UpdatedRows
  <2>4. \A k \in Keys : rows'[a][k] <= 1
    BY <1>2, <1>8, <2>2, <2>3
  <2> QED
    BY <1>2, <1>3, <1>5, <1>6, <1>7, <1>10, <2>1, <2>2, <2>4
<1>11. CASE a \in Appends(c)
  <2>1. Overwritten(c, a) = AppendedKeys(c, a)
    BY <1>7, <1>11 DEF Overwritten
  <2>2. \A k \in AppendedKeys(c, a) : k \in index' /\ Time(k) <= c.hi
    BY <1>1, <1>3 DEF AppendedKeys, Missing
  <2>3. \A k \in KeysOf(rows[a]) : k \in index' /\ Time(k) <= c.hi
    <3>1. \A k \in KeysOf(rows[a]) : k \in Keys /\ Time(k) \in Nat
      BY <1>1 DEF KeysOf
    <3> QED
      BY <1>1, <1>2, <1>3, <1>6, <1>11, <3>1
  <2>4. ASSUME NEW k \in AppendedKeys(c, a), k \in KeysOf(rows[a]) PROVE FALSE
    <3>1. k \in index /\ Time(k) <= LastUpdated(a) /\ k \in Keys /\ Time(k) \in Nat
      BY <1>1, <1>2, <2>4
    <3>2. k \in c.keys
      BY <1>6, <3>1 DEF AppendedKeys
    <3>3. ~ AllNew(c)
      BY <3>1, <3>2 DEF AllNew, Inner
    <3> QED
      BY <1>1, <1>6, <1>7, <1>11, <3>1, <3>2, <3>3
  <2>5. rows'[a] = AppendRows(rows[a], AppendedKeys(c, a))
    BY <1>3, <1>4, <1>7, <1>11 DEF UpdatedRows
  <2>6. \A k \in Keys : rows'[a][k] <= 1
    BY <1>8, <2>4, <2>5
  <2> QED
    BY <1>5, <1>6, <1>11, <2>1, <2>2, <2>3, <2>6
<1>12. CASE a \notin Merges(c) \cup Copies(c) \cup Appends(c)
  <2>1. Overwritten(c, a) = {}
    BY <1>12 DEF Overwritten
  <2>2. rows'[a] = rows[a]
    BY <1>3, <1>4, <1>12 DEF UpdatedRows
  <2> QED
    BY <1>2, <1>3, <1>6, <1>12, <2>2
<1> QED
  BY <1>9, <1>10, <1>11, <1>12

\* A copy keeps the rows before the input, each once; what it adds is not before.
LEMMA CopiedKeys ==
  ASSUME NEW c, Step(c), NEW g \in Copies(c)
  PROVE  /\ KeysOf(CopiedRows(c, g)) =
              {k \in KeysOf(rows[g]) : Time(k) < c.lo} \cup c.keys \cup CopyPadding(c, g)
         /\ \A k \in Keys : CopiedRows(c, g)[k] <= 1
         /\ \A k \in KeysOf(CopiedRows(c, g)) : k \in index' /\ Time(k) <= c.hi
         /\ g \in Used
<1>1. /\ c \in Call /\ Basics /\ TypeOK /\ c.keys \subseteq Keys /\ index \subseteq Keys
      /\ \A k \in Keys : Time(k) \in Nat
      /\ c.lo \in Nat /\ c.hi \in Nat
      /\ \A k \in c.keys : c.lo <= Time(k) /\ Time(k) <= c.hi
      /\ \E k \in c.keys : Time(k) = c.lo
  BY RulesHold, CallFacts DEF TypeOK
<1>2. g \in Used /\ c.lo <= LastUpdated(g)
  BY <1>1, OldIsUsed, Branches
<1>3. /\ \A k \in KeysOf(rows[g]) : k \in index
      /\ \A k \in Keys : rows[g][k] \in Nat /\ rows[g][k] <= 1
  BY <1>1, <1>2 DEF Step, RInv, RowsReach, RowsOnce, TypeOK
<1>4. index' = index \cup c.keys /\ LastUpdated(g) \in Nat
  BY <1>1, <1>2, AddTables, LastUpdatedType
<1> DEFINE P == CopyPadding(c, g)
<1>5. \A k \in P : k \in index /\ k \in Keys /\ Time(k) <= c.hi /\ c.lo <= Time(k)
  <2>1. \A k \in P : k \in index /\ Time(k) <= c.hi /\ Time(k) >= LastUpdated(g)
    BY DEF CopyPadding, Missing
  <2> QED
    BY <1>1, <1>2, <1>4, <2>1
<1>6. c.lo <= c.hi
  BY <1>1
<1>7. \A k \in Keys : CopiedRows(c, g)[k] =
        (IF Time(k) < c.lo THEN rows[g][k] ELSE 0) + (IF k \in c.keys \cup P THEN 1 ELSE 0)
  BY DEF CopiedRows, AppendRows, KeptRows, OneRowEach
<1>8. \A k \in c.keys \cup P : k \in Keys /\ ~ (Time(k) < c.lo)
  BY <1>1, <1>5
<1> HIDE DEF P
<1>9. KeysOf(CopiedRows(c, g)) = {k \in KeysOf(rows[g]) : Time(k) < c.lo} \cup c.keys \cup P
  BY <1>3, <1>7, <1>8 DEF KeysOf
<1>10. \A k \in Keys : CopiedRows(c, g)[k] <= 1
  BY <1>3, <1>7, <1>8
<1>11. \A k \in KeysOf(rows[g]) : k \in index' /\ (Time(k) < c.lo => Time(k) <= c.hi)
  <2>1. \A k \in KeysOf(rows[g]) : k \in Keys
    BY DEF KeysOf
  <2> QED
    BY <1>1, <1>3, <1>4, <1>6, <2>1
<1>12. \A k \in KeysOf(CopiedRows(c, g)) : k \in index' /\ Time(k) <= c.hi
  BY <1>1, <1>4, <1>5, <1>9, <1>11
<1> QED
  BY <1>2, <1>9, <1>10, <1>12 DEF P

\* A new table has the input's rows, and at most the missing keys.
LEMMA CreatedReaches ==
  ASSUME NEW c, Step(c)
  PROVE  /\ KeysOf(OneRowEach(CreatedKeys(c))) = CreatedKeys(c)
         /\ c.keys \subseteq CreatedKeys(c)
         /\ \A k \in Keys : OneRowEach(CreatedKeys(c))[k] <= 1
         /\ \A k \in CreatedKeys(c) : k \in index' /\ Time(k) <= c.hi
<1>1. /\ c.keys \subseteq Keys /\ index \subseteq Keys
      /\ \A k \in c.keys : Time(k) <= c.hi
  BY RulesHold, CallFacts DEF TypeOK
<1>2. index' = index \cup c.keys
  BY AddTables
<1> QED
  BY <1>1, <1>2 DEF CreatedKeys, Missing, OneRowEach, KeysOf

\* Cells, and rows where they are, after a call.
LEMMA AddKeepsTables ==
  ASSUME NEW c, Step(c)
  PROVE  (RowsReach /\ RowsOnce)'
<1>1. /\ c \in Call /\ Basics /\ calls < MaxCalls /\ Add(c)
  BY RulesHold
<1>2. ASSUME NEW a \in Used'
      PROVE  /\ \A k \in KeysOf(rows'[a]) : k \in index' /\ Time(k) <= LastUpdated(a)'
             /\ \A k \in Keys : rows'[a][k] <= 1
  <2>1. CASE a \in Dense'
    <3>1. /\ rows'[a] = OneRowEach({k \in index' : Time(k) <= LastUpdated(a)'})
          /\ index' \subseteq Keys
      BY <2>1 DEF Step, IInv, LastUpdatedIsHonest, Covers, Basics, TypeOK
    <3> QED
      BY <3>1 DEF OneRowEach, KeysOf
  <2>2. CASE a \notin Dense' /\ a \in Used
    BY <2>2, UpdateReaches
  <2>3. CASE a \notin Used
    <3>1. PICK g \in Fresh(c) : a = Home(c, g)
      BY <1>2, <2>3, TablesAfter
    <3>2. a \in Homes(c) \ Used /\ LastUpdated(a)' = c.hi
      BY <1>1, <1>2, <3>1, CreatedTable, LastUpdatedAfter
    <3>3. rows'[a] = CreatedRows(c, a)
      BY <3>2, AddTables
    <3>4. CASE g \in Copies(c)
      BY <3>1, <3>2, <3>3, <3>4, CreatedTable, CopiedKeys
    <3>5. CASE g \notin Copies(c)
      BY <3>1, <3>2, <3>3, <3>5, CreatedTable, CreatedReaches
    <3> QED
      BY <3>4, <3>5
  <2> QED
    BY <2>1, <2>2, <2>3
<1>3. RowsReach'
  BY <1>2 DEF RowsReach, KeysOf
<1> QED
  BY <1>2, <1>3 DEF RowsOnce

\* What a call writes is its own number or null.
LEMMA InputIs ==
  ASSUME NEW c, Step(c)
  PROVE  \A k : /\ k \in c.keys => Input(c, k) = calls + 1 /\ Input(c, k) # Null
                /\ k \notin c.keys => Input(c, k) = Null
                /\ Input(c, k) \in Nat
<1> calls \in Nat
  BY RulesHold
<1> QED
  BY DEF Input, Pick, Null

\* Cells keep their types.
LEMMA AddKeepsCells ==
  ASSUME NEW c, Step(c)
  PROVE  CellTypes' /\ NoStrays'
<1>1. CellTypes /\ NoStrays /\ Basics /\ c \in Call /\ calls \in Nat /\ AddWritten(c)
  BY RulesHold DEF Step, RInv
<1>2. ASSUME NEW a \in Used, NEW f \in Features, NEW k \in Keys
      PROVE  /\ cells[a][f][k] \in Nat
             /\ cells'[a][f][k] = IF f \in Columns(c, a) /\ k \in Overwritten(c, a)
                                  THEN Input(c, k) ELSE cells[a][f][k]
             /\ k \notin KeysOf(rows[a]) => cells[a][f][k] = Null
  <2>1. cells'[a] = UpdatedCells(c, a)
    BY AddTables
  <2> QED
    BY <1>1, <2>1 DEF UpdatedCells, CellTypes, NoStrays
<1>3. ASSUME NEW a \in Used'
      PROVE  /\ cells'[a] \in [Features -> [Keys -> Nat]]
             /\ \A f \in Features, k \in Keys :
                  k \notin KeysOf(rows'[a]) => cells'[a][f][k] = Null
  <2>1. CASE a \in Used
    <3>1. \A f \in Features, k \in Keys : cells'[a][f][k] \in Nat
      BY <1>2, <2>1, InputIs
    <3>2. cells'[a] = UpdatedCells(c, a)
      BY <2>1, AddTables
    <3>3. cells'[a] \in [Features -> [Keys -> Nat]]
      <4>1. \A f \in Features, k \in Keys : UpdatedCells(c, a)[f][k] \in Nat
        BY <3>1, <3>2
      <4>2. UpdatedCells(c, a) \in [Features -> [Keys -> Nat]]
        BY <4>1 DEF UpdatedCells
      <4> QED
        BY <3>2, <4>2
    <3>4. KeysOf(rows[a]) \cup Overwritten(c, a) \subseteq KeysOf(rows'[a])
      BY <2>1, UpdatedKeys
    <3>5. \A f \in Features, k \in Keys :
            k \notin KeysOf(rows'[a]) => cells'[a][f][k] = Null
      BY <1>2, <2>1, <3>4
    <3> QED
      BY <3>3, <3>5
  <2>2. CASE a \notin Used
    <3>1. PICK g \in Fresh(c) : a = Home(c, g)
      BY <1>3, <2>2, TablesAfter
    <3>2. a \in Homes(c) \ Used
      BY <3>1, CreatedTable
    <3>3. rows'[a] = CreatedRows(c, a) /\ cells'[a] = CreatedCells(c, a)
      BY <3>2, AddTables
    <3>4. CASE g \in Copies(c)
      <4>1. cells'[a] = CopiedCells(c, g) /\ rows'[a] = CopiedRows(c, g)
        BY <3>1, <3>3, <3>4, CreatedTable
      <4>2. /\ g \in Used
            /\ KeysOf(rows'[a]) = {k \in KeysOf(rows[g]) : Time(k) < c.lo}
                                    \cup c.keys \cup CopyPadding(c, g)
        BY <3>4, <4>1, CopiedKeys
      <4>3. cells'[a] \in [Features -> [Keys -> Nat]]
        <5>1. \A f \in Features, k \in Keys : cells[g][f][k] \in Nat
          BY <1>2, <4>2
        <5>2. Null \in Nat /\ \A k : Input(c, k) \in Nat
          BY InputIs DEF Null
        <5> QED
          BY <4>1, <5>1, <5>2 DEF CopiedCells
      <4>4. ASSUME NEW f \in Features, NEW k \in Keys, k \notin KeysOf(rows'[a])
            PROVE  cells'[a][f][k] = Null
        <5>1. k \notin c.keys /\ (Time(k) < c.lo => cells[g][f][k] = Null)
          BY <1>2, <4>2, <4>4
        <5> QED
          BY <4>1, <5>1, InputIs DEF CopiedCells
      <4> QED
        BY <4>3, <4>4
    <3>5. CASE g \notin Copies(c)
      <4>1. /\ rows'[a] = OneRowEach(CreatedKeys(c))
            /\ cells'[a] = [f \in Features |-> [k \in Keys |->
                              Pick(c.feats, f, Input(c, k), Null)]]
        BY <3>1, <3>3, <3>5, CreatedTable
      <4>2. \A k : k \notin KeysOf(rows'[a]) => k \notin c.keys
        BY <4>1, CreatedReaches
      <4>3. Null \in Nat
        BY DEF Null
      <4> QED
        BY <4>1, <4>2, <4>3, InputIs DEF Pick
    <3> QED
      BY <3>4, <3>5
  <2> QED
    BY <2>1, <2>2
<1>4. written' \in [Features -> [Keys -> Nat]]
  <2>1. written \in [Features -> [Keys -> Nat]] /\ calls + 1 \in Nat /\ Null \in Nat
    BY <1>1 DEF CellTypes, Null
  <2> QED
    BY <1>1, <2>1 DEF AddWritten
<1>5. CellTypes'
  BY <1>3, <1>4, AddTables DEF CellTypes
<1>6. NoStrays'
  BY <1>3 DEF NoStrays, KeysOf
<1> QED
  BY <1>5, <1>6

\* Where a call leaves the latest version of a feature.
LEMMA LatestTable ==
  ASSUME NEW c, Step(c), NEW f \in Features
  PROVE  \/ /\ f \notin c.feats \/ AddrOf(f) \in Appends(c)
            /\ RowsOf(f)' = RowsOf(f) /\ AddrOf(f)' = AddrOf(f)
            /\ LatestRow(f)' = LatestRow(f)
         \/ /\ f \in c.feats /\ AddrOf(f) \in Targets(c) \ Appends(c)
            /\ RowsOf(f)' # {} /\ AddrOf(f)' = Home(c, AddrOf(f))
            /\ LatestRow(f)'.signal = c.signal
<1> DEFINE R == FeatureRowsAfter(c)
<1>1. /\ c \in Call /\ Basics /\ TypeOK /\ TypeOK' /\ calls < MaxCalls
      /\ fmeta' = fmeta \cup R
  BY RulesHold, AddTables
<1>2. \A r \in R : /\ \A s \in RowsOf(r.feature) : s.version < r.version
                   /\ r.feature \in c.feats
                   /\ r.addr = Home(c, AddrOf(r.feature))
                   /\ r.signal = c.signal
  BY <1>1, NewFeatureRows
<1>3. ASSUME f \in c.feats, AddrOf(f) \notin Appends(c)
      PROVE  \E r \in R : r.feature = f
  <2> DEFINE w == [feature |-> f,
                   version |-> IF AddrOf(f) = NoAddr THEN 0 ELSE NextRank(c, AddrOf(f)),
                   addr    |-> Home(c, AddrOf(f)), signal |-> c.signal]
  <2>1. w \in R
    BY <1>3 DEF FeatureRowsAfter
  <2>2. w.feature = f
    OBVIOUS
  <2> QED
    BY <2>1, <2>2
<1>4. \A r \in R : AddrOf(r.feature) \notin Appends(c)
  BY DEF FeatureRowsAfter
<1> HIDE DEF R
<1>5. \/ /\ \A r \in R : r.feature # f
         /\ RowsOf(f)' = RowsOf(f)
         /\ AddrOf(f)' = AddrOf(f)
         /\ LatestRow(f)' = LatestRow(f)
      \/ /\ RowsOf(f)' # {}
         /\ LatestRow(f)' \in R
         /\ LatestRow(f)'.feature = f
         /\ AddrOf(f)' = LatestRow(f)'.addr
  BY <1>1, <1>2, LatestAfter
<1>6. CASE \A r \in R : r.feature # f
  BY <1>2, <1>3, <1>5, <1>6
<1>7. CASE /\ RowsOf(f)' # {}
           /\ LatestRow(f)' \in R
           /\ LatestRow(f)'.feature = f
           /\ AddrOf(f)' = LatestRow(f)'.addr
  <2>1. f \in c.feats /\ AddrOf(f)' = Home(c, AddrOf(f)) /\ LatestRow(f)'.signal = c.signal
    BY <1>2, <1>7
  <2>2. AddrOf(f) \notin Appends(c)
    BY <1>4, <1>7
  <2>3. AddrOf(f) \in Targets(c)
    BY <2>1 DEF Targets
  <2> QED
    BY <1>7, <2>1, <2>2, <2>3
<1> QED
  BY <1>5, <1>6, <1>7

\* A feature with rows has its latest table, and a new one has no values.
LEMMA FeatureTable ==
  ASSUME Basics, RInv, NEW f \in Features
  PROVE  IF RowsOf(f) = {}
         THEN AddrOf(f) = NoAddr /\ \A k \in Keys : written[f][k] = Null
         ELSE /\ AddrOf(f) \in Used /\ AddrOf(f) # NoAddr /\ LatestRow(f) \in fmeta
              /\ LatestRow(f) \in RowsOf(f) /\ LatestRow(f).addr = AddrOf(f)
              /\ \A k \in Keys : written[f][k] = cells[AddrOf(f)][f][k]
<1>1. \A k \in Keys :
        written[f][k] = IF RowsOf(f) = {} THEN Null ELSE cells[AddrOf(f)][f][k]
  BY DEF RInv, Mirrors
<1>2. TypeOK /\ NoDanglingAddr
  BY DEF Basics
<1>3. RowsOf(f) = {} => AddrOf(f) = NoAddr
  BY DEF AddrOf
<1>4. RowsOf(f) # {} =>
        /\ LatestRow(f) \in RowsOf(f) /\ LatestRow(f) \in fmeta
        /\ AddrOf(f) = LatestRow(f).addr /\ AddrOf(f) # NoAddr
  BY <1>2, AddrOfFeature DEF AddrOf
<1>5. RowsOf(f) # {} => AddrOf(f) \in Used
  BY <1>2, <1>4 DEF NoDanglingAddr
<1> QED
  BY <1>1, <1>3, <1>4, <1>5

\* What the caller means, key by key.
LEMMA WrittenAfter ==
  ASSUME NEW c, Step(c), NEW f \in Features, NEW k \in Keys
  PROVE  written'[f][k] = IF f \notin c.feats THEN written[f][k]
                          ELSE IF k \in c.keys THEN calls + 1
                          ELSE IF Replaces(c, k) THEN Null ELSE written[f][k]
<1> AddWritten(c)
  BY RulesHold
<1> QED
  BY DEF AddWritten

\* And the cells of a table that exists.
LEMMA CellsAfter ==
  ASSUME NEW c, Step(c), NEW a \in Used, NEW f \in Features, NEW k \in Keys
  PROVE  cells'[a][f][k] = IF f \in Columns(c, a) /\ k \in Overwritten(c, a)
                           THEN Input(c, k) ELSE cells[a][f][k]
<1> cells'[a] = UpdatedCells(c, a)
  BY AddTables
<1> QED
  BY DEF UpdatedCells

\* Past last_updated a table has nothing.
LEMMA NothingBeyond ==
  ASSUME IInv, RInv, NEW a \in Used, NEW f \in Features, NEW k \in Keys,
         k \notin index \/ ~ (Time(k) <= LastUpdated(a))
  PROVE  k \notin KeysOf(rows[a]) /\ cells[a][f][k] = Null
BY DEF RInv, RowsReach, NoStrays

\* An append adds the input, and nulls where there was nothing.
LEMMA AppendMirrors ==
  ASSUME NEW c, Step(c), NEW f \in c.feats, AddrOf(f) \in Appends(c), NEW k \in Keys
  PROVE  written'[f][k] = cells'[AddrOf(f)][f][k]
<1> DEFINE a == AddrOf(f)
<1>1. /\ c \in Call /\ Basics /\ c.feats \subseteq Features /\ IInv /\ RInv
      /\ Time(k) \in Nat /\ c.lo \in Nat
  BY RulesHold, CallFacts DEF Step
<1>2. RowsOf(f) # {}
  BY DEF Appends, Old, AddrOf
<1>3. a \in Used /\ written[f][k] = cells[a][f][k] /\ f \in Features
  BY <1>1, <1>2, FeatureTable
<1>4. /\ a \notin Merges(c) /\ a \notin Copies(c)
      /\ AllNew(c) \/ ~ (c.lo <= LastUpdated(a))
  BY <1>1, Branches
<1>5. Overwritten(c, a) = AppendedKeys(c, a) /\ f \in Columns(c, a)
  BY <1>4 DEF Overwritten, Columns, Group
<1>6. LastUpdated(a) \in Nat
  BY <1>3, HorizonAfter
<1>7. cells'[a][f][k] = IF k \in AppendedKeys(c, a) THEN Input(c, k) ELSE cells[a][f][k]
  BY <1>3, <1>5, CellsAfter
<1>8. written'[f][k] = IF k \in c.keys THEN calls + 1
                       ELSE IF Replaces(c, k) THEN Null ELSE written[f][k]
  BY <1>3, WrittenAfter
<1> HIDE DEF a
<1>9. CASE k \in c.keys
  <2>1. k \in AppendedKeys(c, a)
    BY <1>9 DEF AppendedKeys
  <2> QED
    BY <1>7, <1>8, <1>9, <2>1, InputIs DEF a
<1>10. CASE k \in AppendedKeys(c, a) /\ k \notin c.keys
  <2>1. ~ (Time(k) <= LastUpdated(a))
    BY <1>1, <1>6, <1>10 DEF AppendedKeys
  <2>2. cells[a][f][k] = Null
    BY <1>1, <1>3, <2>1, NothingBeyond
  <2> QED
    BY <1>3, <1>7, <1>8, <1>10, <2>2, InputIs DEF a
<1>11. CASE k \notin AppendedKeys(c, a) /\ k \notin c.keys
  <2>1. CASE ~ Replaces(c, k)
    BY <1>3, <1>7, <1>8, <1>11, <2>1 DEF a
  <2>2. CASE Replaces(c, k)
    <3>1. ~ (Time(k) <= LastUpdated(a))
      BY <1>1, <1>4, <1>6, <2>2 DEF Replaces
    <3>2. cells[a][f][k] = Null
      BY <1>1, <1>3, <3>1, NothingBeyond
    <3> QED
      BY <1>7, <1>8, <1>11, <2>2, <3>2 DEF a
  <2> QED
    BY <2>1, <2>2
<1> QED
  BY <1>9, <1>10, <1>11

\* A merge replaces what is in the input's range and keeps the rest.
LEMMA MergeMirrors ==
  ASSUME NEW c, Step(c), NEW f \in c.feats, AddrOf(f) \in Merges(c), NEW k \in Keys
  PROVE  written'[f][k] = cells'[AddrOf(f)][f][k]
<1> DEFINE a == AddrOf(f)
<1>1. /\ c \in Call /\ Basics /\ c.feats \subseteq Features /\ IInv /\ RInv
      /\ Time(k) \in Nat /\ c.lo \in Nat /\ c.hi \in Nat
  BY RulesHold, CallFacts DEF Step
<1>2. RowsOf(f) # {}
  BY DEF Merges, Old, AddrOf
<1>3. a \in Used /\ written[f][k] = cells[a][f][k] /\ f \in Features
  BY <1>1, <1>2, FeatureTable
<1>4. a \notin Copies(c) /\ a \notin Appends(c) /\ ~ AllNew(c)
  BY <1>1, Branches
<1>5. Overwritten(c, a) = MergedKeys(c) /\ f \in Columns(c, a)
  BY <1>4 DEF Overwritten, Columns, Group
<1>6. LastUpdated(a) \in Nat /\ LastUpdated(a) <= c.hi
  BY <1>3, HorizonAfter
<1>7. cells'[a][f][k] = IF k \in MergedKeys(c) THEN Input(c, k) ELSE cells[a][f][k]
  BY <1>3, <1>5, CellsAfter
<1>8. written'[f][k] = IF k \in c.keys THEN calls + 1
                       ELSE IF Replaces(c, k) THEN Null ELSE written[f][k]
  BY <1>3, WrittenAfter
<1> HIDE DEF a
<1>9. CASE k \in c.keys
  <2>1. k \in MergedKeys(c)
    BY <1>9 DEF MergedKeys
  <2> QED
    BY <1>7, <1>8, <1>9, <2>1, InputIs DEF a
<1>10. CASE k \in MergedKeys(c) /\ k \notin c.keys
  <2>1. Replaces(c, k)
    BY <1>1, <1>4, <1>10 DEF MergedKeys, Missing, Replaces
  <2> QED
    BY <1>7, <1>8, <1>10, <2>1, InputIs DEF a
<1>11. CASE k \notin MergedKeys(c) /\ k \notin c.keys
  <2>1. CASE ~ Replaces(c, k)
    BY <1>3, <1>7, <1>8, <1>11, <2>1 DEF a
  <2>2. CASE Replaces(c, k)
    <3>1. k \notin index
      BY <1>1, <1>11, <2>2 DEF MergedKeys, Missing, Replaces
    <3>2. cells[a][f][k] = Null
      BY <1>1, <1>3, <3>1, NothingBeyond
    <3> QED
      BY <1>7, <1>8, <1>11, <2>2, <3>2 DEF a
  <2> QED
    BY <2>1, <2>2
<1> QED
  BY <1>9, <1>10, <1>11

\* A copy keeps what is before the input, and there is no value after it; a new
\* table has the input.
LEMMA FreshMirrors ==
  ASSUME NEW c, Step(c), NEW f \in c.feats, AddrOf(f) \in Fresh(c), NEW k \in Keys
  PROVE  written'[f][k] = cells'[Home(c, AddrOf(f))][f][k]
<1> DEFINE g == AddrOf(f)
<1>1. /\ c \in Call /\ Basics /\ c.feats \subseteq Features /\ RInv /\ f \in Features
      /\ KeepsTail(c) /\ c.lo \in Nat /\ c.hi \in Nat /\ Time(k) \in Nat
  BY RulesHold, CallFacts DEF Step
<1>2. written'[f][k] = IF k \in c.keys THEN calls + 1
                       ELSE IF Replaces(c, k) THEN Null ELSE written[f][k]
  BY <1>1, WrittenAfter
<1>3. Home(c, g) \in Homes(c) \ Used
  BY CreatedTable
<1>4. cells'[Home(c, g)] = CreatedCells(c, Home(c, g))
  BY <1>3, AddTables
<1>5. CASE g \in Copies(c)
  <2>1. cells'[Home(c, g)] = CopiedCells(c, g)
    BY <1>4, <1>5, CreatedTable
  <2>2. cells'[Home(c, g)][f][k] = IF Time(k) < c.lo THEN cells[g][f][k] ELSE Input(c, k)
    BY <1>1, <2>1 DEF CopiedCells, Group
  <2>3. ~ AllNew(c) /\ RowsOf(f) # {}
    BY <1>1, <1>5, Branches DEF Copies, Old, AddrOf
  <2>4. written[f][k] = cells[g][f][k]
    BY <1>1, <2>3, FeatureTable
  <2>5. k \in c.keys => ~ (Time(k) < c.lo)
    BY <1>1, CallFacts
  <2>6. c.hi < Time(k) => cells[g][f][k] = Null
    <3>1. g \in Used /\ f \in Group(c, g)
      BY <1>1, <2>3, FeatureTable DEF Group
    <3>2. k \notin KeysOf(rows[g]) => cells[g][f][k] = Null
      BY <1>1, <3>1 DEF RInv, NoStrays
    <3> QED
      BY <1>1, <1>5, <3>1, <3>2 DEF KeepsTail
  <2>7. CASE Time(k) < c.lo
    BY <1>1, <1>2, <2>2, <2>4, <2>5, <2>7 DEF Replaces
  <2>8. CASE ~ (Time(k) < c.lo)
    <3>1. cells'[Home(c, g)][f][k] = Input(c, k)
      BY <2>2, <2>8
    <3>2. k \in c.keys \/ Replaces(c, k) \/ written[f][k] = Null
      BY <1>1, <2>3, <2>4, <2>6, <2>8 DEF Replaces
    <3> QED
      BY <1>2, <3>1, <3>2, InputIs
  <2> QED
    BY <2>7, <2>8
<1>6. CASE g \notin Copies(c)
  <2>1. /\ g = NoAddr
        /\ cells'[Home(c, g)] =
             [h \in Features |-> [j \in Keys |-> Pick(c.feats, h, Input(c, j), Null)]]
    BY <1>4, <1>6, CreatedTable
  <2>2. cells'[Home(c, g)][f][k] = Input(c, k)
    BY <1>1, <2>1 DEF Pick
  <2>3. RowsOf(f) = {}
    BY <1>1, <2>1, FeatureTable
  <2>4. written[f][k] = Null
    BY <1>1, <2>3, FeatureTable
  <2> QED
    BY <1>2, <2>2, <2>4, InputIs
<1> QED
  BY <1>5, <1>6

\* A latest table that the call did not update in place is new, or was there.
LEMMA TargetCases ==
  ASSUME NEW c, Step(c), NEW g \in Targets(c) \ Appends(c)
  PROVE  \/ g \in Merges(c) /\ Home(c, g) = g
         \/ g \in Fresh(c)
<1>1. c \in Call
  BY RulesHold
<1>2. /\ Merges(c) \cup Copies(c) \cup Appends(c) = Old(c)
      /\ Merges(c) \cap Copies(c) = {}
  BY <1>1, Branches
<1>3. CASE g = NoAddr
  BY <1>3 DEF Fresh
<1>4. CASE g # NoAddr
  <2>1. g \in Merges(c) \cup Copies(c)
    BY <1>2, <1>4 DEF Old
  <2> QED
    BY <1>2, <1>4, <2>1 DEF Fresh, Home
<1> QED
  BY <1>3, <1>4

\* What the caller means and what the latest tables hold stay the same.
LEMMA AddKeepsMirrors ==
  ASSUME NEW c, Step(c)
  PROVE  Mirrors'
<1>1. /\ c \in Call /\ Basics /\ RInv
  BY RulesHold DEF Step
<1>2. ASSUME NEW f \in Features, NEW k \in Keys
      PROVE  written'[f][k] = IF RowsOf(f)' = {} THEN Null ELSE cells'[AddrOf(f)'][f][k]
  <2>1. CASE RowsOf(f)' = RowsOf(f) /\ AddrOf(f)' = AddrOf(f) /\ f \notin c.feats
    <3>1. written'[f][k] = written[f][k]
      BY <2>1, WrittenAfter
    <3>2. CASE RowsOf(f) = {}
      BY <1>1, <2>1, <3>1, <3>2, FeatureTable
    <3>3. CASE RowsOf(f) # {}
      <4>1. AddrOf(f) \in Used /\ written[f][k] = cells[AddrOf(f)][f][k]
        BY <1>1, <3>3, FeatureTable
      <4>2. f \notin Columns(c, AddrOf(f))
        BY <2>1 DEF Columns, Group
      <4>3. cells'[AddrOf(f)][f][k] = cells[AddrOf(f)][f][k]
        BY <4>1, <4>2, CellsAfter
      <4> QED
        BY <2>1, <3>1, <3>3, <4>1, <4>3
    <3> QED
      BY <3>2, <3>3
  <2>2. CASE /\ RowsOf(f)' = RowsOf(f) /\ AddrOf(f)' = AddrOf(f)
             /\ f \in c.feats /\ AddrOf(f) \in Appends(c)
    <3>1. RowsOf(f) # {}
      BY <2>2 DEF Appends, Old, AddrOf
    <3> QED
      BY <2>2, <3>1, AppendMirrors
  <2>3. CASE /\ f \in c.feats /\ AddrOf(f) \in Targets(c) \ Appends(c)
             /\ RowsOf(f)' # {} /\ AddrOf(f)' = Home(c, AddrOf(f))
    <3>1. CASE AddrOf(f) \in Merges(c) /\ Home(c, AddrOf(f)) = AddrOf(f)
      BY <2>3, <3>1, MergeMirrors
    <3>2. CASE AddrOf(f) \in Fresh(c)
      BY <2>3, <3>2, FreshMirrors
    <3> QED
      BY <2>3, <3>1, <3>2, TargetCases
  <2> QED
    BY <2>1, <2>2, <2>3, LatestTable
<1> QED
  BY <1>2 DEF Mirrors

\* A table's new versions are as-of if its old ones are.
LEMMA AddKeepsAsOfApart ==
  ASSUME NEW c, Step(c)
  PROVE  AsOfApart'
<1>1. /\ c \in Call /\ Basics /\ RInv /\ calls < MaxCalls /\ KeepsKind(c)
      /\ AsOfApart /\ NoDanglingAddr /\ c.feats \subseteq Features
  BY RulesHold, CallFacts DEF Step, RInv, Basics
<1>2. fmeta' = fmeta \cup FeatureRowsAfter(c)
  BY AddTables
<1>3. \A r \in FeatureRowsAfter(c) :
        r.signal = c.signal /\ r.feature \in c.feats /\ r.addr = Home(c, AddrOf(r.feature))
  BY <1>1, NewFeatureRows
<1>4. ASSUME NEW r \in FeatureRowsAfter(c), NEW s \in fmeta, r.addr = s.addr
      PROVE  r.signal = "as_of_feature" <=> s.signal = "as_of_feature"
  <2> DEFINE f == r.feature
             g == AddrOf(f)
  <2>1. f \in c.feats /\ g \in Targets(c) /\ s.addr \in Used
    BY <1>1, <1>3 DEF NoDanglingAddr, Targets
  <2>2. g \notin Fresh(c)
    BY <1>1, <1>3, <1>4, <2>1, HomeFacts
  <2>3. Home(c, g) = g /\ g # NoAddr
    BY <2>1, <2>2 DEF Home, Fresh
  <2>4. LatestRow(f) \in fmeta /\ LatestRow(f) \in RowsOf(f) /\ LatestRow(f).addr = s.addr
    <3>1. RowsOf(f) # {}
      BY <2>3 DEF AddrOf
    <3> QED
      BY <1>1, <1>3, <1>4, <2>1, <2>3, <3>1, FeatureTable
  <2>5. LatestRow(f).signal = "as_of_feature" <=> s.signal = "as_of_feature"
    BY <1>1, <2>4 DEF AsOfApart
  <2>6. LatestRow(f).signal = "as_of_feature" <=> c.signal = "as_of_feature"
    BY <1>1, <2>1, <2>4 DEF KeepsKind
  <2> QED
    BY <1>3, <2>5, <2>6
<1> QED
  BY <1>1, <1>2, <1>3, <1>4 DEF AsOfApart

\* The rows that a call adds to an as-of table hold its own observations.
LEMMA AddKeepsObservations ==
  ASSUME NEW c, Step(c)
  PROVE  Observations'
<1>1. /\ c \in Call /\ Basics /\ RInv /\ KeepsKind(c) /\ NoAsOfPadding(c)
      /\ AsOfApart /\ Observations /\ c.feats \subseteq Features
      /\ c.keys \subseteq Keys /\ \A k \in c.keys : ~ (Time(k) < c.lo)
      /\ calls \in Nat
  <2>1. \A k \in c.keys : ~ (Time(k) < c.lo)
    BY RulesHold, CallFacts
  <2> QED
    BY <2>1, RulesHold, CallFacts DEF Step, RInv
<1>2. Merges(c) \cup Copies(c) \cup Appends(c) = Old(c) /\ Padded(c) \cap Old(c) = {}
  BY <1>1, Branches
<1>3. ASSUME NEW f \in c.feats, NEW r \in RowsOf(f), r.signal = "as_of_feature"
      PROVE  c.signal = "as_of_feature"
  BY <1>1, <1>3 DEF KeepsKind
\* Rows of a feature that is not in the input are not touched, ...
<1>4. ASSUME NEW f \in Features \ c.feats, RowsOf(f) # {},
             LatestRow(f).signal = "as_of_feature", NEW k \in KeysOf(rows'[AddrOf(f)])
      PROVE  cells'[AddrOf(f)][f][k] # Null
  <2> DEFINE a == AddrOf(f)
  <2>1. a \in Used /\ LatestRow(f) \in fmeta /\ LatestRow(f).addr = a
    BY <1>1, <1>4, FeatureTable
  <2>2. a \notin Padded(c)
    BY <1>4, <2>1 DEF Padded, Dense, Unpadded, DenseSignals
  <2>3. Overwritten(c, a) \subseteq KeysOf(rows[a])
    <3>1. CASE a \in Old(c)
      <4>1. PICK h \in c.feats : AddrOf(h) = a
        BY <3>1 DEF Old, Targets
      <4>2. RowsOf(h) # {}
        BY <3>1, <4>1 DEF Old, AddrOf
      <4>3. LatestRow(h) \in RowsOf(h) /\ LatestRow(h) \in fmeta /\ LatestRow(h).addr = a
        BY <1>1, <4>1, <4>2, FeatureTable
      <4>4. LatestRow(h).signal = "as_of_feature"
        BY <1>1, <1>4, <2>1, <4>3 DEF AsOfApart
      <4>5. c.signal = "as_of_feature"
        BY <1>3, <4>3, <4>4
      <4>6. \/ Overwritten(c, a) \subseteq KeysOf(rows[a])
            \/ \A e \in Features : AddrOf(e) = a => e \in c.feats
        BY <1>1, <3>1, <4>5 DEF NoAsOfPadding
      <4> QED
        BY <1>4, <4>6
    <3>2. CASE a \notin Old(c)
      BY <1>2, <3>2 DEF Overwritten
    <3> QED
      BY <3>1, <3>2
  <2>4. KeysOf(rows'[a]) = KeysOf(rows[a])
    BY <2>1, <2>2, <2>3, UpdatedKeys
  <2>5. k \in KeysOf(rows[a]) /\ k \in Keys
    BY <1>4, <2>4 DEF KeysOf
  <2>6. f \notin Columns(c, a)
    BY <1>4 DEF Columns, Group
  <2>7. cells'[a][f][k] = cells[a][f][k]
    BY <1>4, <2>1, <2>5, <2>6, CellsAfter
  <2> QED
    BY <1>1, <1>4, <2>5, <2>7 DEF Observations
\* ... an update in place adds the input's keys only, ...
<1>5. ASSUME NEW f \in c.feats, AddrOf(f) \in Merges(c) \cup Appends(c),
             LatestRow(f).signal = "as_of_feature", NEW k \in KeysOf(rows'[AddrOf(f)])
      PROVE  cells'[AddrOf(f)][f][k] # Null
  <2> DEFINE a == AddrOf(f)
  <2>1. RowsOf(f) # {} /\ a \in Old(c)
    BY <1>2, <1>5 DEF Old, AddrOf
  <2>2. a \in Used /\ LatestRow(f) \in RowsOf(f) /\ f \in Features
    BY <1>1, <2>1, FeatureTable
  <2>3. Overwritten(c, a) = c.keys
    BY <1>1, <1>3, <1>5, <2>2 DEF NoAsOfPadding
  <2>4. KeysOf(rows'[a]) = KeysOf(rows[a]) \cup c.keys
    BY <1>2, <2>1, <2>2, <2>3, UpdatedKeys
  <2>5. CASE k \in c.keys
    <3>1. k \in Keys /\ written'[f][k] # Null
      <4>1. k \in Keys
        BY <1>1, <2>5
      <4>2. written'[f][k] = calls + 1
        BY <2>2, <2>5, <4>1, WrittenAfter
      <4> QED
        BY <1>1, <4>1, <4>2 DEF Null
    <3>2. written'[f][k] = cells'[a][f][k]
      BY <1>5, <3>1, AppendMirrors, MergeMirrors
    <3> QED
      BY <3>1, <3>2
  <2>6. CASE k \notin c.keys
    <3>1. k \in KeysOf(rows[a]) /\ k \in Keys
      BY <1>5, <2>4, <2>6 DEF KeysOf
    <3>2. cells'[a][f][k] = cells[a][f][k]
      BY <2>2, <2>3, <2>6, <3>1, CellsAfter
    <3> QED
      BY <1>1, <1>5, <2>1, <2>2, <3>1, <3>2 DEF Observations
  <2> QED
    BY <2>5, <2>6
\* ... a copy keeps observations and adds the input, and a new table is the input.
<1>6. ASSUME NEW f \in c.feats, AddrOf(f) \in Fresh(c), c.signal = "as_of_feature",
             RowsOf(f) # {} => LatestRow(f).signal = "as_of_feature",
             NEW k \in KeysOf(rows'[Home(c, AddrOf(f))])
      PROVE  cells'[Home(c, AddrOf(f))][f][k] # Null
  <2> DEFINE g == AddrOf(f)
             a == Home(c, g)
  <2>1. a \in Homes(c) \ Used /\ k \in Keys /\ f \in Features
    BY <1>1, <1>6, CreatedTable DEF KeysOf
  <2>2. rows'[a] = CreatedRows(c, a) /\ cells'[a] = CreatedCells(c, a)
    BY <2>1, AddTables
  <2>3. CASE g \in Copies(c)
    <3>1. rows'[a] = CopiedRows(c, g) /\ cells'[a] = CopiedCells(c, g)
      BY <1>6, <2>2, <2>3, CreatedTable
    <3>2. CopyPadding(c, g) = {}
      BY <1>6 DEF CopyPadding, DenseSignals
    <3>3. k \in c.keys \/ (k \in KeysOf(rows[g]) /\ Time(k) < c.lo)
      BY <1>6, <2>3, <3>1, <3>2, CopiedKeys
    <3>4. cells'[a][f][k] = IF Time(k) < c.lo THEN cells[g][f][k] ELSE Input(c, k)
      BY <2>1, <3>1 DEF CopiedCells, Group
    <3>5. RowsOf(f) # {}
      BY <2>3 DEF Copies, Old, AddrOf
    <3>6. \A j \in KeysOf(rows[g]) : cells[g][f][j] # Null
      BY <1>1, <1>6, <2>1, <3>5 DEF Observations
    <3> QED
      BY <1>1, <3>3, <3>4, <3>6, InputIs
  <2>4. CASE g \notin Copies(c)
    <3>1. /\ NoAddr \in Targets(c)
          /\ rows'[a] = OneRowEach(CreatedKeys(c))
          /\ cells'[a] =
               [h \in Features |-> [j \in Keys |-> Pick(c.feats, h, Input(c, j), Null)]]
      BY <1>6, <2>2, <2>4, CreatedTable
    <3>2. Missing(c) = {}
      BY <1>1, <1>6, <3>1 DEF NoAsOfPadding
    <3>3. k \in c.keys
      <4>1. k \in CreatedKeys(c)
        BY <1>6, <3>1, CreatedReaches
      <4> QED
        BY <3>2, <4>1 DEF CreatedKeys
    <3> QED
      BY <2>1, <3>1, <3>3, InputIs DEF Pick
  <2> QED
    BY <2>3, <2>4
<1>7. ASSUME NEW f \in Features, RowsOf(f)' # {}, LatestRow(f)'.signal = "as_of_feature",
             NEW k \in KeysOf(rows'[AddrOf(f)'])
      PROVE  cells'[AddrOf(f)'][f][k] # Null
  <2>1. CASE /\ RowsOf(f)' = RowsOf(f) /\ AddrOf(f)' = AddrOf(f)
             /\ LatestRow(f)' = LatestRow(f)
             /\ f \notin c.feats \/ AddrOf(f) \in Appends(c)
    <3>1. CASE f \notin c.feats
      BY <1>4, <1>7, <2>1, <3>1
    <3>2. CASE f \in c.feats
      BY <1>5, <1>7, <2>1, <3>2
    <3> QED
      BY <3>1, <3>2
  <2>2. CASE /\ f \in c.feats /\ AddrOf(f) \in Targets(c) \ Appends(c)
             /\ AddrOf(f)' = Home(c, AddrOf(f)) /\ LatestRow(f)'.signal = c.signal
    <3>1. c.signal = "as_of_feature"
      BY <1>7, <2>2
    <3>2. RowsOf(f) # {} => LatestRow(f).signal = "as_of_feature"
      <4>1. RowsOf(f) # {} => LatestRow(f) \in RowsOf(f)
        BY <1>1, FeatureTable
      <4> QED
        BY <1>1, <2>2, <3>1, <4>1 DEF KeepsKind
    <3>3. CASE AddrOf(f) \in Merges(c) /\ Home(c, AddrOf(f)) = AddrOf(f)
      <4>1. RowsOf(f) # {}
        BY <3>3 DEF Merges, Old, AddrOf
      <4> QED
        BY <1>5, <1>7, <2>2, <3>2, <3>3, <4>1
    <3>4. CASE AddrOf(f) \in Fresh(c)
      BY <1>6, <1>7, <2>2, <3>1, <3>2, <3>4
    <3> QED
      BY <2>2, <3>3, <3>4, TargetCases
  <2> QED
    BY <2>1, <2>2, LatestTable
<1> QED
  BY <1>7 DEF Observations, KeysOf

\* Every call keeps the values.
LEMMA AddKeepsRInv ==
  ASSUME NEW c, Step(c)
  PROVE  RInv'
BY AddKeepsTables, AddKeepsCells, AddKeepsMirrors, AddKeepsAsOfApart, AddKeepsObservations
   DEF RInv

-----------------------------------------------------------------------------
(* Reads of a version, and consolidation, which stores them. *)

\* A read of a dense or sparse version shows the cells of its table.
CellReads ==
  \A r \in fmeta : r.signal # "as_of_feature" =>
    /\ r.addr \in Used
    /\ \A k \in index : Read(r, Everything, k) = cells[r.addr][r.feature][k]

\* Dense ones by position, of whatever version.
LEMMA CellReadsHold ==
  ASSUME IsFiniteSet(Keys), PrimaryLeads
  PROVE  IInv /\ RInv => CellReads
<1> SUFFICES ASSUME IInv, RInv, NEW r \in fmeta, r.signal # "as_of_feature"
             PROVE  /\ r.addr \in Used
                    /\ \A k \in index :
                         Read(r, Everything, k) = cells[r.addr][r.feature][k]
  BY DEF CellReads
<1>1. TypeOK /\ TablesAligned /\ r.addr \in Used /\ r.feature \in Features
  BY CoversIsAligned DEF IInv, Basics, NoDanglingAddr, TypeOK, FeatureRow
<1>2. SUFFICES ASSUME NEW k \in index
               PROVE  Read(r, Everything, k) = cells[r.addr][r.feature][k]
  BY <1>1
<1>3. k \in Keys /\ k \in Within(index, Everything)
  <2>1. k \in Keys
    BY <1>1 DEF TypeOK
  <2> QED
    BY <2>1, EverythingCovers DEF Within
<1>4. k \notin KeysOf(rows[r.addr]) => cells[r.addr][r.feature][k] = Null
  BY <1>1, <1>3 DEF RInv, NoStrays
<1>5. CASE r.signal = "sparse_feature"
  BY <1>4, <1>5 DEF Read, SparseRead, Pick
<1>6. CASE r.signal # "sparse_feature"
  <2>1. r.signal \in DenseSignals
    BY <1>1, <1>6, SignalsAssumption DEF TypeOK, FeatureRow, AllSignals, DenseSignals
  <2>2. r.addr \in Dense
    BY <1>1, <2>1 DEF Dense, Unpadded, IInv, Uniform
  <2>3. Aligned(r.addr)
    BY <2>2, <1>1 DEF TablesAligned
  <2>4. DenseRead(r.addr, r.feature, Everything, k) =
          IF k \in KeysOf(rows[r.addr]) THEN cells[r.addr][r.feature][k] ELSE Null
    BY <1>1, <1>3, <2>3, PositionsMatch
  <2> QED
    BY <1>4, <1>6, <2>4 DEF Read
<1> QED
  BY <1>5, <1>6

\* A consolidation as ReadNext makes it, to its end or stopped before.
Consolidates(fs, hi) ==
  /\ calls < MaxCalls /\ fs \in SUBSET Features /\ hi \in Times
  /\ StoreConsolidated(fs, hi) /\ SpansIndex(fs)
  /\ ConsolidateCells(fs) /\ UNCHANGED written
  /\ fmeta' = fmeta \/ fmeta' = fmeta \cup ConsolidatedRows(fs)

\* The lake after it: one table more, with the index and what reads show.
LEMMA ConsolidatedTables ==
  ASSUME IInv, RInv, NEW fs, NEW hi, Consolidates(fs, hi)
  PROVE  /\ NewAddr(fs) \notin Used
         /\ Used' = Used \cup {NewAddr(fs)} /\ DOMAIN cells' = Used'
         /\ \A a \in Used :
              rows'[a] = rows[a] /\ tmeta'[a] = tmeta[a] /\ cells'[a] = cells[a]
         /\ rows'[NewAddr(fs)] = OneRowEach(index)
         /\ tmeta'[NewAddr(fs)] = <<hi>>
         /\ cells'[NewAddr(fs)] =
              [f \in Features |-> [k \in Keys |->
                 IF f \in fs /\ k \in index THEN Read(LatestRow(f), Everything, k) ELSE Null]]
         /\ index' = index
<1> DEFINE n == NewAddr(fs)
<1>1. n \notin Used
  <2>1. n[1] = calls + 1 /\ calls \in Nat
    BY MaxCallsAssumption DEF NewAddr, IInv, Basics, TypeOK
  <2>2. \A a \in Used : a[1] <= calls
    BY DEF IInv, Basics, Young
  <2> HIDE DEF n
  <2>3. ~ (n[1] <= calls)
    BY <2>1
  <2> QED
    BY <2>2, <2>3
<1>2. /\ rows' = [a \in Used \cup {n} |-> IF a \in Used THEN rows[a] ELSE OneRowEach(index)]
      /\ tmeta' = [a \in Used \cup {n} |-> IF a \in Used THEN tmeta[a] ELSE <<hi>>]
      /\ index' = index
  BY DEF Consolidates, StoreConsolidated
<1>3. cells' = [a \in Used \cup {n} |->
                  IF a \in Used THEN cells[a]
                  ELSE [f \in Features |-> [k \in Keys |->
                          IF f \in fs /\ k \in index
                          THEN Read(LatestRow(f), Everything, k) ELSE Null]]]
  BY DEF Consolidates, ConsolidateCells
<1>4. tmeta'[n] = <<hi>> /\ Used' = Used \cup {n}
  <2> HIDE DEF n
  <2> QED
    BY <1>1, <1>2 DEF Used
<1> HIDE DEF n
<1>5. /\ DOMAIN cells' = Used'
      /\ \A a \in Used : rows'[a] = rows[a] /\ tmeta'[a] = tmeta[a] /\ cells'[a] = cells[a]
      /\ rows'[n] = OneRowEach(index)
      /\ cells'[n] = [f \in Features |-> [k \in Keys |->
                        IF f \in fs /\ k \in index
                        THEN Read(LatestRow(f), Everything, k) ELSE Null]]
  BY <1>1, <1>2, <1>3, <1>4
<1> QED
  BY <1>1, <1>2, <1>4, <1>5 DEF n

\* What it stores is what was written.
LEMMA ConsolidatedValues ==
  ASSUME IsFiniteSet(Keys), PrimaryLeads, IInv, RInv, NEW fs, NEW hi, Consolidates(fs, hi),
         NEW f \in Features, NEW k \in Keys
  PROVE  /\ cells'[NewAddr(fs)][f][k] = IF f \in fs THEN written[f][k] ELSE Null
         /\ k \notin index => cells'[NewAddr(fs)][f][k] = Null
<1>1. cells'[NewAddr(fs)][f][k] =
        IF f \in fs /\ k \in index THEN Read(LatestRow(f), Everything, k) ELSE Null
  <2>1. cells'[NewAddr(fs)] =
          [h \in Features |-> [j \in Keys |->
             IF h \in fs /\ j \in index THEN Read(LatestRow(h), Everything, j) ELSE Null]]
    BY ConsolidatedTables
  <2> QED
    BY <2>1
<1>2. CASE f \in fs
  <2>1. RowsOf(f) # {} /\ LatestRow(f).signal \in DenseSignals /\ Basics
    BY <1>2 DEF Consolidates, StoreConsolidated, IInv
  <2>2. /\ AddrOf(f) \in Used /\ LatestRow(f) \in RowsOf(f) /\ LatestRow(f) \in fmeta
        /\ LatestRow(f).addr = AddrOf(f)
        /\ written[f][k] = cells[AddrOf(f)][f][k]
    BY <2>1, FeatureTable
  <2>3. LatestRow(f).feature = f /\ LatestRow(f).signal # "as_of_feature"
    BY <2>1, <2>2 DEF RowsOf, DenseSignals
  <2>4. k \in index => Read(LatestRow(f), Everything, k) = written[f][k]
    BY <2>2, <2>3, CellReadsHold DEF CellReads
  <2>5. k \notin index => written[f][k] = Null
    BY <2>2, NothingBeyond
  <2> QED
    BY <1>1, <1>2, <2>4, <2>5
<1>3. CASE f \notin fs
  BY <1>1, <1>3
<1> QED
  BY <1>2, <1>3

\* The features it moves are in the new table, and the others where they were.
LEMMA ConsolidatedLatest ==
  ASSUME IInv, IInv', RInv, NEW fs, NEW hi, Consolidates(fs, hi), NEW f \in Features
  PROVE  \/ /\ RowsOf(f)' = RowsOf(f) /\ AddrOf(f)' = AddrOf(f)
            /\ LatestRow(f)' = LatestRow(f)
         \/ /\ f \in fs /\ RowsOf(f)' # {} /\ AddrOf(f)' = NewAddr(fs)
            /\ LatestRow(f)'.signal \in DenseSignals
<1>1. Basics /\ TypeOK /\ TypeOK' /\ fs \in SUBSET Features
      /\ \A h \in fs : RowsOf(h) # {} /\ LatestRow(h).signal \in DenseSignals
  BY DEF IInv, Basics, Consolidates, StoreConsolidated
<1>2. CASE fmeta' = fmeta
  BY <1>2 DEF RowsOf, AddrOf, LatestRow
<1>3. CASE fmeta' = fmeta \cup ConsolidatedRows(fs)
  <2> DEFINE R == ConsolidatedRows(fs)
  <2>1. \A r \in R : /\ r.feature \in fs
                     /\ r = [LatestRow(r.feature) EXCEPT !.version = @ + 1, !.addr = NewAddr(fs)]
                     /\ \A s \in RowsOf(r.feature) : s.version < r.version
    BY <1>1, ConsolidatedVersions
  <2>2. \A h \in fs : LatestRow(h) \in FeatureRow
    <3>1. \A h \in fs : LatestRow(h) \in fmeta
      BY <1>1, FeatureTable
    <3> QED
      BY <1>1, <3>1 DEF TypeOK
  <2>3. \A r \in R : r.addr = NewAddr(fs) /\ r.signal \in DenseSignals
    BY <1>1, <2>1, <2>2 DEF FeatureRow
  <2> HIDE DEF R
  <2>4. \/ /\ \A r \in R : r.feature # f
           /\ RowsOf(f)' = RowsOf(f)
           /\ AddrOf(f)' = AddrOf(f)
           /\ LatestRow(f)' = LatestRow(f)
        \/ /\ RowsOf(f)' # {}
           /\ LatestRow(f)' \in R
           /\ LatestRow(f)'.feature = f
           /\ AddrOf(f)' = LatestRow(f)'.addr
    <3>1. fmeta' = fmeta \cup R
      BY <1>3 DEF R
    <3> QED
      BY <1>1, <2>1, <3>1, LatestAfter
  <2> QED
    BY <2>1, <2>3, <2>4
<1> QED
  BY <1>2, <1>3 DEF Consolidates

\* Consolidation keeps the values, finished or not.
LEMMA ConsolidateKeepsRInv ==
  ASSUME IsFiniteSet(Keys), PrimaryLeads, IInv, IInv', RInv, NEW fs, NEW hi,
         Consolidates(fs, hi)
  PROVE  RInv'
<1>0. PICK n : n = NewAddr(fs)
  OBVIOUS
<1>1. /\ n \notin Used
      /\ Used' = Used \cup {n} /\ DOMAIN cells' = Used'
      /\ \A a \in Used : rows'[a] = rows[a] /\ tmeta'[a] = tmeta[a] /\ cells'[a] = cells[a]
      /\ rows'[n] = OneRowEach(index) /\ tmeta'[n] = <<hi>>
      /\ index' = index /\ written' = written
  <2>1. written' = written
    BY DEF Consolidates
  <2> QED
    BY <1>0, <2>1, ConsolidatedTables
<1>2. /\ CellTypes /\ RowsReach /\ RowsOnce /\ NoStrays /\ Mirrors /\ AsOfApart
      /\ Observations /\ Basics /\ NoDanglingAddr /\ index \subseteq Keys
  BY DEF RInv, IInv, Basics, TypeOK
<1>3. \A f \in Features, k \in Keys :
        /\ cells'[n][f][k] = IF f \in fs THEN written[f][k] ELSE Null
        /\ k \notin index => cells'[n][f][k] = Null
  BY <1>0, ConsolidatedValues
<1>4. KeysOf(rows'[n]) = index /\ \A k \in Keys : rows'[n][k] <= 1
  BY <1>1, <1>2 DEF OneRowEach, KeysOf
<1>5. CellTypes'
  <2>1. cells'[n] \in [Features -> [Keys -> Nat]]
    <3>1. \A f \in Features, k \in Keys : cells'[n][f][k] \in Nat
      BY <1>2, <1>3 DEF CellTypes, Null
    <3> DEFINE value(f, k) == IF f \in fs /\ k \in index
                              THEN Read(LatestRow(f), Everything, k) ELSE Null
    <3>2. cells'[n] = [f \in Features |-> [k \in Keys |-> value(f, k)]]
      BY <1>0, ConsolidatedTables
    <3> HIDE DEF value
    <3>3. \A f \in Features, k \in Keys : value(f, k) \in Nat
      BY <3>1, <3>2
    <3> QED
      BY <3>2, <3>3
  <2> QED
    BY <1>1, <1>2, <2>1 DEF CellTypes
<1>6. RowsReach'
  <2>1. \A k \in index : Time(k) <= hi
    <3>1. PICK a \in Sources(fs) : \A k \in index : Time(k) <= LastUpdated(a)
      BY DEF Consolidates, SpansIndex
    <3>2. LastUpdated(a) <= hi
      BY <3>1 DEF Consolidates, StoreConsolidated, MergedLastUpdated
    <3>3. a \in Used
      <4>1. PICK f \in fs : a = AddrOf(f)
        BY <3>1 DEF Sources
      <4>2. f \in Features /\ RowsOf(f) # {}
        BY <4>1 DEF Consolidates, StoreConsolidated
      <4> QED
        BY <1>2, <4>1, <4>2, FeatureTable
    <3>4. LastUpdated(a) \in Nat /\ hi \in Nat /\ \A k \in Keys : Time(k) \in Nat
      <4>1. Times \in SUBSET Nat /\ \A k \in Keys : Time(k) \in Nat
        BY KeysAssumption DEF Times, Time
      <4>2. LastUpdated(a) \in Nat
        BY <1>2, <3>3, LastUpdatedType DEF Basics
      <4> QED
        BY <4>1, <4>2 DEF Consolidates
    <3> QED
      BY <1>2, <3>1, <3>2, <3>4
  <2>2. \A a \in Used : LastUpdated(a)' = LastUpdated(a)
    BY <1>1 DEF LastUpdated
  <2>3. LastUpdated(n)' = hi
    BY <1>1 DEF LastUpdated
  <2>4. \A a \in Used' : \A k \in KeysOf(rows'[a]) : k \in index /\ Time(k) <= LastUpdated(a)'
    BY <1>1, <1>2, <1>4, <2>1, <2>2, <2>3 DEF RowsReach
  <2> QED
    BY <1>1, <2>4 DEF RowsReach, KeysOf
<1>7. RowsOnce'
  BY <1>1, <1>2, <1>4 DEF RowsOnce
<1>8. NoStrays'
  <2>1. \A a \in Used', f \in Features, k \in Keys :
          k \notin KeysOf(rows'[a]) => cells'[a][f][k] = Null
    BY <1>1, <1>2, <1>3, <1>4 DEF NoStrays
  <2> QED
    BY <2>1 DEF NoStrays, KeysOf
<1>9. Mirrors'
  <2>1. ASSUME NEW f \in Features, NEW k \in Keys
        PROVE  written'[f][k] = IF RowsOf(f)' = {} THEN Null ELSE cells'[AddrOf(f)'][f][k]
    <3>1. CASE RowsOf(f)' = RowsOf(f) /\ AddrOf(f)' = AddrOf(f)
      <4>1. RowsOf(f) # {} => AddrOf(f) \in Used
        BY <1>2, FeatureTable
      <4> QED
        BY <1>1, <1>2, <3>1, <4>1 DEF Mirrors
    <3>2. CASE f \in fs /\ RowsOf(f)' # {} /\ AddrOf(f)' = n
      BY <1>1, <1>3, <3>2
    <3> QED
      BY <3>1, <3>2, ConsolidatedLatest, <1>0
  <2> QED
    BY <2>1 DEF Mirrors
<1>10. AsOfApart'
  <2>1. CASE fmeta' = fmeta
    BY <1>2, <2>1 DEF AsOfApart
  <2>2. CASE fmeta' = fmeta \cup ConsolidatedRows(fs)
    <3>1. \A f \in fs : LatestRow(f).signal \in DenseSignals /\ LatestRow(f) \in FeatureRow
      <4>1. \A f \in fs : f \in Features /\ RowsOf(f) # {} /\ LatestRow(f).signal \in DenseSignals
        BY DEF Consolidates, StoreConsolidated
      <4>2. \A f \in fs : LatestRow(f) \in fmeta
        BY <1>2, <4>1, FeatureTable
      <4> QED
        BY <1>2, <4>1, <4>2 DEF Basics, TypeOK
    <3>2. \A r \in ConsolidatedRows(fs) : r.addr = n /\ r.signal # "as_of_feature"
      BY <1>0, <3>1 DEF ConsolidatedRows, FeatureRow, DenseSignals
    <3>3. \A s \in fmeta : s.addr # n
      BY <1>1, <1>2 DEF NoDanglingAddr
    <3> QED
      BY <1>2, <2>2, <3>2, <3>3 DEF AsOfApart
  <2> QED
    BY <2>1, <2>2 DEF Consolidates
<1>11. Observations'
  <2>1. ASSUME NEW f \in Features, RowsOf(f)' # {}, LatestRow(f)'.signal = "as_of_feature",
               NEW k \in KeysOf(rows'[AddrOf(f)'])
        PROVE  cells'[AddrOf(f)'][f][k] # Null
    <3>1. /\ RowsOf(f)' = RowsOf(f) /\ AddrOf(f)' = AddrOf(f)
          /\ LatestRow(f)' = LatestRow(f)
      BY <2>1, ConsolidatedLatest DEF DenseSignals
    <3>2. AddrOf(f) \in Used
      BY <1>2, <2>1, <3>1, FeatureTable
    <3> QED
      BY <1>1, <1>2, <2>1, <3>1, <3>2 DEF Observations
  <2> QED
    BY <2>1 DEF Observations, KeysOf
<1> QED
  BY <1>5, <1>6, <1>7, <1>8, <1>9, <1>10, <1>11 DEF RInv

\* No row, no value.
LEMMA RInvInit == ReadInit => RInv
<1> SUFFICES ASSUME ReadInit PROVE RInv
  OBVIOUS
<1>1. /\ fmeta = {} /\ Used = {} /\ DOMAIN cells = {} /\ index = {}
      /\ written = [f \in Features |-> [k \in Keys |-> Null]] /\ Null \in Nat
  BY DEF ReadInit, Init, Used, Null
<1>2. CellTypes /\ RowsReach /\ RowsOnce /\ NoStrays
  BY <1>1 DEF CellTypes, RowsReach, RowsOnce, NoStrays
<1>3. \A f : RowsOf(f) = {}
  BY <1>1 DEF RowsOf
<1>4. Mirrors /\ AsOfApart /\ Observations
  BY <1>1, <1>3 DEF Mirrors, AsOfApart, Observations
<1> QED
  BY <1>2, <1>4 DEF RInv

\* A step is a call, a consolidation, finished or not, or none of them.
LEMMA ReadSteps ==
  ASSUME Deviations = {}, IInv, IInv', RInv, [ReadNext]_readVars
  PROVE  \/ \E c \in Call : Step(c)
         \/ \E fs \in SUBSET Features, hi \in Times : Consolidates(fs, hi)
         \/ UNCHANGED <<index, rows, tmeta, fmeta, cells, written>>
<1>1. ASSUME NEW c \in Call, calls < MaxCalls,
             ReadPermitted(c), Add(c), AddCells(c), AddWritten(c)
      PROVE  Step(c)
  BY <1>1 DEF Step, Calls
<1>2. ASSUME NEW fs \in SUBSET Features, NEW hi \in Times, calls < MaxCalls,
             Consolidate(fs, hi) \/ ConsolidateStops(fs, hi), ConsolidatePermitted(fs),
             ConsolidateCells(fs), UNCHANGED written
      PROVE  Consolidates(fs, hi)
  BY <1>2 DEF Consolidates, Consolidate, ConsolidateStops, ConsolidatePermitted
<1>3. Raises /\ UNCHANGED <<cells, written>> =>
        UNCHANGED <<index, rows, tmeta, fmeta, cells, written>>
  BY DEF Raises
<1>4. UNCHANGED readVars => UNCHANGED <<index, rows, tmeta, fmeta, cells, written>>
  BY DEF readVars
<1> QED
  BY <1>1, <1>2, <1>3, <1>4 DEF ReadNext

\* Every step keeps the values.
LEMMA ReadStepKeeps ==
  ASSUME IsFiniteSet(Keys), PrimaryLeads, Deviations = {},
         IInv, IInv', RInv, [ReadNext]_readVars
  PROVE  RInv'
<1>1. ASSUME UNCHANGED <<index, rows, tmeta, fmeta, cells, written>> PROVE RInv'
  <2>1. CellTypes' /\ RowsReach' /\ RowsOnce' /\ NoStrays'
    <3>1. Used' = Used /\ \A a : LastUpdated(a)' = LastUpdated(a)
      BY <1>1 DEF Used, LastUpdated
    <3>2. CellTypes' /\ RowsOnce'
      BY <1>1, <3>1 DEF RInv, CellTypes, RowsOnce
    <3>3. RowsReach'
      BY <1>1, <3>1 DEF RInv, RowsReach, KeysOf
    <3>4. NoStrays'
      BY <1>1, <3>1 DEF RInv, NoStrays, KeysOf
    <3> QED
      BY <3>2, <3>3, <3>4
  <2>2. Mirrors' /\ AsOfApart' /\ Observations'
    <3>1. \A f : RowsOf(f)' = RowsOf(f) /\ LatestRow(f)' = LatestRow(f)
      BY <1>1 DEF RowsOf, LatestRow
    <3>2. \A f : AddrOf(f)' = AddrOf(f)
      BY <3>1 DEF AddrOf
    <3>3. Mirrors' /\ AsOfApart'
      BY <1>1, <3>1, <3>2 DEF RInv, Mirrors, AsOfApart
    <3>4. Observations'
      BY <1>1, <3>1, <3>2 DEF RInv, Observations, KeysOf
    <3> QED
      BY <3>3, <3>4
  <2> QED
    BY <2>1, <2>2 DEF RInv
<1> QED
  BY <1>1, ReadSteps, AddKeepsRInv, ConsolidateKeepsRInv

\* The invariant of keys and values.
LEMMA ReadInductive ==
  ASSUME IsFiniteSet(Keys), PrimaryLeads, Deviations = {}
  PROVE  ReadSpec => [](IInv /\ RInv)
<1>1. ReadSpec => []IInv
  BY ReadsRefine, Inductive, PTL
<1>2. IInv /\ IInv' /\ RInv /\ [ReadNext]_readVars => RInv'
  BY ReadStepKeeps
<1> QED
  BY <1>1, <1>2, RInvInit, PTL DEF ReadSpec

-----------------------------------------------------------------------------
(* As-of reads. *)

\* Of the observations of one entity, one is the first and one the last.
LEMMA NearestExists ==
  ASSUME IsFiniteSet(Keys), NEW S \in SUBSET Keys, S # {}, NEW e, \A j \in S : j[2] = e
  PROVE  /\ \E j \in S : \A i \in S : Time(j) <= Time(i)
         /\ \E j \in S : \A i \in S : Time(i) <= Time(j)
         /\ \A i, j \in S : Time(i) = Time(j) => i = j
         /\ \A j \in S : Time(j) \in Nat
<1> DEFINE T == {Time(j) : j \in S}
<1>1. /\ \A j \in S : Time(j) \in Nat /\ j = <<Time(j), e>>
      /\ T \in SUBSET Nat /\ T # {}
  BY KeysAssumption DEF Time
<1>2. IsFiniteSet(T)
  <2> DEFINE time == [j \in S |-> Time(j)]
  <2>1. time \in Surjection(S, T) /\ IsFiniteSet(S)
    BY FS_Subset DEF Surjection
  <2> QED
    BY <2>1, FS_Surjection
<1>3. PICK lo \in T, hi \in T : \A n \in T : lo <= n /\ n <= hi
  <2> HIDE DEF T
  <2> QED
    BY <1>1, <1>2, FiniteHasBounds
<1>4. \E j \in S : \A i \in S : Time(j) <= Time(i)
  BY <1>3
<1>5. \E j \in S : \A i \in S : Time(i) <= Time(j)
  BY <1>3
<1> QED
  BY <1>1, <1>4, <1>5

\* A read of an as-of feature shows the observation nearest to each key.
LEMMA AsOfReadsObserve ==
  ASSUME IsFiniteSet(Keys), IInv, RInv, NEW f \in Features, RowsOf(f) # {},
         LatestRow(f).signal = "as_of_feature", NEW k \in index
  PROVE  Read(LatestRow(f), Everything, k) = Observed(f, k)
<1> DEFINE a == AddrOf(f)
           kept == {j \in KeysOf(rows[a]) : InReach(f, Everything, j) /\ j[2] = k[2]}
           near == {j \in kept : IF f \in Forward
                      THEN Time(k) <= Time(j)
                             /\ \A i \in kept : Time(k) <= Time(i) => Time(j) <= Time(i)
                      ELSE Time(j) <= Time(k)
                             /\ \A i \in kept : Time(i) <= Time(k) => Time(i) <= Time(j)}
           seen == {j \in index : j[2] = k[2] /\ written[f][j] # Null
                             /\ IF f \in Forward THEN Time(k) <= Time(j)
                                                 ELSE Time(j) <= Time(k)}
           nearest(j) == \A i \in seen : IF f \in Forward THEN Time(j) <= Time(i)
                                                          ELSE Time(i) <= Time(j)
<1>1. Basics /\ TypeOK /\ index \subseteq Keys /\ k \in Keys
  BY DEF IInv, Basics, TypeOK
<1>2. /\ a \in Used /\ LatestRow(f).addr = a /\ LatestRow(f).feature = f
      /\ \A j \in Keys : written[f][j] = cells[a][f][j]
  BY <1>1, FeatureTable DEF RowsOf
<1>3. Read(LatestRow(f), Everything, k) =
        IF near = {} THEN Null ELSE cells[a][f][CHOOSE j \in near : TRUE]
  BY <1>2 DEF Read, AsOfRead
<1>4. Observed(f, k) =
        IF seen = {} THEN Null ELSE written[f][CHOOSE j \in seen : nearest(j)]
  BY DEF Observed
\* The rows of the table are the observations.
<1>5. \A j \in Keys : j \in KeysOf(rows[a]) <=> j \in index /\ written[f][j] # Null
  BY <1>1, <1>2 DEF RInv, Observations, NoStrays, RowsReach
<1>6. \A j \in KeysOf(rows[a]) : j \in Keys /\ InReach(f, Everything, j)
  <2>1. \A j \in KeysOf(rows[a]) : j \in Keys
    BY DEF KeysOf
  <2> QED
    BY <2>1, EverythingCovers DEF InReach
<1>7. \A j : j \in seen <=> /\ j \in kept
                           /\ IF f \in Forward THEN Time(k) <= Time(j)
                                               ELSE Time(j) <= Time(k)
  BY <1>1, <1>5, <1>6
<1>8. \A j : j \in near <=> j \in seen /\ nearest(j)
  <2> HIDE DEF kept, seen
  <2>1. CASE f \in Forward
    BY <1>7, <2>1
  <2>2. CASE f \notin Forward
    BY <1>7, <2>2
  <2> QED
    BY <2>1, <2>2
<1>9. seen \in SUBSET Keys /\ \A j \in seen : j[2] = k[2]
  BY <1>1
<1> HIDE DEF near, seen, kept, a
<1>10. CASE seen = {}
  BY <1>3, <1>4, <1>8, <1>10
<1>11. CASE seen # {}
  <2>1. /\ \E j \in seen : \A i \in seen : Time(j) <= Time(i)
        /\ \E j \in seen : \A i \in seen : Time(i) <= Time(j)
        /\ \A i, j \in seen : Time(i) = Time(j) => i = j
        /\ \A j \in seen : Time(j) \in Nat
    BY <1>9, <1>11, NearestExists
  <2>2. PICK j \in seen : nearest(j)
    BY <2>1
  <2>3. \A i \in seen : nearest(i) => i = j
    <3>1. ASSUME NEW i \in seen, nearest(i) PROVE Time(i) = Time(j)
      BY <2>1, <2>2, <3>1
    <3> QED
      BY <2>1, <3>1
  <2> HIDE DEF nearest
  <2>4. near = {j}
    BY <1>8, <2>2, <2>3
  <2>5. (CHOOSE i \in seen : nearest(i)) = j
    BY <2>2, <2>3
  <2>6. j \in Keys
    BY <1>9
  <2> QED
    BY <1>2, <1>3, <1>4, <1>11, <2>4, <2>5, <2>6
<1> QED
  BY <1>10, <1>11

-----------------------------------------------------------------------------
(* What reads return: the theorems. *)

\* The invariants give what reads by name are for.
LEMMA ReadsServe ==
  ASSUME IsFiniteSet(Keys), PrimaryLeads, IInv, RInv
  PROVE  ReadsServeWrites
<1>1. ASSUME NEW f \in Features, RowsOf(f) # {}, LatestRow(f).signal # "as_of_feature",
             NEW k \in index
      PROVE  rows[AddrOf(f)][k] <= 1 /\ Read(LatestRow(f), Everything, k) = written[f][k]
  <2>1. Basics /\ k \in Keys
    BY DEF IInv, Basics, TypeOK
  <2>2. /\ AddrOf(f) \in Used /\ LatestRow(f) \in fmeta /\ LatestRow(f).addr = AddrOf(f)
        /\ LatestRow(f).feature = f
        /\ written[f][k] = cells[AddrOf(f)][f][k]
    BY <1>1, <2>1, FeatureTable DEF RowsOf
  <2>3. Read(LatestRow(f), Everything, k) = cells[AddrOf(f)][f][k]
    BY <1>1, <2>2, CellReadsHold DEF CellReads
  <2> QED
    BY <2>1, <2>2, <2>3 DEF RInv, RowsOnce
<1>2. AsOfCarries
  BY AsOfReadsObserve DEF AsOfCarries
<1> QED
  BY <1>1, <1>2 DEF ReadsServeWrites

\* What is written is what is read: whatever appends, merges, copies, paddings
\* and consolidations, in whatever order, a read by name shows at each index key
\* what the last call that covers it wrote, or the observation nearest to it, for
\* any finite set of keys, any features and any number of calls.
THEOREM WritesAreRead ==
  ASSUME IsFiniteSet(Keys), PrimaryLeads, Deviations = {}
  PROVE  ReadSpec => []ReadsServeWrites
<1>1. IInv /\ RInv => ReadsServeWrites
  BY ReadsServe
<1> QED
  BY <1>1, ReadInductive, PTL

\* A call leaves the cells of the versions that are not the latest.
LEMMA OldCellsStay ==
  ASSUME NEW c, Step(c), NEW r \in fmeta, r.addr # AddrOf(r.feature), NEW k \in index
  PROVE  cells'[r.addr][r.feature][k] = cells[r.addr][r.feature][k]
<1> DEFINE a == r.addr
           f == r.feature
<1>1. /\ c \in Call /\ IInv /\ RInv /\ a \in Used /\ f \in Features /\ k \in Keys
  BY RulesHold DEF Step, Basics, NoDanglingAddr, TypeOK, FeatureRow
<1>2. cells'[a][f][k] = IF f \in Columns(c, a) /\ k \in Overwritten(c, a)
                        THEN Input(c, k) ELSE cells[a][f][k]
  BY <1>1, CellsAfter
<1>3. SUFFICES ASSUME f \in Columns(c, a), k \in Overwritten(c, a)
               PROVE  Input(c, k) = cells[a][f][k]
  BY <1>2
<1>4. f \in c.feats /\ (AllNew(c) \/ a \in Copies(c))
  BY <1>3 DEF Columns, Group
<1>5. /\ Merges(c) \cap Copies(c) = {} /\ Merges(c) \cap Appends(c) = {}
      /\ Copies(c) \cap Appends(c) = {}
      /\ Merges(c) \cup Copies(c) # {} => ~ AllNew(c)
  BY <1>1, Branches
<1>6. CASE a \in Copies(c)
  <2>1. k \in New(c)
    BY <1>3, <1>5, <1>6 DEF Overwritten, FrozenKeys
  <2> QED
    BY <2>1 DEF New
<1>7. CASE a \notin Copies(c)
  <2>1. AllNew(c) /\ a \notin Merges(c)
    BY <1>4, <1>5, <1>7
  <2>2. k \in AppendedKeys(c, a)
    BY <1>3, <1>7, <2>1 DEF Overwritten
  <2>3. k \notin c.keys
    BY <2>1 DEF AllNew, Inner
  <2>4. ~ (Time(k) <= LastUpdated(a))
    <3>1. LastUpdated(a) \in Nat /\ Time(k) \in Nat
      BY <1>1, HorizonAfter, CallFacts
    <3> QED
      BY <2>2, <2>3, <3>1 DEF AppendedKeys
  <2> QED
    BY <1>1, <2>3, <2>4, NothingBeyond, InputIs
<1> QED
  BY <1>6, <1>7

\* Time travel by value: once a feature has moved on, what its earlier version
\* reads is fixed, though the table it left may be written, padded and frozen.
THEOREM OldReadsStay ==
  ASSUME IsFiniteSet(Keys), PrimaryLeads, Deviations = {}
  PROVE  ReadSpec => OldVersionsStay
<1> DEFINE Stay == \A r \in fmeta :
             r.signal # "as_of_feature" /\ r.addr # AddrOf(r.feature) =>
               \A k \in index : Read(r, Everything, k)' = Read(r, Everything, k)
<1>1. IInv /\ RInv => CellReads
  BY CellReadsHold
<1>2. IInv /\ IInv' /\ RInv /\ CellReads /\ CellReads' /\ [ReadNext]_readVars => Stay
  <2> SUFFICES ASSUME IInv, IInv', RInv, CellReads, CellReads', [ReadNext]_readVars,
                      NEW r \in fmeta, r.signal # "as_of_feature",
                      r.addr # AddrOf(r.feature), NEW k \in index
               PROVE  Read(r, Everything, k)' = Read(r, Everything, k)
    OBVIOUS
  <2>1. r.addr \in Used /\ Read(r, Everything, k) = cells[r.addr][r.feature][k]
    BY DEF CellReads
  <2>2. /\ r \in fmeta' /\ k \in index'
        /\ cells'[r.addr][r.feature][k] = cells[r.addr][r.feature][k]
    <3>1. ASSUME NEW c \in Call, Step(c)
          PROVE  /\ r \in fmeta' /\ k \in index'
                 /\ cells'[r.addr][r.feature][k] = cells[r.addr][r.feature][k]
      BY <3>1, AddTables, OldCellsStay
    <3>2. ASSUME NEW fs \in SUBSET Features, NEW hi \in Times, Consolidates(fs, hi)
          PROVE  /\ r \in fmeta' /\ k \in index'
                 /\ cells'[r.addr][r.feature][k] = cells[r.addr][r.feature][k]
      <4>1. r \in fmeta'
        BY <3>2 DEF Consolidates
      <4> QED
        BY <2>1, <3>2, <4>1, ConsolidatedTables
    <3> QED
      BY <3>1, <3>2, ReadSteps
  <2>3. Read(r, Everything, k)' = cells'[r.addr][r.feature][k]
    BY <2>2 DEF CellReads
  <2> QED
    BY <2>1, <2>2, <2>3
<1>3. Stay <=> (\A r \in fmeta :
                  r.signal # "as_of_feature" /\ r.addr # AddrOf(r.feature) =>
                    \A k \in index : Read(r, Everything, k)' = Read(r, Everything, k))
  OBVIOUS
<1> HIDE DEF Stay
<1> QED
  BY <1>1, <1>2, <1>3, ReadInductive, PTL DEF ReadSpec, OldVersionsStay
=============================================================================
