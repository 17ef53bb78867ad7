------------------------- MODULE LakeContractProofs -------------------------
(***************************************************************************)
(* FeatureLake implements LakeContract, for callers that keep to the usage *)
(* rules (Deviations = {}): what a latest version serves before and after  *)
(* a call, in terms of the horizons of the alignment proof.                *)
(***************************************************************************)
EXTENDS LakeAlignmentProofs

\* Every feature with rows has a greatest one.
Latests == \A f \in Features :
  RowsOf(f) # {} => /\ LatestRow(f) \in RowsOf(f)
                    /\ \A s \in RowsOf(f) : s.version <= LatestRow(f).version

\* Types are enough for that.
LEMMA LatestsHold == TypeOK => Latests
BY LatestRowIsGreatest DEF Latests

\* If each new feature_metadata row has a version above those of its feature,
\* a feature's latest row is a new one, if it has any, and else the one it was.
LEMMA LatestAfter ==
  ASSUME TypeOK, TypeOK', NEW R, fmeta' = fmeta \cup R,
         \A r \in R : \A s \in RowsOf(r.feature) : s.version < r.version,
         NEW f \in Features
  PROVE  \/ /\ \A r \in R : r.feature # f
            /\ RowsOf(f)' = RowsOf(f)
            /\ AddrOf(f)' = AddrOf(f)
            /\ LatestRow(f)' = LatestRow(f)
         \/ /\ RowsOf(f)' # {}
            /\ LatestRow(f)' \in R
            /\ LatestRow(f)'.feature = f
            /\ AddrOf(f)' = LatestRow(f)'.addr
<1>1. CASE \A r \in R : r.feature # f
  <2>1. RowsOf(f)' = RowsOf(f)
    BY <1>1 DEF RowsOf
  <2>2. LatestRow(f)' = LatestRow(f)
    BY <2>1 DEF LatestRow
  <2> QED
    BY <1>1, <2>1, <2>2 DEF AddrOf
<1>2. CASE \E r \in R : r.feature = f
  <2>1. PICK r \in R : r.feature = f
    BY <1>2
  <2>2. r \in RowsOf(f)' /\ RowsOf(f)' # {}
    BY <2>1 DEF RowsOf
  <2>3. Latests'
    BY LatestsHold, PTL
  <2>4. /\ LatestRow(f)' \in RowsOf(f)'
        /\ r.version <= LatestRow(f)'.version
    BY <2>2, <2>3 DEF Latests
  <2>5. LatestRow(f)' \notin RowsOf(f)
    <3>1. ASSUME LatestRow(f)' \in RowsOf(f) PROVE FALSE
      <4>1. LatestRow(f)'.version < r.version
        BY <2>1, <3>1
      <4>2. LatestRow(f)'.version \in Nat /\ r.version \in Nat
        BY <2>2, <2>4 DEF RowsOf, TypeOK, FeatureRow, Versions
      <4> QED
        BY <2>4, <4>1, <4>2
    <3> QED
      BY <3>1
  <2> QED
    BY <2>2, <2>4, <2>5 DEF RowsOf, AddrOf
<1> QED
  BY <1>1, <1>2

\* The latest version of a feature lives in a dense table exactly if the
\* feature exists and that version is dense.
LEMMA DenseLatest ==
  ASSUME Basics, Uniform, NEW f \in Features
  PROVE  AddrOf(f) \in Dense <=>
           RowsOf(f) # {} /\ LatestRow(f).signal \in DenseSignals
<1>1. CASE RowsOf(f) = {}
  <2>1. AddrOf(f) \notin Addrs
    BY <1>1, NoAddrAssumption DEF AddrOf
  <2> QED
    BY <1>1, <2>1 DEF Dense, Basics, TypeOK
<1>2. CASE RowsOf(f) # {}
  <2>1. LatestRow(f) \in fmeta /\ AddrOf(f) = LatestRow(f).addr
    BY <1>2, AddrOfFeature DEF Basics
  <2>2. AddrOf(f) \in Used
    BY <2>1 DEF Basics, NoDanglingAddr
  <2>3. AddrOf(f) \in Unpadded <=> LatestRow(f).signal \notin DenseSignals
    BY <2>1 DEF Unpadded, Uniform
  <2> QED
    BY <1>2, <2>2, <2>3 DEF Dense
<1> QED
  BY <1>1, <1>2

\* A feature is dense as its latest row says.
DenseFeatures == \A f \in Features :
  AddrOf(f) \in Dense <=> RowsOf(f) # {} /\ LatestRow(f).signal \in DenseSignals

\* It follows from the invariant, the features of one table being alike.
LEMMA DenseFeaturesHold == IInv => DenseFeatures
BY DenseLatest DEF IInv, DenseFeatures

\* What the latest version of a feature serves: the index up to its table's
\* last_updated, or nothing.
Horizon(f) == {k \in Keys : Time(k) <= LastUpdated(AddrOf(f))}

Serves == \A f \in Features :
  /\ AddrOf(f) \in Dense => Served[f] = OneRowEach(index \cap Horizon(f))
  /\ AddrOf(f) \notin Dense => Served[f] = OneRowEach({})

\* It follows from the honesty of last_updated.
LEMMA ServesHolds == IInv => Serves
<1> SUFFICES ASSUME IInv, NEW f \in Features
             PROVE  /\ AddrOf(f) \in Dense => Served[f] = OneRowEach(index \cap Horizon(f))
                    /\ AddrOf(f) \notin Dense => Served[f] = OneRowEach({})
  BY DEF Serves
<1>1. CASE AddrOf(f) \in Dense
  <2>1. Served[f] = OneRowEach({k \in index : Time(k) <= LastUpdated(AddrOf(f))})
    BY <1>1 DEF Served, IInv, LastUpdatedIsHonest, Covers
  <2>2. {k \in index : Time(k) <= LastUpdated(AddrOf(f))} = index \cap Horizon(f)
    BY DEF Horizon, IInv, Basics, TypeOK
  <2> QED
    BY <1>1, <2>1, <2>2
<1>2. CASE AddrOf(f) \notin Dense
  BY <1>2 DEF Served, NoRows, OneRowEach
<1> QED
  BY <1>1, <1>2

\* The keys that the contract sees a feature hold, and the periods up to them.
LEMMA HeldKeys ==
  ASSUME IInv, NEW f \in Features
  PROVE  /\ AddrOf(f) \in Dense => /\ C!Held(f) = index \cap Horizon(f)
                                   /\ C!Upto(C!Held(f)) = Horizon(f)
         /\ AddrOf(f) \notin Dense => C!Held(f) = {} /\ C!Upto(C!Held(f)) = {}
<1>1. \A S \in SUBSET Keys : {k \in Keys : OneRowEach(S)[k] > 0} = S
  BY DEF OneRowEach
<1>2. C!Held(f) = {k \in Keys : Served[f][k] > 0}
  BY DEF C!Held
<1>3. CASE AddrOf(f) \notin Dense
  <2>1. Served[f] = OneRowEach({}) /\ {} \in SUBSET Keys
    BY <1>3, ServesHolds DEF Serves
  <2>2. C!Held(f) = {}
    BY <1>1, <1>2, <2>1, Zenon
  <2>3. C!Upto({}) = {}
    BY DEF C!Upto
  <2> QED
    BY <1>3, <2>2, <2>3
<1>4. CASE AddrOf(f) \in Dense
  <2>1. index \cap Horizon(f) \in SUBSET Keys
    BY DEF Horizon
  <2>2. C!Held(f) = index \cap Horizon(f)
    BY <1>1, <1>2, <1>4, <2>1, ServesHolds DEF Serves
  <2>3. PICK j \in index : Time(j) = LastUpdated(AddrOf(f))
    BY <1>4 DEF IInv, Horizons
  <2>4. LastUpdated(AddrOf(f)) \in Nat
    BY <1>4, LastUpdatedType DEF Dense, IInv, Basics
  <2>5. \A k \in Keys : Time(k) \in Nat /\ C!Time(k) = Time(k)
    BY KeysAssumption DEF Time, C!Time
  <2>6. j \in index \cap Horizon(f)
    BY <2>3, <2>4 DEF Horizon, IInv, Basics, TypeOK
  <2>7. C!Upto(index \cap Horizon(f)) = Horizon(f)
    <3>1. ASSUME NEW k \in Horizon(f) PROVE k \in C!Upto(index \cap Horizon(f))
      BY <2>3, <2>5, <2>6, <3>1 DEF Horizon, C!Upto
    <3>2. ASSUME NEW k \in C!Upto(index \cap Horizon(f)) PROVE k \in Horizon(f)
      BY <2>4, <2>5, <3>2 DEF Horizon, C!Upto
    <3> QED
      BY <3>1, <3>2
  <2> QED
    BY <1>4, <2>2, <2>7
<1> QED
  BY <1>3, <1>4

-----------------------------------------------------------------------------
\* A call of _add is a write of the contract: of the features whose latest
\* version lives, after it, in a dense table that the call updated or created.
Moved(c) == {f \in Features : AddrOf(f)' \in Homes(c) /\ AddrOf(f)' \in Dense'}

\* Where the latest version of a feature is after a call.
LEMMA AddrAfterAdd ==
  ASSUME IInv, IInv', NEW c \in Call, calls < MaxCalls, Permitted(c), Add(c),
         Deviations = {}, NEW f \in Features
  PROVE  /\ AddrOf(f) \in Dense => AddrOf(f)' \in Dense'
         /\ AddrOf(f)' \in Dense' /\ AddrOf(f)' \notin Homes(c) =>
              AddrOf(f)' = AddrOf(f) /\ AddrOf(f) \in Dense
<1>1. fmeta' = fmeta \cup FeatureRowsAfter(c)
  BY DEF Add
<1>2. ASSUME NEW r \in FeatureRowsAfter(c)
      PROVE  /\ r.addr \in Homes(c) /\ r.signal = c.signal /\ r.feature \in c.feats
             /\ \A s \in RowsOf(r.feature) : s.version < r.version
  BY NewFeatureRows DEF IInv
<1>3. CASE /\ AddrOf(f)' = AddrOf(f)
           /\ LatestRow(f)' = LatestRow(f)
           /\ RowsOf(f)' = RowsOf(f)
  <2>1. AddrOf(f) \in Dense <=> AddrOf(f)' \in Dense'
    <3>1. DenseFeatures /\ DenseFeatures'
      BY DenseFeaturesHold, PTL
    <3> QED
      BY <1>3, <3>1 DEF DenseFeatures
  <2> QED
    BY <1>3, <2>1
<1>4. CASE /\ RowsOf(f)' # {}
           /\ LatestRow(f)' \in FeatureRowsAfter(c)
           /\ LatestRow(f)'.feature = f
           /\ AddrOf(f)' = LatestRow(f)'.addr
  <2>1. AddrOf(f)' \in Homes(c) /\ LatestRow(f)'.signal = c.signal /\ f \in c.feats
    BY <1>2, <1>4
  <2>2. ASSUME AddrOf(f) \in Dense PROVE AddrOf(f)' \in Dense'
    <3>1. DenseFeatures /\ DenseFeatures'
      BY DenseFeaturesHold, PTL
    <3>2. RowsOf(f) # {} /\ LatestRow(f).signal \in DenseSignals
      BY <2>2, <3>1 DEF DenseFeatures
    <3>3. LatestRow(f) \in RowsOf(f)
      BY <3>2, AddrOfFeature DEF IInv, Basics
    <3>4. c.signal \in DenseSignals
      BY <2>1, <3>2, <3>3, UsageRulesHold DEF SameSignal
    <3> QED
      BY <1>4, <2>1, <3>1, <3>4 DEF DenseFeatures
  <2> QED
    BY <2>1, <2>2
<1> QED
  BY <1>1, <1>2, <1>3, <1>4, LatestAfter DEF IInv, Basics

\* A call of _add is one write of the contract, whichever branch each table takes.
LEMMA AddIsWrite ==
  ASSUME IInv, IInv', NEW c \in Call, calls < MaxCalls, Permitted(c), Add(c),
         Deviations = {}
  PROVE  C!Write(c.keys, Moved(c))
<1> DEFINE F == Moved(c)
           U(f) == C!Upto(IF f \in F THEN c.keys ELSE C!Held(f))
<1>1. /\ c.keys # {} /\ c.keys \subseteq Keys /\ index' = index \cup c.keys
      /\ \A k \in Keys : Time(k) \in Nat /\ C!Time(k) = Time(k)
  BY CallFacts DEF Add, New, Call, C!Time, Time
<1>2. C!Upto(c.keys) = {k \in Keys : Time(k) <= c.hi}
  <2>1. PICK h \in c.keys : Time(h) = c.hi
    BY CallFacts
  <2>2. \A k \in c.keys : Time(k) <= c.hi /\ c.hi \in Nat
    BY CallFacts
  <2>3. ASSUME NEW k \in Keys, NEW j \in c.keys, C!Time(k) <= C!Time(j)
        PROVE  Time(k) <= c.hi
    BY <1>1, <2>2, <2>3
  <2>4. ASSUME NEW k \in Keys, Time(k) <= c.hi
        PROVE  \E j \in c.keys : C!Time(k) <= C!Time(j)
    BY <1>1, <2>1, <2>4
  <2> QED
    BY <2>3, <2>4 DEF C!Upto
<1>3. ASSUME NEW f \in Features
      PROVE  Served'[f] = OneRowEach(index' \cap U(f))
  <2>1. Serves /\ Serves'
    BY ServesHolds, PTL
  <2>2. CASE f \in F
    <3>1. AddrOf(f)' \in Dense' /\ AddrOf(f)' \in Homes(c) /\ AddrOf(f)' \in Used'
      BY <2>2 DEF Moved, Dense
    <3>2. LastUpdated(AddrOf(f))' = c.hi
      BY <3>1, LastUpdatedAfter DEF IInv
    <3>3. Served'[f] = OneRowEach(index' \cap Horizon(f)')
      BY <2>1, <3>1 DEF Serves, OneRowEach
    <3>4. Horizon(f)' = {k \in Keys : Time(k) <= c.hi}
      BY <3>2 DEF Horizon, Time
    <3> QED
      BY <1>2, <2>2, <3>3, <3>4
  <2>3. CASE f \notin F /\ AddrOf(f)' \in Dense'
    <3>1. AddrOf(f)' \notin Homes(c)
      BY <2>3 DEF Moved
    <3>2. AddrOf(f)' = AddrOf(f) /\ AddrOf(f) \in Dense
      BY <2>3, <3>1, AddrAfterAdd
    <3>3. tmeta'[AddrOf(f)'] = tmeta[AddrOf(f)]
      BY <2>3, <3>1, <3>2, LastUpdatedAfter DEF IInv, Dense
    <3>4. Horizon(f)' = Horizon(f)
      BY <3>2, <3>3 DEF Horizon, LastUpdated, Time
    <3>5. Served'[f] = OneRowEach(index' \cap Horizon(f)')
      BY <2>1, <2>3 DEF Serves, OneRowEach
    <3> QED
      BY <2>3, <3>2, <3>4, <3>5, HeldKeys
  <2>4. CASE AddrOf(f)' \notin Dense'
    <3>1. f \notin F /\ AddrOf(f) \notin Dense
      BY <2>4, AddrAfterAdd DEF Moved
    <3>2. C!Upto(C!Held(f)) = {}
      BY <3>1, HeldKeys
    <3>3. Served'[f] = OneRowEach({})
      BY <2>1, <2>4 DEF Serves, OneRowEach
    <3> QED
      BY <3>1, <3>2, <3>3
  <2> QED
    BY <2>2, <2>3, <2>4
<1>4. Served' = [f \in Features |-> C!OneRowEach(index' \cap U(f))]
  <2>1. \A S : C!OneRowEach(S) = OneRowEach(S)
    BY DEF C!OneRowEach, OneRowEach
  <2>2. Served' = [f \in Features |-> Served'[f]]
    BY DEF Served
  <2> HIDE DEF U
  <2> QED
    BY <1>3, <2>1, <2>2, Zenon
<1> QED
  BY <1>1, <1>4 DEF C!Write

-----------------------------------------------------------------------------
\* Consolidation leaves what it does not name, all of it if it stops before its
\* third commit.
LEMMA UntouchedServes ==
  ASSUME IInv, IInv', NEW fs \in SUBSET Features, NEW hi \in Times,
         StoreConsolidated(fs, hi), NEW f \in Features,
         RowsOf(f)' = RowsOf(f)
  PROVE  Served'[f] = Served[f]
<1>1. LatestRow(f)' = LatestRow(f) /\ AddrOf(f)' = AddrOf(f)
  BY DEF LatestRow, AddrOf
<1>2. DenseFeatures /\ DenseFeatures'
  BY DenseFeaturesHold, PTL
<1>3. AddrOf(f) \in Dense <=> AddrOf(f)' \in Dense'
  BY <1>1, <1>2 DEF DenseFeatures
<1>4. AddrOf(f) \in Dense => rows'[AddrOf(f)] = rows[AddrOf(f)]
  BY DEF StoreConsolidated, Dense
<1> QED
  BY <1>1, <1>3, <1>4 DEF Served, NoRows

\* Consolidation is the contract's, of the features it names.
LEMMA ConsolidateIsConsolidate ==
  ASSUME IInv, IInv', NEW fs \in SUBSET Features, NEW hi \in Times,
         SpansIndex(fs), Consolidate(fs, hi)
  PROVE  C!Consolidate(fs)
<1> DEFINE U == C!Upto(UNION {C!Held(g) : g \in fs})
<1>1. /\ index' = index /\ fmeta' = fmeta \cup ConsolidatedRows(fs)
      /\ \A f \in fs : RowsOf(f) # {} /\ LatestRow(f).signal \in DenseSignals
      /\ StoreConsolidated(fs, hi)
  BY DEF Consolidate, StoreConsolidated
<1>2. ASSUME NEW r \in ConsolidatedRows(fs)
      PROVE  /\ r.feature \in fs
             /\ r.addr = NewAddr(fs)
             /\ \A s \in RowsOf(r.feature) : s.version < r.version
  <2>1. /\ r.feature \in fs
        /\ r = [LatestRow(r.feature) EXCEPT !.version = @ + 1, !.addr = NewAddr(fs)]
        /\ \A s \in RowsOf(r.feature) : s.version < r.version
    BY <1>1, ConsolidatedVersions DEF IInv
  <2>2. LatestRow(r.feature) \in FeatureRow
    BY <1>1, <2>1, AddrOfFeature DEF IInv, Basics, TypeOK
  <2> QED
    BY <2>1, <2>2 DEF FeatureRow
<1>3. index \subseteq U
  <2>1. PICK g \in fs : \A k \in index : Time(k) <= LastUpdated(AddrOf(g))
    BY DEF SpansIndex, Sources
  <2>2. AddrOf(g) \in Dense
    <3>1. DenseFeatures
      BY DenseFeaturesHold
    <3> QED
      BY <1>1, <3>1 DEF DenseFeatures
  <2>3. index \subseteq C!Upto(C!Held(g))
    BY <2>1, <2>2, HeldKeys DEF Horizon, IInv, Basics, TypeOK
  <2>4. C!Upto(C!Held(g)) \subseteq U
    BY DEF C!Upto
  <2> QED
    BY <2>3, <2>4
<1>4. ASSUME NEW f \in Features
      PROVE  Served'[f] = IF f \in fs THEN OneRowEach(index \cap U) ELSE Served[f]
  <2>1. CASE f \notin fs
    <3>1. RowsOf(f)' = RowsOf(f)
      BY <1>1, <1>2, <2>1 DEF RowsOf
    <3> QED
      BY <1>1, <2>1, <3>1, UntouchedServes
  <2>2. CASE f \in fs
    <3>1. AddrOf(f)' = NewAddr(fs) /\ LatestRow(f)' \in ConsolidatedRows(fs)
      <4>1. \E r \in ConsolidatedRows(fs) : r.feature = f
        <5>1. LatestRow(f) \in FeatureRow /\ LatestRow(f).feature = f
          BY <1>1, <2>2, AddrOfFeature DEF IInv, Basics, TypeOK, RowsOf
        <5>2. [LatestRow(f) EXCEPT !.version = @ + 1, !.addr = NewAddr(fs)].feature = f
          BY <5>1 DEF FeatureRow
        <5> QED
          BY <2>2, <5>2 DEF ConsolidatedRows
      <4> QED
        BY <1>1, <1>2, <4>1, LatestAfter DEF IInv, Basics
    <3>2. NewAddr(fs) \notin Used /\ NewAddr(fs) \in Used'
      <4>1. NewAddr(fs)[1] = calls + 1 /\ calls \in Nat
        BY DEF NewAddr, IInv, Basics, TypeOK
      <4> QED
        BY <1>1, <4>1 DEF StoreConsolidated, Used, IInv, Basics, Young, TypeOK, Addrs
    <3>3. rows'[NewAddr(fs)] = OneRowEach(index)
      BY <1>1, <3>2 DEF StoreConsolidated
    <3>4. NewAddr(fs) \in Dense'
      <4>1. ASSUME NEW r \in fmeta', r.addr = NewAddr(fs)
            PROVE  r.signal \in DenseSignals
        <5>1. r \in ConsolidatedRows(fs)
          BY <1>1, <3>2, <4>1 DEF IInv, Basics, NoDanglingAddr
        <5>2. LatestRow(r.feature).signal \in DenseSignals
          BY <1>1, <1>2, <5>1
        <5>3. r = [LatestRow(r.feature) EXCEPT !.version = @ + 1, !.addr = NewAddr(fs)]
          BY <1>1, <5>1, ConsolidatedVersions DEF IInv
        <5>4. LatestRow(r.feature) \in FeatureRow
          BY <1>1, <1>2, <5>1, AddrOfFeature DEF IInv, Basics, TypeOK
        <5> QED
          BY <5>2, <5>3, <5>4 DEF FeatureRow
      <4> QED
        BY <3>2, <4>1 DEF Dense, Unpadded
    <3>5. Served'[f] = OneRowEach(index)
      BY <3>1, <3>3, <3>4 DEF Served
    <3>6. index \cap U = index
      BY <1>3
    <3> QED
      BY <2>2, <3>5, <3>6
  <2> QED
    BY <2>1, <2>2
<1>5. Served' = [f \in Features |->
                   IF f \in fs THEN C!OneRowEach(index \cap U) ELSE Served[f]]
  <2>1. C!OneRowEach(index \cap U) = OneRowEach(index \cap U)
    BY DEF C!OneRowEach, OneRowEach
  <2>2. Served' = [f \in Features |-> Served'[f]]
    BY DEF Served
  <2> HIDE DEF U
  <2> QED
    BY <1>4, <2>1, <2>2
<1> QED
  BY <1>1, <1>5 DEF C!Consolidate

\* The lake keeps its contract, for all keys, features and histories: each
\* call of _add is one write of the contract, each consolidation one of the
\* contract's, and a failed or half done one changes nothing that is served.
THEOREM KeepsContract ==
  ASSUME Deviations = {}
  PROVE  Spec => Contract
<1>1. Init => C!Init
  <2> SUFFICES ASSUME Init PROVE C!Init
    OBVIOUS
  <2>1. \A f \in Features : Served[f] = C!OneRowEach({})
    BY DEF Init, Served, Dense, Used, NoRows, C!OneRowEach
  <2>2. Served = [f \in Features |-> Served[f]]
    BY DEF Served
  <2> QED
    BY <2>1, <2>2 DEF Init, C!Init
<1>2. IInv /\ IInv' /\ [Next]_vars => [C!Next]_(C!vars)
  <2> SUFFICES ASSUME IInv, IInv', [Next]_vars
               PROVE  [C!Next]_(C!vars)
    OBVIOUS
  <2>1. ASSUME NEW c \in Call, calls < MaxCalls, Permitted(c), Add(c) PROVE C!Next
    <3>1. C!Write(c.keys, Moved(c))
      BY <2>1, AddIsWrite
    <3>2. c.keys \in SUBSET Keys /\ Moved(c) \in SUBSET Features
      BY CallFacts DEF Moved
    <3> QED
      BY <3>1, <3>2 DEF C!Next
  <2>2. ASSUME NEW fs \in SUBSET Features, NEW hi \in Times,
               ConsolidatePermitted(fs), Consolidate(fs, hi)
        PROVE  C!Next
    BY <2>2, ConsolidateIsConsolidate DEF ConsolidatePermitted, C!Next
  <2>3. ASSUME NEW fs \in SUBSET Features, NEW hi \in Times,
               ConsolidateStops(fs, hi)
        PROVE  UNCHANGED C!vars
    <3>1. StoreConsolidated(fs, hi) /\ fmeta' = fmeta /\ index' = index
      BY <2>3 DEF ConsolidateStops, StoreConsolidated
    <3>2. \A f \in Features : Served'[f] = Served[f]
      BY <3>1, UntouchedServes DEF RowsOf
    <3>3. Served' = Served
      BY <3>2 DEF Served
    <3> QED
      BY <3>1, <3>3 DEF C!vars
  <2>4. CASE Raises \/ UNCHANGED vars
    <3>1. index' = index /\ rows' = rows /\ tmeta' = tmeta /\ fmeta' = fmeta
      BY <2>4 DEF Raises, vars
    <3>2. Served' = Served
      BY <3>1 DEF Served, AddrOf, LatestRow, RowsOf, Dense, Used, Unpadded, NoRows
    <3> QED
      BY <3>1, <3>2 DEF C!vars
  <2> QED
    BY <2>1, <2>2, <2>3, <2>4 DEF Next
<1>3. Spec => []IInv
  BY Inductive
<1> QED
  BY <1>1, <1>2, <1>3, PTL DEF Spec, Contract, C!Spec
=============================================================================
