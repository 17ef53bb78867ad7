------------------------- MODULE FeatureLakeProofs -------------------------
(***************************************************************************)
(* Type correctness of FeatureLake, whatever the callers do: every call of *)
(* _add and of consolidate_feature_groups writes to addresses no table has *)
(* yet or to tables that exist, and gives each feature a higher version.   *)
(* The facts about a call stated here are those the alignment proof        *)
(* (LakeAlignmentProofs) rests on.                                         *)
(***************************************************************************)
EXTENDS FeatureLake, FiniteSetTheorems, WellFoundedInduction, NaturalsInduction, TLAPS

\* A non-empty set of versions has a greatest one, so that the sort of
\* _latest_per_feature has a first row.
LEMMA GreatestExists ==
  ASSUME NEW S \in SUBSET Versions, S # {}
  PROVE  \E m \in S : \A n \in S : n <= m
<1> DEFINE T == {x \in Nat : MaxCalls - x \in S}
           R == {ss \in Nat \X Nat : ss[1] < ss[2]}
<1>1. T # {} /\ T \subseteq Nat
  <2>1. PICK n \in S : TRUE
    OBVIOUS
  <2>2. MaxCalls - n \in Nat /\ MaxCalls - (MaxCalls - n) = n
    BY <2>1, MaxCallsAssumption DEF Versions
  <2> QED
    BY <2>2
<1>2. IsWellFoundedOn(R, Nat)
  BY NatLessThanWellFounded DEF OpToRel
<1> HIDE DEF R
<1>3. \E x \in T : \A y \in T : ~ (<<y, x>> \in R)
  BY <1>1, <1>2, WFMin
<1>4. PICK x \in T : \A y \in T : ~ (y < x)
  BY <1>1, <1>3 DEF R
<1>5. MaxCalls - x \in S /\ x \in Nat
  OBVIOUS
<1>6. ASSUME NEW n \in S PROVE n <= MaxCalls - x
  <2>1. n \in Nat /\ MaxCalls - n \in Nat /\ MaxCalls - (MaxCalls - n) = n
    BY MaxCallsAssumption DEF Versions
  <2>2. ~ (MaxCalls - n < x)
    BY <2>1, <1>4
  <2> QED
    BY <2>1, <2>2, <1>5, MaxCallsAssumption
<1> QED
  BY <1>5, <1>6

\* _latest_per_feature returns a row of the feature, and none of its rows has
\* a higher version.
LEMMA LatestRowIsGreatest ==
  ASSUME TypeOK, NEW f, RowsOf(f) # {}
  PROVE  /\ LatestRow(f) \in RowsOf(f)
         /\ \A s \in RowsOf(f) : s.version <= LatestRow(f).version
<1> DEFINE S == {r.version : r \in RowsOf(f)}
<1>1. S \in SUBSET Versions /\ S # {}
  BY DEF TypeOK, FeatureRow, RowsOf
<1>2. PICK m \in S : \A n \in S : n <= m
  BY <1>1, GreatestExists
<1>3. \E r \in RowsOf(f) : \A s \in RowsOf(f) : s.version <= r.version
  BY <1>2
<1> QED
  BY <1>3 DEF LatestRow

\* A feature has no row and the null table_addr, or a row and a real address.
LEMMA AddrOfFeature ==
  ASSUME TypeOK, NEW f
  PROVE  \/ RowsOf(f) = {} /\ AddrOf(f) = NoAddr
         \/ /\ RowsOf(f) # {}
            /\ LatestRow(f) \in RowsOf(f)
            /\ LatestRow(f) \in fmeta
            /\ AddrOf(f) = LatestRow(f).addr
            /\ AddrOf(f) \in Addrs
            /\ AddrOf(f) # NoAddr
<1>1. CASE RowsOf(f) = {}
  BY <1>1 DEF AddrOf
<1>2. CASE RowsOf(f) # {}
  BY <1>2, LatestRowIsGreatest, NoAddrAssumption DEF AddrOf, RowsOf, TypeOK, FeatureRow
<1> QED
  BY <1>1, <1>2

\* The inductive invariant of this module.
Basics == TypeOK /\ Young /\ NoDanglingAddr

\* The tables update_feature_tables is called for exist, and each holds the
\* latest version of at least one feature of the input.
LEMMA OldIsUsed ==
  ASSUME Basics, NEW c \in Call
  PROVE  /\ Old(c) \subseteq Used
         /\ \A g \in Old(c) : \A f \in Group(c, g) :
              RowsOf(f) # {} /\ LatestRow(f) \in fmeta /\ LatestRow(f).addr = g
         /\ \A g \in Targets(c) : Group(c, g) # {} /\ Group(c, g) \subseteq c.feats
<1>1. \A f : RowsOf(f) # {} => AddrOf(f) \in Used
  BY AddrOfFeature DEF Basics, NoDanglingAddr
<1> QED
  BY <1>1, AddrOfFeature DEF Old, Targets, Group, Basics

\* next_rank is defined, is above the version of every feature of the group,
\* and is at most the number of calls made before.
LEMMA NextRankIsAbove ==
  ASSUME Basics, NEW c \in Call, NEW g \in Old(c), calls < MaxCalls
  PROVE  /\ NextRank(c, g) \in Versions
         /\ NextRank(c, g) <= calls
         /\ \A f \in Group(c, g) : LatestRow(f).version < NextRank(c, g)
<1> DEFINE S == {LatestRow(f).version : f \in Group(c, g)}
<1>1. \A n \in S : n \in Versions /\ n < calls
  BY OldIsUsed DEF Basics, TypeOK, FeatureRow, Young
<1>2. S \in SUBSET Versions /\ S # {}
  BY <1>1, OldIsUsed DEF Old
<1>3. PICK m \in S : \A n \in S : n <= m
  BY <1>2, GreatestExists
<1> calls \in Nat /\ MaxCalls \in Nat
  BY MaxCallsAssumption DEF Basics, TypeOK
<1>4. m + 1 \in Versions /\ m + 1 <= calls
  <2>1. m \in Versions /\ m < calls
    BY <1>1, <1>3
  <2> QED
    BY <2>1 DEF Versions
<1>5. /\ \A f \in Group(c, g) : LatestRow(f).version < m + 1
      /\ \E f \in Group(c, g) : LatestRow(f).version + 1 = m + 1
  <2>1. \A f \in Group(c, g) : LatestRow(f).version <= m
    BY <1>3
  <2>2. \A f \in Group(c, g) : LatestRow(f).version \in Nat
    BY <1>1 DEF Versions
  <2> QED
    BY <2>1, <2>2, <1>3, <1>2 DEF Versions
<1>6. /\ NextRank(c, g) \in Versions
      /\ \A f \in Group(c, g) : LatestRow(f).version < NextRank(c, g)
      /\ \E f \in Group(c, g) : LatestRow(f).version + 1 = NextRank(c, g)
  BY <1>4, <1>5 DEF NextRank
<1>7. PICK f \in Group(c, g) : LatestRow(f).version + 1 = NextRank(c, g)
  BY <1>6
<1>8. LatestRow(f).version \in Nat /\ LatestRow(f).version < calls
  BY <1>1 DEF Versions
<1> QED
  BY <1>6, <1>7, <1>8

\* The number of table_metadata rows that pad a key is a natural number.
LEMMA PaddingCount ==
  ASSUME TypeOK, NEW a \in Used, NEW k \in Keys
  PROVE  /\ IsFiniteSet(PaddingsOf(a, k))
         /\ Cardinality(PaddingsOf(a, k)) \in Nat
<1>1. Len(tmeta[a]) \in Nat
  BY DEF TypeOK
<1>2. IsFiniteSet(1 .. Len(tmeta[a]))
  BY <1>1, FS_Interval
<1>3. PaddingsOf(a, k) \in SUBSET (1 .. Len(tmeta[a]))
  BY DEF PaddingsOf
<1> QED
  BY <1>2, <1>3, FS_Subset, FS_CardinalityType

\* The bounds lo and hi of an input are attained, and bound all its keys.
LEMMA CallFacts ==
  ASSUME NEW c \in Call
  PROVE  /\ c.keys \subseteq Keys
         /\ c.feats \subseteq Features
         /\ c.signal \in Signals
         /\ c.lo \in Nat /\ c.hi \in Nat /\ c.hi \in Times
         /\ \E k \in c.keys : Time(k) = c.lo
         /\ \E k \in c.keys : Time(k) = c.hi
         /\ \A k \in c.keys : c.lo <= Time(k) /\ Time(k) <= c.hi
         /\ \A k \in Keys : Time(k) \in Nat
<1>1. \A k \in Keys : Time(k) \in Nat
  BY KeysAssumption DEF Time
<1> QED
  BY <1>1 DEF Call, Times

\* A table written to a new address gets one that no table has, and one per
\* group; every other table of the call keeps its address.
LEMMA HomeFacts ==
  ASSUME Basics, NEW c \in Call, calls < MaxCalls
  PROVE  /\ \A g \in Fresh(c) : /\ Home(c, g) = NewAddr(Group(c, g))
                                /\ Home(c, g) \in Addrs
                                /\ Home(c, g) \notin Used
         /\ \A g, h \in Fresh(c) : Home(c, g) = Home(c, h) => g = h
         /\ \A g \in Targets(c) \ Fresh(c) :
              /\ Home(c, g) = g
              /\ g \in Used
              /\ g \in Merges(c) \cup Appends(c)
         /\ Homes(c) \subseteq Addrs
<1> calls \in Nat /\ MaxCalls \in Nat
  BY MaxCallsAssumption DEF Basics, TypeOK
<1>1. ASSUME NEW g \in Fresh(c)
      PROVE  /\ Home(c, g) = NewAddr(Group(c, g))
             /\ Home(c, g) \in Addrs
             /\ Home(c, g) \notin Used
             /\ Group(c, g) # {}
  <2>1. g \in Targets(c)
    BY DEF Fresh, Copies, Old
  <2>2. Group(c, g) # {} /\ Group(c, g) \subseteq Features
    BY <2>1, OldIsUsed, CallFacts
  <2>3. NewAddr(Group(c, g)) \in Addrs
    BY <2>2 DEF NewAddr, Addrs
  <2>4. NewAddr(Group(c, g))[1] = calls + 1
    BY DEF NewAddr
  <2>5. NewAddr(Group(c, g)) \notin Used
    BY <2>4 DEF Basics, Young
  <2> QED
    BY <2>2, <2>3, <2>5 DEF Home
<1>2. ASSUME NEW g \in Fresh(c), NEW h \in Fresh(c), Home(c, g) = Home(c, h)
      PROVE  g = h
  <2>1. Group(c, g) = Group(c, h)
    BY <1>1, <1>2 DEF NewAddr
  <2> QED
    BY <2>1, <1>1 DEF Group
<1>3. ASSUME NEW g \in Targets(c) \ Fresh(c)
      PROVE  /\ Home(c, g) = g
             /\ g \in Used
             /\ g \in Merges(c) \cup Appends(c)
  BY OldIsUsed DEF Home, Fresh, Appends, Old
<1>4. Homes(c) \subseteq Addrs
  BY <1>1, <1>3 DEF Homes, Basics, TypeOK
<1> QED
  BY <1>1, <1>2, <1>3, <1>4

\* Whatever branch writes a table, it leaves a bag of keys.
LEMMA TableTypes ==
  ASSUME Basics, NEW c \in Call
  PROVE  /\ \A a \in Used : UpdatedRows(c, a) \in [Keys -> Nat]
         /\ \A a \in Addrs : CreatedRows(c, a) \in [Keys -> Nat]
<1>1. \A S : OneRowEach(S) \in [Keys -> Nat]
  BY DEF OneRowEach
<1>2. \A t \in [Keys -> Nat] : \A S : /\ AppendRows(t, S) \in [Keys -> Nat]
                                      /\ MergeRows(t, S) \in [Keys -> Nat]
  BY <1>1 DEF AppendRows, MergeRows
<1>3. \A a \in Used : rows[a] \in [Keys -> Nat]
  BY DEF Basics, TypeOK
<1>4. \A a \in Used : PaddedRows(c, a) \in [Keys -> Nat]
  BY <1>3, PaddingCount DEF PaddedRows, Basics
<1>5. \A g \in Copies(c) : CopiedRows(c, g) \in [Keys -> Nat]
  <2>1. \A g \in Copies(c) : KeptRows(c, g) \in [Keys -> Nat]
    BY <1>3, OldIsUsed DEF KeptRows, Copies
  <2> QED
    BY <2>1, <1>2 DEF CopiedRows
<1>6. ASSUME NEW a \in Used PROVE UpdatedRows(c, a) \in [Keys -> Nat]
  BY <1>2, <1>3, <1>4 DEF UpdatedRows
<1>7. ASSUME NEW a \in Addrs PROVE CreatedRows(c, a) \in [Keys -> Nat]
  BY <1>1, <1>5 DEF CreatedRows
<1> QED
  BY <1>6, <1>7

\* A table_metadata row is appended after the rows that are there.
LEMMA RecordedAfter ==
  ASSUME TypeOK, NEW a, NEW t \in Times
  PROVE  /\ Recorded(a) \o <<t>> \in Seq(Times) \ {<< >>}
         /\ Len(Recorded(a) \o <<t>>) = Len(Recorded(a)) + 1
         /\ Len(Recorded(a)) \in Nat
         /\ (Recorded(a) \o <<t>>)[Len(Recorded(a)) + 1] = t
         /\ \A i \in 1 .. Len(Recorded(a)) :
              (Recorded(a) \o <<t>>)[i] = Recorded(a)[i]
         /\ Recorded(a) \o << >> = Recorded(a)
<1>1. Recorded(a) \in Seq(Times)
  BY DEF Recorded, TypeOK
<1> QED
  BY <1>1

\* A feature_metadata row written by a call is for a feature of its input, at
\* the address where the call left it, with a version above all earlier ones.
LEMMA NewFeatureRows ==
  ASSUME Basics, NEW c \in Call, calls < MaxCalls,
         NEW r \in FeatureRowsAfter(c)
  PROVE  /\ r \in FeatureRow
         /\ r.version <= calls
         /\ r.addr \in Homes(c)
         /\ r.feature \in c.feats
         /\ r.addr = Home(c, AddrOf(r.feature))
         /\ r.signal = c.signal
         /\ \A s \in RowsOf(r.feature) : s.version < r.version
<1> calls \in Nat /\ MaxCalls \in Nat
  BY MaxCallsAssumption DEF Basics, TypeOK
<1>1. PICK f \in c.feats :
        /\ AddrOf(f) \notin Appends(c)
        /\ r = [feature |-> f,
                version |-> IF AddrOf(f) = NoAddr THEN 0 ELSE NextRank(c, AddrOf(f)),
                addr    |-> Home(c, AddrOf(f)),
                signal  |-> c.signal]
  BY DEF FeatureRowsAfter
<1>2. AddrOf(f) \in Targets(c) /\ f \in Group(c, AddrOf(f))
  BY DEF Targets, Group
<1>3. r.addr \in Homes(c) /\ r.addr \in Addrs
  BY <1>1, <1>2, HomeFacts DEF Homes
<1>4. CASE AddrOf(f) = NoAddr
  <2>1. RowsOf(f) = {}
    BY <1>4, AddrOfFeature DEF Basics
  <2>2. r.version = 0 /\ 0 \in Versions /\ 0 <= calls
    BY <1>1, <1>4 DEF Versions
  <2> QED
    BY <1>1, <1>3, <2>1, <2>2, CallFacts DEF FeatureRow
<1>5. CASE AddrOf(f) # NoAddr
  <2>1. AddrOf(f) \in Old(c)
    BY <1>2, <1>5 DEF Old
  <2>2. /\ r.version = NextRank(c, AddrOf(f))
        /\ r.version \in Versions
        /\ r.version <= calls
        /\ LatestRow(f).version < r.version
    BY <1>1, <1>2, <1>5, <2>1, NextRankIsAbove
  <2>3. ASSUME NEW s \in RowsOf(f) PROVE s.version < r.version
    <3>1. s.version <= LatestRow(f).version
      BY LatestRowIsGreatest DEF Basics
    <3>2. LatestRow(f) \in RowsOf(f)
      BY LatestRowIsGreatest DEF Basics
    <3>3. s.version \in Nat /\ LatestRow(f).version \in Nat /\ r.version \in Nat
      BY <2>2, <3>2 DEF Basics, TypeOK, FeatureRow, RowsOf, Versions
    <3> QED
      BY <2>2, <3>1, <3>3
  <2> QED
    BY <1>1, <1>3, <2>2, <2>3, CallFacts DEF FeatureRow
<1> QED
  BY <1>4, <1>5

\* A call of _add keeps types, the age of addresses, and the rows' addresses.
LEMMA AddKeepsBasics ==
  ASSUME Basics, NEW c \in Call, calls < MaxCalls, Add(c)
  PROVE  Basics'
<1> calls \in Nat /\ MaxCalls \in Nat /\ calls < MaxCalls /\ calls' = calls + 1
  BY MaxCallsAssumption DEF Basics, TypeOK, Add
<1>1. Used' = Used \cup Homes(c)
  BY DEF Add, Used
<1>2. Used' \subseteq Addrs
  BY <1>1, HomeFacts DEF Basics, TypeOK
<1>3. TypeOK'
  <2>1. (index \subseteq Keys)'
    BY CallFacts DEF Add, New, Basics, TypeOK
  <2>2. (rows \in [Used -> [Keys -> Nat]])'
    <3>1. \A a \in Used' :
            (IF a \in Used THEN UpdatedRows(c, a) ELSE CreatedRows(c, a))
              \in [Keys -> Nat]
      BY <1>2, TableTypes
    <3> QED
      BY <1>1, <3>1 DEF Add
  <2>3. (tmeta \in [Used -> Seq(Times) \ {<< >>}])'
    <3>1. ASSUME NEW a \in Used'
          PROVE  (Recorded(a) \o IF a \in Homes(c) THEN <<c.hi>> ELSE << >>)
                   \in Seq(Times) \ {<< >>}
      <4>1. CASE a \in Homes(c)
        BY <4>1, CallFacts, RecordedAfter DEF Basics
      <4>2. CASE a \notin Homes(c)
        <5>1. Recorded(a) = tmeta[a] /\ tmeta[a] \in Seq(Times) \ {<< >>}
          BY <1>1, <4>2 DEF Recorded, Basics, TypeOK
        <5> QED
          BY <4>2, <5>1, CallFacts, RecordedAfter DEF Basics
      <4> QED
        BY <4>1, <4>2
    <3> QED
      BY <1>1, <3>1 DEF Add
  <2>4. (fmeta \subseteq FeatureRow)'
    <3>1. FeatureRowsAfter(c) \subseteq FeatureRow
      BY NewFeatureRows
    <3>2. fmeta' = fmeta \cup FeatureRowsAfter(c)
      BY DEF Add
    <3> QED
      BY <3>1, <3>2 DEF Basics, TypeOK, FeatureRow, Addrs, Versions
  <2>5. (calls \in 0 .. MaxCalls)'
    OBVIOUS
  <2> QED
    BY <1>2, <2>1, <2>2, <2>3, <2>4, <2>5 DEF TypeOK
<1>4. Young'
  <2>1. ASSUME NEW a \in Used' PROVE a[1] <= calls + 1
    <3>1. CASE a \in Used
      BY <3>1 DEF Basics, Young, TypeOK, Addrs
    <3>2. CASE a \notin Used
      <4>1. PICK g \in Fresh(c) : a = Home(c, g)
        BY <1>1, <3>2, HomeFacts DEF Homes
      <4> QED
        BY <4>1, HomeFacts DEF NewAddr
    <3> QED
      BY <3>1, <3>2
  <2>2. ASSUME NEW r \in fmeta' PROVE r.version < calls + 1
    <3>1. CASE r \in fmeta
      BY <3>1 DEF Basics, Young, TypeOK, FeatureRow, Versions
    <3>2. CASE r \in FeatureRowsAfter(c)
      BY <3>2, NewFeatureRows DEF FeatureRow, Versions
    <3> QED
      BY <3>1, <3>2 DEF Add
  <2> QED
    BY <2>1, <2>2 DEF Young
<1>5. NoDanglingAddr'
  BY <1>1, NewFeatureRows DEF Add, Basics, NoDanglingAddr
<1> QED
  BY <1>3, <1>4, <1>5 DEF Basics

\* So does consolidate_feature_groups, also when its last commit fails.
LEMMA ConsolidateKeepsBasics ==
  ASSUME Basics, NEW fs \in SUBSET Features, NEW hi \in Times,
         calls < MaxCalls, StoreConsolidated(fs, hi),
         fmeta' = fmeta \/ fmeta' = fmeta \cup ConsolidatedRows(fs)
  PROVE  Basics'
<1> DEFINE b == NewAddr(fs)
<1> calls \in Nat /\ MaxCalls \in Nat
  BY MaxCallsAssumption DEF Basics, TypeOK
<1> calls' = calls + 1 /\ index' = index
  BY Zenon DEF StoreConsolidated
<1>1. b \in Addrs /\ b \notin Used /\ b[1] = calls + 1
  BY DEF NewAddr, Addrs, Basics, Young
<1>2. Used' = Used \cup {b}
  BY DEF StoreConsolidated, Used
<1>3. ASSUME NEW r \in fmeta' \ fmeta
      PROVE  r \in FeatureRow /\ r.version <= calls /\ r.addr = b
  <2>1. PICK f \in fs : r = [LatestRow(f) EXCEPT !.version = @ + 1, !.addr = b]
    BY DEF ConsolidatedRows
  <2>2. RowsOf(f) # {}
    BY DEF StoreConsolidated
  <2>3. LatestRow(f) \in fmeta
    BY <2>2, AddrOfFeature DEF Basics
  <2>4. LatestRow(f) \in FeatureRow /\ LatestRow(f).version < calls
    BY <2>3 DEF Basics, TypeOK, Young
  <2>5. LatestRow(f).version + 1 \in Versions /\ LatestRow(f).version + 1 <= calls
    BY <2>4 DEF FeatureRow, Versions
  <2>6. /\ r.feature = LatestRow(f).feature
        /\ r.version = LatestRow(f).version + 1
        /\ r.addr = b
        /\ r.signal = LatestRow(f).signal
        /\ r = [feature |-> r.feature, version |-> r.version,
                addr |-> r.addr, signal |-> r.signal]
    BY <2>1, <2>4 DEF FeatureRow
  <2> QED
    BY <1>1, <2>4, <2>5, <2>6 DEF FeatureRow
<1>4. TypeOK'
  <2>1. (rows \in [Used -> [Keys -> Nat]])'
    BY <1>2 DEF StoreConsolidated, Basics, TypeOK, OneRowEach
  <2>2. (tmeta \in [Used -> Seq(Times) \ {<< >>}])'
    <3>1. tmeta' = [a \in Used \cup {b} |-> IF a \in Used THEN tmeta[a] ELSE <<hi>>]
      BY Zenon DEF StoreConsolidated
    <3>2. <<hi>> \in Seq(Times) \ {<< >>}
      OBVIOUS
    <3>3. \A a \in Used : tmeta[a] \in Seq(Times) \ {<< >>}
      BY DEF Basics, TypeOK
    <3> QED
      BY <1>2, <3>1, <3>2, <3>3
  <2>3. (fmeta \subseteq FeatureRow)'
    <3>1. FeatureRow' = FeatureRow
      BY DEF FeatureRow, Addrs, Versions
    <3>2. fmeta \subseteq FeatureRow
      BY DEF Basics, TypeOK
    <3> QED
      BY <1>3, <3>1, <3>2
  <2>4. index \subseteq Keys /\ Used \subseteq Addrs
    BY DEF Basics, TypeOK
  <2>5. (index \subseteq Keys)' /\ (calls \in 0 .. MaxCalls)'
    BY <2>4
  <2>6. (Used \subseteq Addrs)'
    BY <1>1, <1>2, <2>4 DEF Addrs
  <2> QED
    BY <2>1, <2>2, <2>3, <2>5, <2>6 DEF TypeOK
<1>5. Young'
  <2>1. \A a \in Used : a[1] <= calls + 1
    BY DEF Basics, Young, TypeOK, Addrs
  <2>2. \A r \in fmeta : r.version < calls + 1
    BY DEF Basics, Young, TypeOK, FeatureRow, Versions
  <2>3. \A r \in fmeta' \ fmeta : r.version < calls + 1
    BY <1>3 DEF FeatureRow, Versions
  <2> QED
    BY <1>1, <1>2, <2>1, <2>2, <2>3 DEF Young
<1>6. NoDanglingAddr'
  BY <1>2, <1>3 DEF Basics, NoDanglingAddr
<1> QED
  BY <1>4, <1>5, <1>6 DEF Basics

\* A call that raises leaves only the count of calls higher.
LEMMA RaisesKeepsBasics ==
  ASSUME Basics, calls < MaxCalls, Raises
  PROVE  Basics'
<1> calls \in Nat /\ MaxCalls \in Nat /\ calls' = calls + 1
  BY MaxCallsAssumption DEF Basics, TypeOK, Raises
<1>1. Used' = Used /\ FeatureRow' = FeatureRow
  BY DEF Raises, Used, FeatureRow, Addrs, Versions
<1>2. TypeOK'
  BY <1>1 DEF Basics, TypeOK, Raises, Addrs
<1>3. Young'
  <2>1. \A a \in Used : a[1] <= calls + 1
    BY DEF Basics, Young, TypeOK, Addrs
  <2>2. \A r \in fmeta : r.version < calls + 1
    BY DEF Basics, Young, TypeOK, FeatureRow, Versions
  <2> QED
    BY <1>1, <2>1, <2>2 DEF Young, Raises
<1>4. NoDanglingAddr'
  BY <1>1 DEF Basics, NoDanglingAddr, Raises
<1> QED
  BY <1>2, <1>3, <1>4 DEF Basics

\* Each step of the lake keeps the invariant.
LEMMA StepKeepsBasics ==
  ASSUME Basics, [Next]_vars
  PROVE  Basics'
<1>1. ASSUME NEW c \in Call, calls < MaxCalls, Add(c) PROVE Basics'
  BY <1>1, AddKeepsBasics
<1>2. ASSUME NEW fs \in SUBSET Features, NEW hi \in Times,
             calls < MaxCalls, Consolidate(fs, hi) \/ ConsolidateStops(fs, hi)
      PROVE  Basics'
  BY <1>2, ConsolidateKeepsBasics DEF Consolidate, ConsolidateStops
<1>3. CASE calls < MaxCalls /\ Raises
  BY <1>3, RaisesKeepsBasics
<1>4. CASE UNCHANGED vars
  BY <1>4 DEF vars, Basics, TypeOK, Young, NoDanglingAddr, Used, FeatureRow,
              Versions, Addrs
<1> QED
  BY <1>1, <1>2, <1>3, <1>4 DEF Next

\* It holds of the empty lake.
LEMMA BasicsInit == Init => Basics
BY MaxCallsAssumption DEF Init, Basics, TypeOK, Young, NoDanglingAddr, Used

\* So it is an invariant, whatever the callers do.
LEMMA BasicsHold == Spec => []Basics
BY BasicsInit, StepKeepsBasics, PTL DEF Spec

\* Type correctness, and with it: no call reuses an address or a version it
\* cannot afford, and no feature_metadata row names a table without
\* table_metadata, whatever the callers do.
THEOREM TypeCorrect == Spec => [](TypeOK /\ NoDanglingAddr)
<1>1. Basics => TypeOK /\ NoDanglingAddr
  BY DEF Basics
<1> QED
  BY <1>1, BasicsHold, PTL

\* The rows of consolidate_feature_groups: one per feature, above its others.
LEMMA ConsolidatedVersions ==
  ASSUME Basics, NEW fs \in SUBSET Features, \A f \in fs : RowsOf(f) # {},
         NEW r \in ConsolidatedRows(fs)
  PROVE  /\ r.feature \in fs
         /\ r.version = LatestRow(r.feature).version + 1
         /\ r = [LatestRow(r.feature) EXCEPT !.version = @ + 1, !.addr = NewAddr(fs)]
         /\ \A s \in RowsOf(r.feature) : s.version < r.version
<1>1. PICK f \in fs : r = [LatestRow(f) EXCEPT !.version = @ + 1, !.addr = NewAddr(fs)]
  BY DEF ConsolidatedRows
<1>2. /\ LatestRow(f) \in RowsOf(f)
      /\ \A s \in RowsOf(f) : s.version <= LatestRow(f).version
  BY LatestRowIsGreatest DEF Basics
<1>3. /\ LatestRow(f) \in FeatureRow /\ LatestRow(f).feature = f
      /\ \A s \in RowsOf(f) : s.version \in Nat
  BY <1>2 DEF Basics, TypeOK, RowsOf, FeatureRow, Versions
<1>4. r.feature = f /\ r.version = LatestRow(f).version + 1
  BY <1>1, <1>3 DEF FeatureRow
<1>5. \A s \in RowsOf(f) : s.version < r.version
  <2>1. LatestRow(f).version \in Nat
    BY <1>3 DEF FeatureRow, Versions
  <2> QED
    BY <2>1, <1>2, <1>3, <1>4
<1> QED
  BY <1>1, <1>4, <1>5, Zenon

\* _add and consolidation give each feature they touch one new row.
LEMMA StepKeepsVersions ==
  ASSUME Basics, OneRowPerVersion, [Next]_vars
  PROVE  OneRowPerVersion'
<1>1. ASSUME NEW S, fmeta' = fmeta \cup S,
             \A r \in S : \A s \in RowsOf(r.feature) : s.version < r.version,
             \A r, s \in S : r.feature = s.feature => r = s,
             \A r \in S : r.version \in Nat
      PROVE  OneRowPerVersion'
  <2>1. \A r \in fmeta : r.version \in Nat
    BY DEF Basics, TypeOK, FeatureRow, Versions
  <2>2. \A r \in S, s \in fmeta : r.feature = s.feature => s.version < r.version
    BY <1>1 DEF RowsOf
  <2>3. \A r \in S, s \in fmeta : r.feature = s.feature => r.version # s.version
    BY <1>1, <2>1, <2>2
  <2> QED
    BY <1>1, <2>3 DEF OneRowPerVersion
<1>2. ASSUME NEW c \in Call, calls < MaxCalls, Add(c) PROVE OneRowPerVersion'
  <2>1. fmeta' = fmeta \cup FeatureRowsAfter(c)
    BY <1>2 DEF Add
  <2>2. ASSUME NEW r \in FeatureRowsAfter(c)
        PROVE  /\ r.version \in Nat
               /\ \A s \in RowsOf(r.feature) : s.version < r.version
    BY <1>2, NewFeatureRows DEF FeatureRow, Versions
  <2>3. \A r, s \in FeatureRowsAfter(c) : r.feature = s.feature => r = s
    BY DEF FeatureRowsAfter
  <2> QED
    BY <1>1, <2>1, <2>2, <2>3
<1>3. ASSUME NEW fs \in SUBSET Features, NEW hi \in Times, Consolidate(fs, hi)
      PROVE  OneRowPerVersion'
  <2>1. /\ fmeta' = fmeta \cup ConsolidatedRows(fs)
        /\ \A f \in fs : RowsOf(f) # {}
    BY <1>3 DEF Consolidate, StoreConsolidated
  <2>2. ASSUME NEW r \in ConsolidatedRows(fs)
        PROVE  /\ r.version \in Nat
               /\ \A s \in RowsOf(r.feature) : s.version < r.version
    <3>1. /\ r.version = LatestRow(r.feature).version + 1
          /\ r.feature \in fs
          /\ \A s \in RowsOf(r.feature) : s.version < r.version
      BY <2>1, ConsolidatedVersions
    <3>2. LatestRow(r.feature) \in RowsOf(r.feature)
      BY <2>1, <3>1, LatestRowIsGreatest DEF Basics
    <3>3. LatestRow(r.feature).version \in Nat
      BY <3>2 DEF Basics, TypeOK, FeatureRow, RowsOf, Versions
    <3> QED
      BY <3>1, <3>3
  <2>3. \A r, s \in ConsolidatedRows(fs) : r.feature = s.feature => r = s
    <3> TAKE r, s \in ConsolidatedRows(fs)
    <3>1. /\ r = [LatestRow(r.feature) EXCEPT !.version = @ + 1, !.addr = NewAddr(fs)]
          /\ s = [LatestRow(s.feature) EXCEPT !.version = @ + 1, !.addr = NewAddr(fs)]
      BY <2>1, ConsolidatedVersions
    <3> QED
      BY Zenon, <3>1
  <2> QED
    BY <1>1, <2>1, <2>2, <2>3
<1>4. CASE UNCHANGED fmeta
  BY <1>4 DEF OneRowPerVersion
<1> QED
  BY <1>2, <1>3, <1>4 DEF Next, ConsolidateStops, Raises, vars

\* One row per version, whatever the callers do: reads by name, and the next
\* call's choice of a version, find a single latest row of every feature.
THEOREM SingleVersions == Spec => []OneRowPerVersion
<1>1. Init => Basics /\ OneRowPerVersion
  BY BasicsInit DEF Init, OneRowPerVersion
<1>2. Basics /\ OneRowPerVersion /\ [Next]_vars => (Basics /\ OneRowPerVersion)'
  BY StepKeepsBasics, StepKeepsVersions
<1> QED
  BY <1>1, <1>2, PTL DEF Spec

\* Every branch of update_feature_tables, and align_feature_tables, leaves the
\* rows of an existing table where they are.
LEMMA TablesGrow ==
  ASSUME TypeOK, NEW c \in Call, NEW a \in Used
  PROVE  KeysOf(rows[a]) \subseteq KeysOf(UpdatedRows(c, a))
<1>1. rows[a] \in [Keys -> Nat]
  BY DEF TypeOK
<1>2. \A S : /\ KeysOf(rows[a]) \subseteq KeysOf(AppendRows(rows[a], S))
             /\ KeysOf(rows[a]) \subseteq KeysOf(MergeRows(rows[a], S))
  BY <1>1 DEF KeysOf, AppendRows, MergeRows, OneRowEach
<1>3. KeysOf(rows[a]) \subseteq KeysOf(PaddedRows(c, a))
  BY <1>1, PaddingCount DEF KeysOf, PaddedRows
<1> QED
  BY <1>2, <1>3 DEF UpdatedRows

\* Time travel, whatever the callers do: metadata rows are only added, and the
\* table behind a row of any version keeps every key it had.
THEOREM TimeTravel == Spec => VersionsSurvive
<1> DEFINE Survive == \A r \in fmeta :
                        /\ r \in fmeta'
                        /\ KeysOf(rows[r.addr]) \subseteq KeysOf(rows'[r.addr])
<1>1. Basics /\ [Next]_vars => Survive
  <2> SUFFICES ASSUME Basics, [Next]_vars, NEW r \in fmeta
               PROVE  /\ r \in fmeta'
                      /\ KeysOf(rows[r.addr]) \subseteq KeysOf(rows'[r.addr])
    OBVIOUS
  <2>1. r.addr \in Used /\ TypeOK
    BY DEF Basics, NoDanglingAddr
  <2>2. ASSUME NEW c \in Call, Add(c)
        PROVE  r \in fmeta' /\ rows'[r.addr] = UpdatedRows(c, r.addr)
    BY <2>1, <2>2 DEF Add
  <2>3. ASSUME NEW fs \in SUBSET Features, NEW hi \in Times,
               Consolidate(fs, hi) \/ ConsolidateStops(fs, hi)
        PROVE  r \in fmeta' /\ rows'[r.addr] = rows[r.addr]
    BY <2>1, <2>3 DEF Consolidate, ConsolidateStops, StoreConsolidated
  <2>4. CASE UNCHANGED <<rows, fmeta>>
    BY <2>4
  <2> QED
    BY <2>1, <2>2, <2>3, <2>4, TablesGrow DEF Next, Raises, vars
<1>2. Spec => []Basics
  BY BasicsHold
<1>3. Survive <=> (\A r \in fmeta : /\ r \in fmeta'
                     /\ KeysOf(rows[r.addr]) \subseteq KeysOf(rows'[r.addr]))
  OBVIOUS
<1> QED
  BY <1>1, <1>2, PTL DEF Spec, VersionsSurvive
=============================================================================
