------------------------ MODULE LakeAlignmentProofs ------------------------
(***************************************************************************)
(* The alignment of dense tables, for callers that keep to the usage rules *)
(* (Deviations = {}): what each branch of update_feature_tables and of     *)
(* align_feature_tables does to a table that holds exactly the index up to *)
(* its last_updated.                                                       *)
(***************************************************************************)
EXTENDS FeatureLakeProofs

\* The inductive invariant.
IInv == Basics /\ Uniform /\ LastUpdatedIsHonest /\ Horizons

\* The keys of S up to the period t.
Upto(S, t) == {k \in S : Time(k) <= t}

\* A table's last_updated is a period of the lake.
LEMMA LastUpdatedType ==
  ASSUME TypeOK, NEW a \in Used
  PROVE  LastUpdated(a) \in Nat /\ LastUpdated(a) \in Times
<1>1. tmeta[a] \in Seq(Times) /\ tmeta[a] # << >>
  BY DEF TypeOK
<1>2. LastUpdated(a) \in Times
  BY <1>1 DEF LastUpdated
<1> QED
  BY <1>2, KeysAssumption DEF Times, Time

\* Step 1, overlap_mode = "merge": a table that holds the index up to its
\* last_updated holds it up to the end of the input afterwards.
LEMMA MergeCovers ==
  ASSUME TypeOK, NEW c \in Call, NEW lu \in Nat, c.lo <= lu, lu <= c.hi
  PROVE  MergeRows(OneRowEach(Upto(index, lu)), MergedKeys(c))
           = OneRowEach(Upto(index \cup New(c), c.hi))
<1> SUFFICES ASSUME NEW k \in Keys
             PROVE  MergeRows(OneRowEach(Upto(index, lu)), MergedKeys(c))[k]
                      = OneRowEach(Upto(index \cup New(c), c.hi))[k]
  BY DEF MergeRows, OneRowEach
<1>1. Time(k) \in Nat /\ c.lo \in Nat /\ c.hi \in Nat
      /\ (k \in c.keys => c.lo <= Time(k) /\ Time(k) <= c.hi)
  BY CallFacts
<1>2. k \in MergedKeys(c) <=> \/ k \in c.keys
                              \/ /\ k \in index \ c.keys
                                 /\ c.lo <= Time(k) /\ Time(k) <= c.hi
  BY DEF MergedKeys, Missing
<1>3. k \in New(c) <=> k \in c.keys /\ k \notin index
  BY DEF New
<1> QED
  BY <1>1, <1>2, <1>3 DEF MergeRows, OneRowEach, Upto

\* Step 1, both append branches: the same.
LEMMA AppendCovers ==
  ASSUME TypeOK, NEW c \in Call, NEW g \in Used,
         ~ Overlaps(c, g), LastUpdated(g) <= c.hi
  PROVE  AppendRows(OneRowEach(Upto(index, LastUpdated(g))), AppendedKeys(c, g))
           = OneRowEach(Upto(index \cup New(c), c.hi))
<1> DEFINE lu == LastUpdated(g)
<1> SUFFICES ASSUME NEW k \in Keys
             PROVE  AppendRows(OneRowEach(Upto(index, lu)), AppendedKeys(c, g))[k]
                      = OneRowEach(Upto(index \cup New(c), c.hi))[k]
  BY DEF AppendRows, OneRowEach
<1>1. Time(k) \in Nat /\ c.lo \in Nat /\ c.hi \in Nat /\ lu \in Nat /\ lu <= c.hi
      /\ (k \in c.keys => c.lo <= Time(k) /\ Time(k) <= c.hi)
  BY CallFacts, LastUpdatedType
<1>2. k \in AppendedKeys(c, g) <=> \/ k \in c.keys
                                   \/ /\ k \in index \ c.keys
                                      /\ Time(k) <= c.hi /\ Time(k) > lu
  BY DEF AppendedKeys, Missing
<1>3. k \in New(c) <=> k \in c.keys /\ k \notin index
  BY DEF New
<1>4. k \in index /\ k \in c.keys => c.lo > lu
  BY <1>1 DEF Overlaps, AllNew, Inner
<1> HIDE DEF lu
<1> QED
  BY <1>1, <1>2, <1>3, <1>4 DEF AppendRows, OneRowEach, Upto

\* Step 1, copy mode: the table left behind keeps its last_updated, and gets
\* the new keys before it.
LEMMA FreezeCovers ==
  ASSUME TypeOK, NEW c \in Call, NEW g \in Used
  PROVE  AppendRows(OneRowEach(Upto(index, LastUpdated(g))), FrozenKeys(c, g))
           = OneRowEach(Upto(index \cup New(c), LastUpdated(g)))
BY DEF AppendRows, OneRowEach, FrozenKeys, New, Upto

\* Step 1, copy mode: the new table holds the index up to the end of the input.
LEMMA CopyCovers ==
  ASSUME TypeOK, NEW c \in Call, NEW g \in Copies(c), g \in Dense, NoGap(c),
         c.signal \in DenseSignals,
         rows[g] = OneRowEach(Upto(index, LastUpdated(g)))
  PROVE  CopiedRows(c, g) = OneRowEach(Upto(index \cup New(c), c.hi))
<1> DEFINE lu == LastUpdated(g)
<1> g \in Used
  BY DEF Dense
<1> SUFFICES ASSUME NEW k \in Keys
             PROVE  CopiedRows(c, g)[k]
                      = OneRowEach(Upto(index \cup New(c), c.hi))[k]
  BY DEF CopiedRows, AppendRows, OneRowEach
<1>1. Time(k) \in Nat /\ c.lo \in Nat /\ c.hi \in Nat /\ lu \in Nat
      /\ (k \in c.keys => c.lo <= Time(k) /\ Time(k) <= c.hi)
  BY CallFacts, LastUpdatedType
<1>2. c.lo <= lu /\ c.lo <= c.hi
  BY CallFacts DEF Copies, Overlaps
<1>3. KeptRows(c, g)[k] = IF k \in index /\ Time(k) < c.lo THEN 1 ELSE 0
  BY <1>1, <1>2 DEF KeptRows, OneRowEach, Upto
<1>4. k \in CopyPadding(c, g) => /\ k \in index \ c.keys
                                 /\ Time(k) <= c.hi /\ lu <= Time(k)
  BY DEF CopyPadding, Missing
<1>5. ASSUME k \in index \ c.keys, Time(k) <= c.hi, c.lo <= Time(k)
      PROVE  k \in CopyPadding(c, g)
  <2>1. k \in Missing(c)
    BY <1>5 DEF Missing
  <2>2. KeysOf(KeptRows(c, g)) # {} /\ lu <= Time(k)
    BY <1>1, <1>5, <2>1 DEF NoGap, Dense
  <2> QED
    BY <2>1, <2>2 DEF CopyPadding
<1>6. CopiedRows(c, g)[k]
        = KeptRows(c, g)[k]
            + (IF k \in c.keys \/ k \in CopyPadding(c, g) THEN 1 ELSE 0)
  BY DEF CopiedRows, AppendRows, OneRowEach
<1>7. k \in New(c) <=> k \in c.keys /\ k \notin index
  BY DEF New
<1> HIDE DEF lu
<1> QED
  BY <1>1, <1>2, <1>3, <1>4, <1>5, <1>6, <1>7 DEF OneRowEach, Upto

\* Step 1, features never seen before: so does their table.
LEMMA CreateCovers ==
  ASSUME TypeOK, NEW c \in Call, c.signal \in DenseSignals
  PROVE  OneRowEach(CreatedKeys(c)) = OneRowEach(Upto(index \cup New(c), c.hi))
<1>1. c.signal # "sparse_feature"
  BY DEF DenseSignals
<1>2. CreatedKeys(c) = c.keys \cup Missing(c)
  BY <1>1 DEF CreatedKeys
<1>3. CreatedKeys(c) = Upto(index \cup New(c), c.hi)
  BY <1>2, CallFacts DEF Missing, New, Upto
<1> QED
  BY <1>3

\* Step 2: align_feature_tables pads a table with each new key up to its
\* last_updated exactly once.
LEMMA PaddingCovers ==
  ASSUME TypeOK, Horizons, NEW c \in Call, NEW a \in Padded(c), NoOldBackfill(c),
         rows[a] = OneRowEach(Upto(index, LastUpdated(a)))
  PROVE  PaddedRows(c, a) = OneRowEach(Upto(index \cup New(c), LastUpdated(a)))
<1> DEFINE lu == LastUpdated(a)
<1> a \in Used /\ a \in Dense
  BY DEF Padded, Dense
<1> SUFFICES ASSUME NEW k \in Keys
             PROVE  PaddedRows(c, a)[k]
                      = OneRowEach(Upto(index \cup New(c), lu))[k]
  BY DEF PaddedRows, OneRowEach
<1>1. CASE k \notin New(c)
  BY <1>1 DEF PaddedRows, OneRowEach, Upto
<1>2. CASE k \in New(c)
  <2>1. rows[a][k] = 0
    BY <1>2 DEF OneRowEach, New, Upto
  <2>2. /\ Len(tmeta[a]) \in Nat /\ Len(tmeta[a]) # 0
        /\ \A i \in 1 .. Len(tmeta[a]) : tmeta[a][i] \in Nat
    <3>1. tmeta[a] \in Seq(Times) /\ tmeta[a] # << >>
      BY DEF TypeOK
    <3>2. Times \subseteq Nat
      BY KeysAssumption DEF Times, Time
    <3>3. Len(tmeta[a]) \in Nat /\ Len(tmeta[a]) # 0
      BY <3>1
    <3>4. \A i \in 1 .. Len(tmeta[a]) : tmeta[a][i] \in Times
      BY <3>1
    <3> QED
      BY <3>2, <3>3, <3>4
  <2>3. Time(k) \in Nat
    BY CallFacts
  <2>4. CASE Time(k) <= lu
    <3>1. Len(tmeta[a]) \in PaddingsOf(a, k)
      BY <2>2, <2>4 DEF PaddingsOf, LastUpdated
    <3>2. Cardinality(PaddingsOf(a, k)) = 1
      BY <1>2, <3>1, PaddingCount, FS_EmptySet DEF NoOldBackfill
    <3> QED
      BY <1>2, <2>1, <2>4, <3>2 DEF PaddedRows, OneRowEach, Upto
  <2>5. CASE ~ (Time(k) <= lu)
    <3>1. PaddingsOf(a, k) = {}
      BY <2>2, <2>3, <2>5, LastUpdatedType DEF PaddingsOf, Horizons
    <3> QED
      BY <1>2, <2>1, <2>5, <3>1, FS_EmptySet DEF PaddedRows, OneRowEach, Upto
  <2> QED
    BY <2>4, <2>5
<1> QED
  BY <1>1, <1>2

\* The usage rules, when none is lifted.
LEMMA UsageRulesHold ==
  ASSUME Deviations = {}, NEW c, Permitted(c)
  PROVE  NoRegress(c) /\ NoRewind(c) /\ NoGap(c) /\ NoOldBackfill(c) /\ SameSignal(c)
BY DEF Permitted

\* Where an existing dense table falls in a call.
LEMMA DenseCases ==
  ASSUME Basics, NEW c \in Call, calls < MaxCalls, NEW a \in Dense
  PROVE  /\ a \in Used /\ a # NoAddr
         /\ \/ a \in Merges(c) \/ a \in Copies(c) \/ a \in Appends(c) \/ a \in Padded(c)
         /\ a \in Homes(c) <=> a \in Merges(c) \cup Appends(c)
<1>1. a \in Used /\ a \in Addrs /\ a # NoAddr
  BY NoAddrAssumption DEF Dense, Basics, TypeOK
<1>2. a \in Merges(c) \/ a \in Copies(c) \/ a \in Appends(c) \/ a \in Padded(c)
  BY <1>1 DEF Appends, Old, Padded
<1>3. ASSUME a \in Homes(c) PROVE a \in Merges(c) \cup Appends(c)
  BY <1>1, <1>3, HomeFacts DEF Homes
<1>4. ASSUME a \in Merges(c) \cup Appends(c) PROVE a \in Homes(c)
  <2>1. a \in Targets(c) /\ a \notin Fresh(c)
    BY <1>1, <1>4 DEF Merges, Copies, Appends, Old, Fresh
  <2> QED
    BY <2>1 DEF Homes, Home
<1> QED
  BY <1>1, <1>2, <1>3, <1>4

\* What last_updated is after a call.
LEMMA LastUpdatedAfter ==
  ASSUME Basics, NEW c \in Call, calls < MaxCalls, Add(c), NEW a \in Used'
  PROVE  /\ a \in Homes(c) => LastUpdated(a)' = c.hi
         /\ a \notin Homes(c) => a \in Used /\ tmeta'[a] = tmeta[a]
         /\ a \notin Used => tmeta'[a] = <<c.hi>>
         /\ a \in Used \cap Homes(c) =>
              /\ Len(tmeta'[a]) = Len(tmeta[a]) + 1 /\ Len(tmeta[a]) \in Nat
              /\ tmeta'[a][Len(tmeta[a]) + 1] = c.hi
              /\ \A i \in 1 .. Len(tmeta[a]) : tmeta'[a][i] = tmeta[a][i]
<1>1. /\ Used' = Used \cup Homes(c)
      /\ tmeta'[a] = Recorded(a) \o (IF a \in Homes(c) THEN <<c.hi>> ELSE << >>)
  BY DEF Add, Used
<1>2. c.hi \in Times
  BY CallFacts
<1>3. CASE a \notin Homes(c)
  BY <1>1, <1>2, <1>3, RecordedAfter DEF Recorded, Basics
<1>4. CASE a \in Homes(c)
  <2>1. tmeta'[a] = Recorded(a) \o <<c.hi>>
    BY <1>1, <1>4
  <2>2. LastUpdated(a)' = tmeta'[a][Len(tmeta'[a])]
    BY DEF LastUpdated
  <2>3. LastUpdated(a)' = c.hi
    BY <1>2, <2>1, <2>2, RecordedAfter DEF Basics
  <2>4. a \in Used => Recorded(a) = tmeta[a]
    BY DEF Recorded
  <2>5. a \notin Used => tmeta'[a] = <<c.hi>>
    BY <2>1 DEF Recorded
  <2>6. /\ Len(tmeta'[a]) = Len(Recorded(a)) + 1 /\ Len(Recorded(a)) \in Nat
        /\ tmeta'[a][Len(Recorded(a)) + 1] = c.hi
        /\ \A i \in 1 .. Len(Recorded(a)) : tmeta'[a][i] = Recorded(a)[i]
    BY <1>2, <2>1, RecordedAfter DEF Basics
  <2> QED
    BY <1>4, <2>3, <2>4, <2>5, <2>6
<1> QED
  BY <1>3, <1>4

\* A table that is dense after a call was dense before it, or is the new table
\* of dense features, copied from a dense table if it is a copy.
LEMMA DenseAfter ==
  ASSUME Basics, Uniform, NEW c \in Call, calls < MaxCalls, Add(c),
         SameSignal(c), NEW a \in Dense'
  PROVE  \/ a \in Dense
         \/ /\ a \notin Used /\ a \in Homes(c)
            /\ c.signal \in DenseSignals
            /\ \E g \in Fresh(c) : a = Home(c, g) /\ (g \in Copies(c) => g \in Dense)
<1>1. a \in Used \cup Homes(c) /\ a \notin Unpadded'
  BY DEF Add, Used, Dense
<1>2. fmeta' = fmeta \cup FeatureRowsAfter(c) /\ calls < MaxCalls
  BY DEF Add
<1>3. a \notin Unpadded
  BY <1>1, <1>2 DEF Unpadded
<1>4. CASE a \in Used
  BY <1>3, <1>4 DEF Dense
<1>5. CASE a \notin Used
  <2>1. PICK g \in Fresh(c) : a = Home(c, g)
    BY <1>1, <1>2, <1>5, HomeFacts DEF Homes
  <2>2. g \in Targets(c)
    BY DEF Fresh, Copies, Old
  <2>3. PICK f \in Group(c, g) : f \in c.feats
    BY <2>2, OldIsUsed
  <2>4. AddrOf(f) = g /\ g \notin Appends(c)
    BY <2>3, NoAddrAssumption DEF Group, Fresh, Appends, Old
  <2>5. \E r \in FeatureRowsAfter(c) : r.addr = a /\ r.signal = c.signal
    <3> DEFINE r == [feature |-> f,
                     version |-> IF AddrOf(f) = NoAddr THEN 0
                                 ELSE NextRank(c, AddrOf(f)),
                     addr    |-> Home(c, AddrOf(f)),
                     signal  |-> c.signal]
    <3>1. r \in FeatureRowsAfter(c)
      BY <2>3, <2>4 DEF FeatureRowsAfter
    <3>2. r.addr = a /\ r.signal = c.signal
      BY <2>1, <2>4
    <3> QED
      BY <3>1, <3>2
  <2>6. c.signal \in DenseSignals
    BY <1>1, <1>2, <2>5 DEF Unpadded
  <2>7. ASSUME g \in Copies(c) PROVE g \in Dense
    <3>1. g \in Old(c)
      BY <2>7 DEF Copies
    <3>2. RowsOf(f) # {} /\ LatestRow(f) \in fmeta /\ LatestRow(f).addr = g
      BY <2>3, <3>1, OldIsUsed
    <3>3. LatestRow(f) \in RowsOf(f)
      BY <3>2, LatestRowIsGreatest DEF Basics
    <3>4. LatestRow(f).signal \in DenseSignals
      BY <2>3, <2>6, <3>3 DEF SameSignal
    <3>5. g \notin Unpadded
      BY <3>2, <3>4 DEF Uniform, Unpadded
    <3> QED
      BY <3>1, <3>5, OldIsUsed DEF Dense
  <2> QED
    BY <1>1, <1>5, <2>1, <2>6, <2>7
<1> QED
  BY <1>4, <1>5

\* _add keeps dense tables apart from as-of and sparse ones.
LEMMA AddKeepsUniform ==
  ASSUME Basics, Uniform, NEW c \in Call, calls < MaxCalls, Add(c), SameSignal(c)
  PROVE  Uniform'
<1>1. fmeta' = fmeta \cup FeatureRowsAfter(c) /\ calls < MaxCalls
  BY DEF Add
<1>2. ASSUME NEW r \in FeatureRowsAfter(c), NEW s \in fmeta, r.addr = s.addr
      PROVE  s.signal \in DenseSignals <=> c.signal \in DenseSignals
  <2> DEFINE f == r.feature
             g == AddrOf(f)
  <2>1. f \in c.feats /\ r.addr = Home(c, g)
    BY <1>1, NewFeatureRows
  <2>2. g \in Targets(c) /\ f \in Group(c, g)
    BY <2>1 DEF Targets, Group
  <2>3. r.addr \in Used
    BY <1>2 DEF Basics, NoDanglingAddr
  <2>4. g \notin Fresh(c) /\ g = r.addr
    BY <1>1, <2>1, <2>2, <2>3, HomeFacts
  <2>5. g \in Old(c)
    BY <2>2, <2>4 DEF Fresh, Old
  <2>6. RowsOf(f) # {} /\ LatestRow(f) \in fmeta /\ LatestRow(f).addr = g
    BY <2>2, <2>5, OldIsUsed
  <2>7. LatestRow(f) \in RowsOf(f)
    BY <2>6, LatestRowIsGreatest DEF Basics
  <2>8. LatestRow(f).signal \in DenseSignals <=> c.signal \in DenseSignals
    BY <2>1, <2>7 DEF SameSignal
  <2> QED
    BY <1>2, <2>4, <2>6, <2>8 DEF Uniform
<1>3. \A r \in FeatureRowsAfter(c) : r.signal = c.signal
  BY <1>1, NewFeatureRows
<1> QED
  BY <1>1, <1>2, <1>3 DEF Uniform

\* After a call of _add every dense table, old or new, holds exactly the index
\* rows up to its last_updated: one case per branch of update_feature_tables,
\* and one for align_feature_tables.
LEMMA AddKeepsCovers ==
  ASSUME IInv, NEW c \in Call, calls < MaxCalls, Permitted(c),
         Add(c), Deviations = {}, NEW a \in Dense'
  PROVE  Covers(a)'
<1> USE DEF IInv
<1>1. /\ NoRegress(c) /\ NoRewind(c) /\ NoGap(c) /\ NoOldBackfill(c) /\ SameSignal(c)
      /\ calls < MaxCalls /\ index' = index \cup New(c)
      /\ a \in Used => rows'[a] = UpdatedRows(c, a)
      /\ a \in Homes(c) \ Used => rows'[a] = CreatedRows(c, a)
  BY UsageRulesHold DEF Add
<1>2. SUFFICES rows'[a] = OneRowEach(Upto(index', LastUpdated(a)'))
  BY DEF Covers, Upto, OneRowEach
<1>3. a \in Used'
  BY DEF Dense
<1>4. TypeOK
  BY DEF Basics
<1>5. CASE a \in Dense
  <2>1. a \in Used /\ rows[a] = OneRowEach(Upto(index, LastUpdated(a)))
    BY <1>5 DEF Dense, LastUpdatedIsHonest, Covers, Upto
  <2>2. c.hi \in Nat /\ LastUpdated(a) \in Nat
    BY <1>4, <2>1, CallFacts, LastUpdatedType
  <2>3. CASE a \in Merges(c)
    <3>1. c.lo <= LastUpdated(a) /\ LastUpdated(a) <= c.hi
      BY <1>1, <1>5, <2>3 DEF Merges, Overlaps, NoRegress, Dense
    <3>2. LastUpdated(a)' = c.hi
      BY <1>1, <1>3, <1>5, <2>3, DenseCases, LastUpdatedAfter
    <3>3. rows'[a] = MergeRows(rows[a], MergedKeys(c))
      BY <1>1, <2>1, <2>3 DEF UpdatedRows, Merges, Copies, Appends, Padded, Old
    <3> QED
      BY <1>1, <1>4, <2>1, <2>2, <3>1, <3>2, <3>3, MergeCovers
  <2>4. CASE a \in Copies(c)
    <3>1. a \notin Homes(c)
      BY <1>1, <1>5, <2>4, DenseCases DEF Merges, Copies, Appends
    <3>2. LastUpdated(a)' = LastUpdated(a)
      BY <1>3, <3>1, LastUpdatedAfter DEF LastUpdated
    <3>3. rows'[a] = AppendRows(rows[a], FrozenKeys(c, a))
      BY <1>1, <2>1, <2>4 DEF UpdatedRows, Merges, Copies, Appends, Padded, Old
    <3> QED
      BY <1>1, <1>4, <2>1, <3>2, <3>3, FreezeCovers
  <2>5. CASE a \in Appends(c)
    <3>1. ~ Overlaps(c, a)
      BY <2>5, ModesAssumption DEF Appends, Merges, Copies, Call
    <3>2. LastUpdated(a) <= c.hi
      BY <1>1, <1>5, <2>5 DEF NoRewind, Dense
    <3>3. LastUpdated(a)' = c.hi
      BY <1>1, <1>3, <1>5, <2>5, DenseCases, LastUpdatedAfter
    <3>4. rows'[a] = AppendRows(rows[a], AppendedKeys(c, a))
      BY <1>1, <2>1, <2>5 DEF UpdatedRows, Merges, Copies, Appends, Padded, Old
    <3> QED
      BY <1>1, <1>4, <2>1, <3>1, <3>2, <3>3, <3>4, AppendCovers
  <2>6. CASE a \in Padded(c)
    <3>1. a \notin Targets(c)
      BY <2>6 DEF Padded
    <3>2. a \notin Homes(c)
      BY <1>1, <1>5, <3>1, DenseCases DEF Merges, Appends, Old
    <3>3. LastUpdated(a)' = LastUpdated(a)
      BY <1>3, <3>2, LastUpdatedAfter DEF LastUpdated
    <3>4. rows'[a] = PaddedRows(c, a)
      BY <1>1, <2>1, <2>6, <3>1 DEF UpdatedRows, Merges, Copies, Appends, Old
    <3> QED
      BY <1>1, <1>4, <2>1, <2>6, <3>3, <3>4, PaddingCovers
  <2> QED
    BY <1>1, <1>5, <2>3, <2>4, <2>5, <2>6, DenseCases
<1>6. CASE a \notin Dense
  <2>1. /\ a \notin Used /\ a \in Homes(c) /\ c.signal \in DenseSignals
        /\ \E g \in Fresh(c) : a = Home(c, g) /\ (g \in Copies(c) => g \in Dense)
    BY <1>1, <1>6, DenseAfter
  <2>2. LastUpdated(a)' = c.hi /\ rows'[a] = CreatedRows(c, a)
    BY <1>1, <1>3, <2>1, LastUpdatedAfter
  <2>3. PICK g \in Fresh(c) : a = Home(c, g) /\ (g \in Copies(c) => g \in Dense)
    BY <2>1
  <2>4. CASE g \in Copies(c)
    <3>1. (CHOOSE h \in Copies(c) : Home(c, h) = a) = g
      <4>1. \A h \in Copies(c) : Home(c, h) = a => h = g
        BY <1>1, <2>3, HomeFacts DEF Fresh
      <4> QED
        BY <2>3, <2>4, <4>1
    <3>2. CreatedRows(c, a) = CopiedRows(c, g)
      BY <2>3, <2>4, <3>1 DEF CreatedRows
    <3>3. rows[g] = OneRowEach(Upto(index, LastUpdated(g)))
      BY <2>3, <2>4 DEF LastUpdatedIsHonest, Covers, Upto
    <3> QED
      BY <1>1, <1>4, <2>1, <2>2, <2>3, <2>4, <3>2, <3>3, CopyCovers
  <2>5. CASE g \notin Copies(c)
    <3>1. \A h \in Copies(c) : Home(c, h) # a
      BY <1>1, <2>3, <2>5, HomeFacts DEF Fresh
    <3>2. CreatedRows(c, a) = OneRowEach(CreatedKeys(c))
      BY <3>1 DEF CreatedRows
    <3> QED
      BY <1>1, <1>4, <2>1, <2>2, <3>2, CreateCovers
  <2> QED
    BY <2>4, <2>5
<1> QED
  BY <1>5, <1>6

\* _add never lowers the last_updated of a dense table, and sets it to a
\* period of the index.
LEMMA AddKeepsHorizons ==
  ASSUME IInv, NEW c \in Call, calls < MaxCalls, Permitted(c),
         Add(c), Deviations = {}
  PROVE  Horizons'
<1> USE DEF IInv
<1>1. /\ NoRegress(c) /\ NoRewind(c) /\ SameSignal(c)
      /\ calls < MaxCalls /\ index' = index \cup New(c)
  BY UsageRulesHold DEF Add
<1>2. \E k \in index' : Time(k) = c.hi
  <2>1. PICK k \in c.keys : Time(k) = c.hi
    BY CallFacts
  <2> QED
    BY <1>1, <2>1 DEF New
<1> SUFFICES ASSUME NEW a \in Dense'
             PROVE  /\ \A i \in 1 .. Len(tmeta'[a]) : tmeta'[a][i] <= LastUpdated(a)'
                    /\ \E k \in index' : Time(k) = LastUpdated(a)'
  BY DEF Horizons
<1>3. a \in Used' /\ c.hi \in Nat
  BY CallFacts DEF Dense
<1>4. CASE a \notin Homes(c)
  <2>1. a \in Dense /\ tmeta'[a] = tmeta[a]
    BY <1>1, <1>3, <1>4, DenseAfter, LastUpdatedAfter
  <2>2. LastUpdated(a)' = LastUpdated(a)
    BY <2>1 DEF LastUpdated
  <2> QED
    BY <1>1, <2>1, <2>2 DEF Horizons
<1>5. CASE a \in Homes(c) /\ a \notin Used
  <2>1. tmeta'[a] = <<c.hi>> /\ LastUpdated(a)' = c.hi
    BY <1>3, <1>5, LastUpdatedAfter
  <2> QED
    BY <1>2, <1>3, <2>1
<1>6. CASE a \in Homes(c) /\ a \in Used
  <2>1. a \in Dense /\ a \in Merges(c) \cup Appends(c)
    BY <1>1, <1>6, DenseAfter, DenseCases
  <2>2. LastUpdated(a) <= c.hi
    BY <1>1, <2>1 DEF NoRegress, NoRewind, Dense
  <2>3. /\ LastUpdated(a)' = c.hi
        /\ Len(tmeta'[a]) = Len(tmeta[a]) + 1 /\ Len(tmeta[a]) \in Nat
        /\ tmeta'[a][Len(tmeta[a]) + 1] = c.hi
        /\ \A i \in 1 .. Len(tmeta[a]) : tmeta'[a][i] = tmeta[a][i]
    BY <1>3, <1>6, LastUpdatedAfter
  <2>4. /\ \A i \in 1 .. Len(tmeta[a]) : tmeta[a][i] <= LastUpdated(a)
        /\ \A i \in 1 .. Len(tmeta[a]) : tmeta[a][i] \in Nat
        /\ LastUpdated(a) \in Nat
    <3>1. tmeta[a] \in Seq(Times)
      BY <1>6 DEF Basics, TypeOK
    <3>2. Times \subseteq Nat
      BY KeysAssumption DEF Times, Time
    <3>3. \A i \in 1 .. Len(tmeta[a]) : tmeta[a][i] \in Times
      BY <3>1
    <3> QED
      BY <1>6, <2>1, <3>2, <3>3, LastUpdatedType DEF Horizons, Basics
  <2>5. ASSUME NEW i \in 1 .. Len(tmeta'[a]) PROVE tmeta'[a][i] <= c.hi
    <3>1. i \in 1 .. Len(tmeta[a]) \/ i = Len(tmeta[a]) + 1
      BY <2>3
    <3> QED
      BY <1>3, <2>2, <2>3, <2>4, <3>1
  <2> QED
    BY <1>2, <2>3, <2>5
<1> QED
  BY <1>4, <1>5, <1>6

\* Consolidation touches no existing table, and its new one covers the index.
LEMMA ConsolidateKeepsIInv ==
  ASSUME IInv, NEW fs \in SUBSET Features, NEW hi \in Times,
         calls < MaxCalls, SpansIndex(fs), StoreConsolidated(fs, hi),
         fmeta' = fmeta \/ fmeta' = fmeta \cup ConsolidatedRows(fs)
  PROVE  IInv'
<1> USE DEF IInv
<1> DEFINE b == NewAddr(fs)
<1>1. /\ index' = index
      /\ \A f \in fs : RowsOf(f) # {} /\ LatestRow(f).signal \in DenseSignals
      /\ \E s \in Sources(fs) : LastUpdated(s) = hi
      /\ \A s \in Sources(fs) : LastUpdated(s) <= hi
  BY Zenon DEF StoreConsolidated, MergedLastUpdated
<1>2. /\ rows' = [a \in Used \cup {b} |->
                    IF a \in Used THEN rows[a] ELSE OneRowEach(index)]
      /\ tmeta' = [a \in Used \cup {b} |->
                     IF a \in Used THEN tmeta[a] ELSE <<hi>>]
      /\ fmeta \subseteq fmeta' /\ fmeta' \subseteq fmeta \cup ConsolidatedRows(fs)
  BY Zenon DEF StoreConsolidated
<1>3. Basics'
  BY ConsolidateKeepsBasics
<1>4. b \notin Used /\ Used' = Used \cup {b}
  <2>1. b[1] = calls + 1 /\ calls \in Nat
    BY DEF NewAddr, Basics, TypeOK
  <2>2. \A a \in Used : a[1] <= calls /\ a[1] \in Nat
    BY DEF Basics, TypeOK, Young, Addrs
  <2>3. b \notin Used
    BY <2>1, <2>2
  <2> QED
    BY <1>2, <2>3 DEF Used
<1>5. ASSUME NEW f \in fs
      PROVE  /\ LatestRow(f) \in fmeta /\ LatestRow(f) \in FeatureRow
             /\ AddrOf(f) = LatestRow(f).addr
             /\ AddrOf(f) \in Dense
  <2>1. LatestRow(f) \in fmeta /\ AddrOf(f) = LatestRow(f).addr
    BY <1>1, AddrOfFeature DEF Basics
  <2>2. AddrOf(f) \notin Unpadded
    BY <1>1, <2>1 DEF Uniform, Unpadded
  <2> QED
    BY <2>1, <2>2 DEF Dense, Basics, NoDanglingAddr, TypeOK
<1>6. ASSUME NEW r \in fmeta' \ fmeta
      PROVE  r.addr = b /\ r.signal \in DenseSignals
  <2>1. PICK f \in fs : r = [LatestRow(f) EXCEPT !.version = @ + 1, !.addr = b]
    BY <1>2 DEF ConsolidatedRows
  <2>2. r.addr = b /\ r.signal = LatestRow(f).signal
    BY <1>5, <2>1 DEF FeatureRow
  <2> QED
    BY <1>1, <2>2
<1>7. Uniform'
  <2>1. \A r \in fmeta : r.addr # b
    BY <1>4 DEF Basics, NoDanglingAddr
  <2> QED
    BY <1>6, <2>1 DEF Uniform
<1>8. ASSUME NEW a \in Dense'
      PROVE  \/ a \in Dense /\ a # b /\ rows'[a] = rows[a] /\ tmeta'[a] = tmeta[a]
             \/ a = b /\ rows'[a] = OneRowEach(index) /\ tmeta'[a] = <<hi>>
  <2>1. a \in Used \cup {b} /\ a \notin Unpadded'
    BY <1>4 DEF Dense
  <2>2. Unpadded \subseteq Unpadded'
    BY <1>2 DEF Unpadded
  <2> QED
    BY <1>2, <1>4, <2>1, <2>2 DEF Dense
<1>9. /\ \A k \in index : Time(k) <= hi
      /\ \E k \in index : Time(k) = hi
  <2>1. Sources(fs) \subseteq Dense
    BY <1>5 DEF Sources
  <2>2. PICK s \in Sources(fs) : \A k \in index : Time(k) <= LastUpdated(s)
    BY DEF SpansIndex
  <2>3. LastUpdated(s) <= hi /\ LastUpdated(s) \in Nat /\ hi \in Nat
    BY <1>1, <2>1, LastUpdatedType DEF Basics, Dense
  <2>4. \A k \in index : Time(k) \in Nat
    BY KeysAssumption DEF Time, Basics, TypeOK
  <2> QED
    BY <1>1, <2>1, <2>2, <2>3, <2>4 DEF Horizons
<1>10. LastUpdatedIsHonest'
  <2> SUFFICES ASSUME NEW a \in Dense'
               PROVE  rows'[a] = OneRowEach(Upto(index', LastUpdated(a)'))
    BY DEF LastUpdatedIsHonest, Covers, Upto, OneRowEach
  <2>1. CASE a \in Dense /\ rows'[a] = rows[a] /\ tmeta'[a] = tmeta[a]
    BY <1>1, <2>1 DEF LastUpdatedIsHonest, Covers, Upto, LastUpdated
  <2>2. CASE rows'[a] = OneRowEach(index) /\ tmeta'[a] = <<hi>>
    <3>1. LastUpdated(a)' = hi
      BY <2>2 DEF LastUpdated
    <3>2. Upto(index, hi) = index
      BY <1>9 DEF Upto
    <3> QED
      BY <1>1, <2>2, <3>1, <3>2
  <2> QED
    BY <1>8, <2>1, <2>2
<1>11. Horizons'
  <2> SUFFICES ASSUME NEW a \in Dense'
               PROVE  /\ \A i \in 1 .. Len(tmeta'[a]) : tmeta'[a][i] <= LastUpdated(a)'
                      /\ \E k \in index' : Time(k) = LastUpdated(a)'
    BY DEF Horizons
  <2>1. CASE a \in Dense /\ tmeta'[a] = tmeta[a]
    BY <1>1, <2>1 DEF Horizons, LastUpdated
  <2>2. CASE tmeta'[a] = <<hi>>
    <3>1. LastUpdated(a)' = hi /\ hi \in Nat
      BY <2>2, KeysAssumption DEF LastUpdated, Times, Time
    <3> QED
      BY <1>1, <1>9, <2>2, <3>1
  <2> QED
    BY <1>8, <2>1, <2>2
<1> QED
  BY <1>3, <1>7, <1>10, <1>11

\* The strengthening of alignment is an invariant, for callers that keep to
\* the usage rules: alignment alone is not inductive, as the next call reads
\* last_updated and not the table.
THEOREM Inductive ==
  ASSUME Deviations = {}
  PROVE  Spec => []IInv
<1>1. Init => IInv
  BY MaxCallsAssumption
     DEF Init, IInv, Basics, TypeOK, Young, NoDanglingAddr, Used, Uniform,
         LastUpdatedIsHonest, Horizons, Dense
<1>2. IInv /\ [Next]_vars => IInv'
  <2> SUFFICES ASSUME IInv, [Next]_vars PROVE IInv'
    OBVIOUS
  <2>1. ASSUME NEW c \in Call, calls < MaxCalls, Permitted(c), Add(c) PROVE IInv'
    <3>1. Basics'
      BY <2>1, AddKeepsBasics DEF IInv
    <3>2. Uniform'
      BY <2>1, AddKeepsUniform, UsageRulesHold DEF IInv, Add
    <3>3. LastUpdatedIsHonest'
      BY <2>1, AddKeepsCovers DEF LastUpdatedIsHonest
    <3>4. Horizons'
      BY <2>1, AddKeepsHorizons
    <3> QED
      BY <3>1, <3>2, <3>3, <3>4 DEF IInv
  <2>2. ASSUME NEW fs \in SUBSET Features, NEW hi \in Times,
               calls < MaxCalls, ConsolidatePermitted(fs),
               Consolidate(fs, hi) \/ ConsolidateStops(fs, hi)
        PROVE  IInv'
    BY <2>2, ConsolidateKeepsIInv
       DEF ConsolidatePermitted, Consolidate, ConsolidateStops
  <2>3. CASE calls < MaxCalls /\ Raises
    <3>1. Basics'
      BY <2>3, RaisesKeepsBasics DEF IInv
    <3> QED
      BY <2>3, <3>1 DEF Raises, IInv, Used, Uniform, LastUpdatedIsHonest, Covers,
                        Horizons, Dense, Unpadded, LastUpdated
  <2>4. CASE UNCHANGED vars
    BY <2>4 DEF vars, IInv, Basics, TypeOK, Young, NoDanglingAddr, Used, Uniform,
                LastUpdatedIsHonest, Covers, Horizons, Dense, Unpadded,
                LastUpdated, FeatureRow, Versions, Addrs
  <2> QED
    BY <2>1, <2>2, <2>3, <2>4 DEF Next
<1> QED
  BY <1>1, <1>2, PTL DEF Spec

\* last_updated never lies: whatever mix of calls came before, a dense table
\* holds exactly the index keys up to its last_updated, each once.
THEOREM HonestLastUpdated ==
  ASSUME Deviations = {}
  PROVE  Spec => []LastUpdatedIsHonest
<1>1. IInv => LastUpdatedIsHonest
  BY DEF IInv
<1> QED
  BY <1>1, Inductive, PTL

\* A table that holds the index up to a period is a prefix of the index in
\* sort-key order, if the period is what sorts first.
LEMMA CoversIsAligned ==
  ASSUME IInv, PrimaryLeads
  PROVE  TablesAligned
<1> SUFFICES ASSUME NEW a \in Dense PROVE Aligned(a)
  BY DEF TablesAligned
<1>1. a \in Used /\ LastUpdated(a) \in Nat
  BY LastUpdatedType DEF Dense, IInv, Basics
<1>2. rows[a] = OneRowEach({k \in index : Time(k) <= LastUpdated(a)})
  BY DEF IInv, LastUpdatedIsHonest, Covers
<1>3. KeysOf(rows[a]) = {k \in index : Time(k) <= LastUpdated(a)}
  BY <1>2 DEF KeysOf, OneRowEach, IInv, Basics, TypeOK
<1>4. \A k \in index : k[1] \in Nat /\ Time(k) = k[1]
  BY KeysAssumption DEF Time, IInv, Basics, TypeOK
<1>5. ASSUME NEW k \in KeysOf(rows[a]), NEW j \in index, SortsBefore(j, k)
      PROVE  j \in KeysOf(rows[a])
  BY <1>1, <1>3, <1>4, <1>5 DEF SortsBefore
<1>6. \A k \in Keys : rows[a][k] <= OneRowEach(index)[k]
  BY <1>2 DEF OneRowEach
<1> QED
  BY <1>5, <1>6 DEF Aligned

\* Alignment, for every number of keys, features, tables and calls: when the
\* primary sort key leads sort_keys, every dense table is a prefix of the index.
THEOREM Alignment ==
  ASSUME Deviations = {}, PrimaryLeads
  PROVE  Spec => []TablesAligned
<1>1. IInv => TablesAligned
  BY CoversIsAligned
<1> QED
  BY <1>1, Inductive, PTL
=============================================================================
