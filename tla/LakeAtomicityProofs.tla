------------------------ MODULE LakeAtomicityProofs ------------------------
(***************************************************************************)
(* One writer at a time: a transaction with any faults and crashes, local  *)
(* or on Ray, is one call of FeatureLake or none.  What is done of a call  *)
(* is, at every moment, what FeatureLake says of the tables it found; the  *)
(* last task, or the last table restored, makes the step complete.         *)
(***************************************************************************)
EXTENDS LakeRollbackProofs

-----------------------------------------------------------------------------
(* FeatureLake, of a snapshot and of the content. *)

\* A call's own snapshot, when it is of the content of the lake.
LEMMA SnapshotAgrees ==
  ASSUME NEW w, job[w].index = Present(Content.index), job[w].fmeta = Content.fmeta,
         job[w].tmeta = Content.tmeta, job[w].tx - 1 = calls - Cardinality(Underway),
         NEW c
  PROVE  /\ Seen(w)!New(c) = P!New(c)
         /\ Seen(w)!Targets(c) = P!Targets(c)
         /\ Seen(w)!Fresh(c) = P!Fresh(c)
         /\ Seen(w)!Merges(c) = P!Merges(c)
         /\ Seen(w)!Copies(c) = P!Copies(c)
         /\ Seen(w)!Appends(c) = P!Appends(c)
         /\ \A g : Seen(w)!Home(c, g) = P!Home(c, g)
         /\ Seen(w)!Homes(c) = P!Homes(c)
         /\ Seen(w)!Missing(c) = P!Missing(c)
         /\ Seen(w)!CreatedKeys(c) = P!CreatedKeys(c)
         /\ Seen(w)!MergedKeys(c) = P!MergedKeys(c)
         /\ \A g : /\ Seen(w)!AppendedKeys(c, g) = P!AppendedKeys(c, g)
                  /\ Seen(w)!FrozenKeys(c, g) = P!FrozenKeys(c, g)
                  /\ Seen(w)!LastUpdated(g) = P!LastUpdated(g)
         /\ \A a, k : Seen(w)!PaddingsOf(a, k) = P!PaddingsOf(a, k)
         /\ Seen(w)!Padded(c) = P!Padded(c)
         /\ Seen(w)!FeatureRowsAfter(c) = P!FeatureRowsAfter(c)
<1>1. /\ Seen(w)!New(c) = P!New(c)
      /\ Seen(w)!Missing(c) = P!Missing(c)
      /\ Seen(w)!MergedKeys(c) = P!MergedKeys(c)
      /\ Seen(w)!CreatedKeys(c) = P!CreatedKeys(c)
  BY DEF Seen!New, P!New, Seen!Missing, P!Missing, Seen!MergedKeys, P!MergedKeys,
         Seen!CreatedKeys, P!CreatedKeys, Seen!Time, P!Time
<1>2. /\ \A f : Seen(w)!AddrOf(f) = P!AddrOf(f)
      /\ \A f : Seen(w)!LatestRow(f) = P!LatestRow(f)
  BY DEF Seen!AddrOf, P!AddrOf, Seen!RowsOf, P!RowsOf, Seen!LatestRow, P!LatestRow
<1>3. \A g : Seen(w)!LastUpdated(g) = P!LastUpdated(g)
  BY DEF Seen!LastUpdated, P!LastUpdated
<1>4. \A a, k : Seen(w)!PaddingsOf(a, k) = P!PaddingsOf(a, k)
  BY DEF Seen!PaddingsOf, P!PaddingsOf, Seen!Time, P!Time
<1>5. \A g : /\ Seen(w)!AppendedKeys(c, g) = P!AppendedKeys(c, g)
            /\ Seen(w)!FrozenKeys(c, g) = P!FrozenKeys(c, g)
  BY <1>1, <1>3
     DEF Seen!AppendedKeys, P!AppendedKeys, Seen!FrozenKeys, P!FrozenKeys, Seen!Time,
         P!Time
<1>6. /\ Seen(w)!Targets(c) = P!Targets(c)
      /\ \A g : Seen(w)!Group(c, g) = P!Group(c, g)
  BY <1>2 DEF Seen!Targets, P!Targets, Seen!Group, P!Group
<1>7. /\ Seen(w)!Merges(c) = P!Merges(c)
      /\ Seen(w)!Copies(c) = P!Copies(c)
      /\ Seen(w)!Appends(c) = P!Appends(c)
  BY <1>3, <1>6
     DEF Seen!Merges, P!Merges, Seen!Copies, P!Copies, Seen!Appends, P!Appends,
         Seen!Old, P!Old, Seen!Overlaps, P!Overlaps, Seen!AllNew, P!AllNew, Seen!Inner,
         P!Inner
<1>8. /\ Seen(w)!Fresh(c) = P!Fresh(c)
      /\ \A g : Seen(w)!Home(c, g) = P!Home(c, g)
  BY <1>6, <1>7 DEF Seen!Fresh, P!Fresh, Seen!Home, P!Home, Seen!NewAddr, P!NewAddr
<1>9. Seen(w)!Homes(c) = P!Homes(c)
  BY <1>6, <1>8 DEF Seen!Homes, P!Homes
<1>10. Seen(w)!Unpadded = P!Unpadded
  BY DEF Seen!Unpadded, P!Unpadded, Seen!DenseSignals, P!DenseSignals
<1>11. Seen(w)!Padded(c) = P!Padded(c)
  BY <1>6, <1>10 DEF Seen!Padded, P!Padded, Seen!Dense, P!Dense, Seen!Used, P!Used
<1>12. \A g : Seen(w)!NextRank(c, g) = P!NextRank(c, g)
  BY <1>2, <1>6 DEF Seen!NextRank, P!NextRank, Seen!Versions, P!Versions
<1>13. Seen(w)!FeatureRowsAfter(c) = P!FeatureRowsAfter(c)
  BY <1>2, <1>7, <1>8, <1>12 DEF Seen!FeatureRowsAfter, P!FeatureRowsAfter
<1> QED
  BY <1>1, <1>3, <1>4, <1>5, <1>6, <1>7, <1>8, <1>9, <1>11, <1>13

\* While the content stays as it is, so does what FeatureLake says of a call.
LEMMA ContentKept ==
  ASSUME UNCHANGED P!vars, NEW c
  PROVE  /\ P!New(c)' = P!New(c)
         /\ P!Targets(c)' = P!Targets(c)
         /\ P!Fresh(c)' = P!Fresh(c)
         /\ P!Padded(c)' = P!Padded(c)
         /\ \A a, k : P!PaddingsOf(a, k)' = P!PaddingsOf(a, k)
         /\ \A g : P!Home(c, g)' = P!Home(c, g)
         /\ P!Homes(c)' = P!Homes(c)
         /\ \A a : /\ P!UpdatedRows(c, a)' = P!UpdatedRows(c, a)
                   /\ P!CreatedRows(c, a)' = P!CreatedRows(c, a)
                   /\ P!Recorded(a)' = P!Recorded(a)
         /\ P!FeatureRowsAfter(c)' = P!FeatureRowsAfter(c)
         /\ P!Used' = P!Used
         /\ P!Permitted(c)' <=> P!Permitted(c)
<1>0. /\ Present(Content.index)' = Present(Content.index)
      /\ (DOMAIN Content.tmeta)' = DOMAIN Content.tmeta
      /\ [a \in DOMAIN Content.tmeta |-> Content.rows[a]]'
           = [a \in DOMAIN Content.tmeta |-> Content.rows[a]]
      /\ (Content.tmeta)' = Content.tmeta
      /\ (Content.fmeta)' = Content.fmeta
      /\ (calls - Cardinality(Underway))' = calls - Cardinality(Underway)
  BY DEF P!vars
<1>1. /\ P!New(c)' = P!New(c)
      /\ P!Missing(c)' = P!Missing(c)
      /\ P!MergedKeys(c)' = P!MergedKeys(c)
      /\ P!CreatedKeys(c)' = P!CreatedKeys(c)
  BY <1>0 DEF P!New, P!Missing, P!MergedKeys, P!CreatedKeys, P!Time
<1>2. /\ \A f : P!RowsOf(f)' = P!RowsOf(f)
      /\ \A f : P!AddrOf(f)' = P!AddrOf(f)
      /\ \A f : P!LatestRow(f)' = P!LatestRow(f)
  BY <1>0 DEF P!AddrOf, P!RowsOf, P!LatestRow
<1>3. \A g : P!LastUpdated(g)' = P!LastUpdated(g)
  BY <1>0 DEF P!LastUpdated
<1>4. \A a, k : P!PaddingsOf(a, k)' = P!PaddingsOf(a, k)
  BY <1>0 DEF P!PaddingsOf, P!Time
<1>5. \A g : /\ P!AppendedKeys(c, g)' = P!AppendedKeys(c, g)
            /\ P!FrozenKeys(c, g)' = P!FrozenKeys(c, g)
  BY <1>1, <1>3 DEF P!AppendedKeys, P!FrozenKeys, P!Time
<1>6. /\ P!Targets(c)' = P!Targets(c)
      /\ \A g : P!Group(c, g)' = P!Group(c, g)
  BY <1>2 DEF P!Targets, P!Group
<1>7. /\ P!Merges(c)' = P!Merges(c)
      /\ P!Copies(c)' = P!Copies(c)
      /\ P!Appends(c)' = P!Appends(c)
  BY <1>0, <1>3, <1>6
     DEF P!Merges, P!Copies, P!Appends, P!Old, P!Overlaps, P!AllNew, P!Inner
<1>8. /\ P!Fresh(c)' = P!Fresh(c)
      /\ \A g : P!Home(c, g)' = P!Home(c, g)
  BY <1>0, <1>6, <1>7 DEF P!Fresh, P!Home, P!NewAddr
<1>9. P!Homes(c)' = P!Homes(c)
  BY <1>6, <1>8 DEF P!Homes
<1>10. P!Unpadded' = P!Unpadded
  BY <1>0 DEF P!Unpadded, P!DenseSignals
<1>11. P!Padded(c)' = P!Padded(c) /\ P!Used' = P!Used
  BY <1>0, <1>6, <1>10 DEF P!Padded, P!Dense, P!Used
<1>12. \A g : P!NextRank(c, g)' = P!NextRank(c, g)
  BY <1>2, <1>6 DEF P!NextRank, P!Versions
<1>13. P!FeatureRowsAfter(c)' = P!FeatureRowsAfter(c)
  BY <1>2, <1>7, <1>8, <1>12 DEF P!FeatureRowsAfter
<1>14. \A g : /\ P!KeptRows(c, g)' = P!KeptRows(c, g)
             /\ P!KeysOf(P!KeptRows(c, g))' = P!KeysOf(P!KeptRows(c, g))
  BY <1>0 DEF P!KeptRows, P!KeysOf, P!Time
<1>15. \A g : P!CopiedRows(c, g)' = P!CopiedRows(c, g)
  <2>1. \A g : P!CopyPadding(c, g)' = P!CopyPadding(c, g)
    BY <1>1, <1>3, <1>14 DEF P!CopyPadding, P!DenseSignals, P!Time
  <2> QED
    BY <1>14, <2>1 DEF P!CopiedRows, P!AppendRows, P!OneRowEach
<1>16. \A a : P!PaddedRows(c, a)' = P!PaddedRows(c, a)
  <2>1. \A a, k : P!Cardinality(P!PaddingsOf(a, k))' = P!Cardinality(P!PaddingsOf(a, k))
    BY <1>4 DEF P!Cardinality
  <2> DEFINE R == [a \in DOMAIN Content.tmeta |-> Content.rows[a]]
  <2>2. \A a, k : R'[a][k] = R[a][k]
    BY <1>0
  <2> QED
    BY <1>1, <2>1, <2>2 DEF P!PaddedRows
<1>17. \A a : P!UpdatedRows(c, a)' = P!UpdatedRows(c, a)
  BY <1>0, <1>1, <1>5, <1>7, <1>11, <1>16
     DEF P!UpdatedRows, P!AppendRows, P!MergeRows, P!OneRowEach
<1>18. \A a : P!CreatedRows(c, a)' = P!CreatedRows(c, a)
  BY <1>1, <1>7, <1>8, <1>15 DEF P!CreatedRows, P!OneRowEach
<1>19. \A a : P!Recorded(a)' = P!Recorded(a)
  BY <1>0, <1>11 DEF P!Recorded
<1>20. P!Permitted(c)' <=> P!Permitted(c)
  <2>1. P!NoRegress(c)' <=> P!NoRegress(c)
    BY <1>3, <1>7, <1>10 DEF P!NoRegress
  <2>2. P!NoGap(c)' <=> P!NoGap(c)
    BY <1>1, <1>3, <1>7, <1>10, <1>14 DEF P!NoGap, P!Time
  <2>3. P!NoOldBackfill(c)' <=> P!NoOldBackfill(c)
    BY <1>1, <1>4, <1>11 DEF P!NoOldBackfill, P!Cardinality
  <2>4. P!SameSignal(c)' <=> P!SameSignal(c)
    BY <1>2 DEF P!SameSignal, P!DenseSignals
  <2>5. P!NoRewind(c)' <=> P!NoRewind(c)
    BY <1>3, <1>7, <1>10 DEF P!NoRewind
  <2> QED
    BY <2>1, <2>2, <2>3, <2>4, <2>5 DEF P!Permitted
<1> QED
  BY <1>1, <1>4, <1>6, <1>8, <1>9, <1>11, <1>13, <1>17, <1>18, <1>19, <1>20

\* L and P are FeatureLake of the same content.
LEMMA SameModel ==
  /\ L!vars = P!vars
  /\ L!Init <=> P!Init
  /\ L!Raises <=> P!Raises
  /\ L!Call = P!Call
  /\ \A c : L!Add(c) <=> P!Add(c)
  /\ \A c : L!Permitted(c) <=> P!Permitted(c)
<1>1. /\ L!vars = P!vars /\ (L!Init <=> P!Init) /\ (L!Raises <=> P!Raises)
      /\ L!Call = P!Call
  BY DEF L!vars, P!vars, L!Init, P!Init, L!Raises, P!Raises, L!Call, P!Call, L!Times,
         P!Times, L!Time, P!Time
<1>2. \A f : /\ L!AddrOf(f) = P!AddrOf(f) /\ L!RowsOf(f) = P!RowsOf(f)
            /\ L!LatestRow(f) = P!LatestRow(f)
  BY DEF L!AddrOf, P!AddrOf, L!RowsOf, P!RowsOf, L!LatestRow, P!LatestRow
<1>3. \A g : L!LastUpdated(g) = P!LastUpdated(g)
  BY DEF L!LastUpdated, P!LastUpdated
<1>4. \A c : /\ L!Targets(c) = P!Targets(c) /\ L!New(c) = P!New(c)
            /\ L!Missing(c) = P!Missing(c)
  BY <1>2 DEF L!Targets, P!Targets, L!New, P!New, L!Missing, P!Missing, L!Time, P!Time
<1>5. \A c, g : L!Group(c, g) = P!Group(c, g)
  BY <1>2 DEF L!Group, P!Group
<1>6. \A c : /\ L!Merges(c) = P!Merges(c) /\ L!Copies(c) = P!Copies(c)
            /\ L!Appends(c) = P!Appends(c)
  BY <1>3, <1>4
     DEF L!Merges, P!Merges, L!Copies, P!Copies, L!Appends, P!Appends, L!Old, P!Old,
         L!Overlaps, P!Overlaps, L!AllNew, P!AllNew, L!Inner, P!Inner
<1>7. L!Unpadded = P!Unpadded
  BY DEF L!Unpadded, P!Unpadded, L!DenseSignals, P!DenseSignals
<1>8. \A c : L!Padded(c) = P!Padded(c)
  BY <1>4, <1>7 DEF L!Padded, P!Padded, L!Dense, P!Dense, L!Used, P!Used
<1>9. \A c, g : /\ L!KeptRows(c, g) = P!KeptRows(c, g)
              /\ L!KeysOf(L!KeptRows(c, g)) = P!KeysOf(P!KeptRows(c, g))
  BY DEF L!KeysOf, P!KeysOf, L!KeptRows, P!KeptRows, L!Time, P!Time
<1>10. \A a, k : L!PaddingsOf(a, k) = P!PaddingsOf(a, k)
  BY DEF L!PaddingsOf, P!PaddingsOf, L!Time, P!Time
<1>11. \A S : L!Cardinality(S) = P!Cardinality(S)
  BY DEF L!Cardinality, P!Cardinality
<1>12. \A c : L!Permitted(c) <=> P!Permitted(c)
  <2> TAKE c
  <2>1. L!NoRegress(c) <=> P!NoRegress(c)
    BY <1>3, <1>6, <1>7 DEF L!NoRegress, P!NoRegress
  <2>2. L!NoGap(c) <=> P!NoGap(c)
    BY <1>3, <1>4, <1>6, <1>7, <1>9 DEF L!NoGap, P!NoGap, L!Time, P!Time
  <2>3. L!NoOldBackfill(c) <=> P!NoOldBackfill(c)
    BY <1>4, <1>8, <1>10, <1>11 DEF L!NoOldBackfill, P!NoOldBackfill
  <2>4. L!SameSignal(c) <=> P!SameSignal(c)
    BY <1>2 DEF L!SameSignal, P!SameSignal, L!DenseSignals, P!DenseSignals
  <2>5. L!NoRewind(c) <=> P!NoRewind(c)
    BY <1>3, <1>6, <1>7 DEF L!NoRewind, P!NoRewind
  <2> QED
    BY <2>1, <2>2, <2>3, <2>4, <2>5 DEF L!Permitted, P!Permitted
<1>13. \A c, a : L!PaddedRows(c, a) = P!PaddedRows(c, a)
  BY <1>4, <1>10, <1>11 DEF L!PaddedRows, P!PaddedRows
<1>14. \A c, g : /\ L!Home(c, g) = P!Home(c, g)
               /\ L!NextRank(c, g) = P!NextRank(c, g)
  BY <1>2, <1>4, <1>5, <1>6
     DEF L!Home, P!Home, L!Fresh, P!Fresh, L!NewAddr, P!NewAddr, L!NextRank, P!NextRank,
         L!Versions, P!Versions
<1>15. \A c, g : /\ L!MergedKeys(c) = P!MergedKeys(c)
               /\ L!AppendedKeys(c, g) = P!AppendedKeys(c, g)
               /\ L!FrozenKeys(c, g) = P!FrozenKeys(c, g)
               /\ L!CreatedKeys(c) = P!CreatedKeys(c)
               /\ L!CopyPadding(c, g) = P!CopyPadding(c, g)
  BY <1>3, <1>4, <1>9
     DEF L!MergedKeys, P!MergedKeys, L!AppendedKeys, P!AppendedKeys, L!FrozenKeys,
         P!FrozenKeys, L!CreatedKeys, P!CreatedKeys, L!CopyPadding, P!CopyPadding,
         L!DenseSignals, P!DenseSignals, L!Time, P!Time
<1>16. \A c, a : L!UpdatedRows(c, a) = P!UpdatedRows(c, a)
  BY <1>6, <1>8, <1>13, <1>15
     DEF L!UpdatedRows, P!UpdatedRows, L!AppendRows, P!AppendRows, L!MergeRows,
         P!MergeRows, L!OneRowEach, P!OneRowEach
<1>17. \A c, g : L!CopiedRows(c, g) = P!CopiedRows(c, g)
  <2> TAKE c, g
  <2>1. /\ L!KeptRows(c, g) = P!KeptRows(c, g)
        /\ L!CopyPadding(c, g) = P!CopyPadding(c, g)
    BY <1>9, <1>15
  <2> QED
    BY <2>1
       DEF L!CopiedRows, P!CopiedRows, L!AppendRows, P!AppendRows, L!OneRowEach,
           P!OneRowEach
<1>18. \A c, a : L!CreatedRows(c, a) = P!CreatedRows(c, a)
  <2> TAKE c, a
  <2>1. /\ L!Copies(c) = P!Copies(c) /\ \A g : L!Home(c, g) = P!Home(c, g)
        /\ L!CreatedKeys(c) = P!CreatedKeys(c)
    BY <1>6, <1>14, <1>15
  <2>2. (CHOOSE g \in L!Copies(c) : L!Home(c, g) = a)
          = CHOOSE g \in P!Copies(c) : P!Home(c, g) = a
    BY <2>1
  <2>3. (\E g \in L!Copies(c) : L!Home(c, g) = a) <=> \E g \in P!Copies(c) : P!Home(c, g) = a
    BY <2>1
  <2>4. L!OneRowEach(L!CreatedKeys(c)) = P!OneRowEach(P!CreatedKeys(c))
    BY <2>1 DEF L!OneRowEach, P!OneRowEach
  <2> QED
    BY <1>17, <2>2, <2>3, <2>4 DEF L!CreatedRows, P!CreatedRows
<1>19. \A c : /\ L!Homes(c) = P!Homes(c)
             /\ L!FeatureRowsAfter(c) = P!FeatureRowsAfter(c)
  BY <1>2, <1>4, <1>6, <1>14
     DEF L!Homes, P!Homes, L!FeatureRowsAfter, P!FeatureRowsAfter
<1>20. \A c : L!Add(c) <=> P!Add(c)
  BY <1>4, <1>16, <1>18, <1>19 DEF L!Add, P!Add, L!Used, P!Used, L!Recorded, P!Recorded
<1> QED
  BY <1>1, <1>12, <1>20

-----------------------------------------------------------------------------
(* The content of the lake, step by step. *)

\* It is what the call underway found, once it writes.
LEMMA ContentNow ==
  ASSUME OneAtATime
  PROVE  /\ Underway = {} => Content = lake /\ Cardinality(Underway) = 0
         /\ \A w \in Underway : /\ Underway = {w} /\ Cardinality(Underway) = 1
                                /\ Content = IF Reading(w) THEN lake ELSE job[w].start
<1>1. CASE Underway = {}
  BY <1>1, FS_EmptySet DEF Content
<1>2. ASSUME NEW w \in Underway
      PROVE  /\ Underway = {w} /\ Cardinality(Underway) = 1
             /\ Content = IF Reading(w) THEN lake ELSE job[w].start
  <2>1. Underway = {w}
    BY <1>2 DEF OneAtATime
  <2>2. Cardinality(Underway) = 1
    BY <2>1, FS_Singleton
  <2>3. (CHOOSE v \in Underway : TRUE) = w
    BY <2>1
  <2>4. (\E v \in Underway : job[v].pc \notin {"fmeta", "tmeta", "start"}) <=> ~ Reading(w)
    BY <2>1 DEF Reading
  <2> QED
    BY <2>1, <2>2, <2>3, <2>4 DEF Content
<1> QED
  BY <1>1, <1>2

\* The same, of the next state.
LEMMA ContentThen ==
  ASSUME OneAtATime'
  PROVE  /\ Underway' = {} => Content' = lake' /\ Cardinality(Underway)' = 0
         /\ \A w \in Underway' : /\ Underway' = {w} /\ Cardinality(Underway)' = 1
                                 /\ Content' = IF Reading(w)' THEN lake' ELSE job'[w].start
<1>1. CASE Underway' = {}
  BY <1>1, FS_EmptySet DEF Content
<1>2. ASSUME NEW w \in Underway'
      PROVE  /\ Underway' = {w} /\ Cardinality(Underway)' = 1
             /\ Content' = IF Reading(w)' THEN lake' ELSE job'[w].start
  <2>1. Underway' = {w}
    BY <1>2 DEF OneAtATime
  <2>2. Cardinality(Underway)' = 1
    BY <2>1, FS_Singleton
  <2>3. (CHOOSE v \in Underway' : TRUE) = w
    BY <2>1
  <2>4. (\E v \in Underway' : job'[v].pc \notin {"fmeta", "tmeta", "start"}) <=> ~ Reading(w)'
    BY <2>1 DEF Reading
  <2> QED
    BY <2>1, <2>2, <2>3, <2>4 DEF Content
<1> QED
  BY <1>1, <1>2

\* What most steps leave of a call: all that it read.
SameCall(w) ==
  /\ job'[w].tx = job[w].tx /\ job'[w].call = job[w].call
  /\ job'[w].index = job[w].index /\ job'[w].fmeta = job[w].fmeta
  /\ job'[w].tmeta = job[w].tmeta /\ job'[w].start = job[w].start

\* A task is submitted, fails, or commits.
TaskStep(w, t, state) ==
  /\ job'[w].pc = job[w].pc
  /\ job'[w].tasks = [job[w].tasks EXCEPT ![t] = state]
  /\ \/ state = "sent" /\ t \in In(w, {"unsent"}) /\ lake' = lake
     \/ state = "failed" /\ t \in InFlight(w) /\ lake' = lake
     \/ state = "frozen" /\ Freeze(w, t)
     \/ state = "done" /\ Run(w, t)

\* The body has ended; the rollback may bring back a table.
Ending(w) ==
  /\ ~ At(w, "body")' /\ job'[w].tasks \in {job[w].tasks, << >>}
  /\ \/ lake' = lake
     \/ InFlight(w) = {} /\ lake'.index \in {lake.index, job[w].start.index}

Continues(w) ==
  /\ ~ Reading(w) /\ ~ Reading(w)' /\ w \in Underway' /\ SameCall(w)
  /\ \/ \E t \in DOMAIN job[w].tasks, state \in {"sent", "frozen", "done", "failed"} :
          TaskStep(w, t, state)
     \/ Ending(w)

\* A call that reads may only start its transaction or come to nothing; the
\* others go on, or end in one of three ways.
LEMMA StepKinds ==
  ASSUME TInv, SeqInv, NEW w \in Writers,
         Driver(w) \/ Worker(w) \/ Failure(w) \/ Recover(w)
  PROVE  /\ w \in Underway /\ calls' = calls
         /\ \A v \in Writers \ {w} : At(v, "idle") /\ job'[v] = job[v]
         /\ \/ ReadFeatureMetadata(w) \/ ReadTableMetadata(w) \/ StartTransaction(w)
            \/ Reading(w) /\ job' = [job EXCEPT ![w] = NoJob] /\ lake' = lake
            \/ Succeed(w)
            \/ LogRolledBack(w) \/ Recovered(w)
            \/ Continues(w)
<1> DEFINE j == job[w]
<1>1. /\ w \in Underway /\ calls' = calls
      /\ \A v \in Writers \ {w} : At(v, "idle") /\ job'[v] = job[v]
  BY OnlyActor
<1>2. /\ JobOK(w) /\ DOMAIN job = Writers /\ IsLake(lake)
      /\ DOMAIN j = {"pc", "tx", "call", "index", "fmeta", "tmeta", "start", "tasks",
                     "step", "left"}
  BY DEF TInv, JobOK, JobShape
<1>3. Pending(w) /\ Ordered(w)
  BY DEF SeqInv
<1>4. ASSUME NEW pc, NEW step, NEW left,
             pc \notin {"idle", "fmeta", "tmeta", "start", "body"},
             job' = [job EXCEPT ![w].pc = pc, ![w].step = step, ![w].left = left],
             \/ lake' = lake
             \/ InFlight(w) = {} /\ lake'.index \in {lake.index, j.start.index},
             ~ Reading(w)
      PROVE  Continues(w)
  <2>1. job'[w].pc = pc /\ SameCall(w) /\ job'[w].tasks = j.tasks
    BY <1>2, <1>4 DEF SameCall
  <2> QED
    BY <1>4, <2>1 DEF Continues, Ending, Underway, Reading, At
<1>5. ASSUME NEW pc \in {"raised", "waiting", "ended"}, Goto(w, pc), lake' = lake, ~ Reading(w)
      PROVE  Continues(w)
  <2>1. job' = [job EXCEPT ![w].pc = pc, ![w].step = j.step, ![w].left = j.left]
    BY <1>2, <1>5 DEF Goto
  <2> QED
    BY <1>4, <1>5, <2>1
<1>6. CASE Raise(w) \/ SuccessLogFails(w) \/ Interrupt(w) \/ LogFailed(w)
             \/ LogFailedFails(w) \/ LogRolledBackFails(w) \/ RestoreFails(w)
  <2>1. /\ \E pc \in {"raised", "waiting", "ended"} : Goto(w, pc)
        /\ lake' = lake /\ ~ Reading(w)
    BY <1>6 DEF Raise, SuccessLogFails, Interrupt, BodyReturns, LogFailed, LogFailedFails,
       LogRolledBackFails, RestoreFails, Restoring, Restored, Reading, At
  <2> QED
    BY <1>1, <1>5, <2>1
<1>7. CASE Wait(w) \/ Recover(w)
  <2>1. PICK pc \in {"restoring", "recovering"} :
          job' = [job EXCEPT ![w].pc = pc, ![w].step = "index", ![w].left = j.left]
    BY <1>2, <1>7 DEF Wait, Recover
  <2>2. lake' = lake /\ ~ Reading(w)
    BY <1>7 DEF Wait, Recover, Reading, At
  <2> QED
    BY <1>1, <1>4, <2>1, <2>2
<1>8. CASE RestoreSystemTable(w) \/ \E a \in j.left : RestoreDataTable(w, a)
  <2>1. PICK step, left :
          job' = [job EXCEPT ![w].pc = j.pc, ![w].step = step, ![w].left = left]
    BY <1>1, <1>8, RestoresInOrder
  <2>2. Restoring(w)
    BY <1>8 DEF RestoreSystemTable, RestoreDataTable
  <2>3. InFlight(w) = {} /\ j.pc \in {"restoring", "recovering"} /\ ~ Reading(w)
    BY <1>3, <2>2 DEF Ordered, Restoring, Reading
  <2>4. lake'.index \in {lake.index, j.start.index}
    BY <1>2, <1>8 DEF RestoreSystemTable, RestoreDataTable, IsLake, Put, JobOK, JobShape
  <2> QED
    BY <1>1, <1>4, <2>1, <2>3, <2>4
<1>9. CASE Crash(w) \/ StartFails(w)
  <2>1. CASE Crash(w) /\ log[j.tx] # << >>
    <3>1. job' = [job EXCEPT ![w] = [j EXCEPT !.pc = "ended", !.tasks = << >>]]
          /\ lake' = lake
      BY <2>1 DEF Crash
    <3>2. job'[w].pc = "ended" /\ job'[w].tasks = << >> /\ SameCall(w)
      BY <1>2, <3>1 DEF SameCall
    <3>3. ~ Reading(w)
      BY <1>1, <1>3, <2>1 DEF Pending
    <3> QED
      BY <1>1, <3>1, <3>2, <3>3 DEF Continues, Ending, Underway, Reading, At
  <2>2. CASE ~ (Crash(w) /\ log[j.tx] # << >>)
    BY <1>1, <1>3, <1>9, <2>2 DEF Crash, StartFails, Pending, Reading, At
  <2> QED
    BY <2>1, <2>2
<1>10. ASSUME NEW t \in DOMAIN j.tasks,
              Submit(w, t) \/ Freeze(w, t) \/ Run(w, t) \/ InheritFailure(w, t)
                \/ TaskFails(w, t)
       PROVE  Continues(w)
  <2>1. PICK state \in {"sent", "frozen", "done", "failed"} :
          /\ job' = [job EXCEPT ![w].tasks[t] = state]
          /\ \/ state = "sent" /\ t \in In(w, {"unsent"}) /\ lake' = lake
             \/ state = "failed" /\ t \in InFlight(w) /\ lake' = lake
             \/ state = "frozen" /\ Freeze(w, t)
             \/ state = "done" /\ Run(w, t)
    <3>1. CASE Submit(w, t)
      BY <3>1 DEF Submit
    <3>2. CASE Freeze(w, t)
      BY <3>2 DEF Freeze
    <3>3. CASE Run(w, t)
      BY <3>3 DEF Run
    <3>4. CASE InheritFailure(w, t) \/ TaskFails(w, t)
      BY <3>4 DEF InheritFailure, TaskFails
    <3> QED
      BY <1>10, <3>1, <3>2, <3>3, <3>4
  <2>2. /\ job'[w].pc = j.pc /\ job'[w].tasks = [j.tasks EXCEPT ![t] = state]
        /\ SameCall(w)
    BY <1>2, <2>1 DEF SameCall
  <2>3. ~ Reading(w) /\ ~ At(w, "idle")
    BY <1>1, <1>2, <1>10 DEF JobOK, Underway
  <2> QED
    BY <2>1, <2>2, <2>3 DEF Continues, TaskStep, Underway, Reading, At
<1> QED
  <2>1. CASE Driver(w)
    BY <1>1, <1>6, <1>7, <1>8, <1>10, <2>1 DEF Driver
  <2>2. CASE Worker(w) \/ Recover(w)
    BY <1>1, <1>7, <1>10, <2>2 DEF Worker
  <2>3. CASE Failure(w)
    BY <1>1, <1>6, <1>9, <1>10, <2>3 DEF Failure
  <2> QED
    BY <2>1, <2>2, <2>3

\* The snapshot of the call underway is of the lake it starts from.
SnapshotIsStart(w) ==
  LET j == job[w] IN
  /\ Reading(w) =>
       /\ j.index = Present(lake.index)
       /\ j.pc # "fmeta" => j.fmeta = lake.fmeta
       /\ j.pc = "start" => j.tmeta = lake.tmeta
  /\ w \in Underway /\ ~ Reading(w) =>
       j.index = Present(j.start.index) /\ j.fmeta = j.start.fmeta /\ j.tmeta = j.start.tmeta

Snapshots == \A w \in Writers : SnapshotIsStart(w)

\* Nobody writes between the reads and the start of the transaction.
LEMMA SnapshotsNext ==
  ASSUME Exclusive, TInv, SeqInv, Snapshots, [Next]_vars
  PROVE  Snapshots'
<1>1. CASE UNCHANGED vars
  BY <1>1 DEF vars, Snapshots, SnapshotIsStart, Reading, Underway, At, Present
<1>2. ASSUME NEW w \in Writers, Settled(w), NEW c, MayBegin(w, c), Begin(w, c)
      PROVE  Snapshots'
  <2>1. Underway' = {w}
    BY <1>2, BeginsInOrder
  <2>2. /\ job'[w].pc = "fmeta" /\ job'[w].index = Present(lake.index) /\ lake' = lake
    BY <1>2 DEF Begin, TInv, NoJob
  <2>3. SnapshotIsStart(w)'
    BY <2>2 DEF SnapshotIsStart, Reading, Present
  <2>4. ASSUME NEW v \in Writers \ {w} PROVE SnapshotIsStart(v)'
    <3>1. v \notin Underway' /\ ~ Reading(v)'
      BY <2>1, <2>4 DEF Underway, Reading, At
    <3> QED
      BY <3>1 DEF SnapshotIsStart
  <2> QED
    BY <2>3, <2>4 DEF Snapshots
<1>3. ASSUME NEW w \in Writers, Driver(w) \/ Worker(w) \/ Failure(w) \/ Recover(w)
      PROVE  Snapshots'
  <2> DEFINE j == job[w]
  <2>1. /\ w \in Underway /\ SnapshotIsStart(w) /\ DOMAIN job = Writers
        /\ \A v \in Writers \ {w} : At(v, "idle") /\ job'[v] = job[v]
        /\ DOMAIN j = {"pc", "tx", "call", "index", "fmeta", "tmeta", "start", "tasks",
                       "step", "left"}
    BY <1>3, StepKinds DEF Snapshots, TInv, JobOK, JobShape
  <2>2. ASSUME NEW v \in Writers \ {w} PROVE SnapshotIsStart(v)'
    <3>1. v \notin Underway' /\ ~ Reading(v)'
      BY <2>1, <2>2 DEF Underway, Reading, At
    <3> QED
      BY <3>1 DEF SnapshotIsStart
  <2>3. CASE ReadFeatureMetadata(w) \/ ReadTableMetadata(w)
    <3>1. /\ lake' = lake /\ job'[w].index = j.index /\ Reading(w) /\ Reading(w)'
          /\ \/ job'[w].pc = "tmeta" /\ job'[w].fmeta = lake.fmeta
             \/ j.pc = "tmeta" /\ job'[w].fmeta = j.fmeta /\ job'[w].tmeta = lake.tmeta
      BY <2>1, <2>3 DEF ReadFeatureMetadata, ReadTableMetadata, Reading, At
    <3> QED
      BY <2>1, <2>2, <3>1 DEF Snapshots, SnapshotIsStart, Present
  <2>4. CASE StartTransaction(w)
    <3>1. /\ job'[w].index = j.index /\ job'[w].fmeta = j.fmeta /\ job'[w].tmeta = j.tmeta
          /\ job'[w].start = lake /\ ~ Reading(w)' /\ j.pc = "start" /\ Reading(w)
      BY <2>1, <2>4 DEF StartTransaction, Reading, At
    <3>2. SnapshotIsStart(w)'
      BY <2>1, <3>1 DEF SnapshotIsStart, Present
    <3> QED
      BY <2>2, <3>2 DEF Snapshots
  <2>5. CASE \/ Reading(w) /\ job' = [job EXCEPT ![w] = NoJob] /\ lake' = lake
             \/ Succeed(w) \/ LogRolledBack(w) \/ Recovered(w)
    <3>1. job'[w].pc = "idle"
      BY <2>1, <2>5 DEF Succeed, LogRolledBack, Recovered, Goto, NoJob
    <3>2. w \notin Underway' /\ ~ Reading(w)'
      BY <3>1 DEF Underway, Reading, At
    <3> QED
      BY <2>2, <3>2 DEF Snapshots, SnapshotIsStart
  <2>6. CASE Continues(w)
    BY <2>1, <2>2, <2>6 DEF Continues, SameCall, Snapshots, SnapshotIsStart, Present
  <2> QED
    BY <1>3, <2>3, <2>4, <2>5, <2>6, StepKinds
<1> QED
  BY <1>1, <1>2, <1>3 DEF Next

-----------------------------------------------------------------------------
(* What a commit writes. *)

\* One table and nothing else.
LEMMA PutWrites ==
  ASSUME IsLake(lake), NEW table, NEW a, lake' = Put(table, a)
  PROVE  /\ lake'.index = lake.index /\ lake'.tmeta = lake.tmeta
         /\ lake'.fmeta = lake.fmeta
         /\ lake'.rows[a] = table
         /\ \A b \in DOMAIN lake.rows \ {a} : lake'.rows[b] = lake.rows[b]
BY DEF Put, IsLake

\* The tasks of a call, one by one.
LEMMA TaskCases ==
  ASSUME TInv, NEW w \in Writers, NEW t \in DOMAIN job[w].tasks
  PROVE  /\ DOMAIN job[w].tasks = Tasks(w)
         /\ \/ t.addr \in Seen(w)!Targets(job[w].call) /\ t = Task("update", t.addr, 0)
            \/ /\ t.addr \in Seen(w)!Padded(job[w].call) /\ t = Task("align", t.addr, t.row)
               /\ \E k \in Seen(w)!New(job[w].call) : t.row \in Seen(w)!PaddingsOf(t.addr, k)
            \/ t \in {Task(kind, NoAddr, 0) : kind \in {"index", "tmeta", "fmeta"}}
<1>1. DOMAIN job[w].tasks = Tasks(w)
  BY DEF TInv, JobOK, TasksOK
<1> QED
  BY <1>1 DEF Tasks, AlignTasks, Task

\* An update writes its table, or the new one it makes of it.
LEMMA UpdateWrites ==
  ASSUME TInv, NEW w \in Writers, NEW t \in DOMAIN job[w].tasks, t.kind = "update",
         lake' = Committed(w, t)
  PROVE  LET c == job[w].call
             g == t.addr
             home == Seen(w)!Home(c, g) IN
         /\ lake'.index = lake.index /\ lake'.tmeta = lake.tmeta
         /\ lake'.fmeta = lake.fmeta
         /\ \A b \in DOMAIN lake.rows \ {home} : lake'.rows[b] = lake.rows[b]
         /\ g \in Seen(w)!Merges(c) =>
              home = g /\ lake'.rows[g] = Now!MergeRows(lake.rows[g], Seen(w)!MergedKeys(c))
         /\ g \in Seen(w)!Appends(c) =>
              home = g /\ lake'.rows[g] = Now!AppendRows(lake.rows[g],
                                                         Seen(w)!AppendedKeys(c, g))
         /\ g \in Seen(w)!Copies(c) => lake'.rows[home] = Seen(w)!CopiedRows(c, g)
         /\ g = NoAddr => lake'.rows[home] = Now!OneRowEach(Seen(w)!CreatedKeys(c))
<1> DEFINE c == job[w].call
           g == t.addr
           home == Seen(w)!Home(c, g)
<1>1. g \in Seen(w)!Targets(c) /\ lake' = UpdateCommit(w, g) /\ IsLake(lake)
  BY TaskCases DEF Committed, TInv, Task
<1> HIDE DEF g
<1>2. /\ g = NoAddr => g \notin Seen(w)!Copies(c) \cup Seen(w)!Merges(c) \cup Seen(w)!Appends(c)
      /\ g \in Seen(w)!Copies(c) => g \notin Seen(w)!Merges(c) \cup Seen(w)!Appends(c)
      /\ g \in Seen(w)!Merges(c) => g \notin Seen(w)!Appends(c)
      /\ g \in Seen(w)!Merges(c) \cup Seen(w)!Appends(c) => home = g
      /\ g \in {NoAddr} \cup Seen(w)!Copies(c) \cup Seen(w)!Merges(c) \cup Seen(w)!Appends(c)
  BY <1>1 DEF Seen!Copies, Seen!Merges, Seen!Appends, Seen!Old, Seen!Home, Seen!Fresh
<1>3. CASE g = NoAddr
  <2>1. lake' = Put(Now!OneRowEach(Seen(w)!CreatedKeys(c)), home)
    BY <1>1, <1>2, <1>3 DEF UpdateCommit
  <2> QED
    BY <1>1, <1>2, <1>3, <2>1, PutWrites DEF g
<1>4. CASE g \in Seen(w)!Copies(c)
  <2>1. lake' = Put(Seen(w)!CopiedRows(c, g), home)
    BY <1>1, <1>2, <1>4 DEF UpdateCommit
  <2> QED
    BY <1>1, <1>2, <1>4, <2>1, PutWrites DEF g
<1>5. CASE g \in Seen(w)!Merges(c)
  <2>1. lake' = Put(Now!MergeRows(lake.rows[g], Seen(w)!MergedKeys(c)), g)
    BY <1>1, <1>2, <1>5 DEF UpdateCommit
  <2> QED
    BY <1>1, <1>2, <1>5, <2>1, PutWrites DEF g
<1>6. CASE g \in Seen(w)!Appends(c)
  <2>1. lake' = Put(Now!AppendRows(lake.rows[g], Seen(w)!AppendedKeys(c, g)), g)
    BY <1>1, <1>2, <1>6 DEF UpdateCommit
  <2> QED
    BY <1>1, <1>2, <1>6, <2>1, PutWrites DEF g
<1> QED
  BY <1>2, <1>3, <1>4, <1>5, <1>6

\* An alignment task appends to its table, and the others to their system table.
LEMMA OtherWrites ==
  ASSUME TInv, NEW w \in Writers, NEW t \in DOMAIN job[w].tasks, t.kind # "update",
         lake' = Committed(w, t)
  PROVE  LET c == job[w].call IN
         /\ t.kind = "align" =>
              /\ lake'.rows[t.addr] =
                   Now!AppendRows(lake.rows[t.addr],
                     {k \in Seen(w)!New(c) : t.row \in Seen(w)!PaddingsOf(t.addr, k)})
              /\ \A b \in DOMAIN lake.rows \ {t.addr} : lake'.rows[b] = lake.rows[b]
         /\ t.kind # "align" => lake'.rows = lake.rows
         /\ lake'.index = IF t.kind = "index" THEN Now!AppendRows(lake.index, Seen(w)!New(c))
                          ELSE lake.index
         /\ lake'.tmeta = IF t.kind = "tmeta" THEN TableMetadataCommit(w).tmeta
                          ELSE lake.tmeta
         /\ lake'.fmeta = IF t.kind = "fmeta" THEN lake.fmeta \cup Seen(w)!FeatureRowsAfter(c)
                          ELSE lake.fmeta
<1>1. t.kind \in {"align", "index", "tmeta", "fmeta"} /\ IsLake(lake)
  BY TaskCases DEF Task, TInv
<1>2. CASE t.kind = "align"
  <2> DEFINE table == Now!AppendRows(lake.rows[t.addr],
                        {k \in Seen(w)!New(job[w].call) : t.row \in Seen(w)!PaddingsOf(t.addr, k)})
  <2>1. lake' = Put(table, t.addr)
    BY <1>2 DEF Committed, AlignCommit
  <2> HIDE DEF table
  <2>2. /\ lake'.index = lake.index /\ lake'.tmeta = lake.tmeta /\ lake'.fmeta = lake.fmeta
        /\ lake'.rows[t.addr] = table
        /\ \A b \in DOMAIN lake.rows \ {t.addr} : lake'.rows[b] = lake.rows[b]
    BY <1>1, <2>1, PutWrites
  <2> QED
    BY <1>2, <2>2 DEF table
<1>3. CASE t.kind = "index"
  <2>1. lake' = [lake EXCEPT !.index = Now!AppendRows(@, Seen(w)!New(job[w].call))]
    BY <1>3 DEF Committed
  <2> QED
    BY <1>1, <1>3, <2>1 DEF IsLake
<1>4. CASE t.kind = "tmeta"
  <2>1. lake' = TableMetadataCommit(w)
    BY <1>4 DEF Committed
  <2>2. /\ lake'.index = lake.index /\ lake'.rows = lake.rows /\ lake'.fmeta = lake.fmeta
    BY <1>1, <2>1 DEF IsLake, TableMetadataCommit
  <2> QED
    BY <1>4, <2>1, <2>2
<1>5. CASE t.kind = "fmeta"
  <2>1. lake' = [lake EXCEPT !.fmeta = @ \cup Seen(w)!FeatureRowsAfter(job[w].call)]
    BY <1>5 DEF Committed
  <2> QED
    BY <1>1, <1>5, <2>1 DEF IsLake
<1> QED
  BY <1>1, <1>2, <1>3, <1>4, <1>5

\* The first commit of copy mode.
LEMMA FreezeWrites ==
  ASSUME TInv, NEW w \in Writers, NEW t \in DOMAIN job[w].tasks, Freeze(w, t)
  PROVE  /\ t.addr \in Seen(w)!Copies(job[w].call)
         /\ t = Task("update", t.addr, 0) /\ t.addr \in Seen(w)!Targets(job[w].call)
         /\ lake'.index = lake.index /\ lake'.tmeta = lake.tmeta
         /\ lake'.fmeta = lake.fmeta
         /\ lake'.rows[t.addr] = Now!AppendRows(lake.rows[t.addr],
                                   Seen(w)!FrozenKeys(job[w].call, t.addr))
         /\ \A b \in DOMAIN lake.rows \ {t.addr} : lake'.rows[b] = lake.rows[b]
<1>1. IsLake(lake) /\ t.kind = "update" /\ t.addr \in Seen(w)!Copies(job[w].call)
  BY DEF TInv, Freeze, IsCopy
<1>2. t = Task("update", t.addr, 0) /\ t.addr \in Seen(w)!Targets(job[w].call)
  BY <1>1, TaskCases DEF Task
<1> QED
  BY <1>1, <1>2, PutWrites DEF Freeze

-----------------------------------------------------------------------------
(* The index. *)

IndexTask == Task("index", NoAddr, 0)

\* Until the task that writes the index has run, the index is that of started_at:
\* so the keys it appends, new to the snapshot, are new to the table too.
IndexOnce ==
  /\ IndexUnique
  /\ \A w \in Underway : ~ Reading(w) =>
       /\ \A k \in Keys : job[w].start.index[k] <= 1
       /\ IndexTask \in In(w, {"unsent", "sent"}) => lake.index = job[w].start.index

\* A step of a call that goes on.
LEMMA IndexContinues ==
  ASSUME TInv, SeqInv, SeqInv', Snapshots, IndexOnce, NEW w \in Underway, Continues(w)
  PROVE  IndexOnce'
<1> DEFINE s == job[w].start
<1>1. /\ w \in Writers /\ JobOK(w) /\ IsLake(lake) /\ IsLake(s)
      /\ \A k \in Keys : s.index[k] <= 1 /\ lake.index[k] <= 1
      /\ IndexTask \in In(w, {"unsent", "sent"}) => lake.index = s.index
      /\ job[w].index = Present(s.index)
  BY DEF IndexOnce, IndexUnique, TInv, JobOK, SnapshotOK, Underway, Continues, Snapshots,
         SnapshotIsStart
<1>2. Underway' = {w} /\ job'[w].start = s
  BY DEF Continues, SameCall, SeqInv, OneAtATime
<1>3. SUFFICES /\ \A k \in Keys : lake'.index[k] <= 1
               /\ IndexTask \in In(w, {"unsent", "sent"})' => lake'.index = s.index
  BY <1>1, <1>2 DEF IndexOnce, IndexUnique
<1>4. CASE Ending(w)
  <2>1. In(w, {"unsent", "sent"})' \subseteq In(w, {"unsent", "sent"})
    BY <1>4 DEF Ending, In
  <2> QED
    BY <1>1, <1>4, <2>1 DEF Ending
<1>5. ASSUME NEW t \in DOMAIN job[w].tasks, NEW state \in {"sent", "frozen", "done", "failed"},
             TaskStep(w, t, state)
      PROVE  /\ \A k \in Keys : lake'.index[k] <= 1
             /\ IndexTask \in In(w, {"unsent", "sent"})' => lake'.index = s.index
  <2>1. /\ DOMAIN job'[w].tasks = DOMAIN job[w].tasks
        /\ \A u \in DOMAIN job[w].tasks : job'[w].tasks[u] = IF u = t THEN state
                                                            ELSE job[w].tasks[u]
    BY <1>5 DEF TaskStep
  <2>2. In(w, {"unsent", "sent"})' \subseteq
          In(w, {"unsent", "sent"}) \cup IF state = "sent" THEN {t} ELSE {}
    BY <2>1 DEF In
  <2>3. state = "sent" => t \in In(w, {"unsent", "sent"})
    BY <1>5 DEF TaskStep, In, Freeze, Run
  <2>4. CASE lake'.index = lake.index
    BY <1>1, <2>2, <2>3, <2>4
  <2>5. CASE state = "done" /\ Run(w, t) /\ t.kind = "index"
    <3>1. t = IndexTask /\ t \notin In(w, {"unsent", "sent"})'
      BY <1>1, <2>1, <2>5, TaskCases DEF IndexTask, Task, In
    <3>2. t \in In(w, {"unsent", "sent"})
      BY <2>5 DEF Run, IsCopy, In
    <3>3. lake'.index = Now!AppendRows(s.index, Seen(w)!New(job[w].call))
      BY <1>1, <2>5, <3>1, <3>2, OtherWrites DEF Run
    <3>4. ASSUME NEW k \in Keys PROVE lake'.index[k] <= 1
      <4>1. lake'.index[k] = s.index[k] + IF k \in Seen(w)!New(job[w].call) THEN 1 ELSE 0
        BY <3>3 DEF Now!AppendRows, Now!OneRowEach
      <4>2. s.index[k] \in Nat /\ s.index[k] <= 1
        BY <1>1 DEF IsLake
      <4>3. k \in Seen(w)!New(job[w].call) => ~ (s.index[k] > 0)
        BY <1>1 DEF Seen!New, Present
      <4> QED
        BY <4>1, <4>2, <4>3
    <3> QED
      BY <3>1, <3>4
  <2>6. lake'.index = lake.index \/ (state = "done" /\ Run(w, t) /\ t.kind = "index")
    <3>1. CASE lake' = lake
      BY <3>1
    <3>2. CASE Freeze(w, t)
      BY <1>1, <3>2, FreezeWrites
    <3>3. CASE state = "done" /\ Run(w, t) /\ t.kind = "update"
      <4>1. lake' = Committed(w, t)
        BY <3>3 DEF Run
      <4> QED
        BY <1>1, <3>3, <4>1, UpdateWrites
    <3>4. CASE state = "done" /\ Run(w, t) /\ t.kind \notin {"update", "index"}
      <4>1. lake' = Committed(w, t)
        BY <3>4 DEF Run
      <4> QED
        BY <1>1, <3>4, <4>1, OtherWrites
    <3> QED
      BY <1>5, <3>1, <3>2, <3>3, <3>4 DEF TaskStep
  <2> QED
    BY <2>4, <2>5, <2>6
<1> QED
  BY <1>4, <1>5 DEF Continues

\* Any other step leaves the index alone.
LEMMA IndexNext ==
  ASSUME Exclusive, TInv, SeqInv, SeqInv', Snapshots, IndexOnce, [Next]_vars
  PROVE  IndexOnce'
<1>1. CASE UNCHANGED vars
  BY <1>1 DEF vars, IndexOnce, IndexUnique, Reading, Underway, At, In
<1>2. ASSUME NEW w \in Writers, Settled(w), NEW c, MayBegin(w, c), Begin(w, c)
      PROVE  IndexOnce'
  <2>1. Underway' = {w}
    BY <1>2, BeginsInOrder
  <2>2. Reading(w)' /\ lake' = lake
    BY <1>2 DEF Begin, TInv, NoJob, Reading
  <2> QED
    BY <2>1, <2>2 DEF IndexOnce, IndexUnique
<1>3. ASSUME NEW w \in Writers, Driver(w) \/ Worker(w) \/ Failure(w) \/ Recover(w)
      PROVE  IndexOnce'
  <2>1. /\ w \in Underway /\ DOMAIN job = Writers
        /\ \A v \in Writers \ {w} : At(v, "idle") /\ job'[v] = job[v]
        /\ DOMAIN job[w] = {"pc", "tx", "call", "index", "fmeta", "tmeta", "start", "tasks",
                       "step", "left"}
    BY <1>3, StepKinds DEF TInv, JobOK, JobShape
  <2>2. \A v \in Underway' : v = w
    BY <2>1 DEF Underway, At
  <2>3. CASE ReadFeatureMetadata(w) \/ ReadTableMetadata(w)
    <3>1. lake' = lake /\ Reading(w)'
      BY <2>1, <2>3 DEF ReadFeatureMetadata, ReadTableMetadata, Reading
    <3> QED
      BY <2>2, <3>1 DEF IndexOnce, IndexUnique
  <2>4. CASE StartTransaction(w)
    <3>1. lake' = lake /\ job'[w].start = lake
      BY <2>1, <2>4 DEF StartTransaction
    <3> QED
      BY <2>2, <3>1 DEF IndexOnce, IndexUnique
  <2>5. CASE \/ Reading(w) /\ job' = [job EXCEPT ![w] = NoJob] /\ lake' = lake
             \/ Succeed(w) \/ LogRolledBack(w) \/ Recovered(w)
    <3>1. job'[w].pc = "idle" /\ lake' = lake
      BY <2>1, <2>5 DEF Succeed, LogRolledBack, Recovered, Goto, NoJob
    <3>2. Underway' = {}
      BY <2>2, <3>1 DEF Underway, At
    <3> QED
      BY <3>1, <3>2 DEF IndexOnce, IndexUnique
  <2>6. CASE Continues(w)
    BY <2>1, <2>6, IndexContinues
  <2> QED
    BY <1>3, <2>3, <2>4, <2>5, <2>6, StepKinds
<1> QED
  BY <1>1, <1>2, <1>3 DEF Next

\* With one writer at a time the index keeps each key once, after every commit
\* of every task and every restore.
THEOREM IndexKeepsKeysOnce ==
  ASSUME Exclusive, "submission" \notin Faults
  PROVE  Spec => []IndexUnique
<1>1. Spec => []TInv
  BY TInvInit, TInvNext, PTL DEF Spec
<1>2. Sequential
  BY DEF Sequential
<1>3. Init => SeqInv
  BY SeqInvInit
<1>4. TInv /\ TInv' /\ SeqInv /\ [Next]_vars => SeqInv'
  BY <1>2, SeqInvNext
<1>5. Init => Snapshots /\ IndexOnce
  <2> SUFFICES ASSUME Init PROVE Snapshots /\ IndexOnce
    OBVIOUS
  <2>1. Underway = {} /\ \A w \in Writers : ~ Reading(w)
    BY DEF Init, NoJob, Underway, At, Reading
  <2>2. IndexUnique
    BY DEF Init, EmptyLake, Now!NoRows, IndexUnique
  <2> QED
    BY <2>1, <2>2 DEF Snapshots, SnapshotIsStart, IndexOnce
<1>6. TInv /\ SeqInv /\ SeqInv' /\ Snapshots /\ IndexOnce /\ [Next]_vars
        => Snapshots' /\ IndexOnce'
  BY SnapshotsNext, IndexNext
<1>7. IndexOnce => IndexUnique
  BY DEF IndexOnce
<1> QED
  BY <1>1, <1>3, <1>4, <1>5, <1>6, <1>7, PTL DEF Spec

-----------------------------------------------------------------------------
(* The tables, as far as the tasks of the call underway have come. *)

IsDone(w, kind, addr, row) == Task(kind, addr, row) \in In(w, {"done"})

\* A table the call found: as it was, as the call leaves it, or with the padding
\* of some of the table_metadata rows that reach a new key.
TableWritten(w, a) ==
  LET c == job[w].call
      t == Task("update", a, 0)
      before == job[w].start.rows[a] IN
  IF a \in P!Targets(c)
  THEN /\ t \in In(w, {"unsent", "sent"}) => lake.rows[a] = before
       /\ t \in In(w, {"frozen", "done"}) => lake.rows[a] = P!UpdatedRows(c, a)
  ELSE lake.rows[a] =
         [k \in Keys |-> before[k] +
            IF a \in P!Padded(c) /\ k \in P!New(c)
            THEN Cardinality({i \in P!PaddingsOf(a, k) : IsDone(w, "align", a, i)})
            ELSE 0]

\* A table it writes to a new address.
FreshWritten(w, g) ==
  LET home == P!Home(job[w].call, g) IN
  IsDone(w, "update", g, 0) => lake.rows[home] = P!CreatedRows(job[w].call, home)

\* The system tables: as they were, or as the call leaves them.
SystemWritten(w) ==
  LET c == job[w].call
      s == job[w].start IN
  /\ lake.index = IF IsDone(w, "index", NoAddr, 0) THEN Now!AppendRows(s.index, P!New(c))
                  ELSE s.index
  /\ lake.tmeta = IF IsDone(w, "tmeta", NoAddr, 0)
                  THEN [a \in P!Used \cup P!Homes(c) |->
                          P!Recorded(a) \o IF a \in P!Homes(c) THEN <<c.hi>> ELSE << >>]
                  ELSE s.tmeta
  /\ lake.fmeta = IF IsDone(w, "fmeta", NoAddr, 0) THEN s.fmeta \cup P!FeatureRowsAfter(c)
                  ELSE s.fmeta

Written(w) ==
  At(w, "body") =>
    /\ DOMAIN job[w].tasks = Tasks(w)
    /\ SystemWritten(w)
    /\ \A a \in P!Used : TableWritten(w, a)
    /\ \A g \in P!Fresh(job[w].call) : FreshWritten(w, g)

\* The tables that have table_metadata are those a restore brings back.
Tracked == \A a \in P!Used : \E r \in Content.fmeta : r.addr = a

ContentInv ==
  /\ P!Basics
  /\ Tracked
  /\ \A w \in Underway : P!Permitted(job[w].call) /\ Written(w)

\* The call underway: what it may be, and what it writes where.
LEMMA CallUnderway ==
  ASSUME TInv, SeqInv, ContentInv, NEW w \in Underway
  PROVE  /\ w \in Writers /\ JobOK(w) /\ IsLake(lake) /\ IsLake(job[w].start)
         /\ job[w].call \in P!Call /\ job[w].tx = calls
         /\ Cardinality(Underway) = 1
         /\ calls - Cardinality(Underway) < MaxCalls
         /\ calls \in 1 .. MaxCalls
         /\ P!Basics
<1>1. /\ w \in Writers /\ JobOK(w) /\ IsLake(lake) /\ IsLake(job[w].start)
      /\ job[w].call \in Now!Call /\ calls \in 0 .. MaxCalls
      /\ job[w].tx = calls /\ job[w].tx # 0
  BY DEF TInv, JobOK, SnapshotOK, Underway, LogOK, SeqInv, Pending
<1>2. Cardinality(Underway) = 1
  BY ContentNow DEF SeqInv
<1>3. P!Call = Now!Call
  BY DEF P!Call, Now!Call, P!Times, Now!Times, P!Time, Now!Time
<1> QED
  BY <1>1, <1>2, <1>3, MaxCallsAssumption DEF ContentInv

\* Once it writes, the tables it found are the content, and its snapshot too.
LEMMA CallWrites ==
  ASSUME TInv, SeqInv, Snapshots, ContentInv, NEW w \in Underway, ~ Reading(w)
  PROVE  /\ Content = job[w].start
         /\ P!Used = DOMAIN job[w].start.tmeta
         /\ \A a \in P!Used : a \in DOMAIN lake.rows
         /\ job[w].index = Present(Content.index) /\ job[w].fmeta = Content.fmeta
         /\ job[w].tmeta = Content.tmeta
         /\ job[w].tx - 1 = calls - Cardinality(Underway)
<1>1. Content = job[w].start
  BY ContentNow DEF SeqInv
<1>2. IsLake(job[w].start) /\ DOMAIN job[w].start.rows \subseteq DOMAIN lake.rows
  BY CallUnderway DEF JobOK, SnapshotOK
<1>3. SnapshotIsStart(w) /\ job[w].tx = calls /\ Cardinality(Underway) = 1
  BY CallUnderway DEF Snapshots
<1> QED
  BY <1>1, <1>2, <1>3 DEF SnapshotIsStart, P!Used, IsLake

\* Where FeatureLake leaves each table, case by case.
LEMMA UpdatedCases ==
  ASSUME NEW c, NEW a, NEW before,
         [b \in DOMAIN Content.tmeta |-> Content.rows[b]][a] = before
  PROVE  /\ a \in P!Merges(c) =>
              P!UpdatedRows(c, a) = Now!MergeRows(before, P!MergedKeys(c))
         /\ a \in P!Copies(c) =>
              P!UpdatedRows(c, a) = Now!AppendRows(before, P!FrozenKeys(c, a))
         /\ a \in P!Appends(c) =>
              P!UpdatedRows(c, a) = Now!AppendRows(before, P!AppendedKeys(c, a))
         /\ a \in P!Padded(c) => P!UpdatedRows(c, a) = P!PaddedRows(c, a)
         /\ a \notin P!Targets(c) \cup P!Padded(c) => P!UpdatedRows(c, a) = before
<1>1. /\ a \in P!Copies(c) => a \notin P!Merges(c)
      /\ a \in P!Appends(c) => a \notin P!Merges(c) \cup P!Copies(c)
      /\ a \in P!Merges(c) \cup P!Copies(c) \cup P!Appends(c) => a \in P!Targets(c)
      /\ a \in P!Padded(c) => a \notin P!Targets(c)
  BY DEF P!Copies, P!Merges, P!Appends, P!Old, P!Padded
<1>2. /\ \A r, S : Now!AppendRows(r, S) = P!AppendRows(r, S)
      /\ \A r, S : Now!MergeRows(r, S) = P!MergeRows(r, S)
  BY DEF Now!AppendRows, P!AppendRows, Now!OneRowEach, P!OneRowEach, Now!MergeRows,
         P!MergeRows
<1>3. CASE a \in P!Merges(c)
  BY <1>1, <1>2, <1>3 DEF P!UpdatedRows
<1>4. CASE a \in P!Copies(c)
  BY <1>1, <1>2, <1>4 DEF P!UpdatedRows
<1>5. CASE a \in P!Appends(c)
  BY <1>1, <1>2, <1>5 DEF P!UpdatedRows
<1>6. CASE a \in P!Padded(c)
  BY <1>1, <1>6 DEF P!UpdatedRows
<1>7. CASE a \notin P!Merges(c) \cup P!Copies(c) \cup P!Appends(c) \cup P!Padded(c)
  BY <1>1, <1>7 DEF P!UpdatedRows
<1> QED
  BY <1>1, <1>3, <1>4, <1>5, <1>6, <1>7

\* What is done of the tasks after one of them has moved.
LEMMA TaskMoved ==
  ASSUME TInv, NEW w \in Writers, NEW t \in DOMAIN job[w].tasks,
         NEW state \in {"sent", "frozen", "done", "failed"}, TaskStep(w, t, state)
  PROVE  /\ DOMAIN job'[w].tasks = DOMAIN job[w].tasks
         /\ \A u, S : u \in In(w, S)' <=>
              (u = t /\ state \in S) \/ (u # t /\ u \in In(w, S))
         /\ t \notin In(w, {"done"}) /\ job'[w].pc = job[w].pc
         /\ \A kind, addr, row : IsDone(w, kind, addr, row)' <=>
              IsDone(w, kind, addr, row) \/ (state = "done" /\ t = Task(kind, addr, row))
<1>1. /\ DOMAIN job'[w].tasks = DOMAIN job[w].tasks
      /\ \A u \in DOMAIN job[w].tasks : job'[w].tasks[u] = IF u = t THEN state
                                                          ELSE job[w].tasks[u]
      /\ job'[w].pc = job[w].pc
  BY DEF TaskStep
<1>2. \A u, S : u \in In(w, S)' <=> (u = t /\ state \in S) \/ (u # t /\ u \in In(w, S))
  BY <1>1 DEF In
<1>3. t \notin In(w, {"done"})
  BY DEF TaskStep, Freeze, Run, InFlight, In
<1>4. \A kind, addr, row : IsDone(w, kind, addr, row)' <=>
        IsDone(w, kind, addr, row) \/ (state = "done" /\ t = Task(kind, addr, row))
  <2> TAKE kind, addr, row
  <2>1. Task(kind, addr, row)' = Task(kind, addr, row)
    BY DEF Task
  <2> QED
    BY <1>2, <1>3, <2>1 DEF IsDone
<1> QED
  BY <1>1, <1>2, <1>3, <1>4

\* A task of the call underway moves.
Moving(w, t, state) ==
  /\ TInv /\ SeqInv /\ Snapshots /\ ContentInv
  /\ w \in Underway /\ At(w, "body") /\ SameCall(w) /\ UNCHANGED P!vars
  /\ t \in DOMAIN job[w].tasks /\ state \in {"sent", "frozen", "done", "failed"}
  /\ TaskStep(w, t, state)

\* What is known when a task moves, and what has changed.
LEMMA MovingFacts ==
  ASSUME NEW w, NEW t, NEW state, Moving(w, t, state)
  PROVE  /\ Written(w) /\ DOMAIN job[w].tasks = Tasks(w)
         /\ DOMAIN job'[w].tasks = Tasks(w)'
         /\ At(w, "body")' /\ ~ Reading(w)
         /\ Content = job[w].start /\ job'[w].start = job[w].start
         /\ job'[w].call = job[w].call
         /\ w \in Writers /\ At(w, "body") /\ TInv
         /\ \A u, S : u \in In(w, S)' <=>
              (u = t /\ state \in S) \/ (u # t /\ u \in In(w, S))
         /\ \A kind, addr, row : IsDone(w, kind, addr, row)' <=>
              IsDone(w, kind, addr, row) \/ (state = "done" /\ t = Task(kind, addr, row))
         /\ state = "sent" => t \in In(w, {"unsent"})
         /\ t \notin In(w, {"done"})
<1>1. w \in Underway /\ TInv /\ SameCall(w) /\ TaskStep(w, t, state) /\ SeqInv /\ Snapshots
      /\ ContentInv /\ At(w, "body") /\ w \in Writers
  BY DEF Moving, Underway
<1>2. Written(w) /\ DOMAIN job[w].tasks = Tasks(w) /\ ~ Reading(w)
  BY <1>1 DEF ContentInv, Written, Reading, At
<1>3. Tasks(w)' = Tasks(w) /\ DOMAIN job'[w].tasks = DOMAIN job[w].tasks
  BY <1>1, SnapshotDecides DEF SameCall, TaskStep
<1>4. Content = job[w].start
  BY <1>1, <1>2, CallWrites
<1>5. /\ \A u, S : u \in In(w, S)' <=>
           (u = t /\ state \in S) \/ (u # t /\ u \in In(w, S))
      /\ \A kind, addr, row : IsDone(w, kind, addr, row)' <=>
           IsDone(w, kind, addr, row) \/ (state = "done" /\ t = Task(kind, addr, row))
      /\ t \notin In(w, {"done"})
  <2>1. t \in DOMAIN job[w].tasks /\ state \in {"sent", "frozen", "done", "failed"}
    BY DEF Moving
  <2> QED
    BY <1>1, <2>1, TaskMoved
<1>6. state = "sent" => t \in In(w, {"unsent"})
  BY <1>1 DEF TaskStep
<1>7. job'[w].pc = job[w].pc
  BY <1>1 DEF TaskStep
<1> QED
  BY <1>1, <1>2, <1>3, <1>4, <1>5, <1>6, <1>7 DEF SameCall, At

\* A table that the step does not write.
LEMMA TableKept ==
  ASSUME NEW w, NEW t, NEW state, Moving(w, t, state),
         NEW a \in P!Used, lake'.rows[a] = lake.rows[a],
         t = Task("update", a, 0) => \/ state \in {"sent", "failed"}
                                     \/ state = "done" /\ t \in In(w, {"frozen"}),
         state = "done" => t.kind # "align" \/ t.addr # a
  PROVE  TableWritten(w, a)'
<1>1. PICK c : c = job[w].call
  OBVIOUS
<1> DEFINE u == Task("update", a, 0)
<1>2. job'[w].call = c /\ job'[w].start = job[w].start /\ TableWritten(w, a)
  BY <1>1, MovingFacts DEF Written
<1>3. /\ P!Targets(c)' = P!Targets(c) /\ P!UpdatedRows(c, a)' = P!UpdatedRows(c, a)
      /\ P!Padded(c)' = P!Padded(c) /\ P!New(c)' = P!New(c)
      /\ \A k : P!PaddingsOf(a, k)' = P!PaddingsOf(a, k)
  BY ContentKept DEF Moving
<1>4. /\ \A x, S : x \in In(w, S)' <=> (x = t /\ state \in S) \/ (x # t /\ x \in In(w, S))
      /\ \A kind, addr, row : IsDone(w, kind, addr, row)' <=>
           IsDone(w, kind, addr, row) \/ (state = "done" /\ t = Task(kind, addr, row))
      /\ state = "sent" => t \in In(w, {"unsent"})
  BY MovingFacts
<1>5. CASE a \in P!Targets(c)
  <2>1. /\ u \in In(w, {"unsent", "sent"})' => u \in In(w, {"unsent", "sent"})
        /\ u \in In(w, {"frozen", "done"})' => u \in In(w, {"frozen", "done"})
    BY <1>4 DEF In
  <2>2. /\ u \in In(w, {"unsent", "sent"})' => lake'.rows[a] = job[w].start.rows[a]
        /\ u \in In(w, {"frozen", "done"})' => lake'.rows[a] = P!UpdatedRows(c, a)
    BY <1>1, <1>2, <1>5, <2>1 DEF TableWritten
  <2>3. Task("update", a, 0)' = u
    BY DEF Task
  <2> QED
    BY <1>1, <1>2, <1>3, <1>5, <2>2, <2>3 DEF TableWritten
<1>6. CASE a \notin P!Targets(c)
  <2>1. \A i : IsDone(w, "align", a, i)' <=> IsDone(w, "align", a, i)
    BY <1>4 DEF Task
  <2>2. \A k : {i \in P!PaddingsOf(a, k) : IsDone(w, "align", a, i)}'
              = {i \in P!PaddingsOf(a, k) : IsDone(w, "align", a, i)}
    BY <1>3, <2>1
  <2>3. lake.rows[a] =
         [k \in Keys |-> job[w].start.rows[a][k] +
            IF a \in P!Padded(c) /\ k \in P!New(c)
            THEN Cardinality({i \in P!PaddingsOf(a, k) : IsDone(w, "align", a, i)})
            ELSE 0]
    BY <1>1, <1>2, <1>6 DEF TableWritten
  <2> QED
    BY <1>1, <1>2, <1>3, <1>6, <2>2, <2>3 DEF TableWritten
<1> QED
  BY <1>5, <1>6

\* A new table that the step does not write.
LEMMA FreshKept ==
  ASSUME NEW w, NEW t, NEW state, Moving(w, t, state), NEW g,
         FreshWritten(w, g), P!Home(job[w].call, g) = Seen(w)!Home(job[w].call, g),
         P!Home(job[w].call, g) \in DOMAIN lake.rows =>
           lake'.rows[P!Home(job[w].call, g)] = lake.rows[P!Home(job[w].call, g)],
         t = Task("update", g, 0) => state # "done"
  PROVE  FreshWritten(w, g)'
<1>1. PICK c : c = job[w].call
  OBVIOUS
<1>2. job'[w].call = c
  BY <1>1, MovingFacts
<1>3. PICK home : home = P!Home(c, g)
  OBVIOUS
<1>4. P!Home(c, g)' = home /\ P!CreatedRows(c, home)' = P!CreatedRows(c, home)
  BY <1>3, ContentKept DEF Moving
<1>5. IsDone(w, "update", g, 0)' => IsDone(w, "update", g, 0)
  BY MovingFacts
<1>6. IsDone(w, "update", g, 0) => P!Home(c, g) \in DOMAIN lake.rows
  BY <1>1, MovingFacts DEF IsDone, In, Task, TInv, JobOK, TasksOK
<1> QED
  BY <1>1, <1>2, <1>3, <1>4, <1>5, <1>6 DEF FreshWritten

\* The system tables, when the step does not write them.
LEMMA SystemKept ==
  ASSUME NEW w, NEW t, NEW state, Moving(w, t, state),
         lake'.index = lake.index, lake'.tmeta = lake.tmeta, lake'.fmeta = lake.fmeta,
         state = "done" => t.kind \notin {"index", "tmeta", "fmeta"}
  PROVE  SystemWritten(w)'
<1>1. PICK c : c = job[w].call
  OBVIOUS
<1>2. job'[w].call = c /\ job'[w].start = job[w].start /\ SystemWritten(w)
  BY <1>1, MovingFacts DEF Written
<1>3. /\ P!New(c)' = P!New(c) /\ P!Used' = P!Used /\ P!Homes(c)' = P!Homes(c)
      /\ \A a : P!Recorded(a)' = P!Recorded(a)
      /\ P!FeatureRowsAfter(c)' = P!FeatureRowsAfter(c)
  BY ContentKept DEF Moving
<1>4. \A kind \in {"index", "tmeta", "fmeta"} :
        IsDone(w, kind, NoAddr, 0)' <=> IsDone(w, kind, NoAddr, 0)
  BY MovingFacts DEF Task
<1> QED
  BY <1>1, <1>2, <1>3, <1>4 DEF SystemWritten

\* What is known of the tables the call writes: FeatureLake's facts, and that the
\* call's snapshot shows it the same tables.
LEMMA CallTables ==
  ASSUME TInv, SeqInv, Snapshots, ContentInv, NEW w \in Underway, ~ Reading(w),
         NEW c, c = job[w].call
  PROVE  /\ \A a \in P!Used : /\ a \in DOMAIN lake.rows
                              /\ [b \in DOMAIN Content.tmeta |-> Content.rows[b]][a]
                                   = job[w].start.rows[a]
                              /\ job[w].start.rows[a] \in [Keys -> Nat]
         /\ P!Merges(c) \cup P!Copies(c) \cup P!Appends(c) \subseteq P!Used
         /\ \A g \in P!Fresh(c) : P!Home(c, g) \notin P!Used
         /\ \A g, h \in P!Fresh(c) : P!Home(c, g) = P!Home(c, h) => g = h
         /\ \A g \in P!Targets(c) :
              g = NoAddr \/ g \in P!Merges(c) \cup P!Copies(c) \cup P!Appends(c)
         /\ P!Fresh(c) = P!Copies(c) \cup (P!Targets(c) \cap {NoAddr})
         /\ NoAddr \notin P!Used
<1>1. /\ c \in P!Call /\ P!Basics /\ calls - Cardinality(Underway) < MaxCalls
      /\ IsLake(job[w].start)
  BY CallUnderway
<1>2. /\ \A g \in P!Fresh(c) : P!Home(c, g) \notin P!Used
      /\ \A g, h \in P!Fresh(c) : P!Home(c, g) = P!Home(c, h) => g = h
  BY <1>1, LakeAssumptions, P!HomeFacts
<1>3. P!Old(c) \subseteq P!Used
  BY <1>1, LakeAssumptions, P!OldIsUsed
<1>4. \A a \in P!Used : a \in DOMAIN lake.rows
  BY CallWrites
<1>5. \A a \in P!Used : [b \in DOMAIN Content.tmeta |-> Content.rows[b]][a]
                          = job[w].start.rows[a]
  BY CallWrites DEF P!Used
<1>6. \A a \in P!Used : job[w].start.rows[a] \in [Keys -> Nat]
  BY <1>1, CallWrites DEF IsLake
<1>7. P!Used \subseteq P!Addrs
  BY <1>1 DEF P!Basics, P!TypeOK
<1> QED
  BY <1>2, <1>3, <1>4, <1>5, <1>6, <1>7, LakeAssumptions
     DEF P!Merges, P!Copies, P!Appends, P!Old, P!Fresh

\* Copy mode leaves the keys that are new in the table it copies.
LEMMA FreezeMoves ==
  ASSUME NEW w, NEW t, Moving(w, t, "frozen")
  PROVE  Written(w)'
<1>1. PICK c : c = job[w].call
  OBVIOUS
<1>2. PICK g : g = t.addr
  OBVIOUS
<1>3. /\ w \in Underway /\ w \in Writers /\ ~ Reading(w) /\ Freeze(w, t)
      /\ t \in DOMAIN job[w].tasks
      /\ TInv /\ SeqInv /\ Snapshots /\ ContentInv
      /\ Written(w) /\ At(w, "body") /\ UNCHANGED P!vars
  BY MovingFacts DEF Moving, TaskStep
<1>4. /\ Seen(w)!Copies(c) = P!Copies(c) /\ Seen(w)!FrozenKeys(c, g) = P!FrozenKeys(c, g)
      /\ Seen(w)!Targets(c) = P!Targets(c)
      /\ \A h : Seen(w)!Home(c, h) = P!Home(c, h)
  BY <1>3, CallWrites, SnapshotAgrees
<1>5. /\ g \in P!Copies(c) /\ g \in P!Targets(c) /\ t = Task("update", g, 0)
      /\ lake'.index = lake.index /\ lake'.tmeta = lake.tmeta /\ lake'.fmeta = lake.fmeta
      /\ lake'.rows[g] = Now!AppendRows(lake.rows[g], P!FrozenKeys(c, g))
      /\ \A b \in DOMAIN lake.rows \ {g} : lake'.rows[b] = lake.rows[b]
  BY <1>1, <1>2, <1>3, <1>4, FreezeWrites
<1>6. g \in P!Used
  BY <1>1, <1>3, <1>5, CallTables
<1>7. TableWritten(w, g)'
  <2>1. t \in In(w, {"unsent", "sent"})
    BY <1>3 DEF Freeze, In
  <2>2. lake.rows[g] = job[w].start.rows[g]
    BY <1>1, <1>3, <1>5, <1>6, <2>1 DEF Written, TableWritten
  <2>3. P!UpdatedRows(c, g) = Now!AppendRows(job[w].start.rows[g], P!FrozenKeys(c, g))
    <3>1. [b \in DOMAIN Content.tmeta |-> Content.rows[b]][g] = job[w].start.rows[g]
      BY <1>1, <1>3, <1>6, CallTables
    <3> QED
      BY <1>5, <3>1, UpdatedCases
  <2>4. lake'.rows[g] = P!UpdatedRows(c, g)'
    BY <1>3, <1>5, <2>2, <2>3, ContentKept
  <2>5. P!Targets(c)' = P!Targets(c) /\ job'[w].call = c /\ Task("update", g, 0)' = t
        /\ t \notin In(w, {"unsent", "sent"})'
    BY <1>1, <1>3, <1>5, MovingFacts, ContentKept DEF Task
  <2> QED
    BY <1>5, <2>4, <2>5 DEF TableWritten
<1>8. ASSUME NEW a \in P!Used PROVE TableWritten(w, a)'
  <2>1. CASE a # g
    <3>1. lake'.rows[a] = lake.rows[a]
      BY <1>1, <1>3, <1>5, <2>1, CallTables
    <3>2. t # Task("update", a, 0)
      BY <1>2, <2>1 DEF Task
    <3> QED
      BY <3>1, <3>2, TableKept
  <2> QED
    BY <1>7, <2>1
<1>9. ASSUME NEW h \in P!Fresh(c) PROVE FreshWritten(w, h)'
  <2>1. P!Home(c, h) # g
    BY <1>1, <1>3, <1>6, CallTables
  <2>2. FreshWritten(w, h)
    BY <1>1, <1>3 DEF Written
  <2> QED
    BY <1>1, <1>4, <1>5, <2>1, <2>2, FreshKept
<1>10. SystemWritten(w)'
  BY <1>5, SystemKept
<1>11. P!Used' = P!Used /\ P!Fresh(c)' = P!Fresh(c) /\ job'[w].call = c
       /\ DOMAIN job'[w].tasks = Tasks(w)'
  BY <1>1, <1>3, ContentKept, MovingFacts
<1> QED
  BY <1>8, <1>9, <1>10, <1>11 DEF Written

\* What FeatureLake writes to a new address.
LEMMA CreatedCases ==
  ASSUME NEW c, NEW g \in P!Fresh(c),
         \A h \in P!Fresh(c) : P!Home(c, g) = P!Home(c, h) => g = h,
         NoAddr \notin P!Copies(c)
  PROVE  /\ g \in P!Copies(c) => P!CreatedRows(c, P!Home(c, g)) = P!CopiedRows(c, g)
         /\ g = NoAddr => P!CreatedRows(c, P!Home(c, g)) = Now!OneRowEach(P!CreatedKeys(c))
<1>1. P!Copies(c) \subseteq P!Fresh(c)
  BY DEF P!Fresh
<1>2. CASE g \in P!Copies(c)
  <2>1. \E h \in P!Copies(c) : P!Home(c, h) = P!Home(c, g)
    BY <1>2
  <2>2. (CHOOSE h \in P!Copies(c) : P!Home(c, h) = P!Home(c, g)) = g
    BY <1>1, <2>1
  <2>3. P!CreatedRows(c, P!Home(c, g)) = P!CopiedRows(c, g)
    BY <2>1, <2>2 DEF P!CreatedRows
  <2>4. g # NoAddr
    BY <1>2
  <2> QED
    BY <2>3, <2>4
<1>3. CASE g \notin P!Copies(c)
  <2>1. ~ \E h \in P!Copies(c) : P!Home(c, h) = P!Home(c, g)
    BY <1>1, <1>3
  <2> QED
    BY <1>3, <2>1 DEF P!CreatedRows, P!OneRowEach, Now!OneRowEach
<1> QED
  BY <1>2, <1>3

\* Copy mode reads its table after its first commit, which adds new keys only,
\* none of them from before the input: what it copies is what was there.
LEMMA CopyReads ==
  ASSUME TInv, SeqInv, Snapshots, ContentInv, NEW w \in Underway, ~ Reading(w),
         NEW c, c = job[w].call, NEW g \in P!Copies(c),
         lake.rows[g] = P!UpdatedRows(c, g)
  PROVE  Seen(w)!CopiedRows(c, g) = P!CopiedRows(c, g)
<1> DEFINE before == job[w].start.rows[g]
<1>1. /\ [b \in DOMAIN Content.tmeta |-> Content.rows[b]][g] = before
      /\ before \in [Keys -> Nat]
  BY CallTables
<1> HIDE DEF before
<1>2. lake.rows[g] = Now!AppendRows(before, P!FrozenKeys(c, g))
  BY <1>1, UpdatedCases
<1>3. \A k \in P!FrozenKeys(c, g) : ~ (P!Time(k) < c.lo)
  <2>1. c \in P!Call
    BY CallUnderway
  <2>2. c.lo \in Nat /\ \A k \in c.keys : c.lo <= P!Time(k) /\ P!Time(k) \in Nat
    BY <2>1, LakeAssumptions, P!CallFacts
  <2> QED
    BY <2>2 DEF P!FrozenKeys, P!New
<1>4. Seen(w)!KeptRows(c, g) = P!KeptRows(c, g)
  <2>1. ASSUME NEW k \in Keys, P!Time(k) < c.lo PROVE lake.rows[g][k] = before[k]
    BY <1>1, <1>2, <1>3, <2>1 DEF Now!AppendRows, Now!OneRowEach
  <2>2. \A k : Seen(w)!Time(k) = P!Time(k)
    BY DEF Seen!Time, P!Time
  <2> QED
    BY <1>1, <2>1, <2>2 DEF Seen!KeptRows, P!KeptRows
<1>5. Seen(w)!Missing(c) = P!Missing(c) /\ Seen(w)!LastUpdated(g) = P!LastUpdated(g)
  BY CallWrites, SnapshotAgrees
<1>6. Seen(w)!CopyPadding(c, g) = P!CopyPadding(c, g)
  BY <1>4, <1>5 DEF Seen!CopyPadding, P!CopyPadding, Seen!KeysOf, P!KeysOf, Seen!Time,
     P!Time, Seen!DenseSignals, P!DenseSignals
<1> QED
  BY <1>4, <1>6 DEF Seen!CopiedRows, P!CopiedRows, Seen!AppendRows, P!AppendRows,
     Seen!OneRowEach, P!OneRowEach

\* An update is done.
LEMMA UpdateMoves ==
  ASSUME NEW w, NEW t, Moving(w, t, "done"), t.kind = "update"
  PROVE  Written(w)'
<1>1. PICK c : c = job[w].call
  OBVIOUS
<1>2. PICK g : g = t.addr
  OBVIOUS
<1>3. /\ w \in Underway /\ w \in Writers /\ ~ Reading(w) /\ Run(w, t)
      /\ t \in DOMAIN job[w].tasks
      /\ TInv /\ SeqInv /\ Snapshots /\ ContentInv
      /\ Written(w) /\ At(w, "body") /\ UNCHANGED P!vars
  BY MovingFacts DEF Moving, TaskStep
<1>4. /\ Seen(w)!Copies(c) = P!Copies(c) /\ Seen(w)!Merges(c) = P!Merges(c)
      /\ Seen(w)!Appends(c) = P!Appends(c) /\ Seen(w)!Targets(c) = P!Targets(c)
      /\ Seen(w)!MergedKeys(c) = P!MergedKeys(c)
      /\ Seen(w)!AppendedKeys(c, g) = P!AppendedKeys(c, g)
      /\ Seen(w)!CreatedKeys(c) = P!CreatedKeys(c)
      /\ \A h : Seen(w)!Home(c, h) = P!Home(c, h)
  BY <1>3, CallWrites, SnapshotAgrees
<1>5. t = Task("update", g, 0) /\ g \in P!Targets(c)
  BY <1>1, <1>2, <1>3, <1>4, TaskCases DEF Task
<1>6. PICK home : home = P!Home(c, g)
  OBVIOUS
<1>7. /\ lake'.index = lake.index /\ lake'.tmeta = lake.tmeta /\ lake'.fmeta = lake.fmeta
      /\ \A b \in DOMAIN lake.rows \ {home} : lake'.rows[b] = lake.rows[b]
      /\ g \in P!Merges(c) => home = g /\ lake'.rows[g] =
                                Now!MergeRows(lake.rows[g], P!MergedKeys(c))
      /\ g \in P!Appends(c) => home = g /\ lake'.rows[g] =
                                Now!AppendRows(lake.rows[g], P!AppendedKeys(c, g))
      /\ g \in P!Copies(c) => lake'.rows[home] = Seen(w)!CopiedRows(c, g)
      /\ g = NoAddr => lake'.rows[home] = Now!OneRowEach(P!CreatedKeys(c))
  <2>1. lake' = Committed(w, t)
    BY <1>3 DEF Run
  <2> QED
    BY <1>1, <1>2, <1>3, <1>4, <1>6, <2>1, UpdateWrites
<1>8. /\ \A a \in P!Used : a \in DOMAIN lake.rows
      /\ \A a \in P!Used : [b \in DOMAIN Content.tmeta |-> Content.rows[b]][a]
                             = job[w].start.rows[a]
      /\ P!Merges(c) \cup P!Copies(c) \cup P!Appends(c) \subseteq P!Used
      /\ \A h \in P!Fresh(c) : P!Home(c, h) \notin P!Used
      /\ \A h \in P!Fresh(c) : g \in P!Fresh(c) /\ home = P!Home(c, h) => g = h
      /\ g = NoAddr \/ g \in P!Merges(c) \cup P!Copies(c) \cup P!Appends(c)
      /\ P!Fresh(c) = P!Copies(c) \cup (P!Targets(c) \cap {NoAddr})
      /\ NoAddr \notin P!Used
  BY <1>1, <1>3, <1>5, <1>6, CallTables
<1>9. SystemWritten(w)'
  BY <1>7, SystemKept
<1>10. P!Used' = P!Used /\ P!Fresh(c)' = P!Fresh(c) /\ job'[w].call = c
       /\ P!Targets(c)' = P!Targets(c)
       /\ P!UpdatedRows(c, g)' = P!UpdatedRows(c, g)
       /\ P!CreatedRows(c, home)' = P!CreatedRows(c, home)
       /\ P!Home(c, g)' = home
       /\ DOMAIN job'[w].tasks = Tasks(w)' /\ Task("update", g, 0)' = t
  BY <1>1, <1>3, <1>5, <1>6, ContentKept, MovingFacts DEF Task
<1>11. ASSUME NEW h \in P!Fresh(c), h # g \/ g \notin P!Fresh(c) PROVE FreshWritten(w, h)'
  <2>1. P!Home(c, h) # home
    <3>1. CASE g \in P!Fresh(c)
      BY <1>8, <1>11, <3>1
    <3>2. CASE g \notin P!Fresh(c)
      <4>1. home \in P!Used
        BY <1>5, <1>7, <1>8, <3>2
      <4> QED
        BY <1>8, <4>1
    <3> QED
      BY <3>1, <3>2
  <2>2. FreshWritten(w, h)
    BY <1>1, <1>3 DEF Written
  <2>3. t # Task("update", h, 0)
    BY <1>2, <1>5, <1>11 DEF Task
  <2> QED
    BY <1>1, <1>4, <1>7, <2>1, <2>2, <2>3, FreshKept
<1>12. ASSUME NEW a \in P!Used, a # home, a # g \/ t \in In(w, {"frozen"})
       PROVE  TableWritten(w, a)'
  <2>1. lake'.rows[a] = lake.rows[a]
    BY <1>7, <1>8, <1>12
  <2>2. t = Task("update", a, 0) => a = g
    BY <1>2 DEF Task
  <2>3. t.kind # "align"
    OBVIOUS
  <2> QED
    BY <1>12, <2>1, <2>2, <2>3, TableKept
<1>13. CASE g \in P!Merges(c) \cup P!Appends(c)
  <2>1. t \in In(w, {"sent"})
    <3>1. g \notin P!Copies(c)
      BY <1>13 DEF P!Copies, P!Merges, P!Appends
    <3> QED
      BY <1>1, <1>2, <1>3, <1>4, <3>1 DEF Run, IsCopy
  <2>2. lake.rows[g] = job[w].start.rows[g]
    BY <1>1, <1>3, <1>5, <1>8, <1>13, <2>1 DEF Written, TableWritten, In
  <2>3. lake'.rows[g] = P!UpdatedRows(c, g)
    <3>1. [b \in DOMAIN Content.tmeta |-> Content.rows[b]][g] = lake.rows[g]
      BY <1>8, <1>13, <2>2
    <3> QED
      BY <1>7, <1>13, <3>1, UpdatedCases
  <2>4. t \notin In(w, {"unsent", "sent"})'
    BY <1>3, MovingFacts
  <2>5. TableWritten(w, g)'
    BY <1>5, <1>10, <2>3, <2>4 DEF TableWritten
  <2>6. home = g /\ g \notin P!Fresh(c)
    BY <1>7, <1>8, <1>13 DEF P!Copies, P!Merges, P!Appends, P!Fresh
  <2> QED
    BY <1>9, <1>10, <1>11, <1>12, <2>5, <2>6 DEF Written
<1>14. CASE g \in P!Fresh(c)
  <2>1. g = NoAddr \/ t \in In(w, {"frozen"})
    <3>1. g \in P!Copies(c) => IsCopy(w, t)
      BY <1>1, <1>2, <1>4 DEF IsCopy
    <3>2. g \in P!Copies(c) \/ g = NoAddr
      BY <1>8, <1>14
    <3> QED
      BY <1>3, <3>1, <3>2 DEF Run
  <2>2. \A a \in P!Used : TableWritten(w, a)'
    BY <1>6, <1>8, <1>12, <1>14, <2>1
  <2>3. lake'.rows[home] = P!CreatedRows(c, home)
    <3>1. g \in P!Copies(c) => lake'.rows[home] = P!CopiedRows(c, g)
      <4>1. SUFFICES ASSUME g \in P!Copies(c) PROVE lake'.rows[home] = P!CopiedRows(c, g)
        OBVIOUS
      <4>2. t \in In(w, {"frozen", "done"})
        BY <1>8, <2>1, <4>1 DEF In
      <4>3. lake.rows[g] = P!UpdatedRows(c, g)
        BY <1>1, <1>3, <1>5, <1>8, <4>1, <4>2 DEF Written, TableWritten
      <4> QED
        BY <1>1, <1>3, <1>7, <4>1, <4>3, CopyReads
    <3>2. NoAddr \notin P!Copies(c)
      BY <1>8
    <3> QED
      BY <1>6, <1>7, <1>8, <1>14, <3>1, <3>2, CreatedCases
  <2>4. FreshWritten(w, g)'
    BY <1>10, <2>3 DEF FreshWritten
  <2> QED
    BY <1>9, <1>10, <1>11, <2>2, <2>4 DEF Written
<1> QED
  BY <1>5, <1>8, <1>13, <1>14

\* The padding for one table_metadata row is done.
LEMMA AlignMoves ==
  ASSUME NEW w, NEW t, Moving(w, t, "done"), t.kind = "align"
  PROVE  Written(w)'
<1>1. PICK c : c = job[w].call
  OBVIOUS
<1>2. PICK a : a = t.addr
  OBVIOUS
<1>3. PICK row : row = t.row
  OBVIOUS
<1>4. /\ w \in Underway /\ w \in Writers /\ ~ Reading(w) /\ Run(w, t)
      /\ t \in DOMAIN job[w].tasks
      /\ TInv /\ SeqInv /\ Snapshots /\ ContentInv
      /\ Written(w) /\ At(w, "body") /\ UNCHANGED P!vars
  BY MovingFacts DEF Moving, TaskStep
<1>5. /\ Seen(w)!New(c) = P!New(c) /\ Seen(w)!Padded(c) = P!Padded(c)
      /\ \A b, k : Seen(w)!PaddingsOf(b, k) = P!PaddingsOf(b, k)
      /\ \A h : Seen(w)!Home(c, h) = P!Home(c, h)
  BY <1>4, CallWrites, SnapshotAgrees
<1>6. t = Task("align", a, row) /\ a \in P!Padded(c) /\ a \in P!Used /\ a \notin P!Targets(c)
  <2>1. t = Task("align", a, row) /\ a \in P!Padded(c)
    BY <1>1, <1>2, <1>3, <1>4, <1>5, TaskCases DEF Task
  <2> QED
    BY <2>1 DEF P!Padded, P!Dense
<1>7. /\ lake'.index = lake.index /\ lake'.tmeta = lake.tmeta /\ lake'.fmeta = lake.fmeta
      /\ \A b \in DOMAIN lake.rows \ {a} : lake'.rows[b] = lake.rows[b]
      /\ lake'.rows[a] = Now!AppendRows(lake.rows[a],
                                        {k \in P!New(c) : row \in P!PaddingsOf(a, k)})
  <2>1. lake' = Committed(w, t)
    BY <1>4 DEF Run
  <2>2. {k \in Seen(w)!New(c) : row \in Seen(w)!PaddingsOf(a, k)}
          = {k \in P!New(c) : row \in P!PaddingsOf(a, k)}
    BY <1>5
  <2> QED
    BY <1>1, <1>2, <1>3, <1>4, <2>1, <2>2, OtherWrites
<1>8. /\ \A b \in P!Used : b \in DOMAIN lake.rows /\ job[w].start.rows[b] \in [Keys -> Nat]
      /\ \A h \in P!Fresh(c) : P!Home(c, h) \notin P!Used
  BY <1>1, <1>4, CallTables
<1> DEFINE done(k) == {i \in P!PaddingsOf(a, k) : IsDone(w, "align", a, i)}
<1>9. ASSUME NEW k \in Keys
      PROVE  /\ Cardinality(done(k)) \in Nat
             /\ Cardinality(done(k)') =
                  Cardinality(done(k)) + IF row \in P!PaddingsOf(a, k) THEN 1 ELSE 0
  <2>1. IsFiniteSet(P!PaddingsOf(a, k))
    <3>1. Content.tmeta[a] \in Seq(P!Times)
      BY <1>6, CallUnderway, <1>4 DEF P!Basics, P!TypeOK, P!Used
    <3>2. P!PaddingsOf(a, k) \subseteq 1 .. Len(Content.tmeta[a])
      BY DEF P!PaddingsOf
    <3> QED
      BY <3>1, <3>2, FS_Interval, FS_Subset
  <2>2. IsFiniteSet(done(k))
    BY <2>1, FS_Subset
  <2>3. Cardinality(done(k)) \in Nat
    BY <2>2, FS_CardinalityType
  <2>4. row \notin done(k)
    BY <1>6, MovingFacts DEF IsDone
  <2>5. \A i : IsDone(w, "align", a, i)' <=> IsDone(w, "align", a, i) \/ i = row
    BY <1>6, MovingFacts DEF Task
  <2>6. P!PaddingsOf(a, k)' = P!PaddingsOf(a, k)
    BY <1>4, ContentKept
  <2>7. done(k)' = IF row \in P!PaddingsOf(a, k) THEN done(k) \cup {row} ELSE done(k)
    BY <2>5, <2>6
  <2> HIDE DEF done
  <2>8. Cardinality(done(k) \cup {row}) = Cardinality(done(k)) + 1
    BY <2>2, <2>4, FS_AddElement
  <2> QED
    BY <2>3, <2>7, <2>8
<1>10. TableWritten(w, a)'
  <2> DEFINE before == job[w].start.rows[a]
             pads(k) == IF a \in P!Padded(c) /\ k \in P!New(c) THEN Cardinality(done(k)) ELSE 0
  <2>1. lake.rows[a] = [k \in Keys |-> before[k] + pads(k)]
    BY <1>1, <1>4, <1>6 DEF Written, TableWritten
  <2>2. ASSUME NEW k \in Keys
        PROVE  lake'.rows[a][k] = before[k] +
                 IF k \in P!New(c) THEN Cardinality(done(k)') ELSE 0
    <3>1. lake'.rows[a][k] = (before[k] + pads(k)) +
            IF k \in P!New(c) /\ row \in P!PaddingsOf(a, k) THEN 1 ELSE 0
      BY <1>7, <2>1 DEF Now!AppendRows, Now!OneRowEach
    <3>2. before[k] \in Nat
      BY <1>6, <1>8
    <3> HIDE DEF done, before
    <3>3. Cardinality(done(k)) \in Nat
      BY <1>9
    <3>4. Cardinality(done(k)') =
            Cardinality(done(k)) + IF row \in P!PaddingsOf(a, k) THEN 1 ELSE 0
      BY <1>9
    <3>5. CASE k \in P!New(c)
      BY <1>6, <3>1, <3>2, <3>3, <3>4, <3>5
    <3>6. CASE k \notin P!New(c)
      BY <3>1, <3>2, <3>6
    <3> QED
      BY <3>5, <3>6
  <2>3. DOMAIN lake'.rows[a] = Keys /\ lake'.rows[a] = [k \in Keys |-> lake'.rows[a][k]]
    BY <1>7 DEF Now!AppendRows
  <2>4. lake'.rows[a] = [k \in Keys |-> before[k] +
                           IF k \in P!New(c) THEN Cardinality(done(k)') ELSE 0]
    <3> HIDE DEF done, before
    <3> QED
      BY <2>2, <2>3
  <2>5. /\ P!Targets(c)' = P!Targets(c) /\ P!Padded(c)' = P!Padded(c)
        /\ P!New(c)' = P!New(c) /\ job'[w].call = c /\ job'[w].start = job[w].start
    BY <1>1, <1>4, ContentKept, MovingFacts
  <2> QED
    BY <1>6, <2>4, <2>5 DEF TableWritten
<1>11. ASSUME NEW b \in P!Used PROVE TableWritten(w, b)'
  <2>1. CASE b # a
    <3>1. lake'.rows[b] = lake.rows[b]
      BY <1>7, <1>8, <2>1
    <3>2. t # Task("update", b, 0) /\ t.addr # b
      BY <1>2, <2>1 DEF Task
    <3> QED
      BY <3>1, <3>2, TableKept
  <2> QED
    BY <1>10, <2>1
<1>12. ASSUME NEW h \in P!Fresh(c) PROVE FreshWritten(w, h)'
  <2>1. P!Home(c, h) # a
    BY <1>6, <1>8
  <2>2. FreshWritten(w, h)
    BY <1>1, <1>4 DEF Written
  <2>3. t # Task("update", h, 0)
    BY DEF Task
  <2> QED
    BY <1>1, <1>5, <1>7, <2>1, <2>2, <2>3, FreshKept
<1>13. SystemWritten(w)'
  BY <1>7, SystemKept
<1>14. P!Used' = P!Used /\ P!Fresh(c)' = P!Fresh(c) /\ job'[w].call = c
       /\ DOMAIN job'[w].tasks = Tasks(w)'
  BY <1>1, <1>4, ContentKept, MovingFacts
<1> QED
  BY <1>11, <1>12, <1>13, <1>14 DEF Written

\* A system table is written.
LEMMA SystemMoves ==
  ASSUME NEW w, NEW t, Moving(w, t, "done"), t.kind \notin {"update", "align"}
  PROVE  Written(w)'
<1>1. PICK c : c = job[w].call
  OBVIOUS
<1>2. /\ w \in Underway /\ w \in Writers /\ ~ Reading(w) /\ Run(w, t)
      /\ t \in DOMAIN job[w].tasks
      /\ TInv /\ SeqInv /\ Snapshots /\ ContentInv
      /\ Written(w) /\ At(w, "body") /\ UNCHANGED P!vars
  BY MovingFacts DEF Moving, TaskStep
<1>3. /\ Seen(w)!New(c) = P!New(c) /\ Seen(w)!Homes(c) = P!Homes(c)
      /\ Seen(w)!FeatureRowsAfter(c) = P!FeatureRowsAfter(c)
      /\ \A h : Seen(w)!Home(c, h) = P!Home(c, h)
  BY <1>2, CallWrites, SnapshotAgrees
<1>4. /\ t.kind \in {"index", "tmeta", "fmeta"} /\ t = Task(t.kind, NoAddr, 0)
  BY <1>2, TaskCases DEF Task
<1>5. /\ lake'.rows = lake.rows
      /\ lake'.index = IF t.kind = "index" THEN Now!AppendRows(lake.index, P!New(c))
                       ELSE lake.index
      /\ lake'.tmeta = IF t.kind = "tmeta" THEN TableMetadataCommit(w).tmeta ELSE lake.tmeta
      /\ lake'.fmeta = IF t.kind = "fmeta" THEN lake.fmeta \cup P!FeatureRowsAfter(c)
                       ELSE lake.fmeta
  <2>1. lake' = Committed(w, t)
    BY <1>2 DEF Run
  <2> QED
    BY <1>1, <1>2, <1>3, <1>4, <2>1, OtherWrites
<1>6. /\ P!New(c)' = P!New(c) /\ P!Used' = P!Used /\ P!Homes(c)' = P!Homes(c)
      /\ \A a : P!Recorded(a)' = P!Recorded(a)
      /\ P!FeatureRowsAfter(c)' = P!FeatureRowsAfter(c)
      /\ P!Fresh(c)' = P!Fresh(c) /\ job'[w].call = c /\ job'[w].start = job[w].start
      /\ DOMAIN job'[w].tasks = Tasks(w)'
  BY <1>1, <1>2, ContentKept, MovingFacts
<1>7. \A kind \in {"index", "tmeta", "fmeta"} :
        /\ IsDone(w, kind, NoAddr, 0)' <=> IsDone(w, kind, NoAddr, 0) \/ t.kind = kind
        /\ t.kind = kind => ~ IsDone(w, kind, NoAddr, 0)
  BY <1>4, MovingFacts DEF Task, IsDone
<1>8. SystemWritten(w)
  BY <1>2 DEF Written
<1> DEFINE metadata == [a \in P!Used \cup P!Homes(c) |->
                          P!Recorded(a) \o IF a \in P!Homes(c) THEN <<c.hi>> ELSE << >>]
<1>9. t.kind = "tmeta" => lake'.tmeta = metadata
  <2>1. SUFFICES ASSUME t.kind = "tmeta" PROVE lake'.tmeta = metadata
    OBVIOUS
  <2>2. lake.tmeta = job[w].start.tmeta
    BY <1>7, <1>8, <2>1 DEF SystemWritten
  <2>3. lake.tmeta = Content.tmeta
    BY <1>2, <2>2, CallWrites
  <2>4. \A a : P!Recorded(a) = IF a \in DOMAIN lake.tmeta THEN lake.tmeta[a] ELSE << >>
    BY <2>3 DEF P!Recorded, P!Used
  <2>5. DOMAIN lake.tmeta = P!Used /\ RecordedAddrs(w) = P!Homes(c)
    BY <1>1, <1>3, <2>3 DEF P!Used, RecordedAddrs
  <2>6. "tmeta" \in DOMAIN lake
    BY <1>2 DEF TInv, IsLake
  <2>7. TableMetadataCommit(w).tmeta = metadata
    BY <1>1, <2>4, <2>5, <2>6 DEF TableMetadataCommit
  <2> QED
    BY <1>5, <2>1, <2>7
<1>10. SystemWritten(w)'
  <2>1. lake'.index = IF IsDone(w, "index", NoAddr, 0)'
                      THEN Now!AppendRows(job[w].start.index, P!New(c))
                      ELSE job[w].start.index
    BY <1>1, <1>5, <1>7, <1>8 DEF SystemWritten
  <2>2. lake'.tmeta = IF IsDone(w, "tmeta", NoAddr, 0)' THEN metadata
                      ELSE job[w].start.tmeta
    BY <1>1, <1>5, <1>7, <1>8, <1>9 DEF SystemWritten
  <2>3. lake'.fmeta = IF IsDone(w, "fmeta", NoAddr, 0)'
                      THEN job[w].start.fmeta \cup P!FeatureRowsAfter(c)
                      ELSE job[w].start.fmeta
    BY <1>1, <1>5, <1>7, <1>8 DEF SystemWritten
  <2> QED
    BY <1>1, <1>6, <2>1, <2>2, <2>3 DEF SystemWritten
<1>11. \A a \in P!Used : TableWritten(w, a)'
  <2> TAKE a \in P!Used
  <2>1. t # Task("update", a, 0) /\ t.kind # "align"
    BY <1>4 DEF Task
  <2> QED
    BY <1>5, <2>1, TableKept
<1>12. ASSUME NEW h \in P!Fresh(c) PROVE FreshWritten(w, h)'
  <2>1. FreshWritten(w, h)
    BY <1>1, <1>2 DEF Written
  <2>2. t # Task("update", h, 0)
    BY <1>4 DEF Task
  <2> QED
    BY <1>1, <1>3, <1>5, <2>1, <2>2, FreshKept
<1> QED
  BY <1>6, <1>10, <1>11, <1>12 DEF Written

\* Whatever a task does, the tables are as far as the tasks have come.
LEMMA TasksWrite ==
  ASSUME NEW w, NEW t, NEW state, Moving(w, t, state)
  PROVE  Written(w)'
<1>1. CASE state \in {"sent", "failed"}
  <2>1. PICK c : c = job[w].call
    OBVIOUS
  <2>2. /\ w \in Underway /\ ~ Reading(w) /\ lake' = lake
        /\ TInv /\ SeqInv /\ Snapshots /\ ContentInv
        /\ Written(w) /\ At(w, "body") /\ UNCHANGED P!vars
    BY <1>1, MovingFacts DEF Moving, TaskStep
  <2>3. \A h : Seen(w)!Home(c, h) = P!Home(c, h)
    BY <2>2, CallWrites, SnapshotAgrees
  <2>4. SystemWritten(w)'
    BY <1>1, <2>2, SystemKept
  <2>5. \A a \in P!Used : TableWritten(w, a)'
    BY <1>1, <2>2, TableKept
  <2>6. \A g \in P!Fresh(c) : FreshWritten(w, g)'
    <3> TAKE g \in P!Fresh(c)
    <3>1. FreshWritten(w, g)
      BY <2>1, <2>2 DEF Written
    <3> QED
      BY <1>1, <2>1, <2>2, <2>3, <3>1, FreshKept
  <2>7. P!Used' = P!Used /\ P!Fresh(c)' = P!Fresh(c) /\ job'[w].call = c
        /\ DOMAIN job'[w].tasks = Tasks(w)'
    BY <2>1, <2>2, ContentKept, MovingFacts
  <2> QED
    BY <2>4, <2>5, <2>6, <2>7 DEF Written
<1>2. CASE state = "frozen"
  BY <1>2, FreezeMoves
<1>3. CASE state = "done"
  BY <1>3, UpdateMoves, AlignMoves, SystemMoves
<1> QED
  BY <1>1, <1>2, <1>3 DEF Moving

\* When the body returns every task is done: refs has all but the updates, and the
\* metadata tasks among them have waited for these.
LEMMA AllDone ==
  ASSUME TInv, SeqInv, NEW w \in Writers, BodyReturns(w), DOMAIN job[w].tasks = Tasks(w),
         NEW t \in Tasks(w)
  PROVE  t \in In(w, {"done"})
<1>1. Ordered(w) /\ In(w, {"unsent"}) = {} /\ Refs(w) \subseteq In(w, {"done"})
  BY DEF SeqInv, BodyReturns
<1>2. Refs(w) = {u \in DOMAIN job[w].tasks : u.kind # "update"}
  BY <1>1 DEF Refs
<1>3. CASE t.kind # "update"
  BY <1>1, <1>2, <1>3
<1>4. CASE t.kind = "update"
  <2> DEFINE m == Task("tmeta", NoAddr, 0)
  <2>1. Seen(w)!Targets(job[w].call) # {}
    BY <1>4 DEF Tasks, AlignTasks, Task
  <2>2. m \in Tasks(w) /\ m.kind = "tmeta"
    BY <2>1 DEF Tasks, Task
  <2>3. m \in In(w, {"done"})
    BY <1>1, <1>2, <2>2
  <2>4. t \in Awaited(w, m)
    BY <1>4, <2>2 DEF Awaited
  <2> QED
    BY <1>1, <2>3, <2>4 DEF Ordered
<1> QED
  BY <1>3, <1>4

\* A call that succeeds has done what FeatureLake's does.
LEMMA SuccessAdds ==
  ASSUME TInv, SeqInv, SeqInv', Snapshots, ContentInv, NEW w \in Underway, Succeed(w),
         Underway' = {}, calls' = calls, NEW c, c = job[w].call
  PROVE  P!Add(c)
<1>1. c = job[w].call
  OBVIOUS
<1> DEFINE s == job[w].start
           homes == P!Homes(c)
<1>2. /\ w \in Writers /\ c \in P!Call /\ P!Basics /\ IsLake(s) /\ IsLake(lake)
      /\ Cardinality(Underway) = 1 /\ calls - Cardinality(Underway) < MaxCalls
      /\ calls \in Nat
  BY <1>1, CallUnderway
<1>3. At(w, "body") /\ ~ Reading(w) /\ Written(w) /\ BodyReturns(w) /\ lake' = lake
  BY DEF Succeed, BodyReturns, At, Reading, ContentInv
<1>4. /\ Content = s /\ P!Used = DOMAIN s.tmeta
      /\ Content' = lake /\ Cardinality(Underway)' = 0
  BY <1>3, CallWrites, ContentThen DEF SeqInv
<1>5. /\ Seen(w)!Targets(c) = P!Targets(c) /\ Seen(w)!New(c) = P!New(c)
      /\ Seen(w)!Padded(c) = P!Padded(c)
      /\ \A a, k : Seen(w)!PaddingsOf(a, k) = P!PaddingsOf(a, k)
  BY <1>3, CallWrites, SnapshotAgrees
<1>6. \A t \in Tasks(w) : t \in In(w, {"done"})
  BY <1>2, <1>3, AllDone DEF Written
<1>7. /\ \A g \in P!Targets(c) : IsDone(w, "update", g, 0)
      /\ \A a \in P!Padded(c), k \in P!New(c) : \A i \in P!PaddingsOf(a, k) :
           IsDone(w, "align", a, i)
      /\ IsDone(w, "index", NoAddr, 0)
      /\ P!Targets(c) # {} => IsDone(w, "tmeta", NoAddr, 0) /\ IsDone(w, "fmeta", NoAddr, 0)
  <2>1. \A g \in P!Targets(c) : Task("update", g, 0) \in Tasks(w)
    BY <1>1, <1>5 DEF Tasks
  <2>2. \A a \in P!Padded(c), k \in P!New(c) : \A i \in P!PaddingsOf(a, k) :
          Task("align", a, i) \in Tasks(w)
    BY <1>1, <1>5 DEF Tasks, AlignTasks
  <2>3. Task("index", NoAddr, 0) \in Tasks(w)
    BY DEF Tasks
  <2>4. P!Targets(c) # {} => /\ Task("tmeta", NoAddr, 0) \in Tasks(w)
                             /\ Task("fmeta", NoAddr, 0) \in Tasks(w)
    BY <1>1, <1>5 DEF Tasks
  <2> QED
    BY <1>6, <2>1, <2>2, <2>3, <2>4 DEF IsDone
<1>8. Present(lake.index) = Present(s.index) \cup P!New(c)
  <2>1. lake.index = Now!AppendRows(s.index, P!New(c))
    BY <1>1, <1>3, <1>7 DEF Written, SystemWritten
  <2>2. \A k \in Keys : s.index[k] \in Nat /\ lake.index[k] =
                          s.index[k] + IF k \in P!New(c) THEN 1 ELSE 0
    BY <1>2, <2>1 DEF Now!AppendRows, Now!OneRowEach, IsLake
  <2>3. P!New(c) \subseteq Keys
    BY <1>2 DEF P!Call, P!New
  <2> QED
    BY <2>2, <2>3 DEF Present
<1>9. lake.tmeta = [a \in P!Used \cup homes |->
                      P!Recorded(a) \o IF a \in homes THEN <<c.hi>> ELSE << >>]
  <2>1. CASE P!Targets(c) # {}
    BY <1>1, <1>3, <1>7, <2>1 DEF Written, SystemWritten
  <2>2. CASE P!Targets(c) = {}
    <3>1. homes = {}
      BY <2>2 DEF P!Homes
    <3>2. ~ IsDone(w, "tmeta", NoAddr, 0)
      BY <1>1, <1>3, <1>5, <2>2 DEF Written, IsDone, In, Tasks, AlignTasks, Task
    <3>3. lake.tmeta = s.tmeta
      BY <1>3, <3>2 DEF Written, SystemWritten
    <3>4. \A a \in P!Used : P!Recorded(a) \o << >> = s.tmeta[a]
      <4>1. \A a \in P!Used : P!Recorded(a) = s.tmeta[a] /\ s.tmeta[a] \in Seq(Now!Times)
        BY <1>2, <1>4 DEF P!Recorded, IsLake
      <4> QED
        BY <4>1
    <3>5. s.tmeta = [a \in P!Used |-> s.tmeta[a]]
      BY <1>2, <1>4 DEF P!Basics, P!TypeOK
    <3> QED
      BY <3>1, <3>3, <3>4, <3>5
  <2> QED
    BY <2>1, <2>2
<1>10. lake.fmeta = s.fmeta \cup P!FeatureRowsAfter(c)
  <2>1. CASE P!Targets(c) # {}
    BY <1>1, <1>3, <1>7, <2>1 DEF Written, SystemWritten
  <2>2. CASE P!Targets(c) = {}
    <3>1. ~ IsDone(w, "fmeta", NoAddr, 0)
      BY <1>1, <1>3, <1>5, <2>2 DEF Written, IsDone, In, Tasks, AlignTasks, Task
    <3>2. lake.fmeta = s.fmeta
      BY <1>3, <3>1 DEF Written, SystemWritten
    <3>3. P!FeatureRowsAfter(c) = {}
      BY <2>2 DEF P!FeatureRowsAfter, P!Targets
    <3> QED
      BY <3>2, <3>3
  <2> QED
    BY <2>1, <2>2
<1>11. ASSUME NEW a \in P!Used PROVE lake.rows[a] = P!UpdatedRows(c, a)
  <2> DEFINE before == s.rows[a]
  <2>1. /\ [b \in DOMAIN Content.tmeta |-> Content.rows[b]][a] = before
        /\ before \in [Keys -> Nat]
    BY <1>1, <1>3, CallTables
  <2>2. TableWritten(w, a)
    BY <1>3 DEF Written
  <2>3. CASE a \in P!Targets(c)
    <3>1. Task("update", a, 0) \in In(w, {"frozen", "done"})
      BY <1>7, <2>3 DEF IsDone, In
    <3> QED
      BY <1>1, <2>2, <2>3, <3>1 DEF TableWritten
  <2>4. CASE a \in P!Padded(c)
    <3>1. a \notin P!Targets(c)
      BY <2>4 DEF P!Padded
    <3>2. \A k \in P!New(c) : {i \in P!PaddingsOf(a, k) : IsDone(w, "align", a, i)}
                                = P!PaddingsOf(a, k)
      BY <1>7, <2>4
    <3>3. lake.rows[a] = [k \in Keys |-> before[k] +
            IF k \in P!New(c) THEN Cardinality(P!PaddingsOf(a, k)) ELSE 0]
      BY <1>1, <2>2, <2>4, <3>1, <3>2 DEF TableWritten
    <3>4. \A k : P!Cardinality(P!PaddingsOf(a, k)) = Cardinality(P!PaddingsOf(a, k))
      BY DEF P!Cardinality, Cardinality
    <3>5. P!UpdatedRows(c, a) = P!PaddedRows(c, a)
      BY <2>1, <2>4, UpdatedCases
    <3> HIDE DEF before
    <3> QED
      BY <2>1, <3>3, <3>4, <3>5 DEF P!PaddedRows
  <2>5. CASE a \notin P!Targets(c) \cup P!Padded(c)
    <3>1. lake.rows[a] = [k \in Keys |-> before[k] + 0]
      BY <1>1, <2>2, <2>5 DEF TableWritten
    <3>2. P!UpdatedRows(c, a) = before
      BY <2>1, <2>5, UpdatedCases
    <3> HIDE DEF before
    <3> QED
      BY <2>1, <3>1, <3>2
  <2> QED
    BY <2>3, <2>4, <2>5
<1>12. ASSUME NEW a \in homes \ P!Used PROVE lake.rows[a] = P!CreatedRows(c, a)
  <2>1. PICK g \in P!Targets(c) : a = P!Home(c, g)
    BY DEF P!Homes
  <2>2. g \in P!Fresh(c)
    BY <1>2, <2>1, LakeAssumptions, P!HomeFacts
  <2>3. FreshWritten(w, g) /\ IsDone(w, "update", g, 0)
    BY <1>1, <1>3, <1>7, <2>1, <2>2 DEF Written
  <2> QED
    BY <1>1, <2>1, <2>3 DEF FreshWritten
<1>13. [a \in DOMAIN lake.tmeta |-> lake.rows[a]]
         = [a \in P!Used \cup homes |->
              IF a \in P!Used THEN P!UpdatedRows(c, a) ELSE P!CreatedRows(c, a)]
  BY <1>9, <1>11, <1>12
<1>14. /\ Present(Content.index)' = Present(Content.index) \cup P!New(c)
       /\ [a \in DOMAIN Content.tmeta |-> Content.rows[a]]'
            = [a \in P!Used \cup homes |->
                 IF a \in P!Used THEN P!UpdatedRows(c, a) ELSE P!CreatedRows(c, a)]
       /\ (Content.tmeta)' = [a \in P!Used \cup homes |->
                                P!Recorded(a) \o IF a \in homes THEN <<c.hi>> ELSE << >>]
       /\ (Content.fmeta)' = Content.fmeta \cup P!FeatureRowsAfter(c)
       /\ (calls - Cardinality(Underway))' = (calls - Cardinality(Underway)) + 1
  <2>1. (calls - Cardinality(Underway))' = (calls - Cardinality(Underway)) + 1
    BY <1>2, <1>4
  <2>2. [a \in DOMAIN Content.tmeta |-> Content.rows[a]]'
          = [a \in DOMAIN lake.tmeta |-> lake.rows[a]]
    BY <1>4
  <2>3. Present(Content.index)' = Present(lake.index)
    BY <1>4 DEF Present
  <2> QED
    BY <1>4, <1>8, <1>9, <1>10, <1>13, <2>1, <2>2, <2>3
<1> QED
  BY <1>1, <1>14 DEF P!Add

-----------------------------------------------------------------------------
(* The steps of FeatureLake. *)

\* What a step does to the content: nothing, or one whole call.
OneOrNone ==
  \/ UNCHANGED P!vars
  \/ /\ calls - Cardinality(Underway) < MaxCalls
     /\ P!Raises \/ \E c \in P!Call : P!Permitted(c) /\ P!Add(c)

\* A call that comes to nothing, before or after it began to write, is a call
\* that raises.
LEMMA NothingRaises ==
  ASSUME TInv, SeqInv, SeqInv', ContentInv, NEW w \in Underway, Underway' = {},
         calls' = calls,
         (Reading(w) /\ lake' = lake) \/ LogRolledBack(w) \/ Recovered(w)
  PROVE  P!Raises
<1> DEFINE s == job[w].start
<1>1. /\ Cardinality(Underway) = 1 /\ Cardinality(Underway)' = 0 /\ calls \in Nat
      /\ Content' = lake'
  BY CallUnderway, ContentThen DEF SeqInv
<1>2. (calls - Cardinality(Underway))' = (calls - Cardinality(Underway)) + 1
  BY <1>1
<1>3. CASE Reading(w) /\ lake' = lake
  <2>1. Content' = Content
    BY <1>1, <1>3, ContentNow DEF SeqInv
  <2> QED
    BY <1>2, <2>1 DEF P!Raises, Present
<1>4. CASE LogRolledBack(w) \/ Recovered(w)
  <2>1. lake' = lake /\ Restored(w) /\ Restoring(w) /\ ~ Reading(w)
    BY <1>4 DEF LogRolledBack, Recovered, Restored, Restoring, Reading
  <2>2. Content = s
    BY <2>1, ContentNow DEF SeqInv
  <2>3. /\ lake.index = s.index /\ lake.tmeta = s.tmeta /\ lake.fmeta = s.fmeta
        /\ \A r \in s.fmeta : lake.rows[r.addr] = s.rows[r.addr]
    BY <2>1 DEF SeqInv, Progress, Restored, Underway
  <2>4. \A a \in DOMAIN s.tmeta : lake.rows[a] = s.rows[a]
    BY <2>2, <2>3 DEF ContentInv, Tracked, P!Used
  <2>5. [a \in DOMAIN lake.tmeta |-> lake.rows[a]] = [a \in DOMAIN s.tmeta |-> s.rows[a]]
    BY <2>3, <2>4
  <2>6. /\ Present(Content.index)' = Present(Content.index)
        /\ [a \in DOMAIN Content.tmeta |-> Content.rows[a]]'
             = [a \in DOMAIN Content.tmeta |-> Content.rows[a]]
        /\ (Content.tmeta)' = Content.tmeta /\ (Content.fmeta)' = Content.fmeta
    BY <1>1, <2>1, <2>2, <2>3, <2>5 DEF Present
  <2> QED
    BY <1>2, <2>6 DEF P!Raises
<1> QED
  BY <1>3, <1>4

\* The tables with table_metadata are those with feature_metadata: what a restore
\* brings back, and no more.
LEMMA OutcomeKeeps ==
  ASSUME P!Basics, Tracked, OneOrNone
  PROVE  P!Basics' /\ Tracked'
<1>1. CASE UNCHANGED P!vars
  <2>1. P!Basics'
    BY <1>1, LakeAssumptions, P!StepKeepsBasics
  <2>2. (DOMAIN Content.tmeta)' = DOMAIN Content.tmeta /\ (Content.fmeta)' = Content.fmeta
    BY <1>1 DEF P!vars
  <2> QED
    BY <2>1, <2>2 DEF Tracked, P!Used
<1>2. CASE calls - Cardinality(Underway) < MaxCalls /\ P!Raises
  <2>1. P!Basics'
    BY <1>2, LakeAssumptions, P!RaisesKeepsBasics
  <2>2. (DOMAIN Content.tmeta)' = DOMAIN Content.tmeta /\ (Content.fmeta)' = Content.fmeta
    BY <1>2 DEF P!Raises
  <2> QED
    BY <2>1, <2>2 DEF Tracked, P!Used
<1>3. ASSUME NEW c \in P!Call, calls - Cardinality(Underway) < MaxCalls, P!Add(c)
      PROVE  P!Basics' /\ Tracked'
  <2>1. P!Basics'
    BY <1>3, LakeAssumptions, P!AddKeepsBasics
  <2>2. /\ (DOMAIN Content.tmeta)' = P!Used \cup P!Homes(c)
        /\ (Content.fmeta)' = Content.fmeta \cup P!FeatureRowsAfter(c)
    <3>1. (Content.tmeta)' = [a \in P!Used \cup P!Homes(c) |->
                                P!Recorded(a) \o IF a \in P!Homes(c) THEN <<c.hi>> ELSE << >>]
      BY <1>3 DEF P!Add
    <3> QED
      BY <1>3, <3>1 DEF P!Add
  <2>3. ASSUME NEW g \in P!Targets(c)
        PROVE  \/ P!Home(c, g) \in P!Used
               \/ \E r \in P!FeatureRowsAfter(c) : r.addr = P!Home(c, g)
    <3>1. CASE g \notin P!Fresh(c)
      BY <1>3, <3>1, LakeAssumptions, P!HomeFacts
    <3>2. CASE g \in P!Fresh(c)
      <4>1. PICK f \in c.feats : g = P!AddrOf(f)
        BY DEF P!Targets
      <4>2. g \notin P!Appends(c)
        BY <3>2 DEF P!Fresh, P!Appends, P!Old
      <4> DEFINE r == [feature |-> f,
                       version |-> IF P!AddrOf(f) = NoAddr THEN 0
                                   ELSE P!NextRank(c, P!AddrOf(f)),
                       addr    |-> P!Home(c, P!AddrOf(f)),
                       signal  |-> c.signal]
      <4>3. r \in P!FeatureRowsAfter(c)
        BY <4>1, <4>2 DEF P!FeatureRowsAfter
      <4>4. r.addr = P!Home(c, g)
        BY <4>1
      <4> QED
        BY <4>3, <4>4
    <3> QED
      BY <3>1, <3>2
  <2>4. ASSUME NEW a \in P!Used \cup P!Homes(c)
        PROVE  \E r \in Content.fmeta \cup P!FeatureRowsAfter(c) : r.addr = a
    BY <2>3, <2>4 DEF Tracked, P!Homes
  <2> QED
    BY <2>1, <2>2, <2>4 DEF Tracked, P!Used
<1> QED
  BY <1>1, <1>2, <1>3 DEF OneOrNone

\* Between calls a writer sees the content itself.
LEMMA NowAgrees ==
  ASSUME P!Basics, Content = lake, NEW c \in P!Call, Now!Permitted(c)
  PROVE  P!Permitted(c)
<1>1. /\ P!New(c) = Now!New(c) /\ P!Missing(c) = Now!Missing(c)
  BY DEF P!New, Now!New, P!Missing, Now!Missing, P!Time, Now!Time
<1>2. /\ \A f : P!RowsOf(f) = Now!RowsOf(f)
      /\ \A f : P!AddrOf(f) = Now!AddrOf(f)
  BY DEF P!AddrOf, Now!AddrOf, P!RowsOf, Now!RowsOf, P!LatestRow, Now!LatestRow
<1>3. \A g : P!LastUpdated(g) = Now!LastUpdated(g)
  BY DEF P!LastUpdated, Now!LastUpdated
<1>4. P!Targets(c) = Now!Targets(c)
  BY <1>2 DEF P!Targets, Now!Targets
<1>5. /\ P!Merges(c) = Now!Merges(c)
      /\ P!Copies(c) = Now!Copies(c)
      /\ P!Appends(c) = Now!Appends(c)
  BY <1>3, <1>4
     DEF P!Merges, Now!Merges, P!Copies, Now!Copies, P!Appends, Now!Appends, P!Old, Now!Old,
         P!Overlaps, Now!Overlaps, P!AllNew, Now!AllNew, P!Inner, Now!Inner
<1>6. P!Unpadded = Now!Unpadded
  BY DEF P!Unpadded, Now!Unpadded, P!DenseSignals, Now!DenseSignals
<1>7. P!Padded(c) = Now!Padded(c)
  BY <1>4, <1>6 DEF P!Padded, Now!Padded, P!Dense, Now!Dense, P!Used, Now!Used
<1>8. P!Copies(c) \subseteq P!Used
  BY LakeAssumptions, P!OldIsUsed DEF P!Copies
<1>9. \A g \in P!Copies(c) : P!KeysOf(P!KeptRows(c, g)) = Now!KeysOf(Now!KeptRows(c, g))
  <2>1. \A g \in P!Copies(c) : P!KeptRows(c, g) = Now!KeptRows(c, g)
    BY <1>8 DEF P!KeptRows, Now!KeptRows, P!Time, Now!Time, P!Used
  <2> QED
    BY <2>1 DEF P!KeysOf, Now!KeysOf
<1>10. \A a, k : /\ P!PaddingsOf(a, k) = Now!PaddingsOf(a, k)
                /\ P!Cardinality(P!PaddingsOf(a, k)) = Now!Cardinality(Now!PaddingsOf(a, k))
  <2>1. \A S : P!Cardinality(S) = Now!Cardinality(S)
    BY DEF P!Cardinality, Now!Cardinality
  <2>2. \A a, k : P!PaddingsOf(a, k) = Now!PaddingsOf(a, k)
    BY DEF P!PaddingsOf, Now!PaddingsOf, P!Time, Now!Time
  <2> QED
    BY <2>1, <2>2
<1>11. Now!NoRegress(c) => P!NoRegress(c)
  BY <1>3, <1>5, <1>6 DEF P!NoRegress, Now!NoRegress
<1>12. Now!NoGap(c) => P!NoGap(c)
  BY <1>1, <1>3, <1>5, <1>6, <1>9 DEF P!NoGap, Now!NoGap, P!Time, Now!Time
<1>13. Now!NoOldBackfill(c) => P!NoOldBackfill(c)
  BY <1>1, <1>7, <1>10 DEF P!NoOldBackfill, Now!NoOldBackfill
<1>14. Now!SameSignal(c) => P!SameSignal(c)
  BY <1>2 DEF P!SameSignal, Now!SameSignal, P!DenseSignals, Now!DenseSignals
<1>15. Now!NoRewind(c) => P!NoRewind(c)
  BY <1>3, <1>5, <1>6 DEF P!NoRewind, Now!NoRewind
<1> QED
  BY <1>11, <1>12, <1>13, <1>14, <1>15 DEF P!Permitted, Now!Permitted

\* A transaction starts from the lake as it is, with every task still to come.
LEMMA StartWrites ==
  ASSUME TInv, SeqInv, SeqInv', ContentInv, NEW w \in Underway, StartTransaction(w),
         calls' = calls, Underway' = Underway
  PROVE  UNCHANGED P!vars /\ job'[w].call = job[w].call /\ Written(w)'
<1> DEFINE j == job[w]
<1>1. /\ w \in Writers /\ DOMAIN job = Writers /\ IsLake(lake) /\ lake' = lake
      /\ DOMAIN j = {"pc", "tx", "call", "index", "fmeta", "tmeta", "start", "tasks",
                     "step", "left"}
  BY CallUnderway DEF TInv, JobOK, JobShape, StartTransaction
<1>2. /\ job'[w].pc = "body" /\ job'[w].start = lake
      /\ job'[w].tasks = [t \in Tasks(w) |-> "unsent"]
      /\ job'[w].tx = j.tx /\ job'[w].call = j.call /\ job'[w].index = j.index
      /\ job'[w].fmeta = j.fmeta /\ job'[w].tmeta = j.tmeta
  BY <1>1 DEF StartTransaction
<1>3. Reading(w) /\ ~ Reading(w)'
  BY <1>2 DEF StartTransaction, Reading, At
<1>4. Content = lake /\ Content' = lake
  BY <1>2, <1>3, ContentNow, ContentThen DEF SeqInv
<1>5. UNCHANGED P!vars
  <2>1. /\ Present(Content.index)' = Present(Content.index)
        /\ (Cardinality(Underway))' = Cardinality(Underway)
    BY <1>4 DEF Present
  <2> QED
    BY <1>4, <2>1 DEF P!vars
<1>6. Tasks(w)' = Tasks(w)
  BY <1>2, SnapshotDecides
<1>7. /\ \A u : u \notin In(w, {"done"})' /\ u \notin In(w, {"frozen", "done"})'
      /\ \A kind, addr, row : ~ IsDone(w, kind, addr, row)'
  <2>1. \A u : u \notin In(w, {"done"})' /\ u \notin In(w, {"frozen", "done"})'
    BY <1>2 DEF In
  <2> QED
    BY <2>1 DEF IsDone
<1>8. SystemWritten(w)'
  BY <1>1, <1>2, <1>7 DEF SystemWritten
<1>9. ASSUME NEW a \in P!Used' PROVE TableWritten(w, a)'
  <2>1. lake.rows[a] \in [Keys -> Nat]
    BY <1>1, <1>4 DEF P!Used, IsLake
  <2>2. \A k : {i \in P!PaddingsOf(a, k) : IsDone(w, "align", a, i)}' = {}
    BY <1>7
  <2>3. Cardinality({}) = 0
    BY FS_EmptySet
  <2>4. \A k : Cardinality({i \in P!PaddingsOf(a, k) : IsDone(w, "align", a, i)})' = 0
    BY <2>2, <2>3
  <2> DEFINE padding(k) == IF a \in P!Padded(job[w].call) /\ k \in P!New(job[w].call)
                           THEN Cardinality({i \in P!PaddingsOf(a, k) : IsDone(w, "align", a, i)})
                           ELSE 0
  <2>5. \A k \in Keys : padding(k)' = 0
    BY <2>4
  <2> HIDE DEF padding
  <2>6. lake.rows[a] = [k \in Keys |-> lake.rows[a][k] + padding(k)']
    BY <2>1, <2>5
  <2> USE DEF padding
  <2> QED
    BY <1>1, <1>2, <1>7, <2>6 DEF TableWritten
<1>10. \A g \in P!Fresh(job[w].call)' : FreshWritten(w, g)'
  BY <1>7 DEF FreshWritten
<1> QED
  BY <1>2, <1>5, <1>6, <1>8, <1>9, <1>10 DEF Written

\* Every step of a writer is nothing to the content, or one whole call.
LEMMA ContentNext ==
  ASSUME Exclusive, TInv, SeqInv, SeqInv', Snapshots, ContentInv, [Next]_vars
  PROVE  ContentInv' /\ OneOrNone
<1>1. SUFFICES /\ OneOrNone
               /\ \A w \in Underway' : P!Permitted(job[w].call)' /\ Written(w)'
  <2>1. OneOrNone => P!Basics' /\ Tracked'
    BY OutcomeKeeps DEF ContentInv
  <2> QED
    BY <2>1 DEF ContentInv
<1>2. CASE UNCHANGED vars
  <2>1. UNCHANGED P!vars
    BY <1>2 DEF vars, P!vars, Content, Underway, At, Present
  <2>2. Underway' = Underway /\ job' = job /\ lake' = lake
    BY <1>2 DEF vars, Underway, At
  <2>3. ASSUME NEW w \in Underway PROVE P!Permitted(job[w].call)' /\ Written(w)'
    <3>1. PICK c : c = job[w].call
      OBVIOUS
    <3>2. P!Permitted(c)' /\ Written(w)
      BY <2>1, <3>1, ContentKept DEF ContentInv
    <3>3. Written(w)'
      <4>1. /\ P!New(c)' = P!New(c) /\ P!Targets(c)' = P!Targets(c)
            /\ P!Padded(c)' = P!Padded(c) /\ P!Fresh(c)' = P!Fresh(c)
            /\ P!Used' = P!Used /\ P!Homes(c)' = P!Homes(c)
            /\ P!FeatureRowsAfter(c)' = P!FeatureRowsAfter(c)
            /\ \A g : P!Home(c, g)' = P!Home(c, g)
            /\ \A a : /\ P!UpdatedRows(c, a)' = P!UpdatedRows(c, a)
                      /\ P!CreatedRows(c, a)' = P!CreatedRows(c, a)
                      /\ P!Recorded(a)' = P!Recorded(a)
                      /\ \A k : P!PaddingsOf(a, k)' = P!PaddingsOf(a, k)
        BY <2>1, ContentKept
      <4>2. \A kind, addr, row : IsDone(w, kind, addr, row)' <=> IsDone(w, kind, addr, row)
        BY <2>2 DEF IsDone, In, Task
      <4>3. Tasks(w)' = Tasks(w) /\ \A S : In(w, S)' = In(w, S)
        BY <2>2, SnapshotDecides DEF In
      <4>4. SystemWritten(w) => SystemWritten(w)'
        BY <2>2, <3>1, <4>1, <4>2 DEF SystemWritten
      <4>5. \A a : TableWritten(w, a) => TableWritten(w, a)'
        <5> TAKE a
        <5>1. \A k : {i \in P!PaddingsOf(a, k) : IsDone(w, "align", a, i)}'
                    = {i \in P!PaddingsOf(a, k) : IsDone(w, "align", a, i)}
          BY <4>1, <4>2
        <5>2. Task("update", a, 0)' = Task("update", a, 0)
          BY DEF Task
        <5>3. CASE a \in P!Targets(c)
          BY <2>2, <3>1, <4>1, <4>3, <5>2, <5>3 DEF TableWritten
        <5>4. CASE a \notin P!Targets(c)
          BY <2>2, <3>1, <4>1, <5>1, <5>4 DEF TableWritten
        <5> QED
          BY <5>3, <5>4
      <4>6. \A g : FreshWritten(w, g) => FreshWritten(w, g)'
        <5> TAKE g
        <5>1. PICK home : home = P!Home(c, g)
          OBVIOUS
        <5> QED
          BY <2>2, <3>1, <4>1, <4>2, <5>1 DEF FreshWritten
      <4> QED
        BY <2>2, <3>1, <3>2, <4>1, <4>3, <4>4, <4>5, <4>6 DEF Written, At
    <3> QED
      BY <2>2, <3>1, <3>2, <3>3
  <2> QED
    BY <2>1, <2>2, <2>3 DEF OneOrNone
<1>3. ASSUME NEW w \in Writers, Settled(w), NEW c \in Now!Call, MayBegin(w, c), Begin(w, c)
      PROVE  /\ OneOrNone
             /\ \A v \in Underway' : P!Permitted(job[v].call)' /\ Written(v)'
  <2>1. Underway = {} /\ Underway' = {w}
    BY <1>3, BeginsInOrder
  <2>2. /\ job'[w].pc = "fmeta" /\ job'[w].call = c /\ lake' = lake /\ calls' = calls + 1
    BY <1>3 DEF Begin, TInv, NoJob
  <2>3. Reading(w)' /\ ~ At(w, "body")'
    BY <2>2 DEF Reading, At
  <2>4. /\ Content = lake /\ Cardinality(Underway) = 0
        /\ Content' = lake /\ Cardinality(Underway)' = 1
    BY <2>1, <2>2, <2>3, ContentNow, ContentThen DEF SeqInv
  <2>5. UNCHANGED P!vars
    <3>1. (calls - Cardinality(Underway))' = calls - Cardinality(Underway)
      BY <2>2, <2>4 DEF TInv, LogOK
    <3> QED
      BY <2>4, <3>1 DEF P!vars, Present
  <2>6. c \in P!Call
    BY DEF P!Call, Now!Call, P!Times, Now!Times, P!Time, Now!Time
  <2>7. P!Permitted(c)
    BY <1>3, <2>4, <2>6, NowAgrees DEF ContentInv, MayBegin
  <2>8. P!Permitted(c)'
    BY <2>5, <2>7, ContentKept
  <2>9. P!Permitted(job[w].call)'
    BY <2>2, <2>8
  <2>10. Written(w)'
    BY <2>3 DEF Written
  <2> QED
    BY <2>1, <2>5, <2>9, <2>10 DEF OneOrNone
<1>4. ASSUME NEW w \in Writers, Driver(w) \/ Worker(w) \/ Failure(w) \/ Recover(w)
      PROVE  /\ OneOrNone
             /\ \A v \in Underway' : P!Permitted(job[v].call)' /\ Written(v)'
  <2>1. /\ w \in Underway /\ calls' = calls /\ DOMAIN job = Writers
        /\ \A v \in Writers \ {w} : At(v, "idle") /\ job'[v] = job[v]
        /\ DOMAIN job[w] = {"pc", "tx", "call", "index", "fmeta", "tmeta", "start", "tasks",
                            "step", "left"}
    BY <1>4, StepKinds DEF TInv, JobOK, JobShape
  <2>2. Underway' \subseteq {w} /\ Underway = {w}
    BY <2>1 DEF Underway, At
  <2>3. PICK c : c = job[w].call
    OBVIOUS
  <2>4. P!Permitted(c) /\ c \in P!Call /\ calls - Cardinality(Underway) < MaxCalls
    BY <2>1, <2>3, CallUnderway DEF ContentInv
  <2>5. ASSUME UNCHANGED P!vars, job'[w].call = job[w].call, Written(w)'
        PROVE  /\ OneOrNone
               /\ \A v \in Underway' : P!Permitted(job[v].call)' /\ Written(v)'
    <3>1. P!Permitted(c)'
      BY <2>4, <2>5, ContentKept
    <3>2. P!Permitted(job[w].call)'
      BY <2>3, <2>5, <3>1
    <3> QED
      BY <2>2, <2>5, <3>2 DEF OneOrNone
  <2>6. CASE ReadFeatureMetadata(w) \/ ReadTableMetadata(w)
    <3>1. /\ lake' = lake /\ Reading(w) /\ job'[w].call = job[w].call
          /\ job'[w].pc \in {"tmeta", "start"}
      BY <2>1, <2>6 DEF ReadFeatureMetadata, ReadTableMetadata, Reading, At
    <3>2. w \in Underway' /\ Reading(w)' /\ ~ At(w, "body")'
      BY <2>1, <3>1 DEF Underway, Reading, At
    <3>3. Content' = Content /\ Cardinality(Underway)' = Cardinality(Underway)
      BY <2>1, <3>1, <3>2, ContentNow, ContentThen DEF SeqInv
    <3>4. UNCHANGED P!vars
      BY <2>1, <3>3 DEF P!vars, Present
    <3> QED
      BY <2>5, <3>1, <3>2, <3>4 DEF Written
  <2>7. CASE StartTransaction(w)
    <3>1. w \in Underway'
      BY <2>1, <2>7 DEF StartTransaction, Underway, At
    <3> QED
      BY <2>1, <2>2, <2>5, <2>7, <3>1, StartWrites
  <2>8. CASE \/ Reading(w) /\ job' = [job EXCEPT ![w] = NoJob] /\ lake' = lake
             \/ LogRolledBack(w) \/ Recovered(w)
    <3>1. job'[w].pc = "idle"
      BY <2>1, <2>8 DEF LogRolledBack, Recovered, Goto, NoJob
    <3>2. Underway' = {}
      BY <2>2, <3>1 DEF Underway, At
    <3>3. P!Raises
      BY <2>1, <2>8, <3>2, NothingRaises
    <3> QED
      BY <2>4, <3>2, <3>3 DEF OneOrNone
  <2>9. CASE Succeed(w)
    <3>1. job'[w].pc = "idle"
      BY <2>1, <2>9 DEF Succeed, NoJob
    <3>2. Underway' = {}
      BY <2>2, <3>1 DEF Underway, At
    <3>3. P!Add(c)
      BY <2>1, <2>3, <2>9, <3>2, SuccessAdds
    <3> QED
      BY <2>4, <3>2, <3>3 DEF OneOrNone
  <2>10. CASE Continues(w)
    <3>1. /\ ~ Reading(w) /\ ~ Reading(w)' /\ w \in Underway' /\ SameCall(w)
          /\ job'[w].call = job[w].call
      BY <2>10 DEF Continues, SameCall
    <3>2. Content' = Content /\ Cardinality(Underway)' = Cardinality(Underway)
      BY <2>1, <3>1, ContentNow, ContentThen DEF SeqInv, SameCall
    <3>3. UNCHANGED P!vars
      BY <2>1, <3>2 DEF P!vars, Present
    <3>4. Written(w)'
      <4>1. CASE At(w, "body") /\ \E t \in DOMAIN job[w].tasks,
                   state \in {"sent", "frozen", "done", "failed"} : TaskStep(w, t, state)
        <5>1. PICK t \in DOMAIN job[w].tasks,
                   state \in {"sent", "frozen", "done", "failed"} : TaskStep(w, t, state)
          BY <4>1
        <5>2. Moving(w, t, state)
          BY <2>1, <3>1, <3>3, <4>1, <5>1 DEF Moving
        <5> QED
          BY <5>2, TasksWrite
      <4>2. CASE ~ At(w, "body")'
        BY <4>2 DEF Written
      <4> QED
        BY <2>10, <4>1, <4>2 DEF Continues, Ending, TaskStep, At
    <3> QED
      BY <2>5, <3>1, <3>3, <3>4
  <2> QED
    BY <1>4, <2>6, <2>7, <2>8, <2>9, <2>10, StepKinds
<1> QED
  <2>1. [Next]_vars => \/ UNCHANGED vars
                       \/ \E w \in Writers :
                            \/ Settled(w) /\ \E c \in Now!Call : MayBegin(w, c) /\ Begin(w, c)
                            \/ Driver(w) \/ Worker(w) \/ Failure(w) \/ Recover(w)
    BY DEF Next
  <2> QED
    BY <1>2, <1>3, <1>4, <2>1

\* Before the first call.
LEMMA ContentInit == Init => P!Init /\ Snapshots /\ ContentInv
<1> SUFFICES ASSUME Init PROVE P!Init /\ Snapshots /\ ContentInv
  OBVIOUS
<1>1. Underway = {} /\ \A w \in Writers : ~ Reading(w)
  BY DEF Init, NoJob, Underway, At, Reading
<1>2. Content = EmptyLake /\ Cardinality(Underway) = 0
  BY <1>1, FS_EmptySet DEF Content, Init
<1>3. P!Init
  <2>1. Present(EmptyLake.index) = {}
    BY DEF Present, EmptyLake, Now!NoRows
  <2>2. /\ EmptyLake.tmeta = << >> /\ DOMAIN EmptyLake.tmeta = {} /\ EmptyLake.fmeta = {}
        /\ EmptyLake.rows = << >>
    BY DEF EmptyLake
  <2>3. [a \in DOMAIN EmptyLake.tmeta |-> EmptyLake.rows[a]] = << >>
    BY <2>2
  <2>4. calls - Cardinality(Underway) = 0
    BY <1>2 DEF Init
  <2> QED
    BY <1>2, <2>1, <2>2, <2>3, <2>4 DEF P!Init
<1>4. P!Basics
  BY <1>3, LakeAssumptions, P!BasicsInit
<1>5. Tracked
  BY <1>2 DEF Tracked, P!Used, EmptyLake
<1> QED
  BY <1>1, <1>3, <1>4, <1>5 DEF Snapshots, SnapshotIsStart, ContentInv

\* The content of the lake moves by whole calls only.
LEMMA ContentMoves ==
  ASSUME Exclusive, "submission" \notin Faults
  PROVE  Spec => P!Init /\ [][OneOrNone]_vars
<1>1. Spec => []TInv
  BY TInvInit, TInvNext, PTL DEF Spec
<1>2. Sequential
  BY DEF Sequential
<1>3. Init => SeqInv /\ Snapshots /\ ContentInv /\ P!Init
  BY SeqInvInit, ContentInit
<1>4. TInv /\ TInv' /\ SeqInv /\ [Next]_vars => SeqInv'
  BY <1>2, SeqInvNext
<1>5. TInv /\ SeqInv /\ SeqInv' /\ Snapshots /\ ContentInv /\ [Next]_vars
        => Snapshots' /\ ContentInv' /\ [OneOrNone]_vars
  BY SnapshotsNext, ContentNext
<1> QED
  BY <1>1, <1>3, <1>4, <1>5, PTL DEF Spec

\* Atomicity: every call, with its tasks in any order, any of them failing, and
\* crashes, interrupts, failed restores and recoveries in between, is one step of
\* FeatureLake or none.
THEOREM Atomicity ==
  ASSUME Exclusive, "submission" \notin Faults
  PROVE  Spec => Atomic
<1>1. P!Init => L!Init
  BY SameModel
<1>2. [OneOrNone]_vars => [L!Next]_(L!vars)
  <2>1. CASE UNCHANGED P!vars
    BY <2>1 DEF L!vars, P!vars
  <2>2. CASE calls - Cardinality(Underway) < MaxCalls /\ P!Raises
    BY <2>2, SameModel DEF L!Next
  <2>3. ASSUME NEW c \in P!Call, calls - Cardinality(Underway) < MaxCalls,
               P!Permitted(c), P!Add(c)
        PROVE  L!Next
    <3>1. c \in L!Call /\ L!Permitted(c) /\ L!Add(c)
      BY <2>3, SameModel
    <3> QED
      BY <2>3, <3>1 DEF L!Next
  <2>4. CASE UNCHANGED vars
    BY <2>4 DEF vars, L!vars, Content, Underway, At, Present
  <2> QED
    BY <2>1, <2>2, <2>3, <2>4 DEF OneOrNone
<1> QED
  BY <1>1, <1>2, ContentMoves, PTL DEF Atomic, L!Spec

\* The content is a FeatureLake of which theorems are known.
LEMMA ContentRefines ==
  ASSUME Exclusive, "submission" \notin Faults
  PROVE  Spec => P!Spec
<1>1. [OneOrNone]_vars => [P!Next]_(P!vars)
  <2>1. UNCHANGED vars => UNCHANGED P!vars
    BY DEF vars, P!vars, Content, Underway, At, Present
  <2>2. OneOrNone => [P!Next]_(P!vars)
    BY DEF OneOrNone, P!Next
  <2> QED
    BY <2>1, <2>2
<1> QED
  BY <1>1, ContentMoves, PTL DEF P!Spec

\* What is true of FeatureLake is then true of the lake under failures: each
\* dense feature is served the index rows up to its horizon, and only whole calls
\* move horizons, for callers that keep to the usage rules.
THEOREM TransactionsKeepContract ==
  ASSUME Exclusive, "submission" \notin Faults, Deviations = {}
  PROVE  Spec => P!Contract
<1>1. Spec => P!Spec
  BY ContentRefines
<1>2. P!Spec => P!Contract
  BY LakeAssumptions, P!KeepsContract
<1> QED
  BY <1>1, <1>2, PTL

\* And time travel: no failure, rollback or recovery takes away what an earlier
\* version could read before the call began, whatever the callers do.
THEOREM TransactionsKeepVersions ==
  ASSUME Exclusive, "submission" \notin Faults
  PROVE  Spec => P!VersionsSurvive
<1>1. Spec => P!Spec
  BY ContentRefines
<1>2. P!Spec => P!VersionsSurvive
  BY LakeAssumptions, P!TimeTravel
<1> QED
  BY <1>1, <1>2, PTL
=============================================================================
