----------------------------- MODULE LakeReads -----------------------------
(***************************************************************************)
(* What reads of a Gamma Lake return (read, read_table and                 *)
(* _concat_root_features of gamma_feature_lake.py): FeatureLake with a     *)
(* value in each cell of its tables.  A value is the number of the call    *)
(* that wrote it, so a read tells whose input it shows; 0 is null.         *)
(*                                                                         *)
(* Every operation is the one of FeatureLake, which says which keys it     *)
(* writes; this module adds which columns it writes there, and what.       *)
(***************************************************************************)
EXTENDS FeatureLake

CONSTANT
  Forward   \* as-of features registered with strategy "forward"

ASSUME ForwardAssumption == Forward \subseteq Features

VARIABLES
  cells,    \* cells[a][f][k]: what the table at a holds for feature f at key k
  written   \* history: what the calls so far mean f to be at k

readVars == <<index, rows, tmeta, fmeta, calls, cells, written>>

Null == 0
Values == Null .. MaxCalls

Pick(S, k, inside, outside) == IF k \in S THEN inside ELSE outside

-----------------------------------------------------------------------------
(* Reads. *)

Windows == {w \in [from : Times, to : Times] : w.from <= w.to}
Within(S, w) == {k \in S : w.from <= Time(k) /\ Time(k) <= w.to}
Everything == CHOOSE w \in Windows : \A k \in Keys : w.from <= Time(k) /\ Time(k) <= w.to

Rank(S, k) == Cardinality({j \in S : SortsBefore(j, k)})

\* A dense table is cut to the window, sorted, and put beside the index cut
\* to the window: the i-th row of the one meets the i-th row of the other, and
\* the index rows after its last row meet nulls.
DenseRead(a, f, w, k) ==
  LET there == Within(KeysOf(rows[a]), w)
      mates == {j \in there : Rank(there, j) = Rank(Within(index, w), k)}
  IN  IF mates = {} THEN Null ELSE cells[a][f][CHOOSE j \in mates : TRUE]

\* Mutant: the observations are cut to the window on both sides.
WindowOnly(f, w, j) == w.from <= Time(j) /\ Time(j) <= w.to

\* The observations an as-of read keeps: a bound must not cut off the history
\* (or, forward, the future) from which values are carried into the window.
InReach(f, w, j) == IF f \in Forward THEN w.from <= Time(j) ELSE Time(j) <= w.to

\* join_asof by the secondary keys: the nearest row at or before the index row,
\* or at or after it, even if its cell is null.
AsOfRead(a, f, w, k) ==
  LET kept == {j \in KeysOf(rows[a]) : InReach(f, w, j) /\ j[2] = k[2]}
      near == {j \in kept : IF f \in Forward
             THEN Time(k) <= Time(j) /\ \A i \in kept : Time(k) <= Time(i) => Time(j) <= Time(i)
             ELSE Time(j) <= Time(k) /\ \A i \in kept : Time(i) <= Time(k) => Time(i) <= Time(j)}
  IN  IF near = {} THEN Null ELSE cells[a][f][CHOOSE j \in near : TRUE]

\* A sparse table is joined to the index on the sort keys.
SparseRead(a, f, k) == Pick(KeysOf(rows[a]), k, cells[a][f][k], Null)

\* The value at index key k in a read, bounded by w, of the feature_metadata
\* row r: the latest row of a feature if read by name, any row if by frame.
Read(r, w, k) ==
  CASE r.signal = "as_of_feature"  -> AsOfRead(r.addr, r.feature, w, k)
    [] r.signal = "sparse_feature" -> SparseRead(r.addr, r.feature, k)
    [] OTHER -> DenseRead(r.addr, r.feature, w, k)

-----------------------------------------------------------------------------
(* Writes. *)

\* What a call stores at a key: its value, or null in a padding row.
Input(c, k) == Pick(c.keys, k, calls + 1, Null)

\* The columns of an existing table that a call writes: the input's features
\* stored there, or all of the input's where it is written as it came.
AllColumns(c, a) == c.feats
Columns(c, a) == IF AllNew(c) \/ a \in Copies(c) THEN c.feats ELSE Group(c, a)

\* The keys whose rows it writes there; alignment rows have no feature columns.
Overwritten(c, a) ==
  CASE a \in Merges(c)  -> MergedKeys(c)
    [] a \in Copies(c)  -> FrozenKeys(c, a)
    [] a \in Appends(c) -> AppendedKeys(c, a)
    [] OTHER -> {}

UpdatedCells(c, a) ==
  [f \in Features |-> [k \in Keys |->
     IF f \in Columns(c, a) /\ k \in Overwritten(c, a)
     THEN Input(c, k) ELSE cells[a][f][k]]]

\* A copy keeps the old cells before the input.
CopiedCells(c, g) ==
  [f \in Features |-> [k \in Keys |->
     IF f \notin Group(c, g) THEN Null
     ELSE IF Time(k) < c.lo THEN cells[g][f][k] ELSE Input(c, k)]]

\* Mutant: a copy starts with the input.
CreatedCellsAnew(c, a) ==
  [f \in Features |-> [k \in Keys |-> Pick(c.feats, f, Input(c, k), Null)]]

CreatedCells(c, a) ==
  IF \E g \in Copies(c) : Home(c, g) = a
  THEN CopiedCells(c, CHOOSE g \in Copies(c) : Home(c, g) = a)
  ELSE [f \in Features |-> [k \in Keys |-> Pick(c.feats, f, Input(c, k), Null)]]

AddCells(c) ==
  cells' = [a \in Used \cup Homes(c) |->
              IF a \in Used THEN UpdatedCells(c, a) ELSE CreatedCells(c, a)]

\* Consolidation stores what a read of the features returns now.
ConsolidateCells(fs) ==
  cells' = [a \in Used \cup {NewAddr(fs)} |->
              IF a \in Used THEN cells[a]
              ELSE [f \in Features |-> [k \in Keys |->
                      IF f \in fs /\ k \in index
                      THEN Read(LatestRow(f), Everything, k) ELSE Null]]]

\* The periods an input replaces: all from its first to its last, if any of its
\* keys was there before.  An input of new keys only adds to what is there.
Replaces(c, k) == ~AllNew(c) /\ c.lo <= Time(k) /\ Time(k) <= c.hi

\* What the caller means, in either overlap mode: the input's values at its keys,
\* nothing at the other keys it replaces, and elsewhere what was there.
AddWritten(c) ==
  written' = [f \in Features |-> [k \in Keys |->
     IF f \notin c.feats THEN written[f][k]
     ELSE IF k \in c.keys THEN calls + 1
     ELSE IF Replaces(c, k) THEN Null ELSE written[f][k]]]

-----------------------------------------------------------------------------
(* Usage under which reads return what was written: the rules of FeatureLake, *)
(* and three that matter to values only.                                      *)

\* Updates in place reach the end of as-of and sparse tables too, and a feature
\* stays as-of, or stays not as-of.
KeepsKind(c) ==
  /\ \A g \in Merges(c) \cup Appends(c) : LastUpdated(g) <= c.hi
  /\ \A f \in c.feats : \A r \in RowsOf(f) :
       r.signal = "as_of_feature" <=> c.signal = "as_of_feature"

\* Where an input is copied over a table, its features have no values after the
\* input's last period: the copy starts the new table without that tail.
KeepsTail(c) ==
  \A g \in Copies(c) : \A k \in KeysOf(rows[g]), f \in Group(c, g) :
    c.hi < Time(k) => cells[g][f][k] = Null

\* No call gives a current as-of feature a row without a value: an input of
\* them lists every index key that the call would pad their tables with, and
\* names every feature that lives in a table where it inserts rows.
NoAsOfPadding(c) ==
  c.signal = "as_of_feature" =>
    /\ NoAddr \in Targets(c) => Missing(c) = {}
    /\ \A g \in Merges(c) \cup Appends(c) : Overwritten(c, g) = c.keys
    /\ \A g \in Old(c) : \/ Overwritten(c, g) \subseteq KeysOf(rows[g])
                         \/ \A f \in Features : AddrOf(f) = g => f \in c.feats

ReadPermitted(c) ==
  /\ Permitted(c)
  /\ KeepsKind(c)
  /\ "asof" \in Deviations \/ NoAsOfPadding(c)
  /\ "tail" \in Deviations \/ KeepsTail(c)

ReadInit ==
  /\ Init
  /\ cells = << >>
  /\ written = [f \in Features |-> [k \in Keys |-> Null]]

ReadNext ==
  \/ /\ calls < MaxCalls
     /\ \E c \in Call : ReadPermitted(c) /\ Add(c) /\ AddCells(c) /\ AddWritten(c)
  \/ /\ calls < MaxCalls
     /\ \E fs \in SUBSET Features, hi \in Times :
          /\ Consolidate(fs, hi) /\ ConsolidatePermitted(fs)
          /\ ConsolidateCells(fs)
     /\ UNCHANGED written
  \/ /\ calls < MaxCalls
     /\ \E fs \in SUBSET Features, hi \in Times :
          /\ ConsolidateStops(fs, hi) /\ ConsolidatePermitted(fs)
          /\ ConsolidateCells(fs)
     /\ UNCHANGED written
  \/ calls < MaxCalls /\ Raises /\ UNCHANGED <<cells, written>>

ReadSpec == ReadInit /\ [][ReadNext]_readVars

-----------------------------------------------------------------------------
(* Properties. *)

\* The observation that a read of an as-of feature is to show at index key k.
Observed(f, k) ==
  LET seen == {j \in index : j[2] = k[2] /\ written[f][j] # Null
                             /\ IF f \in Forward THEN Time(k) <= Time(j)
                                                 ELSE Time(j) <= Time(k)}
  IN  IF seen = {} THEN Null
      ELSE written[f][CHOOSE j \in seen : \A i \in seen :
                        IF f \in Forward THEN Time(j) <= Time(i)
                                         ELSE Time(i) <= Time(j)]

\* As-of features carry the last known observation to every later index key
\* (the next one to every earlier key, forward), whatever was written between.
AsOfCarries ==
  \A f \in Features : RowsOf(f) # {} /\ LatestRow(f).signal = "as_of_feature" =>
    \A k \in index : Read(LatestRow(f), Everything, k) = Observed(f, k)

\* A read by name returns at each index key what the calls wrote there, the
\* same for both overlap modes, before and after consolidation, and beside
\* any other feature: positions, paddings and copies do not show.  A table
\* that held a key twice would lengthen the read.
ReadsServeWrites ==
  /\ \A f \in Features : RowsOf(f) # {} /\ LatestRow(f).signal # "as_of_feature" =>
       \A k \in index : /\ rows[AddrOf(f)][k] <= 1
                        /\ Read(LatestRow(f), Everything, k) = written[f][k]
  /\ AsOfCarries

\* A read bounded by start and end is the unbounded read, cut: of any version,
\* dense (by position), as-of (carried over the bounds) or sparse.
BoundedReadsAgree ==
  \A r \in fmeta :
    LET full == [k \in index |-> Read(r, Everything, k)]
    IN  \A w \in Windows : \A k \in Within(index, w) : Read(r, w, k) = full[k]

\* Time travel: once a feature has moved on to another table, no call changes
\* what its earlier version reads at the keys it could read, though copies
\* append to the table left behind and other features may still live in it.
\* As-of versions are left out: rows appended to them are carried over.
OldVersionsStay ==
  [][\A r \in fmeta :
       r.signal # "as_of_feature" /\ r.addr # AddrOf(r.feature) =>
         \A k \in index : Read(r, Everything, k)' = Read(r, Everything, k)]_readVars
=============================================================================
