---------------------------- MODULE FeatureLake ----------------------------
(***************************************************************************)
(* The write path of GammaFeatureLake (gamma_feature_lake.py): which keys  *)
(* each Delta table of the lake holds.  One call of the API is one step;   *)
(* LakeTransactions splits it into commits.  Values are left out: a        *)
(* dense table is read back by POSITION next to the index, so what makes a *)
(* read right is the keys each table holds, and how often.                 *)
(*                                                                         *)
(* A key is a pair <<primary, secondary>>: the primary sort key (time) and *)
(* the other sort keys taken together.                                     *)
(***************************************************************************)
EXTENDS Integers, Sequences, FiniteSets

CONSTANTS
  Keys,          \* the keys callers may write
  Features,      \* feature names
  NoAddr,        \* the null table_addr of a feature never seen before
  Signals,       \* signal types used, among AllSignals
  Modes,         \* overlap modes used, among "copy" and "merge"
  PrimaryLeads,  \* TRUE iff sort_keys[0] is the primary sort key
  Deviations,    \* usage rules that callers may break, see Permitted
  MaxCalls       \* bound: calls per behaviour

AllSignals == {"feature", "target", "as_of_feature", "sparse_feature"}
DenseSignals == {"feature", "target"}
UsageRules == {"regress", "rewind", "gap", "backfill", "resignal", "consolidate",
               "asof", "tail"}

ASSUME KeysAssumption == Keys \subseteq Nat \X Nat
ASSUME SignalsAssumption == Signals \subseteq AllSignals
ASSUME ModesAssumption == Modes \subseteq {"copy", "merge"}
ASSUME OrderAssumption == PrimaryLeads \in BOOLEAN
ASSUME DeviationsAssumption == Deviations \subseteq UsageRules
ASSUME MaxCallsAssumption == MaxCalls \in Nat

\* gen_table_addr draws a fresh UUID.  The address of a table is modelled by
\* the call that created it and the features it was created for.
Addrs == (1 .. MaxCalls) \X SUBSET Features

ASSUME NoAddrAssumption == NoAddr \notin Addrs

VARIABLES
  index,    \* the global index: the set of keys of the index table
  rows,     \* rows[a][k]: how many rows of the table at address a have key k
  tmeta,    \* tmeta[a]: last_updated of a's table_metadata rows, oldest first
  fmeta,    \* the feature_metadata rows
  calls     \* calls made so far (bound)

vars == <<index, rows, tmeta, fmeta, calls>>

Time(k) == k[1]
Times == {Time(k) : k \in Keys}
Versions == 0 .. MaxCalls

FeatureRow == [feature : Features, version : Versions,
               addr : Addrs, signal : Signals]

-----------------------------------------------------------------------------
(* Tables as bags of keys. *)

NoRows == [k \in Keys |-> 0]
OneRowEach(S) == [k \in Keys |-> IF k \in S THEN 1 ELSE 0]

\* Mutant: mode="overwrite".
OverwriteRows(t, S) == OneRowEach(S)

\* write_delta(..., mode="append"): no key is looked up.
AppendRows(t, S) == [k \in Keys |-> t[k] + OneRowEach(S)[k]]

\* merge_delta: a matched key is updated in place, an unmatched one inserted.
MergeRows(t, S) == [k \in Keys |-> IF t[k] = 0 THEN OneRowEach(S)[k] ELSE t[k]]

KeysOf(t) == {k \in Keys : t[k] > 0}

-----------------------------------------------------------------------------
(* The metadata a call reads before it writes. *)

Used == DOMAIN tmeta

\* _get_last_updated: the row with the greatest update_timestamp.
LastUpdated(a) == tmeta[a][Len(tmeta[a])]

RowsOf(f) == {r \in fmeta : r.feature = f}

\* _latest_per_feature: the row with the highest version.
LatestRow(f) == CHOOSE r \in RowsOf(f) :
                  \A s \in RowsOf(f) : s.version <= r.version

AddrOf(f) == IF RowsOf(f) = {} THEN NoAddr ELSE LatestRow(f).addr

\* Tables named by an as_of_feature or sparse_feature row are never padded.
Unpadded == {r.addr : r \in {s \in fmeta : s.signal \notin DenseSignals}}
Dense == Used \ Unpadded

-----------------------------------------------------------------------------
(* A call of _add.  lo and hi are the least and greatest primary key of    *)
(* its input; preprocess_df has already dropped duplicate and null keys,   *)
(* and rejected an empty input (one whose keys are all null is left out).  *)
(* add_index_rows is the call without features.                            *)

Call ==
  {c \in [keys : SUBSET Keys, feats : SUBSET Features, signal : Signals,
          mode : Modes, lo : Times, hi : Times] :
     /\ \E k \in c.keys : Time(k) = c.lo
     /\ \E k \in c.keys : Time(k) = c.hi
     /\ \A k \in c.keys : c.lo <= Time(k) /\ Time(k) <= c.hi}

\* compute_index_deltas.  Mutant: no anti-join with the index.
AllKeys(c) == c.keys
New(c) == c.keys \ index
Inner(c) == c.keys \cap index
Missing(c) == {k \in index \ c.keys : Time(k) <= c.hi}

\* The tables that hold the latest version of the input's features, with
\* NoAddr standing for the one new table of the features never seen before.
Targets(c) == {AddrOf(f) : f \in c.feats}
Old(c) == Targets(c) \ {NoAddr}
Group(c, g) == {f \in c.feats : AddrOf(f) = g}

\* update_feature_tables picks its branch from these.
AllNew(c) == Inner(c) = {}
Overlaps(c, g) == ~AllNew(c) /\ c.lo <= LastUpdated(g)
Merges(c) == {g \in Old(c) : Overlaps(c, g) /\ c.mode = "merge"}
Copies(c) == {g \in Old(c) : Overlaps(c, g) /\ c.mode = "copy"}
Appends(c) == Old(c) \ (Merges(c) \cup Copies(c))
Fresh(c) == Copies(c) \cup (Targets(c) \cap {NoAddr})   \* written to a new address

\* A new table; sparse ones are not padded with the missing keys.
CreatedKeys(c) ==
  c.keys \cup IF c.signal = "sparse_feature" THEN {} ELSE Missing(c)

\* Mutant: >= last_updated.
AppendedKeysFrom(c, g) == c.keys \cup {k \in Missing(c) : Time(k) >= LastUpdated(g)}

\* Both append branches pad with the missing keys after last_updated.
AppendedKeys(c, g) == c.keys \cup {k \in Missing(c) : Time(k) > LastUpdated(g)}

\* A merge pads within the input's range.  Mutant: it does not.
MergedInput(c) == c.keys
MergedKeys(c) == c.keys \cup {k \in Missing(c) : Time(k) >= c.lo}

\* Copy mode: the old table only gets the new keys it already spans ...
FrozenKeys(c, g) == {k \in New(c) : Time(k) <= LastUpdated(g)}

\* ... and the new one gets the old rows before the input, then the input,
\* then the missing keys from last_updated on, if dense and not all is new.
KeptRows(c, g) == [k \in Keys |-> IF Time(k) < c.lo THEN rows[g][k] ELSE 0]
CopyPadding(c, g) ==
  IF KeysOf(KeptRows(c, g)) # {} /\ c.signal \in DenseSignals
  THEN {k \in Missing(c) : Time(k) >= LastUpdated(g)}
  ELSE {}
CopiedRows(c, g) ==
  AppendRows(KeptRows(c, g), c.keys \cup CopyPadding(c, g))

\* Step 2 of _add: align_feature_tables runs once per table_metadata ROW of a
\* dense table, and appends the new keys up to that row's last_updated.
Padded(c) == Dense \ Targets(c)
PaddingsOf(a, k) == {i \in 1 .. Len(tmeta[a]) : Time(k) <= tmeta[a][i]}
PaddedRows(c, a) ==
  [k \in Keys |-> rows[a][k] + IF k \in New(c)
                               THEN Cardinality(PaddingsOf(a, k)) ELSE 0]

-----------------------------------------------------------------------------
(* The usage under which the tables stay aligned.  The code checks none of *)
(* these rules; each is an assumption on the callers, used in Next only,   *)
(* and may be lifted through Deviations to show what the code then does.   *)

\* An input merged into a dense table reaches at least as far as the table.
NoRegress(c) == \A g \in Merges(c) \ Unpadded : LastUpdated(g) <= c.hi

\* So does an input of new keys, which is appended wherever it belongs.
NoRewind(c) == \A g \in Appends(c) \ Unpadded : LastUpdated(g) <= c.hi

\* An input copied over a dense table lists every index key it spans there.
NoGap(c) ==
  \A g \in Copies(c) \ Unpadded : \A k \in Missing(c) :
    /\ KeysOf(KeptRows(c, g)) # {}
    /\ Time(k) < c.lo \/ LastUpdated(g) <= Time(k)

\* A key inserted into the past is within reach of one table_metadata row.
NoOldBackfill(c) ==
  \A a \in Padded(c), k \in New(c) : Cardinality(PaddingsOf(a, k)) <= 1

\* A feature stays dense, or stays as-of or sparse.
SameSignal(c) ==
  \A f \in c.feats : \A r \in RowsOf(f) :
    r.signal \in DenseSignals <=> c.signal \in DenseSignals

Permitted(c) ==
  /\ "regress" \in Deviations \/ NoRegress(c)
  /\ "rewind" \in Deviations \/ NoRewind(c)
  /\ "gap" \in Deviations \/ NoGap(c)
  /\ "backfill" \in Deviations \/ NoOldBackfill(c)
  /\ "resignal" \in Deviations \/ SameSignal(c)

\* Consolidation waits until one of its tables spans the index.
Sources(fs) == {AddrOf(f) : f \in fs}
SpansIndex(fs) ==
  \E a \in Sources(fs) : \A k \in index : Time(k) <= LastUpdated(a)

\* Bound, not a rule: a source with more rows than the index, which is already
\* misaligned, would pad the consolidated key columns with nulls.
Height(t) == Cardinality(UNION {{k} \X (1 .. t[k]) : k \in Keys})
ConsolidatePermitted(fs) ==
  /\ "consolidate" \in Deviations \/ SpansIndex(fs)
  /\ \A a \in Sources(fs) : Height(rows[a]) <= Cardinality(index)

-----------------------------------------------------------------------------
(* Actions. *)

Init ==
  /\ index = {}
  /\ rows = << >>
  /\ tmeta = << >>
  /\ fmeta = {}
  /\ calls = 0

\* Mutant: next_rank is not above.
SameRank(c, g) ==
  CHOOSE n \in Versions :
    /\ \A f \in Group(c, g) : LatestRow(f).version <= n
    /\ \E f \in Group(c, g) : LatestRow(f).version = n

\* next_rank: one above the greatest version among the group's features.
NextRank(c, g) ==
  CHOOSE n \in Versions :
    /\ \A f \in Group(c, g) : LatestRow(f).version < n
    /\ \E f \in Group(c, g) : LatestRow(f).version + 1 = n

\* Where update_feature_tables leaves the features it found at g.
\* Mutant: copies and new tables keep the address they came with.
NewAddr(fs) == <<calls + 1, fs>>
SameHome(c, g) == g
Home(c, g) == IF g \in Fresh(c) THEN NewAddr(Group(c, g)) ELSE g
Homes(c) == {Home(c, g) : g \in Targets(c)}

Recorded(a) == IF a \in Used THEN tmeta[a] ELSE << >>

\* A table that exists: updated in step 1, padded in step 2, or left alone.
UpdatedRows(c, a) ==
  CASE a \in Merges(c)  -> MergeRows(rows[a], MergedKeys(c))
    [] a \in Copies(c)  -> AppendRows(rows[a], FrozenKeys(c, a))
    [] a \in Appends(c) -> AppendRows(rows[a], AppendedKeys(c, a))
    [] a \in Padded(c)  -> PaddedRows(c, a)
    [] OTHER -> rows[a]

\* A table written to a new address: the copy of a group, or the new features.
CreatedRows(c, a) ==
  IF \E g \in Copies(c) : Home(c, g) = a
  THEN CopiedRows(c, CHOOSE g \in Copies(c) : Home(c, g) = a)
  ELSE OneRowEach(CreatedKeys(c))

\* Mutant: a fresh address per feature row.
FeatureRowsApart(c) ==
  {[feature |-> f,
    version |-> IF AddrOf(f) = NoAddr THEN 0 ELSE NextRank(c, AddrOf(f)),
    addr    |-> NewAddr({f}),
    signal  |-> c.signal] : f \in {h \in c.feats : AddrOf(h) \notin Appends(c)}}

FeatureRowsAfter(c) ==
  {[feature |-> f,
    version |-> IF AddrOf(f) = NoAddr THEN 0 ELSE NextRank(c, AddrOf(f)),
    addr    |-> Home(c, AddrOf(f)),
    signal  |-> c.signal] : f \in {h \in c.feats : AddrOf(h) \notin Appends(c)}}

\* _add, on behalf of add_features, add_targets, add_sparse_features,
\* add_as_of_features and add_index_rows.
Add(c) ==
  /\ index' = index \cup New(c)
  /\ rows' = [a \in Used \cup Homes(c) |->
                IF a \in Used THEN UpdatedRows(c, a) ELSE CreatedRows(c, a)]
  /\ tmeta' = [a \in Used \cup Homes(c) |-> Recorded(a) \o
                  IF a \in Homes(c) THEN <<c.hi>> ELSE << >>]
  /\ fmeta' = fmeta \cup FeatureRowsAfter(c)
  /\ calls' = calls + 1

\* Mutant: merged_last_updated is the earliest, not the latest.
EarliestLastUpdated(fs, hi) ==
  /\ \E s \in Sources(fs) : LastUpdated(s) = hi
  /\ \A s \in Sources(fs) : hi <= LastUpdated(s)

\* merged_last_updated: the latest last_updated of the consolidated tables.
MergedLastUpdated(fs, hi) ==
  /\ \E s \in Sources(fs) : LastUpdated(s) = hi
  /\ \A s \in Sources(fs) : LastUpdated(s) <= hi

\* consolidate_feature_groups, its first two commits: the current tables of fs,
\* read back against the whole index, become one table.  Its last_updated is
\* the latest of theirs.
StoreConsolidated(fs, hi) ==
  /\ \A f \in fs : RowsOf(f) # {} /\ LatestRow(f).signal \in DenseSignals
  /\ \E f, g \in fs : AddrOf(f) # AddrOf(g)
  /\ MergedLastUpdated(fs, hi)
  /\ rows' = [a \in Used \cup {NewAddr(fs)} |->
                IF a \in Used THEN rows[a] ELSE OneRowEach(index)]
  /\ tmeta' = [a \in Used \cup {NewAddr(fs)} |->
                 IF a \in Used THEN tmeta[a] ELSE <<hi>>]
  /\ calls' = calls + 1
  /\ UNCHANGED index

\* Its third commit: the features' next version.
ConsolidatedRows(fs) ==
  {[LatestRow(f) EXCEPT !.version = @ + 1, !.addr = NewAddr(fs)] : f \in fs}

Consolidate(fs, hi) ==
  StoreConsolidated(fs, hi) /\ fmeta' = fmeta \cup ConsolidatedRows(fs)

\* It runs outside any transaction, so a failure between the commits is not
\* undone.  Before the second the table has no metadata row of either kind and
\* nobody reads it, which is Raises; before the third it has table_metadata,
\* and from then on every call pads a table that no feature uses.
ConsolidateStops(fs, hi) == StoreConsolidated(fs, hi) /\ UNCHANGED fmeta

\* A call that raises, its input rejected or its writes rolled back.
Raises ==
  /\ calls' = calls + 1
  /\ UNCHANGED <<index, rows, tmeta, fmeta>>

\* The environment: at most MaxCalls calls, and only permitted ones.
Next ==
  \/ /\ calls < MaxCalls
     /\ \E c \in Call : Permitted(c) /\ Add(c)
  \/ /\ calls < MaxCalls
     /\ \E fs \in SUBSET Features, hi \in Times :
          Consolidate(fs, hi) /\ ConsolidatePermitted(fs)
  \/ /\ calls < MaxCalls
     /\ \E fs \in SUBSET Features, hi \in Times :
          ConsolidateStops(fs, hi) /\ ConsolidatePermitted(fs)
  \/ calls < MaxCalls /\ Raises

Spec == Init /\ [][Next]_vars

-----------------------------------------------------------------------------
(* Properties. *)

\* Types of the state: tables are bags of keys, and table_metadata has a
\* last_updated for each of them.
TypeOK ==
  /\ index \subseteq Keys
  /\ Used \subseteq Addrs
  /\ rows \in [Used -> [Keys -> Nat]]
  /\ tmeta \in [Used -> Seq(Times) \ {<< >>}]
  /\ fmeta \subseteq FeatureRow
  /\ calls \in 0 .. MaxCalls

\* The order of sort_keys, in which the index and every table are sorted.
SortsBefore(j, k) ==
  IF PrimaryLeads
  THEN j[1] < k[1] \/ (j[1] = k[1] /\ j[2] < k[2])
  ELSE j[2] < k[2] \/ (j[2] = k[2] /\ j[1] < k[1])

\* The i-th row of the table belongs to the i-th row of the index.
Aligned(a) ==
  /\ \A k \in Keys : rows[a][k] <= OneRowEach(index)[k]
  /\ \A k \in KeysOf(rows[a]), j \in index :
       SortsBefore(j, k) => j \in KeysOf(rows[a])

\* Alignment: every dense table, of the latest and of every earlier version,
\* is a prefix of the index in sort-key order, each key once.  It is what the
\* horizontal concatenation of _concat_root_features relies on.
TablesAligned == \A a \in Dense : Aligned(a)

\* last_updated is what the next call trusts (_get_last_updated): the dense
\* table holds exactly the index keys up to it, each once.
Covers(a) ==
  rows[a] = OneRowEach({k \in index : Time(k) <= LastUpdated(a)})
LastUpdatedIsHonest == \A a \in Dense : Covers(a)

\* Reads by name take "the" highest version of a feature: no call may leave
\* two feature_metadata rows of one feature with one version.
OneRowPerVersion ==
  \A r, s \in fmeta : r.feature = s.feature /\ r.version = s.version => r = s

\* What makes the invariants above inductive: addresses and versions are younger
\* than the call that makes them, ...
Young ==
  /\ \A a \in Used : a[1] <= calls
  /\ \A r \in fmeta : r.version < calls

\* ... the features of one table are all dense or all not, and ...
Uniform ==
  \A r, s \in fmeta :
    r.addr = s.addr => (r.signal \in DenseSignals <=> s.signal \in DenseSignals)

\* ... last_updated of a dense table never falls, and is a period of the index.
Horizons ==
  \A a \in Dense :
    /\ \A i \in 1 .. Len(tmeta[a]) : tmeta[a][i] <= LastUpdated(a)
    /\ \E k \in index : Time(k) = LastUpdated(a)

\* No feature_metadata row names a table without table_metadata, whose
\* last_updated a later call would read as null.
NoDanglingAddr == \A r \in fmeta : r.addr \in Used

\* Time travel: a metadata row, and the keys its table can serve, stay as they
\* were or grow; no later call takes away what an earlier version could read.
VersionsSurvive ==
  [][\A r \in fmeta : /\ r \in fmeta'
                      /\ KeysOf(rows[r.addr]) \subseteq KeysOf(rows'[r.addr])]_vars

\* Reads of the latest version: the rows stored for a dense feature, none for
\* a feature that does not exist or is not dense.
Served == [f \in Features |-> IF AddrOf(f) \in Dense THEN rows[AddrOf(f)]
                              ELSE NoRows]

C == INSTANCE LakeContract WITH served <- Served

\* The lake implements the contract: whatever mix of appends, merges, copies
\* and paddings a call performs, each dense feature ends with exactly the
\* index rows up to its horizon, and only the horizons of features in the
\* tables that the call updates move.
Contract == C!Spec
=============================================================================
