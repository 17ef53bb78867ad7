# Gamma Lake in TLA+

Gamma Lake stores features as Delta tables, one per *feature group*, beside one
*global index* of keys. A read does not join: it sorts the index and every table
by the sort keys and puts their rows side by side **by position**
(`_concat_root_features`). So a read is right only if every dense table is a
prefix of the index, each key once, and nothing in a table says whether it is.
This directory models how the write path keeps that so, what reads then return,
what a failing call leaves behind, how computed features are registered and
evaluated, and on what callers must rely. References are to
`gammalake/gamma_feature_lake.py` unless they name another file.

## The system

| Component | State | Operations | Correct when |
| --- | --- | --- | --- |
| Write path, `_add` 1062-1178 and its remote functions 170-494 | index, data tables, `table_metadata`, `feature_metadata` | `add_features`, `add_targets`, `add_as_of_features`, `add_sparse_features`, `add_index_rows` | dense tables are prefixes of the index; `last_updated` is the last period a table covers; metadata names existing tables; versions are unique; earlier versions stay readable |
| Transactions 745-822, `metadata.py` 91-125 | `transaction_log`, the versions of every table | `_transaction`, `_log_transaction`, `restore_to_timestamp` | a call takes effect as a whole or not at all, whatever fails; it ends; metadata is committed last |
| Consolidation 1237-1301 | as the write path | `consolidate_feature_groups` | the new table is aligned and its `last_updated` honest, also if it fails half way |
| Reads 497-535, 824-972 | none | `read` by name and by metadata frame, `read_table` | they return what was written; a bounded read is the unbounded one, cut; an earlier version reads as it did |
| Runtime features 886-893, 1339-1444, `_topo.py` | rows of `feature_metadata` | `add_runtime_computed_features`, `add_runtime_transforms` | a name is registered once and keeps its expression; roots are found and evaluated first, at the right version |
| Metadata 538-540, 974-1046, `metadata.py` | the two metadata tables | latest version, `last_updated`, tables to align | rows that a call reads are those of the last call |
| Ray wrapper 1048-1060, `_ray.py` | object references | `switch`, `get`, `wait` | the order the driver wants is the order in which tasks run |
| Delta I/O, `io.py` | Delta commits | append, merge, restore, annotate | third party, used as a library |
| Annotations, static `merge`, telemetry, abstract interface, benchmarks | - | - | not modelled |

`_add` reads the index and both metadata tables, opens a transaction, then
submits tasks in stages: one update per table that holds the latest version of
an input feature (or one new table for unknown features), alignment of the
other dense tables, the index, `table_metadata`, `feature_metadata`. Each task
is one Delta commit, or two in copy mode. Locally a task runs where it is
submitted; on Ray it runs whenever its argument references are there. If the
body raises, the transaction logs `failed`, awaits the references it knows and
restores every table.

What is hard about it: five write branches whose comparisons with
`last_updated` differ (`<`, `<=`, `>`, `>=`) and whose effect is only seen when
a *later* call trusts `last_updated`; three kinds of padding; no commit that
spans two tables; a rollback that may itself fail, race with tasks in flight
or meet a dead process. `PROJECT.json` lists the hazards line by line.

## Modules

- `FeatureLake`: the lake between calls. One call is one step.
  - `index` is the set of index keys; `rows[a][k]` counts the rows with key `k`
    in the table at `a`; `tmeta[a]` is the sequence of `last_updated` values
    recorded for `a`; `fmeta` is the set of `feature_metadata` rows.
  - A key is `<<primary, secondary>>`. Feature values are left out: alignment
    is about keys. A table address, a random UUID in the code, is the call that
    drew it with the features it was drawn for, so addresses are distinct by
    construction, as the code assumes.
  - `Call` is the input after `preprocess_df`; `New`, `Inner` and `Missing` are
    the results of `compute_index_deltas`; `Merges`, `Copies`, `Appends` and
    `Fresh` say which branch of `update_feature_tables` each table takes, and
    `MergedKeys`, `FrozenKeys`, `CopiedRows`, `AppendedKeys`, `CreatedKeys`
    what it writes there; `PaddedRows` is `align_feature_tables`, once per
    `table_metadata` row as in the code; `FeatureRowsAfter` is what becomes of
    `feature_metadata`. `Add` puts them together, `Consolidate` is
    `consolidate_feature_groups`, `ConsolidateStops` the same failing before its
    third commit, `Raises` a call that is refused or undone.
- `LakeContract`: what users may count on, with no tables. One index, and for
  each feature the index rows up to a horizon. `FeatureLake!Contract` states
  that the lake implements it, with `served` mapped to the latest tables.
- `LakeTransactions`: a call as its commits. It instantiates `FeatureLake`
  three times: `Now` (the lake as it is), `Seen(w)` (the snapshot that the call
  of `w` read), so that every task writes what `FeatureLake` says for that
  snapshot, and `L`, the refinement mapping. `job[w].pc` is the position in
  `_add` and `_transaction`, `job[w].tasks` the state of each task, `log` the
  status rows of each call, `job[w].start` the table versions at `started_at`.
- `LakeReads` extends `FeatureLake` with the cells of its tables. A value is the
  number of the call that wrote it, so that a read says whose input it shows.
  `cells[a][f][k]` is what the table at `a` holds; every action is the one of
  `FeatureLake` together with `AddCells` or `ConsolidateCells`, which say what is
  written where `FeatureLake` says which keys are. `Read(r, w, k)` is what a read
  bounded by `w` returns for the `feature_metadata` row `r`: `DenseRead` by
  position, `AsOfRead` by `join_asof`, `SparseRead` by a left join. `written` is
  a history variable: what callers mean each feature to be, which is the same in
  both overlap modes. An input that overlaps what is there replaces the periods
  from its first to its last, and elsewhere keeps what was there, as
  `tests/base.py` (413-415, 1545-1555, 2376-2384) has it.
- `RuntimeFeatures`: computed features. `meta` is `feature_metadata` as far as
  reads use it, `job[p]` a registration between its two reads and its append, or
  a stored write between its read and its append: callers are free to register
  and store one name at the same time, to repeat an alias in one call, and to
  store values under a computed name. `filled` holds the computed names that
  have values at the address `"n/a"` of their metadata row, where the first such
  write goes without adding a row. Rows of one version tie for the latest, and
  no property depends on which of them `LatestRow` is.
  `Resolve` and `FrameTables` choose the rows that a read by name or by frame
  loads, `Columns` evaluates them batch by batch as `with_columns_topo` does. An
  expression is its set of roots; the value of a column is the tree of what it
  was computed from, so two evaluations are equal only if every version is.
- Theorems, see below: `FeatureLakeProofs`, `LakeAlignmentProofs` and
  `LakeContractProofs` (each extends the one before) and `LakeReadsProofs`, about
  the lake; `LakeTransactionsProofs`, `LakeRollbackProofs` and
  `LakeAtomicityProofs` (likewise), about transactions, which use the theorems of
  the lake through the instance `P`; `RuntimeFeaturesProofs`.
- `MCFeatureLake`, `MCLakeReads`, `MCRuntimeFeatures`, `MCLakeTransactions`:
  values for TLC.

## Usage rules

The code keeps the tables aligned for some histories of calls and not for all.
The rules that separate them are operators of `FeatureLake`, conjuncts of `Next`
and never of the actions: they restrict callers, not the code, which checks none
of them. `Deviations` lifts them one by one.

| Rule | Operator | What it asks |
| --- | --- | --- |
| regress | `NoRegress` | an input merged into a dense table reaches its `last_updated` |
| rewind | `NoRewind` | an input of new keys, appended to a dense table, does so too |
| gap | `NoGap` | an input copied over a table lists every index key of its range there, and leaves some old row |
| backfill | `NoOldBackfill` | a new key lies before at most one recorded `last_updated` of each table it is padded into |
| resignal | `SameSignal` | a feature stays dense, or stays as-of or sparse |
| consolidate | `SpansIndex` | one consolidated table reaches the end of the index |
| tail | `KeepsTail` | (`LakeReads`) where an input is copied over a table, its features have no values after the input's last period |
| asof | `NoAsOfPadding` | (`LakeReads`) an as-of input gives no feature of its tables a row without a value |

Four violation runs (`lake_regress`, `lake_gap`, `lake_tail`, `lake_asof`) lift
one rule each and show the misaligned table, the value that is lost or the
hidden observation; each contradicts a sentence of the repository quoted in
`PROJECT.json`. What the other rules hold off is told below. `LakeReads` also asks (`KeepsKind`) that
in-place updates reach the end of as-of and sparse tables, as `NoRegress` and
`NoRewind` do for dense ones, and that a feature stays as-of, or stays not
as-of. One more assumption is a bound: `ConsolidatePermitted` leaves out sources
taller than the index, which only a misaligned lake has. `RuntimeFeatures` asks
nothing of its callers.

## Runs

| Run | Checks | Bounds |
| --- | --- | --- |
| `lake_reads` | `TypeOK`, `TablesAligned`, `LastUpdatedIsHonest`, `OneRowPerVersion`, `NoDanglingAddr`, `ReadsServeWrites`, `BoundedReadsAgree`, `OldVersionsStay`, `VersionsSurvive`, `Contract` | 3 periods, the middle one of another entity; 2 features, one as-of forward; dense, as-of and sparse; both modes; 3 calls, failed consolidations among them |
| `runtime` | `TypeOK`, `ReadsCompose`, `FramesKeepVersions`, `SettledDefinitionsAreFinal` | 4 names, chained and circular expressions and a transform; 2 callers at a time; 4 registrations and writes |
| `tx_serial` | `RolledBackIsRestored`, `IndexUnique`, `Atomic`, `Settles` | 2 periods, 1 feature, copy mode, 2 calls, a local and a Ray writer, 2 faults |
| `tx_groups` | `TypeOK`, `Atomic` | the same with 2 features, merge mode and 1 fault |
| `lake_regress`, `lake_gap` | `TablesAligned` violated | 4 keys in 3 periods, at most 3 calls |
| `lake_tail` | `ReadsServeWrites` violated | 3 periods, 2 calls |
| `lake_asof` | `AsOfCarries` violated | 3 periods, 1 feature, merge mode |
| `runtime_race` | `RegisteredOnce` violated | a stored `a`, `b` over `a`, 2 callers |
| `tx_metadata` | `MetadataLast` violated | one call on Ray, no fault |
| `tx_submission` | `RolledBackIsRestored` violated | an exception between two submissions on Ray |
| `tx_concurrent` | `GroupsDontConflict` violated | two local calls at one time, each writing a feature of its own, no fault |

Why the bounds are enough to be interesting. Three periods give an input that
starts before, at and after a table's `last_updated`, a missing key on each
side, and a window that cuts off each end; the other entity in the middle makes
the as-of join pass over a nearer row. Three calls are create, diverge, and the
call that trusts what the second recorded; or two groups and their
consolidation. Two features give a group that is written while another is
padded, a group that splits, and one that is merged. Several keys in one period,
which separate `<` from `<=`, longer histories and calls that break the rules
are beyond this run: what it checks of keys and versions is proved for all of
them, see below. For computed features, four names give a chain of three, a
cycle, and a feature stored at two versions beside them, and four calls a stored
feature, a registration, and two more that race with it, store under its name or
overlap the values stored there. In the
transactions two calls are one to lay down state and one to fail over it; two
faults are a failure and a failure of its rollback. Each overlap mode has one of
the two transaction runs: copy, whose update commits twice, the one with two
faults; merge, which writes in place, the one where another table is padded.
`MaxCalls` and `MaxFaults` bound behaviours, so deadlock checking is off: a
behaviour ends when its calls are used up. Callers of `RuntimeFeatures` are
symmetric, and so are features where neither liveness nor a direction of as-of
joins tells them apart.

`Exclusive` makes a call begin only when every other has settled, as
`restore_to_timestamp` asks ("Run it without concurrent writers") and as the
recovery in the repository's README needs; only `tx_concurrent` lifts it.

**Fairness.** `FairSpec` is weakly fair to `Driver(w)`, the program's own
sequence of statements, and to `Worker(w)`, the tasks that were submitted: a
running process goes on, and Ray runs what it was given. Nothing is assumed of
faults, of callers, or of somebody running the recovery (`Recover`).
`Settles` then says that a call whose body began always ends; it holds across
crashes because a dead call counts as ended.

**Faults.** A task fails before its commit (copy mode: also between its two
commits), a log write fails, a restore fails before any of its commits, a local
or waiting driver is interrupted, a submission raises, the driver dies and its
Ray tasks with it. Ray's own semantics are external: a task awaits references
that are arguments, not references inside a list; a task with a failed argument
fails; `ray.get` of a list raises at the first failure.

## What the runs show of the code

Under the usage rules the five branches and three paddings agree with one
another, and reads by position return what was written, whichever branches and
consolidations came before. A consolidation that fails half way does no harm to
reads: its orphaned table is padded by every later call, and nobody reads it. Each call is atomic through task failures, interrupts, crashes and the
documented recovery when it runs alone and its tasks were all submitted.

Without them, or beside them:
1. a merge that ends before its table lowers `last_updated`, and a later call
   appends keys the table has (`lake_regress`);
2. copy mode loses index keys that the input skips before `last_updated`, or
   anywhere when no old row is left (`lake_gap`), against the docstring's own
   diagram;
3. copy mode drops the values after the input's last key, which merge mode keeps
   (`lake_tail`);
4. as-of tables are padded with null rows at creation, append and merge, and a
   null row hides the observation before it (`lake_asof`);
5. two callers can register one name (`runtime_race`);
6. on Ray metadata can be committed before the index (`tx_metadata`);
7. an exception during submission restores under updates in flight
   (`tx_submission`);
8. concurrent calls for different groups repeat index keys (`tx_concurrent`).

Also seen, without a run of their own:
- With `"rewind"` in `Deviations` `TablesAligned` fails: new keys inserted before
  the end of their own table are appended (303-317) and lower its `last_updated`
  as an early merge does (394).
- With `"backfill"` it fails too: a key inserted before two recorded
  `last_updated` values of one table is appended to it once per `table_metadata`
  row (1149).
- A computed feature over a computed feature cannot be read by its name alone:
  a read adds the roots of the features it was asked for, and not the roots of
  those roots (834), though its comment (828) speaks of "all required root
  signals". `ReadsCompose` says that such a read raises.
- With `PrimaryLeads = FALSE` `TablesAligned` fails: a table that ends before the
  index in time is no prefix of it when a secondary key leads `sort_keys`.
- An as-of input that names some features of a shared table inserts rows without
  values for the others, whose earlier observations they hide.
- An earlier as-of version may read differently later: copy mode appends new
  rows to the table it leaves behind (336-347), and they are carried on.
  `OldVersionsStay` therefore leaves as-of features out.
- An alias that one call uses twice is registered twice, with one version (1362);
  a stored write under a computed name adds no row at first, and a later one that
  overlaps it gives the name a stored version, which reads then show.
- A frame that has a root of a missing root is refused, since that root is loaded
  twice (931); names of a list read that do not exist are left out of the result
  unless all are missing (843); expressions of one call that need one another
  are registered and fail at every read (1354).
- A transaction whose `rolled_back` row cannot be written stays `failed` though
  all was restored, against README 244-245.
- Consolidation of tables that all end before the index repeats keys on the next
  append; appends and merges pad sparse tables, which reads do not show.

## What is proved

For every set of keys and features, infinite ones too unless a theorem says
otherwise, and every bound on calls:

- `TypeCorrect` (`FeatureLakeProofs`): `Spec => [](TypeOK /\ NoDanglingAddr)`,
  whatever rules callers break. The work is in the CHOOSEs: `LatestRow`,
  `NextRank` and the group behind a new address need witnesses, so `TypeOK` is
  strengthened with `Young` (addresses and versions are younger than the call
  that makes them, which keeps new addresses fresh) and `NoDanglingAddr` (a
  table that a feature names has metadata to read).
- `Inductive`, `HonestLastUpdated`, `Alignment` (`LakeAlignmentProofs`), under
  `Deviations = {}`: every dense table holds exactly the index keys up to its
  `last_updated`, each once; and, if the primary key leads `sort_keys`, is a
  prefix of the index.
- `SingleVersions` and `TimeTravel` (`FeatureLakeProofs`), whatever rules callers
  break: `Spec => []OneRowPerVersion` and `Spec => VersionsSurvive`. Both rest on
  `NextRankIsAbove`: a new row's version is above those of its feature.
- `KeepsContract` (`LakeContractProofs`), under `Deviations = {}`:
  `Spec => Contract`, the refinement. By `ServesHolds` what a feature serves is
  the index up to its table's `last_updated`; `AddrAfterAdd` says in which table
  a feature is after a call; so a call is the contract's write of the features
  `Moved(c)`, those in dense tables that it updated or created, and every other
  feature keeps its horizon. Consolidation maps to the contract's; a failed one
  and a call that raises to a stutter.

The argument for alignment: `TablesAligned` is not inductive, since what a call
writes depends on `last_updated` and not on what the table holds. The invariant
is `LastUpdatedIsHonest`, which ties the two, with `Horizons` (no recorded
`last_updated` exceeds the current one, so that the alignment appends of one
table are at most one per key under `NoOldBackfill`; and the horizon is a period
of the index, which gives copy mode its old rows) and `Uniform` (features of a
table are all dense or all not, so that a table padded once is always padded).
One lemma per branch - `MergeCovers` and its siblings for append, copy, frozen,
created and aligned tables - says that a table covering its horizon covers the
new one after the write; the step proof then only sorts tables into branches.

Of computed features:

- `Types` (`RuntimeFeaturesProofs`): `Spec => []TypeOK` for any callers, however
  they race. Versions are bounded by the calls made, which no single step shows:
  of several registrations that have checked their names, each will add 1 to a
  greatest version that the others may have raised. `Counted` keeps room for all
  of them: the greatest version plus their number is below `calls`. That there
  is a latest row follows (`HasGreatest`).
- `SettledDefinitions`: `Spec => SettledDefinitionsAreFinal`. What can take a
  definition away is a call that checked or read earlier than it was appended,
  or values stored under the name; a definition that neither threatens is final.
  The rest is what `RegisteredOnce` shows to fail.
- `NamedReads` and `FrameReads`, for finitely many names:
  `Spec => []ReadsCompose` and `Spec => []FramesKeepVersions`. They hold in every
  state that callers can reach, names registered twice included: all is said
  relative to a table of rows with different names (`Table`), the one that a read
  loads. `Needs` is shown to be the least set around its argument that has the
  roots of its members (`NeedsIsLeast`), and a batch to keep `Correct`: each
  column is computed from columns that are there, and none needs itself. A read
  that returns therefore had all roots and no cycle (`ReturnsMean`); one that has
  them returns (`CompleteReturns`), since expressions that all wait for one
  another include one that needs itself (`NoKnot`), so that every batch computes
  something. `NeedsWithin` carries this from the rows that were loaded to the
  newest rows of the lake. What a recursive function computes is shown by
  `Counting`, induction for a set of numbers: those of the steps at which the
  invariant holds.

Of transactions:

- `TransactionTypes` (`LakeTransactionsProofs`): `Spec => []TypeOK` for any
  writers, interleaving and faults. A task computes its table from a snapshot
  that other commits and restores may have overtaken; the invariant `TInv` says
  what a snapshot and a log still are (`Apart`: calls in progress share no
  feature; `Lagging`: until a call reads `feature_metadata`, the versions
  of its features are behind it, those a rollback may bring back too).
- `RollbackRestores` (`LakeRollbackProofs`), for one writer at a time and no
  exception between submissions: `Spec => []RolledBackIsRestored`. The property
  speaks of the end of a restore; `SeqInv` says what makes it true on the way:
  no other call is underway (`OneAtATime`), the log of the one that is ends
  pending or failed (`Pending`), nothing is in flight when a restore begins
  (`Ordered`, which `tx_submission` shows to fail otherwise), and what a restore
  has brought back so far stays (`Progress`), through failed restores and
  recoveries that start again.
- `IndexKeepsKeysOnce` (`LakeAtomicityProofs`): `Spec => []IndexUnique`. By
  `Snapshots` the snapshot is of the lake the call starts from; by `IndexOnce`
  the index stays that of `started_at` until the task that appends to it.
- `Atomicity`: `Spec => Atomic`, the refinement. `ContentInv` says of a call's
  body, table by table and task by task, that a table is as it was found or as
  `FeatureLake` says it becomes, or between the two commits of copy mode
  (`Written`), and that every table with metadata is one that a restore brings
  back (`Tracked`). `ContentMoves` then sorts steps: the last task is the call of
  `FeatureLake`, the last restore is its `Raises`, every other step a stutter.
- `TransactionsKeepContract` (with `Deviations = {}`) and
  `TransactionsKeepVersions`: the theorems of `FeatureLake` carried through the
  refinement, to a lake whose calls fail, crash and are recovered.

Of reads, under `Deviations = {}`, `PrimaryLeads` and finitely many keys:

- `BoundedReads` (`LakeReadsProofs`): `ReadSpec => []BoundedReadsAgree`. The
  position of a key is the number of keys before it; a dense table is the index
  up to its `last_updated` (`LastUpdatedIsHonest`), so in every window both
  number their keys alike (`PositionsMatch`).
- `WritesAreRead`: `ReadSpec => []ReadsServeWrites`, and `OldReadsStay`:
  `ReadSpec => OldVersionsStay`. What reads return needs an invariant of values,
  `RInv`, beside that of keys: the latest table of a feature mirrors what was
  written for it (`Mirrors`), where a table has no row it has no value
  (`NoStrays`, or a row appended later would show one), no table has rows after
  its `last_updated` or twice (`RowsReach`, `RowsOnce`), and as-of tables hold
  observations only and no other features (`Observations`, `AsOfApart`). By
  `CellReads` a read of a version shows the cells of its table. TLC checked
  `RInv` on the instance of `lake_reads` before it was proved.

Assumptions are the named ASSUMEs of the modules: keys are pairs of naturals,
signals, modes and deviations are among the code's, the null address is no
address, expressions and transforms are over feature names, faults are among
those listed, bounds are naturals. `LakeTransactions` states those of
`FeatureLake` again, since INSTANCE does not bring them along. TLC evaluates them
in every run. Theorems that need more say so in their ASSUME:

- `Deviations = {}`: callers keep the usage rules; the violation runs show what
  happens otherwise.
- `Exclusive`: one writer at a time, which the repository's README (245-246) and
  `restore_to_timestamp` ask of those who rely on a rollback.
- `"submission" \notin Faults`: no exception between two submissions on Ray, the
  fault that `tx_submission` shows a rollback not to survive. Every other fault,
  any number of them, is covered.
- `PrimaryLeads`: the primary key leads `sort_keys`, the columns of the index
  schema in their order (742), which the lake does not check; without it
  alignment itself fails, see above.
- `IsFiniteSet(Keys)`, for reads: positions are cardinalities, and a lake has
  been given finitely many keys. `IsFiniteSet(Features)`, for computed features:
  evaluation counts its batches.

`RuntimeFeatures` assumes of its representation that no feature has the name of
the mark of a failed read (`RaisedAssumption`).

One guard of `LakeTransactions` is there because the proof of `RollbackRestores`
asked for it: data tables are restored from the list that this attempt made
from the restored metadata, never from that of an attempt that failed before.

Only model-checked: liveness (`Settles`: TLAPS proves neither liveness under
fairness nor ENABLED). Every other property of a passing run is a theorem. No
module here has a RECURSIVE operator.

## Not modelled

What an expression computes, and the opt-in flag for computed features; the
`metadata` argument of `_add`; an input whose keys are all null; join_asof's
tolerance and strategy nearest; predicate pushdown; consolidation at
the same time as a call of `_add`, and registration at the same time as more of
it than its metadata; an as-of strategy that differs between features of one
table, of which a read takes that of the first row of its frame (848-850,
867-871; here it is one constant per feature); an interrupt of the wait for
tasks (777-778), other than as a crash; half-initialized lakes;
clocks (`update_timestamp`, `started_at` and Delta's commit times are taken to
agree); Delta's optimistic concurrency, retention and vacuum; Ray's retries and
object loss; annotations, telemetry and the static `merge` of two lakes, which
keep no state. `PROJECT.json` says for each component and hazard what is left
out.

## Plan

1. Done: `FeatureLake`, `LakeContract`, `LakeTransactions`, `LakeReads`,
   `RuntimeFeatures`, their runs.
2. Done: every invariant, action property and refinement of the passing runs
   proved; liveness is out of the prover's reach.
3. Clock skew: `update_timestamp` and commit times drawn by different workers;
   one run each, in the place of violation runs whose findings are settled.
