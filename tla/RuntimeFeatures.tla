-------------------------- MODULE RuntimeFeatures --------------------------
(***************************************************************************)
(* Runtime-computed features (gamma_feature_lake.py and _topo.py): columns *)
(* that are stored as expressions over other features and computed when    *)
(* read.  Registration reads feature_metadata twice and then appends, with *)
(* no transaction around; writes of stored features read it once, and may  *)
(* be writes of a name that others register, or have registered.  A read   *)
(* resolves the roots of the expressions it was asked for, loads what is   *)
(* stored, and evaluates in dependency order.                              *)
(*                                                                         *)
(* An expression is the set of its root names: the value of a column is    *)
(* the feature it computes, the version, and the values it was given.      *)
(***************************************************************************)
EXTENDS Integers, FiniteSets

CONSTANTS
  Features,      \* feature names
  Exprs,         \* expressions callers may register: [feature, roots]
  Transformed,   \* Transformed[f]: the name a row-local transform gives to f
  Callers,       \* callers of add_runtime_computed_features and of _add
  MaxCalls       \* bound: registrations and stored writes

ASSUME ExprsAssumption == Exprs \subseteq [feature : Features, roots : SUBSET Features]
ASSUME TransformedAssumption ==
  DOMAIN Transformed \subseteq Features /\ \A f \in DOMAIN Transformed : Transformed[f] \in Features
ASSUME MaxCallsAssumption == MaxCalls \in Nat
\* No table of columns is taken for a failed read.
ASSUME RaisedAssumption == "raised" \notin Features

VARIABLES
  meta,    \* the feature_metadata rows, as far as reads use them
  filled,  \* computed features with values in the table "n/a"
  job,     \* job[p]: how far the call of p is, and what it read
  calls    \* calls made so far (bound)

vars == <<meta, filled, job, calls>>

Versions == 0 .. MaxCalls
Row == [feature : Features, version : Versions, runtime : BOOLEAN, roots : SUBSET Features]

NamesOf(T) == {r.feature : r \in T}
Registered == NamesOf(meta)
Runtime(T) == {r \in T : r.runtime}
RootsOf(T) == UNION {r.roots : r \in Runtime(T)}

\* _latest_per_feature, of the features named.  Calls that race, or a call that
\* uses an alias twice, leave rows of one version; which of them is first after
\* the sort is open, as it is here.  Rows that are alike are one row here.
LatestRow(n) == CHOOSE r \in meta :
  r.feature = n /\ \A s \in meta : s.feature = n => s.version <= r.version
Latest(S) == {LatestRow(n) : n \in S \cap Registered}

-----------------------------------------------------------------------------
(* Reads. *)

\* _get_correct_feature_tables: the latest rows of the features, and of those
\* of their expressions' roots that were not asked for.
Resolve(S) ==
  LET T == Latest(S) IN T \cup Latest(RootsOf(T) \ NamesOf(T))

\* The roots of a frame's expressions that the frame has no row of.
MissingRoots(F) == RootsOf(F) \ NamesOf(F)

\* Mutant: the frame's features are read at their latest version.
FrameLatest(F) == Latest(NamesOf(F)) \cup Resolve(MissingRoots(F))

\* read by frame: the rows as they were given, and whatever the latest rows of
\* the missing roots resolve to.
FrameTables(F) == F \cup Resolve(MissingRoots(F))

\* A feature that is both in the frame and resolved again is loaded twice, and
\* the horizontal concatenation refuses two columns of one name.
Twice(T) == \E r, s \in T : r # s /\ r.feature = s.feature
LoadedTwice(F) == NamesOf(F) \cap NamesOf(Resolve(MissingRoots(F))) # {}

Cell(r, args) == <<r.feature, r.version, args>>
Raised == [raised |-> TRUE]

\* Mutant: one with_columns for all expressions.
ReadyAtOnce(T, done) == {r \in Runtime(T) : r.feature \notin done}

\* with_columns_topo: what is stored is there from the start; each batch
\* computes the expressions whose roots, as far as they are expressions of this
\* read too, are done.
Ready(T, done) ==
  {r \in Runtime(T) : /\ r.feature \notin done
                      /\ r.roots \cap NamesOf(Runtime(T)) \subseteq done}

Stored(T) == [n \in NamesOf(T \ Runtime(T)) |-> Cell(CHOOSE r \in T : r.feature = n, {})]

\* A batch raises ColumnNotFoundError if a root is no column.
Batch(before, now) ==
  IF before = Raised \/ \E r \in now : ~ r.roots \subseteq DOMAIN before
  THEN Raised
  ELSE [n \in DOMAIN before \cup NamesOf(now) |->
          IF n \in DOMAIN before THEN before[n]
          ELSE LET r == CHOOSE r \in now : r.feature = n
               IN  Cell(r, {before[m] : m \in r.roots})]

Columns(T) ==
  LET batch[i \in 0 .. Cardinality(T)] ==
        IF i = 0 THEN Stored(T)
        ELSE Batch(batch[i - 1], Ready(T, DOMAIN batch[i - 1]))
  IN  batch[Cardinality(T)]

\* Expressions that are never ready form a cycle, a CycleError.
Evaluate(T) ==
  IF Twice(T) \/ DOMAIN Columns(T) # NamesOf(T) THEN Raised ELSE Columns(T)

NamedRead(S) == Evaluate(Resolve(S))
FrameRead(F) == IF LoadedTwice(F) THEN Raised ELSE Evaluate(FrameTables(F))

-----------------------------------------------------------------------------
(* Registration. *)

Job(step, E, R, N) == [step |-> step, exprs |-> E, rows |-> R, fills |-> N]
Idle == Job("idle", {}, {}, {})
Busy(p) == job[p] # Idle

\* What the first read of the names decides.  Mutant: names may be taken.
AcceptedTaken(E) ==
  \A e \in E : /\ e.feature \notin e.roots
               /\ e.roots \subseteq Registered \cup NamesOf(E)
Accepted(E) ==
  \A e \in E : /\ e.feature \notin e.roots
               /\ e.roots \subseteq Registered \cup NamesOf(E)
               /\ e.feature \notin Registered

\* add_runtime_computed_features up to its checks; a rejected call changes
\* nothing.
Check(p, E) ==
  /\ ~ Busy(p)
  /\ calls < MaxCalls
  /\ Accepted(E)
  /\ job' = [job EXCEPT ![p] = Job("checked", E, {}, {})]
  /\ calls' = calls + 1
  /\ UNCHANGED <<meta, filled>>

\* Mutant: the null maximum is not raised.
NextVersionNull(n) ==
  IF n \in Registered THEN LatestRow(n).version + 1 ELSE 0 - 1

\* One above the greatest version the feature has now.
NextVersion(n) ==
  IF n \in Registered THEN LatestRow(n).version + 1 ELSE 0

\* The second read of feature_metadata.
ReadVersions(p) ==
  /\ job[p].step = "checked"
  /\ job' = [job EXCEPT ![p].step = "versioned", ![p].rows =
       {[feature |-> e.feature, version |-> NextVersion(e.feature),
         runtime |-> TRUE, roots |-> e.roots] : e \in job[p].exprs}]
  /\ UNCHANGED <<meta, filled, calls>>

\* The append to feature_metadata, by a registration or by _add.
Append(p) ==
  /\ job[p].step = "versioned"
  /\ meta' = meta \cup job[p].rows
  /\ filled' = filled \cup job[p].fills
  /\ job' = [job EXCEPT ![p] = Idle]
  /\ UNCHANGED calls

\* The process dies, or a read or a write fails; what _add wrote is restored.
Abandon(p) ==
  /\ Busy(p)
  /\ job' = [job EXCEPT ![p] = Idle]
  /\ UNCHANGED <<meta, filled, calls>>

\* add_runtime_transforms: one expression per stored or computed feature.
TransformExprs(S) == {[feature |-> Transformed[f], roots |-> {f}] : f \in S}

-----------------------------------------------------------------------------
(* Writes of stored features: add_features and its siblings, up to the tasks. *)

\* A computed feature has an address, "n/a", and nothing there: no branch adds a
\* row.  Keys that are new are written there; others need a last_updated and a
\* column, and raise.
FirstValues(n) == n \in Registered /\ LatestRow(n).runtime /\ n \notin filled

StoredRow(n) ==
  [feature |-> n, version |-> NextVersion(n), runtime |-> FALSE, roots |-> {}]

\* Any other write that adds a row: a new feature, or keys that overlap what the
\* feature's table holds, be it "n/a".
Store(p, n) ==
  /\ ~ Busy(p)
  /\ calls < MaxCalls
  /\ job' = [job EXCEPT ![p] =
       IF FirstValues(n) THEN Job("versioned", {}, {}, {n})
       ELSE Job("versioned", {}, {StoredRow(n)}, {})]
  /\ calls' = calls + 1
  /\ UNCHANGED <<meta, filled>>

Init ==
  /\ meta = {}
  /\ filled = {}
  /\ job = [p \in Callers |-> Idle]
  /\ calls = 0

Next ==
  \/ \E p \in Callers, E \in SUBSET Exprs : E # {} /\ Check(p, E)
  \/ \E p \in Callers, S \in SUBSET DOMAIN Transformed :
       S # {} /\ Check(p, TransformExprs(S))
  \/ \E p \in Callers : ReadVersions(p) \/ Append(p) \/ Abandon(p)
  \/ \E p \in Callers, n \in Features : Store(p, n)

Spec == Init /\ [][Next]_vars

-----------------------------------------------------------------------------
(* Properties. *)

\* Types of the state.
TypeOK ==
  /\ meta \subseteq Row
  /\ filled \subseteq Features
  /\ job \in [Callers -> [step : {"idle", "checked", "versioned"},
                          exprs : SUBSET [feature : Features, roots : SUBSET Features],
                          rows : SUBSET Row,
                          fills : SUBSET Features]]
  /\ calls \in 0 .. MaxCalls

\* The features that a feature is computed from by the rows of T, directly or
\* not, and itself.
Needs(T, S) ==
  LET reach[i \in 0 .. Cardinality(Features)] ==
        IF i = 0 THEN S
        ELSE reach[i - 1] \cup RootsOf({r \in T : r.feature \in reach[i - 1]})
  IN  reach[Cardinality(Features)]

Circular(T, S) ==
  \E r \in T : r.feature \in Needs(T, S) \cap Needs(T, r.roots)

Newest == Latest(Registered)

\* Every column of a read is its feature's expression over the columns of the
\* same read.
Composes(T, v) ==
  \A r \in T : v[r.feature] = Cell(r, {v[m] : m \in r.roots})

\* A read by name never returns a column computed from anything but the latest
\* versions, and it succeeds exactly if every feature needed, at any depth, was
\* asked for or is a direct root, and no expression needs itself.
ReadsCompose ==
  \A S \in SUBSET Registered \ {{}} :
    LET N == Needs(Newest, S)
        v == NamedRead(S)
    IN  IF N \subseteq NamesOf(Resolve(S)) /\ ~ Circular(Newest, S)
        THEN DOMAIN v = N /\ Composes(Latest(N), v)
        ELSE v = Raised

\* A read by frame shows the versions in the frame, computed from one another
\* where the frame has the roots, and from the latest versions elsewhere; a
\* frame that has all its roots is refused exactly if an expression needs itself.
FramesKeepVersions ==
  \A F \in SUBSET meta \ {{}} :
    LET v == FrameRead(F) IN
    ~ Twice(F) =>
      /\ MissingRoots(F) = {} => (v = Raised <=> Circular(F, NamesOf(F)))
      /\ v # Raised => /\ NamesOf(F) \subseteq DOMAIN v
                       /\ Composes(F \cup Latest(DOMAIN v \ NamesOf(F)), v)

\* A computed feature whose row is the only one of its name, while no call in
\* flight is about to add another.
Settled(r) ==
  /\ \A s \in meta : s.feature = r.feature => s = r
  /\ \A p \in Callers :
       r.feature \notin NamesOf(job[p].exprs) \cup NamesOf(job[p].rows)

\* Once settled, what a computed feature means never changes, whatever others
\* register or store, as long as nobody writes values under its name.
SettledDefinitionsAreFinal ==
  [][\A r \in Runtime(meta) :
       Settled(r) /\ r.feature \notin filled => r \in meta' /\ Settled(r)']_vars

\* A computed feature that is registered cannot be registered again.
RegisteredOnce ==
  \A r, s \in Runtime(meta) : r.feature = s.feature => r = s
=============================================================================
