-------------------------- MODULE LakeTransactions --------------------------
(***************************************************************************)
(* A call of _add as its commits: the snapshot it reads, the transaction   *)
(* log, one task per Delta write, and the rollback of a call that fails.   *)
(* Locally a task runs where it is submitted; on Ray it runs at any time   *)
(* after, next to the others.  What a task writes is FeatureLake's, for    *)
(* the snapshot its call read; without faults, crashes or concurrent calls *)
(* a call is one FeatureLake step, and with them it is one or none.        *)
(***************************************************************************)
EXTENDS Integers, Sequences, FiniteSets

CONSTANTS
  Keys, Features, NoAddr, Signals, Modes, PrimaryLeads, Deviations,
  MaxCalls,      \* as in FeatureLake
  Writers,       \* the processes that call the lake
  RayWriters,    \* those with run_on_ray_cluster
  Exclusive,     \* TRUE iff a call begins only when every other is settled
  Faults,        \* what may go wrong, among FaultKinds
  MaxFaults      \* bound: faults per behaviour

FaultKinds == {"task", "log", "restore", "interrupt", "submission", "crash"}

ASSUME WritersAssumption == RayWriters \subseteq Writers
ASSUME ExclusiveAssumption == Exclusive \in BOOLEAN
ASSUME FaultsAssumption == Faults \subseteq FaultKinds /\ MaxFaults \in Nat

VARIABLES
  lake,    \* the content of the Delta tables, see Lake
  log,     \* log[n]: the statuses of the n-th call, oldest first
  job,     \* job[w]: the call w is making, or made last
  calls,   \* calls begun so far (bound)
  faults   \* faults so far (bound)

vars == <<lake, log, job, calls, faults>>

\* The index is a bag here: two calls may append one key twice.
Present(bag) == {k \in Keys : bag[k] > 0}

\* The lake as it is now, and as the call of w read it.  Data tables are not
\* part of what a call reads first: copy mode scans its table when it runs.
Now == INSTANCE FeatureLake WITH
  index <- Present(lake.index), rows <- lake.rows,
  tmeta <- lake.tmeta, fmeta <- lake.fmeta

Seen(w) == INSTANCE FeatureLake WITH
  index <- job[w].index, rows <- lake.rows,
  tmeta <- job[w].tmeta, fmeta <- job[w].fmeta, calls <- job[w].tx - 1

\* The assumptions of FeatureLake, on the same constants.
ASSUME KeysAssumption == Keys \subseteq Nat \X Nat
ASSUME SignalsAssumption == Signals \subseteq Now!AllSignals
ASSUME ModesAssumption == Modes \subseteq {"copy", "merge"}
ASSUME OrderAssumption == PrimaryLeads \in BOOLEAN
ASSUME DeviationsAssumption == Deviations \subseteq Now!UsageRules
ASSUME MaxCallsAssumption == MaxCalls \in Nat
ASSUME NoAddrAssumption == NoAddr \notin Now!Addrs

EmptyLake == [index |-> Now!NoRows, rows |-> << >>, tmeta |-> << >>, fmeta |-> {}]

\* No call yet: the other fields of a job mean nothing then.
NoJob == [pc |-> "idle", tx |-> 0, call |-> << >>, index |-> {}, fmeta |-> {},
          tmeta |-> << >>, start |-> EmptyLake, tasks |-> << >>,
          step |-> "data", left |-> {}]

Init ==
  /\ lake = EmptyLake
  /\ log = << >>
  /\ job = [w \in Writers |-> NoJob]
  /\ calls = 0
  /\ faults = 0

At(w, pc) == job[w].pc = pc
Goto(w, pc) == job' = [job EXCEPT ![w].pc = pc]
Logged(w, status) ==
  log' = [log EXCEPT ![job[w].tx] = Append(@, status)]
Fault(kind) ==
  kind \in Faults /\ faults < MaxFaults /\ faults' = faults + 1

-----------------------------------------------------------------------------
(* Tasks: one per remote function that _add submits. *)

Task(kind, addr, row) == [kind |-> kind, addr |-> addr, row |-> row]
Stage == [update |-> 1, align |-> 2, index |-> 3, tmeta |-> 4, fmeta |-> 5]

\* tables_to_update: the table_metadata rows that reach a new key.
AlignTasks(w) ==
  LET c == job[w].call IN
  UNION {{Task("align", a, i) :
            i \in UNION {Seen(w)!PaddingsOf(a, k) : k \in Seen(w)!New(c)}} :
         a \in Seen(w)!Padded(c)}

Tasks(w) ==
  LET targets == Seen(w)!Targets(job[w].call) IN
  {Task("update", g, 0) : g \in targets}
    \cup AlignTasks(w)
    \cup {Task("index", NoAddr, 0)}
    \cup {Task(kind, NoAddr, 0) :
            kind \in IF targets = {} THEN {} ELSE {"tmeta", "fmeta"}}

In(w, states) == {t \in DOMAIN job[w].tasks : job[w].tasks[t] \in states}
InFlight(w) == In(w, {"sent", "frozen"})

\* Mutant: refs forgets the alignment tasks.
RefsWithoutAlignments(w) ==
  {t \in DOMAIN job[w].tasks \ In(w, {"unsent"}) : t.kind \notin {"update", "align"}}

\* refs: what _add has collected to wait on.  The updates are not among them.
Refs(w) ==
  {t \in DOMAIN job[w].tasks \ In(w, {"unsent"}) :
     /\ t.kind # "update"
     /\ t.kind = "align" => \A u \in In(w, {"unsent"}) : u.kind # "align"}

\* What Ray waits for before it runs a task: the references among the task's
\* own arguments.  Those inside the list _ray_ordering_deps do not count.
Awaited(w, t) ==
  IF t.kind \in {"tmeta", "fmeta"}
  THEN {u \in DOMAIN job[w].tasks : u.kind = "update"}
  ELSE {}

\* Commits.  A table written for the first time is added to rows.
Put(table, a) ==
  [lake EXCEPT !.rows = [b \in DOMAIN @ \cup {a} |-> IF b = a THEN table ELSE @[b]]]

IsCopy(w, t) == t.kind = "update" /\ t.addr \in Seen(w)!Copies(job[w].call)

UpdateCommit(w, g) ==
  LET c == job[w].call
      home == Seen(w)!Home(c, g) IN
  CASE g = NoAddr -> Put(Now!OneRowEach(Seen(w)!CreatedKeys(c)), home)
    [] g \in Seen(w)!Copies(c) -> Put(Seen(w)!CopiedRows(c, g), home)
    [] g \in Seen(w)!Merges(c) ->
         Put(Now!MergeRows(lake.rows[g], Seen(w)!MergedKeys(c)), g)
    [] g \in Seen(w)!Appends(c) ->
         Put(Now!AppendRows(lake.rows[g], Seen(w)!AppendedKeys(c, g)), g)

AlignCommit(w, a, i) ==
  Put(Now!AppendRows(lake.rows[a], {k \in Seen(w)!New(job[w].call) :
                                      i \in Seen(w)!PaddingsOf(a, k)}), a)

\* The addresses in the rows that the updates return.
\* Mutant: the addresses the updates were given.
TargetAddrs(w) == Seen(w)!Targets(job[w].call)
RecordedAddrs(w) == Seen(w)!Homes(job[w].call)

TableMetadataCommit(w) ==
  LET before(a) == IF a \in DOMAIN lake.tmeta THEN lake.tmeta[a] ELSE << >> IN
  [lake EXCEPT !.tmeta =
     [a \in DOMAIN @ \cup RecordedAddrs(w) |->
        before(a) \o IF a \in RecordedAddrs(w) THEN <<job[w].call.hi>> ELSE << >>]]

Committed(w, t) ==
  CASE t.kind = "update" -> UpdateCommit(w, t.addr)
    [] t.kind = "align"  -> AlignCommit(w, t.addr, t.row)
    [] t.kind = "index"  ->
         [lake EXCEPT !.index = Now!AppendRows(@, Seen(w)!New(job[w].call))]
    [] t.kind = "tmeta"  -> TableMetadataCommit(w)
    [] t.kind = "fmeta"  ->
         [lake EXCEPT !.fmeta = @ \cup Seen(w)!FeatureRowsAfter(job[w].call)]

-----------------------------------------------------------------------------
(* The body of _add. *)

\* README: roll back with no concurrent writers.  A call that is not settled
\* is running, or stays pending or failed in the log.
Settled(w) == At(w, "idle") /\ InFlight(w) = {}

\* compute_index_deltas reads the index, ...
Begin(w, c) ==
  /\ calls' = calls + 1
  /\ log' = [n \in 1 .. calls' |-> IF n = calls' THEN << >> ELSE log[n]]
  /\ job' = [job EXCEPT ![w] =
       [NoJob EXCEPT !.pc = "fmeta", !.tx = calls', !.call = c,
                     !.index = Present(lake.index)]]
  /\ UNCHANGED <<lake, faults>>

\* ... then _add reads the two metadata tables.
ReadFeatureMetadata(w) ==
  /\ At(w, "fmeta")
  /\ job' = [job EXCEPT ![w].pc = "tmeta", ![w].fmeta = lake.fmeta]
  /\ UNCHANGED <<lake, log, calls, faults>>

ReadTableMetadata(w) ==
  /\ At(w, "tmeta")
  /\ job' = [job EXCEPT ![w].pc = "start", ![w].tmeta = lake.tmeta]
  /\ UNCHANGED <<lake, log, calls, faults>>

\* started_at: the versions a restore goes back to are those of this moment.
StartTransaction(w) ==
  /\ At(w, "start")
  /\ Logged(w, "pending")
  /\ job' = [job EXCEPT ![w].pc = "body", ![w].start = lake,
                        ![w].tasks = [t \in Tasks(w) |-> "unsent"]]
  /\ UNCHANGED <<lake, calls, faults>>

\* The log cannot be written: the call raises with nothing done.
StartFails(w) ==
  /\ At(w, "start")
  /\ Fault("log")
  /\ job' = [job EXCEPT ![w] = NoJob]
  /\ UNCHANGED <<lake, log, calls>>

\* Tasks are submitted stage by stage.  A local "task" is a call that returns
\* before the next one is made.
Submit(w, t) ==
  /\ At(w, "body")
  /\ t \in In(w, {"unsent"})
  /\ \A u \in In(w, {"unsent"}) : Stage[t.kind] <= Stage[u.kind]
  /\ w \in RayWriters \/ In(w, {"sent", "frozen", "failed"}) = {}
  /\ job' = [job EXCEPT ![w].tasks[t] = "sent"]
  /\ UNCHANGED <<lake, log, calls, faults>>

\* The first of the two commits of copy mode, to the table left behind.
Freeze(w, t) ==
  /\ t \in In(w, {"sent"}) /\ IsCopy(w, t)
  /\ lake' = Put(Now!AppendRows(lake.rows[t.addr],
                                Seen(w)!FrozenKeys(job[w].call, t.addr)), t.addr)
  /\ job' = [job EXCEPT ![w].tasks[t] = "frozen"]
  /\ UNCHANGED <<log, calls, faults>>

Run(w, t) ==
  /\ t \in In(w, {IF IsCopy(w, t) THEN "frozen" ELSE "sent"})
  /\ Awaited(w, t) \subseteq In(w, {"done"})
  /\ lake' = Committed(w, t)
  /\ job' = [job EXCEPT ![w].tasks[t] = "done"]
  /\ UNCHANGED <<log, calls, faults>>

TaskFails(w, t) ==
  /\ t \in InFlight(w)
  /\ Awaited(w, t) \subseteq In(w, {"done"})
  /\ Fault("task")
  /\ job' = [job EXCEPT ![w].tasks[t] = "failed"]
  /\ UNCHANGED <<lake, log, calls>>

\* A task whose argument is the error of another does not run.
InheritFailure(w, t) ==
  /\ t \in InFlight(w)
  /\ Awaited(w, t) \subseteq In(w, {"done", "failed"})
  /\ Awaited(w, t) \cap In(w, {"failed"}) # {}
  /\ job' = [job EXCEPT ![w].tasks[t] = "failed"]
  /\ UNCHANGED <<lake, log, calls, faults>>

\* ray.get(refs), or the end of the body: every reference is there.
BodyReturns(w) ==
  /\ At(w, "body")
  /\ In(w, {"unsent"}) = {}
  /\ Refs(w) \subseteq In(w, {"done"})

Succeed(w) ==
  /\ BodyReturns(w)
  /\ Logged(w, "success")
  /\ job' = [job EXCEPT ![w] = NoJob]
  /\ UNCHANGED <<lake, calls, faults>>

-----------------------------------------------------------------------------
(* The except branch of _transaction. *)

\* A local call raises where it is made; ray.get raises the first failure.
Raise(w) ==
  /\ At(w, "body")
  /\ IF w \in RayWriters
     THEN In(w, {"unsent"}) = {} /\ Refs(w) \cap In(w, {"failed"}) # {}
     ELSE In(w, {"failed"}) # {}
  /\ Goto(w, "raised")
  /\ UNCHANGED <<lake, log, calls, faults>>

\* KeyboardInterrupt: a local call stops where it is, and on Ray ray.get does.
\* A Ray submission may raise too, which leaves refs incomplete.
Interrupt(w) ==
  /\ At(w, "body")
  /\ w \in RayWriters \/ InFlight(w) = {}
  /\ Fault(IF w \in RayWriters /\ In(w, {"unsent"}) # {} THEN "submission"
           ELSE "interrupt")
  /\ Goto(w, "raised")
  /\ UNCHANGED <<lake, log, calls>>

SuccessLogFails(w) ==
  /\ BodyReturns(w)
  /\ Fault("log")
  /\ Goto(w, "raised")
  /\ UNCHANGED <<lake, log, calls>>

LogFailed(w) ==
  /\ At(w, "raised")
  /\ Logged(w, "failed")
  /\ Goto(w, "waiting")
  /\ UNCHANGED <<lake, calls, faults>>

\* The log cannot be written: the call ends without a restore.
LogFailedFails(w) ==
  /\ At(w, "raised")
  /\ Fault("log")
  /\ Goto(w, "ended")
  /\ UNCHANGED <<lake, log, calls>>

\* Mutants: the restore does not wait, or waits for successes only.
RestoreAtOnce(w) ==
  /\ At(w, "waiting")
  /\ job' = [job EXCEPT ![w].pc = "restoring", ![w].step = "index"]
  /\ UNCHANGED <<lake, log, calls, faults>>
WaitForSuccess(w) == RestoreAtOnce(w) /\ Refs(w) \subseteq In(w, {"done"})

\* self.wait(refs), on Ray and if there are any.
Wait(w) ==
  /\ At(w, "waiting")
  /\ Refs(w) \cap InFlight(w) = {}
  /\ job' = [job EXCEPT ![w].pc = "restoring", ![w].step = "index"]
  /\ UNCHANGED <<lake, log, calls, faults>>

\* restore_to_timestamp: the index, then table_metadata, then feature_metadata,
\* then the data tables that the restored feature_metadata names.
Restoring(w) == job[w].pc \in {"restoring", "recovering"}
Restored(w) == Restoring(w) /\ job[w].step = "data" /\ job[w].left = {}
\* Mutant: table_metadata is not restored.
StepAfterIndexIsFeatures == [index |-> "fmeta", tmeta |-> "fmeta", fmeta |-> "data"]
StepAfter == [index |-> "tmeta", tmeta |-> "fmeta", fmeta |-> "data"]

RestoreSystemTable(w) ==
  /\ Restoring(w) /\ job[w].step # "data"
  /\ LET table == job[w].step IN
     /\ lake' = [lake EXCEPT ![table] = job[w].start[table]]
     /\ job' = [job EXCEPT ![w].step = StepAfter[table],
                           ![w].left = IF table = "fmeta"
                                       THEN {r.addr : r \in job[w].start.fmeta}
                                       ELSE {}]
  /\ UNCHANGED <<log, calls, faults>>

RestoreDataTable(w, a) ==
  /\ Restoring(w) /\ job[w].step = "data" /\ a \in job[w].left
  /\ lake' = Put(job[w].start.rows[a], a)
  /\ job' = [job EXCEPT ![w].left = @ \ {a}]
  /\ UNCHANGED <<log, calls, faults>>

RestoreFails(w) ==
  /\ Restoring(w) /\ ~ Restored(w)
  /\ Fault("restore")
  /\ Goto(w, "ended")
  /\ UNCHANGED <<lake, log, calls>>

LogRolledBack(w) ==
  /\ At(w, "restoring") /\ Restored(w)
  /\ Logged(w, "rolled_back")
  /\ Goto(w, "idle")
  /\ UNCHANGED <<lake, calls, faults>>

LogRolledBackFails(w) ==
  /\ At(w, "restoring") /\ Restored(w)
  /\ Fault("log")
  /\ Goto(w, "ended")
  /\ UNCHANGED <<lake, log, calls>>

-----------------------------------------------------------------------------
(* Crashes, and the recovery README prescribes. *)

\* The process of w dies, and its Ray tasks with it.
Crash(w) ==
  /\ ~ At(w, "idle") /\ ~ At(w, "ended")
  /\ Fault("crash")
  /\ job' = [job EXCEPT ![w] =
       IF log[job[w].tx] = << >> THEN NoJob
       ELSE [@ EXCEPT !.pc = "ended", !.tasks = << >>]]
  /\ UNCHANGED <<lake, log, calls>>

\* A transaction stays pending or failed: restore_to_timestamp(started_at),
\* once nothing of it runs any more.
Recover(w) ==
  /\ At(w, "ended") /\ InFlight(w) = {}
  /\ job' = [job EXCEPT ![w].pc = "recovering", ![w].step = "index"]
  /\ UNCHANGED <<lake, log, calls, faults>>

Recovered(w) ==
  /\ At(w, "recovering") /\ Restored(w)
  /\ Goto(w, "idle")
  /\ UNCHANGED <<lake, log, calls, faults>>

-----------------------------------------------------------------------------

\* Callers keep FeatureLake's usage rules, and no two calls at one time write
\* the same feature: each team has its feature groups.
MayBegin(w, c) ==
  /\ \A v \in {u \in Writers \ {w} : ~ Settled(u)} :
       ~ Exclusive /\ job[v].call.feats \cap c.feats = {}
  /\ Now!Permitted(c)

\* What the program does by itself, once called.
Driver(w) ==
  \/ ReadFeatureMetadata(w) \/ ReadTableMetadata(w) \/ StartTransaction(w)
  \/ \E t \in DOMAIN job[w].tasks : Submit(w, t)
  \/ Succeed(w) \/ Raise(w) \/ LogFailed(w) \/ Wait(w) \/ LogRolledBack(w)
  \/ RestoreSystemTable(w)
  \/ \E a \in job[w].left : RestoreDataTable(w, a)
  \/ Recovered(w)

Worker(w) ==
  \E t \in DOMAIN job[w].tasks : Freeze(w, t) \/ Run(w, t) \/ InheritFailure(w, t)

Failure(w) ==
  \/ StartFails(w) \/ SuccessLogFails(w) \/ LogFailedFails(w)
  \/ LogRolledBackFails(w) \/ RestoreFails(w) \/ Interrupt(w) \/ Crash(w)
  \/ \E t \in DOMAIN job[w].tasks : TaskFails(w, t)

Next ==
  \E w \in Writers :
    \/ /\ Settled(w) /\ calls < MaxCalls
       /\ \E c \in Now!Call : MayBegin(w, c) /\ Begin(w, c)
    \/ Driver(w) \/ Worker(w) \/ Failure(w) \/ Recover(w)

Spec == Init /\ [][Next]_vars

\* The driver is a running program, and Ray runs what is submitted to it.
FairSpec == Spec /\ \A w \in Writers : WF_vars(Driver(w)) /\ WF_vars(Worker(w))

-----------------------------------------------------------------------------
(* Properties. *)

Statuses == {"pending", "success", "failed", "rolled_back"}
LastStatus(w) == log[job[w].tx][Len(log[job[w].tx])]

\* Types of the state.
TypeOK ==
  /\ lake.index \in [Keys -> Nat] /\ lake.fmeta \subseteq Now!FeatureRow
  /\ \A a \in DOMAIN lake.rows : a \in Now!Addrs /\ lake.rows[a] \in [Keys -> Nat]
  /\ \A a \in DOMAIN lake.tmeta : a \in Now!Addrs /\ lake.tmeta[a] \in Seq(Now!Times)
  /\ DOMAIN log = 1 .. calls
  /\ \A n \in 1 .. calls : log[n] \in Seq(Statuses)
  /\ \A w \in Writers : job[w].tx \in 0 .. calls

\* The lake as its users may count on: as it was when the call in progress, or
\* the one that has not been rolled back, began to write.
Underway == {w \in Writers : ~ At(w, "idle")}
Content ==
  IF \E w \in Underway : job[w].pc \notin {"fmeta", "tmeta", "start"}
  THEN job[CHOOSE w \in Underway : TRUE].start
  ELSE lake

L == INSTANCE FeatureLake WITH
  index <- Present(Content.index),
  rows  <- [a \in DOMAIN Content.tmeta |-> Content.rows[a]],
  tmeta <- Content.tmeta,
  fmeta <- Content.fmeta,
  calls <- calls - Cardinality(Underway)

\* Every call takes effect as one FeatureLake call or not at all: when its
\* transaction ends in success, in rolled_back, or with the recovery of a
\* transaction that a crash or a second failure left pending or failed.
Atomic == L!Spec

\* After a rollback every table of the lake is what it was at started_at, and
\* stays so until the next call begins.
RolledBack(w) ==
  /\ At(w, "idle")
  /\ job[w].tx \in DOMAIN log \cap {calls}
  /\ LastStatus(w) = "rolled_back"
RolledBackIsRestored ==
  \A w \in {v \in Writers : RolledBack(v)} :
    /\ lake.index = job[w].start.index
    /\ lake.tmeta = job[w].start.tmeta
    /\ lake.fmeta = job[w].start.fmeta
    /\ \A r \in lake.fmeta : lake.rows[r.addr] = job[w].start.rows[r.addr]

\* Metadata becomes visible only after all data and index writes succeed.
MetadataLast ==
  \A w \in Writers : \A t \in DOMAIN job[w].tasks :
    t.kind \in {"tmeta", "fmeta"} /\ job[w].tasks[t] = "done" =>
      \A u \in DOMAIN job[w].tasks :
        Stage[u.kind] < Stage[t.kind] => job[w].tasks[u] = "done"

\* The index, which all calls share, keeps each key once.
IndexUnique == \A k \in Keys : lake.index[k] <= 1

\* Concurrent writes to different feature groups do not conflict: while two calls
\* that each write features of their own are under way, the index they share
\* keeps each key once.
GroupsDontConflict ==
  (\E v, w \in Underway : /\ job[v].call.feats # {} /\ job[w].call.feats # {}
                          /\ job[v].call.feats # job[w].call.feats)
    => IndexUnique

\* A call whose process lives ends: in the log as success or rolled_back, or
\* with an error from the log or from the restore.
Settles ==
  \A w \in Writers : (At(w, "body")) ~> (job[w].pc \in {"idle", "ended"})
=============================================================================
