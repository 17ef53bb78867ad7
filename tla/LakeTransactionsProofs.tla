----------------------- MODULE LakeTransactionsProofs -----------------------
(***************************************************************************)
(* Type correctness of LakeTransactions, for any number of writers, local  *)
(* or on Ray, at one time, with any faults, crashes and rollbacks: what a  *)
(* task writes is computed from a snapshot that later commits and restores *)
(* have overtaken, and still is a table of the lake.                       *)
(***************************************************************************)
EXTENDS LakeTransactions, FiniteSetTheorems, TLAPS

\* What FeatureLake is known to do (FeatureLakeProofs and what follows it), of
\* the content that the users of this lake may count on.
P == INSTANCE LakeContractProofs WITH
  index <- Present(Content.index),
  rows  <- [a \in DOMAIN Content.tmeta |-> Content.rows[a]],
  tmeta <- Content.tmeta,
  fmeta <- Content.fmeta,
  calls <- calls - Cardinality(Underway)

\* The assumptions under which its theorems hold.
LEMMA LakeAssumptions ==
  /\ Keys \subseteq Nat \X Nat
  /\ Signals \subseteq P!AllSignals
  /\ Modes \subseteq {"copy", "merge"}
  /\ PrimaryLeads \in BOOLEAN
  /\ Deviations \subseteq P!UsageRules
  /\ MaxCalls \in Nat
  /\ NoAddr \notin P!Addrs
BY KeysAssumption, SignalsAssumption, ModesAssumption, OrderAssumption,
   DeviationsAssumption, MaxCallsAssumption, NoAddrAssumption
   DEF P!AllSignals, P!UsageRules, P!Addrs, Now!AllSignals, Now!UsageRules, Now!Addrs

\* The sets of values are those of FeatureLake, whatever it is instantiated with.
LEMMA SameConstants ==
  ASSUME NEW w
  PROVE  /\ Seen(w)!Call = Now!Call
         /\ Seen(w)!Versions = Now!Versions
         /\ P!Versions = Now!Versions
         /\ Now!Versions = 0 .. MaxCalls
BY DEF Seen!Call, Now!Call, Seen!Times, Now!Times, Seen!Time, Now!Time,
       Seen!Versions, P!Versions, Now!Versions

-----------------------------------------------------------------------------
(* What a call computes from its snapshot. *)

\* Its tasks, and where it leaves tables, depend on the snapshot only: no other
\* writer's commit changes them.
LEMMA SnapshotDecides ==
  ASSUME NEW w,
         job'[w].tx = job[w].tx, job'[w].call = job[w].call,
         job'[w].index = job[w].index, job'[w].fmeta = job[w].fmeta,
         job'[w].tmeta = job[w].tmeta
  PROVE  /\ Tasks(w)' = Tasks(w)
         /\ \A g : Seen(w)!Home(job[w].call, g)' = Seen(w)!Home(job[w].call, g)
<1> USE DEF Seen!Targets, Seen!PaddingsOf, Seen!Padded, Seen!New, Seen!Dense,
            Seen!Used, Seen!AddrOf, Seen!RowsOf, Seen!LatestRow, Seen!Unpadded,
            Seen!DenseSignals, Seen!Time
<1>1. Tasks(w)' = Tasks(w)
  BY DEF Tasks, AlignTasks, Task
<1>2. \A g : Seen(w)!Home(job[w].call, g)' = Seen(w)!Home(job[w].call, g)
  BY DEF Seen!Home, Seen!Fresh, Seen!Copies, Seen!Overlaps, Seen!AllNew, Seen!Inner,
         Seen!LastUpdated, Seen!NewAddr, Seen!Group, Seen!Old
<1> QED
  BY <1>1, <1>2

\* The latest row, in the snapshot, of a feature that has rows.
LEMMA SeenLatestRow ==
  ASSUME NEW w, job[w].fmeta \subseteq Now!FeatureRow, NEW f, Seen(w)!RowsOf(f) # {}
  PROVE  /\ Seen(w)!LatestRow(f) \in job[w].fmeta
         /\ Seen(w)!LatestRow(f).feature = f
         /\ \A s \in Seen(w)!RowsOf(f) : s.version <= Seen(w)!LatestRow(f).version
<1> DEFINE S == {r.version : r \in Seen(w)!RowsOf(f)}
<1>1. S \in SUBSET P!Versions /\ S # {}
  BY SameConstants DEF Seen!RowsOf, Now!FeatureRow
<1>2. PICK m \in S : \A n \in S : n <= m
  BY <1>1, LakeAssumptions, P!GreatestExists
<1>3. \E r \in Seen(w)!RowsOf(f) : \A s \in Seen(w)!RowsOf(f) : s.version <= r.version
  BY <1>2
<1>4. /\ Seen(w)!LatestRow(f) \in Seen(w)!RowsOf(f)
      /\ \A s \in Seen(w)!RowsOf(f) : s.version <= Seen(w)!LatestRow(f).version
  BY <1>3 DEF Seen!LatestRow
<1> QED
  BY <1>4 DEF Seen!RowsOf
\* A feature's address in the snapshot is that of its latest row, if it has any.
LEMMA SeenAddrOf ==
  ASSUME NEW w, job[w].fmeta \subseteq Now!FeatureRow, NEW f, Seen(w)!AddrOf(f) # NoAddr
  PROVE  /\ Seen(w)!RowsOf(f) # {}
         /\ Seen(w)!AddrOf(f) = Seen(w)!LatestRow(f).addr
         /\ Seen(w)!LatestRow(f) \in job[w].fmeta
         /\ Seen(w)!AddrOf(f) \in Now!Addrs
BY SeenLatestRow DEF Seen!AddrOf, Now!FeatureRow

\* The versions a snapshot shows of a call's own features are below the next
\* call's, so that next_rank is within bounds.
Behind(w) ==
  \A r \in job[w].fmeta : r.feature \in job[w].call.feats => r.version + 1 < job[w].tx

\* Where a call leaves the tables it writes is an address: a new one, or the
\* one that a row in its snapshot names.
LEMMA SeenHome ==
  ASSUME NEW w, job[w].fmeta \subseteq Now!FeatureRow, job[w].call \in Now!Call,
         job[w].tx \in 1 .. MaxCalls, NEW g \in Seen(w)!Targets(job[w].call)
  PROVE  /\ Seen(w)!Home(job[w].call, g) \in Now!Addrs
         /\ g # NoAddr => \E r \in job[w].fmeta : r.addr = g
<1> DEFINE c == job[w].call
<1>1. PICK f \in c.feats : g = Seen(w)!AddrOf(f)
  BY DEF Seen!Targets
<1>2. c.feats \subseteq Features
  BY DEF Now!Call
<1>3. ASSUME g # NoAddr PROVE g \in Now!Addrs /\ \E r \in job[w].fmeta : r.addr = g
  BY <1>1, <1>3, SeenAddrOf
<1>4. CASE g \in Seen(w)!Fresh(c)
  <2>1. Seen(w)!Home(c, g) = <<job[w].tx, Seen(w)!Group(c, g)>>
    BY <1>4 DEF Seen!Home, Seen!NewAddr
  <2>2. Seen(w)!Group(c, g) \subseteq Features
    BY <1>2 DEF Seen!Group
  <2> QED
    BY <1>3, <2>1, <2>2 DEF Now!Addrs
<1>5. CASE g \notin Seen(w)!Fresh(c)
  <2>1. Seen(w)!Home(c, g) = g /\ g # NoAddr
    BY <1>5 DEF Seen!Home, Seen!Fresh
  <2> QED
    BY <1>3, <2>1
<1> QED
  BY <1>4, <1>5

\* The feature_metadata rows that a call appends.
LEMMA SeenFeatureRows ==
  ASSUME NEW w, job[w].fmeta \subseteq Now!FeatureRow, job[w].call \in Now!Call,
         job[w].tx \in 1 .. MaxCalls, Behind(w),
         NEW r \in Seen(w)!FeatureRowsAfter(job[w].call)
  PROVE  /\ r \in Now!FeatureRow
         /\ r.version < job[w].tx
         /\ r.feature \in job[w].call.feats
         /\ \E g \in Seen(w)!Targets(job[w].call) : r.addr = Seen(w)!Home(job[w].call, g)
<1> DEFINE c == job[w].call
<1>1. PICK f \in c.feats :
        r = [feature |-> f,
             version |-> IF Seen(w)!AddrOf(f) = NoAddr THEN 0
                         ELSE Seen(w)!NextRank(c, Seen(w)!AddrOf(f)),
             addr    |-> Seen(w)!Home(c, Seen(w)!AddrOf(f)),
             signal  |-> c.signal]
  BY DEF Seen!FeatureRowsAfter
<1> DEFINE g == Seen(w)!AddrOf(f)
<1>2. /\ f \in Features /\ c.signal \in Signals
      /\ g \in Seen(w)!Targets(c) /\ f \in Seen(w)!Group(c, g)
  BY DEF Now!Call, Seen!Targets, Seen!Group
<1>3. r.addr \in Now!Addrs
  BY <1>1, <1>2, SeenHome
<1>4. r.version \in 0 .. MaxCalls /\ r.version < job[w].tx
  <2>1. CASE g = NoAddr
    BY <1>1, <2>1, MaxCallsAssumption
  <2>2. CASE g # NoAddr
    <3> DEFINE V == {Seen(w)!LatestRow(h).version : h \in Seen(w)!Group(c, g)}
    <3>1. ASSUME NEW h \in Seen(w)!Group(c, g)
          PROVE  /\ Seen(w)!LatestRow(h).version \in 0 .. MaxCalls
                 /\ Seen(w)!LatestRow(h).version + 1 < job[w].tx
      <4>1. h \in c.feats /\ Seen(w)!AddrOf(h) # NoAddr
        BY <2>2, <3>1 DEF Seen!Group
      <4>2. Seen(w)!LatestRow(h) \in job[w].fmeta /\ Seen(w)!LatestRow(h).feature = h
        BY <4>1, SeenAddrOf, SeenLatestRow
      <4> QED
        BY <4>1, <4>2, SameConstants DEF Behind, Now!FeatureRow
    <3>2. V \in SUBSET P!Versions /\ V # {}
      BY <1>2, <3>1, SameConstants
    <3>3. PICK m \in V : \A n \in V : n <= m
      BY <3>2, LakeAssumptions, P!GreatestExists
    <3>4. m + 1 \in 0 .. MaxCalls /\ m \in 0 .. MaxCalls /\ m + 1 < job[w].tx
      BY <3>1, <3>3, MaxCallsAssumption
    <3>5. /\ \A h \in Seen(w)!Group(c, g) : Seen(w)!LatestRow(h).version < m + 1
          /\ \E h \in Seen(w)!Group(c, g) : Seen(w)!LatestRow(h).version + 1 = m + 1
      BY <3>1, <3>3, <3>4
    <3>6. /\ Seen(w)!NextRank(c, g) \in 0 .. MaxCalls
          /\ \E h \in Seen(w)!Group(c, g) :
               Seen(w)!LatestRow(h).version + 1 = Seen(w)!NextRank(c, g)
      BY <3>4, <3>5, SameConstants DEF Seen!NextRank
    <3> QED
      BY <1>1, <2>2, <3>1, <3>6
  <2> QED
    BY <2>1, <2>2
<1> QED
  BY <1>1, <1>2, <1>3, <1>4, SameConstants DEF Now!FeatureRow
-----------------------------------------------------------------------------
(* The inductive invariant. *)

\* A content of the tables: bags of keys, and no metadata of a table that was
\* never written.
IsLake(x) ==
  /\ DOMAIN x = {"index", "rows", "tmeta", "fmeta"}
  /\ x.index \in [Keys -> Nat]
  /\ \A a \in DOMAIN x.rows : a \in Now!Addrs /\ x.rows[a] \in [Keys -> Nat]
  /\ \A a \in DOMAIN x.tmeta : a \in DOMAIN x.rows /\ x.tmeta[a] \in Seq(Now!Times)
  /\ \A r \in x.fmeta : r \in Now!FeatureRow /\ r.addr \in DOMAIN x.rows /\ r.version < calls

PCs == {"idle", "fmeta", "tmeta", "start", "body", "raised", "waiting",
        "restoring", "recovering", "ended"}
TaskStates == {"unsent", "sent", "frozen", "done", "failed"}

JobShape(j) ==
  /\ DOMAIN j = {"pc", "tx", "call", "index", "fmeta", "tmeta", "start", "tasks",
                 "step", "left"}
  /\ j.pc \in PCs
  /\ j.step \in {"index", "tmeta", "fmeta", "data"}

\* The snapshot of w: of tables that exist, and behind its own call.
SnapshotOK(w) ==
  LET j == job[w] IN
  /\ j.tx \in 0 .. calls
  /\ j.tx # 0 => j.call \in Now!Call
  /\ j.fmeta \subseteq Now!FeatureRow
  /\ \A r \in j.fmeta : r.addr \in DOMAIN lake.rows
  /\ DOMAIN j.tmeta \subseteq DOMAIN lake.rows
  /\ Behind(w)
  /\ IsLake(j.start) /\ DOMAIN j.start.rows \subseteq DOMAIN lake.rows

\* The tasks of w: an update that is done has written its table.
TasksOK(w) ==
  LET j == job[w] IN
  /\ DOMAIN j.tasks # {} => DOMAIN j.tasks = Tasks(w) /\ j.tx # 0
  /\ \A t \in DOMAIN j.tasks :
       /\ j.tasks[t] \in TaskStates
       /\ t.kind = "update" /\ j.tasks[t] = "done" =>
            Seen(w)!Home(j.call, t.addr) \in DOMAIN lake.rows

\* A call that has not started its transaction.
Reading(w) == job[w].pc \in {"fmeta", "tmeta", "start"}

JobOK(w) ==
  /\ JobShape(job[w])
  /\ At(w, "idle") \/ job[w].tx # 0
  /\ SnapshotOK(w)
  /\ TasksOK(w)
  /\ Reading(w) => DOMAIN job[w].tasks = {} /\ job[w].left = {}
  /\ job[w].left \subseteq {r.addr : r \in job[w].start.fmeta}

\* No two calls in progress, or to be recovered, have a feature in common.
Apart ==
  \A v, w \in Writers : v # w /\ ~ Settled(v) /\ ~ Settled(w) =>
    job[v].call.feats \cap job[w].call.feats = {}

\* Until w has read feature_metadata, no version of its features that is there,
\* or may come back with a rollback, has caught up with its call.
Lagging ==
  \A w \in Writers : At(w, "fmeta") =>
    \A x \in {lake} \cup {job[v].start : v \in Writers} :
      \A r \in x.fmeta : r.feature \in job[w].call.feats => r.version + 1 < job[w].tx

LogOK ==
  /\ calls \in 0 .. MaxCalls
  /\ DOMAIN log = 1 .. calls
  /\ \A n \in 1 .. calls : log[n] \in Seq(Statuses)

TInv ==
  /\ LogOK
  /\ IsLake(lake)
  /\ DOMAIN job = Writers /\ \A w \in Writers : JobOK(w)
  /\ Apart
  /\ Lagging

\* It is stronger than the types of the state.
LEMMA TInvTypes == TInv => TypeOK
BY DEF TInv, TypeOK, LogOK, IsLake, JobOK, SnapshotOK

\* An empty lake, and no call.
LEMMA TInvInit == Init => TInv
<1> SUFFICES ASSUME Init PROVE TInv
  OBVIOUS
<1>1. IsLake(EmptyLake)
  BY DEF IsLake, EmptyLake, Now!NoRows
<1>2. LogOK
  BY MaxCallsAssumption DEF Init, LogOK
<1>3. ASSUME NEW w \in Writers PROVE JobOK(w)
  <2>1. job[w] = NoJob /\ calls = 0 /\ lake = EmptyLake
    BY DEF Init
  <2>2. JobShape(NoJob)
    BY DEF JobShape, NoJob, PCs
  <2>3. SnapshotOK(w)
    BY <1>1, <2>1 DEF SnapshotOK, NoJob, Behind
  <2>4. TasksOK(w)
    BY <2>1 DEF TasksOK, NoJob
  <2> QED
    BY <2>1, <2>2, <2>3, <2>4 DEF JobOK, Reading, At, NoJob
<1>4. Apart /\ Lagging
  BY DEF Init, Apart, Lagging, Settled, At, InFlight, In, NoJob
<1> QED
  BY <1>1, <1>2, <1>3, <1>4 DEF TInv, Init

-----------------------------------------------------------------------------
(* What keeps the invariant. *)

\* The writes of a task are bags of keys again.
LEMMA BagsOfKeys ==
  ASSUME NEW t \in [Keys -> Nat], NEW S
  PROVE  /\ Now!OneRowEach(S) \in [Keys -> Nat]
         /\ Now!AppendRows(t, S) \in [Keys -> Nat]
         /\ Now!MergeRows(t, S) \in [Keys -> Nat]
BY DEF Now!OneRowEach, Now!AppendRows, Now!MergeRows

\* A job stays right when its call and its snapshot stay, its tasks are the same
\* or gone, and what became done is in the lake.
LEMMA JobKept ==
  ASSUME NEW w, JobOK(w), JobShape(job[w])',
         calls \in Nat, calls' \in Nat, calls <= calls',
         DOMAIN lake.rows \subseteq DOMAIN lake'.rows,
         job'[w].tx = job[w].tx, job'[w].call = job[w].call,
         job'[w].index = job[w].index, job'[w].fmeta = job[w].fmeta,
         job'[w].tmeta = job[w].tmeta, job'[w].start = job[w].start,
         At(w, "idle") => At(w, "idle")',
         Reading(w)' => Reading(w) /\ job'[w].left = job[w].left,
         DOMAIN job'[w].tasks \in {DOMAIN job[w].tasks, {}},
         \A t \in DOMAIN job'[w].tasks :
           /\ job'[w].tasks[t] \in TaskStates
           /\ t.kind = "update" /\ job'[w].tasks[t] = "done" =>
                \/ job[w].tasks[t] = "done"
                \/ Seen(w)!Home(job[w].call, t.addr) \in DOMAIN lake'.rows,
         job'[w].left \subseteq {r.addr : r \in job[w].start.fmeta}
  PROVE  JobOK(w)'
<1>1. SnapshotOK(w)'
  <2>1. IsLake(job[w].start)'
    BY DEF JobOK, SnapshotOK, IsLake, Now!FeatureRow, Now!Versions
  <2> QED
    BY <2>1 DEF JobOK, SnapshotOK, Behind
<1>2. TasksOK(w)'
  <2>1. /\ Tasks(w)' = Tasks(w)
        /\ \A g : Seen(w)!Home(job[w].call, g)' = Seen(w)!Home(job[w].call, g)
    BY SnapshotDecides
  <2>2. ASSUME NEW t \in DOMAIN job'[w].tasks
        PROVE  /\ job'[w].tasks[t] \in TaskStates
               /\ t.kind = "update" /\ job'[w].tasks[t] = "done" =>
                    Seen(w)!Home(job[w].call, t.addr) \in DOMAIN lake'.rows
    BY <2>2 DEF JobOK, TasksOK
  <2>3. ASSUME NEW t \in DOMAIN job'[w].tasks
        PROVE  /\ job'[w].tasks[t] \in TaskStates
               /\ t.kind = "update" /\ job'[w].tasks[t] = "done" =>
                    Seen(w)!Home(job[w].call, t.addr)' \in DOMAIN lake'.rows
    BY <2>1, <2>2
  <2>4. DOMAIN job'[w].tasks # {} => DOMAIN job'[w].tasks = Tasks(w)' /\ job'[w].tx # 0
    BY <2>1 DEF JobOK, TasksOK
  <2> QED
    BY <2>3, <2>4 DEF TasksOK
<1> QED
  BY <1>1, <1>2 DEF JobOK, At, Reading

\* A step of w other than the beginning of a call keeps the invariant if it
\* keeps its own job right, drops no table, and adds feature_metadata rows only
\* of its call's features, while tasks run, or of a content it had before.
LEMMA StepOfOne ==
  ASSUME TInv, NEW w \in Writers,
         LogOK', calls' = calls,
         IsLake(lake)', DOMAIN lake.rows \subseteq DOMAIN lake'.rows,
         job' = [job EXCEPT ![w] = job'[w]], JobOK(w)',
         \/ ~ Settled(w) /\ job'[w].call = job[w].call
         \/ Settled(w)',
         At(w, "fmeta")' => At(w, "fmeta") /\ job'[w].call = job[w].call
                                           /\ job'[w].tx = job[w].tx,
         \A r \in job'[w].start.fmeta : r \in job[w].start.fmeta \cup lake.fmeta,
         \A r \in lake'.fmeta \ (lake.fmeta \cup job[w].start.fmeta) :
           r.feature \in job[w].call.feats /\ ~ Settled(w) /\ ~ At(w, "fmeta")
  PROVE  TInv'
<1>1. \A v \in Writers \ {w} : job'[v] = job[v]
  BY DEF TInv
<1>2. ASSUME NEW v \in Writers \ {w} PROVE JobOK(v)'
  <2>1. JobOK(v)
    BY <1>2 DEF TInv
  <2>2. JobShape(job[v])'
    BY <1>1, <1>2, <2>1 DEF JobOK, JobShape
  <2>3. calls \in Nat
    BY DEF TInv, LogOK
  <2>4. \A t \in DOMAIN job'[v].tasks : job'[v].tasks[t] \in TaskStates
    BY <1>1, <1>2, <2>1 DEF JobOK, TasksOK
  <2>5. /\ At(v, "idle") => At(v, "idle")'
        /\ Reading(v)' => Reading(v) /\ job'[v].left = job[v].left
    BY <1>1, <1>2 DEF At, Reading
  <2>6. job'[v].left \subseteq {r.addr : r \in job[v].start.fmeta}
    BY <1>1, <1>2, <2>1 DEF JobOK
  <2> QED
    BY <1>1, <1>2, <2>1, <2>2, <2>3, <2>4, <2>5, <2>6, JobKept
<1>3. \A v \in Writers \ {w} : Settled(v)' <=> Settled(v)
  BY <1>1 DEF Settled, At, InFlight, In
<1>4. Apart'
  <2>1. ASSUME NEW v \in Writers, ~ Settled(v)'
        PROVE  ~ Settled(v) /\ job'[v].call = job[v].call
    BY <1>1, <1>3, <2>1
  <2> QED
    BY <2>1 DEF Apart, TInv
<1>5. Lagging'
  <2> SUFFICES ASSUME NEW v \in Writers, At(v, "fmeta")',
                      NEW x \in {lake'} \cup {job'[u].start : u \in Writers},
                      NEW r \in x.fmeta, r.feature \in job'[v].call.feats
               PROVE  r.version + 1 < job'[v].tx
    BY DEF Lagging
  <2>1. /\ At(v, "fmeta") /\ job'[v].call = job[v].call /\ job'[v].tx = job[v].tx
    BY <1>1 DEF At
  <2>2. \A s \in lake.fmeta : s.feature \in job[v].call.feats => s.version + 1 < job[v].tx
    BY <2>1 DEF TInv, Lagging
  <2>3. \A u \in Writers : \A s \in job[u].start.fmeta :
          s.feature \in job[v].call.feats => s.version + 1 < job[v].tx
    BY <2>1 DEF TInv, Lagging
  <2>4. ~ Settled(v)
    BY <2>1 DEF Settled, At
  <2>5. CASE r \in lake.fmeta \/ \E u \in Writers : r \in job[u].start.fmeta
    BY <2>1, <2>2, <2>3, <2>5
  <2>6. CASE r \in lake'.fmeta /\ r \notin lake.fmeta /\ r \notin job[w].start.fmeta
    <3>1. r.feature \in job[w].call.feats /\ ~ Settled(w) /\ ~ At(w, "fmeta")
      BY <2>6
    <3>2. v # w
      BY <2>1, <3>1
    <3> QED
      BY <2>1, <2>4, <3>1, <3>2 DEF TInv, Apart
  <2>7. CASE \E u \in Writers : r \in job'[u].start.fmeta
    BY <1>1, <2>5, <2>7
  <2> QED
    BY <2>5, <2>6, <2>7
<1> QED
  BY <1>2, <1>4, <1>5 DEF TInv

\* The log stays right when a status is added to it.
LEMMA LogStays ==
  ASSUME TInv, NEW w \in Writers, job[w].tx # 0,
         NEW status \in Statuses, Logged(w, status), calls' = calls
  PROVE  LogOK'
<1>1. job[w].tx \in 1 .. calls
  BY DEF TInv, JobOK, SnapshotOK, LogOK
<1>2. Append(log[job[w].tx], status) \in Seq(Statuses)
  BY <1>1 DEF TInv, LogOK
<1> QED
  BY <1>1, <1>2 DEF TInv, LogOK, Logged

\* Steps that only move w along, one of the restores among them.
LEMMA Moves ==
  ASSUME TInv, NEW w \in Writers, ~ Settled(w), job[w].pc # "idle",
         NEW pc \in PCs \ {"fmeta", "tmeta", "start"},
         NEW step \in {"index", "tmeta", "fmeta", "data"},
         NEW left \in SUBSET {r.addr : r \in job[w].start.fmeta},
         job' = [job EXCEPT ![w].pc = pc, ![w].step = step, ![w].left = left],
         LogOK', calls' = calls,
         IsLake(lake)', DOMAIN lake.rows \subseteq DOMAIN lake'.rows,
         lake'.fmeta \subseteq lake.fmeta \cup job[w].start.fmeta
  PROVE  TInv'
<1>1. JobOK(w) /\ DOMAIN job = Writers /\ calls \in Nat
  BY DEF TInv, LogOK
<1>2. DOMAIN job[w] = {"pc", "tx", "call", "index", "fmeta", "tmeta", "start", "tasks",
                       "step", "left"}
  BY <1>1 DEF JobOK, JobShape
<1>3. /\ job'[w].tx = job[w].tx /\ job'[w].call = job[w].call
      /\ job'[w].index = job[w].index /\ job'[w].fmeta = job[w].fmeta
      /\ job'[w].tmeta = job[w].tmeta /\ job'[w].start = job[w].start
      /\ job'[w].tasks = job[w].tasks /\ job'[w].left = left
      /\ job'[w].pc = pc /\ job'[w].step = step
      /\ DOMAIN job'[w] = DOMAIN job[w]
      /\ job' = [job EXCEPT ![w] = job'[w]]
  BY <1>1, <1>2
<1>4. JobShape(job[w])'
  BY <1>2, <1>3 DEF JobShape
<1>5. \A t \in DOMAIN job[w].tasks : job[w].tasks[t] \in TaskStates
  BY <1>1 DEF JobOK, TasksOK
<1>6. JobOK(w)'
  BY <1>1, <1>3, <1>4, <1>5, JobKept DEF At, Reading
<1>7. ~ At(w, "fmeta")'
  BY <1>3 DEF At
<1> QED
  BY <1>3, <1>6, <1>7, StepOfOne

\* Steps that end a call with nothing of it left to recover.
LEMMA Ends ==
  ASSUME TInv, NEW w \in Writers, job' = [job EXCEPT ![w] = NoJob],
         LogOK', UNCHANGED <<lake, calls>>
  PROVE  TInv'
<1>1. DOMAIN job = Writers /\ job'[w] = NoJob
  BY DEF TInv
<1>2. IsLake(lake)'
  BY DEF TInv, IsLake
<1>3. JobOK(w)'
  <2>1. IsLake(EmptyLake)'
    BY DEF IsLake, EmptyLake, Now!NoRows
  <2>2. JobShape(job[w])'
    BY <1>1 DEF JobShape, NoJob, PCs
  <2>3. SnapshotOK(w)'
    BY <1>1, <2>1 DEF SnapshotOK, NoJob, Behind, EmptyLake, TInv, LogOK
  <2>4. TasksOK(w)'
    BY <1>1 DEF TasksOK, NoJob
  <2> QED
    BY <1>1, <2>2, <2>3, <2>4 DEF JobOK, Reading, At, NoJob
<1>4. Settled(w)' /\ ~ At(w, "fmeta")'
  BY <1>1 DEF Settled, At, InFlight, In, NoJob
<1>5. job'[w].start.fmeta = {}
  BY <1>1 DEF NoJob, EmptyLake
<1> QED
  BY <1>1, <1>2, <1>3, <1>4, <1>5, StepOfOne

\* Steps that change the state of one task.
LEMMA TaskMoves ==
  ASSUME TInv, NEW w \in Writers, ~ Settled(w),
         NEW t \in DOMAIN job[w].tasks, NEW state \in TaskStates,
         job' = [job EXCEPT ![w].tasks[t] = state],
         UNCHANGED <<log, calls>>,
         IsLake(lake)', DOMAIN lake.rows \subseteq DOMAIN lake'.rows,
         \A r \in lake'.fmeta \ lake.fmeta : r.feature \in job[w].call.feats,
         t.kind = "update" /\ state = "done" =>
           Seen(w)!Home(job[w].call, t.addr) \in DOMAIN lake'.rows
  PROVE  TInv'
<1>1. JobOK(w) /\ DOMAIN job = Writers /\ calls \in Nat
  BY DEF TInv, LogOK
<1>2. DOMAIN job[w] = {"pc", "tx", "call", "index", "fmeta", "tmeta", "start", "tasks",
                       "step", "left"}
  BY <1>1 DEF JobOK, JobShape
<1>3. /\ job'[w].tx = job[w].tx /\ job'[w].call = job[w].call
      /\ job'[w].index = job[w].index /\ job'[w].fmeta = job[w].fmeta
      /\ job'[w].tmeta = job[w].tmeta /\ job'[w].start = job[w].start
      /\ job'[w].tasks = [job[w].tasks EXCEPT ![t] = state]
      /\ job'[w].left = job[w].left
      /\ job'[w].pc = job[w].pc /\ job'[w].step = job[w].step
      /\ DOMAIN job'[w] = DOMAIN job[w]
      /\ job' = [job EXCEPT ![w] = job'[w]]
  BY <1>1, <1>2
<1>4. JobShape(job[w])'
  BY <1>1, <1>2, <1>3 DEF JobOK, JobShape
<1>5. /\ DOMAIN job'[w].tasks = DOMAIN job[w].tasks
      /\ \A u \in DOMAIN job[w].tasks :
           /\ job'[w].tasks[u] \in TaskStates
           /\ u.kind = "update" /\ job'[w].tasks[u] = "done" =>
                \/ job[w].tasks[u] = "done"
                \/ Seen(w)!Home(job[w].call, u.addr) \in DOMAIN lake'.rows
  BY <1>1, <1>3 DEF JobOK, TasksOK
<1>6. JobOK(w)'
  BY <1>1, <1>3, <1>4, <1>5, JobKept DEF At, Reading, JobOK
<1>7. LogOK'
  BY DEF TInv, LogOK
<1>8. ~ At(w, "fmeta") /\ ~ At(w, "fmeta")'
  BY <1>1, <1>3 DEF At, JobOK, Reading
<1> QED
  BY <1>3, <1>6, <1>7, <1>8, StepOfOne

\* A table put at an address.
LEMMA PutTable ==
  ASSUME NEW a \in Now!Addrs, NEW table \in [Keys -> Nat],
         IsLake(lake), lake' = Put(table, a), UNCHANGED calls
  PROVE  /\ IsLake(lake)'
         /\ DOMAIN lake'.rows = DOMAIN lake.rows \cup {a}
         /\ lake'.fmeta = lake.fmeta
<1>1. /\ DOMAIN lake' = DOMAIN lake /\ lake'.index = lake.index
      /\ lake'.tmeta = lake.tmeta /\ lake'.fmeta = lake.fmeta
      /\ lake'.rows = [b \in DOMAIN lake.rows \cup {a} |->
                         IF b = a THEN table ELSE lake.rows[b]]
  BY DEF Put, IsLake
<1> QED
  BY <1>1 DEF IsLake

\* What a task writes is a lake: it drops no table and no row of metadata, and
\* adds rows of its call's features only, of tables that are there.
LEMMA Commits ==
  ASSUME TInv, NEW w \in Writers, NEW t \in DOMAIN job[w].tasks,
         Awaited(w, t) \subseteq In(w, {"done"}),
         lake' = Committed(w, t), UNCHANGED calls
  PROVE  /\ IsLake(lake)'
         /\ DOMAIN lake.rows \subseteq DOMAIN lake'.rows
         /\ \A r \in lake'.fmeta \ lake.fmeta : r.feature \in job[w].call.feats
         /\ t.kind = "update" =>
              Seen(w)!Home(job[w].call, t.addr) \in DOMAIN lake'.rows
<1> DEFINE c == job[w].call
           targets == Seen(w)!Targets(c)
<1>1. /\ IsLake(lake) /\ calls \in Nat
      /\ DOMAIN job[w].tasks = Tasks(w)
      /\ job[w].fmeta \subseteq Now!FeatureRow /\ c \in Now!Call
      /\ job[w].tx \in 1 .. MaxCalls /\ job[w].tx <= calls
      /\ Behind(w)
      /\ \A r \in job[w].fmeta : r.addr \in DOMAIN lake.rows
      /\ DOMAIN job[w].tmeta \subseteq DOMAIN lake.rows
  BY MaxCallsAssumption DEF TInv, JobOK, SnapshotOK, TasksOK, LogOK
<1>2. \A a \in DOMAIN lake.rows : a \in Now!Addrs /\ lake.rows[a] \in [Keys -> Nat]
  BY <1>1 DEF IsLake
<1>3. CASE t.kind = "update"
  <2>1. t.addr \in targets
    BY <1>1, <1>3 DEF Tasks, AlignTasks, Task
  <2>2. /\ Seen(w)!Home(c, t.addr) \in Now!Addrs
        /\ t.addr # NoAddr => t.addr \in DOMAIN lake.rows
    BY <1>1, <2>1, SeenHome
  <2>3. lake' = UpdateCommit(w, t.addr)
    BY <1>3 DEF Committed
  <2> DEFINE g == t.addr
  <2> HIDE DEF g
  <2>4. /\ g = NoAddr => g \notin Seen(w)!Copies(c) \cup Seen(w)!Merges(c) \cup Seen(w)!Appends(c)
        /\ g \in Seen(w)!Copies(c) => g \notin Seen(w)!Merges(c) \cup Seen(w)!Appends(c)
        /\ g \in Seen(w)!Merges(c) => g \notin Seen(w)!Appends(c)
    BY DEF Seen!Copies, Seen!Merges, Seen!Appends, Seen!Old
  <2> USE DEF g
  <2>5. PICK table \in [Keys -> Nat] : lake' = Put(table, Seen(w)!Home(c, t.addr))
    <3>1. CASE t.addr = NoAddr
      <4>1. Now!OneRowEach(Seen(w)!CreatedKeys(c)) \in [Keys -> Nat]
        BY DEF Now!OneRowEach
      <4> QED
        BY <2>3, <2>4, <3>1, <4>1 DEF UpdateCommit
    <3>2. CASE t.addr # NoAddr /\ t.addr \in Seen(w)!Copies(c)
      <4>1. Seen(w)!CopiedRows(c, t.addr) \in [Keys -> Nat]
        BY <1>2, <2>2, <3>2
           DEF Seen!CopiedRows, Seen!AppendRows, Seen!KeptRows, Seen!OneRowEach
      <4>2. UpdateCommit(w, t.addr) =
              Put(Seen(w)!CopiedRows(c, t.addr), Seen(w)!Home(c, t.addr))
        BY <2>4, <3>2 DEF UpdateCommit
      <4> QED
        BY <2>3, <4>1, <4>2
    <3>3. CASE t.addr # NoAddr /\ t.addr \notin Seen(w)!Copies(c)
      <4>1. Seen(w)!Home(c, t.addr) = t.addr
        BY <3>3 DEF Seen!Home, Seen!Fresh
      <4>2. lake.rows[t.addr] \in [Keys -> Nat]
        BY <1>2, <2>2, <3>3
      <4>3. CASE t.addr \in Seen(w)!Merges(c)
        <5>1. UpdateCommit(w, t.addr) =
                Put(Now!MergeRows(lake.rows[t.addr], Seen(w)!MergedKeys(c)), t.addr)
          BY <2>4, <3>3, <4>3 DEF UpdateCommit
        <5> QED
          BY <2>3, <4>1, <4>2, <5>1, BagsOfKeys
      <4>4. CASE t.addr \notin Seen(w)!Merges(c)
        <5>1. t.addr \in Seen(w)!Appends(c)
          BY <2>1, <3>3, <4>4 DEF Seen!Appends, Seen!Old
        <5>2. UpdateCommit(w, t.addr) =
                Put(Now!AppendRows(lake.rows[t.addr], Seen(w)!AppendedKeys(c, t.addr)),
                    t.addr)
          BY <2>4, <3>3, <4>4, <5>1 DEF UpdateCommit
        <5> QED
          BY <2>3, <4>1, <4>2, <5>2, BagsOfKeys
      <4> QED
        BY <4>3, <4>4
    <3> QED
      BY <3>1, <3>2, <3>3
  <2> QED
    BY <1>1, <2>2, <2>5, PutTable
<1>4. CASE t.kind = "align"
  <2>1. t.addr \in DOMAIN lake.rows
    BY <1>1, <1>4
       DEF Tasks, AlignTasks, Task, Seen!Padded, Seen!Dense, Seen!Used
  <2>2. lake' = AlignCommit(w, t.addr, t.row)
    BY <1>4 DEF Committed
  <2>3. \E table \in [Keys -> Nat] : lake' = Put(table, t.addr)
    BY <1>2, <2>1, <2>2, BagsOfKeys DEF AlignCommit
  <2> QED
    BY <1>1, <1>2, <1>4, <2>1, <2>3, PutTable
<1>5. CASE t.kind = "index"
  <2>1. lake' = [lake EXCEPT !.index = Now!AppendRows(@, Seen(w)!New(c))]
    BY <1>5 DEF Committed
  <2>2. lake.index \in [Keys -> Nat]
    BY <1>1 DEF IsLake
  <2>3. Now!AppendRows(lake.index, Seen(w)!New(c)) \in [Keys -> Nat]
    BY <2>2, BagsOfKeys
  <2>4. /\ lake'.index \in [Keys -> Nat] /\ lake'.rows = lake.rows
        /\ lake'.tmeta = lake.tmeta /\ lake'.fmeta = lake.fmeta
        /\ DOMAIN lake' = DOMAIN lake
    BY <1>1, <2>1, <2>3 DEF IsLake
  <2> QED
    BY <1>1, <1>5, <2>4 DEF IsLake
<1>6. CASE t.kind \in {"tmeta", "fmeta"}
  <2>1. \A g \in targets : Task("update", g, 0) \in DOMAIN job[w].tasks
    BY <1>1 DEF Tasks
  <2>2. \A g \in targets : job[w].tasks[Task("update", g, 0)] = "done"
    BY <1>6, <2>1 DEF Awaited, In, Task
  <2>3. \A g \in targets : Seen(w)!Home(c, g) \in DOMAIN lake.rows
    BY <2>1, <2>2 DEF TInv, JobOK, TasksOK, Task
  <2>4. CASE t.kind = "tmeta"
    <3> DEFINE before(a) == IF a \in DOMAIN lake.tmeta THEN lake.tmeta[a] ELSE << >>
               last(a) == IF a \in RecordedAddrs(w) THEN <<c.hi>> ELSE << >>
               new(a) == before(a) \o last(a)
    <3>1. lake' = TableMetadataCommit(w)
      BY <2>4 DEF Committed
    <3>2. RecordedAddrs(w) \subseteq DOMAIN lake.rows
      BY <2>3 DEF RecordedAddrs, Seen!Homes
    <3>3. /\ lake'.tmeta = [a \in DOMAIN lake.tmeta \cup RecordedAddrs(w) |-> new(a)]
          /\ lake'.index = lake.index /\ lake'.rows = lake.rows
          /\ lake'.fmeta = lake.fmeta /\ DOMAIN lake' = DOMAIN lake
      BY <1>1, <3>1 DEF TableMetadataCommit, IsLake
    <3>4. c.hi \in Now!Times
      BY <1>1 DEF Now!Call
    <3>5. ASSUME NEW a \in DOMAIN lake'.tmeta
          PROVE  a \in DOMAIN lake.rows /\ lake'.tmeta[a] \in Seq(Now!Times)
      <4>1. before(a) \in Seq(Now!Times)
        BY <1>1 DEF IsLake
      <4>2. last(a) \in Seq(Now!Times)
        BY <3>4
      <4> HIDE DEF before, last
      <4>3. new(a) \in Seq(Now!Times)
        BY <4>1, <4>2
      <4> QED
        BY <1>1, <3>2, <3>3, <3>5, <4>3 DEF IsLake
    <3> QED
      BY <1>1, <2>4, <3>3, <3>5 DEF IsLake
  <2>5. CASE t.kind = "fmeta"
    <3>1. lake' = [lake EXCEPT !.fmeta = @ \cup Seen(w)!FeatureRowsAfter(c)]
      BY <2>5 DEF Committed
    <3>2. /\ lake'.fmeta = lake.fmeta \cup Seen(w)!FeatureRowsAfter(c)
          /\ lake'.index = lake.index /\ lake'.rows = lake.rows
          /\ lake'.tmeta = lake.tmeta /\ DOMAIN lake' = DOMAIN lake
      BY <1>1, <3>1 DEF IsLake
    <3>3. ASSUME NEW r \in Seen(w)!FeatureRowsAfter(c)
          PROVE  /\ r \in Now!FeatureRow /\ r.version < calls /\ r.feature \in c.feats
                 /\ r.addr \in DOMAIN lake.rows
      <4>1. /\ r \in Now!FeatureRow /\ r.version < job[w].tx /\ r.feature \in c.feats
            /\ \E g \in targets : r.addr = Seen(w)!Home(c, g)
        BY <1>1, SeenFeatureRows
      <4>2. r.version \in 0 .. MaxCalls
        BY <4>1, SameConstants DEF Now!FeatureRow
      <4> QED
        BY <1>1, <2>3, <4>1, <4>2, MaxCallsAssumption
    <3> QED
      BY <1>1, <2>5, <3>2, <3>3 DEF IsLake
  <2> QED
    BY <1>6, <2>4, <2>5
<1>7. t.kind \in {"update", "align", "index", "tmeta", "fmeta"}
  BY <1>1 DEF Tasks, AlignTasks, Task
<1> QED
  BY <1>3, <1>4, <1>5, <1>6, <1>7

-----------------------------------------------------------------------------
(* The actions. *)

\* A restore brings back tables that are there, and writes no other.
LEMMA RestoreKeeps ==
  ASSUME TInv, NEW w \in Writers,
         RestoreSystemTable(w) \/ \E a \in job[w].left : RestoreDataTable(w, a)
  PROVE  TInv'
<1> DEFINE j == job[w]
<1>1. /\ JobOK(w) /\ IsLake(lake) /\ IsLake(j.start)
      /\ DOMAIN j.start.rows \subseteq DOMAIN lake.rows
      /\ DOMAIN job = Writers
  BY DEF TInv, JobOK, SnapshotOK
<1>2. /\ DOMAIN j = {"pc", "tx", "call", "index", "fmeta", "tmeta", "start", "tasks",
                     "step", "left"}
      /\ DOMAIN lake = {"index", "rows", "tmeta", "fmeta"}
      /\ j.pc \in {"restoring", "recovering"}
      /\ j.step \in {"index", "tmeta", "fmeta", "data"}
      /\ j.left \in SUBSET {r.addr : r \in j.start.fmeta}
  BY <1>1 DEF JobOK, JobShape, IsLake, RestoreSystemTable, RestoreDataTable, Restoring
<1>3. ~ Settled(w) /\ j.pc # "idle" /\ j.pc \in PCs \ {"fmeta", "tmeta", "start"}
  BY <1>2 DEF Settled, At, PCs
<1>4. calls' = calls /\ LogOK'
  BY DEF RestoreSystemTable, RestoreDataTable, TInv, LogOK
<1>5. CASE RestoreSystemTable(w)
  <2> DEFINE step == StepAfter[j.step]
             left == IF j.step = "fmeta" THEN {r.addr : r \in j.start.fmeta} ELSE {}
  <2>1. job' = [job EXCEPT ![w].pc = j.pc, ![w].step = step, ![w].left = left]
    BY <1>1, <1>2, <1>5 DEF RestoreSystemTable
  <2>2. step \in {"index", "tmeta", "fmeta", "data"}
    BY <1>2, <1>5 DEF RestoreSystemTable, StepAfter
  <2>3. left \in SUBSET {r.addr : r \in j.start.fmeta}
    OBVIOUS
  <2>4. /\ j.step \in {"index", "tmeta", "fmeta"}
        /\ lake' = [lake EXCEPT ![j.step] = j.start[j.step]]
    BY <1>2, <1>5 DEF RestoreSystemTable
  <2>5. /\ IsLake(lake)' /\ DOMAIN lake'.rows = DOMAIN lake.rows
        /\ lake'.fmeta \subseteq lake.fmeta \cup j.start.fmeta
    <3>1. CASE j.step = "index"
      <4>1. /\ lake'.index = j.start.index /\ lake'.rows = lake.rows
            /\ lake'.tmeta = lake.tmeta /\ lake'.fmeta = lake.fmeta
            /\ DOMAIN lake' = DOMAIN lake
        BY <1>2, <2>4, <3>1
      <4> QED
        BY <1>1, <1>4, <4>1 DEF IsLake
    <3>2. CASE j.step = "tmeta"
      <4>1. /\ lake'.index = lake.index /\ lake'.rows = lake.rows
            /\ lake'.tmeta = j.start.tmeta /\ lake'.fmeta = lake.fmeta
            /\ DOMAIN lake' = DOMAIN lake
        BY <1>2, <2>4, <3>2
      <4> QED
        BY <1>1, <1>4, <4>1 DEF IsLake
    <3>3. CASE j.step = "fmeta"
      <4>1. /\ lake'.index = lake.index /\ lake'.rows = lake.rows
            /\ lake'.tmeta = lake.tmeta /\ lake'.fmeta = j.start.fmeta
            /\ DOMAIN lake' = DOMAIN lake
        BY <1>2, <2>4, <3>3
      <4> QED
        BY <1>1, <1>4, <4>1 DEF IsLake
    <3> QED
      BY <2>4, <3>1, <3>2, <3>3
  <2> HIDE DEF step, left
  <2> QED
    BY <1>3, <1>4, <2>1, <2>2, <2>3, <2>5, Moves
<1>6. ASSUME NEW a \in j.left, RestoreDataTable(w, a) PROVE TInv'
  <2> DEFINE left == j.left \ {a}
  <2>1. job' = [job EXCEPT ![w].pc = j.pc, ![w].step = j.step, ![w].left = left]
    BY <1>1, <1>2, <1>6 DEF RestoreDataTable
  <2>2. a \in Now!Addrs /\ j.start.rows[a] \in [Keys -> Nat] /\ a \in DOMAIN lake.rows
    BY <1>1, <1>2, <1>6 DEF IsLake
  <2>3. /\ IsLake(lake)' /\ DOMAIN lake.rows \subseteq DOMAIN lake'.rows
        /\ lake'.fmeta = lake.fmeta
    BY <1>1, <1>6, <2>2, PutTable DEF RestoreDataTable
  <2>4. left \in SUBSET {r.addr : r \in j.start.fmeta}
    BY <1>2
  <2> HIDE DEF left
  <2> QED
    BY <1>2, <1>3, <1>4, <2>1, <2>3, <2>4, Moves
<1> QED
  BY <1>5, <1>6

\* What a call reads first.  Its features lag behind it, whatever is restored
\* before the read, because no other call in progress has a feature of its.
LEMMA ReadsKeep ==
  ASSUME TInv, NEW w \in Writers,
         ReadFeatureMetadata(w) \/ ReadTableMetadata(w) \/ StartTransaction(w)
  PROVE  TInv'
<1> DEFINE j == job[w]
<1>1. /\ JobOK(w) /\ IsLake(lake) /\ IsLake(j.start) /\ DOMAIN job = Writers
      /\ calls \in Nat
  BY DEF TInv, JobOK, SnapshotOK, LogOK
<1>2. /\ DOMAIN j = {"pc", "tx", "call", "index", "fmeta", "tmeta", "start", "tasks",
                     "step", "left"}
      /\ Reading(w) /\ DOMAIN j.tasks = {} /\ j.left = {} /\ j.tx # 0
  BY <1>1 DEF JobOK, JobShape, ReadFeatureMetadata, ReadTableMetadata, StartTransaction,
              Reading, At
<1>3. ~ Settled(w)
  BY <1>2 DEF Settled, At, Reading
<1>4. lake' = lake /\ calls' = calls /\ IsLake(lake)'
  <2>1. lake' = lake /\ calls' = calls
    BY DEF ReadFeatureMetadata, ReadTableMetadata, StartTransaction
  <2> QED
    BY <1>1, <2>1 DEF IsLake
<1>5. LogOK'
  BY <1>2, <1>4, LogStays
     DEF ReadFeatureMetadata, ReadTableMetadata, StartTransaction, TInv, LogOK, Statuses
<1>6. /\ job'[w].tx = j.tx /\ job'[w].call = j.call
      /\ job' = [job EXCEPT ![w] = job'[w]] /\ DOMAIN job'[w] = DOMAIN j
      /\ job'[w].left = j.left /\ job'[w].step = j.step /\ job'[w].pc \in PCs
      /\ ~ At(w, "fmeta")' /\ ~ At(w, "idle")'
      /\ Reading(w)' => job'[w].tasks = j.tasks
  BY <1>1, <1>2
     DEF ReadFeatureMetadata, ReadTableMetadata, StartTransaction, At, PCs, Reading
<1>7. JobShape(job[w])'
  BY <1>1, <1>6 DEF JobOK, JobShape
<1>8. /\ job'[w].start \in {j.start, lake} /\ job'[w].fmeta \in {j.fmeta, lake.fmeta}
      /\ job'[w].tmeta \in {j.tmeta, lake.tmeta}
  BY <1>1, <1>2 DEF ReadFeatureMetadata, ReadTableMetadata, StartTransaction
<1>9. SnapshotOK(w)'
  <2>1. Behind(w)'
    <3>1. CASE ReadFeatureMetadata(w)
      BY <1>6, <1>8, <3>1 DEF ReadFeatureMetadata, Behind, TInv, Lagging, JobOK, SnapshotOK
    <3>2. CASE ~ ReadFeatureMetadata(w)
      <4>1. job'[w].fmeta = j.fmeta
        BY <1>1, <1>2, <3>2 DEF ReadTableMetadata, StartTransaction
      <4> QED
        BY <1>1, <1>6, <4>1 DEF Behind, JobOK, SnapshotOK
    <3> QED
      BY <3>1, <3>2
  <2>2. /\ job'[w].fmeta \subseteq Now!FeatureRow
        /\ \A r \in job'[w].fmeta : r.addr \in DOMAIN lake.rows
        /\ DOMAIN job'[w].tmeta \subseteq DOMAIN lake.rows
    BY <1>1, <1>8 DEF JobOK, SnapshotOK, IsLake
  <2>3. IsLake(job[w].start)' /\ DOMAIN job'[w].start.rows \subseteq DOMAIN lake.rows
    BY <1>1, <1>4, <1>8 DEF JobOK, SnapshotOK, IsLake
  <2>4. job'[w].tx \in 0 .. calls /\ job'[w].call \in Now!Call
    BY <1>1, <1>2, <1>6 DEF JobOK, SnapshotOK
  <2> QED
    BY <1>4, <1>6, <2>1, <2>2, <2>3, <2>4 DEF SnapshotOK
<1>10. TasksOK(w)' /\ (Reading(w)' => DOMAIN job'[w].tasks = {} /\ job'[w].left = {})
  <2>1. CASE Reading(w)'
    <3>1. DOMAIN job'[w].tasks = {}
      BY <1>2, <1>6, <2>1
    <3> QED
      BY <1>2, <1>6, <3>1 DEF TasksOK
  <2>2. CASE ~ Reading(w)'
    <3>1. StartTransaction(w)
      BY <1>1, <1>2, <2>2 DEF ReadFeatureMetadata, ReadTableMetadata, Reading
    <3>2. /\ job'[w].tasks = [t \in Tasks(w) |-> "unsent"]
          /\ job'[w].index = j.index /\ job'[w].fmeta = j.fmeta
          /\ job'[w].tmeta = j.tmeta
      BY <1>1, <1>2, <3>1 DEF StartTransaction
    <3>3. Tasks(w)' = Tasks(w)
      BY <1>6, <3>2, SnapshotDecides
    <3>4. job'[w].tx # 0 /\ DOMAIN job'[w].tasks = Tasks(w)'
      BY <1>2, <1>6, <3>2, <3>3
    <3>5. \A t \in DOMAIN job'[w].tasks : job'[w].tasks[t] = "unsent"
      BY <3>2
    <3> QED
      BY <2>2, <3>4, <3>5 DEF TasksOK, TaskStates
  <2> QED
    BY <2>1, <2>2
<1>11. job'[w].left \subseteq {r.addr : r \in job'[w].start.fmeta}
  BY <1>2, <1>6
<1>12. JobOK(w)'
  BY <1>2, <1>6, <1>7, <1>9, <1>10, <1>11 DEF JobOK
<1>13. \A r \in job'[w].start.fmeta : r \in j.start.fmeta \cup lake.fmeta
  BY <1>8
<1> QED
  BY <1>3, <1>4, <1>5, <1>6, <1>12, <1>13, StepOfOne

\* A call begins after every call made so far, and with features that no other
\* call in progress has.
LEMMA BeginKeeps ==
  ASSUME TInv, NEW w \in Writers, Settled(w), calls < MaxCalls,
         NEW c \in Now!Call, MayBegin(w, c), Begin(w, c)
  PROVE  TInv'
<1> DEFINE j == [NoJob EXCEPT !.pc = "fmeta", !.tx = calls', !.call = c,
                              !.index = Present(lake.index)]
<1>1. /\ calls \in Nat /\ calls' = calls + 1 /\ calls' \in Nat /\ lake' = lake
      /\ DOMAIN job = Writers /\ job' = [job EXCEPT ![w] = j]
      /\ \A v \in Writers : JobOK(v)
  BY DEF TInv, LogOK, Begin
<1>2. /\ j.pc = "fmeta" /\ j.tx = calls' /\ j.call = c
      /\ j.fmeta = {} /\ j.tmeta = << >> /\ j.start = EmptyLake
      /\ j.tasks = << >> /\ j.left = {} /\ j.step = "data"
      /\ DOMAIN j = {"pc", "tx", "call", "index", "fmeta", "tmeta", "start", "tasks",
                     "step", "left"}
  BY DEF NoJob
<1> HIDE DEF j
<1>3. job'[w] = j /\ \A v \in Writers \ {w} : job'[v] = job[v]
  BY <1>1
<1>4. ASSUME NEW x, IsLake(x)
      PROVE  /\ \A r \in x.fmeta : r.version + 1 < calls'
             /\ DOMAIN x = {"index", "rows", "tmeta", "fmeta"}
             /\ x.index \in [Keys -> Nat]
             /\ \A a \in DOMAIN x.rows : a \in Now!Addrs /\ x.rows[a] \in [Keys -> Nat]
             /\ \A a \in DOMAIN x.tmeta : a \in DOMAIN x.rows /\ x.tmeta[a] \in Seq(Now!Times)
             /\ \A r \in x.fmeta :
                  r \in Now!FeatureRow /\ r.addr \in DOMAIN x.rows /\ r.version < calls'
  <2>1. \A r \in x.fmeta : r.version \in 0 .. MaxCalls
    BY <1>4, SameConstants DEF IsLake, Now!FeatureRow
  <2> QED
    BY <1>1, <1>4, <2>1, MaxCallsAssumption DEF IsLake
<1>5. IsLake(lake)'
  BY <1>1, <1>4 DEF TInv, IsLake
<1>6. LogOK'
  <2>1. calls' \in 0 .. MaxCalls
    BY <1>1, MaxCallsAssumption
  <2>2. /\ DOMAIN log' = 1 .. calls'
        /\ \A n \in 1 .. calls' : log'[n] = IF n = calls' THEN << >> ELSE log[n]
    BY DEF Begin
  <2>3. \A n \in 1 .. calls' : n = calls' \/ n \in 1 .. calls
    BY <1>1
  <2>4. ASSUME NEW n \in 1 .. calls' PROVE log'[n] \in Seq(Statuses)
    <3>1. CASE n = calls'
      <4>1. log'[n] = << >>
        BY <2>2, <2>4, <3>1
      <4> QED
        BY <4>1
    <3>2. CASE n # calls'
      <4>1. log'[n] = log[n] /\ n \in 1 .. calls
        BY <2>2, <2>3, <2>4, <3>2
      <4> QED
        BY <4>1 DEF TInv, LogOK
    <3> QED
      BY <3>1, <3>2
  <2> QED
    BY <2>1, <2>2, <2>4 DEF LogOK
<1>7. JobOK(w)'
  <2>1. IsLake(EmptyLake)'
    BY DEF IsLake, EmptyLake, Now!NoRows
  <2>2. JobShape(job[w])'
    BY <1>2, <1>3 DEF JobShape, PCs
  <2>3. SnapshotOK(w)'
    <3>1. IsLake(job[w].start)' /\ DOMAIN job'[w].start.rows = {}
      BY <1>2, <1>3, <2>1 DEF IsLake, EmptyLake
    <3>2. job'[w].tx \in 0 .. calls' /\ job'[w].call \in Now!Call
      BY <1>1, <1>2, <1>3
    <3>3. job'[w].fmeta = {} /\ DOMAIN job'[w].tmeta = {}
      BY <1>2, <1>3
    <3> QED
      BY <3>1, <3>2, <3>3 DEF SnapshotOK, Behind
  <2>4. TasksOK(w)'
    BY <1>2, <1>3 DEF TasksOK
  <2> QED
    BY <1>1, <1>2, <1>3, <2>2, <2>3, <2>4 DEF JobOK, Reading
<1>8. ASSUME NEW v \in Writers \ {w} PROVE JobOK(v)'
  <2>1. JobShape(job[v])' /\ calls <= calls' /\ lake'.rows = lake.rows
    BY <1>1, <1>3, <1>8 DEF JobOK, JobShape
  <2>2. \A t \in DOMAIN job'[v].tasks : job'[v].tasks[t] \in TaskStates
    BY <1>1, <1>3, <1>8 DEF JobOK, TasksOK
  <2>3. /\ At(v, "idle") => At(v, "idle")'
        /\ Reading(v)' => Reading(v) /\ job'[v].left = job[v].left
    BY <1>3, <1>8 DEF At, Reading
  <2>4. job'[v].left \subseteq {r.addr : r \in job[v].start.fmeta}
    BY <1>1, <1>3, <1>8 DEF JobOK
  <2> QED
    BY <1>1, <1>3, <1>8, <2>1, <2>2, <2>3, <2>4, JobKept
<1>9. Apart'
  <2>1. \A v \in Writers \ {w} : Settled(v)' <=> Settled(v)
    BY <1>3 DEF Settled, At, InFlight, In
  <2>2. \A v \in Writers \ {w} : ~ Settled(v) => job[v].call.feats \cap c.feats = {}
    BY DEF MayBegin
  <2> QED
    BY <1>2, <1>3, <2>1, <2>2 DEF TInv, Apart
<1>10. Lagging'
  <2>1. ASSUME NEW x \in {lake'} \cup {job'[v].start : v \in Writers},
               NEW r \in x.fmeta
        PROVE  r.version + 1 < calls'
    <3>1. CASE x \in {lake} \cup {job[v].start : v \in Writers}
      <4>1. IsLake(x)
        BY <1>1, <3>1 DEF TInv, JobOK, SnapshotOK
      <4> QED
        BY <1>4, <2>1, <4>1
    <3>2. CASE x = job'[w].start
      BY <1>2, <1>3, <2>1, <3>2 DEF EmptyLake
    <3> QED
      BY <1>1, <1>3, <3>1, <3>2
  <2>2. ASSUME NEW v \in Writers \ {w}, At(v, "fmeta")',
               NEW x \in {lake'} \cup {job'[u].start : u \in Writers},
               NEW r \in x.fmeta, r.feature \in job'[v].call.feats
        PROVE  r.version + 1 < job'[v].tx
    <3>1. At(v, "fmeta") /\ job'[v] = job[v]
      BY <1>3, <2>2 DEF At
    <3>2. CASE x \in {lake} \cup {job[u].start : u \in Writers}
      BY <2>2, <3>1, <3>2 DEF TInv, Lagging
    <3>3. CASE x = job'[w].start
      BY <1>2, <1>3, <2>2, <3>3 DEF EmptyLake
    <3> QED
      BY <1>1, <1>3, <2>2, <3>2, <3>3
  <2> QED
    BY <1>2, <1>3, <2>1, <2>2 DEF Lagging
<1> QED
  BY <1>1, <1>5, <1>6, <1>7, <1>8, <1>9, <1>10 DEF TInv

\* Every step keeps the invariant.
LEMMA TInvNext == TInv /\ [Next]_vars => TInv'
<1> SUFFICES ASSUME TInv, [Next]_vars PROVE TInv'
  OBVIOUS
<1>1. CASE UNCHANGED vars
  <2>1. UNCHANGED <<lake, log, job, calls, faults>>
    BY <1>1 DEF vars
  <2>2. ASSUME NEW w \in Writers PROVE JobOK(w)'
    <3>1. JobOK(w) /\ calls \in Nat
      BY DEF TInv, LogOK
    <3>2. JobShape(job[w])'
      BY <2>1, <3>1 DEF JobOK, JobShape
    <3>3. /\ At(w, "idle") => At(w, "idle")'
          /\ Reading(w)' => Reading(w) /\ job'[w].left = job[w].left
      BY <2>1 DEF At, Reading
    <3>4. \A t \in DOMAIN job[w].tasks : job[w].tasks[t] \in TaskStates
      BY <3>1 DEF JobOK, TasksOK
    <3>5. job[w].left \subseteq {r.addr : r \in job[w].start.fmeta}
      BY <3>1 DEF JobOK
    <3> QED
      BY <2>1, <3>1, <3>2, <3>3, <3>4, <3>5, JobKept
  <2>3. IsLake(lake)' /\ LogOK' /\ Apart' /\ Lagging'
    BY <2>1 DEF TInv, IsLake, LogOK, Apart, Lagging, Settled, InFlight, In, At
  <2> QED
    BY <2>1, <2>2, <2>3 DEF TInv
<1>2. ASSUME NEW w \in Writers,
             \/ /\ Settled(w) /\ calls < MaxCalls
                /\ \E c \in Now!Call : MayBegin(w, c) /\ Begin(w, c)
             \/ Driver(w) \/ Worker(w) \/ Failure(w) \/ Recover(w)
      PROVE  TInv'
  <2> DEFINE j == job[w]
  <2>1. /\ JobOK(w) /\ DOMAIN job = Writers /\ IsLake(lake)
        /\ DOMAIN j = {"pc", "tx", "call", "index", "fmeta", "tmeta", "start", "tasks",
                       "step", "left"}
        /\ j.step \in {"index", "tmeta", "fmeta", "data"}
        /\ j.left \in SUBSET {r.addr : r \in j.start.fmeta}
    BY DEF TInv, JobOK, JobShape
  <2>2. ASSUME UNCHANGED <<lake, calls>> PROVE IsLake(lake)'
    BY <2>1, <2>2 DEF IsLake
  <2>3. ASSUME UNCHANGED <<log, calls>> PROVE LogOK'
    BY <2>3 DEF TInv, LogOK
  <2>4. CASE \E c \in Now!Call :
               Settled(w) /\ calls < MaxCalls /\ MayBegin(w, c) /\ Begin(w, c)
    BY <2>4, BeginKeeps
  <2>5. CASE ReadFeatureMetadata(w) \/ ReadTableMetadata(w) \/ StartTransaction(w)
    BY <2>5, ReadsKeep
  <2>6. CASE \/ RestoreSystemTable(w)
             \/ \E a \in j.left : RestoreDataTable(w, a)
    BY <2>6, RestoreKeeps
  <2>7. ASSUME NEW pc \in {"raised", "waiting", "ended", "idle"},
               ~ At(w, "idle"), Goto(w, pc), UNCHANGED <<lake, calls>>, LogOK'
        PROVE  TInv'
    <3>1. job' = [job EXCEPT ![w].pc = pc, ![w].step = j.step, ![w].left = j.left]
      BY <2>1, <2>7 DEF Goto
    <3>2. ~ Settled(w) /\ j.pc # "idle" /\ pc \in PCs \ {"fmeta", "tmeta", "start"}
      BY <2>7 DEF Settled, At, PCs
    <3> QED
      BY <2>1, <2>2, <2>7, <3>1, <3>2, Moves
  <2>8. CASE Raise(w) \/ LogFailed(w) \/ LogRolledBack(w) \/ Recovered(w)
             \/ SuccessLogFails(w) \/ LogFailedFails(w) \/ LogRolledBackFails(w)
             \/ RestoreFails(w) \/ Interrupt(w)
    <3>1. ~ At(w, "idle")
      BY <2>8 DEF Raise, LogFailed, LogRolledBack, Recovered, SuccessLogFails,
         LogFailedFails, LogRolledBackFails, RestoreFails, Interrupt, BodyReturns,
         Restored, Restoring, At
    <3>2. j.tx # 0
      BY <2>1, <3>1 DEF JobOK
    <3>3. /\ UNCHANGED <<lake, calls>>
          /\ \E pc \in {"raised", "waiting", "ended", "idle"} : Goto(w, pc)
          /\ UNCHANGED log \/ \E status \in Statuses : Logged(w, status)
      BY <2>8 DEF Raise, LogFailed, LogRolledBack, Recovered, SuccessLogFails,
         LogFailedFails, LogRolledBackFails, RestoreFails, Interrupt, Statuses
    <3>4. LogOK'
      BY <2>3, <3>2, <3>3, LogStays
    <3> QED
      BY <2>7, <3>1, <3>3, <3>4
  <2>9. CASE Wait(w) \/ Recover(w)
    <3>1. PICK pc \in {"restoring", "recovering"} :
            job' = [job EXCEPT ![w].pc = pc, ![w].step = "index", ![w].left = j.left]
      BY <2>1, <2>9 DEF Wait, Recover
    <3>2. /\ ~ Settled(w) /\ j.pc # "idle" /\ UNCHANGED <<lake, log, calls>>
          /\ pc \in PCs \ {"fmeta", "tmeta", "start"}
      BY <2>9 DEF Wait, Recover, Settled, At, PCs
    <3> QED
      BY <2>1, <2>2, <2>3, <3>1, <3>2, Moves
  <2>10. CASE Succeed(w) \/ StartFails(w) \/ (Crash(w) /\ log[j.tx] = << >>)
    <3>1. ~ At(w, "idle")
      BY <2>10 DEF Succeed, StartFails, Crash, BodyReturns, At
    <3>2. j.tx # 0
      BY <2>1, <3>1 DEF JobOK
    <3>3. /\ UNCHANGED <<lake, calls>> /\ job' = [job EXCEPT ![w] = NoJob]
          /\ UNCHANGED log \/ \E status \in Statuses : Logged(w, status)
      BY <2>10 DEF Succeed, StartFails, Crash, Statuses
    <3>4. LogOK'
      BY <2>3, <3>2, <3>3, LogStays
    <3> QED
      BY <3>3, <3>4, Ends
  <2>11. CASE Crash(w) /\ log[j.tx] # << >>
    <3>1. /\ job' = [job EXCEPT ![w] = [j EXCEPT !.pc = "ended", !.tasks = << >>]]
          /\ UNCHANGED <<lake, log, calls>> /\ ~ Settled(w) /\ ~ At(w, "idle")
      BY <2>11 DEF Crash, Settled
    <3>2. /\ job'[w].tx = j.tx /\ job'[w].call = j.call
          /\ job'[w].index = j.index /\ job'[w].fmeta = j.fmeta
          /\ job'[w].tmeta = j.tmeta /\ job'[w].start = j.start
          /\ job'[w].tasks = << >> /\ job'[w].left = j.left
          /\ job'[w].pc = "ended" /\ job'[w].step = j.step
          /\ DOMAIN job'[w] = DOMAIN j
          /\ job' = [job EXCEPT ![w] = job'[w]]
      BY <2>1, <3>1
    <3>3. JobShape(job[w])'
      BY <2>1, <3>2 DEF JobShape, PCs
    <3>4. DOMAIN job'[w].tasks = {} /\ calls \in Nat
      BY <3>2 DEF TInv, LogOK
    <3>5. JobOK(w)'
      BY <2>1, <3>1, <3>2, <3>3, <3>4, JobKept DEF At, Reading
    <3> QED
      BY <2>2, <2>3, <3>1, <3>2, <3>5, StepOfOne DEF At
  <2>12. CASE \E t \in DOMAIN j.tasks :
                Submit(w, t) \/ InheritFailure(w, t) \/ TaskFails(w, t)
    <3>1. PICK t \in DOMAIN j.tasks :
            Submit(w, t) \/ InheritFailure(w, t) \/ TaskFails(w, t)
      BY <2>12
    <3>2. /\ ~ Settled(w) /\ UNCHANGED <<lake, log, calls>>
          /\ \E state \in {"sent", "failed"} : job' = [job EXCEPT ![w].tasks[t] = state]
      BY <3>1 DEF Submit, InheritFailure, TaskFails, Settled, At
    <3> QED
      BY <2>2, <3>2, TaskMoves DEF TaskStates
  <2>13. CASE \E t \in DOMAIN j.tasks : Run(w, t)
    <3>1. PICK t \in DOMAIN j.tasks : Run(w, t)
      BY <2>13
    <3>2. ~ Settled(w)
      BY <3>1 DEF Run, Settled, InFlight, In
    <3> QED
      BY <3>1, <3>2, Commits, TaskMoves DEF Run, TaskStates
  <2>14. CASE \E t \in DOMAIN j.tasks : Freeze(w, t)
    <3>1. PICK t \in DOMAIN j.tasks : Freeze(w, t)
      BY <2>14
    <3>2. ~ Settled(w)
      BY <3>1 DEF Freeze, Settled, InFlight, In
    <3>3. t.addr \in DOMAIN lake.rows
      <4>1. /\ DOMAIN j.tasks = Tasks(w) /\ j.tx \in 1 .. MaxCalls /\ j.call \in Now!Call
            /\ j.fmeta \subseteq Now!FeatureRow
            /\ \A r \in j.fmeta : r.addr \in DOMAIN lake.rows
        BY <2>1, <3>1, MaxCallsAssumption DEF JobOK, TasksOK, SnapshotOK, TInv, LogOK
      <4>2. t.addr \in Seen(w)!Targets(j.call) /\ t.addr # NoAddr
        BY <3>1 DEF Freeze, IsCopy, Seen!Copies, Seen!Old
      <4> QED
        BY <4>1, <4>2, SeenHome
    <3>4. /\ t.addr \in Now!Addrs /\ lake.rows[t.addr] \in [Keys -> Nat]
      BY <2>1, <3>3 DEF IsLake
    <3>5. \E table \in [Keys -> Nat] : lake' = Put(table, t.addr)
      BY <3>1, <3>4, BagsOfKeys DEF Freeze
    <3>6. /\ IsLake(lake)' /\ DOMAIN lake.rows \subseteq DOMAIN lake'.rows
          /\ lake'.fmeta = lake.fmeta
      BY <2>1, <3>1, <3>4, <3>5, PutTable DEF Freeze
    <3> QED
      BY <3>1, <3>2, <3>6, TaskMoves DEF Freeze, TaskStates
  <2> QED
    BY <1>2, <2>4, <2>5, <2>6, <2>8, <2>9, <2>10, <2>11, <2>12, <2>13, <2>14
       DEF Driver, Worker, Failure
<1> QED
  BY <1>1, <1>2 DEF Next

\* Whatever the writers, their interleaving and the faults, the tables stay bags
\* of keys, with the metadata of tables that exist, and the log has the statuses
\* of each call.
THEOREM TransactionTypes == Spec => []TypeOK
<1>1. Spec => []TInv
  BY TInvInit, TInvNext, PTL DEF Spec
<1> QED
  BY <1>1, TInvTypes, PTL
=============================================================================
