------------------------- MODULE LakeRollbackProofs -------------------------
(***************************************************************************)
(* One writer at a time, and no Ray submission that fails: whatever else   *)
(* fails, crashes or is interrupted, locally or on Ray, nothing of a call  *)
(* runs any more when its rollback starts, and the rollback brings every   *)
(* table back.                                                             *)
(***************************************************************************)
EXTENDS LakeTransactionsProofs

\* What README asks of those who rely on the rollback, and what it cannot
\* survive: a call on Ray that raises while it still submits its tasks.
Sequential == Exclusive /\ "submission" \notin Faults

-----------------------------------------------------------------------------
(* The inductive invariant. *)

\* One call is underway, and no two writers made the same one.
OneAtATime ==
  /\ \A v, w \in Underway : v = w
  /\ \A v, w \in Writers : job[v].tx = job[w].tx /\ job[v].tx # 0 => v = w

\* The call underway is the last in the log, pending or failed once it writes.
Pending(w) ==
  w \in Underway =>
    /\ job[w].tx = calls
    /\ IF Reading(w) THEN log[calls] = << >>
       ELSE log[calls] # << >> /\ LastStatus(w) # "rolled_back"

\* The order of tasks: a local writer has one at a time; metadata comes after
\* the updates; and nothing is in flight when a restore begins.
Ordered(w) ==
  /\ At(w, "idle") \/ Restoring(w) => InFlight(w) = {}
  /\ job[w].pc \in {"raised", "waiting"} => In(w, {"unsent"}) = {} \/ InFlight(w) = {}
  /\ w \notin RayWriters => \A t, u \in In(w, {"sent", "frozen", "failed"}) : t = u
  /\ \A t \in In(w, {"done"}) : Awaited(w, t) \subseteq In(w, {"done"})
  /\ \A t \in In(w, {"failed"}) :
       t.kind # "update" => Awaited(w, t) \subseteq In(w, {"done", "failed"})

\* What a restore has brought back so far.
Progress(w) ==
  LET j == job[w] IN
  Restoring(w) =>
    /\ j.step # "index" => lake.index = j.start.index
    /\ j.step \in {"fmeta", "data"} => lake.tmeta = j.start.tmeta
    /\ j.step = "data" =>
         /\ lake.fmeta = j.start.fmeta
         /\ \A r \in j.start.fmeta :
              r.addr \in j.left \/ lake.rows[r.addr] = j.start.rows[r.addr]

SeqInv ==
  /\ OneAtATime
  /\ \A w \in Writers : Pending(w) /\ Ordered(w) /\ Progress(w)
  /\ RolledBackIsRestored

-----------------------------------------------------------------------------
(* The order of things. *)

\* It holds before the first call.
LEMMA SeqInvInit == Init => SeqInv
<1> SUFFICES ASSUME Init PROVE SeqInv
  OBVIOUS
<1>1. \A w \in Writers : job[w].pc = "idle" /\ job[w].tx = 0 /\ DOMAIN job[w].tasks = {}
  BY DEF Init, NoJob
<1>2. Underway = {} /\ \A w \in Writers : ~ Reading(w) /\ ~ Restoring(w)
  BY <1>1 DEF Underway, At, Reading, Restoring
<1>3. \A w \in Writers : \A S : In(w, S) = {}
  BY <1>1 DEF In
<1>4. DOMAIN log = {} /\ log = << >>
  BY DEF Init
<1> QED
  BY <1>1, <1>2, <1>3, <1>4
     DEF SeqInv, OneAtATime, Pending, Ordered, Progress, InFlight, RolledBackIsRestored,
         RolledBack

\* Who takes a step other than the beginning of a call is the call underway;
\* the other writers are idle, and nothing of theirs runs.
LEMMA OnlyActor ==
  ASSUME TInv, SeqInv, NEW w \in Writers,
         Driver(w) \/ Worker(w) \/ Failure(w) \/ Recover(w)
  PROVE  /\ w \in Underway
         /\ \A v \in Writers \ {w} : At(v, "idle") /\ job'[v] = job[v]
         /\ calls' = calls
<1>1. DOMAIN job = Writers /\ JobOK(w)
  BY DEF TInv
<1>2. w \in Underway
  <2>1. CASE Worker(w) \/ \E t \in DOMAIN job[w].tasks : TaskFails(w, t)
    <3>1. InFlight(w) # {}
      BY <2>1 DEF Worker, Freeze, Run, InheritFailure, TaskFails, InFlight, In
    <3> QED
      BY <3>1 DEF SeqInv, Ordered, Underway
  <2>2. CASE \/ Driver(w) \/ Recover(w)
             \/ Failure(w) /\ ~ \E t \in DOMAIN job[w].tasks : TaskFails(w, t)
    <3>1. CASE \E a \in job[w].left : RestoreDataTable(w, a)
      BY <3>1 DEF RestoreDataTable, Restoring, Underway, At
    <3>2. CASE ~ \E a \in job[w].left : RestoreDataTable(w, a)
      BY <2>2, <3>2 DEF Driver, Recover, Failure, ReadFeatureMetadata, ReadTableMetadata,
         StartTransaction, Submit, Succeed, Raise, LogFailed, Wait, LogRolledBack,
         RestoreSystemTable, Recovered, StartFails, SuccessLogFails, LogFailedFails,
         LogRolledBackFails, RestoreFails, Interrupt, Crash, BodyReturns, Restored,
         Restoring, Underway, At
    <3> QED
      BY <3>1, <3>2
  <2> QED
    BY <2>1, <2>2 DEF Failure
<1>3. \A v \in Writers \ {w} : At(v, "idle")
  BY <1>2 DEF SeqInv, OneAtATime, Underway
<1>4. calls' = calls /\ \A v \in Writers \ {w} : job'[v] = job[v]
  BY <1>1 DEF Driver, Worker, Recover, Failure, ReadFeatureMetadata, ReadTableMetadata,
     StartTransaction, Submit, Succeed, Raise, LogFailed, Wait, LogRolledBack, Goto,
     RestoreSystemTable, RestoreDataTable, Recovered, StartFails, SuccessLogFails,
     LogFailedFails, LogRolledBackFails, RestoreFails, Interrupt, Crash, TaskFails,
     Freeze, Run, InheritFailure
<1> QED
  BY <1>2, <1>3, <1>4

\* What is left to show of such a step is about the writer that takes it.
LEMMA ActorDecides ==
  ASSUME TInv, SeqInv, NEW w \in Underway,
         \A v \in Writers \ {w} : At(v, "idle") /\ job'[v] = job[v],
         calls' = calls, DOMAIN log' = DOMAIN log,
         job'[w].tx \in {0, job[w].tx},
         Pending(w)', Ordered(w)', Progress(w)',
         RolledBack(w)' =>
           /\ lake'.index = job'[w].start.index
           /\ lake'.tmeta = job'[w].start.tmeta
           /\ lake'.fmeta = job'[w].start.fmeta
           /\ \A r \in lake'.fmeta : lake'.rows[r.addr] = job'[w].start.rows[r.addr]
  PROVE  SeqInv'
<1>1. w \in Writers /\ JobOK(w) /\ ~ At(w, "idle") /\ job[w].tx # 0 /\ job[w].tx = calls
  BY DEF TInv, Underway, JobOK, SeqInv, Pending
<1>2. \A v \in Writers \ {w} : At(v, "idle")'
  BY DEF At
<1>3. OneAtATime'
  <2>1. \A u, v \in Underway' : u = v
    BY <1>2 DEF Underway, At
  <2>2. \A u, v \in Writers : job'[u].tx = job'[v].tx /\ job'[u].tx # 0 => u = v
    BY <1>1 DEF SeqInv, OneAtATime
  <2> QED
    BY <2>1, <2>2 DEF OneAtATime
<1>4. ASSUME NEW v \in Writers \ {w} PROVE Pending(v)' /\ Ordered(v)' /\ Progress(v)'
  <2>1. v \notin Underway' /\ ~ Restoring(v)'
    BY <1>2, <1>4 DEF Underway, Restoring, At
  <2>2. Ordered(v)'
    BY <1>4 DEF SeqInv, Ordered, In, InFlight, Awaited, At, Restoring
  <2> QED
    BY <2>1, <2>2 DEF Pending, Progress
<1>5. RolledBackIsRestored'
  <2>1. ASSUME NEW v \in Writers, RolledBack(v)' PROVE v = w
    <3>1. job'[v].tx = calls
      BY <2>1 DEF RolledBack
    <3> QED
      BY <1>1, <2>1, <3>1 DEF SeqInv, OneAtATime
  <2> QED
    BY <2>1 DEF RolledBackIsRestored
<1> QED
  BY <1>3, <1>4, <1>5 DEF SeqInv

\* Steps that end a call with nothing of it left to recover.
LEMMA EndsInOrder ==
  ASSUME TInv, SeqInv, NEW w \in Underway,
         \A v \in Writers \ {w} : At(v, "idle") /\ job'[v] = job[v],
         calls' = calls, DOMAIN log' = DOMAIN log, job' = [job EXCEPT ![w] = NoJob]
  PROVE  SeqInv'
<1>1. job'[w] = NoJob /\ DOMAIN log = 1 .. calls /\ calls \in Nat
  BY DEF TInv, Underway, LogOK
<1>2. job'[w].tx = 0 /\ job'[w].pc = "idle" /\ DOMAIN job'[w].tasks = {}
  BY <1>1 DEF NoJob
<1>3. w \notin Underway' /\ ~ Restoring(w)' /\ ~ RolledBack(w)'
  BY <1>1, <1>2 DEF Underway, Restoring, RolledBack, At
<1>4. Ordered(w)'
  BY <1>2 DEF Ordered, In, InFlight, At
<1> QED
  BY <1>2, <1>3, <1>4, ActorDecides DEF Pending, Progress

\* Steps that only move w along, and not to "idle".
LEMMA MovesInOrder ==
  ASSUME TInv, SeqInv, NEW w \in Underway,
         \A v \in Writers \ {w} : At(v, "idle") /\ job'[v] = job[v],
         calls' = calls, ~ Reading(w),
         NEW pc, NEW step, NEW left,
         job' = [job EXCEPT ![w].pc = pc, ![w].step = step, ![w].left = left],
         pc \notin {"idle", "fmeta", "tmeta", "start"},
         log' = log \/ Logged(w, "failed"),
         pc \in {"raised", "waiting"} => In(w, {"unsent"}) = {} \/ InFlight(w) = {},
         pc \in {"restoring", "recovering"} => InFlight(w) = {},
         Progress(w)'
  PROVE  SeqInv'
<1>1. /\ w \in Writers /\ JobOK(w) /\ DOMAIN job = Writers
      /\ DOMAIN log = 1 .. calls /\ calls \in Nat /\ job[w].tx = calls /\ calls \in DOMAIN log
      /\ log[calls] # << >> /\ LastStatus(w) # "rolled_back" /\ log[calls] \in Seq(Statuses)
  BY DEF TInv, LogOK, Underway, JobOK, SnapshotOK, SeqInv, Pending
<1>2. DOMAIN job[w] = {"pc", "tx", "call", "index", "fmeta", "tmeta", "start", "tasks",
                       "step", "left"}
  BY <1>1 DEF JobOK, JobShape
<1>3. /\ job'[w].pc = pc /\ job'[w].tx = job[w].tx /\ job'[w].tasks = job[w].tasks
  BY <1>1, <1>2
<1>4. ~ Reading(w)' /\ ~ At(w, "idle")' /\ ~ RolledBack(w)'
  BY <1>3 DEF Reading, At, RolledBack
<1>5. /\ DOMAIN log' = DOMAIN log /\ log'[calls] # << >>
      /\ log'[calls][Len(log'[calls])] # "rolled_back"
  <2>1. CASE log' = log
    BY <1>1, <2>1 DEF LastStatus
  <2>2. CASE Logged(w, "failed")
    <3>1. DOMAIN log' = DOMAIN log /\ log'[calls] = Append(log[calls], "failed")
      BY <1>1, <2>2 DEF Logged
    <3>2. /\ Append(log[calls], "failed") # << >>
          /\ Append(log[calls], "failed")[Len(Append(log[calls], "failed"))] = "failed"
      BY <1>1 DEF Statuses
    <3> QED
      BY <3>1, <3>2
  <2> QED
    BY <2>1, <2>2
<1>6. Pending(w)'
  BY <1>1, <1>3, <1>4, <1>5 DEF Pending, LastStatus
<1>7. /\ \A S : In(w, S)' = In(w, S)
      /\ InFlight(w)' = InFlight(w)
      /\ \A t : Awaited(w, t)' = Awaited(w, t)
  BY <1>3 DEF In, InFlight, Awaited
<1>8. Ordered(w)'
  <2>1. Ordered(w)
    BY <1>1 DEF SeqInv
  <2>2. Restoring(w)' => pc \in {"restoring", "recovering"}
    BY <1>3 DEF Restoring
  <2>3. /\ In(w, {"unsent"})' = In(w, {"unsent"}) /\ In(w, {"done"})' = In(w, {"done"})
        /\ In(w, {"failed"})' = In(w, {"failed"})
        /\ In(w, {"done", "failed"})' = In(w, {"done", "failed"})
        /\ In(w, {"sent", "frozen", "failed"})' = In(w, {"sent", "frozen", "failed"})
    BY <1>7
  <2>4. /\ At(w, "idle")' \/ Restoring(w)' => InFlight(w)' = {}
        /\ job'[w].pc \in {"raised", "waiting"} =>
             In(w, {"unsent"})' = {} \/ InFlight(w)' = {}
    BY <1>3, <1>4, <1>7, <2>2, <2>3
  <2>5. /\ w \notin RayWriters => \A t, u \in In(w, {"sent", "frozen", "failed"})' : t = u
        /\ \A t \in In(w, {"done"})' : Awaited(w, t)' \subseteq In(w, {"done"})'
        /\ \A t \in In(w, {"failed"})' :
             t.kind # "update" => Awaited(w, t)' \subseteq In(w, {"done", "failed"})'
    BY <1>7, <2>1, <2>3 DEF Ordered
  <2> QED
    BY <2>4, <2>5 DEF Ordered
<1> QED
  BY <1>3, <1>4, <1>5, <1>6, <1>8, ActorDecides

\* Steps that change the state of one task.
LEMMA TasksInOrder ==
  ASSUME TInv, SeqInv, NEW w \in Underway,
         \A v \in Writers \ {w} : At(v, "idle") /\ job'[v] = job[v],
         UNCHANGED <<calls, log>>,
         NEW t \in DOMAIN job[w].tasks, NEW state \in {"sent", "frozen", "done", "failed"},
         job' = [job EXCEPT ![w].tasks[t] = state],
         \/ /\ state = "sent" /\ At(w, "body") /\ t \in In(w, {"unsent"})
            /\ w \in RayWriters \/ In(w, {"sent", "frozen", "failed"}) = {}
         \/ state # "sent" /\ t \in InFlight(w),
         state = "done" => Awaited(w, t) \subseteq In(w, {"done"}),
         state = "failed" => Awaited(w, t) \subseteq In(w, {"done", "failed"})
  PROVE  SeqInv'
<1>1. /\ w \in Writers /\ JobOK(w) /\ DOMAIN job = Writers /\ ~ At(w, "idle")
      /\ Ordered(w) /\ Pending(w)
  BY DEF TInv, Underway, SeqInv
<1>2. DOMAIN job[w] = {"pc", "tx", "call", "index", "fmeta", "tmeta", "start", "tasks",
                       "step", "left"}
  BY <1>1 DEF JobOK, JobShape
<1>3. /\ job'[w].tx = job[w].tx /\ job'[w].pc = job[w].pc
      /\ job'[w].tasks = [job[w].tasks EXCEPT ![t] = state]
  BY <1>1, <1>2
<1>4. ~ Restoring(w) /\ ~ Reading(w)
  BY <1>1 DEF Ordered, Restoring, At, InFlight, In, JobOK, Reading
<1>5. ~ Restoring(w)' /\ ~ Reading(w)' /\ ~ At(w, "idle")' /\ ~ RolledBack(w)'
  BY <1>1, <1>3, <1>4 DEF Restoring, Reading, At, RolledBack
<1>6. Pending(w)'
  BY <1>1, <1>3, <1>4, <1>5 DEF Pending, LastStatus
<1>7. /\ DOMAIN job'[w].tasks = DOMAIN job[w].tasks
      /\ job'[w].tasks[t] = state
      /\ \A u \in DOMAIN job[w].tasks \ {t} : job'[w].tasks[u] = job[w].tasks[u]
      /\ job[w].tasks[t] \in {"unsent", "sent", "frozen"}
      /\ job[w].tasks[t] = "unsent" <=> state = "sent"
      /\ \A u : Awaited(w, u)' = Awaited(w, u)
  <2>1. /\ DOMAIN job'[w].tasks = DOMAIN job[w].tasks
        /\ job'[w].tasks[t] = state
        /\ \A u \in DOMAIN job[w].tasks \ {t} : job'[w].tasks[u] = job[w].tasks[u]
    BY <1>3
  <2>2. /\ job[w].tasks[t] \in {"unsent", "sent", "frozen"}
        /\ job[w].tasks[t] = "unsent" <=> state = "sent"
    BY DEF In, InFlight
  <2> QED
    BY <2>1, <2>2 DEF Awaited
<1>8. /\ In(w, {"unsent"})' \subseteq In(w, {"unsent"})
      /\ In(w, {"done"}) \subseteq In(w, {"done"})'
      /\ In(w, {"done"})' \subseteq In(w, {"done"}) \cup {t}
      /\ In(w, {"failed"})' \subseteq In(w, {"failed"}) \cup {t}
      /\ In(w, {"done", "failed"}) \subseteq In(w, {"done", "failed"})'
      /\ In(w, {"sent", "frozen", "failed"})' \subseteq
           In(w, {"sent", "frozen", "failed"}) \cup {t}
      /\ t \in In(w, {"done"})' => state = "done"
      /\ t \in In(w, {"failed"})' => state = "failed"
      /\ state # "sent" => t \in In(w, {"sent", "frozen", "failed"})
  BY <1>7 DEF In
<1>9. /\ job'[w].pc \in {"raised", "waiting"} => In(w, {"unsent"})' = {}
  BY <1>1, <1>3, <1>8 DEF Ordered, At
<1>10. w \notin RayWriters => \A x, y \in In(w, {"sent", "frozen", "failed"})' : x = y
  BY <1>1, <1>8 DEF Ordered
<1>11. /\ \A x \in In(w, {"done"})' : Awaited(w, x)' \subseteq In(w, {"done"})'
       /\ \A x \in In(w, {"failed"})' :
            x.kind # "update" => Awaited(w, x)' \subseteq In(w, {"done", "failed"})'
  BY <1>1, <1>7, <1>8 DEF Ordered
<1>12. Ordered(w)'
  BY <1>5, <1>9, <1>10, <1>11 DEF Ordered
<1> QED
  BY <1>3, <1>5, <1>6, <1>12, ActorDecides DEF Progress

\* A restore begins with nothing in flight: if every task has been submitted, refs
\* has the metadata tasks, and these wait for the updates, which refs has not.
LEMMA WaitWaitsForAll ==
  ASSUME TInv, SeqInv, NEW w \in Writers, Wait(w)
  PROVE  InFlight(w) = {}
<1>1. /\ JobOK(w) /\ Ordered(w) /\ Refs(w) \cap InFlight(w) = {}
      /\ In(w, {"unsent"}) = {} \/ InFlight(w) = {}
  BY DEF TInv, SeqInv, Wait, Ordered, At
<1> SUFFICES ASSUME In(w, {"unsent"}) = {}, NEW t \in InFlight(w) PROVE FALSE
  BY <1>1
<1>2. t \in DOMAIN job[w].tasks /\ DOMAIN job[w].tasks = Tasks(w)
  BY <1>1 DEF InFlight, In, JobOK, TasksOK
<1>3. Refs(w) = {u \in DOMAIN job[w].tasks : u.kind # "update"}
  BY DEF Refs
<1>4. t.kind = "update"
  BY <1>1, <1>2, <1>3
<1> DEFINE m == Task("tmeta", NoAddr, 0)
<1>5. Seen(w)!Targets(job[w].call) # {}
  BY <1>2, <1>4 DEF Tasks, AlignTasks, Task
<1>6. m \in DOMAIN job[w].tasks /\ m.kind = "tmeta"
  BY <1>2, <1>5 DEF Tasks, Task
<1>7. m \in Refs(w)
  BY <1>3, <1>6
<1>8. job[w].tasks[m] \in {"done", "failed"}
  BY <1>1, <1>6, <1>7 DEF InFlight, In, JobOK, TasksOK, TaskStates
<1>9. t \in Awaited(w, m)
  BY <1>2, <1>4, <1>6 DEF Awaited
<1>10. t \in In(w, {"done", "failed"})
  BY <1>1, <1>6, <1>8, <1>9 DEF Ordered, In
<1> QED
  BY <1>10 DEF In, InFlight

\* Each step of a restore brings back one table more.
LEMMA RestoresInOrder ==
  ASSUME TInv, SeqInv, NEW w \in Underway,
         RestoreSystemTable(w) \/ \E a \in job[w].left : RestoreDataTable(w, a)
  PROVE  /\ Progress(w)'
         /\ \E step, left :
              job' = [job EXCEPT ![w].pc = job[w].pc, ![w].step = step, ![w].left = left]
<1> DEFINE j == job[w]
<1>1. /\ w \in Writers /\ JobOK(w) /\ DOMAIN job = Writers
      /\ IsLake(lake) /\ IsLake(j.start)
      /\ DOMAIN j.start.rows \subseteq DOMAIN lake.rows
      /\ Progress(w) /\ Restoring(w)
  BY DEF TInv, Underway, SeqInv, JobOK, SnapshotOK, RestoreSystemTable, RestoreDataTable
<1>2. /\ DOMAIN j = {"pc", "tx", "call", "index", "fmeta", "tmeta", "start", "tasks",
                     "step", "left"}
      /\ DOMAIN lake = {"index", "rows", "tmeta", "fmeta"}
      /\ j.step \in {"index", "tmeta", "fmeta", "data"}
  BY <1>1 DEF JobOK, JobShape, IsLake
<1>3. CASE RestoreSystemTable(w)
  <2> DEFINE step == StepAfter[j.step]
             left == IF j.step = "fmeta" THEN {r.addr : r \in j.start.fmeta} ELSE {}
  <2>1. job' = [job EXCEPT ![w].pc = j.pc, ![w].step = step, ![w].left = left]
    BY <1>1, <1>2, <1>3 DEF RestoreSystemTable
  <2>2. job'[w].start = j.start /\ job'[w].step = step /\ job'[w].left = left
    BY <1>1, <1>2, <2>1
  <2>3. lake' = [lake EXCEPT ![j.step] = j.start[j.step]] /\ j.step # "data"
    BY <1>3 DEF RestoreSystemTable
  <2>4. Progress(w)'
    <3>1. CASE j.step = "index"
      <4>1. lake'.index = j.start.index /\ step = "tmeta"
        BY <1>2, <2>3, <3>1 DEF StepAfter
      <4> QED
        BY <2>2, <4>1 DEF Progress
    <3>2. CASE j.step = "tmeta"
      <4>1. lake'.index = lake.index /\ lake'.tmeta = j.start.tmeta /\ step = "fmeta"
        BY <1>2, <2>3, <3>2 DEF StepAfter
      <4> QED
        BY <1>1, <2>2, <3>2, <4>1 DEF Progress
    <3>3. CASE j.step = "fmeta"
      <4>1. /\ lake'.index = lake.index /\ lake'.tmeta = lake.tmeta
            /\ lake'.fmeta = j.start.fmeta /\ step = "data"
        BY <1>2, <2>3, <3>3 DEF StepAfter
      <4> QED
        BY <1>1, <2>2, <3>3, <4>1 DEF Progress
    <3> QED
      BY <1>2, <2>3, <3>1, <3>2, <3>3
  <2> QED
    BY <2>1, <2>4
<1>4. ASSUME NEW a \in j.left, RestoreDataTable(w, a)
      PROVE  /\ Progress(w)'
             /\ job' = [job EXCEPT ![w].pc = j.pc, ![w].step = j.step, ![w].left = j.left \ {a}]
  <2>1. job' = [job EXCEPT ![w].pc = j.pc, ![w].step = j.step, ![w].left = j.left \ {a}]
    BY <1>1, <1>2, <1>4 DEF RestoreDataTable
  <2>2. /\ job'[w].start = j.start /\ job'[w].step = "data" /\ j.step = "data"
        /\ job'[w].left = j.left \ {a}
    BY <1>1, <1>2, <1>4, <2>1 DEF RestoreDataTable
  <2>3. /\ lake'.index = lake.index /\ lake'.tmeta = lake.tmeta /\ lake'.fmeta = lake.fmeta
        /\ lake'.rows = [b \in DOMAIN lake.rows \cup {a} |->
                           IF b = a THEN j.start.rows[a] ELSE lake.rows[b]]
    BY <1>2, <1>4 DEF RestoreDataTable, Put
  <2>4. \A r \in j.start.fmeta : r.addr \in DOMAIN lake.rows
    BY <1>1 DEF IsLake
  <2>5. \A r \in j.start.fmeta :
          r.addr \in j.left \ {a} \/ lake'.rows[r.addr] = j.start.rows[r.addr]
    BY <1>1, <2>2, <2>3, <2>4 DEF Progress
  <2>6. /\ lake.index = j.start.index /\ lake.tmeta = j.start.tmeta
        /\ lake.fmeta = j.start.fmeta
    BY <1>1, <2>2 DEF Progress
  <2>7. Progress(w)'
    BY <2>2, <2>3, <2>5, <2>6 DEF Progress
  <2> QED
    BY <2>1, <2>7
<1> QED
  BY <1>3, <1>4

\* The rollback ends with every table as it was at started_at.
LEMMA RollbackEnds ==
  ASSUME TInv, SeqInv, NEW w \in Underway,
         \A v \in Writers \ {w} : At(v, "idle") /\ job'[v] = job[v],
         LogRolledBack(w) \/ Recovered(w)
  PROVE  SeqInv'
<1> DEFINE j == job[w]
<1>1. /\ JobOK(w) /\ DOMAIN job = Writers /\ w \in Writers
      /\ Progress(w) /\ Ordered(w) /\ Pending(w) /\ Restored(w) /\ j.tx = calls
      /\ UNCHANGED <<lake, calls>>
  BY DEF TInv, Underway, SeqInv, Pending, LogRolledBack, Recovered
<1>2. DOMAIN j = {"pc", "tx", "call", "index", "fmeta", "tmeta", "start", "tasks",
                  "step", "left"}
  BY <1>1 DEF JobOK, JobShape
<1>3. /\ job'[w].pc = "idle" /\ job'[w].tx = j.tx /\ job'[w].tasks = j.tasks
      /\ job'[w].start = j.start
  BY <1>1, <1>2 DEF LogRolledBack, Recovered, Goto
<1>4. DOMAIN log' = DOMAIN log
  BY DEF LogRolledBack, Recovered, Logged
<1>5. ~ Restoring(w)' /\ w \notin Underway'
  BY <1>3 DEF Restoring, Underway, At
<1>6. Ordered(w)'
  <2>1. InFlight(w)' = {} /\ InFlight(w) = {}
    BY <1>1, <1>3 DEF Restored, Ordered, InFlight, In
  <2>2. job'[w].pc \notin {"raised", "waiting"}
    BY <1>3
  <2>3. /\ \A t : Awaited(w, t)' = Awaited(w, t)
        /\ In(w, {"done"})' = In(w, {"done"}) /\ In(w, {"failed"})' = In(w, {"failed"})
        /\ In(w, {"done", "failed"})' = In(w, {"done", "failed"})
        /\ In(w, {"sent", "frozen", "failed"})' = In(w, {"sent", "frozen", "failed"})
    BY <1>3 DEF In, Awaited
  <2> QED
    BY <1>1, <2>1, <2>2, <2>3 DEF Ordered
<1>7. /\ lake.index = j.start.index /\ lake.tmeta = j.start.tmeta
      /\ lake.fmeta = j.start.fmeta
      /\ \A r \in lake.fmeta : lake.rows[r.addr] = j.start.rows[r.addr]
  BY <1>1 DEF Progress, Restored
<1> QED
  BY <1>1, <1>3, <1>4, <1>5, <1>6, <1>7, ActorDecides DEF Pending, Progress

\* A call reads, and starts its transaction.
LEMMA StartsInOrder ==
  ASSUME TInv, SeqInv, NEW w \in Underway,
         \A v \in Writers \ {w} : At(v, "idle") /\ job'[v] = job[v],
         ReadFeatureMetadata(w) \/ ReadTableMetadata(w) \/ StartTransaction(w)
  PROVE  SeqInv'
<1> DEFINE j == job[w]
<1>1. /\ JobOK(w) /\ DOMAIN job = Writers /\ w \in Writers /\ j.tx = calls
      /\ Pending(w) /\ Reading(w) /\ log[calls] = << >> /\ calls' = calls
      /\ DOMAIN j.tasks = {} /\ DOMAIN log = 1 .. calls /\ calls \in DOMAIN log
  BY DEF TInv, LogOK, Underway, SeqInv, Pending, JobOK, SnapshotOK, Reading, At,
         ReadFeatureMetadata, ReadTableMetadata, StartTransaction
<1>2. DOMAIN j = {"pc", "tx", "call", "index", "fmeta", "tmeta", "start", "tasks",
                  "step", "left"}
  BY <1>1 DEF JobOK, JobShape
<1>3. CASE ReadFeatureMetadata(w) \/ ReadTableMetadata(w)
  <2>1. /\ job'[w].tx = j.tx /\ job'[w].tasks = j.tasks /\ job'[w].pc \in {"tmeta", "start"}
        /\ log' = log
    BY <1>1, <1>2, <1>3 DEF ReadFeatureMetadata, ReadTableMetadata
  <2>2. ~ Restoring(w)' /\ Reading(w)' /\ ~ RolledBack(w)' /\ ~ At(w, "idle")'
    BY <2>1 DEF Restoring, Reading, RolledBack, At
  <2>3. Ordered(w)'
    BY <1>1, <2>1, <2>2 DEF Ordered, In, InFlight
  <2>4. Pending(w)' /\ Progress(w)'
    BY <1>1, <2>1, <2>2 DEF Pending, Progress
  <2> QED
    BY <1>1, <2>1, <2>2, <2>3, <2>4, ActorDecides
<1>4. CASE StartTransaction(w)
  <2>1. /\ job'[w].tx = j.tx /\ job'[w].tasks = [t \in Tasks(w) |-> "unsent"]
        /\ job'[w].pc = "body"
        /\ DOMAIN log' = DOMAIN log /\ log'[calls] = <<"pending">>
    BY <1>1, <1>2, <1>4 DEF StartTransaction, Logged
  <2>2. ~ Restoring(w)' /\ ~ Reading(w)' /\ ~ RolledBack(w)' /\ ~ At(w, "idle")'
    BY <2>1 DEF Restoring, Reading, RolledBack, At
  <2>3. /\ In(w, {"sent", "frozen", "failed"})' = {} /\ In(w, {"done"})' = {}
        /\ In(w, {"failed"})' = {}
    BY <2>1 DEF In
  <2>4. Ordered(w)'
    BY <2>1, <2>2, <2>3 DEF Ordered
  <2>5. Pending(w)' /\ Progress(w)'
    BY <1>1, <2>1, <2>2 DEF Pending, Progress, LastStatus
  <2> QED
    BY <1>1, <2>1, <2>2, <2>4, <2>5, ActorDecides
<1> QED
  BY <1>3, <1>4

\* A call begins when none is underway.
LEMMA BeginsInOrder ==
  ASSUME TInv, SeqInv, Exclusive, NEW w \in Writers, Settled(w), NEW c, MayBegin(w, c),
         Begin(w, c)
  PROVE  SeqInv' /\ Underway = {} /\ Underway' = {w}
<1> DEFINE j == [NoJob EXCEPT !.pc = "fmeta", !.tx = calls', !.call = c,
                              !.index = Present(lake.index)]
<1>1. /\ calls \in Nat /\ calls' = calls + 1 /\ DOMAIN job = Writers
      /\ job' = [job EXCEPT ![w] = j]
      /\ \A v \in Writers : job[v].tx \in 0 .. calls
  BY DEF TInv, LogOK, Begin, JobOK, SnapshotOK
<1>2. j.pc = "fmeta" /\ j.tx = calls' /\ DOMAIN j.tasks = {}
  BY DEF NoJob
<1> HIDE DEF j
<1>3. job'[w] = j /\ \A v \in Writers \ {w} : job'[v] = job[v]
  BY <1>1
<1>4. \A v \in Writers : Settled(v)
  BY DEF MayBegin
<1>5. Underway = {} /\ Underway' = {w}
  BY <1>2, <1>3, <1>4 DEF Underway, Settled, At
<1>6. OneAtATime'
  BY <1>1, <1>2, <1>3, <1>5 DEF OneAtATime, SeqInv
<1>7. log'[calls'] = << >>
  <2>1. calls' \in 1 .. calls'
    BY <1>1
  <2> QED
    BY <2>1 DEF Begin
<1>8. Pending(w)' /\ Ordered(w)' /\ Progress(w)'
  <2>1. Reading(w)' /\ ~ Restoring(w)' /\ ~ At(w, "idle")'
    BY <1>2, <1>3 DEF Reading, Restoring, At
  <2>2. Ordered(w)'
    BY <1>2, <1>3, <2>1 DEF Ordered, In, InFlight, Reading
  <2> QED
    BY <1>2, <1>3, <1>7, <2>1, <2>2 DEF Pending, Progress
<1>9. ASSUME NEW v \in Writers \ {w} PROVE Pending(v)' /\ Ordered(v)' /\ Progress(v)'
  <2>1. v \notin Underway' /\ ~ Restoring(v)'
    BY <1>3, <1>4, <1>5, <1>9 DEF Restoring, Settled, At
  <2>2. Ordered(v)'
    BY <1>3, <1>9 DEF SeqInv, Ordered, In, InFlight, Awaited, At, Restoring
  <2> QED
    BY <2>1, <2>2 DEF Pending, Progress
<1>10. RolledBackIsRestored'
  <2>1. \A v \in Writers : ~ RolledBack(v)'
    BY <1>1, <1>2, <1>3 DEF RolledBack, At
  <2> QED
    BY <2>1 DEF RolledBackIsRestored
<1> QED
  BY <1>5, <1>6, <1>8, <1>9, <1>10 DEF SeqInv

\* Every step keeps it.
LEMMA SeqInvNext ==
  ASSUME Sequential, TInv, TInv', SeqInv, [Next]_vars
  PROVE  SeqInv'
<1>1. CASE UNCHANGED vars
  BY <1>1 DEF vars, SeqInv, OneAtATime, Pending, Ordered, Progress, RolledBackIsRestored,
     Underway, Reading, LastStatus, At, Restoring, InFlight, In, Awaited, RolledBack
<1>2. ASSUME NEW w \in Writers, Settled(w),
             \E c \in Now!Call : MayBegin(w, c) /\ Begin(w, c)
      PROVE  SeqInv'
  BY <1>2, BeginsInOrder DEF Sequential
<1>3. ASSUME NEW w \in Writers,
             Driver(w) \/ Worker(w) \/ Failure(w) \/ Recover(w)
      PROVE  SeqInv'
  <2> DEFINE j == job[w]
  <2>1. /\ w \in Underway /\ calls' = calls
        /\ \A v \in Writers \ {w} : At(v, "idle") /\ job'[v] = job[v]
    BY <1>3, OnlyActor
  <2>2. /\ JobOK(w) /\ DOMAIN job = Writers /\ Ordered(w) /\ Progress(w)
        /\ DOMAIN j = {"pc", "tx", "call", "index", "fmeta", "tmeta", "start", "tasks",
                       "step", "left"}
    BY DEF TInv, SeqInv, JobOK, JobShape
  <2>3. CASE ReadFeatureMetadata(w) \/ ReadTableMetadata(w) \/ StartTransaction(w)
    BY <2>1, <2>3, StartsInOrder
  <2>4. CASE LogRolledBack(w) \/ Recovered(w)
    BY <2>1, <2>4, RollbackEnds
  <2>5. CASE Succeed(w) \/ StartFails(w) \/ (Crash(w) /\ log[j.tx] = << >>)
    <3>1. job' = [job EXCEPT ![w] = NoJob] /\ DOMAIN log' = DOMAIN log
      BY <2>5 DEF Succeed, StartFails, Crash, Logged
    <3> QED
      BY <2>1, <3>1, EndsInOrder
  <2>6. CASE RestoreSystemTable(w) \/ \E a \in j.left : RestoreDataTable(w, a)
    <3>1. PICK step, left :
            job' = [job EXCEPT ![w].pc = j.pc, ![w].step = step, ![w].left = left]
      BY <2>1, <2>6, RestoresInOrder
    <3>2. /\ log' = log /\ Restoring(w) /\ Progress(w)'
      BY <2>1, <2>6, RestoresInOrder DEF RestoreSystemTable, RestoreDataTable
    <3>3. InFlight(w) = {} /\ j.pc \in {"restoring", "recovering"} /\ ~ Reading(w)
      BY <2>2, <3>2 DEF Ordered, Restoring, Reading
    <3> QED
      BY <2>1, <3>1, <3>2, <3>3, MovesInOrder
  <2>7. CASE Wait(w) \/ Recover(w)
    <3>1. InFlight(w) = {}
      BY <2>7, WaitWaitsForAll DEF Recover
    <3>2. PICK pc \in {"restoring", "recovering"} :
            job' = [job EXCEPT ![w].pc = pc, ![w].step = "index", ![w].left = j.left]
      BY <2>2, <2>7 DEF Wait, Recover
    <3>3. log' = log /\ ~ Reading(w) /\ job'[w].step = "index"
      BY <2>2, <2>7, <3>2 DEF Wait, Recover, Reading, At
    <3>4. Progress(w)'
      BY <3>3 DEF Progress
    <3> QED
      BY <2>1, <3>1, <3>2, <3>3, <3>4, MovesInOrder
  <2>8. ASSUME NEW pc \in {"raised", "waiting", "ended"}, Goto(w, pc), ~ Reading(w),
               log' = log \/ Logged(w, "failed"),
               pc # "ended" => In(w, {"unsent"}) = {} \/ InFlight(w) = {}
        PROVE  SeqInv'
    <3>1. job' = [job EXCEPT ![w].pc = pc, ![w].step = j.step, ![w].left = j.left]
      BY <2>2, <2>8 DEF Goto
    <3>2. ~ Restoring(w)'
      BY <2>2, <3>1 DEF Restoring
    <3> QED
      BY <2>1, <2>8, <3>1, <3>2, MovesInOrder DEF Progress
  <2>9. CASE Raise(w) \/ SuccessLogFails(w) \/ Interrupt(w)
    <3>1. In(w, {"unsent"}) = {} \/ InFlight(w) = {}
      <4>1. CASE w \in RayWriters
        BY <2>9, <4>1 DEF Raise, SuccessLogFails, Interrupt, BodyReturns, Fault, Sequential
      <4>2. CASE w \notin RayWriters
        <5>1. In(w, {"failed"}) # {} => InFlight(w) = {}
          BY <2>2, <4>2 DEF Ordered, In, InFlight
        <5> QED
          BY <2>9, <4>2, <5>1 DEF Raise, SuccessLogFails, Interrupt, BodyReturns
      <4> QED
        BY <4>1, <4>2
    <3>2. Goto(w, "raised") /\ ~ Reading(w) /\ log' = log
      BY <2>9 DEF Raise, SuccessLogFails, Interrupt, BodyReturns, Reading, At
    <3> QED
      BY <2>8, <3>1, <3>2
  <2>10. CASE LogFailed(w)
    <3>1. /\ In(w, {"unsent"}) = {} \/ InFlight(w) = {}
          /\ Goto(w, "waiting") /\ ~ Reading(w) /\ Logged(w, "failed")
      BY <2>2, <2>10 DEF LogFailed, Ordered, Reading, At
    <3> QED
      BY <2>8, <3>1
  <2>11. CASE LogFailedFails(w) \/ LogRolledBackFails(w) \/ RestoreFails(w)
    <3>1. Goto(w, "ended") /\ ~ Reading(w) /\ log' = log
      BY <2>11 DEF LogFailedFails, LogRolledBackFails, RestoreFails, Reading, At, Restoring
    <3> QED
      BY <2>8, <3>1
  <2>12. CASE Crash(w) /\ log[j.tx] # << >>
    <3>1. /\ job' = [job EXCEPT ![w] = [j EXCEPT !.pc = "ended", !.tasks = << >>]]
          /\ log' = log
      BY <2>12 DEF Crash
    <3>2. job'[w].tx = j.tx /\ job'[w].pc = "ended" /\ DOMAIN job'[w].tasks = {}
      BY <2>2, <3>1
    <3>3. ~ Reading(w)' /\ ~ Restoring(w)' /\ ~ At(w, "idle")' /\ ~ RolledBack(w)'
      BY <3>2 DEF Reading, Restoring, At, RolledBack
    <3>4. Ordered(w)'
      BY <3>2, <3>3 DEF Ordered, In, InFlight
    <3>5. ~ Reading(w) /\ Pending(w)
      BY <2>1, <2>12 DEF SeqInv, Pending, Reading
    <3>6. Pending(w)'
      BY <2>1, <3>1, <3>2, <3>3, <3>5 DEF Pending, LastStatus
    <3> QED
      BY <2>1, <3>1, <3>2, <3>3, <3>4, <3>6, ActorDecides DEF Progress
  <2>13. CASE \E t \in DOMAIN j.tasks : Submit(w, t)
    <3>1. PICK t \in DOMAIN j.tasks : Submit(w, t)
      BY <2>13
    <3> QED
      BY <2>1, <3>1, TasksInOrder DEF Submit
  <2>14. CASE \E t \in DOMAIN j.tasks : Freeze(w, t)
    <3>1. PICK t \in DOMAIN j.tasks : Freeze(w, t)
      BY <2>14
    <3>2. t \in InFlight(w)
      BY <3>1 DEF Freeze, In, InFlight
    <3> QED
      BY <2>1, <3>1, <3>2, TasksInOrder DEF Freeze
  <2>15. CASE \E t \in DOMAIN j.tasks : Run(w, t)
    <3>1. PICK t \in DOMAIN j.tasks : Run(w, t)
      BY <2>15
    <3>2. t \in InFlight(w)
      BY <3>1 DEF Run, In, InFlight
    <3> QED
      BY <2>1, <3>1, <3>2, TasksInOrder DEF Run
  <2>16. CASE \E t \in DOMAIN j.tasks : InheritFailure(w, t) \/ TaskFails(w, t)
    <3>1. PICK t \in DOMAIN j.tasks : InheritFailure(w, t) \/ TaskFails(w, t)
      BY <2>16
    <3>2. /\ t \in InFlight(w) /\ Awaited(w, t) \subseteq In(w, {"done", "failed"})
          /\ job' = [job EXCEPT ![w].tasks[t] = "failed"] /\ log' = log
      BY <3>1 DEF InheritFailure, TaskFails, In
    <3> QED
      BY <2>1, <3>2, TasksInOrder
  <2> QED
    BY <1>3, <2>3, <2>4, <2>5, <2>6, <2>7, <2>9, <2>10, <2>11, <2>12, <2>13, <2>14,
       <2>15, <2>16 DEF Driver, Worker, Failure
<1> QED
  BY <1>1, <1>2, <1>3 DEF Next

\* After a rollback every table is what it was at started_at, until the next
\* call begins: whatever failed, crashed or was interrupted, and however the
\* tasks on Ray overtook each other.
THEOREM RollbackRestores ==
  ASSUME Exclusive, "submission" \notin Faults
  PROVE  Spec => []RolledBackIsRestored
<1>1. Spec => []TInv
  BY TInvInit, TInvNext, PTL DEF Spec
<1>2. Sequential
  BY DEF Sequential
<1>3. Init => SeqInv
  BY SeqInvInit
<1>4. TInv /\ TInv' /\ SeqInv /\ [Next]_vars => SeqInv'
  BY <1>2, SeqInvNext
<1>5. SeqInv => RolledBackIsRestored
  BY DEF SeqInv
<1> QED
  BY <1>1, <1>3, <1>4, <1>5, PTL DEF Spec
=============================================================================
