-------------------------- MODULE TransferTasksProofs --------------------------
(***************************************************************************)
(* Proofs about background moves, for every set of tasks and workers:      *)
(* no source is lost, and a group of tasks completes neither before its    *)
(* last task nor never.                                                    *)
(***************************************************************************)
EXTENDS TransferTasks, TLAPS, FiniteSetTheorems, SequenceTheorems

-----------------------------------------------------------------------------
\* The types of the records.
TaskType == [state : States, ctxDone : BOOLEAN, retry : 0..MaxRetry, group : Groups \cup {NoGroup}]
ExecType == [pc : {"off", "run", "complete"}, task : Tasks \cup {NoGroup}, added : SUBSET Tasks,
             toRemove : SUBSET Tasks, final : States]
GroupType == [pending : Nat, hasSuccess : BOOLEAN, payloads : SUBSET Tasks]

\* Every task has a group of its own, in which it counts.
LEMMA GroupIDType == ASSUME NEW t \in Tasks PROVE groupID(t) \in Groups
BY DEF groupID, Roots, Groups

LEMMA NoGroupIsNone == NoGroup \notin Groups
BY TasksAssumption DEF Groups

\* AddTask counts one task more in its group, and touches no other.
LEMMA AddTaskFacts ==
    ASSUME NEW gs \in [Groups -> GroupType], NEW g \in Groups, NEW p \in SUBSET Tasks
    PROVE  /\ AddTask(gs, g, p) \in [Groups -> GroupType]
           /\ AddTask(gs, g, p)[g].pending = gs[g].pending + 1
           /\ \A h \in Groups : h # g => AddTask(gs, g, p)[h] = gs[h]
<1>1. gs[g] \in GroupType
  OBVIOUS
<1> DEFINE c == gs[g].payloads \cup p
<1>2. gs[g].pending + 1 \in Nat /\ c \in SUBSET Tasks
  BY <1>1 DEF GroupType
<1> HIDE DEF c
<1>3. [gs EXCEPT ![g].pending = @ + 1, ![g].payloads = c] \in [Groups -> GroupType]
  BY <1>1, <1>2 DEF GroupType
<1>4. AddTask(gs, g, p) \in [Groups -> GroupType]
  BY <1>3 DEF AddTask, c
<1>5. AddTask(gs, g, p)[g].pending = gs[g].pending + 1
  BY DEF AddTask, GroupType
<1>6. \A h \in Groups : h # g => AddTask(gs, g, p)[h] = gs[h]
  BY DEF AddTask, GroupType
<1> QED
  BY <1>4, <1>5, <1>6

\* Done takes one off the count of a group that still has one, and touches no other.
LEMMA DoneFacts ==
    ASSUME NEW gs \in [Groups -> GroupType], NEW g, NEW b \in BOOLEAN
    PROVE  /\ done(gs, g, b) \in [Groups -> GroupType]
           /\ g \in Groups /\ gs[g].pending > 0 => done(gs, g, b)[g].pending = gs[g].pending - 1
           /\ \A h \in Groups : h # g => done(gs, g, b)[h] = gs[h]
<1>1. CASE g \notin Groups \/ gs[g].pending = 0
  BY <1>1 DEF done
<1>2. CASE g \in Groups /\ gs[g].pending = 1
  <2>1. NoState \in GroupType /\ NoState.pending = 0
    BY DEF NoState, GroupType
  <2> QED
    BY <1>2, <2>1 DEF done
<1>3. CASE g \in Groups /\ gs[g].pending # 0 /\ gs[g].pending # 1
  <2>1. gs[g] \in GroupType
    BY <1>3
  <2> DEFINE c == gs[g].hasSuccess \/ b
  <2>2. gs[g].pending - 1 \in Nat /\ c \in BOOLEAN
    BY <1>3, <2>1 DEF GroupType
  <2> HIDE DEF c
  <2>3. [gs EXCEPT ![g].pending = @ - 1, ![g].hasSuccess = c] \in [Groups -> GroupType]
    BY <2>1, <2>2 DEF GroupType
  <2>4. done(gs, g, b) = [gs EXCEPT ![g].pending = @ - 1, ![g].hasSuccess = @ \/ b]
    BY <1>3 DEF done
  <2>5. done(gs, g, b) \in [Groups -> GroupType]
    BY <2>3, <2>4 DEF c
  <2>6. done(gs, g, b)[g].pending = gs[g].pending - 1
    BY <1>3, <2>4 DEF GroupType
  <2>7. \A h \in Groups : h # g => done(gs, g, b)[h] = gs[h]
    BY <2>4 DEF GroupType
  <2> QED
    BY <2>5, <2>6, <2>7
<1> QED
  BY <1>1, <1>2, <1>3

LEMMA ToRemoveType ==
    ASSUME NEW gs \in [Groups -> GroupType], NEW g, NEW b
    PROVE  toRemove(gs, g, b) \in SUBSET Tasks
BY DEF toRemove, GroupType

-----------------------------------------------------------------------------
(* Type correctness.                                                       *)

\* The budget stays within its bounds, and a worker that is not off has a task.
BudgetOK == budget \in [cancels : 0..MaxCancels, retries : 0..MaxRetries, crashes : 0..MaxCrashes]
WorkersBusy == \A w \in Workers : exec[w].pc # "off" => exec[w].task \in Tasks
Typed ==
    /\ task \in [Tasks -> TaskType] /\ queue \in Seq(Tasks) /\ exec \in [Workers -> ExecType]
    /\ groups \in [Groups -> GroupType] /\ src \subseteq Files
    /\ dst \in [Files -> {"none", "old", "new"}]
    /\ BudgetOK /\ WorkersBusy

LEMMA TypedIsTypeOK == Typed => TypeOK
BY DEF Typed, TypeOK, TaskType, ExecType, GroupType

LEMMA TypedInit == Init => Typed
<1> SUFFICES ASSUME Init PROVE Typed
  OBVIOUS
<1> USE TasksAssumption, StartAssumption
<1>1. task \in [Tasks -> TaskType]
  BY DEF Init, TaskType, States
<1>2. exec \in [Workers -> ExecType] /\ WorkersBusy
  BY DEF Init, Idle, worker, ExecType, States, WorkersBusy
<1>3. groups \in [Groups -> GroupType]
  BY DEF Init, NoState, GroupType
<1>4. queue \in Seq(Tasks) /\ src \subseteq Files /\ dst \in [Files -> {"none", "old", "new"}]
  BY DEF Init
<1>5. BudgetOK
  BY DEF Init, BudgetOK
<1> QED
  BY <1>1, <1>2, <1>3, <1>4, <1>5 DEF Typed

\* The worker records that the steps make.
LEMMA WorkerType ==
    ASSUME NEW p \in {"off", "run", "complete"}, NEW t \in Tasks \cup {NoGroup},
           NEW r \in SUBSET Tasks, NEW f \in States
    PROVE  /\ worker(p, t, r, f) \in ExecType
           /\ worker(p, t, r, f).pc = p /\ worker(p, t, r, f).task = t
           /\ worker(p, t, r, f).added = {} /\ worker(p, t, r, f).toRemove = r
           /\ worker(p, t, r, f).final = f
BY DEF worker, ExecType

LEMMA IdleType == Idle \in ExecType /\ Idle.pc = "off"
BY DEF Idle, worker, ExecType, States

\* A task that is added, as transfer and the directory's run add it.
LEMMA AddedFacts ==
    ASSUME NEW ts \in [Tasks -> TaskType], NEW t \in Tasks, NEW g \in Groups \cup {NoGroup}
    PROVE  /\ added(ts, t, g) \in [Tasks -> TaskType]
           /\ added(ts, t, g)[t] = [state |-> "pending", ctxDone |-> FALSE, retry |-> 0, group |-> g]
           /\ \A u \in Tasks : u # t => added(ts, t, g)[u] = ts[u]
<1>1. [state |-> "pending", ctxDone |-> FALSE, retry |-> 0, group |-> g] \in TaskType
  BY TasksAssumption DEF TaskType, States
<1> QED
  BY <1>1 DEF added

\* A task that gets another state, one that is run again, and a worker that has added
\* some members.
SetState(ts, t, x) == [ts EXCEPT ![t].state = x]
RunAgain(ts, t) == [ts EXCEPT ![t].retry = ts[t].retry + 1, ![t].state = "running"]
SetAdded(ex, w, a) == [ex EXCEPT ![w].added = a]

LEMMA StateFacts ==
    ASSUME NEW ts \in [Tasks -> TaskType], NEW t \in Tasks, NEW x \in States
    PROVE  /\ SetState(ts, t, x) \in [Tasks -> TaskType]
           /\ SetState(ts, t, x)[t].state = x
           /\ \A u \in Tasks : /\ u # t => SetState(ts, t, x)[u] = ts[u]
                               /\ SetState(ts, t, x)[u].group = ts[u].group
                               /\ SetState(ts, t, x)[u].ctxDone = ts[u].ctxDone
BY DEF TaskType, SetState

\* A worker that gets another record, or another set of added members.
LEMMA ExecFacts ==
    ASSUME NEW ex \in [Workers -> ExecType], NEW w \in Workers, NEW r \in ExecType
    PROVE  /\ [ex EXCEPT ![w] = r] \in [Workers -> ExecType]
           /\ [ex EXCEPT ![w] = r][w] = r
           /\ \A v \in Workers : v # w => [ex EXCEPT ![w] = r][v] = ex[v]
OBVIOUS

LEMMA AddedSetFacts ==
    ASSUME NEW ex \in [Workers -> ExecType], NEW w \in Workers, NEW a \in SUBSET Tasks
    PROVE  /\ SetAdded(ex, w, a) \in [Workers -> ExecType]
           /\ SetAdded(ex, w, a)[w].added = a
           /\ \A v \in Workers : /\ SetAdded(ex, w, a)[v].pc = ex[v].pc
                                 /\ SetAdded(ex, w, a)[v].task = ex[v].task
                                 /\ SetAdded(ex, w, a)[v].final = ex[v].final
                                 /\ v # w => SetAdded(ex, w, a)[v] = ex[v]
<1>1. SetAdded(ex, w, a) \in [Workers -> ExecType] /\ SetAdded(ex, w, a)[w].added = a
  BY DEF ExecType, SetAdded
<1>2. ASSUME NEW v \in Workers
      PROVE  /\ SetAdded(ex, w, a)[v].pc = ex[v].pc
             /\ SetAdded(ex, w, a)[v].task = ex[v].task
             /\ SetAdded(ex, w, a)[v].final = ex[v].final
             /\ v # w => SetAdded(ex, w, a)[v] = ex[v]
  BY DEF ExecType, SetAdded
<1> QED
  BY <1>1, <1>2

\* The end of a run: the task's state, the count of its group and the sources to remove.
LEMMA HookFacts ==
    ASSUME Typed, NEW w \in Workers, NEW t \in Tasks, NEW b \in BOOLEAN,
           NEW x \in States, NEW f \in States, hook(w, t, b, x, f)
    PROVE  /\ task' = SetState(task, t, x)
           /\ groups' = done(groups, task[t].group, b)
           /\ groups' \in [Groups -> GroupType]
           /\ exec' \in [Workers -> ExecType]
           /\ exec'[w].pc = "complete" /\ exec'[w].task = t /\ exec'[w].final = f
           /\ \A v \in Workers : v # w => exec'[v] = exec[v]
<1> DEFINE g == task[t].group
           rm == toRemove(groups, g, b)
           r == worker("complete", t, rm, f)
<1>1. task \in [Tasks -> TaskType] /\ groups \in [Groups -> GroupType] /\ exec \in [Workers -> ExecType]
  BY DEF Typed
<1>2. rm \in SUBSET Tasks
  BY <1>1, ToRemoveType
<1> HIDE DEF rm
<1>3. r \in ExecType /\ r.pc = "complete" /\ r.task = t /\ r.final = f
  <2>1. t \in Tasks \cup {NoGroup} /\ "complete" \in {"off", "run", "complete"}
    OBVIOUS
  <2> QED
    BY <1>2, <2>1 DEF worker, ExecType
<1>4. /\ task' = SetState(task, t, x) /\ groups' = done(groups, g, b)
      /\ exec' = [exec EXCEPT ![w] = r]
  BY DEF hook, rm, SetState
<1> HIDE DEF r
<1>5. exec' \in [Workers -> ExecType] /\ exec'[w] = r /\ \A v \in Workers : v # w => exec'[v] = exec[v]
  BY <1>1, <1>3, <1>4, ExecFacts
<1>6. groups' \in [Groups -> GroupType]
  BY <1>1, <1>4, DoneFacts
<1> QED
  BY <1>3, <1>4, <1>5, <1>6

\* A failed run goes on in the same worker, or ends.
LEMMA OnErrorFacts ==
    ASSUME Typed, NEW w \in Workers, NEW t \in Tasks, exec[w].task = t, exec[w].pc = "run", onError(w, t)
    PROVE  \/ /\ needRetry(t)
              /\ task' = RunAgain(task, t)
              /\ exec' = SetAdded(exec, w, {})
              /\ UNCHANGED groups
           \/ hook(w, t, FALSE, "failing", IF task[t].ctxDone THEN "canceled" ELSE "failed")
BY DEF onError, RunAgain, SetAdded

\* The task that is run again.
LEMMA AgainFacts ==
    ASSUME NEW ts \in [Tasks -> TaskType], NEW t \in Tasks, ts[t].retry < MaxRetry
    PROVE  /\ RunAgain(ts, t) \in [Tasks -> TaskType] /\ RunAgain(ts, t)[t].state = "running"
           /\ \A u \in Tasks : /\ u # t => RunAgain(ts, t)[u] = ts[u]
                               /\ RunAgain(ts, t)[u].group = ts[u].group
                               /\ RunAgain(ts, t)[u].ctxDone = ts[u].ctxDone
<1> DEFINE n == ts[t].retry + 1
           ts2 == [ts EXCEPT ![t].retry = n, ![t].state = "running"]
<1>1. ts[t] \in TaskType /\ ts[t].retry \in 0..MaxRetry
  BY DEF TaskType
<1>2. n \in 0..MaxRetry /\ "running" \in States
  BY <1>1, TasksAssumption DEF States
<1> HIDE DEF n
<1>3. ts2 \in [Tasks -> TaskType]
  BY <1>1, <1>2 DEF TaskType
<1>4. ts2[t].state = "running"
  BY DEF TaskType
<1>5. ASSUME NEW u \in Tasks
      PROVE  /\ u # t => ts2[u] = ts[u]
             /\ ts2[u].group = ts[u].group /\ ts2[u].ctxDone = ts[u].ctxDone
  BY DEF TaskType
<1> QED
  BY <1>3, <1>4, <1>5 DEF n, RunAgain

-----------------------------------------------------------------------------
\* The steps of the manager and of users preserve the types.
LEMMA TypedUsers ==
    ASSUME Typed, NEW t \in Tasks, transfer(t) \/ Cancel(t) \/ Retry(t)
    PROVE  Typed'
<1>1. /\ task \in [Tasks -> TaskType] /\ queue \in Seq(Tasks) /\ exec \in [Workers -> ExecType]
      /\ groups \in [Groups -> GroupType] /\ src \subseteq Files
      /\ dst \in [Files -> {"none", "old", "new"}] /\ groupID(t) \in Groups
  BY GroupIDType DEF Typed
<1>2. CASE transfer(t)
  <2>1. task' \in [Tasks -> TaskType]
    BY <1>1, <1>2, AddedFacts DEF transfer
  <2>2. groups' \in [Groups -> GroupType]
    <3>1. {t} \in SUBSET Tasks
      OBVIOUS
    <3> QED
      BY <1>1, <1>2, <3>1, AddTaskFacts DEF transfer
  <2>3. queue' \in Seq(Tasks)
    BY <1>1, <1>2 DEF transfer
  <2> QED
    BY <1>1, <1>2, <2>1, <2>2, <2>3 DEF transfer, Typed, BudgetOK, WorkersBusy
<1>3. CASE Cancel(t)
  <2>1. task' \in [Tasks -> TaskType]
    <3>1. "canceling" \in States /\ TRUE \in BOOLEAN
      BY DEF States
    <3> QED
      BY <1>1, <1>3, <3>1 DEF Cancel, TaskType
  <2>2. BudgetOK'
    <3>1. budget.cancels - 1 \in 0..MaxCancels
      BY <1>3, TasksAssumption DEF Cancel, Typed, BudgetOK
    <3> QED
      BY <1>3, <3>1 DEF Cancel, Typed, BudgetOK
  <2> QED
    BY <1>1, <1>3, <2>1, <2>2 DEF Cancel, Typed, WorkersBusy
<1>4. CASE Retry(t)
  <2> DEFINE c == task[t].ctxDone /\ ~AllowRetryCanceled
  <2>1. task' = [task EXCEPT ![t] = [state |-> "waitingRetry", ctxDone |-> c, retry |-> 0, group |-> groupID(t)]]
    BY <1>4 DEF Retry
  <2>2. c \in BOOLEAN /\ "waitingRetry" \in States /\ 0 \in 0..MaxRetry
    BY <1>1, TasksAssumption DEF States
  <2> HIDE DEF c
  <2>3. task' \in [Tasks -> TaskType]
    BY <1>1, <2>1, <2>2 DEF TaskType
  <2>4. groups' \in [Groups -> GroupType]
    <3>1. {t} \in SUBSET Tasks
      OBVIOUS
    <3> QED
      BY <1>1, <1>4, <3>1, AddTaskFacts DEF Retry, rejoin
  <2>5. queue' \in Seq(Tasks)
    BY <1>1, <1>4 DEF Retry
  <2>6. BudgetOK'
    <3>1. budget.retries - 1 \in 0..MaxRetries
      BY <1>4, TasksAssumption DEF Retry, Typed, BudgetOK
    <3> QED
      BY <1>4, <3>1 DEF Retry, Typed, BudgetOK
  <2> QED
    BY <1>1, <1>4, <2>3, <2>4, <2>5, <2>6 DEF Retry, Typed, WorkersBusy
<1> QED
  BY <1>2, <1>3, <1>4

\* The worker's next task.
LEMMA NextFacts ==
    ASSUME Typed, NEW w \in Workers, next(w)
    PROVE  /\ Head(queue) \in Tasks /\ Tail(queue) \in Seq(Tasks) /\ queue' = Tail(queue)
           /\ \/ /\ task[Head(queue)].ctxDone
                 /\ task' = SetState(task, Head(queue), "canceled") /\ exec' = exec
              \/ /\ ~task[Head(queue)].ctxDone
                 /\ task' = SetState(task, Head(queue), "running")
                 /\ exec' \in [Workers -> ExecType]
                 /\ exec'[w].pc = "run" /\ exec'[w].task = Head(queue) /\ exec'[w].added = {}
                 /\ \A v \in Workers : v # w => exec'[v] = exec[v]
<1>1. queue \in Seq(Tasks) /\ queue # <<>> /\ exec \in [Workers -> ExecType]
  BY DEF Typed, next
<1>2. Head(queue) \in Tasks /\ Tail(queue) \in Seq(Tasks)
  BY <1>1
<1>3. CASE task[Head(queue)].ctxDone
  BY <1>2, <1>3 DEF next, SetState
<1>4. CASE ~task[Head(queue)].ctxDone
  <2> DEFINE t == Head(queue)
             r == worker("run", t, {}, "new")
  <2> HIDE DEF t
  <2>1. r \in ExecType /\ r.pc = "run" /\ r.task = t /\ r.added = {}
    BY <1>2 DEF worker, ExecType, States, t
  <2>2. exec' = [exec EXCEPT ![w] = r] /\ task' = SetState(task, t, "running") /\ queue' = Tail(queue)
    BY <1>4 DEF next, t, SetState
  <2> HIDE DEF r
  <2>3. exec' \in [Workers -> ExecType] /\ exec'[w] = r /\ \A v \in Workers : v # w => exec'[v] = exec[v]
    BY <1>1, <2>1, <2>2, ExecFacts
  <2> QED
    BY <1>2, <1>4, <2>1, <2>2, <2>3 DEF t
<1> QED
  BY <1>3, <1>4

LEMMA TypedNext ==
    ASSUME Typed, NEW w \in Workers, next(w)
    PROVE  Typed'
<1>1. "canceled" \in States /\ "running" \in States
  BY DEF States
<1>2. task' \in [Tasks -> TaskType]
  <2>1. PICK h \in Tasks, x \in States : task' = SetState(task, h, x)
    BY <1>1, NextFacts
  <2> QED
    BY <2>1, StateFacts DEF Typed
<1>3. exec' \in [Workers -> ExecType] /\ WorkersBusy'
  BY NextFacts DEF Typed, WorkersBusy
<1> QED
  BY <1>2, <1>3, NextFacts DEF Typed, BudgetOK, next

\* A hook and an error preserve the types.
LEMMA TypedHook ==
    ASSUME Typed, NEW w \in Workers, NEW t \in Tasks, NEW b \in BOOLEAN,
           NEW x \in States, NEW f \in States, hook(w, t, b, x, f)
    PROVE  /\ task' \in [Tasks -> TaskType] /\ exec' \in [Workers -> ExecType]
           /\ groups' \in [Groups -> GroupType] /\ WorkersBusy'
<1>1. task' \in [Tasks -> TaskType]
  BY HookFacts, StateFacts DEF Typed
<1>2. WorkersBusy'
  BY HookFacts DEF Typed, WorkersBusy
<1> QED
  BY <1>1, <1>2, HookFacts

LEMMA TypedError ==
    ASSUME Typed, NEW w \in Workers, NEW t \in Tasks, exec[w].task = t, exec[w].pc = "run", onError(w, t)
    PROVE  /\ task' \in [Tasks -> TaskType] /\ exec' \in [Workers -> ExecType]
           /\ groups' \in [Groups -> GroupType] /\ WorkersBusy'
<1>1. CASE /\ needRetry(t)
           /\ task' = RunAgain(task, t)
           /\ exec' = SetAdded(exec, w, {})
           /\ UNCHANGED groups
  <2>1. task' \in [Tasks -> TaskType]
    BY <1>1, AgainFacts DEF Typed, needRetry
  <2>2. {} \in SUBSET Tasks
    OBVIOUS
  <2>3. exec' \in [Workers -> ExecType] /\ \A v \in Workers : exec'[v].pc = exec[v].pc /\ exec'[v].task = exec[v].task
    BY <1>1, <2>2, AddedSetFacts DEF Typed
  <2> QED
    BY <1>1, <2>1, <2>3 DEF Typed, WorkersBusy
<1>2. CASE hook(w, t, FALSE, "failing", IF task[t].ctxDone THEN "canceled" ELSE "failed")
  <2>1. /\ FALSE \in BOOLEAN /\ "failing" \in States
        /\ (IF task[t].ctxDone THEN "canceled" ELSE "failed") \in States
    BY DEF States
  <2> QED
    BY <1>2, <2>1, TypedHook
<1> QED
  BY <1>1, <1>2, OnErrorFacts

\* A directory's run adds a member.
LEMMA AddMemberFacts ==
    ASSUME Typed, NEW w \in Workers, NEW t \in Tasks, NEW s \in Members[t] \ exec[w].added,
           groups' = countMember(task[t].group),
           task' = added(task, s, task[t].group),
           queue' = Append(queue, s),
           exec' = SetAdded(exec, w, exec[w].added \cup {s})
    PROVE  /\ s \in Tasks /\ task' \in [Tasks -> TaskType] /\ queue' \in Seq(Tasks)
           /\ groups' \in [Groups -> GroupType] /\ exec' \in [Workers -> ExecType]
           /\ exec'[w].added = exec[w].added \cup {s}
           /\ \A v \in Workers : /\ exec'[v].pc = exec[v].pc /\ exec'[v].task = exec[v].task
                                 /\ exec'[v].final = exec[v].final
                                 /\ v # w => exec'[v] = exec[v]
<1>1. /\ task \in [Tasks -> TaskType] /\ exec \in [Workers -> ExecType]
      /\ groups \in [Groups -> GroupType] /\ queue \in Seq(Tasks)
  BY DEF Typed
<1>2. s \in Tasks
  BY TasksAssumption
<1>3. task[t].group \in Groups \cup {NoGroup}
  BY <1>1 DEF TaskType
<1>4. task' \in [Tasks -> TaskType] /\ queue' \in Seq(Tasks)
  <2>1. added(task, s, task[t].group) \in [Tasks -> TaskType]
    BY <1>1, <1>2, <1>3, AddedFacts
  <2>2. Append(queue, s) \in Seq(Tasks)
    BY <1>1, <1>2
  <2> QED
    BY <2>1, <2>2
<1>5. groups' \in [Groups -> GroupType]
  <2>1. {} \in SUBSET Tasks
    OBVIOUS
  <2> QED
    BY <1>1, <2>1, AddTaskFacts DEF countMember
<1>6. PICK a \in SUBSET Tasks : a = exec[w].added \cup {s}
  BY <1>1, <1>2 DEF ExecType
<1>7. exec' = SetAdded(exec, w, a)
  BY <1>6
<1>8. /\ exec' \in [Workers -> ExecType] /\ exec'[w].added = a
      /\ \A v \in Workers : /\ exec'[v].pc = exec[v].pc /\ exec'[v].task = exec[v].task
                            /\ exec'[v].final = exec[v].final
                            /\ v # w => exec'[v] = exec[v]
  <2>0. exec \in [Workers -> ExecType] /\ w \in Workers /\ a \in SUBSET Tasks
    BY <1>1
  <2> DEFINE e == SetAdded(exec, w, a)
  <2>1. e \in [Workers -> ExecType]
    BY <2>0, AddedSetFacts
  <2>2. e[w].added = a
    BY <2>0, AddedSetFacts
  <2>3. \A v \in Workers : e[v].pc = exec[v].pc /\ e[v].task = exec[v].task
    BY <2>0, AddedSetFacts
  <2>4. \A v \in Workers : e[v].final = exec[v].final /\ (v # w => e[v] = exec[v])
    BY <2>0, AddedSetFacts
  <2> QED
    BY <1>7, <2>1, <2>2, <2>3, <2>4
<1> QED
  BY <1>2, <1>4, <1>5, <1>6, <1>8

LEMMA TypedRun ==
    ASSUME Typed, NEW w \in Workers, Run(w)
    PROVE  Typed'
<1> DEFINE t == exec[w].task
<1>1. t \in Tasks /\ exec[w].pc = "run" /\ UNCHANGED <<src, budget>>
  BY DEF Typed, WorkersBusy, Run
<1>2. "succeeded" \in States /\ TRUE \in BOOLEAN
  BY DEF States
<1>3. /\ task' \in [Tasks -> TaskType] /\ exec' \in [Workers -> ExecType] /\ queue' \in Seq(Tasks)
      /\ groups' \in [Groups -> GroupType] /\ WorkersBusy'
  <2>1. CASE succeeded(w, t) /\ UNCHANGED queue
    BY <1>1, <1>2, <2>1, TypedHook DEF succeeded, Typed
  <2>2. CASE onError(w, t) /\ UNCHANGED queue
    BY <1>1, <2>2, TypedError DEF Typed
  <2>3. CASE \E s \in Members[t] \ exec[w].added :
                /\ groups' = countMember(task[t].group) /\ task' = added(task, s, task[t].group)
                /\ queue' = Append(queue, s) /\ exec' = SetAdded(exec, w, exec[w].added \cup {s})
    BY <1>1, <2>3, AddMemberFacts DEF Typed, WorkersBusy
  <2> QED
    BY <2>1, <2>2, <2>3 DEF Run, RunFile, RunDir, SetAdded
<1>4. dst' \in [Files -> {"none", "old", "new"}]
  <2>1. CASE t \in Files
    BY <2>1 DEF Run, RunFile, Typed
  <2>2. CASE t \notin Files
    BY <2>2 DEF Run, RunDir, Typed
  <2> QED
    BY <2>1, <2>2
<1> QED
  BY <1>1, <1>3, <1>4 DEF Typed, BudgetOK

LEMMA TypedRemove ==
    ASSUME Typed, NEW w \in Workers, Remove(w)
    PROVE  Typed'
<1>1. PICK p \in exec[w].toRemove :
        /\ src' = src \ verifyAndRemove(p)
        /\ exec' = [exec EXCEPT ![w].toRemove = @ \ {p}]
  BY DEF Remove
<1>2. exec' \in [Workers -> ExecType] /\ \A v \in Workers : exec'[v].pc = exec[v].pc /\ exec'[v].task = exec[v].task
  <2>1. exec \in [Workers -> ExecType]
    BY DEF Typed
  <2>2. exec[w].toRemove \ {p} \in SUBSET Tasks
    BY <2>1 DEF ExecType
  <2>3. exec' \in [Workers -> ExecType]
    BY <1>1, <2>1, <2>2 DEF ExecType
  <2>4. \A v \in Workers : exec'[v].pc = exec[v].pc /\ exec'[v].task = exec[v].task
    BY <1>1, <2>1 DEF ExecType
  <2> QED
    BY <2>3, <2>4
<1> QED
  BY <1>1, <1>2 DEF Remove, Typed, BudgetOK, WorkersBusy

\* A worker whose hook returned: the task gets its final state, or runs again.
LEMMA ReturnFacts ==
    ASSUME Typed, NEW w \in Workers, Return(w)
    PROVE  /\ exec[w].task \in Tasks /\ exec[w].pc = "complete"
           /\ exec' \in [Workers -> ExecType] /\ \A v \in Workers : v # w => exec'[v] = exec[v]
           /\ \/ /\ exec[w].final = "succeeded" /\ task[exec[w].task].state = "waitingRetry"
                 /\ task' = SetState(task, exec[w].task, "running")
                 /\ exec'[w].pc = "run" /\ exec'[w].task = exec[w].task
              \/ /\ exec'[w].pc = "off"
                 /\ \/ exec[w].final = "succeeded" /\ task' = SetState(task, exec[w].task, task[exec[w].task].state)
                    \/ exec[w].final # "succeeded" /\ task' = SetState(task, exec[w].task, exec[w].final)
<1>1. exec \in [Workers -> ExecType] /\ exec[w].pc = "complete" /\ exec[w].task \in Tasks
  BY DEF Typed, WorkersBusy, Return
<1>2. PICK t \in Tasks : t = exec[w].task
  BY <1>1
<1>3. CASE exec[w].final = "succeeded" /\ task[t].state = "waitingRetry"
  <2>1. PICK r : r = worker("run", t, {}, "new")
    OBVIOUS
  <2>2. r \in ExecType /\ r.pc = "run" /\ r.task = t
    BY <2>1 DEF worker, ExecType, States
  <2>3. exec' = [exec EXCEPT ![w] = r] /\ task' = SetState(task, t, "running")
    BY <1>2, <1>3, <2>1 DEF Return, SetState
  <2>4. exec' \in [Workers -> ExecType] /\ exec'[w] = r /\ \A v \in Workers : v # w => exec'[v] = exec[v]
    BY <1>1, <2>2, <2>3, ExecFacts
  <2> QED
    BY <1>1, <1>2, <1>3, <2>2, <2>3, <2>4
<1>4. CASE ~(exec[w].final = "succeeded" /\ task[t].state = "waitingRetry")
  <2>1. exec' = [exec EXCEPT ![w] = Idle]
    BY <1>2, <1>4 DEF Return
  <2>2. exec' \in [Workers -> ExecType] /\ exec'[w] = Idle /\ \A v \in Workers : v # w => exec'[v] = exec[v]
    BY <1>1, <2>1, IdleType, ExecFacts
  <2>3. \/ exec[w].final = "succeeded" /\ task' = SetState(task, t, task[t].state)
        \/ exec[w].final # "succeeded" /\ task' = SetState(task, t, exec[w].final)
    BY <1>2, <1>4 DEF Return, SetState
  <2> QED
    BY <1>1, <1>2, <2>2, <2>3, IdleType
<1> QED
  BY <1>3, <1>4

LEMMA TypedReturn ==
    ASSUME Typed, NEW w \in Workers, Return(w)
    PROVE  Typed'
<1>1. task' \in [Tasks -> TaskType]
  <2>1. exec[w].final \in States /\ task[exec[w].task].state \in States /\ "running" \in States
    BY ReturnFacts DEF Typed, ExecType, TaskType, States
  <2>2. PICK x \in States : task' = SetState(task, exec[w].task, x)
    BY <2>1, ReturnFacts
  <2>3. exec[w].task \in Tasks
    BY ReturnFacts
  <2> QED
    BY <2>2, <2>3, StateFacts DEF Typed
<1>2. exec' \in [Workers -> ExecType] /\ WorkersBusy'
  BY ReturnFacts DEF Typed, WorkersBusy
<1> QED
  BY <1>1, <1>2 DEF Return, Typed, BudgetOK

\* What recover makes of a state: a final one, or a task to queue again.
LEMMA RecoveredFacts ==
    ASSUME NEW x \in States
    PROVE  /\ recovered(x) \in {"new", "succeeded", "canceled", "failed", "pending"}
           /\ recovered(x) \in States
           /\ recovered(x) = "new" => x = "new"
BY DEF recovered, States, Finished

\* What a restart leaves: the persisted tasks, those that are not finished queued once,
\* no worker busy, and in every group at most the tasks that joined it again.
LEMMA RestartFacts ==
    ASSUME Typed, Restart
    PROVE  \E old \in SUBSET Tasks, todo \in SUBSET Tasks :
           /\ old = {t \in Tasks : task[t].state # "new"}
           /\ todo = {t \in old : recovered(task[t].state) = "pending"}
           /\ task' \in [Tasks -> TaskType]
           /\ \A t \in Tasks : IF t \notin old THEN task'[t] = task[t]
                  ELSE /\ task'[t].state = recovered(task[t].state) /\ task'[t].ctxDone = FALSE
                       /\ task'[t].group = IF MaxRetry = 0 THEN groupID(t) ELSE NoGroup
           /\ groups' \in [Groups -> GroupType]
           /\ \A g \in Groups : groups'[g].pending =
                  IF MaxRetry # 0 THEN 0 ELSE Cardinality({t \in old : groupID(t) = g})
           /\ queue' \in Seq(todo) /\ \A i, j \in DOMAIN queue' : queue'[i] = queue'[j] => i = j
           /\ exec' = [w \in Workers |-> Idle] /\ MaxCrashes > 0
           /\ budget.crashes > 0 /\ BudgetOK' /\ UNCHANGED <<src, dst>>
<1>1. PICK old \in SUBSET Tasks : old = {t \in Tasks : task[t].state # "new"}
  OBVIOUS
<1>2. PICK todo \in SUBSET Tasks : todo = {t \in old : recovered(task[t].state) = "pending"}
  BY <1>1
<1>3. /\ task' = [t \in Tasks |->
              IF t \notin old THEN task[t]
              ELSE [state |-> recovered(task[t].state), ctxDone |-> FALSE, retry |-> task[t].retry,
                    group |-> IF MaxRetry = 0 THEN groupID(t) ELSE NoGroup]]
      /\ groups' = [g \in Groups |->
              IF MaxRetry # 0 THEN NoState
              ELSE [pending |-> Cardinality({t \in old : groupID(t) = g}), hasSuccess |-> FALSE,
                    payloads |-> {t \in old : groupID(t) = g}]]
      /\ queue' \in {q \in [1..Cardinality(todo) -> todo] : \A i, j \in DOMAIN q : q[i] = q[j] => i = j}
      /\ exec' = [w \in Workers |-> Idle]
      /\ budget.crashes > 0 /\ budget' = [budget EXCEPT !.crashes = @ - 1] /\ UNCHANGED <<src, dst>>
  BY <1>1, <1>2 DEF Restart
<1>4. ASSUME NEW t \in Tasks
      PROVE  task'[t] \in TaskType
  <2>1. task[t] \in TaskType /\ task[t].state \in States /\ task[t].retry \in 0..MaxRetry
    BY DEF Typed, TaskType
  <2>2. recovered(task[t].state) \in States
    BY <2>1, RecoveredFacts
  <2>3. (IF MaxRetry = 0 THEN groupID(t) ELSE NoGroup) \in Groups \cup {NoGroup}
    BY GroupIDType
  <2> QED
    BY <1>3, <2>1, <2>2, <2>3 DEF TaskType
<1>5. task' \in [Tasks -> TaskType]
  BY <1>3, <1>4
<1>6. \A t \in Tasks : IF t \notin old THEN task'[t] = task[t]
                  ELSE /\ task'[t].state = recovered(task[t].state) /\ task'[t].ctxDone = FALSE
                       /\ task'[t].group = IF MaxRetry = 0 THEN groupID(t) ELSE NoGroup
  BY <1>3
<1>7. ASSUME NEW g \in Groups
      PROVE  /\ groups'[g] \in GroupType
             /\ groups'[g].pending = IF MaxRetry # 0 THEN 0 ELSE Cardinality({t \in old : groupID(t) = g})
  <2>1. PICK j \in SUBSET Tasks : j = {t \in old : groupID(t) = g}
    BY <1>1
  <2>2. Cardinality(j) \in Nat
    BY TasksAssumption, FS_Subset, FS_CardinalityType
  <2>3. groups'[g] = IF MaxRetry # 0 THEN NoState
                     ELSE [pending |-> Cardinality(j), hasSuccess |-> FALSE, payloads |-> j]
    BY <1>3, <2>1
  <2> QED
    BY <2>1, <2>2, <2>3 DEF NoState, GroupType
<1>8. groups' \in [Groups -> GroupType]
  <2>1. groups' = [g \in Groups |-> groups'[g]]
    BY <1>3
  <2> QED
    BY <1>7, <2>1
<1>9. queue' \in Seq(todo) /\ \A i, j \in DOMAIN queue' : queue'[i] = queue'[j] => i = j
  <2>1. Cardinality(todo) \in Nat
    BY TasksAssumption, FS_Subset, FS_CardinalityType
  <2>2. queue' \in [1..Cardinality(todo) -> todo]
    BY <1>3
  <2>3. queue' \in Seq(todo)
    BY <2>1, <2>2, SeqDef
  <2> QED
    BY <1>3, <2>3
<1>10. BudgetOK' /\ MaxCrashes > 0
  <2>1. budget.crashes - 1 \in 0..MaxCrashes /\ MaxCrashes > 0
    BY <1>3, TasksAssumption DEF Typed, BudgetOK
  <2> QED
    BY <1>3, <2>1 DEF Typed, BudgetOK
<1> QED
  BY <1>1, <1>2, <1>3, <1>5, <1>6, <1>7, <1>8, <1>9, <1>10

LEMMA TypedRestart == ASSUME Typed, Restart PROVE Typed'
<1>1. task' \in [Tasks -> TaskType] /\ groups' \in [Groups -> GroupType] /\ BudgetOK' /\ UNCHANGED <<src, dst>>
  BY RestartFacts
<1>2. queue' \in Seq(Tasks)
  <2>1. PICK todo \in SUBSET Tasks : queue' \in Seq(todo)
    BY RestartFacts
  <2> QED
    BY <2>1
<1>3. exec' = [w \in Workers |-> Idle]
  BY RestartFacts
<1>4. exec' \in [Workers -> ExecType] /\ WorkersBusy'
  BY <1>3, IdleType DEF WorkersBusy
<1> QED
  BY <1>1, <1>2, <1>4 DEF Typed

LEMMA TypedStep == Typed /\ [Next]_vars => Typed'
<1> SUFFICES ASSUME Typed, [Next]_vars PROVE Typed'
  OBVIOUS
<1>1. CASE UNCHANGED vars
  BY <1>1 DEF vars, Typed, BudgetOK, WorkersBusy
<1>2. CASE Work
  BY <1>2, TypedNext, TypedRun, TypedRemove, TypedReturn DEF Work
<1>3. CASE Restart
  BY <1>3, TypedRestart
<1>4. CASE \E t \in Tasks : transfer(t) \/ Cancel(t) \/ Retry(t)
  BY <1>4, TypedUsers
<1> QED
  BY <1>1, <1>2, <1>3, <1>4 DEF Next

LEMMA TypedAlways == Spec => []Typed
<1>1. Init => Typed
  BY TypedInit
<1>2. Typed /\ [Next]_vars => Typed'
  BY TypedStep
<1> QED
  BY <1>1, <1>2, PTL DEF Spec

-----------------------------------------------------------------------------
(* No source is lost.                                                      *)

\* Nothing old is at the destination, and what is not at the source was uploaded.
SourcesInv ==
    /\ \A f \in Files : dst[f] # "old"
    /\ NothingLost

\* onCompletion removes a source only under the name of something at the destination.
LEMMA RemoveKeeps ==
    ASSUME Typed, SourcesInv, NEW w \in Workers, Remove(w)
    PROVE  SourcesInv'
<1>1. PICK p \in exec[w].toRemove : src' = src \ verifyAndRemove(p) /\ dst' = dst
  BY DEF Remove
<1>2. ASSUME NEW f \in Files
      PROVE  f \in src' \/ dst'[f] = "new"
  <2>1. dst[f] \in {"none", "old", "new"} /\ dst[f] # "old" /\ (f \in src \/ dst[f] = "new")
    BY DEF Typed, SourcesInv, NothingLost
  <2>2. dst[f] = "none" => f \notin verifyAndRemove(p)
    BY DEF verifyAndRemove
  <2> QED
    BY <1>1, <2>1, <2>2
<1> QED
  BY <1>1, <1>2 DEF SourcesInv, NothingLost

LEMMA RunKeeps ==
    ASSUME Typed, SourcesInv, NEW w \in Workers, Run(w)
    PROVE  SourcesInv'
<1>1. src' = src /\ \A f \in Files : dst'[f] = dst[f] \/ dst'[f] = "new"
  BY DEF Run, RunFile, RunDir, Typed
<1> QED
  BY <1>1 DEF SourcesInv, NothingLost

\* Where nothing was at the destination before, a move never loses a file, in whatever
\* order the tasks run, fail, are cancelled, retried and interrupted by a restart, and
\* however the groups complete (internal/fs/copy_move.go, internal/task_group).
THEOREM SourcesAreSafe ==
    ASSUME StartDst = {}
    PROVE  Spec => []SourcesSafe
<1>1. Init => SourcesInv
  BY StartAssumption DEF Init, SourcesInv, NothingLost
<1>2. Typed /\ SourcesInv /\ [Next]_vars => SourcesInv'
  <2> SUFFICES ASSUME Typed, SourcesInv, [Next]_vars PROVE SourcesInv'
    OBVIOUS
  <2>1. CASE UNCHANGED <<src, dst>>
    BY <2>1 DEF SourcesInv, NothingLost
  <2>2. CASE \E w \in Workers : Run(w) \/ Remove(w)
    BY <2>2, RunKeeps, RemoveKeeps
  <2> QED
    BY <2>1, <2>2 DEF Next, Work, next, Return, Restart, transfer, Cancel, Retry, vars
<1>3. Typed /\ SourcesInv => SourcesSafe
  BY TypedIsTypeOK DEF SourcesInv, SourcesSafe
<1> QED
  BY <1>1, <1>2, <1>3, TypedAlways, PTL DEF Spec

-----------------------------------------------------------------------------
(* A group completes neither before its last task nor never, where users   *)
(* retry only what is finished.                                            *)

QHas(q, t) == \E i \in DOMAIN q : q[i] = t
QOnce(q) == \A i, j \in DOMAIN q : q[i] = q[j] => i = j
Runs(ex, t) == \E w \in Workers : ex[w].pc = "run" /\ ex[w].task = t

\* A task will still call Done while it is in the queue or a worker runs it: the group
\* that it will call it for.
LivesOf(ts, q, ex) == [t \in Tasks |-> IF QHas(q, t) \/ Runs(ex, t) THEN ts[t].group ELSE NoGroup]
lives == LivesOf(task, queue, exec)

\* The counts cover the live tasks, and equal their number where nothing is cancelled
\* and the program is not stopped.
CountIn(lg, g) == Cardinality({t \in Tasks : lg[t] = g})
Covers(gs, lg) ==
    \A g \in Groups :
        /\ gs[g].pending >= CountIn(lg, g)
        /\ MaxCancels = 0 /\ MaxCrashes = 0 => gs[g].pending = CountIn(lg, g)

\* A task is in one place: once in the queue, or with one worker.
OnePlace ==
    /\ QOnce(queue)
    /\ \A v, w \in Workers : exec[v].pc # "off" /\ exec[w].pc # "off" /\ exec[v].task = exec[w].task => v = w
    /\ \A w \in Workers : exec[w].pc # "off" => ~QHas(queue, exec[w].task)

\* Its state says where: a finished task is neither queued nor in its run.
StateTellsPlace ==
    /\ \A t \in Tasks : QHas(queue, t) => task[t].state \notin Finished
    /\ \A w \in Workers :
          /\ exec[w].pc = "run" => task[exec[w].task].state \notin Finished
          /\ exec[w].pc = "complete" => /\ task[exec[w].task].state \in {"succeeded", "failing", "canceling"}
                                        /\ exec[w].final \in {"succeeded", "canceled", "failed"}

\* The members that a directory has not added do not exist yet.
MembersNew ==
    /\ \A t \in Tasks : task[t].state = "new" \/ QHas(queue, t) =>
          \A s \in Members[t] : task[s].state = "new"
    /\ \A w \in Workers : exec[w].pc = "run" =>
          \A s \in Members[exec[w].task] \ exec[w].added : task[s].state = "new"

NoneCanceled == MaxCancels = 0 => \A t \in Tasks : task[t].ctxDone = FALSE

PlaceInv == OnePlace /\ StateTellsPlace /\ MembersNew /\ NoneCanceled

GroupInv == Typed /\ PlaceInv /\ Covers(groups, lives)

\* The queue after a task joined it, and after its first task left.
LEMMA AppendHas ==
    ASSUME NEW q \in Seq(Tasks), NEW t \in Tasks
    PROVE  /\ \A u : QHas(Append(q, t), u) <=> QHas(q, u) \/ u = t
           /\ QOnce(q) /\ ~QHas(q, t) => QOnce(Append(q, t))
<1>1. /\ Len(q) \in Nat /\ DOMAIN q = 1..Len(q) /\ DOMAIN Append(q, t) = 1..(Len(q) + 1)
      /\ \A i \in 1..Len(q) : Append(q, t)[i] = q[i]
      /\ Append(q, t)[Len(q) + 1] = t
  OBVIOUS
<1>2. \A u : QHas(Append(q, t), u) <=> QHas(q, u) \/ u = t
  BY <1>1 DEF QHas
<1>3. QOnce(q) /\ ~QHas(q, t) => QOnce(Append(q, t))
  BY <1>1 DEF QHas, QOnce
<1> QED
  BY <1>2, <1>3

LEMMA TailHas ==
    ASSUME NEW q \in Seq(Tasks), q # <<>>, QOnce(q)
    PROVE  /\ QHas(q, Head(q)) /\ QOnce(Tail(q))
           /\ \A u : QHas(Tail(q), u) <=> QHas(q, u) /\ u # Head(q)
<1>1. /\ Len(q) \in Nat /\ Len(q) > 0 /\ DOMAIN q = 1..Len(q) /\ DOMAIN Tail(q) = 1..(Len(q) - 1)
      /\ \A i \in 1..(Len(q) - 1) : Tail(q)[i] = q[i + 1]
      /\ Head(q) = q[1]
  OBVIOUS
<1>2. QHas(q, Head(q)) /\ QOnce(Tail(q))
  BY <1>1 DEF QHas, QOnce
<1>3. ASSUME NEW u, QHas(Tail(q), u)
      PROVE  QHas(q, u) /\ u # Head(q)
  <2>1. PICK i \in 1..(Len(q) - 1) : Tail(q)[i] = u
    BY <1>1, <1>3 DEF QHas
  <2>2. i + 1 \in 1..Len(q) /\ q[i + 1] = u /\ i + 1 # 1 /\ 1 \in 1..Len(q)
    BY <1>1, <2>1
  <2> QED
    BY <1>1, <2>2 DEF QHas, QOnce
<1>4. ASSUME NEW u, QHas(q, u), u # Head(q)
      PROVE  QHas(Tail(q), u)
  <2>1. PICK i \in 1..Len(q) : q[i] = u
    BY <1>1, <1>4 DEF QHas
  <2>2. i # 1 /\ i - 1 \in 1..(Len(q) - 1) /\ (i - 1) + 1 = i
    BY <1>1, <1>4, <2>1
  <2>3. Tail(q)[i - 1] = u
    BY <1>1, <2>1, <2>2
  <2> QED
    BY <1>1, <2>2, <2>3 DEF QHas
<1> QED
  BY <1>2, <1>3, <1>4

\* One task that becomes live or is live no longer changes the number of its group.
LEMMA LiveCount ==
    ASSUME NEW l1 \in [Tasks -> Groups \cup {NoGroup}], NEW l2 \in [Tasks -> Groups \cup {NoGroup}],
           NEW t \in Tasks, \A u \in Tasks : u # t => l2[u] = l1[u],
           l1[t] = NoGroup \/ l2[t] = NoGroup, NEW g \in Groups
    PROVE  /\ CountIn(l1, g) \in Nat /\ CountIn(l2, g) \in Nat
           /\ CountIn(l2, g) = IF l2[t] = g THEN CountIn(l1, g) + 1
                               ELSE IF l1[t] = g THEN CountIn(l1, g) - 1 ELSE CountIn(l1, g)
<1> DEFINE s1 == {u \in Tasks : l1[u] = g}
           s2 == {u \in Tasks : l2[u] = g}
<1>1. IsFiniteSet(s1) /\ IsFiniteSet(s2)
  BY TasksAssumption, FS_Subset
<1>2. Cardinality(s1) \in Nat /\ Cardinality(s2) \in Nat
  BY <1>1, FS_CardinalityType
<1>3. g # NoGroup
  BY NoGroupIsNone
<1> USE DEF CountIn
<1>4. CASE l2[t] = g
  <2>1. s2 = s1 \cup {t} /\ t \notin s1
    BY <1>3, <1>4
  <2> QED
    BY <1>1, <1>2, <1>4, <2>1, FS_AddElement
<1>5. CASE l2[t] # g /\ l1[t] = g
  <2>1. s2 = s1 \ {t} /\ t \in s1
    BY <1>3, <1>5
  <2>2. Cardinality(s2) = Cardinality(s1) - 1
    BY <1>1, <2>1, FS_RemoveElement
  <2> QED
    BY <1>2, <1>5, <2>2
<1>6. CASE l2[t] # g /\ l1[t] # g
  <2>1. s2 = s1
    BY <1>6
  <2> QED
    BY <1>2, <1>6, <2>1
<1> QED
  BY <1>4, <1>5, <1>6

LEMMA LivesType ==
    ASSUME NEW ts \in [Tasks -> TaskType], NEW q, NEW ex
    PROVE  LivesOf(ts, q, ex) \in [Tasks -> Groups \cup {NoGroup}]
BY DEF LivesOf, TaskType

\* A task that joins its group and becomes live is counted.
LEMMA CoverAdd ==
    ASSUME NEW gs \in [Groups -> GroupType], NEW gs2 \in [Groups -> GroupType],
           NEW l1 \in [Tasks -> Groups \cup {NoGroup}], NEW l2 \in [Tasks -> Groups \cup {NoGroup}],
           NEW t \in Tasks, \A u \in Tasks : u # t => l2[u] = l1[u], l1[t] = NoGroup,
           l2[t] \in Groups => gs2[l2[t]].pending = gs[l2[t]].pending + 1,
           \A h \in Groups : h # l2[t] => gs2[h] = gs[h],
           Covers(gs, l1)
    PROVE  Covers(gs2, l2)
<1> SUFFICES ASSUME NEW g \in Groups
             PROVE  /\ gs2[g].pending >= CountIn(l2, g)
                    /\ MaxCancels = 0 /\ MaxCrashes = 0 => gs2[g].pending = CountIn(l2, g)
  BY DEF Covers
<1> DEFINE n1 == CountIn(l1, g)
           n2 == CountIn(l2, g)
<1>1. n1 \in Nat /\ n2 \in Nat /\ n2 = IF l2[t] = g THEN n1 + 1 ELSE IF l1[t] = g THEN n1 - 1 ELSE n1
  <2>1. l1[t] = NoGroup \/ l2[t] = NoGroup
    OBVIOUS
  <2> QED
    BY <2>1, LiveCount
<1>2. l1[t] # g
  BY NoGroupIsNone
<1>3. gs[g].pending >= n1 /\ (MaxCancels = 0 /\ MaxCrashes = 0 => gs[g].pending = n1)
  BY DEF Covers
<1>4. gs[g].pending \in Nat /\ gs2[g].pending \in Nat
  BY DEF GroupType
<1> HIDE DEF n1, n2
<1>5. gs2[g].pending >= n2 /\ (MaxCancels = 0 /\ MaxCrashes = 0 => gs2[g].pending = n2)
  BY <1>1, <1>2, <1>3, <1>4
<1> QED
  BY <1>5 DEF n2

\* A live task that calls Done is taken off the count.
LEMMA CoverDone ==
    ASSUME NEW gs \in [Groups -> GroupType], NEW b \in BOOLEAN,
           NEW l1 \in [Tasks -> Groups \cup {NoGroup}], NEW l2 \in [Tasks -> Groups \cup {NoGroup}],
           NEW t \in Tasks, \A u \in Tasks : u # t => l2[u] = l1[u], l2[t] = NoGroup,
           Covers(gs, l1)
    PROVE  Covers(done(gs, l1[t], b), l2)
<1> DEFINE gs2 == done(gs, l1[t], b)
<1> SUFFICES ASSUME NEW g \in Groups
             PROVE  /\ gs2[g].pending >= CountIn(l2, g)
                    /\ MaxCancels = 0 /\ MaxCrashes = 0 => gs2[g].pending = CountIn(l2, g)
  BY DEF Covers
<1> DEFINE n1 == CountIn(l1, g)
           n2 == CountIn(l2, g)
<1>1. n1 \in Nat /\ n2 \in Nat /\ n2 = IF l2[t] = g THEN n1 + 1 ELSE IF l1[t] = g THEN n1 - 1 ELSE n1
  <2>1. l1[t] = NoGroup \/ l2[t] = NoGroup
    OBVIOUS
  <2> QED
    BY <2>1, LiveCount
<1>2. l2[t] # g
  BY NoGroupIsNone
<1>3. gs[g].pending >= n1 /\ (MaxCancels = 0 /\ MaxCrashes = 0 => gs[g].pending = n1)
  BY DEF Covers
<1>4. gs[g].pending \in Nat
  BY DEF GroupType
<1>5. /\ g = l1[t] /\ gs[g].pending > 0 => gs2[g].pending = gs[g].pending - 1
      /\ g # l1[t] => gs2[g] = gs[g]
  BY DoneFacts
<1> HIDE DEF n1, n2, gs2
<1>6. gs2[g].pending >= n2 /\ (MaxCancels = 0 /\ MaxCrashes = 0 => gs2[g].pending = n2)
  <2>1. CASE g = l1[t]
    <3>1. n2 = n1 - 1 /\ n1 > 0
      BY <1>1, <1>2, <2>1
    <3> QED
      BY <1>1, <1>3, <1>4, <1>5, <2>1, <3>1
  <2>2. CASE g # l1[t]
    BY <1>1, <1>2, <1>3, <1>5, <2>2
  <2> QED
    BY <2>1, <2>2
<1> QED
  BY <1>6 DEF n2

\* A task that was cancelled in the queue stays in the count.
LEMMA CoverDrop ==
    ASSUME NEW gs \in [Groups -> GroupType],
           NEW l1 \in [Tasks -> Groups \cup {NoGroup}], NEW l2 \in [Tasks -> Groups \cup {NoGroup}],
           NEW t \in Tasks, \A u \in Tasks : u # t => l2[u] = l1[u], l2[t] = NoGroup,
           MaxCancels # 0, Covers(gs, l1)
    PROVE  Covers(gs, l2)
<1> SUFFICES ASSUME NEW g \in Groups
             PROVE  gs[g].pending >= CountIn(l2, g)
  BY DEF Covers
<1> DEFINE n1 == CountIn(l1, g)
           n2 == CountIn(l2, g)
<1>1. n1 \in Nat /\ n2 \in Nat /\ n2 = IF l2[t] = g THEN n1 + 1 ELSE IF l1[t] = g THEN n1 - 1 ELSE n1
  <2>1. l1[t] = NoGroup \/ l2[t] = NoGroup
    OBVIOUS
  <2> QED
    BY <2>1, LiveCount
<1>2. l2[t] # g
  BY NoGroupIsNone
<1>3. gs[g].pending >= n1 /\ gs[g].pending \in Nat
  BY DEF Covers, GroupType
<1> HIDE DEF n1, n2
<1>4. gs[g].pending >= n2
  BY <1>1, <1>2, <1>3
<1> QED
  BY <1>4 DEF n2

-----------------------------------------------------------------------------
\* transfer: the task joins the queue and its group.
LEMMA GroupTransfer ==
    ASSUME GroupInv, NEW t \in Tasks, transfer(t)
    PROVE  PlaceInv' /\ Covers(groups, lives)'
<1>1. /\ task \in [Tasks -> TaskType] /\ queue \in Seq(Tasks) /\ exec \in [Workers -> ExecType]
      /\ groups \in [Groups -> GroupType] /\ groupID(t) \in Groups
      /\ \A w \in Workers : exec[w].pc # "off" => exec[w].task \in Tasks
  BY GroupIDType DEF GroupInv, Typed, WorkersBusy
<1>2. /\ task' = added(task, t, groupID(t)) /\ queue' = Append(queue, t) /\ exec' = exec
      /\ groups' = AddTask(groups, groupID(t), {t}) /\ t \in Roots /\ task[t].state = "new"
  BY DEF transfer
<1>3. /\ task' \in [Tasks -> TaskType] /\ task'[t].state = "pending" /\ task'[t].ctxDone = FALSE
      /\ task'[t].group = groupID(t) /\ \A u \in Tasks : u # t => task'[u] = task[u]
  <2>1. groupID(t) \in Groups \cup {NoGroup}
    BY <1>1
  <2>2. /\ added(task, t, groupID(t)) \in [Tasks -> TaskType]
        /\ added(task, t, groupID(t))[t] = [state |-> "pending", ctxDone |-> FALSE, retry |-> 0, group |-> groupID(t)]
        /\ \A u \in Tasks : u # t => added(task, t, groupID(t))[u] = task[u]
    BY <1>1, <2>1, AddedFacts
  <2> QED
    BY <1>2, <2>2
<1>4. ~QHas(queue, t) /\ ~Runs(exec, t) /\ \A w \in Workers : exec[w].pc # "off" => exec[w].task # t
  BY <1>2 DEF GroupInv, PlaceInv, StateTellsPlace, Finished, Runs, Typed, ExecType
<1>5. /\ QOnce(queue') /\ \A u : QHas(queue', u) <=> QHas(queue, u) \/ u = t
  BY <1>1, <1>2, <1>4, AppendHas DEF GroupInv, PlaceInv, OnePlace
<1>6. OnePlace'
  BY <1>2, <1>4, <1>5 DEF GroupInv, PlaceInv, OnePlace
<1>7. StateTellsPlace'
  BY <1>1, <1>2, <1>3, <1>4, <1>5 DEF GroupInv, PlaceInv, StateTellsPlace, Finished
<1>8. MembersNew'
  <2>1. \A d \in Tasks : t \notin Members[d]
    BY <1>2 DEF Roots
  <2>2. \A d \in Tasks : \A s \in Members[d] : s \in Tasks /\ s # t
    BY <2>1, TasksAssumption
  <2> QED
    BY <1>1, <1>2, <1>3, <1>4, <1>5, <2>2 DEF GroupInv, PlaceInv, MembersNew
<1>9. NoneCanceled'
  BY <1>3 DEF GroupInv, PlaceInv, NoneCanceled
<1>10. Covers(groups, lives)'
  <2>1. /\ lives \in [Tasks -> Groups \cup {NoGroup}] /\ lives' \in [Tasks -> Groups \cup {NoGroup}]
    BY <1>1, <1>3, LivesType DEF lives
  <2>2. lives[t] = NoGroup /\ lives'[t] = groupID(t) /\ \A u \in Tasks : u # t => lives'[u] = lives[u]
    BY <1>2, <1>3, <1>4, <1>5 DEF lives, LivesOf
  <2>3. /\ groups' \in [Groups -> GroupType]
        /\ groups'[groupID(t)].pending = groups[groupID(t)].pending + 1
        /\ \A h \in Groups : h # groupID(t) => groups'[h] = groups[h]
    <3>1. {t} \in SUBSET Tasks
      OBVIOUS
    <3> QED
      BY <1>1, <1>2, <3>1, AddTaskFacts
  <2> QED
    BY <1>1, <2>1, <2>2, <2>3, CoverAdd DEF GroupInv
<1> QED
  BY <1>6, <1>7, <1>8, <1>9, <1>10 DEF PlaceInv

\* The facts that every step uses.
LEMMA GroupInvTypes ==
    ASSUME GroupInv
    PROVE  /\ task \in [Tasks -> TaskType] /\ queue \in Seq(Tasks) /\ exec \in [Workers -> ExecType]
           /\ groups \in [Groups -> GroupType]
           /\ \A w \in Workers : exec[w].pc # "off" => exec[w].task \in Tasks
           /\ lives \in [Tasks -> Groups \cup {NoGroup}]
BY LivesType DEF GroupInv, Typed, WorkersBusy, lives

\* Cancel: the task stays where it is, and its count with it.
LEMMA GroupCancel ==
    ASSUME GroupInv, NEW t \in Tasks, Cancel(t)
    PROVE  PlaceInv' /\ Covers(groups, lives)'
<1>1. /\ task \in [Tasks -> TaskType] /\ queue' = queue /\ exec' = exec /\ groups' = groups
      /\ task' = [task EXCEPT ![t].state = "canceling", ![t].ctxDone = TRUE]
      /\ task[t].state \notin Finished /\ budget.cancels > 0
      /\ \A w \in Workers : exec[w].pc # "off" => exec[w].task \in Tasks
  BY GroupInvTypes DEF Cancel
<1>2. /\ task'[t].state = "canceling"
      /\ \A u \in Tasks : (u # t => task'[u] = task[u]) /\ task'[u].group = task[u].group
  BY <1>1 DEF TaskType
<1>3. OnePlace'
  BY <1>1 DEF GroupInv, PlaceInv, OnePlace
<1>4. StateTellsPlace'
  <2>1. \A w \in Workers : exec[w].pc = "complete" /\ exec[w].task = t => exec[w].final \in {"succeeded", "canceled", "failed"}
    BY DEF GroupInv, PlaceInv, StateTellsPlace
  <2> QED
    BY <1>1, <1>2, <2>1 DEF GroupInv, PlaceInv, StateTellsPlace, Finished
<1>5. MembersNew'
  <2>1. task[t].state # "new" /\ \A u \in Tasks : task[u].state = "new" <=> task'[u].state = "new"
    BY <1>1, <1>2 DEF Finished
  <2>2. \A d \in Tasks : Members[d] \subseteq Tasks
    BY TasksAssumption
  <2> QED
    BY <1>1, <2>1, <2>2 DEF GroupInv, PlaceInv, MembersNew
<1>6. NoneCanceled'
  <2>1. MaxCancels # 0
    BY <1>1, TasksAssumption DEF GroupInv, Typed, BudgetOK
  <2> QED
    BY <2>1 DEF NoneCanceled
<1>7. lives' = lives
  BY <1>1, <1>2 DEF lives, LivesOf
<1> QED
  BY <1>1, <1>3, <1>4, <1>5, <1>6, <1>7 DEF PlaceInv, GroupInv

\* Retry of a finished task: it joins the queue and the group of its destination.
LEMMA GroupRetry ==
    ASSUME GroupInv, ~RetryAny, NEW t \in Tasks, Retry(t)
    PROVE  PlaceInv' /\ Covers(groups, lives)'
<1> DEFINE c == task[t].ctxDone /\ ~AllowRetryCanceled
<1>1. /\ task \in [Tasks -> TaskType] /\ queue \in Seq(Tasks) /\ exec \in [Workers -> ExecType]
      /\ groups \in [Groups -> GroupType] /\ groupID(t) \in Groups
      /\ \A w \in Workers : exec[w].pc # "off" => exec[w].task \in Tasks
  BY GroupInvTypes, GroupIDType
<1>2. /\ task' = [task EXCEPT ![t] = [state |-> "waitingRetry", ctxDone |-> c, retry |-> 0, group |-> groupID(t)]]
      /\ queue' = Append(queue, t) /\ exec' = exec /\ groups' = AddTask(groups, groupID(t), {t})
      /\ task[t].state \in Finished /\ task[t].state # "new" /\ ~Running(t)
      /\ t \in Files \/ \A s \in Members[t] : task[s].state = "new"
  BY DEF Retry, rejoin
<1>3. c \in BOOLEAN /\ (task[t].ctxDone = FALSE => c = FALSE)
  BY <1>1 DEF TaskType
<1> HIDE DEF c
<1>4. /\ task'[t].state = "waitingRetry" /\ task'[t].ctxDone = c
      /\ task'[t].group = groupID(t) /\ \A u \in Tasks : u # t => task'[u] = task[u]
  BY <1>1, <1>2
<1>5. ~QHas(queue, t) /\ ~Runs(exec, t) /\ \A w \in Workers : exec[w].pc # "off" => exec[w].task # t
  BY <1>2 DEF GroupInv, PlaceInv, StateTellsPlace, Runs, Running
<1>6. /\ QOnce(queue') /\ \A u : QHas(queue', u) <=> QHas(queue, u) \/ u = t
  BY <1>1, <1>2, <1>5, AppendHas DEF GroupInv, PlaceInv, OnePlace
<1>7. OnePlace'
  BY <1>2, <1>5, <1>6 DEF GroupInv, PlaceInv, OnePlace
<1>8. StateTellsPlace'
  BY <1>1, <1>2, <1>4, <1>5, <1>6 DEF GroupInv, PlaceInv, StateTellsPlace, Finished
<1>9. MembersNew'
  <2>1. \A u \in Tasks : task[u].state = "new" <=> task'[u].state = "new"
    BY <1>2, <1>4
  <2>2. \A d \in Tasks : Members[d] \subseteq Tasks
    BY TasksAssumption
  <2>3. \A s \in Members[t] : task[s].state = "new"
    BY <1>2 DEF Files
  <2> QED
    BY <1>1, <1>2, <1>6, <2>1, <2>2, <2>3 DEF GroupInv, PlaceInv, MembersNew
<1>10. NoneCanceled'
  BY <1>3, <1>4 DEF GroupInv, PlaceInv, NoneCanceled
<1>11. Covers(groups, lives)'
  <2>1. task' \in [Tasks -> TaskType]
    <3>1. "waitingRetry" \in States /\ 0 \in 0..MaxRetry
      BY TasksAssumption DEF States
    <3> QED
      BY <1>1, <1>2, <1>3, <3>1 DEF TaskType
  <2>2. /\ lives \in [Tasks -> Groups \cup {NoGroup}] /\ lives' \in [Tasks -> Groups \cup {NoGroup}]
    BY <1>1, <2>1, LivesType DEF lives
  <2>3. lives[t] = NoGroup /\ lives'[t] = groupID(t) /\ \A u \in Tasks : u # t => lives'[u] = lives[u]
    BY <1>2, <1>4, <1>5, <1>6 DEF lives, LivesOf
  <2>4. /\ groups' \in [Groups -> GroupType]
        /\ groups'[groupID(t)].pending = groups[groupID(t)].pending + 1
        /\ \A h \in Groups : h # groupID(t) => groups'[h] = groups[h]
    <3>1. {t} \in SUBSET Tasks
      OBVIOUS
    <3> DEFINE gs == AddTask(groups, groupID(t), {t})
    <3>2. gs \in [Groups -> GroupType]
      BY <1>1, <3>1, AddTaskFacts
    <3>3. gs[groupID(t)].pending = groups[groupID(t)].pending + 1
      BY <1>1, <3>1, AddTaskFacts
    <3>4. \A h \in Groups : h # groupID(t) => gs[h] = groups[h]
      BY <1>1, <3>1, AddTaskFacts
    <3>5. groups' = gs
      BY <1>2
    <3> HIDE DEF gs
    <3> QED
      BY <3>2, <3>3, <3>4, <3>5
  <2> QED
    BY <1>1, <2>2, <2>3, <2>4, CoverAdd DEF GroupInv
<1> QED
  BY <1>7, <1>8, <1>9, <1>10, <1>11 DEF PlaceInv

\* Manager.next: the task goes from the queue to the worker, or ends in the queue.
LEMMA GroupNext ==
    ASSUME GroupInv, NEW w \in Workers, next(w)
    PROVE  PlaceInv' /\ Covers(groups, lives)'
<1>1. /\ task \in [Tasks -> TaskType] /\ queue \in Seq(Tasks) /\ exec \in [Workers -> ExecType]
      /\ groups \in [Groups -> GroupType] /\ queue # <<>> /\ exec[w].pc = "off" /\ groups' = groups
      /\ \A v \in Workers : exec[v].pc # "off" => exec[v].task \in Tasks
  BY GroupInvTypes DEF next
<1>2. PICK t \in Tasks :
      /\ t = Head(queue) /\ queue' = Tail(queue)
      /\ \/ /\ task[t].ctxDone /\ task' = SetState(task, t, "canceled") /\ exec' = exec
         \/ /\ ~task[t].ctxDone /\ task' = SetState(task, t, "running")
            /\ exec' \in [Workers -> ExecType]
            /\ exec'[w].pc = "run" /\ exec'[w].task = t /\ exec'[w].added = {}
            /\ \A v \in Workers : v # w => exec'[v] = exec[v]
  BY NextFacts DEF GroupInv
<1>3. /\ QHas(queue, t) /\ QOnce(queue')
      /\ \A u : QHas(queue', u) <=> QHas(queue, u) /\ u # t
  BY <1>1, <1>2, TailHas DEF GroupInv, PlaceInv, OnePlace
<1>4. /\ task[t].state \notin Finished /\ \A v \in Workers : exec[v].pc # "off" => exec[v].task # t
  BY <1>3 DEF GroupInv, PlaceInv, OnePlace, StateTellsPlace
<1>5. "canceled" \in States /\ "running" \in States
  BY DEF States
<1>6. PICK x \in {"canceled", "running"} : task' = SetState(task, t, x)
  BY <1>2
<1>7. /\ task' \in [Tasks -> TaskType] /\ task'[t].state = x
      /\ \A u \in Tasks : (u # t => task'[u] = task[u]) /\ task'[u].group = task[u].group /\ task'[u].ctxDone = task[u].ctxDone
  BY <1>1, <1>5, <1>6, StateFacts
<1>8. \A u \in Tasks : task[u].state = "new" <=> task'[u].state = "new"
  BY <1>4, <1>7 DEF Finished
<1>9. \A d \in Tasks : Members[d] \subseteq Tasks
  BY TasksAssumption
<1>10. NoneCanceled'
  BY <1>7 DEF GroupInv, PlaceInv, NoneCanceled
<1>11. lives \in [Tasks -> Groups \cup {NoGroup}] /\ lives' \in [Tasks -> Groups \cup {NoGroup}]
  BY <1>1, <1>7, LivesType DEF lives
<1>12. CASE task[t].ctxDone /\ exec' = exec
  <2>1. OnePlace'
    BY <1>3, <1>12 DEF GroupInv, PlaceInv, OnePlace
  <2>2. StateTellsPlace'
    BY <1>1, <1>3, <1>4, <1>7, <1>12 DEF GroupInv, PlaceInv, StateTellsPlace
  <2>3. MembersNew'
    BY <1>1, <1>3, <1>8, <1>9, <1>12 DEF GroupInv, PlaceInv, MembersNew
  <2>4. lives'[t] = NoGroup /\ \A u \in Tasks : u # t => lives'[u] = lives[u]
    BY <1>3, <1>4, <1>7, <1>12 DEF lives, LivesOf, Runs
  <2>5. MaxCancels # 0
    BY <1>12 DEF GroupInv, PlaceInv, NoneCanceled
  <2>6. Covers(groups, lives)'
    BY <1>1, <1>11, <2>4, <2>5, CoverDrop DEF GroupInv
  <2> QED
    BY <1>10, <2>1, <2>2, <2>3, <2>6 DEF PlaceInv
<1>13. CASE /\ ~task[t].ctxDone /\ task' = SetState(task, t, "running")
            /\ exec'[w].pc = "run" /\ exec'[w].task = t /\ exec'[w].added = {}
            /\ \A v \in Workers : v # w => exec'[v] = exec[v]
  <2>0. task'[t].state = "running"
    BY <1>1, <1>5, <1>13, StateFacts
  <2>1. OnePlace'
    BY <1>3, <1>4, <1>13 DEF GroupInv, PlaceInv, OnePlace
  <2>2. StateTellsPlace'
    BY <1>1, <1>3, <1>4, <1>7, <1>13, <2>0 DEF GroupInv, PlaceInv, StateTellsPlace, Finished
  <2>3. MembersNew'
    BY <1>1, <1>3, <1>8, <1>9, <1>13 DEF GroupInv, PlaceInv, MembersNew
  <2>4. \A u \in Tasks : QHas(queue', u) \/ Runs(exec', u) <=> QHas(queue, u) \/ Runs(exec, u)
    BY <1>1, <1>3, <1>4, <1>13 DEF Runs
  <2>5. lives' = lives
    BY <1>7, <2>4 DEF lives, LivesOf
  <2> QED
    BY <1>1, <1>10, <2>1, <2>2, <2>3, <2>5 DEF PlaceInv, GroupInv
<1> QED
  BY <1>2, <1>12, <1>13

\* The end of a run: the task is live no longer, and its Done is counted.
LEMMA GroupHook ==
    ASSUME GroupInv, NEW w \in Workers, NEW t \in Tasks, exec[w].pc = "run", exec[w].task = t,
           NEW b \in BOOLEAN, NEW x \in {"succeeded", "failing"},
           NEW f \in {"succeeded", "canceled", "failed"}, hook(w, t, b, x, f), UNCHANGED queue
    PROVE  PlaceInv' /\ Covers(groups, lives)'
<1>1. /\ task \in [Tasks -> TaskType] /\ exec \in [Workers -> ExecType]
      /\ groups \in [Groups -> GroupType]
      /\ \A v \in Workers : exec[v].pc # "off" => exec[v].task \in Tasks
  BY GroupInvTypes
<1>2. x \in States /\ f \in States
  BY DEF States
<1>3. /\ task' = SetState(task, t, x)
      /\ groups' = done(groups, task[t].group, b)
      /\ exec'[w].pc = "complete" /\ exec'[w].task = t /\ exec'[w].final = f
      /\ \A v \in Workers : v # w => exec'[v] = exec[v]
  BY <1>2, HookFacts DEF GroupInv
<1>4. /\ task' \in [Tasks -> TaskType] /\ task'[t].state = x
      /\ \A u \in Tasks : (u # t => task'[u] = task[u]) /\ task'[u].group = task[u].group /\ task'[u].ctxDone = task[u].ctxDone
  BY <1>1, <1>2, <1>3, StateFacts
<1>5. /\ task[t].state \notin Finished /\ ~QHas(queue, t)
      /\ \A v \in Workers : v # w /\ exec[v].pc # "off" => exec[v].task # t
  BY DEF GroupInv, PlaceInv, OnePlace, StateTellsPlace
<1>6. \A u \in Tasks : task[u].state = "new" <=> task'[u].state = "new"
  BY <1>4, <1>5 DEF Finished
<1>7. OnePlace'
  BY <1>3 DEF GroupInv, PlaceInv, OnePlace
<1>8. StateTellsPlace'
  BY <1>1, <1>3, <1>4, <1>5 DEF GroupInv, PlaceInv, StateTellsPlace, Finished
<1>9. MembersNew'
  <2>1. \A d \in Tasks : Members[d] \subseteq Tasks
    BY TasksAssumption
  <2> QED
    BY <1>1, <1>3, <1>6, <2>1 DEF GroupInv, PlaceInv, MembersNew
<1>10. NoneCanceled'
  BY <1>4 DEF GroupInv, PlaceInv, NoneCanceled
<1>11. Covers(groups, lives)'
  <2>1. lives \in [Tasks -> Groups \cup {NoGroup}] /\ lives' \in [Tasks -> Groups \cup {NoGroup}]
    BY <1>1, <1>4, LivesType DEF lives
  <2>2. lives[t] = task[t].group
    BY DEF lives, LivesOf, Runs
  <2>3. lives'[t] = NoGroup /\ \A u \in Tasks : u # t => lives'[u] = lives[u]
    BY <1>3, <1>4, <1>5 DEF lives, LivesOf, Runs
  <2>4. Covers(done(groups, lives[t], b), lives')
    BY <1>1, <2>1, <2>3, CoverDone DEF GroupInv
  <2> QED
    BY <1>3, <2>2, <2>4
<1> QED
  BY <1>7, <1>8, <1>9, <1>10, <1>11 DEF PlaceInv

\* An error: the task runs again in the same worker, or ends.  No member was added to a
\* directory that runs again.
LEMMA GroupError ==
    ASSUME GroupInv, NEW w \in Workers, NEW t \in Tasks, exec[w].pc = "run", exec[w].task = t,
           onError(w, t), UNCHANGED queue,
           Members[t] = {} \/ exec[w].added = {} \/ task[t].ctxDone
    PROVE  PlaceInv' /\ Covers(groups, lives)'
<1>1. /\ task \in [Tasks -> TaskType] /\ exec \in [Workers -> ExecType]
      /\ groups \in [Groups -> GroupType]
      /\ \A v \in Workers : exec[v].pc # "off" => exec[v].task \in Tasks
  BY GroupInvTypes
<1>2. CASE hook(w, t, FALSE, "failing", IF task[t].ctxDone THEN "canceled" ELSE "failed")
  <2>1. /\ FALSE \in BOOLEAN /\ "failing" \in {"succeeded", "failing"}
        /\ (IF task[t].ctxDone THEN "canceled" ELSE "failed") \in {"succeeded", "canceled", "failed"}
    OBVIOUS
  <2> QED
    BY <1>2, <2>1, GroupHook
<1>3. CASE /\ needRetry(t) /\ task' = RunAgain(task, t)
           /\ exec' = SetAdded(exec, w, {}) /\ UNCHANGED groups
  <2>1. task[t].retry < MaxRetry /\ ~task[t].ctxDone
    BY <1>3 DEF needRetry
  <2>2. /\ task' \in [Tasks -> TaskType] /\ task'[t].state = "running"
        /\ \A u \in Tasks : (u # t => task'[u] = task[u]) /\ task'[u].group = task[u].group /\ task'[u].ctxDone = task[u].ctxDone
    BY <1>1, <1>3, <2>1, AgainFacts
  <2> DEFINE e == SetAdded(exec, w, {})
  <2>3. {} \in SUBSET Tasks
    OBVIOUS
  <2>4. e[w].added = {}
    BY <1>1, <2>3, AddedSetFacts
  <2>5. \A v \in Workers : e[v].pc = exec[v].pc /\ e[v].task = exec[v].task
    BY <1>1, <2>3, AddedSetFacts
  <2>6. \A v \in Workers : e[v].final = exec[v].final /\ (v # w => e[v] = exec[v])
    BY <1>1, <2>3, AddedSetFacts
  <2> HIDE DEF e
  <2>7. /\ exec'[w].added = {}
        /\ \A v \in Workers : /\ exec'[v].pc = exec[v].pc /\ exec'[v].task = exec[v].task
                              /\ exec'[v].final = exec[v].final /\ (v # w => exec'[v] = exec[v])
    BY <1>3, <2>4, <2>5, <2>6 DEF e
  <2>8. task[t].state \notin Finished
    BY DEF GroupInv, PlaceInv, StateTellsPlace
  <2>9. \A u \in Tasks : task[u].state = "new" <=> task'[u].state = "new"
    BY <2>2, <2>8 DEF Finished
  <2>10. OnePlace'
    BY <2>7 DEF GroupInv, PlaceInv, OnePlace
  <2>11. \A v \in Workers : exec[v].pc # "off" /\ exec[v].task = t => v = w
    BY DEF GroupInv, PlaceInv, OnePlace
  <2>12. StateTellsPlace'
    BY <1>1, <2>2, <2>7, <2>8, <2>11 DEF GroupInv, PlaceInv, StateTellsPlace, Finished
  <2>13. MembersNew'
    <3>1. \A d \in Tasks : Members[d] \subseteq Tasks
      BY TasksAssumption
    <3>2. Members[t] = {} \/ exec[w].added = {}
      BY <2>1
    <3> QED
      BY <1>1, <2>7, <2>9, <3>1, <3>2 DEF GroupInv, PlaceInv, MembersNew
  <2>14. NoneCanceled'
    BY <2>2 DEF GroupInv, PlaceInv, NoneCanceled
  <2>15. lives' = lives
    BY <2>2, <2>7 DEF lives, LivesOf, Runs
  <2> QED
    BY <1>3, <2>10, <2>12, <2>13, <2>14, <2>15 DEF PlaceInv, GroupInv
<1> QED
  BY <1>2, <1>3, OnErrorFacts DEF GroupInv

AddsMember(w, t, s) ==
    /\ groups' = countMember(task[t].group) /\ task' = added(task, s, task[t].group)
    /\ queue' = Append(queue, s) /\ exec' = SetAdded(exec, w, exec[w].added \cup {s})

\* A directory's run adds a member, which did not exist: it joins the queue and the group.
LEMMA GroupMember ==
    ASSUME GroupInv, NEW w \in Workers, NEW t \in Tasks, exec[w].pc = "run", exec[w].task = t,
           NEW s \in Members[t] \ exec[w].added, AddsMember(w, t, s)
    PROVE  PlaceInv' /\ Covers(groups, lives)'
<1>1. /\ task \in [Tasks -> TaskType] /\ queue \in Seq(Tasks) /\ exec \in [Workers -> ExecType]
      /\ groups \in [Groups -> GroupType]
      /\ \A v \in Workers : exec[v].pc # "off" => exec[v].task \in Tasks
  BY GroupInvTypes
<1>2. /\ s \in Tasks /\ task' \in [Tasks -> TaskType]
      /\ groups' \in [Groups -> GroupType]
      /\ exec'[w].added = exec[w].added \cup {s}
      /\ \A v \in Workers : /\ exec'[v].pc = exec[v].pc /\ exec'[v].task = exec[v].task
                            /\ exec'[v].final = exec[v].final
                            /\ v # w => exec'[v] = exec[v]
  BY AddMemberFacts DEF GroupInv, AddsMember
<1>3. /\ task'[s].state = "pending" /\ task'[s].ctxDone = FALSE
      /\ task'[s].group = task[t].group /\ \A u \in Tasks : u # s => task'[u] = task[u]
  <2>1. task[t].group \in Groups \cup {NoGroup}
    BY <1>1 DEF TaskType
  <2> DEFINE ts == added(task, s, task[t].group)
  <2>2. /\ ts[s] = [state |-> "pending", ctxDone |-> FALSE, retry |-> 0, group |-> task[t].group]
        /\ \A u \in Tasks : u # s => ts[u] = task[u]
    BY <1>1, <1>2, <2>1, AddedFacts
  <2> HIDE DEF ts
  <2>3. task' = ts
    BY DEF ts, AddsMember
  <2> QED
    BY <2>2, <2>3
<1>4. task[s].state = "new"
  BY DEF GroupInv, PlaceInv, MembersNew
<1>5. /\ ~QHas(queue, s) /\ ~Runs(exec, s) /\ \A v \in Workers : exec[v].pc # "off" => exec[v].task # s
  <2>1. task[s].state \in Finished
    BY <1>4 DEF Finished
  <2>2. ~QHas(queue, s)
    BY <1>2, <2>1 DEF GroupInv, PlaceInv, StateTellsPlace
  <2>3. ASSUME NEW v \in Workers, exec[v].pc # "off"
        PROVE  exec[v].task # s
    <3>1. exec[v].pc = "run" \/ exec[v].pc = "complete"
      BY <1>1, <2>3 DEF ExecType
    <3>2. task[exec[v].task].state # "new"
      BY <3>1 DEF GroupInv, PlaceInv, StateTellsPlace, Finished
    <3> QED
      BY <1>4, <3>2
  <2> QED
    BY <2>2, <2>3 DEF Runs
<1>6. /\ QOnce(queue') /\ \A u : QHas(queue', u) <=> QHas(queue, u) \/ u = s
  BY <1>1, <1>2, <1>5, AppendHas DEF GroupInv, PlaceInv, OnePlace, AddsMember
<1>7. /\ task[t].state \notin Finished /\ ~QHas(queue, t) /\ s # t
      /\ \A v \in Workers : v # w /\ exec[v].pc # "off" => exec[v].task # t
  BY <1>4 DEF GroupInv, PlaceInv, OnePlace, StateTellsPlace, Finished
<1>8. OnePlace'
  BY <1>2, <1>5, <1>6 DEF GroupInv, PlaceInv, OnePlace
<1>9. StateTellsPlace'
  BY <1>1, <1>2, <1>3, <1>5, <1>6 DEF GroupInv, PlaceInv, StateTellsPlace, Finished
<1>10. MembersNew'
  <2>1. Members[s] = {} /\ \A d \in Tasks : Members[d] \subseteq Tasks /\ (d # t => s \notin Members[d])
    BY <1>2, TasksAssumption
  <2>2. ASSUME NEW d \in Tasks, task'[d].state = "new" \/ QHas(queue', d), NEW m \in Members[d]
        PROVE  task'[m].state = "new"
    <3>1. d # s /\ (task[d].state = "new" \/ QHas(queue, d))
      BY <1>3, <1>6, <2>1, <2>2
    <3>2. d # t
      BY <1>7, <3>1 DEF Finished
    <3>3. task[m].state = "new"
      BY <3>1 DEF GroupInv, PlaceInv, MembersNew
    <3> QED
      BY <1>3, <2>1, <3>2, <3>3
  <2>3. ASSUME NEW v \in Workers, exec'[v].pc = "run", NEW m \in Members[exec'[v].task] \ exec'[v].added
        PROVE  task'[m].state = "new"
    <3>1. exec[v].pc = "run" /\ exec'[v].task = exec[v].task /\ exec[v].task \in Tasks
      BY <1>1, <1>2, <2>3
    <3>2. m \in Members[exec[v].task] \ exec[v].added /\ m # s
      BY <1>2, <1>7, <2>1, <2>3, <3>1
    <3>3. task[m].state = "new"
      BY <3>1, <3>2 DEF GroupInv, PlaceInv, MembersNew
    <3> QED
      BY <1>3, <2>1, <3>1, <3>2, <3>3
  <2> QED
    BY <2>2, <2>3 DEF MembersNew
<1>11. NoneCanceled'
  BY <1>3 DEF GroupInv, PlaceInv, NoneCanceled
<1>12. Covers(groups, lives)'
  <2>1. lives \in [Tasks -> Groups \cup {NoGroup}] /\ lives' \in [Tasks -> Groups \cup {NoGroup}]
    BY <1>1, <1>2, LivesType DEF lives
  <2>2. lives[s] = NoGroup /\ lives'[s] = task[t].group /\ \A u \in Tasks : u # s => lives'[u] = lives[u]
    <3>1. \A u \in Tasks : Runs(exec', u) <=> Runs(exec, u)
      BY <1>2 DEF Runs
    <3>2. lives[s] = NoGroup /\ lives'[s] = task'[s].group
      BY <1>2, <1>5, <1>6, <3>1 DEF lives, LivesOf
    <3>3. \A u \in Tasks : u # s => (QHas(queue', u) <=> QHas(queue, u)) /\ task'[u].group = task[u].group
      BY <1>3, <1>6
    <3>4. \A u \in Tasks : u # s => lives'[u] = lives[u]
      BY <3>1, <3>3 DEF lives, LivesOf
    <3> QED
      BY <1>3, <3>2, <3>4
  <2> DEFINE g == task[t].group
             gs == AddTask(groups, g, {})
  <2>3. {} \in SUBSET Tasks
    OBVIOUS
  <2>4. g \in Groups => gs[g].pending = groups[g].pending + 1
    BY <1>1, <2>3, AddTaskFacts
  <2>5. g \in Groups => \A h \in Groups : h # g => gs[h] = groups[h]
    BY <1>1, <2>3, AddTaskFacts
  <2>6. groups' = IF g \in Groups THEN gs ELSE groups
    BY DEF countMember, AddsMember
  <2> HIDE DEF gs
  <2>7. /\ g \in Groups => groups'[g].pending = groups[g].pending + 1
        /\ \A h \in Groups : h # g => groups'[h] = groups[h]
    BY <2>4, <2>5, <2>6
  <2>8. g = lives'[s] /\ Covers(groups, lives)
    BY <2>2 DEF GroupInv
  <2> HIDE DEF g
  <2>9. /\ lives'[s] \in Groups => groups'[lives'[s]].pending = groups[lives'[s]].pending + 1
        /\ \A h \in Groups : h # lives'[s] => groups'[h] = groups[h]
    BY <2>7, <2>8
  <2> QED
    BY <1>1, <1>2, <2>1, <2>2, <2>8, <2>9, CoverAdd
<1> QED
  BY <1>8, <1>9, <1>10, <1>11, <1>12 DEF PlaceInv

\* A step of a run: a file's, or a directory's.
LEMMA GroupRun ==
    ASSUME GroupInv, NEW w \in Workers, Run(w)
    PROVE  PlaceInv' /\ Covers(groups, lives)'
<1> DEFINE t == exec[w].task
<1>1. t \in Tasks /\ exec[w].pc = "run"
  BY GroupInvTypes DEF Run
<1>2. CASE succeeded(w, t) /\ UNCHANGED queue
  BY <1>1, <1>2, GroupHook DEF succeeded
<1>3. CASE onError(w, t) /\ UNCHANGED queue /\ (Members[t] = {} \/ exec[w].added = {} \/ task[t].ctxDone)
  BY <1>1, <1>3, GroupError
<1>4. CASE \E s \in Members[t] \ exec[w].added : AddsMember(w, t, s)
  BY <1>1, <1>4, GroupMember
<1>5. CASE t \in Files
  BY <1>2, <1>3, <1>5 DEF Run, RunFile, Files
<1>6. CASE t \notin Files
  BY <1>2, <1>3, <1>4, <1>6 DEF Run, RunDir, SetAdded, AddsMember
<1> QED
  BY <1>5, <1>6

\* onCompletion: no task changes its place.
LEMMA GroupRemove ==
    ASSUME GroupInv, NEW w \in Workers, Remove(w)
    PROVE  PlaceInv' /\ Covers(groups, lives)'
<1>1. PICK p \in exec[w].toRemove : exec' = [exec EXCEPT ![w].toRemove = @ \ {p}]
  BY DEF Remove
<1>2. /\ exec \in [Workers -> ExecType] /\ task' = task /\ queue' = queue /\ groups' = groups
  BY GroupInvTypes DEF Remove
<1>3. \A v \in Workers : /\ exec'[v].pc = exec[v].pc /\ exec'[v].task = exec[v].task
                         /\ exec'[v].added = exec[v].added /\ exec'[v].final = exec[v].final
  BY <1>1, <1>2 DEF ExecType
<1>4. PlaceInv'
  BY <1>2, <1>3 DEF GroupInv, PlaceInv, OnePlace, StateTellsPlace, MembersNew, NoneCanceled
<1>5. lives' = lives
  BY <1>2, <1>3 DEF lives, LivesOf, Runs
<1> QED
  BY <1>2, <1>4, <1>5 DEF GroupInv

\* The end of a worker: its task was finished already, and does not run again.
LEMMA GroupReturn ==
    ASSUME GroupInv, NEW w \in Workers, Return(w)
    PROVE  PlaceInv' /\ Covers(groups, lives)'
<1> DEFINE t == exec[w].task
<1>1. /\ task \in [Tasks -> TaskType] /\ exec \in [Workers -> ExecType] /\ queue' = queue /\ groups' = groups
      /\ \A v \in Workers : exec[v].pc # "off" => exec[v].task \in Tasks
  BY GroupInvTypes DEF Return
<1>2. t \in Tasks /\ exec[w].pc = "complete" /\ \A v \in Workers : v # w => exec'[v] = exec[v]
  BY ReturnFacts DEF GroupInv
<1>3. task[t].state \in {"succeeded", "failing", "canceling"} /\ exec[w].final \in {"succeeded", "canceled", "failed"}
  BY <1>2 DEF GroupInv, PlaceInv, StateTellsPlace
<1>4. /\ exec'[w].pc = "off"
      /\ \/ task' = SetState(task, t, task[t].state)
         \/ task' = SetState(task, t, exec[w].final)
  BY <1>3, ReturnFacts DEF GroupInv
<1>5. PICK x \in {"succeeded", "failing", "canceling", "canceled", "failed"} : task' = SetState(task, t, x)
  BY <1>3, <1>4
<1>6. x \in States /\ x # "new"
  BY DEF States
<1>7. /\ task' \in [Tasks -> TaskType] /\ task'[t].state = x
      /\ \A u \in Tasks : (u # t => task'[u] = task[u]) /\ task'[u].group = task[u].group /\ task'[u].ctxDone = task[u].ctxDone
  BY <1>1, <1>2, <1>5, <1>6, StateFacts
<1>8. ~QHas(queue, t) /\ \A v \in Workers : v # w /\ exec[v].pc # "off" => exec[v].task # t
  BY <1>2 DEF GroupInv, PlaceInv, OnePlace
<1>9. \A u \in Tasks : task[u].state = "new" <=> task'[u].state = "new"
  BY <1>3, <1>6, <1>7
<1>10. OnePlace'
  BY <1>1, <1>2, <1>4 DEF GroupInv, PlaceInv, OnePlace
<1>11. StateTellsPlace'
  BY <1>1, <1>2, <1>4, <1>7, <1>8 DEF GroupInv, PlaceInv, StateTellsPlace
<1>12. MembersNew'
  <2>1. \A d \in Tasks : Members[d] \subseteq Tasks
    BY TasksAssumption
  <2> QED
    BY <1>1, <1>2, <1>4, <1>9, <2>1 DEF GroupInv, PlaceInv, MembersNew
<1>13. NoneCanceled'
  BY <1>7 DEF GroupInv, PlaceInv, NoneCanceled
<1>14. lives' = lives
  BY <1>1, <1>2, <1>4, <1>7 DEF lives, LivesOf, Runs
<1> QED
  BY <1>1, <1>10, <1>11, <1>12, <1>13, <1>14 DEF PlaceInv, GroupInv

\* A restart: the tasks that are queued again are those that joined their groups again,
\* or, where none of them does, in no group.
LEMMA GroupRestart ==
    ASSUME GroupInv, Restart
    PROVE  PlaceInv' /\ Covers(groups, lives)'
<1>1. task \in [Tasks -> TaskType]
  BY GroupInvTypes
<1>2. PICK old \in SUBSET Tasks, todo \in SUBSET Tasks :
           /\ todo = {t \in old : recovered(task[t].state) = "pending"}
           /\ task' \in [Tasks -> TaskType]
           /\ \A t \in Tasks : IF t \notin old THEN task'[t] = task[t]
                  ELSE /\ task'[t].state = recovered(task[t].state) /\ task'[t].ctxDone = FALSE
                       /\ task'[t].group = IF MaxRetry = 0 THEN groupID(t) ELSE NoGroup
           /\ groups' \in [Groups -> GroupType]
           /\ \A g \in Groups : groups'[g].pending =
                  IF MaxRetry # 0 THEN 0 ELSE Cardinality({t \in old : groupID(t) = g})
           /\ queue' \in Seq(todo) /\ QOnce(queue')
           /\ exec' = [w \in Workers |-> Idle] /\ MaxCrashes > 0
  BY RestartFacts DEF GroupInv, QOnce
<1>3. \A t \in Tasks : Members[t] = {}
  BY <1>2, StartAssumption DEF Files
<1>4. \A w \in Workers : exec'[w].pc = "off"
  BY <1>2, IdleType
<1>5. \A t : QHas(queue', t) => t \in todo
  BY <1>2 DEF QHas
<1>6. OnePlace'
  BY <1>2, <1>4 DEF OnePlace
<1>7. StateTellsPlace'
  BY <1>2, <1>4, <1>5 DEF StateTellsPlace, Finished
<1>8. MembersNew'
  BY <1>3, <1>4 DEF MembersNew
<1>9. NoneCanceled'
  BY <1>2 DEF GroupInv, PlaceInv, NoneCanceled
<1>10. Covers(groups, lives)'
  <2> SUFFICES ASSUME NEW g \in Groups
               PROVE  groups'[g].pending >= CountIn(lives', g)
    BY <1>2 DEF Covers
  <2> DEFINE live == {t \in Tasks : lives'[t] = g}
  <2>1. g # NoGroup
    BY NoGroupIsNone
  <2>2. ASSUME NEW t \in live
        PROVE  t \in todo /\ MaxRetry = 0 /\ groupID(t) = g
    <3>1. t \in Tasks /\ QHas(queue', t) /\ task'[t].group = g
      BY <1>4, <2>1 DEF lives, LivesOf, Runs
    <3>2. t \in old
      BY <1>2, <1>5, <3>1
    <3> QED
      BY <1>2, <1>5, <2>1, <3>1, <3>2
  <2>3. CountIn(lives', g) = Cardinality(live)
    BY DEF CountIn
  <2>4. CASE MaxRetry # 0
    <3>1. live = {}
      BY <2>2, <2>4
    <3>2. CountIn(lives', g) = 0
      BY <2>3, <3>1, FS_EmptySet
    <3> QED
      BY <1>2, <2>4, <3>2
  <2>5. CASE MaxRetry = 0
    <3> DEFINE joined == {t \in old : groupID(t) = g}
    <3>1. live \subseteq joined
      BY <1>2, <2>2
    <3>2. IsFiniteSet(joined)
      BY TasksAssumption, FS_Subset
    <3>3. Cardinality(live) <= Cardinality(joined)
      BY <3>1, <3>2, FS_Subset
    <3>4. Cardinality(live) \in Nat /\ Cardinality(joined) \in Nat
      BY <3>1, <3>2, FS_Subset, FS_CardinalityType
    <3> HIDE DEF live
    <3> QED
      BY <1>2, <2>3, <2>5, <3>3, <3>4
  <2> QED
    BY <2>4, <2>5
<1> QED
  BY <1>6, <1>7, <1>8, <1>9, <1>10 DEF PlaceInv

LEMMA GroupInit == Init => GroupInv
<1> SUFFICES ASSUME Init PROVE GroupInv
  OBVIOUS
<1>1. \A w \in Workers : exec[w].pc = "off"
  BY IdleType DEF Init
<1>2. /\ queue = <<>> /\ \A t : ~QHas(queue, t)
      /\ \A t \in Tasks : task[t].state = "new" /\ task[t].ctxDone = FALSE /\ task[t].group = NoGroup
  BY DEF Init, QHas
<1>3. OnePlace
  BY <1>1, <1>2 DEF OnePlace, QOnce
<1>4. StateTellsPlace /\ NoneCanceled
  BY <1>1, <1>2 DEF StateTellsPlace, NoneCanceled
<1>5. MembersNew
  <2>1. \A d \in Tasks : Members[d] \subseteq Tasks
    BY TasksAssumption
  <2> QED
    BY <1>1, <1>2, <2>1 DEF MembersNew
<1>6. Covers(groups, lives)
  <2> SUFFICES ASSUME NEW g \in Groups
               PROVE  groups[g].pending = 0 /\ CountIn(lives, g) = 0
    BY DEF Covers
  <2>1. {t \in Tasks : lives[t] = g} = {}
    BY <1>2, NoGroupIsNone DEF lives, LivesOf
  <2> QED
    BY <2>1, FS_EmptySet DEF Init, NoState, CountIn
<1> QED
  BY <1>3, <1>4, <1>5, <1>6, TypedInit DEF GroupInv, PlaceInv

LEMMA GroupStep == ASSUME ~RetryAny PROVE GroupInv /\ [Next]_vars => GroupInv'
<1> SUFFICES ASSUME GroupInv, [Next]_vars PROVE PlaceInv' /\ Covers(groups, lives)'
  BY TypedStep DEF GroupInv
<1>1. ASSUME NEW w \in Workers, next(w) \/ Run(w) \/ Remove(w) \/ Return(w)
      PROVE  PlaceInv' /\ Covers(groups, lives)'
  BY <1>1, GroupNext, GroupRun, GroupRemove, GroupReturn
<1>2. CASE Restart
  BY <1>2, GroupRestart
<1>3. ASSUME NEW t \in Tasks, transfer(t) \/ Cancel(t) \/ Retry(t)
      PROVE  PlaceInv' /\ Covers(groups, lives)'
  BY <1>3, GroupTransfer, GroupCancel, GroupRetry
<1>4. CASE UNCHANGED vars
  BY <1>4 DEF vars, GroupInv, PlaceInv, OnePlace, StateTellsPlace, MembersNew, NoneCanceled, lives, LivesOf, Covers
<1> QED
  BY <1>1, <1>2, <1>3, <1>4 DEF Next, Work

\* The queued and the running runs of a group are as many as its live tasks.
LEMMA LiveRuns ==
    ASSUME GroupInv, NEW g \in Groups
    PROVE  /\ Cardinality(Queued(g)) + Cardinality(InRun(g)) <= CountIn(lives, g)
           /\ CountIn(lives, g) \in Nat
           /\ Cardinality(Queued(g)) \in Nat /\ Cardinality(InRun(g)) \in Nat
<1>1. /\ task \in [Tasks -> TaskType] /\ queue \in Seq(Tasks)
      /\ \A w \in Workers : exec[w].pc # "off" => exec[w].task \in Tasks
  BY GroupInvTypes
<1> DEFINE live == {t \in Tasks : lives[t] = g}
           lq == {t \in live : QHas(queue, t)}
           lr == {t \in live : Runs(exec, t)}
<1>2. IsFiniteSet(live) /\ IsFiniteSet(lq) /\ IsFiniteSet(lr)
  BY TasksAssumption, FS_Subset
<1>3. lq \cap lr = {}
  BY DEF GroupInv, PlaceInv, OnePlace, Runs
<1>4. /\ IsFiniteSet(Queued(g)) /\ Cardinality(Queued(g)) <= Cardinality(lq)
  <2> DEFINE f == [i \in Queued(g) |-> queue[i]]
  <2>1. f \in [Queued(g) -> lq]
    BY <1>1 DEF Queued, lives, LivesOf, QHas
  <2>2. \A i, j \in Queued(g) : f[i] = f[j] => i = j
    BY DEF Queued, GroupInv, PlaceInv, OnePlace, QOnce
  <2>3. f \in Injection(Queued(g), lq)
    BY <2>1, <2>2 DEF Injection, IsInjective
  <2> QED
    BY <1>2, <2>3, FS_Injection
<1>5. /\ IsFiniteSet(InRun(g)) /\ Cardinality(InRun(g)) <= Cardinality(lr)
  <2> DEFINE f == [w \in InRun(g) |-> exec[w].task]
  <2>1. f \in [InRun(g) -> lr]
    BY <1>1 DEF InRun, lives, LivesOf, Runs
  <2>2. \A v, w \in InRun(g) : f[v] = f[w] => v = w
    BY DEF InRun, GroupInv, PlaceInv, OnePlace
  <2>3. f \in Injection(InRun(g), lr)
    BY <2>1, <2>2 DEF Injection, IsInjective
  <2> QED
    BY <1>2, <2>3, FS_Injection
<1>6. lq \cup lr \subseteq live /\ IsFiniteSet(lq \cup lr)
  BY <1>2, FS_Union
<1>7. Cardinality(lq) + Cardinality(lr) <= Cardinality(live)
  <2>1. Cardinality(lq \cup lr) = Cardinality(lq) + Cardinality(lr)
    <3>1. Cardinality(lq \cup lr) = Cardinality(lq) + Cardinality(lr) - Cardinality(lq \cap lr)
      BY <1>2, FS_Union
    <3>2. Cardinality(lq \cap lr) = 0
      BY <1>3, FS_EmptySet
    <3>3. Cardinality(lq) \in Nat /\ Cardinality(lr) \in Nat
      BY <1>2, FS_CardinalityType
    <3> QED
      BY <3>1, <3>2, <3>3
  <2>2. Cardinality(lq \cup lr) <= Cardinality(live)
    BY <1>2, <1>6, FS_Subset
  <2> QED
    BY <2>1, <2>2
<1>8. /\ Cardinality(lq) \in Nat /\ Cardinality(lr) \in Nat /\ Cardinality(live) \in Nat
      /\ Cardinality(Queued(g)) \in Nat /\ Cardinality(InRun(g)) \in Nat
  BY <1>2, <1>4, <1>5, FS_CardinalityType
<1>9. CountIn(lives, g) = Cardinality(live)
  BY DEF CountIn
<1> HIDE DEF live, lq, lr
<1> QED
  BY <1>4, <1>5, <1>7, <1>8, <1>9

\* The inductive invariant holds wherever users retry only what is finished.
LEMMA GroupAlways == ASSUME ~RetryAny PROVE Spec => []GroupInv
<1>1. Init => GroupInv
  BY GroupInit
<1>2. GroupInv /\ [Next]_vars => GroupInv'
  BY GroupStep
<1> QED
  BY <1>1, <1>2, PTL DEF Spec

\* The count that the coordinator keeps of a group (AddTask, Done) covers every task that
\* will still call Done, whatever is added, cancelled, retried once finished or recovered
\* after a restart: no group completes, and no source of it is removed, before its last task.
THEOREM PendingIsEnough == ASSUME ~RetryAny PROVE Spec => []PendingCoversLive
<1>1. GroupInv => PendingCoversLive
  <2> SUFFICES ASSUME GroupInv, NEW g \in Groups
               PROVE  groups[g].pending >= Cardinality(Queued(g)) + Cardinality(InRun(g))
    BY DEF PendingCoversLive
  <2>1. groups[g].pending >= CountIn(lives, g) /\ groups[g].pending \in Nat
    BY GroupInvTypes DEF GroupInv, Covers, GroupType
  <2> QED
    BY <2>1, LiveRuns
<1> QED
  BY <1>1, GroupAlways, PTL

\* Without a cancellation and a restart the count is exact: once no task is queued or runs,
\* no group waits for a Done, so the sources of every group were looked at (onCompletion).
THEOREM NoGroupWaitsForever ==
    ASSUME ~RetryAny, MaxCancels = 0, MaxCrashes = 0 PROVE Spec => []NoGroupStuck
<1>1. GroupInv => NoGroupStuck
  <2> SUFFICES ASSUME GroupInv, queue = <<>>, \A w \in Workers : exec[w].pc # "run", NEW g \in Groups
               PROVE  groups[g].pending = 0
    BY DEF NoGroupStuck
  <2>1. {t \in Tasks : lives[t] = g} = {}
    BY NoGroupIsNone DEF lives, LivesOf, QHas, Runs
  <2>2. CountIn(lives, g) = 0
    BY <2>1, FS_EmptySet DEF CountIn
  <2> QED
    BY <2>2 DEF GroupInv, Covers
<1> QED
  BY <1>1, GroupAlways, PTL
=============================================================================
