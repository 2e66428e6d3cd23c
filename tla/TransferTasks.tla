--------------------------- MODULE TransferTasks ---------------------------
(***************************************************************************)
(* Background moves: the transfer tasks of internal/fs/copy_move.go, the   *)
(* task manager that runs them (vendor/.../tache) and the coordinator that *)
(* removes the sources of a group once its last task is done               *)
(* (internal/task_group).                                                  *)
(*                                                                         *)
(* A task moves one file, or one directory by adding a task for each of    *)
(* its members.  All the top tasks move into one directory, so they share  *)
(* one group, as the moves of one request do.  An upload is all or nothing *)
(* (Local.Put).  A directory is run again only if its members have not     *)
(* been added: a second run would add new tasks for them.                  *)
(***************************************************************************)
EXTENDS Integers, Sequences, FiniteSets

CONSTANTS Tasks,       \* the tasks that can be created
          Members,     \* Members[t]: the members of the directory t moves, or {}
          Top,         \* the group of the tasks that a request adds
          NoGroup,     \* the empty group ID
          Workers,     \* workers of the manager
          MaxRetry,    \* automatic retries of a task
          AllowRetryCanceled,  \* conf.Tasks.AllowRetryCanceled
          RetryAny,    \* do users retry tasks that are not finished?
          StartDst,    \* the files that already exist at the destination
          MaxCancels, MaxRetries, MaxCrashes  \* bounds on what users and fate do

ASSUME TasksAssumption ==
    /\ IsFiniteSet(Tasks)
    /\ Members \in [Tasks -> SUBSET Tasks]
    /\ \A s, t \in Tasks : s # t => Members[s] \cap Members[t] = {}
    /\ \A t \in Tasks : \A s \in Members[t] : Members[s] = {}
    /\ {Top, NoGroup} \cap Tasks = {} /\ Top # NoGroup
    /\ IsFiniteSet(Workers) /\ {AllowRetryCanceled, RetryAny} \subseteq BOOLEAN
    /\ {MaxRetry, MaxCancels, MaxRetries, MaxCrashes} \subseteq Nat

Files == {t \in Tasks : Members[t] = {}}
Roots == {t \in Tasks : \A s \in Tasks : t \notin Members[s]}
Groups == Tasks \cup {Top}

\* Restarts are modelled for files.
ASSUME StartAssumption == StartDst \subseteq Files /\ (MaxCrashes > 0 => Files = Tasks)

VARIABLES task,    \* the FileTransferTasks
          queue,   \* the manager's queue
          exec,    \* what each worker is doing
          groups,  \* groupStates and groupPayloads of the coordinator
          src,     \* the files at the source
          dst,     \* what is at the destination under each file's name
          budget   \* what is left of the bounds

vars == <<task, queue, exec, groups, src, dst, budget>>

\* The group that transfer and SetRetry compute from the destination path.
groupID(t) == IF t \in Roots THEN Top ELSE CHOOSE s \in Tasks : t \in Members[s]

NoState == [pending |-> 0, hasSuccess |-> FALSE, payloads |-> {}]

Finished == {"new", "succeeded", "canceled", "failed"}

-----------------------------------------------------------------------------
(***************************************************************************)
(* TaskGroupCoordinator                                                    *)
(***************************************************************************)

AddTask(gs, g, payload) ==
    [gs EXCEPT ![g].pending = @ + 1, ![g].payloads = @ \cup payload]

\* The group after Done.
done(gs, g, success) ==
    IF g \notin Groups \/ gs[g].pending = 0 THEN gs
    ELSE IF gs[g].pending = 1 THEN [gs EXCEPT ![g] = NoState]
    ELSE [gs EXCEPT ![g].pending = @ - 1,
                    ![g].hasSuccess = @ \/ success]

\* The sources for onCompletion to remove, if this Done is the group's last.
toRemove(gs, g, success) ==
    IF g \in Groups /\ gs[g].pending = 1 /\ (gs[g].hasSuccess \/ success)
    THEN gs[g].payloads ELSE {}

\* verifyAndRemove: the files of t that have a namesake at the destination; a
\* directory that is not there at all is left alone.
\* (Mutant: the destination is not looked at.)
verifyAndRemove_Blind(t) == Members[t] \cup {t}

verifyAndRemove(t) ==
    {f \in (IF t \in Files THEN {t} ELSE Members[t]) : dst[f] # "none"}

-----------------------------------------------------------------------------
(***************************************************************************)
(* The task manager                                                        *)
(***************************************************************************)

\* Manager.Add of a task that was just made.
added(ts, t, g) ==
    [ts EXCEPT ![t] = [state |-> "pending", ctxDone |-> FALSE, retry |-> 0,
                       group |-> g]]

\* fs.transfer of a move between storages.
transfer(t) ==
    /\ t \in Roots /\ task[t].state = "new"
    /\ groups' = AddTask(groups, groupID(t), {t})
    /\ task' = added(task, t, groupID(t))
    /\ queue' = Append(queue, t)
    /\ UNCHANGED <<exec, src, dst, budget>>

\* A worker: the task it has, the members it added, the sources left to remove
\* and the state that the task will end in.
worker(pc, t, remove, final) ==
    [pc |-> pc, task |-> t, added |-> {}, toRemove |-> remove, final |-> final]

Idle == worker("off", NoGroup, {}, "new")

Running(t) == \E w \in Workers : exec[w].pc # "off" /\ exec[w].task = t

\* Manager.next: a free worker takes the next task.  A task that was cancelled
\* in the queue ends here, without a call to OnFailed.
next(w) ==
    /\ queue # <<>> /\ exec[w].pc = "off"
    /\ queue' = Tail(queue)
    /\ LET t == Head(queue)
       IN  IF task[t].ctxDone
           THEN task' = [task EXCEPT ![t].state = "canceled"] /\ UNCHANGED exec
           ELSE /\ task' = [task EXCEPT ![t].state = "running"]
                /\ exec' = [exec EXCEPT ![w] = worker("run", t, {}, "new")]
    /\ UNCHANGED <<groups, src, dst, budget>>

\* The hook OnSucceeded or OnFailed calls Done, and then onCompletion if this
\* was the last task of its group.
hook(w, t, success, state, final) ==
    LET g == task[t].group
    IN  /\ task' = [task EXCEPT ![t].state = state]
        /\ groups' = done(groups, g, success)
        /\ exec' = [exec EXCEPT ![w] =
                       worker("complete", t, toRemove(groups, g, success), final)]

succeeded(w, t) == hook(w, t, TRUE, "succeeded", "succeeded")

\* needRetry: an error leads to another run in the same worker.
needRetry(t) == ~task[t].ctxDone /\ task[t].retry < MaxRetry

\* Run returned an error.
onError(w, t) ==
    IF needRetry(t)
    THEN /\ task' = [task EXCEPT ![t].retry = @ + 1, ![t].state = "running"]
         /\ exec' = [exec EXCEPT ![w].added = {}]
         /\ UNCHANGED groups
    ELSE hook(w, t, FALSE, "failing", IF task[t].ctxDone THEN "canceled" ELSE "failed")

\* Run of a task that moves a file.
RunFile(w, t) ==
    /\ \/ /\ t \in src
          /\ dst' = [dst EXCEPT ![t] = "new"]
          /\ succeeded(w, t)
       \/ onError(w, t) /\ UNCHANGED dst
    /\ UNCHANGED queue

\* A member joins the group of its directory.  (Mutant: it is not counted.)
countMember_Not(g) == groups

countMember(g) == IF g \in Groups THEN AddTask(groups, g, {}) ELSE groups

\* Run of a task that moves a directory: it adds a task for every member.  It
\* fails to read the source before the first, or finds its context done.
RunDir(w, t) ==
    /\ \/ \E s \in Members[t] \ exec[w].added :
             /\ ~task[t].ctxDone
             /\ groups' = countMember(task[t].group)
             /\ task' = added(task, s, task[t].group)
             /\ queue' = Append(queue, s)
             /\ exec' = [exec EXCEPT ![w].added = @ \cup {s}]
       \/ exec[w].added = Members[t] /\ succeeded(w, t) /\ UNCHANGED queue
       \/ /\ exec[w].added = {} \/ (task[t].ctxDone /\ exec[w].added # Members[t])
          /\ onError(w, t) /\ UNCHANGED queue
    /\ UNCHANGED dst

Run(w) ==
    /\ exec[w].pc = "run"
    /\ IF exec[w].task \in Files THEN RunFile(w, exec[w].task)
       ELSE RunDir(w, exec[w].task)
    /\ UNCHANGED <<src, budget>>

\* onCompletion, one source at a time.
Remove(w) ==
    /\ exec[w].pc = "complete"
    /\ \E p \in exec[w].toRemove :
          /\ src' = src \ verifyAndRemove(p)
          /\ exec' = [exec EXCEPT ![w].toRemove = @ \ {p}]
    /\ UNCHANGED <<task, queue, groups, dst, budget>>

\* The end of Execute's loop: a failed task gets its final state; a task that
\* is waiting for a retry by now runs again, in the same worker.
Return(w) ==
    LET t     == exec[w].task
        again == exec[w].final = "succeeded" /\ task[t].state = "waitingRetry"
    IN  /\ exec[w].pc = "complete" /\ exec[w].toRemove = {}
        /\ task' = [task EXCEPT ![t].state =
                       IF again THEN "running"
                       ELSE IF exec[w].final = "succeeded" THEN @
                       ELSE exec[w].final]
        /\ exec' = [exec EXCEPT ![w] = IF again THEN worker("run", t, {}, "new")
                                       ELSE Idle]
        /\ UNCHANGED <<queue, groups, src, dst, budget>>

-----------------------------------------------------------------------------
(***************************************************************************)
(* Users, and a restart of the program                                     *)
(***************************************************************************)

Cancel(t) ==
    /\ budget.cancels > 0
    /\ task[t].state \notin Finished /\ ~task[t].ctxDone
    /\ task' = [task EXCEPT ![t].state = "canceling", ![t].ctxDone = TRUE]
    /\ budget' = [budget EXCEPT !.cancels = @ - 1]
    /\ UNCHANGED <<queue, exec, groups, src, dst>>

\* SetRetry joins the group again, with a payload of its own.
\* (Mutant: it joins no group.)
rejoin_Not(t) == groups

rejoin(t) == AddTask(groups, groupID(t), {t})

\* Manager.Retry.
Retry(t) ==
    /\ budget.retries > 0
    /\ task[t].state # "new"
    /\ RetryAny \/ (task[t].state \in Finished /\ ~Running(t))
    /\ t \in Files \/ (~Running(t) /\ \A s \in Members[t] : task[s].state = "new")
    /\ task' = [task EXCEPT ![t] =
          [state |-> "waitingRetry", ctxDone |-> @.ctxDone /\ ~AllowRetryCanceled,
           retry |-> 0, group |-> groupID(t)]]
    /\ groups' = rejoin(t)
    /\ queue' = Append(queue, t)
    /\ budget' = [budget EXCEPT !.retries = @ - 1]
    /\ UNCHANGED <<exec, src, dst>>

\* What Manager.recover makes of a persisted state.
\* (Mutant: nothing, so that an interrupted task is not queued again.)
recovered_AsIs(state) == state

recovered(state) ==
    CASE state = "canceling" -> "canceled"
      [] state = "failing"   -> "failed"
      [] state \in Finished  -> state
      [] OTHER               -> "pending"

\* The coordinator's memory is lost and the group ID is not persisted; Add calls
\* SetRetry, which joins the group, only if the persisted MaxRetry is 0.
Restart ==
    LET old  == {t \in Tasks : task[t].state # "new"}
        todo == {t \in old : recovered(task[t].state) = "pending"}
    IN  /\ budget.crashes > 0
        /\ task' = [t \in Tasks |->
              IF t \notin old THEN task[t]
              ELSE [state |-> recovered(task[t].state), ctxDone |-> FALSE,
                    retry |-> task[t].retry,
                    group |-> IF MaxRetry = 0 THEN groupID(t) ELSE NoGroup]]
        /\ groups' = [g \in Groups |->
              IF MaxRetry # 0 THEN NoState
              ELSE [pending    |-> Cardinality({t \in old : groupID(t) = g}),
                    hasSuccess |-> FALSE,
                    payloads   |-> {t \in old : groupID(t) = g}]]
        /\ queue' \in {q \in [1..Cardinality(todo) -> todo] :
                          \A i, j \in DOMAIN q : q[i] = q[j] => i = j}
        /\ exec' = [w \in Workers |-> Idle]
        /\ budget' = [budget EXCEPT !.crashes = @ - 1]
        /\ UNCHANGED <<src, dst>>

-----------------------------------------------------------------------------
Init ==
    /\ task = [t \in Tasks |-> [state |-> "new", ctxDone |-> FALSE, retry |-> 0,
                                group |-> NoGroup]]
    /\ queue = <<>>
    /\ exec = [w \in Workers |-> Idle]
    /\ groups = [g \in Groups |-> NoState]
    /\ src = Files
    /\ dst = [f \in Files |-> IF f \in StartDst THEN "old" ELSE "none"]
    /\ budget = [cancels |-> MaxCancels, retries |-> MaxRetries,
                 crashes |-> MaxCrashes]

Work == \E w \in Workers : next(w) \/ Run(w) \/ Remove(w) \/ Return(w)

Next == Work \/ Restart \/ \E t \in Tasks : transfer(t) \/ Cancel(t) \/ Retry(t)

\* The workers go on; users do what they like.
Spec == Init /\ [][Next]_vars /\ WF_vars(Work)

-----------------------------------------------------------------------------
(***************************************************************************)
(* Properties                                                              *)
(***************************************************************************)

States == {"new", "pending", "running", "succeeded", "canceling", "canceled",
           "failing", "failed", "waitingRetry"}

\* The manager's and the coordinator's state is well formed.
TypeOK ==
    /\ task \in [Tasks -> [state : States, ctxDone : BOOLEAN, retry : 0..MaxRetry,
                           group : Groups \cup {NoGroup}]]
    /\ queue \in Seq(Tasks)
    /\ exec \in [Workers -> [pc : {"off", "run", "complete"},
                             task : Tasks \cup {NoGroup}, added : SUBSET Tasks,
                             toRemove : SUBSET Tasks, final : States]]
    /\ groups \in [Groups -> [pending : Nat, hasSuccess : BOOLEAN,
                              payloads : SUBSET Tasks]]
    /\ src \subseteq Files
    /\ dst \in [Files -> {"none", "old", "new"}]

\* The runs that will still call Done for a group: the queued and the running.
Queued(g) == {i \in DOMAIN queue : task[queue[i]].group = g}
InRun(g) == {w \in Workers : exec[w].pc = "run" /\ task[exec[w].task].group = g}

\* The coordinator never forgets a task that will still call Done: a group's
\* count covers all its queued and running tasks, however they were added,
\* cancelled or retried when finished, so that no group completes before its
\* last task.
PendingCoversLive ==
    \A g \in Groups :
        groups[g].pending >= Cardinality(Queued(g)) + Cardinality(InRun(g))

\* No source is lost: every file is at the source or was uploaded.
NothingLost == \A f \in Files : f \in src \/ dst[f] = "new"

\* Once nothing is queued or running, no group is left waiting: its sources would
\* never be removed, nor those of later moves to the same directory.
NoGroupStuck ==
    (queue = <<>> /\ \A w \in Workers : exec[w].pc # "run")
        => \A g \in Groups : groups[g].pending = 0

\* Every source is safe, and the state of the manager and of the groups well formed,
\* whatever is cancelled and retried.
SourcesSafe == TypeOK /\ NothingLost
=============================================================================
