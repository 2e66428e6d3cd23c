--------------------------- MODULE MCTransferLive ---------------------------
(* Two small instances of TransferTasks in one run; a behaviour is of one of   *)
(* them.  "finish": a directory and a file, retried when their tasks failed.   *)
(* "crash": two files, cancelled and retried, and a restart in the middle.     *)
EXTENDS MCTransferTasks

VARIABLE part

Crash == INSTANCE TransferTasks WITH
           Tasks <- TwoTasks, Members <- TwoMembers, MaxRetry <- 1,
           MaxCancels <- 1, MaxCrashes <- 1

LiveInit == \/ part = "finish" /\ Init
            \/ part = "crash" /\ Crash!Init

LiveNext ==
    /\ UNCHANGED part
    /\ \/ part = "finish" /\ Next
       \/ part = "crash" /\ Crash!Next

LiveSpec ==
    /\ LiveInit /\ [][LiveNext]_<<vars, part>>
    /\ WF_vars(part = "finish" /\ Work)
    /\ WF_vars(part = "crash" /\ Crash!Work)

-----------------------------------------------------------------------------
(* The coordinator and the manager agree: no group completes before its last   *)
(* task or waits for one that will not come, and no source is lost; and where  *)
(* the program was stopped, the count of a group still covers its tasks.       *)
GroupsAgree ==
    IF part = "finish" THEN PendingCoversLive /\ NoGroupStuck /\ NothingLost
    ELSE Crash!PendingCoversLive /\ Crash!NothingLost

(* "Move source still exists" is an error (copy_move_test.go:159): while       *)
(* nothing is cancelled and the program is not stopped, a file that was        *)
(* uploaded is eventually removed from the source.                             *)
MoveFinishes ==
    \A f \in Files : (part = "finish" /\ dst[f] = "new") ~> (part # "finish" \/ f \notin src)

(* No task is forgotten, not even by a restart in the middle of its run: every *)
(* task that was queued ends.                                                  *)
TasksEnd ==
    /\ \A t \in Tasks :
          (part = "finish" /\ task[t].state = "pending") ~> (part # "finish" \/ task[t].state \in Finished)
    /\ \A t \in TwoTasks :
          (part = "crash" /\ task[t].state = "pending") ~> (part # "crash" \/ task[t].state \in Finished)
=============================================================================
