-------------------------- MODULE MCTransferTasks --------------------------
(* Small instances of TransferTasks.                                        *)
EXTENDS TransferTasks, TLC

CONSTANTS dir, m1, m2, f1, f2, w1, w2

\* A directory with two members, beside one file.
DirTasks == {dir, m1, m2, f1}
DirMembers == [t \in DirTasks |-> IF t = dir THEN {m1, m2} ELSE {}]

\* Two files.
TwoTasks == {f1, f2}
TwoMembers == [t \in TwoTasks |-> {}]

Nothing == {}
OneFile == {f1}
TwoWorkers == {w1, w2}

\* Workers and the members of the directory are interchangeable.
Symmetry == Permutations({w1, w2}) \cup Permutations({m1, m2})

\* What the tasks of one start of the program do; restarts are in MCTransferLive.
OneStart == Work \/ \E t \in Tasks : transfer(t) \/ Cancel(t) \/ Retry(t)
OneStartSpec == Init /\ [][OneStart]_vars
=============================================================================
