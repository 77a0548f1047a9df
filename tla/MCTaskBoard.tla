------------------------------ MODULE MCTaskBoard ------------------------------
(* Instances of TaskBoard for TLC: a task that waits and one it waits for. *)
EXTENDS TaskBoard

CONSTANTS t1, t2, w

TwoTasks == {t1, t2}
OneWorker == {w}
EitherWay == {<<t1, t2>>, <<t2, t1>>}
First == {t1}
Second == {t2}
NoTask == {}
=============================================================================
