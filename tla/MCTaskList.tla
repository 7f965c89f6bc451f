----------------------------- MODULE MCTaskList -----------------------------
(***************************************************************************)
(* Instance of TaskList for TLC.                                           *)
(***************************************************************************)
EXTENDS TaskList

CONSTANTS x1, x2, l1, l2, t1, t2, t3

MCThreads == {x1, x2}
MCLists == {l1, l2}
MCTasks == {t1, t2, t3}
=============================================================================
