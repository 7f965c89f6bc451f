------------------------------ MODULE MCWorker ------------------------------
(***************************************************************************)
(* Instances of Worker for TLC.                                            *)
(***************************************************************************)
EXTENDS Worker

CONSTANTS t1, t2, t3, p1, main

TwoTasks == {t1, t2}
ThreeTasks == {t1, t2, t3}
OneProducer == {p1}
NoProducer == {}
=============================================================================
