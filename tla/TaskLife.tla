------------------------------ MODULE TaskLife ------------------------------
(***************************************************************************)
(* What a task promises to its wakers and to its future, without status    *)
(* bits, queues or reference counts (yaay-mt-runtime/src/task.rs): it is   *)
(* in one stage at a time, a poll starts from "scheduled" only, and it     *)
(* falls asleep only when no wake() has come in since its poll began.      *)
(* Module Task implements this specification.                              *)
(***************************************************************************)
VARIABLES
  life,   \* the stage of the task
  owed    \* a wake() has come in and no poll has started since

\* Task::new: a new task is on its way to its first poll.
Init == life = "scheduled" /\ owed = FALSE

\* The task goes from stage a to stage b.
Move(a, b) == life = a /\ life' = b

\* wake(): an idle task is scheduled; a finished one is left alone.
Wake ==
  /\ life' = IF life = "idle" THEN "scheduled" ELSE life
  /\ owed' = (owed \/ life # "done")

\* The future's poll starts, and answers every earlier wake().
Start == Move("scheduled", "running") /\ owed' = FALSE

\* The poll returned Pending: again, if a wake() may have come in meanwhile.
Again == Move("running", "scheduled") /\ UNCHANGED owed
Sleep == Move("running", "idle") /\ ~owed /\ UNCHANGED owed

\* The poll returned Ready, or panicked.
Finish == Move("running", "done") /\ UNCHANGED owed
Panic  == Move("running", "panicked") /\ UNCHANGED owed

\* The runtime is gone: a task left in a queue is dropped.
Discard == Move("scheduled", "done") /\ UNCHANGED owed

Next == Wake \/ Start \/ Again \/ Sleep \/ Finish \/ Panic \/ Discard

Spec == Init /\ [][Next]_<<life, owed>>
=============================================================================
