-------------------------------- MODULE Task --------------------------------
(***************************************************************************)
(* The life of one task of the multi-threaded runtime: its status byte,    *)
(* its reference count and the threads that touch it                       *)
(* (yaay-mt-runtime/src/task.rs, task_waker.rs, batch.rs and the drop of   *)
(* the WorkerGuard in worker_manager.rs).                                  *)
(*                                                                         *)
(* Every atomic read-modify-write on the status byte or on rc is one step, *)
(* every locked section of a queue is one step, and the steps of all       *)
(* threads interleave freely.  How a worker finds a queued task (epochs,   *)
(* stealing order, parking) is the subject of module Worker; here a worker *)
(* that is between polls may pop its own queue or steal at any time.       *)
(***************************************************************************)
EXTENDS Integers, FiniteSets

CONSTANTS
  Workers,             \* worker threads of the runtime
  FirstWorker,         \* worker 0, the initial worker_id of every task
  Handles,             \* the Waker values of this task that can exist at once
  IdleWakeFromWorker   \* may a worker thread wake this task while it is idle?

ASSUME WorkersAssumption == FirstWorker \in Workers
ASSUME HandlesAssumption == IsFiniteSet(Handles)
ASSUME IdleWakeAssumption == IdleWakeFromWorker \in BOOLEAN

MUTED    == "MUTED"
NOTIFIED == "NOTIFIED"
DROPPED  == "DROPPED"
Bits     == {MUTED, NOTIFIED, DROPPED}

VARIABLES
  status,        \* Task.status: the bits that are set
  rc,            \* Task.rc
  worker_id,     \* Task.worker_id
  task_list,     \* how often the task is linked in each worker's task_list
  task_lists,    \* how often it is linked in the reactor's RuntimeLocalData
  wpc,           \* where each worker thread stands in Task::poll
  prev,          \* the local `prev` of Task::poll
  hpc,           \* state of each Waker and of the wake() running on it
  mpc,           \* where the main thread stands in run_with
  tasks,         \* how often the task is in the `tasks` list of WorkerGuard::drop
  collected,     \* workers whose queue WorkerGuard::drop has taken over
  freed_workers, \* workers whose memory WorkerGuard::drop has freed
  drops,         \* how often the future has been dropped
  freed,         \* has the memory of the task been deallocated?
  runtime_ref,   \* history: the runtime still holds its own reference
  owed           \* history: wake() was called and no poll has started since

vars == <<status, rc, worker_id, task_list, task_lists, wpc, prev, hpc, mpc,
          tasks, collected, freed_workers, drops, freed, runtime_ref, owed>>
queues  == <<task_list, task_lists>>
memory  == <<drops, freed>>
guard   == <<mpc, tasks, collected, freed_workers>>

\* States of a worker thread in which it has the task in its hands.
PollPCs == {"popped", "poll", "polling", "cas", "ready", "drop", "release", "unwind"}
WorkerPCs == PollPCs \cup {"loop", "dealloc", "unwind_dealloc", "exited"}
\* "push" and "epoch": inside wake(), before the push and before next_epoch().
HandlePCs == {"none", "live", "push", "epoch", "dealloc", "fault"}
MainPCs == {"join", "on_shutdown", "collect", "drop_bit", "drop", "release",
            "dealloc", "gone"}

-----------------------------------------------------------------------------
(* Task::new and the push of the new task by spawn, defer or run: the       *)
(* status is MUTED | NOTIFIED, the runtime owns the only reference, and     *)
(* the task is linked in exactly one local queue.                           *)
Init ==
  /\ status = {MUTED, NOTIFIED}
  /\ rc = 1
  /\ worker_id = FirstWorker
  /\ \E v \in Workers : task_list = [u \in Workers |-> IF u = v THEN 1 ELSE 0]
  /\ task_lists = [u \in Workers |-> 0]
  /\ wpc = [w \in Workers |-> "loop"]
  /\ prev = [w \in Workers |-> {}]
  /\ hpc = [h \in Handles |-> "none"]
  /\ mpc = "join"
  /\ tasks = 0
  /\ collected = {} /\ freed_workers = {}
  /\ drops = 0
  /\ freed = FALSE
  /\ runtime_ref = TRUE
  /\ owed = FALSE

-----------------------------------------------------------------------------
(* Wakers.                                                                 *)

\* Mutant: the clone forgets Task::rc_inc.
CloneNoInc(h) ==
  /\ hpc[h] = "none"
  /\ (\E w \in Workers : wpc[w] = "polling") \/ (\E g \in Handles : hpc[g] = "live")
  /\ hpc' = [hpc EXCEPT ![h] = "live"]
  /\ UNCHANGED <<status, rc, worker_id, queues, wpc, prev, guard, memory, runtime_ref, owed>>

\* Task::rc_inc for a Waker cloned from the Context of the running poll or
\* from another Waker.
Clone(h) ==
  /\ hpc[h] = "none"
  /\ (\E w \in Workers : wpc[w] = "polling") \/ (\E g \in Handles : hpc[g] = "live")
  /\ rc' = rc + 1
  /\ hpc' = [hpc EXCEPT ![h] = "live"]
  /\ UNCHANGED <<status, worker_id, queues, wpc, prev, guard, memory, runtime_ref, owed>>

\* The thread that takes the count to 0 is the one that deallocates.
AfterRcDec(other) == IF rc = 1 THEN "dealloc" ELSE other

\* Drop of a Waker: the fetch_sub of Task::rc_dec.
DropHandle(h) ==
  /\ hpc[h] = "live"
  /\ rc' = rc - 1
  /\ hpc' = [hpc EXCEPT ![h] = AfterRcDec("none")]
  /\ UNCHANGED <<status, worker_id, queues, wpc, prev, guard, memory, runtime_ref, owed>>

\* The fn_dealloc of Task::rc_dec.
DeallocHandle(h) ==
  /\ hpc[h] = "dealloc"
  /\ hpc' = [hpc EXCEPT ![h] = "none"]
  /\ freed' = TRUE
  /\ UNCHANGED <<status, rc, worker_id, queues, wpc, prev, guard, drops, runtime_ref, owed>>

\* Mutants: wake() ignores MUTED; wake() tests NOTIFIED instead.
ClaimsMuted == DROPPED \notin status
ClaimsNotified == NOTIFIED \notin status

\* wake() must schedule the task only when neither bit was set before.
Claims == status \cap {MUTED, DROPPED} = {}

\* The fetch_or of wake().
SetNotified ==
  /\ status' = status \cup {MUTED, NOTIFIED}
  /\ owed' = (owed \/ DROPPED \notin status)

\* The kinds of thread that call wake(), told apart by what LOCAL holds: null,
\* a RuntimeLocalData (a reactor with a BatchGuard) or a Worker.
ThreadKinds == {"external", "reactor", "worker"}

CanWake(thread) ==
  CASE thread = "external" -> TRUE
    [] thread = "reactor"  -> mpc \in {"join", "on_shutdown"}
    [] thread = "worker"   -> /\ \E w \in Workers : wpc[w] # "exited"
                              /\ Claims => IdleWakeFromWorker

\* wake_by_ref on a Waker; wake by value is this step followed by DropHandle.
\* LOCAL null: the task goes on to be pushed.  A reactor: it is linked in the
\* thread's own list at once.  A worker: RuntimeLocalData::get takes the
\* Worker in LOCAL for a RuntimeLocalData, and the push goes to a wild address.
WakeByRef(h, thread) ==
  /\ hpc[h] = "live"
  /\ CanWake(thread)
  /\ SetNotified
  /\ IF Claims
       THEN /\ hpc' = [hpc EXCEPT ![h] = CASE thread = "external" -> "push"
                                           [] thread = "reactor"  -> "live"
                                           [] thread = "worker"   -> "fault"]
            /\ task_lists' = IF thread = "reactor"
                               THEN [task_lists EXCEPT ![worker_id] = @ + 1]
                               ELSE task_lists
       ELSE UNCHANGED <<hpc, task_lists>>
  /\ UNCHANGED <<rc, worker_id, task_list, wpc, prev, guard, memory, runtime_ref>>

\* The push of wake() outside a batch: into the queue of worker_id.  Once
\* WorkerGuard::drop has freed that worker the access is undefined.
Push(h) ==
  /\ hpc[h] = "push"
  /\ IF worker_id \in freed_workers
       THEN /\ hpc' = [hpc EXCEPT ![h] = "fault"]
            /\ UNCHANGED task_list
       ELSE /\ hpc' = [hpc EXCEPT ![h] = "epoch"]
            /\ task_list' = [task_list EXCEPT ![worker_id] = @ + 1]
  /\ UNCHANGED <<status, rc, worker_id, task_lists, wpc, prev, guard, memory,
                 runtime_ref, owed>>

\* The next_epoch() that ends wake(); the Epoch is freed with the runtime.
NextEpoch(h) ==
  /\ hpc[h] = "epoch"
  /\ hpc' = [hpc EXCEPT ![h] = IF mpc = "gone" THEN "fault" ELSE "live"]
  /\ UNCHANGED <<status, rc, worker_id, queues, wpc, prev, guard, memory,
                 runtime_ref, owed>>

\* push_batch: the reactor's lists go to the workers' queues.
FlushBatch ==
  /\ task_list' = [v \in Workers |-> task_list[v] + task_lists[v]]
  /\ task_lists' = [v \in Workers |-> 0]

PushBatch ==
  /\ mpc \in {"join", "on_shutdown"}
  /\ \E v \in Workers : task_lists[v] > 0
  /\ FlushBatch
  /\ UNCHANGED <<status, rc, worker_id, wpc, prev, hpc, guard, memory, runtime_ref, owed>>

-----------------------------------------------------------------------------
(* Workers.                                                                *)

PopFront(w) ==
  /\ wpc[w] = "loop"
  /\ task_list[w] > 0
  /\ task_list' = [task_list EXCEPT ![w] = @ - 1]
  /\ wpc' = [wpc EXCEPT ![w] = "popped"]
  /\ UNCHANGED <<status, rc, worker_id, task_lists, prev, hpc, guard, memory,
                 runtime_ref, owed>>

\* try_steal: the thief makes itself the task's worker.
Steal(w, v) ==
  /\ w # v
  /\ wpc[w] = "loop"
  /\ task_list[v] > 0
  /\ task_list' = [task_list EXCEPT ![v] = @ - 1]
  /\ worker_id' = w
  /\ wpc' = [wpc EXCEPT ![w] = "popped"]
  /\ UNCHANGED <<status, rc, task_lists, prev, hpc, guard, memory, runtime_ref, owed>>

\* Mutant: the fetch_and clears the whole byte.
ClearAll(w) ==
  /\ wpc[w] = "popped"
  /\ status' = {}
  /\ wpc' = [wpc EXCEPT ![w] = "poll"]
  /\ UNCHANGED <<rc, worker_id, queues, prev, hpc, guard, memory, runtime_ref, owed>>

\* The fetch_and(!NOTIFIED) before the first poll.
ClearNotified(w) ==
  /\ wpc[w] = "popped"
  /\ status' = status \ {NOTIFIED}
  /\ wpc' = [wpc EXCEPT ![w] = "poll"]
  /\ UNCHANGED <<rc, worker_id, queues, prev, hpc, guard, memory, runtime_ref, owed>>

\* The future's poll starts: it sees whatever was written before earlier wakes.
FnPoll(w) ==
  /\ wpc[w] = "poll"
  /\ wpc' = [wpc EXCEPT ![w] = "polling"]
  /\ owed' = FALSE
  /\ UNCHANGED <<status, rc, worker_id, queues, prev, hpc, guard, memory, runtime_ref>>

\* The future wakes itself through its Context while it is being polled.
SelfWake(w) ==
  /\ wpc[w] = "polling"
  /\ SetNotified
  /\ UNCHANGED <<rc, worker_id, queues, wpc, prev, hpc, guard, memory, runtime_ref>>

\* Mutant: NOTIFIED is cleared after the poll instead of before it.
PollPendingClears(w) ==
  /\ wpc[w] = "polling"
  /\ status' = status \ {NOTIFIED}
  /\ wpc' = [wpc EXCEPT ![w] = "cas"]
  /\ prev' = [prev EXCEPT ![w] = {MUTED}]
  /\ UNCHANGED <<rc, worker_id, queues, hpc, guard, memory, runtime_ref, owed>>

PollPending(w) ==
  /\ wpc[w] = "polling"
  /\ wpc' = [wpc EXCEPT ![w] = "cas"]
  /\ prev' = [prev EXCEPT ![w] = {MUTED}]
  /\ UNCHANGED <<status, rc, worker_id, queues, hpc, guard, memory, runtime_ref, owed>>

\* One round of the 'cas loop: park the task if nobody woke it, else poll it
\* again.  A spurious failure of the weak exchange leaves everything as it was.
NextStatus(p) == IF p = {MUTED} THEN {} ELSE {MUTED}

\* Mutant: a plain store of 0 in place of the compare_exchange.
StorePending(w) ==
  /\ wpc[w] = "cas"
  /\ status' = {}
  /\ wpc' = [wpc EXCEPT ![w] = "loop"]
  /\ prev' = [prev EXCEPT ![w] = {}]
  /\ UNCHANGED <<rc, worker_id, queues, hpc, guard, memory, runtime_ref, owed>>

CasPending(w) ==
  /\ wpc[w] = "cas"
  /\ \/ /\ status = prev[w]
        /\ status' = NextStatus(prev[w])
        /\ wpc' = [wpc EXCEPT ![w] = IF prev[w] = {MUTED} THEN "loop" ELSE "poll"]
        /\ prev' = [prev EXCEPT ![w] = {}]
     \/ /\ status # prev[w]
        /\ prev' = [prev EXCEPT ![w] = status]
        /\ UNCHANGED <<status, wpc>>
  /\ UNCHANGED <<rc, worker_id, queues, hpc, guard, memory, runtime_ref, owed>>

PollReady(w) ==
  /\ wpc[w] = "polling"
  /\ wpc' = [wpc EXCEPT ![w] = "ready"]
  /\ UNCHANGED <<status, rc, worker_id, queues, prev, hpc, guard, memory, runtime_ref, owed>>

SetDropped(w) ==
  /\ wpc[w] = "ready"
  /\ status' = status \cup {DROPPED}
  /\ wpc' = [wpc EXCEPT ![w] = "drop"]
  /\ UNCHANGED <<rc, worker_id, queues, prev, hpc, guard, memory, runtime_ref, owed>>

DropFuture(w) ==
  /\ wpc[w] = "drop"
  /\ drops' = drops + 1
  /\ wpc' = [wpc EXCEPT ![w] = "release"]
  /\ UNCHANGED <<status, rc, worker_id, queues, prev, hpc, guard, freed, runtime_ref, owed>>

\* Mutant: the Waker of poll is not forgotten, so its drop releases once more.
ReleaseNoForget(w) ==
  /\ wpc[w] = "release"
  /\ rc' = rc - 2
  /\ runtime_ref' = FALSE
  /\ wpc' = [wpc EXCEPT ![w] = AfterRcDec("loop")]
  /\ UNCHANGED <<status, worker_id, queues, prev, hpc, guard, memory, owed>>

\* The runtime gives up its reference.
Release(w) ==
  /\ wpc[w] = "release"
  /\ rc' = rc - 1
  /\ runtime_ref' = FALSE
  /\ wpc' = [wpc EXCEPT ![w] = AfterRcDec("loop")]
  /\ UNCHANGED <<status, worker_id, queues, prev, hpc, guard, memory, owed>>

\* The future panics: poll unwinds, and the Waker it would have forgotten is
\* dropped, which gives up the runtime's reference; the thread dies.
PollPanic(w) ==
  /\ wpc[w] = "polling"
  /\ wpc' = [wpc EXCEPT ![w] = "unwind"]
  /\ UNCHANGED <<status, rc, worker_id, queues, prev, hpc, guard, memory, runtime_ref, owed>>

Unwind(w) ==
  /\ wpc[w] = "unwind"
  /\ rc' = rc - 1
  /\ runtime_ref' = FALSE
  /\ wpc' = [wpc EXCEPT ![w] = IF rc = 1 THEN "unwind_dealloc" ELSE "exited"]
  /\ UNCHANGED <<status, worker_id, queues, prev, hpc, guard, memory, owed>>

Dealloc(w) ==
  /\ wpc[w] \in {"dealloc", "unwind_dealloc"}
  /\ freed' = TRUE
  /\ wpc' = [wpc EXCEPT ![w] = IF wpc[w] = "dealloc" THEN "loop" ELSE "exited"]
  /\ UNCHANGED <<status, rc, worker_id, queues, prev, hpc, guard, drops, runtime_ref, owed>>

\* The worker has polled a Shutdown task and returns from main_loop.
Exit(w) ==
  /\ wpc[w] = "loop"
  /\ wpc' = [wpc EXCEPT ![w] = "exited"]
  /\ UNCHANGED <<status, rc, worker_id, queues, prev, hpc, guard, memory, runtime_ref, owed>>

-----------------------------------------------------------------------------
(* The main thread: run_with after all workers are joined.                 *)

Join ==
  /\ mpc = "join"
  /\ \A w \in Workers : wpc[w] = "exited"
  /\ mpc' = "on_shutdown"
  /\ UNCHANGED <<status, rc, worker_id, queues, wpc, prev, hpc, tasks,
                 collected, freed_workers, memory, runtime_ref, owed>>

\* on_shutdown joins the reactors; the drop of a BatchGuard flushes its lists.
ReactorsExit ==
  /\ mpc = "on_shutdown"
  /\ FlushBatch
  /\ mpc' = "collect"
  /\ UNCHANGED <<status, rc, worker_id, wpc, prev, hpc, tasks, collected,
                 freed_workers, memory, runtime_ref, owed>>

\* WorkerGuard::drop takes over what is left in a worker's queue, and unlocks it.
Collect(v) ==
  /\ mpc = "collect"
  /\ v \notin collected /\ collected = freed_workers
  /\ tasks' = tasks + task_list[v]
  /\ task_list' = [task_list EXCEPT ![v] = 0]
  /\ collected' = collected \cup {v}
  /\ UNCHANGED <<status, rc, worker_id, task_lists, wpc, prev, hpc, mpc, freed_workers,
                 memory, runtime_ref, owed>>

\* Then it frees the worker, and forgets what a late wake() has pushed in between.
FreeWorker(v) ==
  /\ mpc = "collect"
  /\ v \in collected \ freed_workers
  /\ freed_workers' = freed_workers \cup {v}
  /\ task_list' = [task_list EXCEPT ![v] = 0]
  /\ UNCHANGED <<status, rc, worker_id, task_lists, wpc, prev, hpc, mpc, tasks, collected,
                 memory, runtime_ref, owed>>

CollectDone ==
  /\ mpc = "collect"
  /\ freed_workers = Workers
  /\ mpc' = IF tasks > 0 THEN "drop_bit" ELSE "gone"
  /\ UNCHANGED <<status, rc, worker_id, queues, wpc, prev, hpc, tasks,
                 collected, freed_workers, memory, runtime_ref, owed>>

\* Task::drop_in_place.
DropInPlace ==
  /\ mpc = "drop_bit"
  /\ status' = status \cup {DROPPED}
  /\ tasks' = tasks - 1
  /\ mpc' = IF DROPPED \in status THEN "release" ELSE "drop"
  /\ UNCHANGED <<rc, worker_id, queues, wpc, prev, hpc, collected, freed_workers,
                 memory, runtime_ref, owed>>

GuardDropFuture ==
  /\ mpc = "drop"
  /\ drops' = drops + 1
  /\ mpc' = "release"
  /\ UNCHANGED <<status, rc, worker_id, queues, wpc, prev, hpc, tasks,
                 collected, freed_workers, freed, runtime_ref, owed>>

GuardRelease ==
  /\ mpc = "release"
  /\ rc' = rc - 1
  /\ runtime_ref' = FALSE
  /\ mpc' = AfterRcDec("gone")
  /\ UNCHANGED <<status, worker_id, queues, wpc, prev, hpc, tasks, collected,
                 freed_workers, memory, owed>>

GuardDealloc ==
  /\ mpc = "dealloc"
  /\ freed' = TRUE
  /\ mpc' = "gone"
  /\ UNCHANGED <<status, rc, worker_id, queues, wpc, prev, hpc, tasks,
                 collected, freed_workers, drops, runtime_ref, owed>>

-----------------------------------------------------------------------------
HandleNext(h) ==
  \/ Clone(h) \/ DropHandle(h) \/ DeallocHandle(h) \/ Push(h) \/ NextEpoch(h)
  \/ \E thread \in ThreadKinds : WakeByRef(h, thread)

\* The steps a worker takes by itself once the future's poll has returned.
PollStep(w) ==
  \/ ClearNotified(w) \/ FnPoll(w) \/ PollPending(w) \/ CasPending(w)
  \/ PollReady(w) \/ PollPanic(w) \/ SetDropped(w) \/ DropFuture(w)
  \/ Release(w) \/ Unwind(w) \/ Dealloc(w)

WorkerNext(w) ==
  \/ PopFront(w) \/ PollStep(w) \/ SelfWake(w) \/ Exit(w)
  \/ \E v \in Workers : Steal(w, v)

MainNext ==
  \/ Join \/ ReactorsExit \/ CollectDone \/ DropInPlace \/ GuardDropFuture
  \/ GuardRelease \/ GuardDealloc
  \/ \E v \in Workers : Collect(v) \/ FreeWorker(v)

Next ==
  \/ \E h \in Handles : HandleNext(h)
  \/ \E w \in Workers : WorkerNext(w)
  \/ PushBatch
  \/ MainNext

Spec == Init /\ [][Next]_vars

(* Threads keep running: polls return, a wake() that has claimed the task   *)
(* pushes it, the reactor flushes its lists every round, and a worker that  *)
(* is between polls looks into its own queue (module Worker).  Nothing is   *)
(* assumed of stealing, of new wakes, of drops or of shutdown.              *)
Fairness ==
  /\ \A w \in Workers : WF_vars(PopFront(w)) /\ WF_vars(PollStep(w))
  /\ \A h \in Handles : WF_vars(Push(h))
  /\ WF_vars(PushBatch)

FairSpec == Spec /\ Fairness

-----------------------------------------------------------------------------
(* Properties.                                                              *)

\* Every variable stays within its type; rc, an unsigned count, never wraps
\* below zero.
TypeOK ==
  /\ status \in SUBSET Bits
  /\ rc \in Nat
  /\ worker_id \in Workers
  /\ task_list \in [Workers -> Nat]
  /\ task_lists \in [Workers -> Nat]
  /\ wpc \in [Workers -> WorkerPCs]
  /\ prev \in [Workers -> SUBSET Bits]
  /\ hpc \in [Handles -> HandlePCs]
  /\ mpc \in MainPCs
  /\ tasks \in Nat
  /\ collected \in SUBSET Workers /\ freed_workers \in SUBSET Workers
  /\ drops \in Nat
  /\ freed \in BOOLEAN
  /\ runtime_ref \in BOOLEAN
  /\ owed \in BOOLEAN

\* The places that hold the right to poll or drop the task.
GuardHolds == tasks > 0 \/ mpc \in {"drop", "release"}
Owners ==
  {<<"queue", v>>  : v \in {u \in Workers : task_list[u] > 0}} \cup
  {<<"batch", v>>  : v \in {u \in Workers : task_lists[u] > 0}} \cup
  {<<"worker", w>> : w \in {u \in Workers : wpc[u] \in PollPCs}} \cup
  {<<"waker", h>>  : h \in {g \in Handles : hpc[g] = "push"}} \cup
  {<<"guard", g>>  : g \in {x \in {"main"} : GuardHolds}}

\* "One task shouldn't be in multiple workers' local queues" and "shouldn't be
\* polled concurrently by multiple worker threads" (task.rs): the task is in one
\* place at a time, and linked there once, whatever wakes, steals, batches and
\* the final clean-up do.
SingleOwner ==
  /\ \A v \in Workers : task_list[v] <= 1 /\ task_lists[v] <= 1
  /\ tasks <= 1
  /\ \A x, y \in Owners : x = y

\* Who may still reach the memory of the task.
CanAccess ==
  \/ \E v \in Workers : task_list[v] > 0 \/ task_lists[v] > 0
  \/ \E w \in Workers : wpc[w] \in PollPCs \cup {"dealloc", "unwind_dealloc"}
  \/ \E h \in Handles : hpc[h] \in {"live", "push", "epoch", "dealloc"}
  \/ tasks > 0
  \/ mpc \in {"drop", "release", "dealloc"}

\* rc_dec deallocates when the count reaches 0: from then on no queue, worker,
\* Waker or clean-up has a pointer to the task, so it is neither used after
\* free nor freed twice.
NoUseAfterFree == freed => ~CanAccess

\* The future is dropped at most once, is not polled or queued any more once
\* that has begun, and the memory goes only after that drop (a future that
\* panicked, whose DROPPED bit is never set, is the exception).
DropOnce ==
  /\ drops <= 1
  /\ drops = 1 => \A w \in Workers : wpc[w] \notin {"popped", "poll", "polling", "drop"}
  /\ freed => (drops = 1 <=> DROPPED \in status)

\* Where the scheduled task is, so that a poll is bound to follow.
Scheduled ==
  \/ \E v \in Workers : task_list[v] > 0 \/ task_lists[v] > 0
  \/ \E h \in Handles : hpc[h] = "push"
  \/ \E w \in Workers : \/ wpc[w] \in {"popped", "poll"}
                        \/ wpc[w] \in {"polling", "cas"} /\ NOTIFIED \in status

\* "After a task's wake() method is invoked, eventually the task would be polled
\* again" (task.rs), its safety part: as long as the workers run, a wake() that
\* no poll has answered leaves the task on its way to a worker, unless the
\* future has just finished or panicked.
NotLost ==
  (owed /\ runtime_ref /\ DROPPED \notin status /\ mpc \in {"join", "on_shutdown"})
     => Scheduled \/ \E w \in Workers : wpc[w] \in {"ready", "unwind"}

\* The assertions that poll and wake keep as comments: in the 'cas loop the
\* status is MUTED or MUTED | NOTIFIED, and so is every value the loop has read;
\* a wake() that finds MUTED and DROPPED unset finds nothing set.
PrevIsExpected ==
  /\ \A w \in Workers : wpc[w] = "cas" =>
       {status, prev[w]} \subseteq {{MUTED}, {MUTED, NOTIFIED}}
  /\ Claims => status = {}

\* A step links the task into some list.
Gains == \E v \in Workers : task_list'[v] > task_list[v] \/ task_lists'[v] > task_lists[v]

\* "Guarantee dropped tasks won't be scheduled again" (wake, task.rs): once
\* DROPPED is set no list ever gains the task.
DroppedNeverScheduled == [][(DROPPED \in status) => ~Gains]_vars

\* "Guarantee the task would be polled again eventually" (wake, task.rs): while
\* no worker has left its loop, a wake() is answered by a poll that starts after
\* it, unless the future finishes or panics first.
WakeLeadsToPoll ==
  owed ~> \/ ~owed
          \/ DROPPED \in status
          \/ ~runtime_ref
          \/ \E w \in Workers : wpc[w] = "exited"

\* "When a task is dropped (after polled to ready, or after the runtime is
\* shutdown), the task's wake() method should still be safe to invoke" (task.rs):
\* no wake() reaches a freed worker, a freed epoch or a foreign LOCAL.
WakeSafe == \A h \in Handles : hpc[h] # "fault"

-----------------------------------------------------------------------------
(* The inductive invariant behind the safety properties.                   *)

\* The five kinds of owner, pairwise exclusive.
InQueue(v) == task_list[v] > 0
InBatch(v) == task_lists[v] > 0
InPoll(w)  == wpc[w] \in PollPCs
InWake(h)  == hpc[h] = "push"

Linked(v) == InQueue(v) \/ InBatch(v)
Owned ==
  \/ \E v \in Workers : Linked(v) \/ InPoll(v)
  \/ \E h \in Handles : InWake(h)
  \/ GuardHolds

Exclusive ==
  /\ \A v \in Workers : task_list[v] + task_lists[v] <= 1
  /\ tasks <= 1
  /\ \A u, v \in Workers : /\ Linked(u) /\ Linked(v) => u = v
                           /\ InPoll(u) /\ InPoll(v) => u = v
                           /\ ~(Linked(u) /\ InPoll(v))
  /\ \A h, g \in Handles : InWake(h) /\ InWake(g) => h = g
  /\ \A h \in Handles, v \in Workers : InWake(h) => ~Linked(v) /\ ~InPoll(v)
  /\ GuardHolds => /\ \A v \in Workers : ~Linked(v) /\ ~InPoll(v)
                   /\ \A h \in Handles : ~InWake(h)

\* Only an owned task is muted by the runtime, and an owner implies the
\* runtime's reference; without MUTED the task is idle.
OwnerMuted ==
  /\ Owned => MUTED \in status /\ runtime_ref
  /\ MUTED \notin status => NOTIFIED \notin status /\ DROPPED \notin status /\ runtime_ref

\* What each stage of poll, of the clean-up and of the shutdown knows.
Stages ==
  /\ \A w \in Workers : /\ wpc[w] = "cas" => prev[w] \in {{MUTED}, {MUTED, NOTIFIED}}
                        /\ wpc[w] \in {"drop", "release"} => DROPPED \in status
  /\ mpc \in {"drop", "release"} => DROPPED \in status
  /\ DROPPED \in status =>
       /\ \A v \in Workers : ~Linked(v) /\ wpc[v] \notin PollPCs \ {"drop", "release"}
       /\ \A h \in Handles : ~InWake(h)
       /\ tasks = 0
  /\ mpc # "join" => \A w \in Workers : wpc[w] = "exited"
  /\ mpc \in {"join", "on_shutdown"} => freed_workers = {}
  /\ tasks > 0 => mpc \in {"collect", "drop_bit"}
  /\ mpc = "drop_bit" => tasks > 0

\* The Wakers that hold a reference.
Referring == {h \in Handles : hpc[h] \in {"live", "push", "epoch", "fault"}}

\* rc counts the Wakers and the runtime's own reference; the last to release it
\* is the only one to deallocate.
Deallocating(w) == wpc[w] \in {"dealloc", "unwind_dealloc"}
References ==
  /\ rc = Cardinality(Referring) + (IF runtime_ref THEN 1 ELSE 0)
  /\ freed => rc = 0
  /\ \A w \in Workers : Deallocating(w) => rc = 0 /\ ~freed
  /\ \A h \in Handles : hpc[h] = "dealloc" => rc = 0 /\ ~freed
  /\ mpc = "dealloc" => rc = 0 /\ ~freed
  /\ \A u, v \in Workers : Deallocating(u) /\ Deallocating(v) => u = v
  /\ \A h, g \in Handles : hpc[h] = "dealloc" /\ hpc[g] = "dealloc" => h = g
  /\ \A h \in Handles, w \in Workers : ~(hpc[h] = "dealloc" /\ Deallocating(w))
  /\ mpc = "dealloc" => \A h \in Handles : hpc[h] # "dealloc"

\* DROPPED is set, then the future dropped, then the reference released.
Dropping ==
  /\ DROPPED \notin status => drops = 0
  /\ \A w \in Workers : wpc[w] = "drop" => drops = 0
  /\ mpc = "drop" => drops = 0
  /\ DROPPED \in status => \/ drops = 1
                           \/ mpc = "drop"
                           \/ \E w \in Workers : wpc[w] = "drop"

\* A wake() nobody has answered is recorded in NOTIFIED until the poll is about
\* to start, and a muted task has an owner while the workers may still run.
Recorded ==
  owed /\ runtime_ref /\ DROPPED \notin status
     => NOTIFIED \in status \/ \E w \in Workers : wpc[w] = "poll"
MutedIsOwned ==
  MUTED \in status /\ runtime_ref /\ mpc \in {"join", "on_shutdown"} => Owned

\* Inductive part that does not depend on who wakes the task.
Inv ==
  /\ TypeOK
  /\ Exclusive
  /\ OwnerMuted
  /\ Stages
  /\ References
  /\ Dropping
  /\ Recorded

\* All of it: what poll, wake(), the wakers' drops and the clean-up keep true
\* between any two of their atomic steps.
IInv == Inv /\ MutedIsOwned

-----------------------------------------------------------------------------
(* The stage of the task in the sense of TaskLife.                         *)
IsRunning  == \E w \in Workers : wpc[w] \in {"polling", "cas", "ready"}
IsPanicked == ~runtime_ref \/ \E w \in Workers : wpc[w] = "unwind"
Life == IF DROPPED \in status THEN "done"
        ELSE IF IsPanicked THEN "panicked"
        ELSE IF IsRunning THEN "running"
        ELSE IF MUTED \in status THEN "scheduled" ELSE "idle"

Lives == INSTANCE TaskLife WITH life <- Life

\* What the documentation of Task asks of wake() and poll, seen from outside: a
\* poll starts only from "scheduled", the task falls asleep only if no wake() has
\* come in since its poll began, and a finished task stays finished.
LifeSpec == Lives!Spec
=============================================================================
