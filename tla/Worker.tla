------------------------------- MODULE Worker -------------------------------
(***************************************************************************)
(* The scheduler of the multi-threaded runtime: Worker::main_loop, spawn,  *)
(* defer, stealing, the Epoch barrier on which idle workers park, and      *)
(* shutdown (yaay-mt-runtime/src/worker.rs, epoch.rs, and the producers in *)
(* task.rs, batch.rs, runtime.rs and worker_manager.rs).                   *)
(*                                                                         *)
(* A step is one atomic operation on the Epoch word, one locked section of *)
(* a queue, or one operation on the parking lot.  Tasks are opaque here:   *)
(* module Task shows that a task is in one place at a time, and a wake()   *)
(* of a task that is being polled only prolongs that poll.                 *)
(***************************************************************************)
EXTENDS Integers, Sequences, FiniteSets

CONSTANTS
  N,             \* number of workers
  Tasks,         \* ordinary tasks
  FirstTask,     \* async_main
  Producers,     \* threads outside the runtime that call wake() or push_batch()
  Main,          \* the thread that called run_with
  EPOCH,         \* the '1' of the epoch in the packed word: 2^9 in the code
  EpochMod,      \* 2^23 in the code
  StealAttempts, \* 4 * n_workers in the code
  MaxWakes,      \* bound: calls of wake() on an idle task
  MaxShutdowns,  \* bound: calls of shutdown_async()
  MaxPanics      \* bound: polls that end in a panic

Workers  == 0 .. N - 1
Threads  == Workers \cup Producers \cup {Main}
Shutdown == "Shutdown"
NoTask   == "none"
Items    == Tasks \cup {Shutdown}

ASSUME NAssumption == N \in Nat \ {0}
ASSUME TasksAssumption == FirstTask \in Tasks /\ Shutdown \notin Tasks /\ NoTask \notin Tasks
ASSUME ThreadsAssumption == Producers \cap Workers = {} /\ Main \notin Workers \cup Producers
ASSUME EPOCHAssumption == EPOCH \in Nat /\ N < EPOCH
ASSUME EpochModAssumption == EpochMod \in Nat /\ EpochMod > 1
ASSUME BoundsAssumption == /\ StealAttempts \in Nat \ {0}
                           /\ MaxWakes \in Nat
                           /\ MaxShutdowns \in Nat
                           /\ MaxPanics \in Nat

VARIABLES
  epoch, active,          \* the two counters of the Epoch word
  queue,                  \* Shared.task_list of each worker
  shutdown,               \* Private.shutdown of each worker
  pc,                     \* where each worker is in main_loop
  held,                   \* the task a worker has popped
  old_epoch, old_active,  \* the local old_status
  since,                  \* next_epoch() calls since old_status was read
  tries,                  \* steal attempts left in this round
  victim,                 \* the worker whose queue looked non-empty
  npc,                    \* where a thread is in a push loop, next_epoch(), unpark_all()
  todo,                   \* what a thread has still to push, per target
  worker_id,              \* Task.worker_id
  idle, unborn,           \* tasks that are pending, and names free for new tasks
  wakes, shutdowns, panics  \* how much of the bounds is used up

epochVars == <<epoch, active>>
oldVars   == <<old_epoch, old_active, since>>
stealVars == <<tries, victim>>
notify    == <<npc, todo>>
taskVars  == <<worker_id, idle, unborn, wakes, shutdowns, panics>>
vars == <<epochVars, queue, shutdown, pc, held, oldVars, stealVars, notify, taskVars>>

\* A worker is counted in `active` in these states; one whose thread has ended,
\* by a return from main_loop or by a panic, still is.
ActivePCs  == {"drain", "inactive", "poll", "exited"}
\* In these states old_status may still be used to park.
WaitPCs    == {"repop", "recheck", "wait", "park"}
WorkerPCs  == ActivePCs \cup WaitPCs \cup {"steal", "stealing", "parked", "update", "active"}
NotifyPCs  == {"none", "check", "push", "epoch", "unpark"}

EmptyTodo == [v \in Workers |-> <<>>]

\* Epoch::new(n), Worker::new, and the main thread about to run WorkerGuard::run.
Init ==
  /\ epoch = 0 /\ active = N
  /\ queue = [w \in Workers |-> <<>>]
  /\ shutdown = [w \in Workers |-> FALSE]
  /\ pc = [w \in Workers |-> "drain"]
  /\ held = [w \in Workers |-> NoTask]
  /\ old_epoch = [w \in Workers |-> 0]
  /\ old_active = [w \in Workers |-> 0]
  /\ since = [w \in Workers |-> 0]
  /\ tries = [w \in Workers |-> 0]
  /\ victim = [w \in Workers |-> 0]
  /\ npc = [x \in Threads |-> IF x = Main THEN "push" ELSE "none"]
  /\ todo = [x \in Threads |->
               IF x = Main THEN [EmptyTodo EXCEPT ![0] = <<FirstTask>>] ELSE EmptyTodo]
  /\ worker_id = [t \in Tasks |-> 0]
  /\ idle = {} /\ unborn = Tasks \ {FirstTask}
  /\ wakes = 0 /\ shutdowns = 0 /\ panics = 0

-----------------------------------------------------------------------------
(* main_loop.                                                              *)

Goto(w, next) == pc' = [pc EXCEPT ![w] = next]

\* pop_front on the queue of v by w, which goes on at `next` with the task.
Take(w, v, next) ==
  /\ queue[v] # <<>>
  /\ held' = [held EXCEPT ![w] = Head(queue[v])]
  /\ queue' = [queue EXCEPT ![v] = Tail(@)]
  /\ Goto(w, next)

\* pop_front on the worker's own queue finds nothing.
NoneLeft(w, next) ==
  /\ queue[w] = <<>>
  /\ Goto(w, next)
  /\ UNCHANGED <<queue, held>>

Drain(w) ==
  /\ pc[w] = "drain"
  /\ Take(w, w, "poll") \/ NoneLeft(w, "inactive")
  /\ UNCHANGED <<epochVars, shutdown, oldVars, stealVars, notify, taskVars>>

\* The head of the 'task loop for a status with count a.
StealOrRecheck(a) == IF a # 0 THEN "steal" ELSE "recheck"

\* old_status becomes the given pair.
Remember(w, e, a) ==
  /\ old_epoch' = [old_epoch EXCEPT ![w] = e]
  /\ old_active' = [old_active EXCEPT ![w] = a]
  /\ since' = [since EXCEPT ![w] = 0]

\* Mutant: set_inactive() returns the word from before its fetch_sub.
SetInactivePrev(w) ==
  /\ pc[w] = "inactive"
  /\ active' = active - 1
  /\ Remember(w, epoch, active)
  /\ Goto(w, StealOrRecheck(active))
  /\ tries' = [tries EXCEPT ![w] = StealAttempts]
  /\ UNCHANGED <<epoch, queue, shutdown, held, victim, notify, taskVars>>

\* get_instant() and set_inactive().  Time is counted from the status, which is
\* read after the instant: that grants the elapsed check less than the code has.
SetInactive(w) ==
  /\ pc[w] = "inactive"
  /\ active' = active - 1
  /\ Remember(w, epoch, active - 1)
  /\ Goto(w, StealOrRecheck(active - 1))
  /\ tries' = [tries EXCEPT ![w] = StealAttempts]
  /\ UNCHANGED <<epoch, queue, shutdown, held, victim, notify, taskVars>>

\* After an attempt that yielded nothing.
StealFailed(w) ==
  /\ tries' = [tries EXCEPT ![w] = @ - 1]
  /\ Goto(w, IF tries[w] = 1 THEN "update" ELSE "steal")
  /\ UNCHANGED <<queue, held>>

\* try_steal up to the is_empty() hint; any other worker may be the victim.
StealHint(w, v) ==
  /\ pc[w] = "steal"
  /\ v # w
  /\ \/ queue[v] = <<>> /\ StealFailed(w) /\ UNCHANGED victim
     \/ /\ queue[v] # <<>>
        /\ Goto(w, "stealing")
        /\ victim' = [victim EXCEPT ![w] = v]
        /\ UNCHANGED <<queue, held, tries>>
  /\ UNCHANGED <<epochVars, shutdown, oldVars, notify, taskVars>>

\* The locked pop_front of try_steal, and set_worker_id.
StealPop(w) ==
  /\ pc[w] = "stealing"
  /\ \/ /\ Take(w, victim[w], "active")
        /\ worker_id' = [t \in Tasks |-> IF t = held'[w] THEN w ELSE worker_id[t]]
        /\ UNCHANGED tries
     \/ /\ queue[victim[w]] = <<>>
        /\ StealFailed(w)
        /\ UNCHANGED worker_id
  /\ victim' = [victim EXCEPT ![w] = 0]
  /\ UNCHANGED <<epochVars, shutdown, oldVars, notify, idle, unborn, wakes, shutdowns,
                 panics>>

\* Mutant: the own queue is not rechecked before parking.
RecheckNot(w) ==
  /\ pc[w] = "recheck"
  /\ Goto(w, "wait")
  /\ UNCHANGED <<epochVars, queue, shutdown, held, oldVars, stealVars, notify, taskVars>>

\* No worker is active: look into the own queue before parking.
Recheck(w) ==
  /\ pc[w] = "recheck"
  /\ Take(w, w, "active") \/ NoneLeft(w, "wait")
  /\ UNCHANGED <<epochVars, shutdown, oldVars, stealVars, notify, taskVars>>

Current(w) == epoch = old_epoch[w] /\ active = old_active[w]

\* The load of wait_next_epoch.
WaitNextEpoch(w) ==
  /\ pc[w] = "wait"
  /\ Goto(w, IF Current(w) THEN "park" ELSE "update")
  /\ since' = [since EXCEPT ![w] = IF Current(w) THEN @ ELSE 0]
  /\ UNCHANGED <<epochVars, queue, shutdown, held, old_epoch, old_active, stealVars, notify,
                 taskVars>>

\* Mutant: validate does not look at the clock.
MayParkAnytime(w) == Current(w)

\* validate succeeds: the status is unchanged and MAX_DURATION has not elapsed.
\* EpochMod calls of next_epoch() take longer than MAX_DURATION.
MayPark(w) == Current(w) /\ since[w] < EpochMod

\* park(): validate and the enqueueing are one critical section of the parking
\* lot.  It may return at once at any time, because MAX_DURATION has elapsed or
\* the weak exchange fails spuriously.
Park(w) ==
  /\ pc[w] = "park"
  /\ \/ MayPark(w) /\ Goto(w, "parked")
     \/ Goto(w, "update")
  /\ since' = [since EXCEPT ![w] = 0]
  /\ UNCHANGED <<epochVars, queue, shutdown, held, old_epoch, old_active, stealVars, notify,
                 taskVars>>

\* get_instant() and get_status() at the end of a round.
UpdateStatus(w) ==
  /\ pc[w] = "update"
  /\ Goto(w, IF epoch > old_epoch[w] THEN "repop" ELSE StealOrRecheck(active))
  /\ Remember(w, epoch, active)
  /\ tries' = [tries EXCEPT ![w] = StealAttempts]
  /\ UNCHANGED <<epochVars, queue, shutdown, held, victim, notify, taskVars>>

\* Mutant: a task found in the own queue is polled without set_active().
RepopInactive(w) ==
  /\ pc[w] = "repop"
  /\ Take(w, w, "poll") \/ NoneLeft(w, StealOrRecheck(old_active[w]))
  /\ UNCHANGED <<epochVars, shutdown, oldVars, stealVars, notify, taskVars>>

\* The epoch has moved: try the own queue before the next round.
Repop(w) ==
  /\ pc[w] = "repop"
  /\ Take(w, w, "active") \/ NoneLeft(w, StealOrRecheck(old_active[w]))
  /\ UNCHANGED <<epochVars, shutdown, oldVars, stealVars, notify, taskVars>>

\* Mutant: set_active() does not unpark anyone.
SetActiveSilent(w) ==
  /\ pc[w] = "active"
  /\ active' = active + 1
  /\ Goto(w, "poll")
  /\ Remember(w, 0, 0)
  /\ tries' = [tries EXCEPT ![w] = 0]
  /\ UNCHANGED <<epoch, queue, shutdown, held, victim, notify, taskVars>>

SetActive(w) ==
  /\ pc[w] = "active"
  /\ active' = active + 1
  /\ npc' = [npc EXCEPT ![w] = IF active = 0 THEN "unpark" ELSE "none"]
  /\ Goto(w, "poll")
  /\ Remember(w, 0, 0)
  /\ tries' = [tries EXCEPT ![w] = 0]
  /\ UNCHANGED <<epoch, queue, shutdown, held, victim, todo, taskVars>>

-----------------------------------------------------------------------------
(* What the future of the held task may do while it is polled.             *)

Polling(w) == pc[w] = "poll" /\ npc[w] = "none"

\* Task::new.
NewTask(t) ==
  /\ t \in unborn
  /\ unborn' = unborn \ {t}
  /\ worker_id' = [worker_id EXCEPT ![t] = 0]

\* spawn to another worker: push_back, then next_epoch().
SpawnOther(w, t, v) ==
  /\ Polling(w) /\ held[w] \in Tasks
  /\ NewTask(t) /\ v # w
  /\ queue' = [queue EXCEPT ![v] = Append(@, t)]
  /\ npc' = [npc EXCEPT ![w] = "epoch"]
  /\ UNCHANGED <<epochVars, shutdown, pc, held, oldVars, stealVars, todo, idle,
                 wakes, shutdowns, panics>>

\* spawn to the worker itself (push_back) or defer (push_front): no next_epoch().
SpawnSelf(w, t) ==
  /\ Polling(w) /\ held[w] \in Tasks
  /\ NewTask(t)
  /\ queue' \in {[queue EXCEPT ![w] = Append(@, t)], [queue EXCEPT ![w] = <<t>> \o @]}
  /\ UNCHANGED <<epochVars, shutdown, pc, held, oldVars, stealVars, notify, idle,
                 wakes, shutdowns, panics>>

\* shutdown_async: a Shutdown task for every worker.
ShutdownAsync(w) ==
  /\ Polling(w) /\ held[w] \in Tasks
  /\ shutdowns < MaxShutdowns
  /\ shutdowns' = shutdowns + 1
  /\ todo' = [todo EXCEPT ![w] = [v \in Workers |-> <<Shutdown>>]]
  /\ npc' = [npc EXCEPT ![w] = "push"]
  /\ UNCHANGED <<epochVars, queue, shutdown, pc, held, oldVars, stealVars, worker_id,
                 idle, unborn, wakes, panics>>

\* Mutant: the request is not passed on, as every worker has got a Shutdown task.
PollShutdownAlone(w) ==
  /\ Polling(w) /\ held[w] = Shutdown
  /\ ~shutdown[w]
  /\ shutdown' = [shutdown EXCEPT ![w] = TRUE]
  /\ npc' = [npc EXCEPT ![w] = "epoch"]
  /\ UNCHANGED <<epochVars, queue, pc, held, oldVars, stealVars, todo, taskVars>>

\* Shutdown::poll: set the own flag, then pass the request on.
PollShutdown(w) ==
  /\ Polling(w) /\ held[w] = Shutdown
  /\ ~shutdown[w]
  /\ shutdown' = [shutdown EXCEPT ![w] = TRUE]
  /\ todo' = [todo EXCEPT ![w] = [v \in Workers |-> IF v = w THEN <<>> ELSE <<Shutdown>>]]
  /\ npc' = [npc EXCEPT ![w] = IF N = 1 THEN "epoch" ELSE "check"]
  /\ UNCHANGED <<epochVars, queue, pc, held, oldVars, stealVars, taskVars>>

\* Task::poll returns: the task is pending, or done and its name free for another;
\* then main_loop tests the flag.
PollReturns(w) ==
  LET polled == {held[w]} \cap Tasks IN
  /\ Polling(w)
  /\ held[w] = Shutdown => shutdown[w]
  /\ \/ idle' = idle \cup polled /\ UNCHANGED unborn
     \/ unborn' = unborn \cup polled /\ UNCHANGED idle
  /\ held' = [held EXCEPT ![w] = NoTask]
  /\ Goto(w, IF shutdown[w] THEN "exited" ELSE "drain")
  /\ UNCHANGED <<epochVars, queue, shutdown, oldVars, stealVars, notify, worker_id,
                 wakes, shutdowns, panics>>

\* The future panics: main_loop unwinds and the thread ends, without set_inactive()
\* and without a word to anyone; run_with ignores the result of its join().  What
\* becomes of the task is the subject of module Task.
PollPanics(w) ==
  /\ Polling(w) /\ held[w] \in Tasks
  /\ panics < MaxPanics
  /\ panics' = panics + 1
  /\ held' = [held EXCEPT ![w] = NoTask]
  /\ Goto(w, "exited")
  /\ UNCHANGED <<epochVars, queue, shutdown, oldVars, stealVars, notify, worker_id,
                 idle, unborn, wakes, shutdowns>>

-----------------------------------------------------------------------------
(* Threads that schedule tasks: push, next_epoch(), unpark_all().          *)

\* wake() of an idle task on a thread of its own or on a reactor: the task is
\* claimed and put aside for worker worker_id.
Wake(p, t) ==
  /\ npc[p] = "none"
  /\ t \in idle
  /\ wakes < MaxWakes
  /\ wakes' = wakes + 1
  /\ idle' = idle \ {t}
  /\ todo' = [todo EXCEPT ![p][worker_id[t]] = Append(@, t)]
  /\ UNCHANGED <<epochVars, queue, shutdown, pc, held, oldVars, stealVars, npc, worker_id,
                 unborn, shutdowns, panics>>

\* A push loop takes its targets in order; Shutdown::poll tests the flag of each
\* target first.
IsNext(x, v) == todo[x][v] # <<>> /\ \A u \in Workers : u < v => todo[x][u] = <<>>
AfterTarget(x, v) ==
  IF \A u \in Workers \ {v} : todo[x][u] = <<>> THEN "epoch"
  ELSE IF x \in Workers /\ held[x] = Shutdown THEN "check" ELSE "push"

\* Shutdown::poll reads another worker's flag, and passes over it if it is set.
LoadFlag(x, v) ==
  /\ npc[x] = "check"
  /\ IsNext(x, v)
  /\ IF shutdown[v]
       THEN /\ todo' = [todo EXCEPT ![x][v] = <<>>]
            /\ npc' = [npc EXCEPT ![x] = AfterTarget(x, v)]
       ELSE /\ npc' = [npc EXCEPT ![x] = "push"]
            /\ UNCHANGED todo
  /\ UNCHANGED <<epochVars, queue, shutdown, pc, held, oldVars, stealVars, taskVars>>

\* One locked section of a push loop.  Shutdown tasks go to the front.
Push(x, v) ==
  /\ npc[x] \in {"none", "push"}
  /\ IsNext(x, v)
  /\ todo' = [todo EXCEPT ![x][v] = <<>>]
  /\ queue' = [queue EXCEPT ![v] = IF todo[x][v] = <<Shutdown>> THEN todo[x][v] \o @
                                                                ELSE @ \o todo[x][v]]
  /\ npc' = [npc EXCEPT ![x] = AfterTarget(x, v)]
  /\ UNCHANGED <<epochVars, shutdown, pc, held, oldVars, stealVars, taskVars>>

\* One next_epoch() more since the status that worker w may park on was read.
Since(w) == IF pc[w] \in WaitPCs /\ since[w] < EpochMod THEN since[w] + 1 ELSE since[w]

\* Mutant: the counter runs into bits it does not have.
NextEpochNoWrap(x) ==
  /\ npc[x] = "epoch"
  /\ epoch' = epoch + 1
  /\ since' = [w \in Workers |-> Since(w)]
  /\ npc' = [npc EXCEPT ![x] = IF active = 0 THEN "unpark" ELSE "none"]
  /\ UNCHANGED <<active, queue, shutdown, pc, held, old_epoch, old_active, stealVars, todo,
                 taskVars>>

\* The fetch_add of next_epoch(): the counter wraps.
NextEpoch(x) ==
  /\ npc[x] = "epoch"
  /\ epoch' = IF epoch + 1 = EpochMod THEN 0 ELSE epoch + 1
  /\ since' = [w \in Workers |-> Since(w)]
  /\ npc' = [npc EXCEPT ![x] = IF active = 0 THEN "unpark" ELSE "none"]
  /\ UNCHANGED <<active, queue, shutdown, pc, held, old_epoch, old_active, stealVars, todo,
                 taskVars>>

\* wake_all_slow: every worker in the parking lot goes on.
UnparkAll(x) ==
  /\ npc[x] = "unpark"
  /\ pc' = [w \in Workers |-> IF pc[w] = "parked" THEN "update" ELSE pc[w]]
  /\ npc' = [npc EXCEPT ![x] = "none"]
  /\ UNCHANGED <<epochVars, queue, shutdown, held, oldVars, stealVars, todo, taskVars>>

-----------------------------------------------------------------------------
LoopStep(w) ==
  \/ Drain(w) \/ SetInactive(w) \/ StealPop(w) \/ Recheck(w) \/ WaitNextEpoch(w)
  \/ Park(w) \/ UpdateStatus(w) \/ Repop(w) \/ SetActive(w)
  \/ PollShutdown(w) \/ PollReturns(w)
  \/ \E v \in Workers : StealHint(w, v)

PollOp(w) ==
  \/ ShutdownAsync(w) \/ PollPanics(w)
  \/ \E t \in Tasks : SpawnSelf(w, t) \/ \E v \in Workers : SpawnOther(w, t, v)

NotifyStep(x) ==
  \/ NextEpoch(x) \/ UnparkAll(x)
  \/ \E v \in Workers : LoadFlag(x, v) \/ Push(x, v)

Next ==
  \/ \E w \in Workers : LoopStep(w) \/ PollOp(w)
  \/ \E x \in Threads : NotifyStep(x)
  \/ \E p \in Producers, t \in Tasks : Wake(p, t)

Spec == Init /\ [][Next]_vars

(* Threads keep running and polls return.                                  *)
Fairness ==
  /\ \A w \in Workers : WF_vars(LoopStep(w))
  /\ \A x \in Threads : WF_vars(NotifyStep(x))

FairSpec == Spec /\ Fairness

-----------------------------------------------------------------------------
(* Properties.                                                             *)

\* Every variable stays within its type; the epoch counter stays within its
\* bits and the active count between 0 and the number of workers, so that
\* neither counter of the packed Epoch word ever spills into the other.
TypeOK ==
  /\ epoch \in 0 .. EpochMod - 1
  /\ active \in 0 .. N
  /\ queue \in [Workers -> Seq(Items)]
  /\ shutdown \in [Workers -> BOOLEAN]
  /\ pc \in [Workers -> WorkerPCs]
  /\ held \in [Workers -> Items \cup {NoTask}]
  /\ old_epoch \in [Workers -> 0 .. EpochMod - 1]
  /\ old_active \in [Workers -> 0 .. N]
  /\ since \in [Workers -> 0 .. EpochMod]
  /\ tries \in [Workers -> 0 .. StealAttempts]
  /\ victim \in [Workers -> Workers]
  /\ npc \in [Threads -> NotifyPCs]
  /\ todo \in [Threads -> [Workers -> Seq(Items)]]
  /\ worker_id \in [Tasks -> Workers]
  /\ idle \in SUBSET Tasks
  /\ unborn \in SUBSET Tasks
  /\ wakes \in 0 .. MaxWakes
  /\ shutdowns \in 0 .. MaxShutdowns
  /\ panics \in 0 .. MaxPanics

\* Lemma A of epoch.rs, as a safety property: while a worker is parked and the
\* active count is not 0, some thread is about to call unpark_all().
LemmaA ==
  (active # 0 /\ \E w \in Workers : pc[w] = "parked") => \E x \in Threads : npc[x] = "unpark"

\* Lemma D of epoch.rs, for every parked worker and not only when all are: no
\* task waits in the queue of a parked worker unless a thread is still on its
\* way to next_epoch() or unpark_all().
NoLostWakeup ==
  \A w \in Workers :
    pc[w] = "parked" /\ queue[w] # <<>> => \E x \in Threads : npc[x] # "none"

\* "Should only be called from a currently inactive (active) worker thread"
\* (set_active, set_inactive): the active count is the number of workers that
\* are not looking for work, those that have left main_loop included.
ActiveExact == active = Cardinality({w \in Workers : pc[w] \in ActivePCs})

InQueue(t, w) == \E i \in 1 .. Len(queue[w]) : queue[w][i] = t

Queued(t) == \E w \in Workers : InQueue(t, w)
Taken(t)  == \E w \in Workers : held[w] = t

\* Lemma C of epoch.rs, "After invoking epoch.next_epoch(), all worker threads would
\* eventually check its local queue": a worker whose queue is not empty comes to one
\* of its own pops (or leaves main_loop, or others empty the queue); this is also what
\* ends a shutdown, whose tasks wait in the queues of the workers.  Once inactive
\* it does so only when the epoch has grown since its last look or when nobody is
\* active, and the push may have come just before that look.
LemmaC ==
  \A w \in Workers :
    queue[w] # <<>> ~> (queue[w] = <<>> \/ pc[w] \in {"drain", "recheck", "repop", "exited"})


\* try_steal divides by n_workers - 1.  A worker gets there only after it has seen at
\* least one active worker and never itself among them, although others move the
\* count meanwhile; a lone worker therefore never gets there.
StealNeedsOthers ==
  \A w \in Workers : pc[w] \in {"steal", "stealing"} => old_active[w] \in 1 .. (N - 1)

\* A Shutdown task is in the queue of worker v, is about to be pushed there, or is in
\* the hands of a worker that will push another one there when it polls it.
ShutdownAhead(v) ==
  \/ InQueue(Shutdown, v)
  \/ \E w \in Workers : \/ todo[w][v] = <<Shutdown>>
                        \/ held[w] = Shutdown /\ ~shutdown[w]

\* "A future for shutdown the whole runtime" (worker.rs): once shutdown_async() was
\* called, every worker has its flag set or a Shutdown task ahead, although its own
\* may be stolen by a worker that sets the wrong flag with it, and although
\* Shutdown::poll reads the flags of the others before it pushes.
ShutdownNotLost == shutdowns > 0 => \A v \in Workers : shutdown[v] \/ ShutdownAhead(v)

-----------------------------------------------------------------------------
(* The inductive invariant behind the safety properties.                   *)

ActiveWorkers == {w \in Workers : pc[w] \in ActivePCs}

\* old_epoch, moved on by k calls of next_epoch() with k < EpochMod.
Advance(e, k) == IF e + k >= EpochMod THEN e + k - EpochMod ELSE e + k

\* What a worker knows while it looks for work.
OldStatus ==
  \A w \in Workers :
    /\ pc[w] \in {"recheck", "wait", "park"} => old_active[w] = 0
    /\ pc[w] \in {"steal", "stealing"} => old_active[w] # 0
    /\ pc[w] \in {"steal", "stealing", "repop"} => tries[w] > 0
    /\ pc[w] \in WaitPCs /\ since[w] < EpochMod => epoch = Advance(old_epoch[w], since[w])

\* Only a worker that polls is pushing or notifying, and every push loop is over
\* before its next_epoch().
Quiet ==
  /\ \A w \in Workers : pc[w] # "poll" => npc[w] = "none"
  /\ \A w \in Workers : npc[w] = "none" => \A v \in Workers : todo[w][v] = <<>>
  /\ \A x \in Threads : npc[x] \in {"epoch", "unpark"} => \A v \in Workers : todo[x][v] = <<>>

\* A task that reaches the queue of a worker between its recheck and its parking
\* has its next_epoch() still to come, or has already made the worker's status old.
Watched ==
  \A w \in Workers :
    pc[w] \in {"wait", "park"} /\ queue[w] # <<>>
       => since[w] > 0 \/ \E x \in Threads : npc[x] \in {"check", "push", "epoch"}

\* A worker is not among the active ones of the status that it remembers.
OthersActive == \A w \in Workers : old_active[w] < N

\* A worker with a Shutdown task is about to poll it, and pops nothing after its flag.
ShutdownStage ==
  \A w \in Workers :
    /\ held[w] = Shutdown => pc[w] \in {"active", "poll"}
    /\ shutdown[w] => pc[w] \in {"poll", "exited"}

\* The invariant that main_loop and next_epoch() keep between atomic steps.
IInv ==
  /\ TypeOK
  /\ ActiveExact
  /\ OldStatus
  /\ Quiet
  /\ LemmaA
  /\ Watched
  /\ NoLostWakeup
  /\ OthersActive
  /\ ShutdownStage
  /\ ShutdownNotLost

-----------------------------------------------------------------------------
(* The packed word.                                                        *)
Packed == INSTANCE EpochWord WITH status <- epoch * EPOCH + active

\* Neither counter of the 32-bit word ever disturbs the other: with the epoch
\* wrapping and workers coming and going, every step of the pair is one
\* fetch_add or fetch_sub on the word, called as the comments of set_active()
\* and set_inactive() demand.
WordSpec == Packed!Spec
=============================================================================
